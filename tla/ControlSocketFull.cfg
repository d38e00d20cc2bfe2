CONSTANTS
  Size = 5
  Scripts <- AllScripts
SPECIFICATION Spec
PROPERTY OnlyFullLines
