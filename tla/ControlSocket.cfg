CONSTANTS
  Size = 5
  Scripts <- AllScripts
SPECIFICATION Spec
INVARIANTS BufferInv FirstRequestHandled HandledInOrder
PROPERTIES RecoversAtNewline
