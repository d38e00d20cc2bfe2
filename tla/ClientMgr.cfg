CONSTANTS
  Ids = {c1}
  Addresses = {a1, a2}
  Ports = {p1, p2}
  Volumes = {0, 5}
  NumStreams = 2
  Name <- NamesApart
  HelloEvery = 3
  PurgeAfter = 10
  MaxLost = 2
  Pointers = {q1, q2, q3}
SPECIFICATION FairSpec
INVARIANTS RegistryInv StaysRegistered
PROPERTIES SettingsKept GoneIsPurged
