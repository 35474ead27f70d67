CONSTANTS
  Readers = {r1, r2}
  Msgs = {a, b}
  Torn = Torn
  Cap = 2
  MaxPush = 3
SPECIFICATION BackendSpec
INVARIANTS
  BackendInOrder
  BackendRaceFree
PROPERTIES
  BackendTape
  BackendDrains
