SPECIFICATION Spec
CONSTANTS
  MaxFrame = 60
  BufSize = 130
  Scripts <- MCScripts
  Chunks = {1, 7, 45}
INVARIANTS
  Reassembled
  SessionEndsForAReason
  
PROPERTIES
  Delivered
