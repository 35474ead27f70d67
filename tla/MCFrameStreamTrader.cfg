SPECIFICATION Spec
CONSTANTS
  MaxFrame = 60
  BufSize = 130
  Scripts <- MCScripts
  Chunks = {1, 45}
INVARIANTS
  EndsOnlyAtEof
