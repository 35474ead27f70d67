CONSTANTS
  MinPrice = 10
  MaxPrice = 16
  TickSize = 2
  MaxOrders = 3
  MaxEntries = 3
  MCIds = {1, 2, 3}
  Requests <- MCRequests
  Qtys = {1, 2}
  WordBits = 2
  Homes <- MCHomes
SPECIFICATION Spec
INVARIANTS
  AnswersAgree
  StructuresExact
PROPERTY BookRefined
