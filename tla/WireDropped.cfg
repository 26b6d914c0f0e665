\* The handler of one request is dropped, and another request follows.
SPECIFICATION Spec
CONSTANTS
  None = None
  Lengths = {1, 3, 4, 6}
  MaxSize = 3
  Wrap = 5
  MaxRequests = 2
  MaxProbes = 0
  MaxTime = 5
  HeaderTime = 1
  PartTime = 2
INVARIANTS
  OwnResponse
CHECK_DEADLOCK FALSE
