\* Three requests and a probe: lengths that fit, that are refused and that wrap; requests dropped at any await.
SPECIFICATION Spec
CONSTANTS
  None = None
  Lengths = {1, 3, 4, 6}
  MaxSize = 3
  Wrap = 5
  MaxRequests = 3
  MaxProbes = 1
  MaxTime = 5
  HeaderTime = 1
  PartTime = 2
INVARIANTS
  TypeOK
  HandledWhole
  Undisturbed
  RateLimited
CHECK_DEADLOCK FALSE
