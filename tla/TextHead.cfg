\* The NPU decodes the first two layers.
SPECIFICATION Spec
CONSTANTS
  None = None
  Zero = Zero
  Deployments <- LocalTail
  MaxSeq = 6
  MaxDialogs = 2
INVARIANTS
  OutputIsLogits
CHECK_DEADLOCK FALSE
