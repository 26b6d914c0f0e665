\* Five masters: an NPU prefix with a remote layer behind it, short buckets, full NPU decode, NPU prefill, a shadow host.
SPECIFICATION FairSpec
CONSTANTS
  None = None
  Zero = Zero
  Deployments <- Deployed
  MaxSeq = 6
  MaxDialogs = 2
INVARIANTS
  TypeOK
  ContextExact
  ValidatedUse
  Survives
PROPERTIES
  PassEnds
CHECK_DEADLOCK FALSE
