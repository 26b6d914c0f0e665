\* Two masters share one worker that owns two of three layers, as two batches.
SPECIFICATION Spec
CONSTANTS
  m1 = m1
  m2 = m2
  w1 = w1
  w2 = w2
  Local = Local
  Zero = Zero
  Masters = {m1, m2}
  Workers = {w1}
  NumLayers = 3
  Owner <- OwnerTwice
  Loaded <- LoadedAll
  PromptLens = {2}
  SampleLen = 2
  MaxSeq = 3
  MaxFrame = 2
  MaxChats = 2
  MaxLoads = 1
  MaxFaults = 1
SYMMETRY MasterSymmetry
INVARIANTS
  TypeOK
  CacheExact
  SingleFlight
  TokensExact
CHECK_DEADLOCK FALSE
