\* One master, two workers, a prompt beyond the frame limit, a dialog that
\* runs beyond the tables, restarts of the master and of the workers, under
\* the fairness of the executor.
SPECIFICATION FairSpec
CONSTANTS
  m1 = m1
  m2 = m2
  w1 = w1
  w2 = w2
  Local = Local
  Zero = Zero
  Masters = {m1}
  Workers = {w1, w2}
  NumLayers = 4
  Owner <- OwnerSplit
  Loaded <- LoadedAll
  PromptLens = {1, 2, 3}
  SampleLen = 3
  MaxSeq = 3
  MaxFrame = 2
  MaxChats = 2
  MaxLoads = 2
  MaxFaults = 2
INVARIANTS
  ForwardExact
  NoLostWait
PROPERTIES
  ImplementsGeneration
  ChatTerminates
CHECK_DEADLOCK FALSE
