SPECIFICATION Spec
CONSTANTS
  Threads = {t1, t2}
  Master = t1
  Layers = {0, 1}
  Setups <- MCSetups
  Prompts <- MCPrompts
  Bytes <- MCBytes
  Budget = 4
  MaxFaults = 1
INVARIANTS
  TypeOK
  HandedOnExact
  StaysGivenUp
  GivenUpForCause
  NpuRoom
  Q8Accounted
