\* Profiles of up to three devices and four layers: scarce and ample memory, all algorithms, ties, and profiles that are refused.
SPECIFICATION Spec
CONSTANTS
  None = None
  RiskUnit = 2
  Profiles <- MCProfiles
INVARIANTS
  TypeOK
  ExactBest
  PlanOptimal
  GivesUpRightly
CHECK_DEADLOCK FALSE
