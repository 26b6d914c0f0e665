\* Four layers over a master and two machines: agreed, edited and mismatched topologies, plans, and shadow hosts.
SPECIFICATION Spec
CONSTANTS
  None = None
  Master = Master
  H1 = H1
  H2 = H2
  Deployments <- Installations
INVARIANTS
  TypeOK
  PassIsModel
PROPERTIES
  AgreementServes
  ReportTrue
CHECK_DEADLOCK FALSE
