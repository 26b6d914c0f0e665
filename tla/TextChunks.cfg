\* Twelve directories; two dialogs of up to four positions.
SPECIFICATION Spec
CONSTANTS
  Directories <- AllDirectories
  NumLayers = 3
  Heads = 2
  HeadDim = 2
  MaxPast = 4
  MaxDialogs = 2
  Zero = Zero
  None = None
INVARIANTS
  TypeOK
  CoveredOnce
  
  
CHECK_DEADLOCK FALSE
