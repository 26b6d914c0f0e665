\* The twelve directories; prefill chunks with additions for the images.
SPECIFICATION Spec
CONSTANTS
  Directories <- AllDirectories
  NumLayers = 3
  Heads = 2
  HeadDim = 2
  MaxPast = 4
  MaxDialogs = 2
  Zero = Zero
  None = None
INVARIANT
  PrefillTaken
CHECK_DEADLOCK FALSE
