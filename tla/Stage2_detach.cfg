SPECIFICATION Spec
CONSTANTS
  s1 = s1
  h1 = h1
  h2 = h2
  OldMounts <- TwoMounts
  Swaps = {s1}
  Holders = {h1}
  CanFail <- Nothing
INVARIANTS
  OldRootIsReleased
