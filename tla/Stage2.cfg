SPECIFICATION Spec
CONSTANTS
  s1 = s1
  h1 = h1
  h2 = h2
  OldMounts <- ThreeMounts
  Swaps = {s1}
  Holders = {h1}
  CanFail <- Everything
INVARIANTS
  TypeOK
  EntryAfterUnmount
PROPERTIES
  DetachedOnlyWhenHeld
  ComesToSomething
  ShellForEver
