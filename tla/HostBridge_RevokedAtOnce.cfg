\* A directory that goes while a sync is about to look at it.
SPECIFICATION Spec
CONSTANTS
  Key = {k1, k2}
  Bridge = {b1, b2}
  Cli = {c1}
  NoKey = NoKey
  Late = FALSE
  Twice = FALSE
  MaxChanges = 3
  MaxDeaths = 0
INVARIANT RevokedAtOnce
