\* A directory that comes between the first look at keys/ and the watch.
SPECIFICATION Spec
CONSTANTS
  Key = {k1, k2}
  Bridge = {b1, b2}
  Cli = {c1}
  NoKey = NoKey
  Late = TRUE
  Twice = FALSE
  MaxChanges = 1
  MaxDeaths = 0
INVARIANT TokensMatch
