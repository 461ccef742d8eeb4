\* A second devc-bridge run writes its tokens and finds the port in use.
SPECIFICATION Spec
CONSTANTS
  Key = {k1, k2}
  Bridge = {b1, b2}
  Cli = {c1}
  NoKey = NoKey
  Late = FALSE
  Twice = TRUE
  MaxChanges = 1
  MaxDeaths = 0
INVARIANT TokensMatch
