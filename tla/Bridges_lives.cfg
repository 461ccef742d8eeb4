\* One key, two bridges, one user; pings, signals and deaths at any moment.
SPECIFICATION BridgesSpec
CONSTANTS
  Key = {k1}
  Bridge = {b1, b2}
  Cli = {c1}
  NoKey = NoKey
  Late = FALSE
  Twice = FALSE
  MaxChanges = 2
  MaxDeaths = 1
  Beside = FALSE
  MaxPings = 2
  MaxHand = 1
INVARIANTS TokensMatch Findable NeverLeaks
PROPERTY SleepsAgain
