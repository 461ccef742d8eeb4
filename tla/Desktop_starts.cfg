\* Two servers, one of them the app's child; two starts and two requests.
SPECIFICATION FairDesktopSpec
CONSTANTS
  Server = {s1, s2}
  Home = s1
  Races = FALSE
  MaxRuns = 2
  MaxDeaths = 1
  MaxAsks = 2
INVARIANT DrawerAgrees
PROPERTIES TrueOutcome StartsEnd AsksAreShown
CHECK_DEADLOCK FALSE
