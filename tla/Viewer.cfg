SPECIFICATION ViewerSpec
CONSTANTS
  Agents = {a1}
  Reviewers = {h1}
  Nobody = Nobody
  NoText = NoText
  Torn = Torn
  MaxTexts = 2
  MaxFailures = 0
  MaxTouches = 0
  MaxChains = 2
  MaxLost = 1
INVARIANTS CurrentUnlessCrossed
PROPERTIES StampsReachPage EditorIsWarned
VIEW LiveView
CHECK_DEADLOCK FALSE
