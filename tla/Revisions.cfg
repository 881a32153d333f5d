SPECIFICATION RevisionsSpec
CONSTANTS
  Agents = {a1}
  Reviewers = {h1}
  Nobody = Nobody
  NoText = NoText
  Torn = Torn
  MaxTexts = 2
  MaxFailures = 2
  MaxTouches = 1
INVARIANTS
  NoDraftLost TokenNamesText RoundsComplete
  RoundsTrueAuthorUndisturbed MetaFieldsKept
PROPERTIES DeletedForGood ImplementsDocument
CHECK_DEADLOCK FALSE
VIEW Live
