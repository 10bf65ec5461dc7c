SPECIFICATION PollingSpec
CONSTANTS
  r2 = r2
  Refs = {r1, r2}
  Others = {v1, v2}
  DefaultRef = r1
  DefaultOther = v1
  Drafts = {r2}
  Secrets = {p1}
  Budget = 2
  MaxReads = 1
INVARIANTS
  SecretUnderTheSavedReference
PROPERTIES
  SavedMeansLanded
  DraftsSurvive
  SaveLandsOnWhatIsShown
  ControlsComeBack
  CardCatchesUp
CHECK_DEADLOCK FALSE
