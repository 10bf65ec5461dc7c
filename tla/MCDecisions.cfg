SPECIFICATION Spec
CONSTANTS
  MaxQuestions = 3
  MaxOptions = 2
  MaxIdChars = 1
  MaxQuestionChars = 2
  MaxHeaderChars = 1
  MaxLabelChars = 2
  MaxDescriptionChars = 1
  MaxTotalChars = 5
  MaxToolNameChars = 90
  MaxReasonChars = 3
  Boxes = {b1, b2}
  Spellings = {lower, upper}
  Attempts <- MCAttempts
  Verdicts <- MCVerdicts
  Calls <- MCCalls
  Documents <- MCDocuments
  Headers <- MCHeaders
  Messages <- MCMessages
  TurnEvents <- MCTurnEvents
  ToolResults <- MCToolResults
  Reasons <- MCReasons
  Mails <- MCMails
  Approvals <- MCApprovals
  Exchanges <- MCExchanges
  Results <- MCResults
  Descriptions <- MCDescriptions
  answer = answer
  which = which
  why = why
  because = because
  MaxDroppedPaths = 2
  Values <- MCValuesLogged
  Emissions <- MCEmissions
  Notices <- MCNotices
  Cards <- MCCards
  Controls <- MCControls
  StoredValues <- MCStoredValues
INVARIANTS
  AttemptsAreJudgedTruly
  SilenceHasTheStrongestReason
  CarriedIsAffordablePrefix
  BoundariesAgree
  PayloadsAreReadStrictly
  EndsAreReadByTheirCode
  MailsSayWhatTheyHold
  CardPreviewsTheHost
  ThePreviewComesTrue
  TheLogIsHonest
  BuffersKeepTheLatest
  TheCardSaysWhatTheHostSaid
CHECK_DEADLOCK FALSE
