SPECIFICATION CliSpec
CONSTANTS
  Setups <- MCSetups
  Environments <- MCEnvironments
  KeysAround <- MCKeys
  AnswerSet <- MCAnswers
  Flags <- MCFlags
  RecursionLimit = 16
INVARIANTS BothSidesAreHeard NothingIsForgotten ConversationsAreOwn
INVARIANTS CountedReportsAreFinal WallTimesAddUp EnvironmentWins KeyFitsEndpointButGlm
PROPERTIES CompletedIsTrueAndLasts
CONSTRAINT RunOnce
CHECK_DEADLOCK FALSE
