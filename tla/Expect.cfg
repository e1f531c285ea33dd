SPECIFICATION FairSpec
CONSTANTS
  Chunks <- OneByte
  Texts <- SomeTexts
  Regexes <- SomeRegexes
  TokenLists <- SomeTokens
  Arrays <- SomeArrays
  Remains <- SomeRemains
  Timeouts <- ForeverOrTwo
  TRIMEXPECT = 3
  MayWait = TRUE
  MaxArrived = 5
INVARIANTS FoundIsHeard FailedIsUnheard AccumIsHeard TokenIsNamed
PROPERTIES TimedWaitEnds ForeverFinds
CHECK_DEADLOCK FALSE
