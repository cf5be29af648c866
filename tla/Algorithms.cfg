SPECIFICATION AlgorithmsSpec
CONSTANTS
  Steps <- SomeSteps
  windowSize = 4
  maxRepeats = 2
  MaxSteps = 6
  Resources <- SomeResources
  MaxIntents = 3
  MaxTokensPerIntent = 4
  MaxResources = 6
  Characters <- SomeCharacters
  Docs <- SomeDocs
  NoFile = NoFile
  Texts <- SomeTexts
  MaxEdits = 2
  Messages <- SomeMessages
  MaxMessages = 6
  HistoryThreshold = 24
INVARIANTS NoLoopIsMissed PartitionIsWhole EditsAreSimultaneous RecentIsSent
CHECK_DEADLOCK FALSE
