SPECIFICATION FairSpec
CONSTANTS
  Streams = {s1, s2}
  NoStream = NoStream
  Ports = {mic, headset, hdmi}
  Detachable = {headset, hdmi}
  Rates <- TwoRates
  Usecases <- BothUsecases
  FailureSets <- Refusals
  SpuriousWakeups = TRUE
INVARIANTS RecordsAsAsked RecordsFromActivePort
PROPERTIES TakesTurns ReadsUndisturbed RequestAnswered
CHECK_DEADLOCK FALSE
