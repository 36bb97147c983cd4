SPECIFICATION Spec
CONSTANTS
  None = None
  ag1 = ag1
  ag2 = ag2
  Device = {ag1, ag2}
  NumLinks = 2
  Service = {1, 2}
  Headset = {2}
  Calls <- MCCalls
  Asked = {ag1}
  LossCrossover = FALSE
  StaleSearch = FALSE
  MaxSearches = 2
INVARIANTS TypeOK OneLinkPerDevice PrioritiesInOrder ServicesAccountedFor
  ChannelsOwned ReconnectOnlyLost
PROPERTY AttemptsEnd
CHECK_DEADLOCK FALSE
