SPECIFICATION Spec
CONSTANTS
  None = None
  Hf = {"twc", "codec", "nrec", "bia", "cmee", "csrsf"}
  AgKinds <- MCAgKinds
  MaxGain = 1
  Capacity = 3
  MaxAgVolume = 1
INVARIANTS AnswersMatch ConnectConfirmedOnce ConfirmedAtMostOnce
  PendingVolumeWins VolumesAgree
PROPERTIES RequestsConfirmed SetupEnds
CHECK_DEADLOCK FALSE
