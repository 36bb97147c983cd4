SPECIFICATION Spec
CONSTANTS
  None = None
  Hf = {"twc", "codec", "nrec", "bia", "cmee", "csrsf"}
  AgKinds <- MCStuck
  MaxGain = 1
  Capacity = 3
  MaxAgVolume = 1
PROPERTY NotStuck
CHECK_DEADLOCK FALSE
