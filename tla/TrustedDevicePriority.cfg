SPECIFICATION Spec
CONSTANTS
  Device = {d1, d2}
  N = 2
  NoRecord = NoRecord
  Unused = Unused
  Modes = {{"add", "deleteAll", "priority", "mru"}}
  MaxCrash = 0
PROPERTIES PriorityDevicesKept
