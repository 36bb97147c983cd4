SPECIFICATION Spec
CONSTANTS
  Device = {d1, d2, d3, d4}
  N = 3
  NoRecord = NoRecord
  Unused = Unused
  Modes = {{"add", "delete", "mru", "deleteAll", "evict", "crash"}, {"keys", "deleteAll", "unbond", "evict", "full", "crash"}, {"add", "delete", "deleteAll", "priority", "evict", "full", "debug"}, {"add", "delete", "priority", "attr"}, {"add", "delete", "trust", "evict"}}
  MaxCrash = 1
INVARIANTS TypeOK OneEntryPerDevice IndexInStep Registered PriorityFirst AttributesFollow
PROPERTIES BootCompletes ImplementsMruList
