\* The list, the list as an implementation of the queue, and delivery.
SPECIFICATION FairSpec
CONSTANTS
  Block = {b1, b2, b3, b4}
  Id = {m1, m2}
  NULL = NULL
  NoId = NoId
  MaxSends = 4
\* Panic() exits, and an empty loop with nothing left to post only spins.
CHECK_DEADLOCK FALSE
INVARIANTS TypeOK ListShape NodesAccountedFor InOrder
PROPERTIES NoUseAfterFree ImplementsQueue EveryMessageDelivered
