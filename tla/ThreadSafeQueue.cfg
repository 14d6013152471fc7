\* Three threads that make any calls, two items, capacity two.
CONSTANTS
  Thread = {t1, t2, t3}
  Item = {a, b}
  NoItem = NoItem
  max_size_ = 2
SPECIFICATION FairSpec
INVARIANTS
  TypeOK
  NoLostNotEmpty
  NoLostNotFull
  SleeperIsOwedNotify
PROPERTIES
  ShutdownReleases
  TryPopReturns
  ImplementsFifo
