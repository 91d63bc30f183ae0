SPECIFICATION Spec
CONSTANTS
  Nil = Nil
  Thread = {t1, t2, t3}
  MaxPosts = 2
  MaxCalls = 1
INVARIANTS LockOrder NothingHeldWhileWaiting NoDeadlock
PROPERTY EveryCallReturns
\* Threads stop after MaxCalls calls; NoDeadlock says that none stops before.
CHECK_DEADLOCK FALSE
