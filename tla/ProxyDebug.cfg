\* The build with assertions; two applications, one in two versions; one thread.
SPECIFICATION Spec
CONSTANTS
  Nil = Nil
  Empty = Empty
  Address = {a1}
  Router = {r1, r2}
  UeAppId = {u1, u2}
  Callback = {good, bad}
  ValidCallback = {good}
  ContextId = {c1, c2}
  Thread = {t1}
  Assertions = TRUE
  AppInfo <- TwoApplications
SYMMETRY Symmetry
INVARIANTS
  EveryContextIndexed
  PendingIsCurrent
  ExistsMeansListed
PROPERTIES
  MovedMeansNotified
  ImplementsDirectory
\* A dead process takes no step.
CHECK_DEADLOCK FALSE
