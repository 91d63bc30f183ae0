\* The build without assertions; two threads change the table.
SPECIFICATION Spec
CONSTANTS
  Nil = Nil
  Empty = Empty
  Address = {a1, a2}
  Router = {r1, r2}
  UeAppId = {u1, u2}
  Callback = {good}
  ValidCallback = {good}
  ContextId = {c1, c2}
  Thread = {t1, t2}
  Assertions = FALSE
  AppInfo <- OneVersion
SYMMETRY Symmetry
INVARIANTS
  TypeOK
  RoutesCurrent
  IteratorsValid
PROPERTIES
  MovedMeansNotified
  ImplementsDirectory
\* A dead process takes no step.
CHECK_DEADLOCK FALSE
