\* Every combination of faults, one thread that changes the table.
SPECIFICATION SystemSpec
CONSTANTS
  Nil = Nil
  Empty = Empty
  Address = {host, other}
  Host = host
  Router = {r1, r2}
  UeAppId = {u1, u2}
  ContextId = {c1, c2}
  Thread = {t1}
  Assertions = TRUE
  Faults <- AnyFaults
  AppInfo <- OneApp
  NotificationUri <- Uri
  Callback <- Callbacks
  ValidCallback <- Callbacks
SYMMETRY SystemSymmetry
INVARIANTS
  SystemTypeOK
  InformedOrPending
  ContextsMatch
  ManagerIsHarmless
  NoOrphans
\* A dead process takes no step.
CHECK_DEADLOCK FALSE
