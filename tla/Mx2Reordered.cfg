\* Two threads change the table; nothing is lost.
SPECIFICATION SystemSpec
CONSTANTS
  Nil = Nil
  Empty = Empty
  Address = {host}
  Host = host
  Router = {r1, r2}
  UeAppId = {u1}
  ContextId = {c1}
  Thread = {t1, t2}
  Faults = {{}}
  Assertions = FALSE
  AppInfo <- OneApp
  NotificationUri <- Uri
  Callback <- Callbacks
  ValidCallback <- Callbacks
INVARIANTS
  CurrentWhenQuiet
\* A dead process takes no step.
CHECK_DEADLOCK FALSE
