\* A notification overtakes the answer to a creation.
SPECIFICATION SystemSpec
CONSTANTS
  Nil = Nil
  Empty = Empty
  Address = {host}
  Host = host
  Router = {r1, r2}
  UeAppId = {u1}
  ContextId = {c1}
  Thread = {t1}
  Faults = {{}}
  Assertions = FALSE
  AppInfo <- OneApp
  NotificationUri <- Uri
  Callback <- Callbacks
  ValidCallback <- Callbacks
INVARIANTS
  KnownContextsLive
\* A dead process takes no step.
CHECK_DEADLOCK FALSE
