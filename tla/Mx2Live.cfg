\* Liveness: reliable messages, crashes, two contexts.
SPECIFICATION FairSystemSpec
CONSTANTS
  Nil = Nil
  Empty = Empty
  Address = {host}
  Host = host
  Router = {r1, r2}
  UeAppId = {u1, u2}
  ContextId = {c1, c2}
  Thread = {t1}
  Faults = {{"crash"}}
  Assertions = FALSE
  AppInfo <- OneApp
  NotificationUri <- Uri
  Callback <- Callbacks
  ValidCallback <- Callbacks
PROPERTIES
  StaleIsTransient
  OrphanEnds
\* A dead process takes no step.
CHECK_DEADLOCK FALSE
