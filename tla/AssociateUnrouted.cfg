\* A context left without a route, then an association for another client.
SPECIFICATION Spec
CONSTANTS
  Nil = Nil
  Empty = Empty
  Address = {a1, a2}
  Router = {r1, r2}
  UeAppId = {u1, u2}
  Callback = {good}
  ValidCallback = {good}
  ContextId = {c1, c2}
  Thread = {t1}
  Assertions = TRUE
  AppInfo <- OneVersion
INVARIANTS
  AssociateFindsRoutes
\* A dead process takes no step.
CHECK_DEADLOCK FALSE
