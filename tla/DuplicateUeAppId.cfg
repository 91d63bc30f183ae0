\* Two contexts requested with one UE application id.
SPECIFICATION Spec
CONSTANTS
  Nil = Nil
  Empty = Empty
  Address = {a1, a2}
  Router = {r1, r2}
  UeAppId = {u1, u2}
  Callback = {good}
  ValidCallback = {good}
  ContextId = {c1, c2}
  Thread = {t1}
  Assertions = FALSE
  AppInfo <- OneVersion
INVARIANTS
  SizesAgree
\* A dead process takes no step.
CHECK_DEADLOCK FALSE
