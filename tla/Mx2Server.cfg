\* The build without assertions; bodies of every kind.
SPECIFICATION ServerSpec
CONSTANTS
  Nil = Nil
  Empty = Empty
  Absent = Absent
  Other = Other
  Thrown = Thrown
  Long = {}
  Address = {a1}
  Router = {r1}
  UeAppId = {u1}
  ContextId = {c1, c2}
  Callback = {cb}
  ValidCallback = {cb}
  Thread = {t1}
  Assertions = FALSE
  AppInfo <- OneApp
  Body <- AnyBody
SYMMETRY ServerSymmetry
INVARIANT
  ServerTypeOK
PROPERTIES
  AnswersTellChanges
  ListedIsGrantedOrForbidden
\* A dead process takes no step.
CHECK_DEADLOCK FALSE
