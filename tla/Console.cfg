\* Two consoles, one of them with any commands or both with some; assertions.
SPECIFICATION FairConsoleSpec
CONSTANTS
  Nil = Nil
  Empty = Empty
  Absent = Absent
  Other = Other
  Thrown = Thrown
  Long <- LongNames
  Address = {a1, a2}
  Router = {r1, r2}
  UeAppId = {u1}
  ContextId = {c1}
  Callback = {cb}
  ValidCallback = {cb}
  Thread = {t1, t2}
  Assertions = TRUE
  AppInfo <- Lambdas
  Script <- AnyConsoles
  Newline = {TRUE}
INVARIANTS
  ConsoleTypeOK
  ServerAssertionsHold
  
PROPERTIES
  OKMeansDone
  EverySessionEnds
  TableCallReturns
\* A session ends.
CHECK_DEADLOCK FALSE
