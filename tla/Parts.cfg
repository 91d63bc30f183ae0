\* The messages, the static-file proxy, the chat front-end, the OpenWhisk client.
SPECIFICATION PartSpec
CONSTANTS
  Nil = Nil
  Empty = Empty
  Long = {LongString}
  Absent = Absent
  Other = Other
  Thrown = Thrown
  aName = aName
  aProvider = aProvider
  aVersion = aVersion
  aDescription = aDescription
  aSource = aSource
  aReference = aReference
  aUeAppId = aUeAppId
  aCallback = aCallback
  aContextId = aContextId
  Address = {a1}
  Router = {r1, r2}
  Word = {"command", "apiroot", "http://mec", "app_list", "other"}
  Token = "token"
  Assertions = TRUE
  UeAppId = {}
  ContextId = {}
  Callback = {}
  ValidCallback = {}
  Thread = {constructor}
  AppInfo <- TwoApps
  File <- Files
  Text <- Texts
  Charcs <- Characteristics
  Info <- Infos
  Context <- Contexts
  Form <- Forms
  ValidUri = {"http://mec"}
  Response <- Responses
  Malformed = Malformed
  Undecodable = Undecodable
  NoList = NoList
  ActionName <- WithoutSlash
INVARIANTS
  LastAssociationHolds
  LastValueCounts
  SameKeysMeansSame
PROPERTIES
  ListedBecomesRequest
  ResponseKeepsRequest
\* Constructors and handlers end.
CHECK_DEADLOCK FALSE
