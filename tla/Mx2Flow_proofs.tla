---------------------------- MODULE Mx2Flow_proofs ----------------------------
(***************************************************************************)
(* Theorems about the messages of the Mx2 interface, and their proofs: for *)
(* all strings, and for whatever other programs send.                      *)
(***************************************************************************)
EXTENDS Mx2Flow, TLAPS

-----------------------------------------------------------------------------
(* The constructors.                                                       *)

(* A string that was set if it was not empty is read back as it was.       *)
LEMMA SetAndRead ==
  ASSUME NEW s, s \notin {Absent, Other}
  PROVE  /\ stringOrEmpty(setIfNotEmpty(s)) = s
         /\ setIfNotEmpty(s) \in {s, Absent} /\ setIfNotEmpty(s) # Empty
BY ObjectAssumption DEF stringOrEmpty, setIfNotEmpty, isString

(* What a constructor of AppInfo builds has the strings it was given, and  *)
(* the constructor from JSON accepts it, if it is not both a response and  *)
(* an entry of a list.                                                     *)
LEMMA Built ==
  ASSUME NEW n \in Text.appName, NEW p \in Text.appProvider,
         NEW v \in maybe(Text.appSoftVersion),
         NEW d \in maybe(Text.appDescription),
         NEW s \in maybe(Text.appPackageSource),
         NEW r \in Text.referenceURI \cup {Absent},
         NEW c \in Charcs \cup {Absent}, c # Absent => validCharcs(c),
         r = Absent \/ c = Absent,
         build(n, p, v, d, s, r, c) # Thrown
  PROVE  LET j == build(n, p, v, d, s, r, c)
         IN  /\ j \in InfoObject /\ validInfo(j)
             /\ j.appName = n /\ j.appProvider = p /\ appSoftVersion(j) = v
             /\ appDescription(j) = d /\ appPackageSource(j) = s
             /\ j.referenceURI = r /\ j.appCharcs = c
<1> DEFINE j == build(n, p, v, d, s, r, c)
<1>1. commonSetup(n, p, v, d)
  BY DEF build
<1>2. j = [appName          |-> n,
           appProvider      |-> p,
           appSoftVersion   |-> setIfNotEmpty(v),
           appDescription   |-> setIfNotEmpty(d),
           appPackageSource |-> setIfNotEmpty(s),
           referenceURI     |-> r,
           appCharcs        |-> c]
  BY <1>1 DEF build
<1>3. \A x \in {n, p, v, d, s} : x \notin {Absent, Other}
  BY ObjectAssumption DEF Fields, maybe
<1>4. /\ j.appName = n /\ j.appProvider = p /\ j.referenceURI = r
      /\ j.appCharcs = c /\ j.appSoftVersion = setIfNotEmpty(v)
      /\ j.appDescription = setIfNotEmpty(d)
      /\ j.appPackageSource = setIfNotEmpty(s)
  BY <1>2
<1>5. appSoftVersion(j) = v /\ appDescription(j) = d /\ appPackageSource(j) = s
  BY <1>3, <1>4, SetAndRead
     DEF appSoftVersion, appDescription, appPackageSource
<1>6. j \in InfoObject
  BY <1>2, <1>3, SetAndRead DEF InfoObject, value, maybe
<1>7. validInfo(j)
  <2>1. notEmpty(j.appName) /\ notEmpty(j.appProvider)
    BY <1>1, <1>3, <1>4 DEF commonSetup, notEmpty, isString
  <2>2. \A x \in {n, p, setIfNotEmpty(v), setIfNotEmpty(d)} : ~tooLong(x)
    BY <1>1 DEF commonSetup, tooLong, isString, setIfNotEmpty
  <2>3. j.referenceURI # Empty
    BY <1>4, ObjectAssumption DEF Fields
  <2>4. ~(isString(r) /\ isObject(c))
    BY DEF isString, isObject
  <2>5. isObject(c) => validCharcs(c)
    BY DEF isObject
  <2> QED BY <1>4, <2>1, <2>2, <2>3, <2>4, <2>5 DEF validInfo
<1> QED BY <1>4, <1>5, <1>6, <1>7

(* A description that the constructor from JSON has accepted gives strings *)
(* to the constructors.                                                    *)
LEMMA InfoStrings ==
  ASSUME NEW j \in InfoObject, validInfo(j)
  PROVE  /\ j.appName \in Text.appName /\ j.appProvider \in Text.appProvider
         /\ appSoftVersion(j) \in maybe(Text.appSoftVersion)
         /\ appDescription(j) \in maybe(Text.appDescription)
         /\ appPackageSource(j) \in maybe(Text.appPackageSource)
BY DEF InfoObject, validInfo, notEmpty, isString, value, maybe, stringOrEmpty,
       appSoftVersion, appDescription, appPackageSource

(* What a constructor of AppContext makes of an application, and reads in  *)
(* it again.                                                               *)
LEMMA NewContext ==
  ASSUME NEW c \in maybe(Text.contextId), NEW u \in Text.associateUeAppId,
         NEW cb \in maybe(Text.callbackReference),
         NEW info \in InfoObject, validInfo(info)
  PROVE  LET j == newContext(c, u, cb, info)
         IN  /\ j \in ContextObject /\ j # Thrown /\ validContext(j)
             /\ j.contextId = setIfNotEmpty(c) /\ j.associateUeAppId = u
             /\ callbackReference(j) = cb /\ j.appInfo = info
             /\ isString(j.contextId) <=> c # Empty
<1> DEFINE j == newContext(c, u, cb, info)
<1>1. /\ j.contextId = setIfNotEmpty(c) /\ j.associateUeAppId = u
      /\ j.callbackReference = setIfNotEmpty(cb) /\ j.appInfo = info
  BY DEF newContext
<1>2. c \notin {Absent, Other} /\ cb \notin {Absent, Other}
      /\ u \notin {Absent, Other, Empty}
  BY ObjectAssumption DEF Fields, maybe
<1>3. callbackReference(j) = cb
  BY <1>1, <1>2, SetAndRead DEF callbackReference
<1>4. j \in ContextObject
  BY <1>2, SetAndRead DEF newContext, ContextObject, value, maybe
<1>5. isObject(info)
  BY ObjectAssumption DEF isObject
<1>6. isString(j.contextId) <=> c # Empty
  BY <1>1, <1>2 DEF setIfNotEmpty, isString
<1>7. notEmptyIfPresent(j.contextId) /\ notEmpty(j.associateUeAppId)
  BY <1>1, <1>2, SetAndRead
     DEF notEmptyIfPresent, notEmpty, isString
<1> QED BY <1>1, <1>3, <1>4, <1>5, <1>6, <1>7, ObjectAssumption
        DEF validContext

-----------------------------------------------------------------------------
(* The conversions.                                                        *)

(* A request made of an application that is listed.                        *)
LEMMA RequestMade ==
  ASSUME NEW j \in InfoObject, validInfo(j),
         NEW s \in maybe(Text.appPackageSource),
         makeAppContextRequest(j, s) # Thrown
  PROVE  LET info == makeAppContextRequest(j, s)
         IN  /\ info \in InfoObject /\ validInfo(info)
             /\ message(info) = "AppContextRequest"
             /\ appOf(info) = appOf(j)
             /\ appDescription(info) = appDescription(j)
             /\ appPackageSource(info) = s
<1> DEFINE info == makeAppContextRequest(j, s)
<1>1. info = build(j.appName, j.appProvider, appSoftVersion(j),
                   appDescription(j), s, Absent, Absent)
  BY DEF makeAppContextRequest, AppInfoRequest
<1>2. /\ info \in InfoObject /\ validInfo(info)
      /\ info.appName = j.appName /\ info.appProvider = j.appProvider
      /\ appSoftVersion(info) = appSoftVersion(j)
      /\ appDescription(info) = appDescription(j)
      /\ appPackageSource(info) = s
      /\ info.referenceURI = Absent /\ info.appCharcs = Absent
  <2>1. info # Thrown
    OBVIOUS
  <2> HIDE DEF info
  <2> DEFINE n == j.appName
             p == j.appProvider
             v == appSoftVersion(j)
             d == appDescription(j)
  <2>2. /\ n \in Text.appName /\ p \in Text.appProvider
        /\ v \in maybe(Text.appSoftVersion)
        /\ d \in maybe(Text.appDescription)
    BY InfoStrings
  <2>3. info = build(n, p, v, d, s, Absent, Absent)
    BY <1>1
  <2> HIDE DEF n, p, v, d
  <2>4. /\ info \in InfoObject /\ validInfo(info)
        /\ info.appName = n /\ info.appProvider = p
        /\ appSoftVersion(info) = v /\ appDescription(info) = d
        /\ appPackageSource(info) = s
        /\ info.referenceURI = Absent /\ info.appCharcs = Absent
    <3>1. ASSUME NEW r, NEW c, r = Absent, c = Absent
          PROVE  LET b == build(n, p, v, d, s, r, c)
                 IN  /\ b \in InfoObject /\ validInfo(b)
                     /\ b.appName = n /\ b.appProvider = p
                     /\ appSoftVersion(b) = v /\ appDescription(b) = d
                     /\ appPackageSource(b) = s
                     /\ b.referenceURI = r /\ b.appCharcs = c
      <4>1. r \in Text.referenceURI \cup {Absent} /\ c \in Charcs \cup {Absent}
        BY <3>1
      <4>2. build(n, p, v, d, s, r, c) # Thrown
        BY <2>1, <2>3, <3>1
      <4>3. (c # Absent => validCharcs(c)) /\ (r = Absent \/ c = Absent)
        BY <3>1
      <4> QED BY <2>2, <4>1, <4>2, <4>3, Built
    <3> QED BY <2>3, <3>1
  <2> QED BY <2>4 DEF n, p, v, d
<1> QED BY <1>2 DEF message, isObject, isString, appOf

(* A response made of a request.                                           *)
LEMMA ResponseMade ==
  ASSUME NEW j \in InfoObject, validInfo(j), NEW r \in Text.referenceURI,
         makeAppContextResponse(j, r) # Thrown
  PROVE  LET info == makeAppContextResponse(j, r)
         IN  /\ info \in InfoObject /\ validInfo(info)
             /\ message(info) = "AppContextResponse"
             /\ referenceUri(info) = r /\ appOf(info) = appOf(j)
             /\ appDescription(info) = appDescription(j)
             /\ appPackageSource(info) = appPackageSource(j)
<1> DEFINE info == makeAppContextResponse(j, r)
<1>1. info = build(j.appName, j.appProvider, appSoftVersion(j),
                   appDescription(j), appPackageSource(j), r, Absent)
  BY DEF makeAppContextResponse, AppInfoResponse
<1>2. /\ info \in InfoObject /\ validInfo(info)
      /\ info.appName = j.appName /\ info.appProvider = j.appProvider
      /\ appSoftVersion(info) = appSoftVersion(j)
      /\ appDescription(info) = appDescription(j)
      /\ appPackageSource(info) = appPackageSource(j)
      /\ info.referenceURI = r /\ info.appCharcs = Absent
  <2>1. info # Thrown
    OBVIOUS
  <2> HIDE DEF info
  <2> QED BY <1>1, <2>1, Built, InfoStrings
<1>3. r \notin {Absent, Other}
  BY ObjectAssumption DEF Fields
<1> QED BY <1>2, <1>3 DEF message, isObject, isString, appOf, referenceUri

-----------------------------------------------------------------------------
(* The way of a message.                                                   *)

(* What is under way is an object of its kind.                             *)
FlowInv ==
  /\ msg.as = "listed" => msg.json \in InfoObject
  /\ msg.as = "context" => msg.json \in ContextObject

(* What a client sends.                                                    *)
sent(u, s, cb) ==
  LET j == msg'.json IN
  /\ msg'.as = "context" /\ j \in ContextObject /\ j # Thrown
  /\ validContext(j) /\ type(j) = "Request" /\ kindsAgree(j)
  /\ appOf(j.appInfo) = appOf(msg.json)
  /\ appDescription(j.appInfo) = appDescription(msg.json)
  /\ appPackageSource(j.appInfo) = s
  /\ j.associateUeAppId = u /\ callbackReference(j) = cb

(* The client's step.                                                      *)
LEMMA RequestStep ==
  ASSUME FlowInv, NEW u \in Text.associateUeAppId,
         NEW s \in maybe(Text.appPackageSource),
         NEW cb \in maybe(Text.callbackReference), request(u, s, cb)
  PROVE  sent(u, s, cb)
<1> DEFINE i    == msg.json
           info == makeAppContextRequest(i, s)
           j    == newContext(Empty, u, cb, info)
<1>1. i \in InfoObject
  BY DEF FlowInv, request
<1>2. PICK x \in readList("OK", ApplicationListOf(<<i>>)) :
        /\ readList("OK", ApplicationListOf(<<i>>)) # Thrown
        /\ makeAppContextRequest(x, s) # Thrown
        /\ msg' = [as |-> "context",
                   json |-> ContextRequest(u, cb, makeAppContextRequest(x, s))]
  BY DEF request
<1>3. x = i /\ validInfo(i)
  <2>1. ApplicationListOf(<<i>>).ApplicationList.appInfo = {i}
    BY DEF ApplicationListOf
  <2> QED BY <1>2, <2>1 DEF readList
<1>4. /\ info \in InfoObject /\ validInfo(info)
      /\ message(info) = "AppContextRequest" /\ appOf(info) = appOf(i)
      /\ appDescription(info) = appDescription(i)
      /\ appPackageSource(info) = s
  BY <1>1, <1>2, <1>3, RequestMade
<1> HIDE DEF info
<1>5. u # Empty
  BY ObjectAssumption DEF Fields
<1>6. msg' = [as |-> "context", json |-> j]
  BY <1>2, <1>3, <1>4, <1>5 DEF ContextRequest, info
<1>7. /\ j \in ContextObject /\ j # Thrown /\ validContext(j)
      /\ j.associateUeAppId = u /\ callbackReference(j) = cb
      /\ j.appInfo = info /\ ~isString(j.contextId)
  BY <1>4, NewContext DEF maybe
<1> HIDE DEF j
<1> QED BY <1>4, <1>6, <1>7 DEF sent, type, kindsAgree

(* What the proxy answers.                                                 *)
answered(c, r) ==
  LET i == msg.json
      j == msg'.json
  IN  /\ msg'.as = "context" /\ j \in ContextObject
      /\ validContext(j) /\ type(j) = "Response" /\ kindsAgree(j)
      /\ j.contextId = c /\ referenceUri(j.appInfo) = r
      /\ j.associateUeAppId = i.associateUeAppId
      /\ callbackReference(j) = callbackReference(i)
      /\ appOf(j.appInfo) = appOf(i.appInfo)
      /\ appDescription(j.appInfo) = appDescription(i.appInfo)
      /\ appPackageSource(j.appInfo) = appPackageSource(i.appInfo)

(* The proxy's step.                                                       *)
LEMMA RespondStep ==
  ASSUME FlowInv, NEW c \in Text.contextId, NEW r \in Text.referenceURI,
         respond(c, r)
  PROVE  answered(c, r)
<1> DEFINE i    == msg.json
           info == makeAppContextResponse(i.appInfo, r)
           j    == newContext(c, i.associateUeAppId, callbackReference(i), info)
<1>1. i \in ContextObject /\ validContext(i)
  BY DEF FlowInv, respond
<1>2. i.appInfo \in InfoObject /\ validInfo(i.appInfo)
  BY <1>1 DEF ContextObject, validContext, isObject
<1>3. /\ i.associateUeAppId \in Text.associateUeAppId
      /\ callbackReference(i) \in maybe(Text.callbackReference)
  BY <1>1 DEF ContextObject, validContext, notEmpty, isString, value, maybe,
              callbackReference, stringOrEmpty
<1>4. /\ info # Thrown
      /\ msg' = [as |-> "context",
                 json |-> ContextResponse(c, i.associateUeAppId,
                                          callbackReference(i), info)]
  BY DEF respond, makeResponse
<1>5. /\ info \in InfoObject /\ validInfo(info)
      /\ message(info) = "AppContextResponse"
      /\ referenceUri(info) = r /\ appOf(info) = appOf(i.appInfo)
      /\ appDescription(info) = appDescription(i.appInfo)
      /\ appPackageSource(info) = appPackageSource(i.appInfo)
  BY <1>2, <1>4, ResponseMade
<1> HIDE DEF info
<1>6. c \notin {Empty, Absent, Other} /\ i.associateUeAppId # Empty
  BY <1>3, ObjectAssumption DEF Fields
<1>7. msg' = [as |-> "context", json |-> j]
  BY <1>4, <1>5, <1>6 DEF ContextResponse
<1>8. /\ j \in ContextObject /\ validContext(j)
      /\ j.contextId = c /\ j.associateUeAppId = i.associateUeAppId
      /\ callbackReference(j) = callbackReference(i)
      /\ j.appInfo = info /\ isString(j.contextId)
  BY <1>3, <1>5, <1>6, NewContext DEF maybe, setIfNotEmpty
<1> HIDE DEF j
<1> QED BY <1>5, <1>7, <1>8 DEF answered, type, kindsAgree

(* What the owner of a proxy publishes is an object of the list.           *)
LEMMA PublishStep ==
  ASSUME NEW n \in Text.appName, NEW p \in Text.appProvider,
         NEW v \in maybe(Text.appSoftVersion),
         NEW d \in maybe(Text.appDescription),
         NEW c \in Charcs, validCharcs(c), publish(n, p, v, d, c)
  PROVE  FlowInv'
<1> DEFINE info == AppInfoListed(n, p, v, d, c)
<1>1. info # Thrown /\ msg' = [as |-> "listed", json |-> info]
  BY DEF publish
<1>2. info = build(n, p, v, d, Empty, Absent, c)
  BY DEF AppInfoListed
<1>3. info \in InfoObject
  <2> HIDE DEF info
  <2>1. Empty \in maybe(Text.appPackageSource)
    BY DEF maybe
  <2> QED BY <1>1, <1>2, <2>1, Built
<1> HIDE DEF info
<1> QED BY <1>1, <1>3 DEF FlowInv

(* Every step keeps to the objects.                                        *)
LEMMA FlowInductive == FlowSpec => []FlowInv
<1>1. FlowInit => FlowInv
  BY OthersAssumption DEF FlowInit, FlowInv
<1>2. ASSUME FlowInv, [FlowNext]_msg PROVE FlowInv'
  <2>1. ASSUME NEW u \in Text.associateUeAppId,
               NEW s \in maybe(Text.appPackageSource),
               NEW cb \in maybe(Text.callbackReference), request(u, s, cb)
        PROVE  FlowInv'
    BY <1>2, <2>1, RequestStep DEF sent, FlowInv
  <2>2. ASSUME NEW c \in Text.contextId, NEW r \in Text.referenceURI,
               respond(c, r)
        PROVE  FlowInv'
    BY <1>2, <2>2, RespondStep DEF answered, FlowInv
  <2>3. CASE UNCHANGED msg
    BY <1>2, <2>3 DEF FlowInv
  <2> QED BY <1>2, <2>1, <2>2, <2>3, PublishStep DEF FlowNext
<1> QED BY <1>1, <1>2, PTL DEF FlowSpec

-----------------------------------------------------------------------------
(* The theorems.                                                           *)

(* For all strings and whatever a list holds: what makeAppContextRequest   *)
(* makes of an application in it is accepted as a request for that         *)
(* application.                                                            *)
THEOREM ListedAlwaysBecomesRequest == FlowSpec => ListedBecomesRequest
<1> DEFINE P == \A ueAppId \in Text.associateUeAppId,
                   source \in maybe(Text.appPackageSource),
                   callback \in maybe(Text.callbackReference) :
       request(ueAppId, source, callback) =>
         LET j == msg'.json IN
         /\ j # Thrown
         /\ validContext(j) /\ type(j) = "Request" /\ kindsAgree(j)
         /\ appOf(j.appInfo) = appOf(msg.json)
         /\ appDescription(j.appInfo) = appDescription(msg.json)
         /\ appPackageSource(j.appInfo) = source
         /\ j.associateUeAppId = ueAppId /\ callbackReference(j) = callback
<1>1. FlowInv => P
  BY RequestStep DEF sent
<1>2. FlowSpec => [][P]_msg
  BY <1>1, FlowInductive, PTL
<1> QED BY <1>2 DEF ListedBecomesRequest

(* For all strings and whatever is sent: what makeResponse makes of a      *)
(* request is accepted as a response, and keeps what it was asked for.     *)
THEOREM ResponseAlwaysKeeps == FlowSpec => ResponseKeepsRequest
<1> DEFINE P == \A contextId \in Text.contextId,
                   reference \in Text.referenceURI :
       respond(contextId, reference) =>
         LET i == msg.json
             j == msg'.json
         IN  /\ validContext(j) /\ type(j) = "Response" /\ kindsAgree(j)
             /\ j.contextId = contextId
             /\ referenceUri(j.appInfo) = reference
             /\ j.associateUeAppId = i.associateUeAppId
             /\ callbackReference(j) = callbackReference(i)
             /\ appOf(j.appInfo) = appOf(i.appInfo)
             /\ appDescription(j.appInfo) = appDescription(i.appInfo)
             /\ appPackageSource(j.appInfo) = appPackageSource(i.appInfo)
<1>1. FlowInv => P
  BY RespondStep DEF answered
<1>2. FlowSpec => [][P]_msg
  BY <1>1, FlowInductive, PTL
<1> QED BY <1>2 DEF ResponseKeepsRequest
=============================================================================
