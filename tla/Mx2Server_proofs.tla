-------------------------- MODULE Mx2Server_proofs --------------------------
(***************************************************************************)
(* What the REST interface answers, and what it has done to the contexts,  *)
(* for any bodies, clients and contexts and in both builds.                *)
(***************************************************************************)
EXTENDS Mx2Server, StaticUeAppLcmProxy_proofs

(* The end of the process leaves everything else as it was.                *)
LEMMA DieKeeps ==
  ASSUME IInv, NEW why \in Failure, die(why)
  PROVE  IInv'
BY DEF IInv, die, contextVars, notifyVars, TypeOK, AppsTypeOK, IteratorsValid,
       EveryContextIndexed, RoutesCurrent, live

(* A request does nothing to the proxy that one of its operations does not *)
(* do, but for the assertion on the kind of a message.                     *)
LEMMA ServerSteps ==
  ASSUME [ServerNext]_serverVars
  PROVE  [Next]_vars \/ die("messageKind")
<1>1. CASE UNCHANGED serverVars
  BY <1>1 DEF serverVars
<1>2. ASSUME NEW a \in Address, NEW body \in Body, NEW c \in ContextId,
             handleContextCreate(a, body, c)
      PROVE  [Next]_vars \/ die("messageKind")
  <2> DEFINE x == Msg!appOf(body.appInfo)
  <2>1. CASE UNCHANGED vars \/ die("messageKind")
    BY <2>1
  <2>2. CASE Msg!validContext(body) /\ respond(a, body, c)
    <3>1. /\ x \in AppInfo /\ body.associateUeAppId \in UeAppId
          /\ Msg!callbackReference(body) \in Callback \cup {Empty}
      BY <2>2, BodyAssumption
    <3>2. \/ UNCHANGED vars
          \/ createContext(a, x, body.associateUeAppId,
                           Msg!callbackReference(body), c)
      BY <2>2 DEF respond
    <3>3. serveContext \/ UNCHANGED vars
      BY <3>1, <3>2 DEF serveContext
    <3> QED BY <3>3 DEF Next
  <2>3. CASE /\ Msg!validContext(body)
             /\ createContext_Duplicate(a, x, body.associateUeAppId)
    <3>1. x \in AppInfo /\ body.associateUeAppId \in UeAppId
      BY <2>3, BodyAssumption
    <3> QED BY <2>3, <3>1 DEF serveContext, Next
  <2> QED BY <1>2, <2>1, <2>2, <2>3 DEF handleContextCreate, refuse
<1>3. ASSUME NEW url \in ContextId, NEW body \in Body,
             handleContextUpdate(url, body)
      PROVE  [Next]_vars
  <2>1. CASE UNCHANGED vars
    BY <2>1
  <2>2. CASE /\ Msg!validContext(body)
             /\ updateContext(body.associateUeAppId, Msg!callbackReference(body))
    <3>1. /\ body.associateUeAppId \in UeAppId
          /\ Msg!callbackReference(body) \in Callback \cup {Empty}
      BY <2>2, BodyAssumption
    <3> QED BY <2>2, <3>1 DEF serveContext, Next
  <2> QED BY <1>3, <2>1, <2>2 DEF handleContextUpdate
<1>4. ASSUME NEW url \in ContextId, handleContextDelete(url)
      PROVE  [Next]_vars
  BY <1>4 DEF handleContextDelete, serveContext, Next
<1>5. CASE handleAppList
  BY <1>5 DEF handleAppList
<1>6. CASE otherwise
  BY <1>6 DEF otherwise, Next
<1> QED BY <1>1, <1>2, <1>3, <1>4, <1>5, <1>6 DEF ServerNext, handle

(* The invariant of the proxy is one of the server.                        *)
LEMMA ServerInductive == ServerSpec => []IInv
<1>1. ServerInit => IInv
  BY InitIInv DEF ServerInit
<1>2. IInv /\ [ServerNext]_serverVars => IInv'
  BY ServerSteps, NextIInv, DieKeeps DEF Failure
<1> QED BY <1>1, <1>2, PTL DEF ServerSpec

(* The status of the last answer, and its mark.                            *)
StatusOK == answer.status \in Statuses /\ answer.turn \in BOOLEAN

(* Every answer has one of the statuses.                                   *)
LEMMA StatusStep ==
  ASSUME StatusOK, [ServerNext]_serverVars
  PROVE  StatusOK'
<1>1. ASSUME NEW q, NEW s \in Statuses, NEW j, reply(q, s, j)
      PROVE  StatusOK'
  <2>1. answer'.status = s /\ answer'.turn = ~answer.turn
    BY <1>1 DEF reply
  <2>2. answer'.turn \in BOOLEAN
    BY <2>1
  <2> QED BY <2>1, <2>2 DEF StatusOK
<1>2. ASSUME NEW a \in Address, NEW body \in Body, NEW c \in ContextId,
             handleContextCreate(a, body, c)
      PROVE  StatusOK'
  BY <1>1, <1>2 DEF handleContextCreate, respond, refuse, noReply, Statuses
<1>3. ASSUME NEW url \in ContextId, NEW body \in Body,
             handleContextUpdate(url, body)
      PROVE  StatusOK'
  BY <1>1, <1>3 DEF handleContextUpdate, Statuses
<1>4. ASSUME NEW url \in ContextId, handleContextDelete(url)
      PROVE  StatusOK'
  BY <1>1, <1>4 DEF handleContextDelete, noReply, Statuses
<1>5. CASE handleAppList
  BY <1>1, <1>5 DEF handleAppList, Statuses
<1>6. CASE otherwise \/ UNCHANGED serverVars
  BY <1>6 DEF otherwise, serverVars, StatusOK
<1> QED BY <1>2, <1>3, <1>4, <1>5, <1>6 DEF ServerNext, handle

(* No request, of whatever kind, puts anything that is not a context in    *)
(* the maps of the proxy, or leaves it without a status.                   *)
THEOREM ServerTypeCorrect == ServerSpec => []ServerTypeOK
<1>1. ServerInit => StatusOK
  BY DEF ServerInit, Statuses, StatusOK
<1>2. StatusOK /\ [ServerNext]_serverVars => StatusOK'
  BY StatusStep
<1>3. IInv /\ StatusOK => ServerTypeOK
  BY DEF IInv, ServerTypeOK, StatusOK
<1> QED BY <1>1, <1>2, <1>3, ServerInductive, PTL DEF ServerSpec

-----------------------------------------------------------------------------
(* What answers tell, one lemma per handler.                               *)

(* A response that was not thrown has the context's id and edge router.    *)
LEMMA ResponseFields ==
  ASSUME NEW body, NEW c, NEW r, Msg!makeResponse(body, c, r) # Thrown
  PROVE  LET j == Msg!makeResponse(body, c, r)
         IN  j.contextId = c /\ Msg!referenceUri(j.appInfo) = r
<1> DEFINE j    == Msg!makeResponse(body, c, r)
           info == Msg!makeAppContextResponse(body.appInfo, r)
<1>1. c # Empty /\ info # Thrown
  BY DEF Msg!makeResponse
<1>2. Msg!message(info) = "AppContextResponse"
      /\ j = Msg!newContext(c, body.associateUeAppId,
                            Msg!callbackReference(body), info)
  BY <1>1 DEF Msg!makeResponse, Msg!ContextResponse
<1>3. info.referenceURI = r
  BY <1>1 DEF Msg!makeAppContextResponse, Msg!AppInfoResponse, Msg!build
<1> QED BY <1>1, <1>2, <1>3
        DEF Msg!newContext, Msg!setIfNotEmpty, Msg!referenceUri

(* What AnswersTellChanges says of one step.                               *)
answerTells ==
  LET q == answer'.request
      j == answer'.content
  IN  /\ answer'.status \in {"OK", "Forbidden", "InternalError"}
           => UNCHANGED contextVars
      /\ answer'.status = "Created" =>
           \/ /\ Msg!type(q.body) = "Request"
              /\ ~live(j.contextId)
              /\ become(j.contextId, createdAs(q, j))
           \/ /\ Msg!type(q.body) = "Response" /\ j = q.body
              /\ UNCHANGED contextVars
      /\ answer'.status = "NoContent" /\ q.method = "PUT"
           => \E c \in ContextId :
                LET d == theApplicationsByContextId[c] IN
                /\ live(c) /\ d.ueAppId = q.body.associateUeAppId
                /\ become(c, [d EXCEPT !.callback =
                                Msg!callbackReference(q.body)])
      /\ answer'.status = "NoContent" /\ q.method = "DELETE"
           => live(q.url) /\ become(q.url, Nil)

(* An answer that says nothing of success, to a step that changes nothing. *)
LEMMA QuietAnswer ==
  ASSUME NEW q, NEW s \in {"OK", "Forbidden", "InternalError", "none"}, NEW j,
         reply(q, s, j), s # "none" => UNCHANGED vars
  PROVE  answerTells
BY DEF answerTells, reply, vars

(* 201 Created: the context is entered as the answer says.                 *)
LEMMA CreateAnswer ==
  ASSUME NEW a \in Address, NEW body \in Body, NEW c \in ContextId,
         handleContextCreate(a, body, c)
  PROVE  answerTells
<1> DEFINE x == Msg!appOf(body.appInfo)
           r == find(theTable, a, body.appInfo.appName)
           j == Msg!makeResponse(body, c, r)
           q == POST(a, body)
<1>1. CASE reply(q, "InternalError", Nil) /\ UNCHANGED vars
  BY <1>1, QuietAnswer
<1>2. CASE noReply(q)
  BY <1>2, QuietAnswer DEF noReply
<1>3. CASE refuse(a, body)
  <2>1. CASE Msg!type(body) = "Response"
    BY <1>3, <2>1 DEF refuse, reply, answerTells, POST, vars
  <2>2. CASE Msg!type(body) # "Response"
    BY <1>3, <2>2, QuietAnswer DEF refuse
  <2> QED BY <2>1, <2>2
<1>4. ASSUME j # Thrown, reply(q, "Created", j),
             createContext(a, x, body.associateUeAppId,
                           Msg!callbackReference(body), c)
      PROVE  answerTells
  <2>1. j.contextId = c /\ Msg!referenceUri(j.appInfo) = r
    BY <1>4, ResponseFields
  <2>2. x.appName = body.appInfo.appName
    BY DEF Msg!appOf
  <2>3. ~live(c) /\ become(c, createdAs(q, j))
    BY <1>4, <2>1, <2>2 DEF createContext, fresh, become, createdAs, POST
  <2>4. answer'.request = q /\ answer'.status = "Created" /\ answer'.content = j
    BY <1>4 DEF reply
  <2>5. Msg!type(q.body) = "Request"
    BY <1>4 DEF Msg!makeResponse, POST
  <2> QED BY <2>1, <2>3, <2>4, <2>5 DEF answerTells
<1> QED BY <1>1, <1>2, <1>3, <1>4 DEF handleContextCreate, respond

(* 204 No Content to an update: through the iterator of the id.            *)
LEMMA UpdateAnswer ==
  ASSUME IInv, NEW url \in ContextId, NEW body \in Body,
         handleContextUpdate(url, body)
  PROVE  answerTells
<1> DEFINE u == body.associateUeAppId
           q == PUT(url, body)
           c == theApplicationsByUeAppId[u]
           d == theApplicationsByContextId[c]
<1>1. CASE UNCHANGED vars /\ \/ reply(q, "InternalError", Nil)
                             \/ reply(q, "Forbidden", Nil)
  BY <1>1, QuietAnswer
<1>2. ASSUME Msg!validContext(body), updateContext(u, Msg!callbackReference(body)),
             reply(q, "NoContent", Nil)
      PROVE  answerTells
  <2>1. u \in UeAppId
    BY <1>2, BodyAssumption
  <2>2. c # Nil /\ c \in ContextId
    BY <1>2, <2>1 DEF updateContext, IInv, TypeOK
  <2>3. live(c) /\ d.ueAppId = u
    BY <2>1, <2>2 DEF IInv, IteratorsValid
  <2>4. become(c, [d EXCEPT !.callback = Msg!callbackReference(body)])
    BY <1>2 DEF updateContext, become
  <2>5. /\ answer'.request = q /\ answer'.status = "NoContent"
        /\ q.method = "PUT" /\ q.body = body
    BY <1>2 DEF reply, PUT
  <2> QED BY <2>2, <2>3, <2>4, <2>5 DEF answerTells
<1> QED BY <1>1, <1>2 DEF handleContextUpdate

(* 204 No Content to a deletion.                                           *)
LEMMA DeleteAnswer ==
  ASSUME NEW url \in ContextId, handleContextDelete(url)
  PROVE  answerTells
<1> DEFINE q == DELETE(url)
<1>1. CASE reply(q, "Forbidden", Nil) /\ UNCHANGED vars
  BY <1>1, QuietAnswer
<1>2. CASE noReply(q)
  BY <1>2, QuietAnswer DEF noReply
<1>3. CASE deleteContext(url) /\ reply(q, "NoContent", Nil)
  BY <1>3 DEF reply, DELETE, deleteContext, erase, become, answerTells
<1> QED BY <1>1, <1>2, <1>3 DEF handleContextDelete

(* Whoever has written a request, and however ids are repeated in it, the  *)
(* answer tells what it has done to the contexts: nothing, when a body     *)
(* that is a response comes back with 201.                                 *)
THEOREM AnswersAlwaysTellChanges == ServerSpec => AnswersTellChanges
<1>1. ASSUME IInv, [ServerNext]_serverVars, answer' # answer
      PROVE  answerTells
  <2>1. CASE handleAppList
    BY <2>1, QuietAnswer DEF handleAppList
  <2>2. CASE otherwise \/ UNCHANGED serverVars
    BY <1>1, <2>2 DEF otherwise, serverVars
  <2> QED BY <1>1, <2>1, <2>2, CreateAnswer, UpdateAnswer, DeleteAnswer
          DEF ServerNext, handle
<1>2. IInv /\ [ServerNext]_serverVars =>
        [answer' # answer => answerTells]_serverVars
  BY <1>1
<1>3. ServerSpec => [][answer' # answer => answerTells]_serverVars
  BY <1>2, ServerInductive, PTL DEF ServerSpec
<1> QED BY <1>3 DEF AnswersTellChanges, answerTells

-----------------------------------------------------------------------------
(* The client that goes by the book.                                       *)

(* The object that asks for a context of a known application.              *)
requestInfo(x) == knownInfo(x, Absent, Absent)

(* A known application is described by an object with its names.           *)
LEMMA KnownInfo ==
  ASSUME NEW x \in AppInfo
  PROVE  LET listedInfo == knownInfo(x, Absent, Msg!AppCharcs(0, 0))
             info       == requestInfo(x)
         IN  /\ Msg!commonSetup(x.appName, x.appProvider, x.appSoftVersion, Empty)
             /\ listed(x) = listedInfo /\ Msg!message(listedInfo) = "ApplicationList"
             /\ info # Thrown /\ Msg!isObject(info)
             /\ Msg!message(info) = "AppContextRequest"
             /\ \A j \in {listedInfo, info} :
                  /\ j.appName = x.appName /\ j.appProvider = x.appProvider
                  /\ Msg!appSoftVersion(j) = x.appSoftVersion
                  /\ Msg!appDescription(j) = Empty
                  /\ Msg!appPackageSource(j) = Empty
<1> DEFINE charcs     == Msg!AppCharcs(0, 0)
           listedInfo == knownInfo(x, Absent, charcs)
           info       == requestInfo(x)
<1> USE MessageAssumption
<1>1. /\ listedInfo \notin {Absent, Other, Thrown}
      /\ info \notin {Absent, Other, Thrown}
      /\ charcs \notin {Absent, Other}
  BY DEF requestInfo
<1>2. Msg!commonSetup(x.appName, x.appProvider, x.appSoftVersion, Empty)
  BY <1>1 DEF knownInfo, Msg!build
<1>3. listed(x) = listedInfo
  BY DEF listed, knownInfo, Msg!AppInfoListed
<1>4. \A c \in {Absent, charcs} :
        LET j == knownInfo(x, Absent, c)
        IN  /\ j.appName = x.appName /\ j.appProvider = x.appProvider
            /\ j.appSoftVersion = Msg!setIfNotEmpty(x.appSoftVersion)
            /\ j.appDescription = Absent /\ j.appPackageSource = Absent
            /\ j.referenceURI = Absent /\ j.appCharcs = c
  BY <1>2 DEF knownInfo, Msg!build, Msg!setIfNotEmpty
<1>5. Msg!stringOrEmpty(Absent) = Empty
      /\ Msg!stringOrEmpty(Msg!setIfNotEmpty(x.appSoftVersion)) = x.appSoftVersion
  BY DEF Msg!stringOrEmpty, Msg!setIfNotEmpty, Msg!isString
<1>6. \A j \in {listedInfo, info} :
        /\ j.appName = x.appName /\ j.appProvider = x.appProvider
        /\ Msg!appSoftVersion(j) = x.appSoftVersion
        /\ Msg!appDescription(j) = Empty /\ Msg!appPackageSource(j) = Empty
  BY <1>4, <1>5 DEF requestInfo, Msg!appSoftVersion, Msg!appDescription,
                    Msg!appPackageSource
<1>7. /\ Msg!message(listedInfo) = "ApplicationList"
      /\ Msg!message(info) = "AppContextRequest"
  BY <1>1, <1>4 DEF requestInfo, Msg!message, Msg!isObject, Msg!isString
<1>8. Msg!isObject(info)
  BY <1>1 DEF Msg!isObject
<1> QED BY <1>1, <1>2, <1>3, <1>6, <1>7, <1>8

(* The body that the client makes of it.                                   *)
LEMMA ClientBody ==
  ASSUME NEW x \in AppInfo, NEW u \in UeAppId
  PROVE  LET body == clientBody(x, u, Empty)
         IN  /\ body.contextId = Absent /\ body.associateUeAppId = u
             /\ body.callbackReference = Absent /\ body.appInfo = requestInfo(x)
<1> DEFINE info == requestInfo(x)
<1>1. Msg!makeAppContextRequest(listed(x), Empty) = info
  BY KnownInfo DEF Msg!makeAppContextRequest, Msg!AppInfoRequest, requestInfo,
                   knownInfo
<1>2. clientBody(x, u, Empty) = Msg!newContext(Empty, u, Empty, info)
  BY <1>1, KnownInfo, MessageAssumption DEF clientBody, Msg!ContextRequest
<1> QED BY <1>2 DEF Msg!newContext, Msg!setIfNotEmpty

(* The server takes the body for a request for that application.           *)
LEMMA ClientBodyAccepted ==
  ASSUME NEW x \in AppInfo, NEW u \in UeAppId
  PROVE  LET body == clientBody(x, u, Empty)
         IN  /\ Msg!validContext(body) /\ ~typeFails(body)
             /\ Msg!type(body) = "Request" /\ Msg!appOf(body.appInfo) = x
<1> DEFINE body == clientBody(x, u, Empty)
           info == requestInfo(x)
<1> USE MessageAssumption
<1>1. /\ body.contextId = Absent /\ body.associateUeAppId = u
      /\ body.appInfo = info
  BY ClientBody
<1>2. ~Msg!isString(body.contextId)
  BY <1>1 DEF Msg!isString
<1>3. info.appName = x.appName /\ info.appProvider = x.appProvider
  BY KnownInfo
<1>4. /\ info.appSoftVersion = Msg!setIfNotEmpty(x.appSoftVersion)
      /\ info.appDescription = Absent /\ info.referenceURI = Absent
      /\ info.appCharcs = Absent
  BY KnownInfo DEF requestInfo, knownInfo, Msg!build, Msg!setIfNotEmpty
<1>5. Msg!validInfo(info)
  <2>1. Msg!notEmpty(info.appName) /\ Msg!notEmpty(info.appProvider)
    BY <1>3, KnownInfo DEF Msg!notEmpty, Msg!isString, Msg!commonSetup
  <2>2. \A s \in {info.appName, info.appProvider, info.appSoftVersion,
                  info.appDescription} : ~Msg!tooLong(s)
    BY <1>3, <1>4, KnownInfo
       DEF Msg!tooLong, Msg!isString, Msg!commonSetup, Msg!setIfNotEmpty
  <2>3. /\ ~Msg!isObject(info.appCharcs) /\ ~Msg!isString(info.referenceURI)
        /\ info.referenceURI # Empty
    BY <1>4 DEF Msg!isObject, Msg!isString
  <2> QED BY <2>1, <2>2, <2>3 DEF Msg!validInfo
<1>6. Msg!validContext(body)
  BY <1>1, <1>5, KnownInfo DEF Msg!validContext, Msg!notEmptyIfPresent,
                               Msg!notEmpty, Msg!isString
<1>7. Msg!type(body) = "Request" /\ Msg!kindsAgree(body)
  BY <1>1, <1>2, KnownInfo DEF Msg!type, Msg!kindsAgree
<1>8. Msg!appOf(info) = x
  <2>1. x = [appName        |-> x.appName,
             appProvider    |-> x.appProvider,
             appSoftVersion |-> x.appSoftVersion]
    BY AppInfoAssumption
  <2> QED BY <2>1, KnownInfo DEF Msg!appOf
<1> QED BY <1>1, <1>6, <1>7, <1>8 DEF typeFails

(* Neither of the conversions throws.                                      *)
LEMMA ClientBodyAnswered ==
  ASSUME NEW x \in AppInfo, NEW u \in UeAppId, NEW c \in ContextId,
         NEW r \in Router
  PROVE  Msg!makeResponse(clientBody(x, u, Empty), c, r) # Thrown
<1> DEFINE body   == clientBody(x, u, Empty)
           info   == requestInfo(x)
           answered == knownInfo(x, r, Absent)
<1> USE MessageAssumption, StringAssumption
<1>1. /\ body.associateUeAppId = u /\ body.callbackReference = Absent
      /\ body.appInfo = info /\ Msg!type(body) = "Request"
  BY ClientBody, ClientBodyAccepted
<1>2. Msg!makeAppContextResponse(info, r) = answered
  BY KnownInfo DEF Msg!makeAppContextResponse, Msg!AppInfoResponse, knownInfo
<1>3. answered # Thrown /\ Msg!message(answered) = "AppContextResponse"
  <2>1. answered # Thrown
    OBVIOUS
  <2>2. answered.referenceURI = r /\ answered.appCharcs = Absent
    BY KnownInfo DEF knownInfo, Msg!build
  <2> QED BY <2>1, <2>2 DEF Msg!message, Msg!isObject, Msg!isString
<1>4. Msg!callbackReference(body) = Empty
  BY <1>1 DEF Msg!callbackReference, Msg!stringOrEmpty, Msg!isString
<1>5. Msg!makeResponse(body, c, r) = Msg!newContext(c, u, Empty, answered)
  BY <1>1, <1>2, <1>3, <1>4 DEF Msg!makeResponse, Msg!ContextResponse
<1> QED BY <1>5

(* What ListedIsGrantedOrForbidden says of one step.                       *)
grantedOrForbidden ==
  \A a \in Address, x \in ApplicationList, u \in UeAppId :
    /\ answer'.request = POST(a, clientBody(x, u, Empty))
    /\ theApplicationsByUeAppId[u] = Nil
    => answer'.status =
         IF find(theTable, a, x.appName) = Nil THEN "Forbidden" ELSE "Created"

(* The answer to that client.                                              *)
LEMMA ByTheBook ==
  ASSUME IInv, StoredUnderKey, NEW a \in Address, NEW x \in ApplicationList,
         NEW u \in UeAppId, NEW c \in ContextId,
         handleContextCreate(a, clientBody(x, u, Empty), c),
         theApplicationsByUeAppId[u] = Nil
  PROVE  answer'.status =
           IF find(theTable, a, x.appName) = Nil THEN "Forbidden" ELSE "Created"
<1> DEFINE body == clientBody(x, u, Empty)
           r    == find(theTable, a, x.appName)
<1>1. x \in AppInfo
  BY DEF ApplicationList, IInv, TypeOK, AppsTypeOK
<1>2. r \in Router \cup {Nil}
  BY <1>1, FindType DEF AppName, IInv, TypeOK
<1>3. /\ Msg!validContext(body) /\ ~typeFails(body) /\ Msg!type(body) = "Request"
      /\ Msg!appOf(body.appInfo) = x /\ body.appInfo.appName = x.appName
      /\ body.associateUeAppId = u
  BY <1>1, ClientBody, ClientBodyAccepted, KnownInfo
<1>4. admissible(a, x) <=> r # Nil
  BY ListedExists DEF admissible
<1>5. accepts(u)
  BY DEF accepts
<1>6. \/ r = Nil /\ refuse(a, body)
      \/ r # Nil /\ respond(a, body, c)
  BY <1>3, <1>4, <1>5 DEF handleContextCreate, createContext_Duplicate
<1>7. CASE r = Nil
  BY <1>3, <1>6, <1>7 DEF refuse, reply
<1>8. CASE r # Nil
  <2>1. Msg!makeResponse(body, c, r) # Thrown
    BY <1>1, <1>2, <1>8, ClientBodyAnswered
  <2> QED BY <1>3, <1>6, <1>8, <2>1 DEF respond, reply
<1> QED BY <1>7, <1>8

(* A client that asks for an application it has read in the list, with an  *)
(* id nobody uses, is granted a context exactly when there is a router for *)
(* it: it meets no error and no assertion on the way.                      *)
THEOREM ListedAlwaysServed == ServerSpec => ListedIsGrantedOrForbidden
<1>1. ServerInit => StoredUnderKey
  BY DEF ServerInit, Init, AppsInit, StoredUnderKey
<1>2. IInv /\ StoredUnderKey /\ [ServerNext]_serverVars => StoredUnderKey'
  <2> SUFFICES ASSUME IInv, StoredUnderKey, [ServerNext]_serverVars
               PROVE  StoredUnderKey'
    OBVIOUS
  <2>1. AppsNext \/ UNCHANGED theApplications
    BY ServerSteps, AppsSteps DEF die
  <2> QED BY <2>1, StoredStep DEF IInv, TypeOK
<1>3. ASSUME IInv, StoredUnderKey, [ServerNext]_serverVars, answer' # answer
      PROVE  grantedOrForbidden
  <2> SUFFICES ASSUME NEW a \in Address, NEW x \in ApplicationList,
                      NEW u \in UeAppId,
                      answer'.request = POST(a, clientBody(x, u, Empty)),
                      theApplicationsByUeAppId[u] = Nil
               PROVE  answer'.status =
                        IF find(theTable, a, x.appName) = Nil
                        THEN "Forbidden" ELSE "Created"
    BY DEF grantedOrForbidden
  <2>1. ASSUME NEW b \in Address, NEW body \in Body, NEW c \in ContextId,
               handleContextCreate(b, body, c)
        PROVE  answer'.request = POST(b, body)
    BY <2>1 DEF handleContextCreate, respond, refuse, reply, noReply
  <2>2. ASSUME NEW url \in ContextId, NEW body \in Body,
               handleContextUpdate(url, body)
        PROVE  FALSE
    BY <2>2 DEF handleContextUpdate, reply, PUT, POST
  <2>3. ASSUME NEW url \in ContextId, handleContextDelete(url) PROVE FALSE
    BY <2>3 DEF handleContextDelete, reply, noReply, DELETE, POST
  <2>4. ~handleAppList
    BY DEF handleAppList, reply, GET, POST
  <2>5. ~otherwise /\ ~UNCHANGED serverVars
    BY <1>3 DEF otherwise, serverVars
  <2>6. PICK b \in Address, body \in Body, c \in ContextId :
          handleContextCreate(b, body, c)
    BY <1>3, <2>2, <2>3, <2>4, <2>5 DEF ServerNext, handle
  <2>7. POST(b, body) = POST(a, clientBody(x, u, Empty))
    BY <2>1, <2>6
  <2>8. \A y : POST(b, y).client = b /\ POST(a, y).client = a
                /\ POST(b, y).body = y /\ POST(a, y).body = y
    BY DEF POST
  <2>9. b = a /\ body = clientBody(x, u, Empty)
    BY <2>7, <2>8
  <2> QED BY <1>3, <2>6, <2>9, ByTheBook
<1>4. IInv /\ StoredUnderKey /\ [ServerNext]_serverVars =>
        [answer' # answer => grantedOrForbidden]_serverVars
  BY <1>3
<1>5. ServerSpec => [][answer' # answer => grantedOrForbidden]_serverVars
  BY <1>1, <1>2, <1>4, ServerInductive, PTL DEF ServerSpec
<1> QED BY <1>5 DEF ListedIsGrantedOrForbidden, grantedOrForbidden

-----------------------------------------------------------------------------
(* The directory behind the REST interface.                                *)

(* The applications a request finds registered.                            *)
LEMMA ServerDirectoryStep ==
  ASSUME PlainNames, IInv, IInv', OwnKeys, [ServerNext]_serverVars
  PROVE  OwnKeys' /\ [Directory!Next]_(Directory!vars)
<1>1. CASE [Next]_vars
  BY <1>1, OwnKeysStep, DirectoryStep DEF IInv
<1>2. CASE die("messageKind")
  BY <1>2, DeadDirectory
<1> QED BY <1>1, <1>2, ServerSteps

(* Requests of any content, answered or not, leave behind the directory: a *)
(* context is granted only for a registered application with a route and   *)
(* has the most specific one, and a body that is malformed, refused or     *)
(* fails an assertion is no event of it.                                   *)
THEOREM ServerImplementsDirectory ==
  ASSUME PlainNames
  PROVE  ServerSpec => ImplementsDirectory
<1>1. ServerInit => Directory!Init /\ OwnKeys
  BY InitDirectory DEF ServerInit
<1>2. IInv /\ IInv' /\ OwnKeys /\ [ServerNext]_serverVars =>
        OwnKeys' /\ [Directory!Next]_(Directory!vars)
  BY ServerDirectoryStep
<1> QED
  BY <1>1, <1>2, ServerInductive, PTL
     DEF ServerSpec, ImplementsDirectory, Directory!Spec
=============================================================================
