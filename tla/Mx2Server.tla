------------------------------ MODULE Mx2Server ------------------------------
(***************************************************************************)
(* The REST interface of the LCM proxy (the handlers of                    *)
(* EtsiMec/ueapplcmproxy.cpp) on top of the static proxy: what is answered *)
(* to a request, whoever has written it, and what the request has changed. *)
(*                                                                         *)
(* A handler parses the body, makes one call of the proxy, which holds the *)
(* mutex, and answers: it is one step.  An exception that leaves the       *)
(* handler is answered "InternalError" by the server.                      *)
(***************************************************************************)
EXTENDS StaticUeAppLcmProxy

CONSTANTS
  Body,                        \* the bodies of requests; see Mx2Messages
  Long, Absent, Other, Thrown  \* see Mx2Messages

VARIABLE answer   \* the last request answered, the status and the content,
                  \* and a mark that changes with every answer

serverVars == <<vars, answer>>

Msg == INSTANCE Mx2Messages

(* What is accepted of the bodies names ids, callbacks and applications    *)
(* that the instance has.                                                  *)
ASSUME BodyAssumption ==
  \A body \in Body : Msg!validContext(body) =>
    /\ body.associateUeAppId \in UeAppId
    /\ Msg!callbackReference(body) \in Callback \cup {Empty}
    /\ Msg!appOf(body.appInfo) \in AppInfo

(* The objects that describe the applications of the registry.             *)
knownInfo(x, r, c) ==
  Msg!build(x.appName, x.appProvider, x.appSoftVersion, Empty, Empty, r, c)

(* The registry holds objects that constructors have made, ids are not     *)
(* empty, and the marks for what is absent, is of another type or was      *)
(* thrown are neither strings nor objects.                                 *)
ASSUME MessageAssumption ==
  /\ Empty \notin ContextId \cup UeAppId \cup {Absent, Other}
  /\ Absent # Other
  /\ \A mark \in {Absent, Other, Thrown} :
       /\ mark \notin ContextId \cup UeAppId \cup Router
       /\ mark # Msg!AppCharcs(0, 0)
       /\ \A x \in AppInfo :
            /\ x.appName # mark /\ x.appProvider # mark /\ x.appSoftVersion # mark
            /\ \A r \in Router : mark # knownInfo(x, r, Absent)
            /\ \A c \in {Absent, Msg!AppCharcs(0, 0)} :
                 mark # knownInfo(x, Absent, c)
            /\ \A c \in ContextId, u \in UeAppId, r \in Router :
                 mark # Msg!newContext(c, u, Empty, knownInfo(x, r, Absent))

-----------------------------------------------------------------------------

Statuses == {"none", "OK", "Created", "NoContent", "Forbidden", "InternalError"}

(* A request is its method, the client's address, the context id in the    *)
(* URL and the body, each Nil where there is none or it is not read.       *)
reply(request, status, content) ==
  answer' = [request |-> request, status |-> status, content |-> content,
             turn |-> ~answer.turn]

POST(a, body)  == [method |-> "POST",   client |-> a,   url |-> Nil, body |-> body]
PUT(url, body) == [method |-> "PUT",    client |-> Nil, url |-> url, body |-> body]
DELETE(url)    == [method |-> "DELETE", client |-> Nil, url |-> url, body |-> Nil]
GET            == [method |-> "GET",    client |-> Nil, url |-> Nil, body |-> Nil]

(* The process ends, and the client has no answer.                         *)
noReply(request) == reply(request, "none", Nil)

(* A proxy that enters the context before it makes the response.           *)
respond_Late(a, body, c) ==
  /\ createContext(a, Msg!appOf(body.appInfo), body.associateUeAppId,
                   Msg!callbackReference(body), c)
  /\ LET r == find(theTable, a, body.appInfo.appName)
         j == Msg!makeResponse(body, c, r)
     IN  IF j = Thrown THEN reply(POST(a, body), "InternalError", Nil)
                       ELSE reply(POST(a, body), "Created", j)

(* makeResponse throws before anything is entered, or the context is.      *)
respond(a, body, c) ==
  LET r == find(theTable, a, body.appInfo.appName)
      j == Msg!makeResponse(body, c, r)
  IN  IF j = Thrown
      THEN reply(POST(a, body), "InternalError", Nil) /\ UNCHANGED vars
      ELSE /\ createContext(a, Msg!appOf(body.appInfo), body.associateUeAppId,
                            Msg!callbackReference(body), c)
           /\ reply(POST(a, body), "Created", j)

(* type() of the request: where the assertion fails.                       *)
typeFails(body) == Assertions /\ ~Msg!kindsAgree(body)

(* A refused creation returns the request: what is taken for a response is *)
(* answered 201 Created.                                                   *)
refuse(a, body) ==
  /\ reply(POST(a, body),
           IF Msg!type(body) = "Response" THEN "Created" ELSE "Forbidden", body)
  /\ UNCHANGED vars

handleContextCreate(a, body, c) ==
  LET x == Msg!appOf(body.appInfo) IN
  /\ alive
  /\ \/ /\ ~Msg!validContext(body)
        /\ reply(POST(a, body), "InternalError", Nil) /\ UNCHANGED vars
     \/ /\ Msg!validContext(body)
        /\ \/ /\ typeFails(body)
              /\ die("messageKind") /\ noReply(POST(a, body))
           \/ ~typeFails(body) /\ ~admissible(a, x) /\ refuse(a, body)
           \/ ~typeFails(body) /\ admissible(a, x) /\ respond(a, body, c)
           \/ /\ ~typeFails(body)
              /\ Msg!makeResponse(body, c, find(theTable, a, x.appName)) # Thrown
              /\ createContext_Duplicate(a, x, body.associateUeAppId)
              /\ noReply(POST(a, body))

(* The id in the URL is not looked at, nor the one in the body.            *)
handleContextUpdate(url, body) ==
  LET u == body.associateUeAppId IN
  /\ alive
  /\ \/ /\ ~Msg!validContext(body)
        /\ reply(PUT(url, body), "InternalError", Nil) /\ UNCHANGED vars
     \/ /\ Msg!validContext(body) /\ theApplicationsByUeAppId[u] = Nil
        /\ reply(PUT(url, body), "Forbidden", Nil) /\ UNCHANGED vars
     \/ /\ Msg!validContext(body)
        /\ updateContext(u, Msg!callbackReference(body))
        /\ reply(PUT(url, body), "NoContent", Nil)

handleContextDelete(url) ==
  /\ alive
  /\ \/ ~live(url) /\ reply(DELETE(url), "Forbidden", Nil) /\ UNCHANGED vars
     \/ deleteContext(url) /\ reply(DELETE(url), "NoContent", Nil)
     \/ deleteContext_NotIndexed(url) /\ noReply(DELETE(url))

(* The applications, as addApp was given them.                             *)
listed(x) ==
  Msg!AppInfoListed(x.appName, x.appProvider, x.appSoftVersion, Empty,
                    Msg!AppCharcs(0, 0))

handleAppList ==
  /\ alive
  /\ reply(GET, "OK", {listed(x) : x \in ApplicationList})
  /\ UNCHANGED vars

-----------------------------------------------------------------------------

ServerInit ==
  /\ Init
  /\ answer = [request |-> GET, status |-> "OK", content |-> {}, turn |-> FALSE]

handle ==
  \/ \E a \in Address, body \in Body, c \in ContextId :
       handleContextCreate(a, body, c)
  \/ \E url \in ContextId, body \in Body : handleContextUpdate(url, body)
  \/ \E url \in ContextId : handleContextDelete(url)
  \/ handleAppList

otherwise ==
  /\ \/ changeApps
     \/ \E t \in Thread : changeTable(t) \/ notifyClients(t)
  /\ UNCHANGED answer

ServerNext == handle \/ otherwise

ServerSpec == ServerInit /\ [][ServerNext]_serverVars

-----------------------------------------------------------------------------

ServerTypeOK ==
  /\ TypeOK
  /\ answer.status \in Statuses /\ answer.turn \in BOOLEAN

(* The context that a creation answered with j is to have entered.         *)
createdAs(q, j) ==
  [ueAppId    |-> q.body.associateUeAppId,
   callback   |-> Msg!callbackReference(q.body),
   client     |-> q.client,
   app        |-> q.body.appInfo.appName,
   edgeRouter |-> Msg!referenceUri(j.appInfo)]

become(c, d) ==
  theApplicationsByContextId' = [theApplicationsByContextId EXCEPT ![c] = d]

(* Every answer, whatever the body, tells what the request has done to the *)
(* contexts.  A refusal, an error or a list: nothing.  201 to a body that  *)
(* is a request: one context is entered, of the UE application id and the  *)
(* callback in the body, the client's address and the edge router in the   *)
(* answer.  201 with the body itself, which is a response: nothing, the    *)
(* creation was refused.  204 to an update: the callback of one context of *)
(* the UE application id in the body is changed, whatever the URL says.    *)
(* 204 to a deletion: the context in the URL has ended.  So the exceptions *)
(* of parsing and of makeResponse must come before any change.             *)
AnswersTellChanges ==
  [][answer' # answer =>
       LET q == answer'.request
           j == answer'.content
       IN  /\ answer'.status \in {"OK", "Forbidden", "InternalError"}
                => UNCHANGED contextVars
           /\ answer'.status = "Created" =>
                \/ /\ Msg!type(q.body) = "Request"
                   /\ ~live(j.contextId)
                   /\ become(j.contextId, createdAs(q, j))
                \/ /\ Msg!type(q.body) = "Response" /\ j = q.body
                   /\ UNCHANGED contextVars
           /\ answer'.status = "NoContent" /\ q.method = "PUT"
                => \E c \in ContextId :
                     LET d == theApplicationsByContextId[c] IN
                     /\ live(c) /\ d.ueAppId = q.body.associateUeAppId
                     /\ become(c, [d EXCEPT !.callback =
                                     Msg!callbackReference(q.body)])
           /\ answer'.status = "NoContent" /\ q.method = "DELETE"
                => live(q.url) /\ become(q.url, Nil)
    ]_serverVars

(* The body that a client makes of an application it has read in the list. *)
clientBody(x, u, cb) ==
  Msg!ContextRequest(u, cb, Msg!makeAppContextRequest(listed(x), Empty))

(* A client that goes by the book, with an application from the list and   *)
(* an id of its own, is granted a context or told that there is no router; *)
(* neither an error nor an assertion meets it.                             *)
ListedIsGrantedOrForbidden ==
  [][answer' # answer =>
       \A a \in Address, x \in ApplicationList, u \in UeAppId :
         /\ answer'.request = POST(a, clientBody(x, u, Empty))
         /\ theApplicationsByUeAppId[u] = Nil
         => answer'.status =
              IF find(theTable, a, x.appName) = Nil THEN "Forbidden" ELSE "Created"
    ]_serverVars

-----------------------------------------------------------------------------
(* What comments claim, and the code does not do (see the findings).       *)

(* createContext: "if the context is present it means that the creation    *)
(* has been authorized, otherwise it is refused".                          *)
CreatedMeansAuthorized ==
  [][answer' # answer /\ answer'.status = "Created" =>
       admissible(answer'.request.client,
                  Msg!appOf(answer'.request.body.appInfo))]_serverVars

(* updateContext: true if "the context is present and the request correct".*)
UpdatedMeansPresent ==
  [][answer' # answer /\ answer'.status = "NoContent"
       /\ answer'.request.method = "PUT" => live(answer'.request.url)]_serverVars
=============================================================================
