------------------------------- MODULE Mx2Flow -------------------------------
(***************************************************************************)
(* The way of a message: an application is published in the list, a client *)
(* reads it there and asks for a context, the proxy answers; and an object *)
(* that any other program has written, in the place of any of these.       *)
(***************************************************************************)
EXTENDS Mx2Messages

CONSTANTS
  Text,     \* for each field the strings it may have, as a record of sets
  Charcs,   \* the objects that appCharcs may be
  Info,     \* what other programs put into the list
  Context   \* what other programs send as a context

(* A key has a string, the empty one among them, or something else, or is  *)
(* not there.                                                              *)
value(strings) == strings \cup {Empty, Absent, Other}

InfoObject ==
  [appName          : value(Text.appName),
   appProvider      : value(Text.appProvider),
   appSoftVersion   : value(Text.appSoftVersion),
   appDescription   : value(Text.appDescription),
   appPackageSource : value(Text.appPackageSource),
   referenceURI     : value(Text.referenceURI),
   appCharcs        : Charcs \cup {Absent, Other}]

ContextObject ==
  [contextId         : value(Text.contextId),
   associateUeAppId  : value(Text.associateUeAppId),
   callbackReference : value(Text.callbackReference),
   appInfo           : InfoObject \cup {Absent, Other}]

Fields == {"appName", "appProvider", "appSoftVersion", "appDescription",
           "appPackageSource", "referenceURI", "contextId",
           "associateUeAppId", "callbackReference"}

(* The marks for what is absent, of another type, or thrown are neither    *)
(* strings nor objects.                                                    *)
ASSUME ObjectAssumption ==
  /\ Empty \notin {Absent, Other} /\ Absent # Other
  /\ \A f \in Fields : {Empty, Absent, Other} \cap Text[f] = {}
  /\ \A mark \in {Absent, Other, Thrown} :
       mark \notin InfoObject /\ mark \notin ContextObject /\ mark \notin Charcs

ASSUME OthersAssumption ==
  Info \subseteq InfoObject /\ Context \subseteq ContextObject

VARIABLE msg   \* a message and what it stands for

FlowInit ==
  msg \in {[as |-> "nothing", json |-> Absent]}
            \cup [as : {"listed"}, json : Info]
            \cup [as : {"context"}, json : Context]

(* The owner of a proxy publishes an application.                          *)
publish(name, provider, version, description, charcs) ==
  /\ msg.as = "nothing"
  /\ LET info == AppInfoListed(name, provider, version, description, charcs)
     IN  info # Thrown /\ msg' = [as |-> "listed", json |-> info]

(* A client reads it in the list and asks for a context.                   *)
request(ueAppId, source, callback) ==
  /\ msg.as = "listed"
  /\ LET list == readList("OK", ApplicationListOf(<<msg.json>>)) IN
     /\ list # Thrown
     /\ \E j \in list :
          LET info == makeAppContextRequest(j, source) IN
          /\ info # Thrown
          /\ msg' = [as   |-> "context",
                     json |-> ContextRequest(ueAppId, callback, info)]

(* The proxy that reads it grants the context.                             *)
respond(contextId, reference) ==
  /\ msg.as = "context" /\ validContext(msg.json)
  /\ LET j == makeResponse(msg.json, contextId, reference)
     IN  j # Thrown /\ msg' = [as |-> "context", json |-> j]

maybe(strings) == strings \cup {Empty}

FlowNext ==
  \/ \E name \in Text.appName, provider \in Text.appProvider,
        version \in maybe(Text.appSoftVersion),
        description \in maybe(Text.appDescription),
        charcs \in {c \in Charcs : validCharcs(c)} :
       publish(name, provider, version, description, charcs)
  \/ \E ueAppId \in Text.associateUeAppId,
        source \in maybe(Text.appPackageSource),
        callback \in maybe(Text.callbackReference) :
       request(ueAppId, source, callback)
  \/ \E contextId \in Text.contextId, reference \in Text.referenceURI :
       respond(contextId, reference)

FlowSpec == FlowInit /\ [][FlowNext]_msg

-----------------------------------------------------------------------------

(* Whatever list an application is read from, what the client makes of it  *)
(* is accepted by the constructor from JSON at the other end, is taken for *)
(* a request, as type() asserts, and names the application that was listed *)
(* (AppInfo::makeAppContextRequest).                                       *)
ListedBecomesRequest ==
  [][\A ueAppId \in Text.associateUeAppId,
        source \in maybe(Text.appPackageSource),
        callback \in maybe(Text.callbackReference) :
       request(ueAppId, source, callback) =>
         LET j == msg'.json IN
         /\ j # Thrown
         /\ validContext(j) /\ type(j) = "Request" /\ kindsAgree(j)
         /\ appOf(j.appInfo) = appOf(msg.json)
         /\ appDescription(j.appInfo) = appDescription(msg.json)
         /\ appPackageSource(j.appInfo) = source
         /\ j.associateUeAppId = ueAppId /\ callbackReference(j) = callback]_msg

(* Whatever request is granted, the answer is accepted by the constructor  *)
(* from JSON at the other end, is taken for a response, as type() asserts, *)
(* carries the context id and the reference URI, and is about the same     *)
(* application, id, callback and package as the request                    *)
(* (AppContext::makeResponse).                                             *)
ResponseKeepsRequest ==
  [][\A contextId \in Text.contextId, reference \in Text.referenceURI :
       respond(contextId, reference) =>
         LET i == msg.json
             j == msg'.json
         IN  /\ validContext(j) /\ type(j) = "Response" /\ kindsAgree(j)
             /\ j.contextId = contextId
             /\ referenceUri(j.appInfo) = reference
             /\ j.associateUeAppId = i.associateUeAppId
             /\ callbackReference(j) = callbackReference(i)
             /\ appOf(j.appInfo) = appOf(i.appInfo)
             /\ appDescription(j.appInfo) = appDescription(i.appInfo)
             /\ appPackageSource(j.appInfo) = appPackageSource(i.appInfo)]_msg

-----------------------------------------------------------------------------
(* What an assertion claims, and does not hold (see the findings).         *)

(* The assertion of AppContext::type: the kind of the context is that of   *)
(* the application in it.                                                  *)
TypeAssertionHolds ==
  msg.as = "context" /\ validContext(msg.json) => kindsAgree(msg.json)
=============================================================================
