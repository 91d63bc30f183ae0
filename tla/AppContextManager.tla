-------------------------- MODULE AppContextManager --------------------------
(***************************************************************************)
(* The client side of the Mx2 interface                                    *)
(* (EtsiMec/appcontextmanager.{h,cpp}): it asks the LCM proxy for contexts, *)
(* keeps what it was granted, and serves the notifications of the proxy.   *)
(*                                                                         *)
(* theMutex is held to enter a context and to handle a notification, never *)
(* during a request to the proxy: a call of contextCreate is a step before *)
(* its POST and a step after the answer, and notifications are handled in  *)
(* between.  The destructor takes no lock, and sends one DELETE per        *)
(* context while the HTTP server of the base class is still open.          *)
(*                                                                         *)
(* The other end of every request is left to the module that composes the  *)
(* manager with a proxy.                                                   *)
(***************************************************************************)
EXTENDS Sequences, SequencesExt

CONSTANTS
  UeAppId,          \* the UE application ids that contextCreate chooses
  ContextId,        \* the context ids that the proxy chooses
  Router,           \* the reference URIs that the proxy hands out
  NotificationUri,  \* theNotificationUri, as the tokens between the slashes
  Nil               \* no context

VARIABLES
  phase,        \* of the object: "serving", "ending" (in the destructor),
                \* "ended"
  calls,        \* the ids chosen by calls of contextCreate not yet answered
  theContexts,  \* UE application id -> the context granted, or Nil
  toDelete      \* the ids that the destructor has still to go through

managerVars == <<phase, calls, theContexts, toDelete>>

Granted == [referenceUri : Router, contextId : ContextId]

ManagerTypeOK ==
  /\ phase \in {"serving", "ending", "ended"}
  /\ calls \in SUBSET UeAppId
  /\ theContexts \in [UeAppId -> Granted \cup {Nil}]
  /\ toDelete \in SUBSET UeAppId

(* The callback reference of a context names its UE application id.        *)
callbackOf(u) == Append(NotificationUri, u)

(* The UE application id that a notification to this URI is for.           *)
ueAppIdOf(uri) == Last(uri)

known(u) == theContexts[u] # Nil

(* What referenceUri() tells the application.                              *)
referenceUri(u) == theContexts[u].referenceUri

serving == phase \in {"serving", "ending"}

-----------------------------------------------------------------------------

none == [u \in UeAppId |-> Nil]

ManagerInit ==
  /\ phase = "serving"
  /\ calls = {}
  /\ theContexts = none
  /\ toDelete = {}

(* An id is chosen and the request posted.                                 *)
contextCreate(u) ==
  /\ phase = "serving" /\ u \notin calls
  /\ calls' = calls \cup {u}
  /\ UNCHANGED <<phase, theContexts, toDelete>>

(* A manager whose calls share the id chosen: another may overwrite it.    *)
contextCreate_granted_Shared(u, c, r) ==
  /\ u \in calls
  /\ calls' = calls \ {u}
  /\ \E v \in calls : theContexts' =
       [theContexts EXCEPT ![v] = [referenceUri |-> r, contextId |-> c]]
  /\ UNCHANGED <<phase, toDelete>>

(* The answer is 201 Created with a context: it is entered, and returned.  *)
contextCreate_granted(u, c, r) ==
  /\ u \in calls
  /\ calls' = calls \ {u}
  /\ theContexts' = [theContexts EXCEPT ![u] =
       IF @ = Nil THEN [referenceUri |-> r, contextId |-> c] ELSE @]
  /\ UNCHANGED <<phase, toDelete>>

(* Any other answer, or none: the call throws and nothing is kept.         *)
contextCreate_failed(u) ==
  /\ u \in calls
  /\ calls' = calls \ {u}
  /\ UNCHANGED <<phase, theContexts, toDelete>>

(* A handler that takes any notification, whether it knows the id or not.  *)
handled_Any(u) == u \in UeAppId

(* A notification for an id it does not know makes the handler throw,      *)
(* which the server answers with an error.                                 *)
handled(u) == known(u)

(* A handler that keeps the URI it has.                                    *)
handleNotification_Ignored(uri, r) == serving /\ UNCHANGED managerVars

(* The handler of a notification posted to uri.                            *)
handleNotification(uri, r) ==
  LET u == ueAppIdOf(uri)
  IN  /\ serving
      /\ theContexts' = IF known(u)
                        THEN [theContexts EXCEPT ![u].referenceUri = r]
                        ELSE theContexts
      /\ UNCHANGED <<phase, calls, toDelete>>

-----------------------------------------------------------------------------
(* The end of the object, and of its process.                              *)

(* The destructor is entered: no call is in progress on the object.        *)
destroy ==
  /\ phase = "serving" /\ calls = {}
  /\ phase' = "ending"
  /\ toDelete' = {u \in UeAppId : known(u)}
  /\ UNCHANGED <<calls, theContexts>>

(* It has sent the DELETE of one context; an error is only logged.         *)
destroy_next(u) ==
  /\ u \in toDelete
  /\ toDelete' = toDelete \ {u}
  /\ UNCHANGED <<phase, calls, theContexts>>

vanish ==
  /\ phase' = "ended"
  /\ calls' = {} /\ theContexts' = none /\ toDelete' = {}

(* A destructor that does not wait for the answers.                        *)
destroyed_Early == phase = "ending" /\ vanish

destroyed == phase = "ending" /\ toDelete = {} /\ vanish

(* The process ends without running the destructor.                        *)
crash == phase # "ended" /\ vanish

(* A new manager is started with the same notification URI.                *)
start ==
  /\ phase = "ended" /\ phase' = "serving"
  /\ UNCHANGED <<calls, theContexts, toDelete>>
=============================================================================
