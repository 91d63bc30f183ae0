------------------------------ MODULE Mx2System ------------------------------
(***************************************************************************)
(* A static LCM proxy and the context manager of one client, over HTTP.    *)
(*                                                                         *)
(* A request and its answer are messages: between them both sides serve    *)
(* other calls.  Where messages are lost, an exchange may end at any point *)
(* without an answer (the client of rest::Client gets an exception), and   *)
(* the request may be lost, or may be served later all the same.  Where    *)
(* managers crash, their process may end without the destructor being run. *)
(* A behaviour has some of these faults or none, which it keeps.           *)
(***************************************************************************)
EXTENDS StaticUeAppLcmProxy

CONSTANTS
  Host,             \* the address of the manager
  NotificationUri,  \* the URI of its server
  Faults            \* the sets of faults considered, among "loss", "crash"

VARIABLES
  phase, calls, theContexts, toDelete,  \* of the manager
  exchange,  \* UE application id -> the request for a context, or the answer,
             \* that is under way, or Nil
  reply,     \* thread -> the answer to its POST that is under way, or "none"
  late,      \* notifications on which their sender has given up
  faults     \* the faults that can happen

Manager == INSTANCE AppContextManager

managerVars == <<phase, calls, theContexts, toDelete>>
networkVars == <<exchange, reply, late, faults>>
systemVars  == <<vars, managerVars, networkVars>>

(* The faults of this behaviour.                                           *)
Lossy == "loss" \in faults
Crashes == "crash" \in faults

Exchange ==
  [type : {"request"}, app : AppInfo]
    \cup [type : {"granted"}, contextId : ContextId, referenceUri : Router]
    \cup {[type |-> "refused"]}

ASSUME ManagerAssumption ==
  /\ Host \in Address
  /\ NotificationUri \in Seq(STRING)
  /\ \A u \in UeAppId : Manager!callbackOf(u) \in ValidCallback
  /\ Nil \notin Exchange \cup Manager!Granted
  /\ Faults \subseteq SUBSET {"loss", "crash"}

Replies == {"none", "NoContent", "error"}

mailed == (UNION {pending(t) : t \in Thread}) \cup late

requested(u) == exchange[u] # Nil /\ exchange[u].type = "request"
granted(u)   == exchange[u] # Nil /\ exchange[u].type = "granted"

(* A random UUID: nobody has mentioned it before.                          *)
freshUeAppId(u) ==
  /\ u \notin calls /\ exchange[u] = Nil /\ ~Manager!known(u)
  /\ theApplicationsByUeAppId[u] = Nil
  /\ \A c \in ContextId : live(c) => theApplicationsByContextId[c].ueAppId # u
  /\ \A m \in mailed : m.callback # Manager!callbackOf(u)

freshContextId(c) ==
  /\ \A u \in UeAppId :
       /\ Manager!known(u) => theContexts[u].contextId # c
       /\ granted(u) => exchange[u].contextId # c
  /\ \A m \in late : m.contextId # c

-----------------------------------------------------------------------------
(* Creation of a context.                                                  *)

(* A manager that tries again with the id of a call that has failed.       *)
requestContext_SameId(u, x) ==
  /\ Manager!contextCreate(u) /\ ~Manager!known(u) /\ exchange[u] = Nil
  /\ exchange' = [exchange EXCEPT ![u] = [type |-> "request", app |-> x]]
  /\ UNCHANGED <<vars, reply, late, faults>>

requestContext(u, x) ==
  /\ freshUeAppId(u) /\ Manager!contextCreate(u)
  /\ exchange' = [exchange EXCEPT ![u] = [type |-> "request", app |-> x]]
  /\ UNCHANGED <<vars, reply, late, faults>>

(* What becomes of the answer to a request: dropped if nobody waits.       *)
answer(u, ans) ==
  exchange' = [exchange EXCEPT ![u] = IF u \in calls THEN ans ELSE Nil]

(* A request with an id that the proxy has is, in the debug build, its end.*)
grantContext(u, c) ==
  LET x == exchange[u].app IN
  /\ requested(u) /\ freshContextId(c)
  /\ IF accepts(u)
     THEN /\ createContext(Host, x, u, Manager!callbackOf(u), c)
          /\ answer(u, [type         |-> "granted",
                        contextId    |-> c,
                        referenceUri |-> find(theTable, Host, x.appName)])
     ELSE createContext_Duplicate(Host, x, u) /\ UNCHANGED exchange
  /\ UNCHANGED <<managerVars, reply, late, faults>>

refuseContext(u) ==
  /\ alive /\ requested(u)
  /\ ~admissible(Host, exchange[u].app)
  /\ answer(u, [type |-> "refused"])
  /\ UNCHANGED <<vars, managerVars, reply, late, faults>>

(* contextCreate returns: the context is entered, or the call throws.      *)
receiveAnswer(u) ==
  /\ \/ /\ granted(u)
        /\ Manager!contextCreate_granted(u, exchange[u].contextId,
                                            exchange[u].referenceUri)
     \/ /\ exchange[u] = [type |-> "refused"]
        /\ Manager!contextCreate_failed(u)
  /\ exchange' = [exchange EXCEPT ![u] = Nil]
  /\ UNCHANGED <<vars, reply, late, faults>>

(* No answer: the request may be still to be served.                       *)
loseAnswer(u) ==
  /\ Lossy
  /\ Manager!contextCreate_failed(u)
  /\ \/ exchange' = [exchange EXCEPT ![u] = Nil]
     \/ requested(u) /\ UNCHANGED exchange
  /\ UNCHANGED <<vars, reply, late, faults>>

-----------------------------------------------------------------------------
(* Notifications.                                                          *)

handleNotification(t) ==
  LET m == posting[t] IN
  /\ m # Nil /\ reply[t] = "none"
  /\ Manager!handleNotification(m.callback, m.uri)
  /\ reply' = [reply EXCEPT ![t] =
       IF Manager!handled(Manager!ueAppIdOf(m.callback)) THEN "NoContent"
                                                         ELSE "error"]
  /\ UNCHANGED <<vars, exchange, late, faults>>

handleLate(m) ==
  /\ m \in late
  /\ Manager!handleNotification(m.callback, m.uri)
  /\ late' = late \ {m}
  /\ UNCHANGED <<vars, exchange, reply, faults>>

receiveReply(t) ==
  /\ \/ reply[t] = "error" /\ answerRefused(t)
     \/ reply[t] = "NoContent" /\ answerAccepted(t)
  /\ reply' = [reply EXCEPT ![t] = "none"]
  /\ UNCHANGED <<managerVars, exchange, late, faults>>

(* The POST fails: lost, or nobody serves the URI any more.                *)
failPost(t) ==
  /\ Lossy \/ ~Manager!serving
  /\ postFailed(t)
  /\ reply' = [reply EXCEPT ![t] = "none"]
  /\ \/ UNCHANGED late
     \/ Lossy /\ reply[t] = "none" /\ late' = late \cup {posting[t]}
  /\ UNCHANGED <<managerVars, exchange, faults>>

-----------------------------------------------------------------------------
(* The rest of the two sides.                                              *)

proxyAlone ==
  /\ \/ changeApps
     \/ \E t \in Thread : changeTable(t)
     \/ \E t \in Thread : \E m \in toNotify[t] :
          \/ skipNotification(t, m)
          \/ skipNotification_Empty(t, m)
          \/ postNotification(t, m)
  /\ UNCHANGED <<managerVars, networkVars>>

(* The DELETE of one context: served (or found unknown), or lost.          *)
deleteNext(u) ==
  /\ Manager!destroy_next(u)
  /\ LET c == theContexts[u].contextId IN
     \/ deleteContext(c)
     \/ deleteContext_NotIndexed(c)
     \/ (~live(c) \/ ~alive \/ Lossy) /\ UNCHANGED vars
  /\ UNCHANGED networkVars

(* With the process end the calls that wait for an answer: requests stay.  *)
managerAlone ==
  /\ \/ Manager!destroy
     \/ Manager!destroyed
     \/ Crashes /\ Manager!crash
     \/ Manager!start
  /\ exchange' = [u \in UeAppId |->
       IF calls' # calls /\ exchange[u] # Nil /\ ~requested(u)
       THEN Nil ELSE exchange[u]]
  /\ UNCHANGED <<vars, reply, late, faults>>

SystemInit ==
  /\ Init /\ Manager!ManagerInit
  /\ exchange = [u \in UeAppId |-> Nil]
  /\ reply = [t \in Thread |-> "none"]
  /\ late = {}
  /\ faults \in Faults

SystemNext ==
  \/ \E u \in UeAppId, x \in AppInfo : requestContext(u, x)
  \/ \E u \in UeAppId, c \in ContextId : grantContext(u, c)
  \/ \E u \in UeAppId :
       refuseContext(u) \/ receiveAnswer(u) \/ loseAnswer(u)
  \/ \E t \in Thread : handleNotification(t) \/ receiveReply(t) \/ failPost(t)
  \/ \E m \in late : handleLate(m)
  \/ \E u \in UeAppId : deleteNext(u)
  \/ proxyAlone
  \/ managerAlone

SystemSpec == SystemInit /\ [][SystemNext]_systemVars

-----------------------------------------------------------------------------

(* What goes on by itself once a notification is to be posted.             *)
notification(t) ==
  \/ handleNotification(t) \/ receiveReply(t) \/ failPost(t)
  \/ /\ \E m \in toNotify[t] :
          skipNotification(t, m) \/ postNotification(t, m)
     /\ UNCHANGED <<managerVars, networkVars>>

(* Threads are scheduled, a POST ends, and a handler, which waits only for *)
(* a mutex that is never held during a request, runs.                      *)
FairSystemSpec ==
  SystemSpec /\ \A t \in Thread : WF_systemVars(notification(t))

-----------------------------------------------------------------------------

SystemTypeOK ==
  /\ TypeOK /\ Manager!ManagerTypeOK
  /\ exchange \in [UeAppId -> Exchange \cup {Nil}]
  /\ reply \in [Thread -> Replies]
  /\ late \in SUBSET Notification
  /\ faults \in Faults

quiet(c) == \A m \in mailed : m.contextId # c

(* The context the manager keeps for u, if the proxy still has it.         *)
kept(u) == theContexts[u].contextId

shared(u) == Manager!known(u) /\ live(kept(u))

current(u) ==
  theApplicationsByContextId[kept(u)].edgeRouter
    \in {Empty, Manager!referenceUri(u)}

(* If messages are not lost and one thread changes the table, the manager  *)
(* tells its application the edge router the proxy records, or a           *)
(* notification with that edge router is on its way.  This includes a      *)
(* context whose edge router changed while the answer to its creation was  *)
(* under way, and holds whether or not the manager has been restarted.     *)
InformedOrPending ==
  ~Lossy /\ (\E t \in Thread : Thread = {t}) =>
    \A u \in UeAppId : shared(u) /\ ~current(u) =>
      \E t \in Thread : \E m \in pending(t) :
        /\ m.contextId = kept(u)
        /\ m.uri = theApplicationsByContextId[kept(u)].edgeRouter

(* The proxy and the manager speak of the same application: a context kept *)
(* under an id is, at the proxy, one of that id with the manager's own     *)
(* address and callback reference for it.                                  *)
ContextsMatch ==
  \A u \in UeAppId : shared(u) =>
    LET d == theApplicationsByContextId[kept(u)] IN
    /\ d.ueAppId = u /\ d.client = Host
    /\ d.callback = Manager!callbackOf(u)
    /\ theApplicationsByUeAppId[u] = kept(u)

(* A manager, however its requests fail and however often it crashes,      *)
(* makes none of three assertions of the proxy fail: the one on the index  *)
(* in createContext, the one in deleteContext and purge, and the one on    *)
(* the callback reference in notifyClients.  The fourth that depends on    *)
(* what clients do, that theMutex is not locked, any request may make fail *)
(* (see Locking).                                                          *)
ManagerIsHarmless ==
  failure \notin {"duplicateUeAppId", "noIndexEntry", "emptyCallback"}

(* If messages are not lost and the manager does not crash, a proxy that   *)
(* runs has no context that the manager does not know or is not about to   *)
(* be told, and none when the destructor has returned.                     *)
NoOrphans ==
  alive /\ ~Lossy /\ ~Crashes =>
    \A c \in ContextId : live(c) =>
      LET u == theApplicationsByContextId[c].ueAppId IN
      \/ Manager!known(u) /\ kept(u) = c
      \/ granted(u) /\ exchange[u].contextId = c

(* If messages are not lost and one thread changes the table, an           *)
(* application is told a stale edge router only for a while: the manager   *)
(* is told the new one, or the context ends, or the process of either.     *)
StaleIsTransient ==
  \A u \in UeAppId :
    ~Lossy /\ shared(u) /\ ~current(u) ~> ~shared(u) \/ current(u) \/ ~alive

(* A context that a crashed manager has left behind ends, if messages are  *)
(* not lost and a manager is serving the same URI again, the first time    *)
(* that its edge router changes: the notification is refused.              *)
OrphanEnds ==
  \A c \in ContextId :
    LET orphan ==
          /\ ~Lossy /\ live(c)
          /\ \E t \in Thread : /\ posting[t] # Nil /\ posting[t].contextId = c
                              /\ reply[t] # "NoContent"
          /\ LET u == theApplicationsByContextId[c].ueAppId
             IN  u \notin calls /\ ~Manager!known(u) /\ exchange[u] = Nil
    IN  orphan ~> ~live(c) \/ ~Manager!serving \/ ~alive

-----------------------------------------------------------------------------
(* What comments claim, and the code does not do (see the findings).       *)

(* "the current reference URI of an application": with nothing under way,  *)
(* the manager tells the edge router the proxy records.                    *)
CurrentWhenQuiet ==
  \A u \in UeAppId : shared(u) /\ quiet(kept(u)) => current(u)

(* contextCreate throws "if the context cannot be created for any reason": *)
(* when it has returned, and no notification is under way, the context     *)
(* exists.                                                                 *)
KnownContextsLive ==
  \A u \in UeAppId :
    phase = "serving" /\ Manager!known(u) /\ quiet(kept(u)) => live(kept(u))

(* notifyClients: "Remove context if any error occurs."                    *)
FailedPostRemoves ==
  [][\A t \in Thread, c \in ContextId :
       failPost(t) /\ posting[t].contextId = c => ~live(c)']_systemVars

(* "Delete all the open contexts from the UE app LCM proxy" (destructor).  *)
DestructorDeletesAll ==
  phase = "ended" => \A c \in ContextId : ~live(c)
=============================================================================
