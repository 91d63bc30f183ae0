--------------------------- MODULE Mx2System_proofs ---------------------------
(***************************************************************************)
(* Theorems of Mx2System: what a proxy and a manager keep to each other,   *)
(* for any number of contexts, clients and notifications, in both builds,  *)
(* and under every combination of faults.                                  *)
(***************************************************************************)
EXTENDS Mx2System, StaticUeAppLcmProxy_proofs

-----------------------------------------------------------------------------
(* The inductive invariant, in parts.                                      *)

(* The life of the manager: what it holds in each phase.                   *)
Phases ==
  /\ \A u \in toDelete : Manager!known(u)
  /\ phase # "serving" => calls = {}
  /\ phase # "ending" => toDelete = {}
  /\ phase = "ended" => \A u \in UeAppId : ~Manager!known(u)

(* An answer is under way only to a call that waits for it; a request that *)
(* is still to be served has an id that nobody else has ever heard of.     *)
Exchanges ==
  /\ \A u \in UeAppId : exchange[u] # Nil /\ ~requested(u) => u \in calls
  /\ \A u \in calls : ~Manager!known(u)
  /\ \A u \in UeAppId : requested(u) =>
       /\ ~Manager!known(u)
       /\ \A c \in ContextId :
            live(c) => theApplicationsByContextId[c].ueAppId # u
       /\ \A m \in mailed : m.callback # Manager!callbackOf(u)

(* Every context of the proxy is the manager's, is indexed in either       *)
(* build, and is the only one its UE application id was ever granted.      *)
Ownership ==
  \A u \in UeAppId, c \in ContextId : live(c) =>
    LET d == theApplicationsByContextId[c] IN
    /\ d.ueAppId = u =>
         /\ d.client = Host /\ d.callback = Manager!callbackOf(u)
         /\ theApplicationsByUeAppId[u] = c
         /\ Manager!known(u) => kept(u) = c
         /\ granted(u) => exchange[u].contextId = c
    /\ Manager!known(u) /\ kept(u) = c => d.ueAppId = u
    /\ granted(u) /\ exchange[u].contextId = c => d.ueAppId = u

(* The notifications of a context carry the id that it was granted to.     *)
Mail ==
  /\ \A t \in Thread : posting[t] = Nil => reply[t] = "none"
  /\ \A m \in mailed : \E u \in UeAppId : m.callback = Manager!callbackOf(u)
  /\ \A m \in mailed, u \in UeAppId : m.callback = Manager!callbackOf(u) =>
       /\ live(m.contextId) =>
            theApplicationsByContextId[m.contextId].ueAppId = u
       /\ Manager!known(u) => kept(u) = m.contextId
       /\ granted(u) => exchange[u].contextId = m.contextId

(* The manager tells, or is about to tell, edge router r for context c of  *)
(* the UE application u.                                                   *)
hears(u, c, r) ==
  \/ Manager!known(u) /\ kept(u) = c /\ Manager!referenceUri(u) = r
  \/ granted(u) /\ exchange[u].contextId = c /\ exchange[u].referenceUri = r

(* r is the edge router of context c, or a notification with the one it    *)
(* has is to be posted or being posted.                                    *)
upToDate(c, r) ==
  \/ theApplicationsByContextId[c].edgeRouter \in {Empty, r}
  \/ \E t \in Thread : \E m \in pending(t) :
       /\ m.contextId = c
       /\ m.uri = theApplicationsByContextId[c].edgeRouter

(* One thread serves all changes of the table.                             *)
OneThread == \E t \in Thread : Thread = {t}

(* What the manager knows, or is about to be told, of edge routers.        *)
Told ==
  ~Lossy /\ OneThread =>
    /\ late = {}
    /\ \A t \in Thread, u \in UeAppId :
         reply[t] = "NoContent" /\ posting[t].callback = Manager!callbackOf(u) =>
           /\ ~granted(u)
           /\ Manager!known(u) => Manager!referenceUri(u) = posting[t].uri
    /\ \A u \in UeAppId, c \in ContextId, r \in Router :
         hears(u, c, r) /\ live(c) => upToDate(c, r)

(* Without faults, contexts on their way to the manager or to their end.   *)
Accounted ==
  ~Lossy /\ ~Crashes =>
    /\ \A u \in UeAppId : requested(u) => u \in calls
    /\ alive /\ phase = "ending" =>
         \A c \in ContextId :
           live(c) => theApplicationsByContextId[c].ueAppId \in toDelete

-----------------------------------------------------------------------------
(* The operators of the model.                                             *)

(* The manager finds in the URI of a notification the id it put there, and *)
(* the URIs of two ids differ.                                             *)
LEMMA CallbackNamesId ==
  ASSUME NEW u
  PROVE  Manager!ueAppIdOf(Manager!callbackOf(u)) = u
BY ManagerAssumption DEF Manager!ueAppIdOf, Manager!callbackOf, Manager!Last

(* They are callback references the proxy can post to.                     *)
LEMMA CallbackValid ==
  ASSUME NEW u \in UeAppId
  PROVE  /\ Manager!callbackOf(u) \in ValidCallback
         /\ Manager!callbackOf(u) \in Callback
         /\ Manager!callbackOf(u) # Empty
BY ManagerAssumption, StringAssumption

(* What is under way between the two has its fields.                       *)
LEMMA ExchangeType ==
  ASSUME SystemTypeOK, NEW u \in UeAppId
  PROVE  /\ requested(u) => exchange[u].app \in AppInfo
         /\ granted(u) => /\ exchange[u].contextId \in ContextId
                          /\ exchange[u].referenceUri \in Router
         /\ ~(requested(u) /\ granted(u))
BY DEF SystemTypeOK, Exchange, requested, granted

(* So has what the manager keeps.                                          *)
LEMMA KnownType ==
  ASSUME SystemTypeOK, NEW u \in UeAppId, Manager!known(u)
  PROVE  /\ theContexts[u] \in Manager!Granted
         /\ kept(u) \in ContextId
         /\ Manager!referenceUri(u) \in Router
BY DEF SystemTypeOK, Manager!ManagerTypeOK, Manager!known, Manager!Granted,
       kept, Manager!referenceUri

(* What is under way to the manager, by where it is.                       *)
LEMMA MailedCases ==
  ASSUME NEW m
  PROVE  m \in mailed <=> m \in late \/ \E t \in Thread : m \in pending(t)
<1>1. m \in UNION {pending(t) : t \in Thread} <=>
        \E t \in Thread : m \in pending(t)
  OBVIOUS
<1> QED  BY <1>1 DEF mailed

(* A live context is its own UE application id's, which has one.           *)
LEMMA OwnerOf ==
  ASSUME IInv, Ownership, NEW c \in ContextId, live(c)
  PROVE  LET d == theApplicationsByContextId[c]
         IN  /\ d.ueAppId \in UeAppId
             /\ d.callback = Manager!callbackOf(d.ueAppId)
             /\ theApplicationsByUeAppId[d.ueAppId] = c
BY LiveContext DEF IInv, Desc, Ownership

(* A notification under way is for an id of the manager.                   *)
LEMMA MailedFor ==
  ASSUME Mail, NEW m \in mailed
  PROVE  LET u == Manager!ueAppIdOf(m.callback)
         IN  u \in UeAppId /\ m.callback = Manager!callbackOf(u)
BY CallbackNamesId DEF Mail

(* Notifications that are under way are notifications.                     *)
LEMMA MailedType ==
  ASSUME SystemTypeOK, NEW m \in mailed
  PROVE  m \in Notification /\ m.contextId \in ContextId /\ m.uri \in Router
<1>1. CASE m \in late
  BY <1>1 DEF SystemTypeOK, Notification
<1>2. ASSUME NEW t \in Thread, m \in pending(t)
      PROVE  m \in Notification
  BY <1>2 DEF SystemTypeOK, TypeOK, pending
<1> QED  BY <1>1, <1>2, MailedCases DEF Notification

-----------------------------------------------------------------------------
(* What a step of the system is to each side.                              *)

(* To the proxy, a step of its own: whatever becomes of messages and of    *)
(* the manager, the proxy behaves as StaticUeAppLcmProxy says.             *)
LEMMA ProxyStep ==
  ASSUME SystemTypeOK, Phases, [SystemNext]_systemVars
  PROVE  [Next]_vars
<1>1. CASE UNCHANGED systemVars
  BY <1>1 DEF systemVars
<1>2. ASSUME NEW u \in UeAppId, NEW x \in AppInfo, requestContext(u, x)
      PROVE  UNCHANGED vars
  BY <1>2 DEF requestContext
<1>3. ASSUME NEW u \in UeAppId, NEW c \in ContextId, grantContext(u, c)
      PROVE  Next
  <2>1. /\ exchange[u].app \in AppInfo
        /\ Host \in Address
        /\ Manager!callbackOf(u) \in Callback \cup {Empty}
    BY <1>3, ExchangeType, CallbackValid, ManagerAssumption DEF grantContext
  <2>2. \/ createContext(Host, exchange[u].app, u, Manager!callbackOf(u), c)
        \/ createContext_Duplicate(Host, exchange[u].app, u)
    BY <1>3 DEF grantContext
  <2> QED  BY <2>1, <2>2 DEF Next, serveContext
<1>4. ASSUME NEW u \in UeAppId,
             refuseContext(u) \/ receiveAnswer(u) \/ loseAnswer(u)
      PROVE  UNCHANGED vars
  BY <1>4 DEF refuseContext, receiveAnswer, loseAnswer
<1>5. ASSUME NEW t \in Thread, handleNotification(t)
      PROVE  UNCHANGED vars
  BY <1>5 DEF handleNotification
<1>6. ASSUME NEW t \in Thread, receiveReply(t) \/ failPost(t)
      PROVE  Next
  BY <1>6 DEF receiveReply, failPost, Next, notifyClients
<1>7. ASSUME NEW m \in late, handleLate(m)
      PROVE  UNCHANGED vars
  BY <1>7 DEF handleLate
<1>8. ASSUME NEW u \in UeAppId, deleteNext(u)
      PROVE  Next \/ UNCHANGED vars
  <2>1. theContexts[u].contextId \in ContextId
    BY <1>8, KnownType DEF deleteNext, Manager!destroy_next, Phases, kept
  <2> QED  BY <1>8, <2>1 DEF deleteNext, Next, serveContext
<1>9. CASE proxyAlone
  BY <1>9 DEF proxyAlone, Next, notifyClients
<1>10. CASE managerAlone
  BY <1>10 DEF managerAlone
<1> QED
  BY <1>1, <1>2, <1>3, <1>4, <1>5, <1>6, <1>7, <1>8, <1>9, <1>10
     DEF SystemNext

(* What a grant of the context c to the application u does: it makes the   *)
(* context, its index entry and the answer, and nothing else.              *)
Grants(u, c) ==
  LET new == theApplicationsByContextId'[c]
  IN  /\ ~live(c) /\ live(c)'
      /\ new.ueAppId = u /\ new.client = Host
      /\ new.callback = Manager!callbackOf(u)
      /\ new.edgeRouter \in Router
      /\ \A d \in ContextId \ {c} :
           theApplicationsByContextId'[d] = theApplicationsByContextId[d]
      /\ theApplicationsByUeAppId'[u] = c
      /\ \A v \in UeAppId \ {u} :
           /\ theApplicationsByUeAppId'[v] = theApplicationsByUeAppId[v]
           /\ exchange'[v] = exchange[v]
      /\ exchange'[u] =
           IF u \in calls THEN [type         |-> "granted",
                                contextId    |-> c,
                                referenceUri |-> new.edgeRouter]
           ELSE Nil
      /\ exchange' \in [UeAppId -> Exchange \cup {Nil}]
      /\ \A m \in mailed : m.contextId # c
      /\ UNCHANGED <<theApplications, theTable, notifyVars, failure,
                     managerVars, reply, late, faults>>

(* A request that is served finds its id new: the debug build does not     *)
(* abort on it, and both builds index the context.                         *)
LEMMA GrantEffect ==
  ASSUME IInv, SystemTypeOK, Exchanges,
         NEW u \in UeAppId, NEW c \in ContextId, grantContext(u, c)
  PROVE  Grants(u, c)
<1> DEFINE x   == exchange[u].app
           ans == [type         |-> "granted",
                   contextId    |-> c,
                   referenceUri |-> find(theTable, Host, x.appName)]
<1>1. requested(u) /\ freshContextId(c)
  BY DEF grantContext
<1>2. theApplicationsByUeAppId[u] = Nil
  <2>1. ASSUME theApplicationsByUeAppId[u] # Nil
        PROVE  FALSE
    BY <1>1, <2>1 DEF IInv, IteratorsValid, TypeOK, Exchanges
  <2> QED  BY <2>1
<1>3. /\ createContext(Host, x, u, Manager!callbackOf(u), c)
      /\ answer(u, ans)
  BY <1>2 DEF grantContext, accepts
<1>4. /\ x \in AppInfo /\ Host \in Address
      /\ Manager!callbackOf(u) \in Callback \cup {Empty}
  BY <1>1, ExchangeType, CallbackValid, ManagerAssumption
<1>5. LET new == theApplicationsByContextId'[c]
      IN  /\ ~live(c) /\ live(c)'
          /\ new.ueAppId = u /\ new.client = Host
          /\ new.edgeRouter = find(theTable, Host, x.appName)
          /\ new.edgeRouter \in Router
          /\ \A d \in ContextId \ {c} :
               theApplicationsByContextId'[d] = theApplicationsByContextId[d]
          /\ theApplicationsByUeAppId'[u] = c
          /\ \A v \in UeAppId \ {u} :
               theApplicationsByUeAppId'[v] = theApplicationsByUeAppId[v]
  BY <1>2, <1>3, <1>4, CreateEffect DEF IInv
<1>6. theApplicationsByContextId'[c].callback = Manager!callbackOf(u)
  BY <1>3 DEF createContext, IInv, TypeOK
<1>7. ans \in Exchange
  BY <1>5 DEF Exchange
<1> HIDE DEF x, ans
<1>8. /\ exchange' \in [UeAppId -> Exchange \cup {Nil}]
      /\ exchange'[u] = IF u \in calls THEN ans ELSE Nil
      /\ \A v \in UeAppId \ {u} : exchange'[v] = exchange[v]
  BY <1>3, <1>7 DEF answer, SystemTypeOK
<1>9. \A m \in mailed : m.contextId # c
  BY <1>1, <1>3, MailedCases DEF freshContextId, createContext, fresh
<1>10. UNCHANGED <<theApplications, theTable, notifyVars, failure,
                   managerVars, reply, late, faults>>
  BY <1>3 DEF grantContext, createContext
<1> QED
  BY <1>5, <1>6, <1>8, <1>9, <1>10 DEF Grants, ans

(* What all other steps do to the contexts of the proxy: they end some,    *)
(* and leave to the others their id, client, callback and index entry.     *)
Keeps ==
  \A c \in ContextId : live(c)' =>
    LET old == theApplicationsByContextId[c]
        new == theApplicationsByContextId'[c]
    IN  /\ live(c)
        /\ new.ueAppId = old.ueAppId
        /\ new.client = old.client
        /\ new.callback = old.callback
        /\ theApplicationsByUeAppId[old.ueAppId] = c =>
             theApplicationsByUeAppId'[old.ueAppId] = c

(* The context that is erased was the only one of its id.                  *)
LEMMA EraseKeeps ==
  ASSUME IInv, Ownership, NEW c \in ContextId, live(c), erase(c)
  PROVE  Keeps
<1> SUFFICES ASSUME NEW d \in ContextId, live(d)'
             PROVE  /\ live(d)
                    /\ theApplicationsByContextId'[d] =
                         theApplicationsByContextId[d]
                    /\ LET u == theApplicationsByContextId[d].ueAppId
                       IN  theApplicationsByUeAppId[u] = d =>
                             theApplicationsByUeAppId'[u] = d
  BY DEF Keeps
<1>1. d # c /\ theApplicationsByContextId'[d] = theApplicationsByContextId[d]
  BY DEF erase, IInv, TypeOK, live
<1>2. live(d)
  BY <1>1 DEF live
<1>3. /\ theApplicationsByContextId[d].ueAppId \in UeAppId
      /\ theApplicationsByContextId[c].ueAppId \in UeAppId
  BY <1>2, OwnerOf
<1>4. theApplicationsByContextId[d].ueAppId #
        theApplicationsByContextId[c].ueAppId
  BY <1>1, <1>2, OwnerOf
<1>5. theApplicationsByUeAppId'[theApplicationsByContextId[d].ueAppId] =
        theApplicationsByUeAppId[theApplicationsByContextId[d].ueAppId]
  BY <1>3, <1>4 DEF erase, IInv, TypeOK
<1> QED  BY <1>1, <1>2, <1>5

(* New edge routers change nothing of that.                                *)
LEMMA ReroutedKeeps ==
  ASSUME NEW n \in AppName, NEW table, NEW router, Rerouted(n, table, router)
  PROVE  Keeps
BY DEF Rerouted, Keeps

(* Nor do steps that leave contexts alone.                                 *)
LEMMA StillKeeps ==
  ASSUME UNCHANGED contextVars
  PROVE  Keeps
BY DEF contextVars, Keeps, live

(* Changes of the table, refusals and deletions are such steps.            *)
LEMMA ChangeKeeps ==
  ASSUME IInv, NEW t \in Thread, changeTable(t)
  PROVE  Keeps
<1>1. ASSUME NEW a \in Address \cup {Empty}, NEW n \in AppName,
             NEW r \in Router, associateAddress(t, a, n, r)
      PROVE  Keeps
  BY <1>1, AssociateEffect, ReroutedKeeps DEF IInv
<1>2. ASSUME NEW a \in Address \cup {Empty}, NEW n \in AppName,
             removeAddress(t, a, n)
      PROVE  Keeps
  BY <1>2, RemoveEffect, ReroutedKeeps DEF IInv
<1>3. ASSUME NEW why, die(why)
      PROVE  Keeps
  BY <1>3, StillKeeps DEF die
<1> QED
  BY <1>1, <1>2, <1>3
     DEF changeTable, associateAddress_Unrouted, notifyClients_Locked

(* A deletion or a refusal finds the context indexed: the assertion on the *)
(* index holds, and the context ends.                                      *)
LEMMA DeleteEffect ==
  ASSUME IInv, Ownership, NEW c \in ContextId,
         deleteContext(c) \/ deleteContext_NotIndexed(c)
  PROVE  live(c) /\ erase(c) /\ UNCHANGED <<notifyVars, failure>>
<1>1. live(c) => indexed(c)
  BY OwnerOf, NilAssumption DEF indexed
<1> QED  BY <1>1 DEF deleteContext, deleteContext_NotIndexed

(* A refusal ends at most the context it is about, without a failure.      *)
LEMMA RefusalEffect ==
  ASSUME IInv, Ownership, NEW t \in Thread, answerRefused(t)
  PROVE  LET c == posting[t].contextId
         IN  /\ c \in ContextId /\ UNCHANGED <<toNotify, failure>>
             /\ \/ ~live(c) /\ UNCHANGED contextVars
                \/ live(c) /\ erase(c)
<1> DEFINE c == posting[t].contextId
<1>1. c \in ContextId
  BY DEF answerRefused, IInv, TypeOK, Notification
<1>2. live(c) => indexed(c)
  BY <1>1, OwnerOf, NilAssumption DEF indexed
<1> QED  BY <1>1, <1>2 DEF answerRefused, purge

(* What they do to the mail: a new notification is about a live context.   *)
News ==
  \A m \in mailed' :
    \/ m \in mailed
    \/ \E c \in ContextId : /\ live(c) /\ m.contextId = c
                            /\ m.callback = theApplicationsByContextId[c].callback

(* What they do to the manager: it enters contexts it was granted.         *)
Entered ==
  \A u \in UeAppId : Manager!known(u)' =>
    \/ Manager!known(u) /\ kept(u)' = kept(u)
    \/ /\ ~Manager!known(u) /\ granted(u) /\ exchange'[u] = Nil
       /\ kept(u)' = exchange[u].contextId
       /\ Manager!referenceUri(u)' = exchange[u].referenceUri

(* And to what is under way between the two.                               *)
Exchanged ==
  \A u \in UeAppId :
    /\ granted(u)' => granted(u) /\ exchange'[u] = exchange[u]
    /\ requested(u)' =>
         \/ requested(u)
         \/ freshUeAppId(u) /\ UNCHANGED <<vars, theContexts, late>>

(* Every step but the grant of a context is such a step.                   *)
LEMMA KeepsStep ==
  ASSUME IInv, SystemTypeOK, Phases, Ownership, [SystemNext]_systemVars
  PROVE  \/ Keeps
         \/ \E u \in UeAppId, c \in ContextId : grantContext(u, c)
<1>1. ASSUME UNCHANGED vars
      PROVE  Keeps
  BY <1>1, StillKeeps DEF vars
<1>2. CASE UNCHANGED systemVars
  BY <1>1, <1>2 DEF systemVars
<1>3. ASSUME NEW u \in UeAppId,
             \/ \E x \in AppInfo : requestContext(u, x)
             \/ refuseContext(u) \/ receiveAnswer(u) \/ loseAnswer(u)
      PROVE  Keeps
  BY <1>1, <1>3 DEF requestContext, refuseContext, receiveAnswer, loseAnswer
<1>4. ASSUME NEW t \in Thread, handleNotification(t)
      PROVE  Keeps
  BY <1>1, <1>4 DEF handleNotification
<1>5. ASSUME NEW t \in Thread, answerRefused(t)
      PROVE  Keeps
  BY <1>5, RefusalEffect, EraseKeeps, StillKeeps
<1>6. ASSUME NEW t \in Thread, receiveReply(t) \/ failPost(t)
      PROVE  Keeps
  BY <1>5, <1>6, StillKeeps
     DEF receiveReply, failPost, answerAccepted, postFailed, forget
<1>7. ASSUME NEW m \in late, handleLate(m)
      PROVE  Keeps
  BY <1>1, <1>7 DEF handleLate
<1>8. ASSUME NEW u \in UeAppId, deleteNext(u)
      PROVE  Keeps
  <2>1. theContexts[u].contextId \in ContextId
    BY <1>8, KnownType DEF deleteNext, Manager!destroy_next, Phases, kept
  <2> QED  BY <1>1, <1>8, <2>1, DeleteEffect, EraseKeeps DEF deleteNext
<1>9. CASE proxyAlone
  <2>1. ASSUME NEW t \in Thread, NEW m \in toNotify[t],
               \/ skipNotification(t, m) \/ skipNotification_Empty(t, m)
               \/ postNotification(t, m)
        PROVE  Keeps
    BY <2>1, StillKeeps
       DEF skipNotification, skipNotification_Empty, postNotification, die
  <2> QED
    BY <1>9, <2>1, ChangeKeeps, StillKeeps DEF proxyAlone, changeApps
<1>10. CASE managerAlone
  BY <1>1, <1>10 DEF managerAlone
<1> QED
  BY <1>2, <1>3, <1>4, <1>6, <1>7, <1>8, <1>9, <1>10 DEF SystemNext

(* Given up, a notification is late; nothing else comes late.              *)
LEMMA LateStep ==
  ASSUME SystemTypeOK, [SystemNext]_systemVars
  PROVE  /\ late' \subseteq mailed
         /\ ~Lossy => late' \subseteq late
         /\ UNCHANGED faults
<1>1. ASSUME NEW t \in Thread, failPost(t)
      PROVE  /\ late' \subseteq mailed
             /\ ~Lossy => late' \subseteq late
             /\ UNCHANGED faults
  <2>1. posting[t] \in pending(t)
    BY <1>1 DEF failPost, postFailed, forget, pending
  <2>2. posting[t] \in mailed /\ late \subseteq mailed
    BY <2>1, MailedCases
  <2> QED  BY <1>1, <2>2 DEF failPost
<1>2. ASSUME late' \subseteq late
      PROVE  late' \subseteq mailed
  BY <1>2 DEF mailed
<1>3. CASE UNCHANGED networkVars
  BY <1>2, <1>3 DEF networkVars
<1>4. ASSUME NEW m \in late, handleLate(m)
      PROVE  late' \subseteq late /\ UNCHANGED faults
  BY <1>4 DEF handleLate
<1> QED
  BY <1>1, <1>2, <1>3, <1>4
     DEF SystemNext, systemVars, requestContext, grantContext, refuseContext,
         receiveAnswer, loseAnswer, handleNotification, receiveReply,
         deleteNext, proxyAlone, managerAlone

(* New notifications are about live contexts.                              *)
LEMMA NewsStep ==
  ASSUME IInv, SystemTypeOK, Phases, [SystemNext]_systemVars
  PROVE  News
<1> SUFFICES ASSUME NEW m \in mailed', m \notin mailed
             PROVE  \E c \in ContextId :
                      /\ live(c) /\ m.contextId = c
                      /\ m.callback = theApplicationsByContextId[c].callback
  BY DEF News
<1>1. m \in late' \/ \E t \in Thread : m \in pending(t)'
  BY DEF mailed
<1>2. m \notin late' /\ \A t \in Thread : m \notin pending(t)
  BY LateStep, MailedCases
<1>3. PICK t \in Thread : m \in pending(t)'
  BY <1>1, <1>2
<1>4. PICK s \in Thread : \E cs : Announced(s, cs)
  BY <1>2, <1>3, ProxyStep, QuietOrAnnounced DEF QuietStep
<1>5. PICK cs : Announced(s, cs)
  BY <1>4
<1>6. t = s
  BY <1>2, <1>3, <1>5 DEF Announced
<1>7. PICK c \in cs :
        m = notificationTo(c, theApplicationsByContextId'[c].edgeRouter)
  BY <1>3, <1>5, <1>6 DEF Announced
<1> QED  BY <1>5, <1>7 DEF Announced, notificationTo

(* The handler of a notification changes one reference URI, at most.       *)
LEMMA HandleEffect ==
  ASSUME SystemTypeOK, Mail, NEW m \in mailed,
         Manager!handleNotification(m.callback, m.uri)
  PROVE  LET u == Manager!ueAppIdOf(m.callback)
         IN  /\ UNCHANGED <<phase, calls, toDelete>>
             /\ u \in UeAppId
             /\ theContexts' \in [UeAppId -> Manager!Granted \cup {Nil}]
             /\ \A v \in UeAppId \ {u} : theContexts'[v] = theContexts[v]
             /\ ~Manager!known(u) => theContexts' = theContexts
             /\ Manager!known(u) =>
                  /\ Manager!known(u)' /\ kept(u)' = kept(u)
                  /\ Manager!referenceUri(u)' = m.uri
<1> DEFINE u == Manager!ueAppIdOf(m.callback)
<1>1. u \in UeAppId
  BY MailedFor
<1>2. /\ UNCHANGED <<phase, calls, toDelete>>
      /\ theContexts' = IF Manager!known(u)
                        THEN [theContexts EXCEPT ![u].referenceUri = m.uri]
                        ELSE theContexts
  BY DEF Manager!handleNotification
<1>3. theContexts \in [UeAppId -> Manager!Granted \cup {Nil}]
  BY DEF SystemTypeOK, Manager!ManagerTypeOK
<1>4. CASE ~Manager!known(u)
  BY <1>1, <1>2, <1>3, <1>4
<1>5. CASE Manager!known(u)
  <2>1. theContexts[u] \in Manager!Granted /\ m.uri \in Router
    BY <1>1, <1>5, KnownType, MailedType
  <2> DEFINE new == [theContexts[u] EXCEPT !.referenceUri = m.uri]
  <2>2. /\ new \in Manager!Granted
        /\ new.referenceUri = m.uri
        /\ new.contextId = theContexts[u].contextId
    BY <2>1 DEF Manager!Granted
  <2>3. new # Nil
    BY <2>2, ManagerAssumption
  <2>4. theContexts' = [theContexts EXCEPT ![u] = new]
    BY <1>2, <1>5
  <2> HIDE DEF new, u
  <2>5. theContexts'[u] = new
    BY <1>1, <1>3, <2>4
  <2>6. /\ theContexts' \in [UeAppId -> Manager!Granted \cup {Nil}]
        /\ \A v \in UeAppId \ {u} : theContexts'[v] = theContexts[v]
    BY <1>1, <1>3, <2>2, <2>4
  <2>7. /\ Manager!known(u)' /\ kept(u)' = kept(u)
        /\ Manager!referenceUri(u)' = m.uri
    BY <2>2, <2>3, <2>5 DEF Manager!known, kept, Manager!referenceUri
  <2> QED  BY <1>1, <1>2, <1>5, <2>6, <2>7 DEF u
<1> QED  BY <1>4, <1>5

(* The answer to a creation is entered as it came.                         *)
LEMMA AnswerEffect ==
  ASSUME SystemTypeOK, Exchanges, NEW u \in UeAppId, receiveAnswer(u)
  PROVE  /\ u \in calls /\ calls' = calls \ {u} /\ exchange'[u] = Nil
         /\ exchange' \in [UeAppId -> Exchange \cup {Nil}]
         /\ theContexts' \in [UeAppId -> Manager!Granted \cup {Nil}]
         /\ \A v \in UeAppId \ {u} : /\ exchange'[v] = exchange[v]
                                     /\ theContexts'[v] = theContexts[v]
         /\ ~granted(u) => theContexts' = theContexts
         /\ granted(u) =>
              /\ Manager!known(u)' /\ kept(u)' = exchange[u].contextId
              /\ Manager!referenceUri(u)' = exchange[u].referenceUri
         /\ UNCHANGED <<phase, toDelete, vars, reply, late, faults>>
<1> DEFINE new == [referenceUri |-> exchange[u].referenceUri,
                   contextId    |-> exchange[u].contextId]
<1>1. /\ u \in calls /\ calls' = calls \ {u}
      /\ exchange' = [exchange EXCEPT ![u] = Nil]
      /\ UNCHANGED <<phase, toDelete, vars, reply, late, faults>>
      /\ granted(u) => theContexts' = [theContexts EXCEPT ![u] =
                                         IF @ = Nil THEN new ELSE @]
      /\ ~granted(u) => theContexts' = theContexts
  BY DEF receiveAnswer, Manager!contextCreate_granted,
         Manager!contextCreate_failed, granted
<1>2. theContexts[u] = Nil
  BY <1>1 DEF Exchanges, Manager!known
<1>3. /\ exchange \in [UeAppId -> Exchange \cup {Nil}]
      /\ theContexts \in [UeAppId -> Manager!Granted \cup {Nil}]
  BY DEF SystemTypeOK, Manager!ManagerTypeOK
<1>4. granted(u) => new \in Manager!Granted /\ new # Nil
  BY ExchangeType, ManagerAssumption DEF Manager!Granted
<1>5. /\ new.referenceUri = exchange[u].referenceUri
      /\ new.contextId = exchange[u].contextId
  OBVIOUS
<1> HIDE DEF new
<1>6. /\ exchange' \in [UeAppId -> Exchange \cup {Nil}] /\ exchange'[u] = Nil
      /\ \A v \in UeAppId \ {u} : exchange'[v] = exchange[v]
  BY <1>1, <1>3
<1>7. /\ theContexts' \in [UeAppId -> Manager!Granted \cup {Nil}]
      /\ \A v \in UeAppId \ {u} : theContexts'[v] = theContexts[v]
      /\ granted(u) => theContexts'[u] = new
  BY <1>1, <1>2, <1>3, <1>4
<1> QED
  BY <1>1, <1>4, <1>5, <1>6, <1>7
     DEF Manager!known, kept, Manager!referenceUri

(* The steps of the manager's own life.                                    *)
LEMMA LifeEffect ==
  ASSUME SystemTypeOK, managerAlone
  PROVE  /\ UNCHANGED <<vars, reply, late, faults>>
         /\ \/ UNCHANGED <<calls, theContexts>>
            \/ calls' = {} /\ theContexts' = [u \in UeAppId |-> Nil]
         /\ exchange' = [u \in UeAppId |->
              IF calls' # calls /\ exchange[u] # Nil /\ ~requested(u)
              THEN Nil ELSE exchange[u]]
BY DEF managerAlone, Manager!destroy, Manager!destroyed, Manager!crash,
       Manager!start, Manager!vanish, Manager!none

(* The two steps that run the manager's handler.                           *)
LEMMA Handles ==
  ASSUME SystemTypeOK
  PROVE  /\ \A t \in Thread : handleNotification(t) =>
              posting[t] \in mailed /\ posting[t] \in pending(t)
         /\ \A m \in late : m \in mailed
<1>1. \A t \in Thread : handleNotification(t) => posting[t] \in pending(t)
  BY DEF handleNotification, pending
<1> QED  BY <1>1, MailedCases

(* The manager enters the contexts it was granted, and no other.           *)
LEMMA EnteredStep ==
  ASSUME IInv, SystemTypeOK, Phases, Exchanges, Mail,
         [SystemNext]_systemVars
  PROVE  Entered
<1>1. ASSUME theContexts' = theContexts
      PROVE  Entered
  BY <1>1 DEF Entered, Manager!known, kept
<1>2. ASSUME NEW m \in mailed, Manager!handleNotification(m.callback, m.uri)
      PROVE  Entered
  BY <1>2, HandleEffect DEF Entered, Manager!known, kept
<1>3. ASSUME NEW t \in Thread, handleNotification(t)
      PROVE  Entered
  BY <1>2, <1>3, Handles DEF handleNotification
<1>4. ASSUME NEW m \in late, handleLate(m)
      PROVE  Entered
  BY <1>2, <1>4, Handles DEF handleLate
<1>5. ASSUME NEW u \in UeAppId, receiveAnswer(u)
      PROVE  Entered
  <2>1. ~Manager!known(u)
    BY <1>5, AnswerEffect DEF Exchanges
  <2> QED
    BY <1>5, <2>1, AnswerEffect DEF Entered, Manager!known, kept
<1>6. CASE managerAlone
  <2>1. CASE theContexts' = [u \in UeAppId |-> Nil]
    BY <2>1 DEF Entered, Manager!known
  <2> QED  BY <1>1, <1>6, <2>1, LifeEffect
<1>7. CASE UNCHANGED managerVars
  BY <1>1, <1>7 DEF managerVars
<1>8. ASSUME NEW u \in UeAppId,
             \/ \E x \in AppInfo : requestContext(u, x)
             \/ loseAnswer(u) \/ deleteNext(u)
      PROVE  Entered
  BY <1>1, <1>8 DEF requestContext, loseAnswer, deleteNext,
        Manager!contextCreate, Manager!contextCreate_failed,
        Manager!destroy_next
<1> QED
  BY <1>3, <1>4, <1>5, <1>6, <1>7, <1>8
     DEF SystemNext, systemVars, grantContext, refuseContext, receiveReply,
         failPost, proxyAlone

(* Only the grant of a context makes a new answer.                         *)
LEMMA ExchangedStep ==
  ASSUME SystemTypeOK, Exchanges, [SystemNext]_systemVars
  PROVE  \/ Exchanged
         \/ \E u \in UeAppId, c \in ContextId : grantContext(u, c)
<1>1. ASSUME \A u \in UeAppId :
               \/ exchange'[u] = exchange[u]
               \/ exchange'[u] = Nil
               \/ exchange'[u] = [type |-> "refused"]
      PROVE  Exchanged
  BY <1>1 DEF Exchanged, granted, requested
<1>2. exchange \in [UeAppId -> Exchange \cup {Nil}]
  BY DEF SystemTypeOK
<1>3. ASSUME NEW u \in UeAppId, NEW x \in AppInfo, requestContext(u, x)
      PROVE  Exchanged
  <2>1. /\ freshUeAppId(u) /\ UNCHANGED <<vars, theContexts, late>>
        /\ exchange' = [exchange EXCEPT ![u] = [type |-> "request", app |-> x]]
    BY <1>3 DEF requestContext, Manager!contextCreate
  <2>2. /\ exchange'[u] = [type |-> "request", app |-> x]
        /\ \A v \in UeAppId \ {u} : exchange'[v] = exchange[v]
    BY <1>2, <2>1
  <2> QED  BY <2>1, <2>2 DEF Exchanged, granted, requested
<1>4. ASSUME NEW u \in UeAppId, refuseContext(u) \/ loseAnswer(u)
      PROVE  Exchanged
  BY <1>1, <1>2, <1>4 DEF refuseContext, answer, loseAnswer
<1>5. ASSUME NEW u \in UeAppId, receiveAnswer(u)
      PROVE  Exchanged
  BY <1>1, <1>5, AnswerEffect
<1>6. CASE managerAlone
  BY <1>1, <1>6, LifeEffect
<1>7. CASE UNCHANGED exchange
  BY <1>1, <1>7
<1> QED
  BY <1>3, <1>4, <1>5, <1>6, <1>7
     DEF SystemNext, systemVars, networkVars, handleNotification, handleLate,
         receiveReply, failPost, deleteNext, proxyAlone

-----------------------------------------------------------------------------
(* Each part of the invariant is preserved.                                *)

(* The types of what is late and of the faults.                            *)
LEMMA LateTypeStep ==
  ASSUME SystemTypeOK, [SystemNext]_systemVars
  PROVE  late' \subseteq Notification /\ faults' \in Faults
BY LateStep, MailedType DEF SystemTypeOK

(* The type of the answers to notifications.                               *)
LEMMA ReplyTypeStep ==
  ASSUME SystemTypeOK, [SystemNext]_systemVars
  PROVE  reply' \in [Thread -> Replies]
<1>1. reply \in [Thread -> Replies]
  BY DEF SystemTypeOK
<1>2. ASSUME NEW t \in Thread,
             handleNotification(t) \/ receiveReply(t) \/ failPost(t)
      PROVE  reply' \in [Thread -> Replies]
  BY <1>1, <1>2 DEF handleNotification, receiveReply, failPost, Replies
<1> QED
  BY <1>1, <1>2
     DEF SystemNext, systemVars, networkVars, requestContext, grantContext,
         refuseContext, receiveAnswer, loseAnswer, handleLate, deleteNext,
         proxyAlone, managerAlone

(* The type of requests and their answers.                                 *)
LEMMA ExchangeTypeStep ==
  ASSUME IInv, SystemTypeOK, Exchanges, [SystemNext]_systemVars
  PROVE  exchange' \in [UeAppId -> Exchange \cup {Nil}]
<1>1. exchange \in [UeAppId -> Exchange \cup {Nil}]
  BY DEF SystemTypeOK
<1>2. /\ \A x \in AppInfo : [type |-> "request", app |-> x] \in Exchange
      /\ [type |-> "refused"] \in Exchange
  BY DEF Exchange
<1>3. ASSUME NEW u \in UeAppId, NEW x \in AppInfo, requestContext(u, x)
      PROVE  exchange' \in [UeAppId -> Exchange \cup {Nil}]
  BY <1>1, <1>2, <1>3 DEF requestContext
<1>4. ASSUME NEW u \in UeAppId, refuseContext(u) \/ loseAnswer(u)
      PROVE  exchange' \in [UeAppId -> Exchange \cup {Nil}]
  BY <1>1, <1>2, <1>4 DEF refuseContext, answer, loseAnswer
<1>5. CASE managerAlone
  BY <1>1, <1>5, LifeEffect
<1> QED
  BY <1>1, <1>3, <1>4, <1>5, GrantEffect, AnswerEffect
     DEF Grants, SystemNext, systemVars, networkVars, handleNotification,
         handleLate, receiveReply, failPost, deleteNext, proxyAlone

(* The type of what the manager keeps.                                     *)
LEMMA ManagerTypeStep ==
  ASSUME SystemTypeOK, Exchanges, Mail, [SystemNext]_systemVars
  PROVE  Manager!ManagerTypeOK'
<1> USE DEF Manager!ManagerTypeOK
<1>1. Manager!ManagerTypeOK
  BY DEF SystemTypeOK
<1>2. ASSUME NEW m \in mailed, Manager!handleNotification(m.callback, m.uri)
      PROVE  Manager!ManagerTypeOK'
  BY <1>1, <1>2, HandleEffect
<1>3. ASSUME NEW t \in Thread, handleNotification(t)
      PROVE  Manager!ManagerTypeOK'
  BY <1>2, <1>3, Handles DEF handleNotification
<1>4. ASSUME NEW m \in late, handleLate(m)
      PROVE  Manager!ManagerTypeOK'
  BY <1>2, <1>4, Handles DEF handleLate
<1>5. ASSUME NEW u \in UeAppId, receiveAnswer(u)
      PROVE  Manager!ManagerTypeOK'
  BY <1>1, <1>5, AnswerEffect
<1>6. CASE managerAlone
  BY <1>1, <1>6 DEF managerAlone, Manager!destroy, Manager!destroyed,
       Manager!crash, Manager!start, Manager!vanish, Manager!none
<1>7. CASE UNCHANGED managerVars
  BY <1>1, <1>7 DEF managerVars
<1>8. ASSUME NEW u \in UeAppId,
             \/ \E x \in AppInfo : requestContext(u, x)
             \/ loseAnswer(u) \/ deleteNext(u)
      PROVE  Manager!ManagerTypeOK'
  BY <1>1, <1>8 DEF requestContext, loseAnswer, deleteNext,
        Manager!contextCreate, Manager!contextCreate_failed,
        Manager!destroy_next
<1> QED
  BY <1>3, <1>4, <1>5, <1>6, <1>7, <1>8
     DEF SystemNext, systemVars, grantContext, refuseContext, receiveReply,
         failPost, proxyAlone

(* The types, of which those of the proxy are its own theorem.             *)
LEMMA SystemTypeStep ==
  ASSUME IInv, SystemTypeOK, Phases, Exchanges, Mail, [SystemNext]_systemVars
  PROVE  IInv' /\ SystemTypeOK'
<1>1. IInv'
  BY ProxyStep, NextIInv
<1> QED
  BY <1>1, LateTypeStep, ReplyTypeStep, ExchangeTypeStep, ManagerTypeStep
     DEF IInv, SystemTypeOK

(* The phases of the manager and what goes with them.                      *)
LEMMA PhasesStep ==
  ASSUME SystemTypeOK, Phases, Exchanges, Mail, [SystemNext]_systemVars
  PROVE  Phases'
<1>1. CASE UNCHANGED managerVars
  BY <1>1 DEF managerVars, Phases, Manager!known
<1>2. ASSUME NEW m \in mailed, Manager!handleNotification(m.callback, m.uri)
      PROVE  Phases'
  <2>1. \A u \in UeAppId : Manager!known(u)' <=> Manager!known(u)
    BY <1>2, HandleEffect DEF Manager!known
  <2>2. toDelete \subseteq UeAppId
    BY DEF SystemTypeOK, Manager!ManagerTypeOK
  <2> QED  BY <1>2, <2>1, <2>2, HandleEffect DEF Phases
<1>3. ASSUME NEW t \in Thread, handleNotification(t)
      PROVE  Phases'
  BY <1>2, <1>3, Handles DEF handleNotification
<1>4. ASSUME NEW m \in late, handleLate(m)
      PROVE  Phases'
  BY <1>2, <1>4, Handles DEF handleLate
<1>5. ASSUME NEW u \in UeAppId, receiveAnswer(u)
      PROVE  Phases'
  <2>1. phase = "serving" /\ toDelete = {}
    BY <1>5, AnswerEffect DEF Phases
  <2> QED  BY <1>5, <2>1, AnswerEffect DEF Phases
<1>6. CASE managerAlone
  BY <1>6 DEF Phases, managerAlone, Manager!destroy, Manager!destroyed,
       Manager!crash, Manager!start, Manager!vanish, Manager!none,
       Manager!known, SystemTypeOK, Manager!ManagerTypeOK
<1>7. ASSUME NEW u \in UeAppId,
             \/ \E x \in AppInfo : requestContext(u, x)
             \/ loseAnswer(u) \/ deleteNext(u)
      PROVE  Phases'
  BY <1>7 DEF Phases, requestContext, loseAnswer, deleteNext,
        Manager!contextCreate, Manager!contextCreate_failed,
        Manager!destroy_next, Manager!known
<1> QED
  BY <1>1, <1>3, <1>4, <1>5, <1>6, <1>7
     DEF SystemNext, systemVars, grantContext, refuseContext, receiveReply,
         failPost, proxyAlone

(* An answer is under way only to a call that waits for it.                *)
LEMMA AnswersStep ==
  ASSUME IInv, SystemTypeOK, Exchanges, Mail, [SystemNext]_systemVars
  PROVE  /\ \A u \in UeAppId : exchange'[u] # Nil /\ ~requested(u)' => u \in calls'
         /\ \A u \in calls' : ~Manager!known(u)'
<1> DEFINE P == /\ \A u \in UeAppId :
                     exchange'[u] # Nil /\ ~requested(u)' => u \in calls'
                /\ \A u \in calls' : ~Manager!known(u)'
<1>1. CASE UNCHANGED <<exchange, managerVars>>
  BY <1>1 DEF managerVars, Exchanges, requested, Manager!known
<1>2. /\ exchange \in [UeAppId -> Exchange \cup {Nil}]
      /\ calls \subseteq UeAppId
  BY DEF SystemTypeOK, Manager!ManagerTypeOK
<1>3. ASSUME NEW u \in UeAppId, NEW x \in AppInfo, requestContext(u, x)
      PROVE  P
  <2>1. /\ ~Manager!known(u) /\ calls' = calls \cup {u}
        /\ UNCHANGED theContexts
        /\ exchange' = [exchange EXCEPT ![u] = [type |-> "request", app |-> x]]
    BY <1>3 DEF requestContext, freshUeAppId, Manager!contextCreate
  <2> QED  BY <1>2, <2>1 DEF Exchanges, requested, Manager!known
<1>4. ASSUME NEW u \in UeAppId, NEW c \in ContextId, grantContext(u, c)
      PROVE  P
  <2>0. Grants(u, c)
    BY <1>4, GrantEffect
  <2>1. UNCHANGED <<calls, theContexts>>
    BY <2>0 DEF Grants, managerVars
  <2>2. exchange'[u] # Nil => u \in calls
    BY <2>0 DEF Grants
  <2>3. \A v \in UeAppId \ {u} : exchange'[v] = exchange[v]
    BY <2>0 DEF Grants
  <2> QED  BY <2>1, <2>2, <2>3 DEF Exchanges, requested, Manager!known
<1>5. ASSUME NEW u \in UeAppId, refuseContext(u)
      PROVE  P
  BY <1>2, <1>5 DEF refuseContext, answer, managerVars, Exchanges, requested,
                    Manager!known
<1>6. ASSUME NEW u \in UeAppId, loseAnswer(u)
      PROVE  P
  BY <1>2, <1>6 DEF loseAnswer, Manager!contextCreate_failed, Exchanges,
                    requested, Manager!known
<1>7. ASSUME NEW u \in UeAppId, receiveAnswer(u)
      PROVE  P
  <2>1. /\ calls' = calls \ {u} /\ exchange'[u] = Nil
        /\ \A v \in UeAppId \ {u} : /\ exchange'[v] = exchange[v]
                                    /\ theContexts'[v] = theContexts[v]
    BY <1>7, AnswerEffect
  <2> QED  BY <1>2, <2>1 DEF Exchanges, requested, Manager!known
<1>8. ASSUME NEW m \in mailed, Manager!handleNotification(m.callback, m.uri),
             UNCHANGED exchange
      PROVE  P
  <2>1. UNCHANGED calls /\ \A u \in UeAppId : Manager!known(u)' => Manager!known(u)
    BY <1>8, HandleEffect DEF Manager!known
  <2> QED  BY <1>2, <1>8, <2>1 DEF Exchanges, requested
<1>9. ASSUME NEW t \in Thread, handleNotification(t)
      PROVE  P
  BY <1>8, <1>9, Handles DEF handleNotification
<1>10. ASSUME NEW m \in late, handleLate(m)
       PROVE  P
  BY <1>8, <1>10, Handles DEF handleLate
<1>11. CASE managerAlone
  <2>1. \/ UNCHANGED <<calls, theContexts>>
        \/ calls' = {} /\ theContexts' = [u \in UeAppId |-> Nil]
    BY <1>11, LifeEffect
  <2>2. \A u \in UeAppId : exchange'[u] =
          IF calls' # calls /\ exchange[u] # Nil /\ ~requested(u)
          THEN Nil ELSE exchange[u]
    BY <1>11, LifeEffect
  <2>3. \A u \in calls' : ~Manager!known(u)'
    BY <2>1 DEF Exchanges, Manager!known
  <2> QED  BY <2>2, <2>3 DEF Exchanges, requested
<1>12. ASSUME NEW u \in UeAppId, deleteNext(u)
       PROVE  P
  BY <1>12 DEF deleteNext, Manager!destroy_next, networkVars, Exchanges,
               requested, Manager!known
<1>13. CASE UNCHANGED managerVars /\ UNCHANGED exchange
  BY <1>1, <1>13
<1> QED
  BY <1>3, <1>4, <1>5, <1>6, <1>7, <1>9, <1>10, <1>11, <1>12, <1>13
     DEF SystemNext, systemVars, networkVars, receiveReply, failPost,
         proxyAlone

(* The id of a request that is still to be served stays unheard of.        *)
LEMMA ExchangesStep ==
  ASSUME IInv, SystemTypeOK, Phases, Exchanges, Ownership, Mail,
         [SystemNext]_systemVars
  PROVE  Exchanges'
<1> SUFFICES ASSUME NEW u \in UeAppId, requested(u)'
             PROVE  /\ ~Manager!known(u)'
                    /\ \A c \in ContextId :
                         live(c)' => theApplicationsByContextId'[c].ueAppId # u
                    /\ \A m \in mailed' : m.callback # Manager!callbackOf(u)
  BY AnswersStep DEF Exchanges
<1>1. ASSUME NEW v \in UeAppId, NEW c \in ContextId, grantContext(v, c)
      PROVE  /\ ~Manager!known(u)'
             /\ \A d \in ContextId :
                  live(d)' => theApplicationsByContextId'[d].ueAppId # u
             /\ \A m \in mailed' : m.callback # Manager!callbackOf(u)
  <2>0. Grants(v, c)
    BY <1>1, GrantEffect
  <2>1. \A w \in UeAppId \ {v} : exchange'[w] = exchange[w]
    BY <2>0 DEF Grants
  <2>2. exchange'[v] =
          IF v \in calls
          THEN [type         |-> "granted",
                contextId    |-> c,
                referenceUri |-> theApplicationsByContextId'[c].edgeRouter]
          ELSE Nil
    BY <2>0 DEF Grants
  <2>3. u # v
    BY <2>2 DEF requested
  <2>4. requested(u)
    BY <2>3, <2>1 DEF requested
  <2>5. UNCHANGED <<theContexts, toNotify, posting, late>>
    BY <2>0 DEF Grants, managerVars, notifyVars
  <2>6. /\ theApplicationsByContextId'[c].ueAppId = v
        /\ \A d \in ContextId \ {c} :
             theApplicationsByContextId'[d] = theApplicationsByContextId[d]
    BY <2>0 DEF Grants
  <2>7. mailed' = mailed
    BY <2>5 DEF mailed, pending
  <2> QED
    BY <2>3, <2>4, <2>5, <2>6, <2>7 DEF Exchanges, Manager!known, live
<1>2. ASSUME freshUeAppId(u), UNCHANGED <<vars, theContexts, late>>
      PROVE  /\ ~Manager!known(u)'
             /\ \A d \in ContextId :
                  live(d)' => theApplicationsByContextId'[d].ueAppId # u
             /\ \A m \in mailed' : m.callback # Manager!callbackOf(u)
  <2>1. mailed' = mailed
    BY <1>2 DEF vars, notifyVars, mailed, pending
  <2>2. UNCHANGED <<theContexts, theApplicationsByContextId>>
    BY <1>2 DEF vars, contextVars
  <2> QED  BY <1>2, <2>1, <2>2 DEF freshUeAppId, Manager!known, live
<1>3. ASSUME Keeps, requested(u)
      PROVE  /\ ~Manager!known(u)'
             /\ \A d \in ContextId :
                  live(d)' => theApplicationsByContextId'[d].ueAppId # u
             /\ \A m \in mailed' : m.callback # Manager!callbackOf(u)
  <2>1. ~granted(u) /\ ~Manager!known(u)
    BY <1>3, ExchangeType DEF Exchanges
  <2>2. ~Manager!known(u)'
    BY <2>1, EnteredStep DEF Entered
  <2>3. \A d \in ContextId :
          live(d)' => theApplicationsByContextId'[d].ueAppId # u
    BY <1>3 DEF Keeps, Exchanges
  <2>4. ASSUME NEW m \in mailed', m.callback = Manager!callbackOf(u)
        PROVE  FALSE
    <3>1. m \notin mailed
      BY <1>3, <2>4 DEF Exchanges
    <3>2. PICK c \in ContextId :
            live(c) /\ m.callback = theApplicationsByContextId[c].callback
      BY <3>1, NewsStep DEF News
    <3>3. Manager!callbackOf(u) =
            Manager!callbackOf(theApplicationsByContextId[c].ueAppId)
      BY <2>4, <3>2, OwnerOf
    <3>4. theApplicationsByContextId[c].ueAppId = u
      BY <3>3, CallbackNamesId
    <3> QED  BY <1>3, <3>2, <3>4 DEF Exchanges
  <2> QED  BY <2>2, <2>3, <2>4
<1>4. \/ \E v \in UeAppId, c \in ContextId : grantContext(v, c)
      \/ Keeps /\ Exchanged
  BY KeepsStep, ExchangedStep
<1>5. ASSUME Keeps, Exchanged
      PROVE  \/ requested(u)
             \/ freshUeAppId(u) /\ UNCHANGED <<vars, theContexts, late>>
  BY <1>5 DEF Exchanged
<1>6. CASE Keeps /\ Exchanged
  BY <1>2, <1>3, <1>5, <1>6
<1> QED  BY <1>1, <1>4, <1>6

(* What a context that is granted changes, once more, for its id and the   *)
(* others.                                                                 *)
LEMMA GrantedAlone ==
  ASSUME IInv, SystemTypeOK, Exchanges, Mail,
         NEW v \in UeAppId, NEW c \in ContextId, grantContext(v, c)
  PROVE  /\ \A u \in UeAppId : Manager!known(u)' <=> Manager!known(u)
         /\ \A u \in UeAppId : kept(u)' = kept(u)
         /\ \A u \in UeAppId : Manager!known(u) => u # v /\ kept(u) # c
         /\ \A u \in UeAppId \ {v} :
              /\ exchange'[u] = exchange[u]
              /\ granted(u)' <=> granted(u)
              /\ granted(u) => exchange[u].contextId # c
         /\ granted(v)' => exchange'[v].contextId = c
         /\ \A d \in ContextId : live(d) =>
              theApplicationsByContextId[d].ueAppId \in UeAppId \ {v}
         /\ mailed' = mailed
         /\ \A m \in mailed :
              m.contextId # c /\ m.callback # Manager!callbackOf(v)
<1>0. Grants(v, c)
  BY GrantEffect
<1>1. \A u \in UeAppId \ {v} : exchange'[u] = exchange[u]
  BY <1>0 DEF Grants
<1>2. exchange'[v] =
        IF v \in calls
        THEN [type         |-> "granted",
              contextId    |-> c,
              referenceUri |-> theApplicationsByContextId'[c].edgeRouter]
        ELSE Nil
  BY <1>0 DEF Grants
<1>3. UNCHANGED <<theContexts, toNotify, posting, late>>
  BY <1>0 DEF Grants, managerVars, notifyVars
<1>4. requested(v) /\ freshContextId(c)
  BY DEF grantContext
<1>5. granted(v)' => exchange'[v].contextId = c
  BY <1>2 DEF granted
<1>6. \A d \in ContextId : live(d) =>
        theApplicationsByContextId[d].ueAppId \in UeAppId \ {v}
  BY <1>4, LiveContext DEF Exchanges, IInv, Desc
<1>7. \A m \in mailed : m.contextId # c
  BY <1>0 DEF Grants
<1>8. mailed' = mailed
  BY <1>3 DEF mailed, pending
<1>9. \A u \in UeAppId :
        /\ Manager!known(u)' <=> Manager!known(u)
        /\ kept(u)' = kept(u)
        /\ Manager!known(u) => u # v /\ kept(u) # c
  BY <1>3, <1>4 DEF Exchanges, freshContextId, Manager!known, kept
<1>10. \A u \in UeAppId \ {v} :
         /\ granted(u)' <=> granted(u)
         /\ granted(u) => exchange[u].contextId # c
  BY <1>1, <1>4 DEF freshContextId, granted
<1> QED
  BY <1>1, <1>4, <1>5, <1>6, <1>7, <1>8, <1>9, <1>10 DEF Exchanges

(* A context that is granted is its id's only one; every other step leaves *)
(* owners alone.                                                           *)
LEMMA OwnershipStep ==
  ASSUME IInv, SystemTypeOK, Phases, Exchanges, Ownership, Mail,
         [SystemNext]_systemVars
  PROVE  Ownership'
<1> DEFINE P(u, d) ==
      /\ theApplicationsByContextId'[d].ueAppId = u =>
           /\ theApplicationsByContextId'[d].client = Host
           /\ theApplicationsByContextId'[d].callback = Manager!callbackOf(u)
           /\ theApplicationsByUeAppId'[u] = d
           /\ Manager!known(u)' => kept(u)' = d
           /\ granted(u)' => exchange'[u].contextId = d
      /\ Manager!known(u)' /\ kept(u)' = d =>
           theApplicationsByContextId'[d].ueAppId = u
      /\ granted(u)' /\ exchange'[u].contextId = d =>
           theApplicationsByContextId'[d].ueAppId = u
<1> SUFFICES ASSUME NEW u \in UeAppId, NEW d \in ContextId, live(d)'
             PROVE  P(u, d)
  BY DEF Ownership
<1>1. ASSUME NEW v \in UeAppId, NEW c \in ContextId, grantContext(v, c)
      PROVE  P(u, d)
  <2>0. Grants(v, c)
    BY <1>1, GrantEffect
  <2>1. /\ theApplicationsByContextId'[c].ueAppId = v
        /\ theApplicationsByContextId'[c].client = Host
        /\ theApplicationsByContextId'[c].callback = Manager!callbackOf(v)
        /\ theApplicationsByUeAppId'[v] = c
    BY <2>0 DEF Grants
  <2>2. CASE d = c
    BY <1>1, <2>1, <2>2, GrantedAlone
  <2>3. CASE d # c
    <3>1. /\ live(d)
          /\ theApplicationsByContextId'[d] = theApplicationsByContextId[d]
      <4>1. \A e \in ContextId \ {c} :
              theApplicationsByContextId'[e] = theApplicationsByContextId[e]
        BY <2>0 DEF Grants
      <4>2. theApplicationsByContextId'[d] = theApplicationsByContextId[d]
        BY <2>3, <4>1
      <4> QED  BY <4>2 DEF live
    <3>2. u # v => theApplicationsByUeAppId'[u] = theApplicationsByUeAppId[u]
      <4>1. \A w \in UeAppId \ {v} :
              theApplicationsByUeAppId'[w] = theApplicationsByUeAppId[w]
        BY <2>0 DEF Grants
      <4> QED  BY <4>1
    <3>3. theApplicationsByContextId[d].ueAppId # v
      BY <1>1, <3>1, GrantedAlone
    <3>4. CASE u = v
      BY <1>1, <2>3, <3>1, <3>3, <3>4, GrantedAlone
    <3>5. CASE u # v
      BY <1>1, <3>1, <3>2, <3>5, GrantedAlone DEF Ownership
    <3> QED  BY <3>4, <3>5
  <2> QED  BY <2>2, <2>3
<1>2. ASSUME Keeps, Exchanged
      PROVE  P(u, d)
  <2>1. /\ live(d)
        /\ theApplicationsByContextId'[d].ueAppId =
             theApplicationsByContextId[d].ueAppId
        /\ theApplicationsByContextId'[d].client =
             theApplicationsByContextId[d].client
        /\ theApplicationsByContextId'[d].callback =
             theApplicationsByContextId[d].callback
        /\ theApplicationsByContextId[d].ueAppId = u =>
             (theApplicationsByUeAppId[u] = d =>
                theApplicationsByUeAppId'[u] = d)
    BY <1>2 DEF Keeps
  <2>2. \/ ~Manager!known(u)'
        \/ Manager!known(u) /\ kept(u)' = kept(u)
        \/ granted(u) /\ kept(u)' = exchange[u].contextId
    BY EnteredStep DEF Entered
  <2>3. granted(u)' => granted(u) /\ exchange'[u] = exchange[u]
    BY <1>2 DEF Exchanged
  <2> QED  BY <2>1, <2>2, <2>3 DEF Ownership
<1> QED  BY <1>1, <1>2, KeepsStep, ExchangedStep

(* A thread has an answer under way only to a POST it waits for.           *)
LEMMA RepliesStep ==
  ASSUME SystemTypeOK, Mail, [SystemNext]_systemVars
  PROVE  \A t \in Thread : posting'[t] = Nil => reply'[t] = "none"
<1>1. /\ posting \in [Thread -> Notification \cup {Nil}]
      /\ reply \in [Thread -> Replies]
      /\ \A t \in Thread : posting[t] = Nil => reply[t] = "none"
  BY DEF SystemTypeOK, TypeOK, Mail
<1>2. CASE UNCHANGED <<posting, reply>>
  BY <1>1, <1>2
<1>3. ASSUME UNCHANGED <<vars, reply>>
      PROVE  UNCHANGED <<posting, reply>>
  BY <1>3 DEF vars, notifyVars
<1>4. ASSUME NEW t \in Thread, receiveReply(t) \/ failPost(t)
      PROVE  \A s \in Thread : posting'[s] = Nil => reply'[s] = "none"
  BY <1>1, <1>4 DEF receiveReply, failPost, answerRefused, answerAccepted,
                    postFailed, forget
<1>5. ASSUME NEW t \in Thread, handleNotification(t)
      PROVE  \A s \in Thread : posting'[s] = Nil => reply'[s] = "none"
  <2>1. UNCHANGED posting
    BY <1>5 DEF handleNotification, vars, notifyVars
  <2>2. posting[t] # Nil /\ \A s \in Thread \ {t} : reply'[s] = reply[s]
    BY <1>1, <1>5 DEF handleNotification
  <2> QED  BY <1>1, <2>1, <2>2
<1>6. ASSUME NEW u \in UeAppId, NEW c \in ContextId, grantContext(u, c)
      PROVE  UNCHANGED <<posting, reply>>
  BY <1>6 DEF grantContext, createContext, createContext_Duplicate, die,
              notifyVars
<1>7. ASSUME NEW u \in UeAppId, deleteNext(u)
      PROVE  UNCHANGED <<posting, reply>>
  BY <1>7 DEF deleteNext, deleteContext, deleteContext_NotIndexed, die, vars,
              notifyVars, networkVars
<1>8. CASE proxyAlone
  <2>1. UNCHANGED reply
    BY <1>8 DEF proxyAlone, networkVars
  <2>2. ASSUME NEW t \in Thread, NEW m \in toNotify[t], postNotification(t, m)
        PROVE  \A s \in Thread : posting'[s] = Nil => posting[s] = Nil
    <3>1. m \in Notification
      BY DEF SystemTypeOK, TypeOK
    <3>2. m # Nil
      BY <3>1, NilAssumption
    <3> QED  BY <1>1, <2>2, <3>2 DEF postNotification
  <2>3. ASSUME NEW t \in Thread, changeTable(t)
        PROVE  UNCHANGED posting
    BY <2>3 DEF changeTable, associateAddress, associateAddress_Unrouted,
                removeAddress, notifyClients_Locked, die, notifyVars
  <2>4. ASSUME NEW t \in Thread, NEW m \in toNotify[t],
               skipNotification(t, m) \/ skipNotification_Empty(t, m)
        PROVE  UNCHANGED posting
    BY <2>4 DEF skipNotification, skipNotification_Empty, die, notifyVars
  <2>5. changeApps => UNCHANGED posting
    BY DEF changeApps, notifyVars
  <2>6. \A s \in Thread : posting'[s] = Nil => posting[s] = Nil
    BY <1>8, <2>2, <2>3, <2>4, <2>5 DEF proxyAlone
  <2> QED  BY <1>1, <2>1, <2>6
<1> QED
  BY <1>2, <1>3, <1>4, <1>5, <1>6, <1>7, <1>8
     DEF SystemNext, systemVars, networkVars, requestContext, refuseContext,
         receiveAnswer, loseAnswer, handleLate, managerAlone

(* Notifications go on naming the id of their context.                     *)
LEMMA MailStep ==
  ASSUME IInv, SystemTypeOK, Phases, Exchanges, Ownership, Mail,
         [SystemNext]_systemVars
  PROVE  Mail'
<1> DEFINE P(m, u) ==
      /\ live(m.contextId)' =>
           theApplicationsByContextId'[m.contextId].ueAppId = u
      /\ Manager!known(u)' => kept(u)' = m.contextId
      /\ granted(u)' => exchange'[u].contextId = m.contextId
<1>1. ASSUME NEW m \in mailed'
      PROVE  \/ m \in mailed
             \/ \E c \in ContextId :
                  /\ live(c) /\ m.contextId = c
                  /\ m.callback = theApplicationsByContextId[c].callback
  BY NewsStep DEF News
<1>2. \A m \in mailed' : \E u \in UeAppId : m.callback = Manager!callbackOf(u)
  BY <1>1, OwnerOf DEF Mail
<1>3. ASSUME NEW m \in mailed', NEW u \in UeAppId,
             m.callback = Manager!callbackOf(u)
      PROVE  P(m, u)
  <2>1. ASSUME NEW v \in UeAppId, NEW c \in ContextId, grantContext(v, c)
        PROVE  P(m, u)
    <3>0. Grants(v, c)
      BY <2>1, GrantEffect
    <3>1. m \in mailed /\ m.contextId # c /\ u # v
      BY <1>3, <2>1, GrantedAlone
    <3>2. m.contextId \in ContextId
      BY <3>1, MailedType
    <3>3. theApplicationsByContextId'[m.contextId] =
            theApplicationsByContextId[m.contextId]
      BY <3>1, <3>2, <3>0 DEF Grants
    <3>4. /\ Manager!known(u)' <=> Manager!known(u)
          /\ kept(u)' = kept(u)
          /\ exchange'[u] = exchange[u]
          /\ granted(u)' <=> granted(u)
      BY <2>1, <3>1, GrantedAlone
    <3> QED  BY <1>3, <3>1, <3>3, <3>4 DEF Mail, live
  <2>2. ASSUME Keeps, Exchanged
        PROVE  P(m, u)
    <3>1. /\ m.contextId \in ContextId
          /\ live(m.contextId) =>
               theApplicationsByContextId[m.contextId].ueAppId = u
          /\ Manager!known(u) => kept(u) = m.contextId
          /\ granted(u) => exchange[u].contextId = m.contextId
      <4>1. CASE m \in mailed
        BY <1>3, <4>1, MailedType DEF Mail
      <4>2. ASSUME NEW c \in ContextId, live(c), m.contextId = c,
                   m.callback = theApplicationsByContextId[c].callback
            PROVE  /\ theApplicationsByContextId[c].ueAppId = u
                   /\ Manager!known(u) => kept(u) = c
                   /\ granted(u) => exchange[u].contextId = c
        <5>1. theApplicationsByContextId[c].ueAppId = u
          <6>1. Manager!callbackOf(theApplicationsByContextId[c].ueAppId) =
                  Manager!callbackOf(u)
            BY <1>3, <4>2, OwnerOf
          <6> QED  BY <6>1, CallbackNamesId
        <5> QED  BY <4>2, <5>1 DEF Ownership
      <4> QED  BY <1>1, <4>1, <4>2
    <3>2. \/ ~Manager!known(u)'
          \/ Manager!known(u) /\ kept(u)' = kept(u)
          \/ granted(u) /\ kept(u)' = exchange[u].contextId
      BY EnteredStep DEF Entered
    <3>3. granted(u)' => granted(u) /\ exchange'[u] = exchange[u]
      BY <2>2 DEF Exchanged
    <3> QED  BY <2>2, <3>1, <3>2, <3>3 DEF Keeps
  <2> QED  BY <2>1, <2>2, KeepsStep, ExchangedStep
<1> QED  BY <1>2, <1>3, RepliesStep DEF Mail

(* The proxy never dies of what a client can do to it, and never returns   *)
(* from the dead.                                                          *)
LEMMA FailureStep ==
  ASSUME IInv, SystemTypeOK, Phases, Exchanges, Ownership, Mail,
         [SystemNext]_systemVars
  PROVE  \/ failure' = failure
         \/ alive /\ failure' \in {"noRoute", "mutexLocked"}
<1>1. ASSUME UNCHANGED vars
      PROVE  failure' = failure
  BY <1>1 DEF vars
<1>2. ASSUME NEW u \in UeAppId, NEW c \in ContextId, grantContext(u, c)
      PROVE  failure' = failure
  BY <1>2, GrantEffect DEF Grants
<1>3. ASSUME NEW t \in Thread, receiveReply(t) \/ failPost(t)
      PROVE  failure' = failure
  BY <1>3, RefusalEffect DEF receiveReply, failPost, answerAccepted,
                             postFailed, forget
<1>4. ASSUME NEW u \in UeAppId, deleteNext(u)
      PROVE  failure' = failure
  <2>1. theContexts[u].contextId \in ContextId
    BY <1>4, KnownType DEF deleteNext, Manager!destroy_next, Phases, kept
  <2> QED  BY <1>1, <1>4, <2>1, DeleteEffect DEF deleteNext
<1>5. CASE proxyAlone
  <2>1. ASSUME NEW t \in Thread, changeTable(t)
        PROVE  \/ failure' = failure
               \/ alive /\ failure' \in {"noRoute", "mutexLocked"}
    <3>1. ASSUME NEW a, NEW n, NEW r, associateAddress(t, a, n, r)
          PROVE  failure' = failure
      BY <3>1 DEF associateAddress
    <3>2. ASSUME NEW a, NEW n, NEW r, associateAddress_Unrouted(t, a, n, r)
          PROVE  alive /\ failure' = "noRoute"
      BY <3>2 DEF associateAddress_Unrouted, die
    <3>3. ASSUME NEW a, NEW n, removeAddress(t, a, n)
          PROVE  failure' = failure
      BY <3>3 DEF removeAddress
    <3>4. notifyClients_Locked(t) => alive /\ failure' = "mutexLocked"
      BY DEF notifyClients_Locked, die
    <3> QED  BY <2>1, <3>1, <3>2, <3>3, <3>4 DEF changeTable
  <2>2. ASSUME NEW t \in Thread, NEW m \in toNotify[t],
               skipNotification_Empty(t, m)
        PROVE  FALSE
    <3>1. m \in mailed
      BY MailedCases DEF pending
    <3>2. m.callback # Empty
      BY <3>1, MailedFor, CallbackValid
    <3> QED  BY <2>2, <3>2 DEF skipNotification_Empty
  <2> QED
    BY <1>5, <2>1, <2>2
       DEF proxyAlone, changeApps, skipNotification, postNotification
<1> QED
  BY <1>1, <1>2, <1>3, <1>4, <1>5
     DEF SystemNext, systemVars, requestContext, refuseContext, receiveAnswer,
         loseAnswer, handleNotification, handleLate, managerAlone

-----------------------------------------------------------------------------
(* What holds under every combination of faults.                           *)

(* These parts need no assumption on faults.                               *)
Core ==
  /\ IInv /\ SystemTypeOK /\ Phases /\ Exchanges /\ Ownership /\ Mail
  /\ ManagerIsHarmless

(* At the start nothing is granted, known or under way.                    *)
LEMMA InitCore == SystemInit => Core
<1> SUFFICES ASSUME SystemInit
             PROVE  Core
  OBVIOUS
<1> USE DEF SystemInit, Manager!ManagerInit
<1>1. IInv
  BY InitIInv
<1>2. /\ \A u \in UeAppId : ~Manager!known(u) /\ exchange[u] = Nil
      /\ \A c \in ContextId : ~live(c)
      /\ \A t \in Thread : posting[t] = Nil /\ reply[t] = "none"
  BY DEF Manager!none, Manager!known, Init, live
<1>3. \A m : m \notin mailed
  <2>1. \A t \in Thread : pending(t) = {}
    BY DEF Init, pending
  <2> QED  BY <2>1, MailedCases
<1>4. SystemTypeOK
  BY <1>1 DEF IInv, SystemTypeOK, Manager!ManagerTypeOK, Manager!none, Replies
<1>5. Phases
  BY DEF Phases
<1>6. Exchanges
  BY <1>2 DEF Exchanges, requested
<1>7. Ownership /\ Mail
  BY <1>2, <1>3 DEF Ownership, Mail
<1>8. ManagerIsHarmless
  BY DEF Init, ManagerIsHarmless
<1> QED  BY <1>1, <1>4, <1>5, <1>6, <1>7, <1>8 DEF Core

(* Every step of the system preserves the parts together.                  *)
LEMMA NextCore == Core /\ [SystemNext]_systemVars => Core'
<1> SUFFICES ASSUME Core, [SystemNext]_systemVars
             PROVE  Core'
  OBVIOUS
<1>1. ManagerIsHarmless'
  BY FailureStep DEF Core, ManagerIsHarmless
<1> QED
  BY <1>1, SystemTypeStep, PhasesStep, ExchangesStep, OwnershipStep, MailStep
     DEF Core

(* The core of the invariant always holds.                                 *)
LEMMA CoreInductive == SystemSpec => []Core
BY InitCore, NextCore, PTL DEF SystemSpec

(* The proxy and the manager keep to their types, whatever is lost and     *)
(* whoever crashes.                                                        *)
THEOREM SystemTypeCorrect == SystemSpec => []SystemTypeOK
<1>1. Core => SystemTypeOK
  BY DEF Core
<1> QED  BY <1>1, CoreInductive, PTL

(* A context the manager keeps under an id is, at the proxy, the one of    *)
(* that id, with the manager's address and callback reference, and is the  *)
(* one the id is indexed to: createContext, updateContext and the purge of *)
(* notifyClients never mix up two applications of the manager.             *)
THEOREM ContextsAlwaysMatch == SystemSpec => []ContextsMatch
<1>1. Core => ContextsMatch
  <2> SUFFICES ASSUME Core, NEW u \in UeAppId, shared(u)
               PROVE  LET d == theApplicationsByContextId[kept(u)] IN
                      /\ d.ueAppId = u /\ d.client = Host
                      /\ d.callback = Manager!callbackOf(u)
                      /\ theApplicationsByUeAppId[u] = kept(u)
    BY DEF ContextsMatch
  <2>1. kept(u) \in ContextId
    BY KnownType DEF Core, shared
  <2> QED  BY <2>1 DEF Core, Ownership, shared
<1> QED  BY <1>1, CoreInductive, PTL

(* No sequence of creations, failures, restarts, deletions and refused     *)
(* notifications of a manager makes createContext, deleteContext, purge or *)
(* notifyClients fail the assertions that other clients can break.         *)
THEOREM ManagerAlwaysHarmless == SystemSpec => []ManagerIsHarmless
<1>1. Core => ManagerIsHarmless
  BY DEF Core
<1> QED  BY <1>1, CoreInductive, PTL

(* Whatever its clients and the network do, a proxy in the system behaves  *)
(* as it does alone: what is proved of StaticUeAppLcmProxy holds of it.    *)
THEOREM SystemRunsProxy == SystemSpec => Spec
<1>1. SystemInit => Init
  BY DEF SystemInit
<1>2. Core /\ [SystemNext]_systemVars => [Next]_vars
  BY ProxyStep DEF Core
<1> QED  BY <1>1, <1>2, CoreInductive, PTL DEF SystemSpec, Spec

(* With managers that crash and restart, messages that are lost or late    *)
(* and refused notifications, the proxy still implements the directory.    *)
THEOREM SystemImplementsDirectory ==
  ASSUME PlainNames
  PROVE  SystemSpec => ImplementsDirectory
BY SystemRunsProxy, ProxyImplementsDirectory, PTL

-----------------------------------------------------------------------------
(* Edge routers, if messages are not lost and one thread changes the table.*)

(* Only the handler of a notification changes what an application is told. *)
Unheard ==
  \A u \in UeAppId : Manager!known(u) /\ Manager!known(u)' =>
    Manager!referenceUri(u)' = Manager!referenceUri(u)

(* Every step but the delivery of a notification is such a step.           *)
LEMMA UnheardStep ==
  ASSUME SystemTypeOK, Exchanges, [SystemNext]_systemVars
  PROVE  \/ Unheard
         \/ \E t \in Thread : handleNotification(t)
         \/ \E m \in late : handleLate(m)
<1>1. ASSUME theContexts' = theContexts
      PROVE  Unheard
  BY <1>1 DEF Unheard, Manager!referenceUri
<1>2. ASSUME NEW u \in UeAppId, receiveAnswer(u)
      PROVE  Unheard
  <2>1. ~Manager!known(u)
    BY <1>2, AnswerEffect DEF Exchanges
  <2> QED  BY <1>2, <2>1, AnswerEffect DEF Unheard, Manager!referenceUri
<1>3. CASE managerAlone
  <2>1. CASE theContexts' = [u \in UeAppId |-> Nil]
    BY <2>1 DEF Unheard, Manager!known
  <2> QED  BY <1>1, <1>3, <2>1, LifeEffect
<1>4. CASE UNCHANGED managerVars
  BY <1>1, <1>4 DEF managerVars
<1>5. ASSUME NEW u \in UeAppId,
             \/ \E x \in AppInfo : requestContext(u, x)
             \/ loseAnswer(u) \/ deleteNext(u)
      PROVE  Unheard
  BY <1>1, <1>5 DEF requestContext, loseAnswer, deleteNext,
        Manager!contextCreate, Manager!contextCreate_failed,
        Manager!destroy_next
<1> QED
  BY <1>2, <1>3, <1>4, <1>5
     DEF SystemNext, systemVars, grantContext, refuseContext, receiveReply,
         failPost, proxyAlone

(* A notification is done with when its POST has ended: none is passed     *)
(* over, for the callback references of a manager are URIs.                *)
LEMMA DoneWith ==
  ASSUME SystemTypeOK, Mail, [SystemNext]_systemVars,
         NEW t \in Thread, NEW m \in pending(t), m \notin pending(t)'
  PROVE  m = posting[t] /\ (receiveReply(t) \/ failPost(t))
<1>1. /\ posting \in [Thread -> Notification \cup {Nil}]
      /\ toNotify \in [Thread -> SUBSET Notification]
  BY DEF SystemTypeOK, TypeOK
<1>2. m \in mailed
  BY MailedCases
<1>3. m.callback \in ValidCallback
  BY <1>2, MailedFor, CallbackValid
<1>4. ASSUME UNCHANGED <<toNotify, posting>>
      PROVE  FALSE
  BY <1>4 DEF pending
<1>5. ASSUME UNCHANGED vars
      PROVE  FALSE
  BY <1>4, <1>5 DEF vars, notifyVars
<1>6. ASSUME NEW s \in Thread, receiveReply(s) \/ failPost(s)
      PROVE  m = posting[t] /\ (receiveReply(t) \/ failPost(t))
  <2>1. UNCHANGED toNotify /\ posting' = [posting EXCEPT ![s] = Nil]
    BY <1>6 DEF receiveReply, failPost, answerRefused, answerAccepted,
                postFailed, forget
  <2>2. s = t /\ m = posting[t]
    BY <1>1, <2>1 DEF pending
  <2> QED  BY <1>6, <2>2
<1>7. ASSUME NEW u \in UeAppId, NEW c \in ContextId, grantContext(u, c)
      PROVE  FALSE
  BY <1>4, <1>7 DEF grantContext, createContext, createContext_Duplicate, die,
                    notifyVars
<1>8. ASSUME NEW u \in UeAppId, deleteNext(u)
      PROVE  FALSE
  BY <1>4, <1>5, <1>8 DEF deleteNext, deleteContext, deleteContext_NotIndexed,
                          die, notifyVars
<1>9. CASE proxyAlone
  <2>1. ASSUME NEW s \in Thread, NEW n \in toNotify[s], postNotification(s, n)
        PROVE  FALSE
    <3>1. n \in Notification /\ n # Nil
      BY <1>1, NilAssumption
    <3>2. /\ posting[s] = Nil
          /\ toNotify' = [toNotify EXCEPT ![s] = @ \ {n}]
          /\ posting' = [posting EXCEPT ![s] = n]
      BY <2>1 DEF postNotification
    <3>3. CASE s # t
      BY <1>1, <3>2, <3>3 DEF pending
    <3>4. CASE s = t
      <4>1. m \in toNotify[t]
        BY <3>2, <3>4 DEF pending
      <4>2. toNotify'[t] = toNotify[t] \ {n} /\ posting'[t] = n
        BY <1>1, <3>2, <3>4
      <4> QED  BY <3>1, <4>1, <4>2 DEF pending
    <3> QED  BY <3>3, <3>4
  <2>2. ASSUME NEW s \in Thread, NEW n \in toNotify[s], skipNotification(s, n)
        PROVE  FALSE
    <3>1. n # m
      BY <1>3, <2>2 DEF skipNotification
    <3>2. /\ UNCHANGED posting
          /\ toNotify' = [toNotify EXCEPT ![s] = @ \ {n}]
      BY <2>2 DEF skipNotification
    <3> QED  BY <1>1, <3>1, <3>2 DEF pending
  <2>3. ASSUME NEW s \in Thread, NEW new,
               idle(s), toNotify' = [toNotify EXCEPT ![s] = new],
               UNCHANGED posting
        PROVE  FALSE
    <3>1. s # t
      BY <2>3 DEF idle, pending
    <3> QED  BY <1>1, <2>3, <3>1 DEF pending
  <2>4. ASSUME NEW s \in Thread, changeTable(s)
        PROVE  FALSE
    <3>1. ASSUME NEW a \in Address \cup {Empty}, NEW n \in AppName,
                 NEW r \in Router, associateAddress(s, a, n, r)
          PROVE  FALSE
      BY <2>3, <3>1 DEF associateAddress
    <3>2. ASSUME NEW a \in Address \cup {Empty}, NEW n \in AppName,
                 removeAddress(s, a, n)
          PROVE  FALSE
      BY <2>3, <3>2 DEF removeAddress
    <3> QED
      BY <1>4, <2>4, <3>1, <3>2
         DEF changeTable, associateAddress_Unrouted, notifyClients_Locked,
             die, notifyVars
  <2>5. changeApps => FALSE
    BY <1>4 DEF changeApps, notifyVars
  <2>6. ASSUME NEW s \in Thread, NEW n \in toNotify[s],
               skipNotification_Empty(s, n)
        PROVE  FALSE
    BY <1>4, <2>6 DEF skipNotification_Empty, die, notifyVars
  <2> QED  BY <1>9, <2>1, <2>2, <2>4, <2>5, <2>6 DEF proxyAlone
<1> QED
  BY <1>5, <1>6, <1>7, <1>8, <1>9
     DEF SystemNext, systemVars, requestContext, refuseContext, receiveAnswer,
         loseAnswer, handleNotification, handleLate, managerAlone

(* A thread waits for the answer to its POST, and to that one alone.       *)
LEMMA PostingStep ==
  ASSUME SystemTypeOK, [SystemNext]_systemVars, NEW t \in Thread,
         posting[t] # Nil, ~receiveReply(t), ~failPost(t)
  PROVE  posting'[t] = posting[t]
<1>1. posting \in [Thread -> Notification \cup {Nil}]
  BY DEF SystemTypeOK, TypeOK
<1>2. ASSUME UNCHANGED vars
      PROVE  UNCHANGED posting
  BY <1>2 DEF vars, notifyVars
<1>3. ASSUME NEW s \in Thread, receiveReply(s) \/ failPost(s)
      PROVE  posting'[t] = posting[t]
  <2>1. s # t
    BY <1>3
  <2> QED  BY <1>1, <1>3, <2>1 DEF receiveReply, failPost, answerRefused,
                                   answerAccepted, postFailed, forget
<1>4. ASSUME NEW u \in UeAppId, NEW c \in ContextId, grantContext(u, c)
      PROVE  UNCHANGED posting
  BY <1>4 DEF grantContext, createContext, createContext_Duplicate, die,
              notifyVars
<1>5. ASSUME NEW u \in UeAppId, deleteNext(u)
      PROVE  UNCHANGED posting
  BY <1>2, <1>5 DEF deleteNext, deleteContext, deleteContext_NotIndexed, die,
                    notifyVars
<1>6. CASE proxyAlone
  <2>1. ASSUME NEW s \in Thread, NEW m \in toNotify[s], postNotification(s, m)
        PROVE  posting'[t] = posting[t]
    <3>1. s # t
      BY <2>1 DEF postNotification
    <3> QED  BY <1>1, <2>1, <3>1 DEF postNotification
  <2>2. ASSUME NEW s \in Thread, changeTable(s)
        PROVE  UNCHANGED posting
    <3>1. ASSUME NEW a, NEW n, NEW r, associateAddress(s, a, n, r)
          PROVE  UNCHANGED posting
      BY <3>1 DEF associateAddress
    <3>2. ASSUME NEW a, NEW n, NEW r, associateAddress_Unrouted(s, a, n, r)
          PROVE  UNCHANGED posting
      BY <3>2 DEF associateAddress_Unrouted, die, notifyVars
    <3>3. ASSUME NEW a, NEW n, removeAddress(s, a, n)
          PROVE  UNCHANGED posting
      BY <3>3 DEF removeAddress
    <3>4. notifyClients_Locked(s) => UNCHANGED posting
      BY DEF notifyClients_Locked, die, notifyVars
    <3> QED  BY <2>2, <3>1, <3>2, <3>3, <3>4 DEF changeTable
  <2>3. ASSUME NEW s \in Thread, NEW m \in toNotify[s],
               skipNotification(s, m) \/ skipNotification_Empty(s, m)
        PROVE  UNCHANGED posting
    BY <2>3 DEF skipNotification, skipNotification_Empty, die, notifyVars
  <2>4. changeApps => UNCHANGED posting
    BY DEF changeApps, notifyVars
  <2> QED  BY <1>6, <2>1, <2>2, <2>3, <2>4 DEF proxyAlone
<1> QED
  BY <1>2, <1>3, <1>4, <1>5, <1>6
     DEF SystemNext, systemVars, requestContext, refuseContext, receiveAnswer,
         loseAnswer, handleNotification, handleLate, managerAlone

(* An answer NoContent stays true of the manager until it is received.     *)
LEMMA NoContentStep ==
  ASSUME Core, PendingIsCurrent, Told, ~Lossy, OneThread,
         [SystemNext]_systemVars,
         NEW t \in Thread, NEW u \in UeAppId,
         reply'[t] = "NoContent", posting'[t].callback = Manager!callbackOf(u)
  PROVE  /\ ~granted(u)'
         /\ Manager!known(u)' => Manager!referenceUri(u)' = posting'[t].uri
<1>1. /\ \A s \in Thread : s = t
      /\ late = {}
      /\ reply \in [Thread -> Replies]
      /\ posting \in [Thread -> Notification \cup {Nil}]
  BY DEF OneThread, Told, Core, SystemTypeOK, TypeOK
<1>2. CASE handleNotification(t)
  <2> DEFINE m == posting[t]
  <2>1. m \in mailed /\ UNCHANGED <<posting, exchange>>
    BY <1>2, Handles DEF Core, handleNotification, vars, notifyVars
  <2>2. Manager!ueAppIdOf(m.callback) = u
    BY <2>1, CallbackNamesId
  <2>3. Manager!known(u)
    BY <1>1, <1>2, <2>2 DEF handleNotification, Manager!handled
  <2>4. ~granted(u)
    BY <2>3 DEF Core, Exchanges, granted, requested
  <2>5. Manager!handleNotification(m.callback, m.uri)
    BY <1>2 DEF handleNotification
  <2>6. Manager!referenceUri(u)' = m.uri
    BY <2>1, <2>2, <2>3, <2>5, HandleEffect DEF Core
  <2> QED  BY <2>1, <2>4, <2>6 DEF granted
<1>3. CASE ~handleNotification(t)
  <2>1. ~receiveReply(t) /\ ~failPost(t)
    <3>1. receiveReply(t) \/ failPost(t) => reply'[t] = "none"
      BY <1>1 DEF receiveReply, failPost
    <3> QED  BY <3>1
  <2>2. UNCHANGED reply
    BY <1>1, <1>3, <2>1
       DEF SystemNext, systemVars, networkVars, requestContext, grantContext,
           refuseContext, receiveAnswer, loseAnswer, handleLate, deleteNext,
           proxyAlone, managerAlone
  <2>3. posting[t] # Nil
    BY <2>2 DEF Core, Mail
  <2>4. posting[t] \in pending(t) /\ posting[t] \in mailed
    BY <2>3, MailedCases DEF pending
  <2>5. posting'[t] = posting[t]
    BY <2>1, <2>3, PostingStep DEF Core
  <2>6. /\ ~granted(u)
        /\ Manager!known(u) => Manager!referenceUri(u) = posting[t].uri
    BY <2>2, <2>5 DEF Told
  <2>7. ~granted(u)'
    <3>1. ASSUME NEW v \in UeAppId, NEW c \in ContextId, grantContext(v, c)
          PROVE  ~granted(u)'
      BY <2>4, <2>5, <2>6, <3>1, GrantedAlone DEF Core
    <3>2. CASE Exchanged
      BY <2>6, <3>2 DEF Exchanged
    <3> QED  BY <3>1, <3>2, ExchangedStep DEF Core
  <2>8. Manager!known(u)' => Manager!known(u)
    BY <2>6, EnteredStep DEF Entered, Core
  <2>9. Unheard
    BY <1>1, <1>3, UnheardStep DEF Core
  <2> QED  BY <2>5, <2>6, <2>7, <2>8, <2>9 DEF Unheard
<1> QED  BY <1>2, <1>3

(* Nothing but the handler makes the manager tell another edge router.     *)
LEMMA HearsStep ==
  ASSUME Core, [SystemNext]_systemVars, Exchanged, Unheard,
         NEW u \in UeAppId, NEW c \in ContextId, NEW r \in Router,
         hears(u, c, r)'
  PROVE  hears(u, c, r)
<1>1. CASE (granted(u) /\ exchange[u].contextId = c
              /\ exchange[u].referenceUri = r)'
  BY <1>1 DEF Exchanged, hears
<1>2. CASE (Manager!known(u) /\ kept(u) = c /\ Manager!referenceUri(u) = r)'
  <2>1. \/ Manager!known(u) /\ kept(u)' = kept(u)
        \/ /\ granted(u) /\ kept(u)' = exchange[u].contextId
           /\ Manager!referenceUri(u)' = exchange[u].referenceUri
    BY <1>2, EnteredStep DEF Entered, Core
  <2> QED  BY <1>2, <2>1 DEF Unheard, hears
<1> QED  BY <1>1, <1>2 DEF hears

(* What the manager hears, it hears up to date.                            *)
LEMMA UpToDateStep ==
  ASSUME Core, PendingIsCurrent, Told, ~Lossy, OneThread,
         [SystemNext]_systemVars,
         NEW u \in UeAppId, NEW c \in ContextId, NEW r \in Router,
         hears(u, c, r)', live(c)'
  PROVE  upToDate(c, r)'
<1>1. CASE hears(u, c, r) /\ live(c) /\ UNCHANGED vars
  <2>1. upToDate(c, r)
    BY <1>1 DEF Told
  <2> QED  BY <1>1, <2>1 DEF upToDate, pending, vars, contextVars, notifyVars
<1>2. ASSUME NEW v \in UeAppId, NEW d \in ContextId, grantContext(v, d)
      PROVE  upToDate(c, r)'
  <2>0. Grants(v, d)
    BY <1>2, GrantEffect DEF Core
  <2>1. exchange'[v] = IF v \in calls
                       THEN [type         |-> "granted",
                             contextId    |-> d,
                             referenceUri |-> theApplicationsByContextId'[d].edgeRouter]
                       ELSE Nil
    BY <2>0 DEF Grants
  <2>2. \A e \in ContextId \ {d} :
          theApplicationsByContextId'[e] = theApplicationsByContextId[e]
    BY <2>0 DEF Grants
  <2>3. UNCHANGED <<theContexts, toNotify, posting>>
    BY <2>0 DEF Grants, managerVars, notifyVars
  <2>4. CASE c = d
    <3>1. ~(Manager!known(u)' /\ kept(u)' = c)
      BY <1>2, <2>4, GrantedAlone DEF Core
    <3>2. granted(u)' /\ exchange'[u].contextId = c
            /\ exchange'[u].referenceUri = r
      BY <3>1 DEF hears
    <3>3. u = v
      BY <1>2, <2>4, <3>2, GrantedAlone DEF Core
    <3>4. theApplicationsByContextId'[c].edgeRouter = r
      BY <2>1, <2>4, <3>2, <3>3 DEF granted
    <3> QED  BY <3>4 DEF upToDate
  <2>5. CASE c # d
    <3>1. theApplicationsByContextId'[c] = theApplicationsByContextId[c]
      BY <2>2, <2>5
    <3>2. hears(u, c, r)
      <4>1. CASE (Manager!known(u) /\ kept(u) = c
                    /\ Manager!referenceUri(u) = r)'
        BY <2>3, <4>1 DEF Manager!known, kept, Manager!referenceUri, hears
      <4>2. CASE (granted(u) /\ exchange[u].contextId = c
                    /\ exchange[u].referenceUri = r)'
        <5>1. u # v
          BY <1>2, <2>5, <4>2, GrantedAlone DEF Core
        <5>2. exchange'[u] = exchange[u] /\ granted(u)
          BY <1>2, <4>2, <5>1, GrantedAlone DEF Core
        <5> QED  BY <4>2, <5>2 DEF hears
      <4> QED  BY <4>1, <4>2 DEF hears
    <3>3. upToDate(c, r)
      BY <3>1, <3>2 DEF Told, live
    <3> QED  BY <2>3, <3>1, <3>3 DEF upToDate, pending
  <2> QED  BY <2>4, <2>5
<1>3. ASSUME NEW t \in Thread, handleNotification(t)
      PROVE  upToDate(c, r)'
  <2> DEFINE m == posting[t]
             v == Manager!ueAppIdOf(m.callback)
  <2>1. /\ m \in pending(t) /\ m \in mailed /\ UNCHANGED <<vars, exchange>>
        /\ Manager!handleNotification(m.callback, m.uri)
    BY <1>3, Handles DEF Core, handleNotification
  <2>2. live(c) /\ \A d \in ContextId :
          theApplicationsByContextId'[d] = theApplicationsByContextId[d]
    BY <2>1 DEF vars, contextVars, live
  <2>3. v \in UeAppId /\ m.callback = Manager!callbackOf(v)
    BY <2>1, MailedFor DEF Core
  <2>4. CASE hears(u, c, r)
    BY <1>1, <2>1, <2>2, <2>4
  <2>5. CASE ~hears(u, c, r)
    <3>1. (Manager!known(u) /\ kept(u) = c /\ Manager!referenceUri(u) = r)'
      BY <2>1, <2>5 DEF hears, granted
    <3>2. u = v /\ Manager!known(v)
      BY <2>1, <2>5, <3>1, HandleEffect
         DEF Core, hears, Manager!known, kept, Manager!referenceUri
    <3>3. kept(v) = m.contextId /\ c = m.contextId
      BY <2>1, <2>3, <3>1, <3>2, HandleEffect DEF Core, Mail
    <3>4. r = m.uri
      BY <2>1, <3>1, <3>2, HandleEffect DEF Core
    <3>5. theApplicationsByContextId[c].edgeRouter = m.uri
      BY <2>1, <2>2, <3>3 DEF PendingIsCurrent, OneThread
    <3> QED  BY <2>2, <3>4, <3>5 DEF upToDate
  <2> QED  BY <2>4, <2>5
<1>4. ASSUME Keeps, Exchanged, Unheard
      PROVE  upToDate(c, r)'
  <2>1. live(c) /\ hears(u, c, r)
    BY <1>4, HearsStep DEF Keeps
  <2>2. upToDate(c, r)
    BY <2>1 DEF Told
  <2>3. ASSUME NEW t \in Thread, NEW cs, Announced(t, cs)
        PROVE  upToDate(c, r)'
    <3>1. theApplicationsByContextId[c].edgeRouter \in {Empty, r}
      BY <2>2, <2>3 DEF upToDate, Announced, OneThread
    <3>2. CASE c \in cs
      <4>1. PICK m \in pending(t)' :
              m = notificationTo(c, theApplicationsByContextId'[c].edgeRouter)
        BY <2>3, <3>2 DEF Announced
      <4> QED  BY <4>1 DEF upToDate, notificationTo
    <3>3. CASE c \notin cs
      BY <2>1, <2>3, <3>1, <3>3 DEF Announced, upToDate
    <3> QED  BY <3>2, <3>3
  <2>4. CASE QuietStep
    <3>1. theApplicationsByContextId'[c].edgeRouter =
            theApplicationsByContextId[c].edgeRouter
      BY <2>1, <2>4 DEF QuietStep, fresh
    <3>2. CASE theApplicationsByContextId[c].edgeRouter \in {Empty, r}
      BY <3>1, <3>2 DEF upToDate
    <3>3. ASSUME NEW t \in Thread, NEW m \in pending(t), m.contextId = c,
                 m.uri = theApplicationsByContextId[c].edgeRouter
          PROVE  upToDate(c, r)'
      <4>1. CASE m \in pending(t)'
        BY <3>1, <3>3, <4>1 DEF upToDate
      <4>2. CASE m \notin pending(t)'
        <5>1. m = posting[t] /\ m \in mailed
          BY <3>3, <4>2, DoneWith, MailedCases DEF Core
        <5>2. CASE failPost(t)
          <6>1. phase = "ended"
            BY <5>2 DEF failPost, Manager!serving, Core, SystemTypeOK,
                        Manager!ManagerTypeOK
          <6> QED
            BY <2>1, <6>1
               DEF hears, Core, Phases, Exchanges, granted, requested
        <5>3. CASE reply[t] = "error" /\ answerRefused(t)
          <6>1. erase(c)
            BY <2>1, <3>3, <5>1, <5>3, RefusalEffect DEF Core
          <6>2. ~live(c)'
            BY <6>1 DEF erase, live, Core, IInv, TypeOK
          <6> QED  BY <6>2
        <5>4. CASE reply[t] = "NoContent"
          <6>1. theApplicationsByContextId[c].ueAppId = u
            BY <2>1 DEF hears, Core, Ownership
          <6>2. m.callback = Manager!callbackOf(u)
            BY <2>1, <3>3, <5>1, <6>1, MailedFor DEF Core, Mail
          <6>3. /\ ~granted(u)
                /\ Manager!known(u) => Manager!referenceUri(u) = m.uri
            BY <5>1, <5>4, <6>2 DEF Told
          <6>4. r = m.uri
            BY <2>1, <6>3 DEF hears
          <6> QED  BY <3>1, <3>3, <6>4 DEF upToDate
        <5> QED
          BY <3>3, <4>2, <5>2, <5>3, <5>4, DoneWith DEF Core, receiveReply
      <4> QED  BY <4>1, <4>2
    <3> QED  BY <2>2, <3>2, <3>3 DEF upToDate
  <2> QED  BY <2>3, <2>4, ProxyStep, QuietOrAnnounced DEF Core
<1>5. \A m \in late : ~handleLate(m)
  BY DEF Told
<1> QED
  BY <1>2, <1>3, <1>4, <1>5, KeepsStep, ExchangedStep, UnheardStep DEF Core

(* The three parts of Told are preserved together.                         *)
LEMMA ToldStep ==
  ASSUME Core, PendingIsCurrent, Told, [SystemNext]_systemVars
  PROVE  Told'
<1> SUFFICES ASSUME ~Lossy', OneThread
             PROVE  Told'
  BY DEF Told, OneThread
<1>1. ~Lossy /\ late' = {}
  <2>1. UNCHANGED faults
    BY LateStep DEF Core
  <2>2. ~Lossy
    BY <2>1 DEF Lossy
  <2>3. late = {}
    BY <2>2 DEF Told
  <2> QED  BY <2>2, <2>3, LateStep DEF Core
<1>2. \A t \in Thread, u \in UeAppId :
        reply'[t] = "NoContent" /\ posting'[t].callback = Manager!callbackOf(u) =>
          /\ ~granted(u)'
          /\ Manager!known(u)' => Manager!referenceUri(u)' = posting'[t].uri
  BY <1>1, NoContentStep
<1>3. \A u \in UeAppId, c \in ContextId, r \in Router :
        hears(u, c, r)' /\ live(c)' => upToDate(c, r)'
  BY <1>1, UpToDateStep
<1> QED  BY <1>1, <1>2, <1>3 DEF Told

-----------------------------------------------------------------------------
(* Orphans, if messages are not lost and the manager does not crash.       *)

(* Every request that is still to be served has somebody waiting for it.   *)
LEMMA WaitedForStep ==
  ASSUME Core, Accounted, ~Lossy, ~Crashes, [SystemNext]_systemVars,
         NEW u \in UeAppId, requested(u)'
  PROVE  u \in calls'
<1>1. /\ \A v \in UeAppId : requested(v) => v \in calls
      /\ exchange \in [UeAppId -> Exchange \cup {Nil}]
  BY DEF Accounted, Core, SystemTypeOK
<1>2. ASSUME NEW v \in UeAppId, NEW x \in AppInfo, requestContext(v, x)
      PROVE  u \in calls'
  BY <1>1, <1>2 DEF requestContext, Manager!contextCreate, requested
<1>3. ASSUME NEW v \in UeAppId, NEW c \in ContextId, grantContext(v, c)
      PROVE  u \in calls'
  <2>0. Grants(v, c)
    BY <1>3, GrantEffect DEF Core
  <2>1. exchange'[v] =
          IF v \in calls
          THEN [type         |-> "granted",
                contextId    |-> c,
                referenceUri |-> theApplicationsByContextId'[c].edgeRouter]
          ELSE Nil
    BY <2>0 DEF Grants
  <2>2. u # v
    BY <2>1 DEF requested
  <2>3. exchange'[u] = exchange[u]
    BY <1>3, <2>2, GrantedAlone DEF Core
  <2>4. UNCHANGED calls
    BY <1>3 DEF grantContext, managerVars
  <2> QED  BY <1>1, <2>3, <2>4 DEF requested
<1>4. ASSUME NEW v \in UeAppId, refuseContext(v)
      PROVE  u \in calls'
  BY <1>1, <1>4 DEF refuseContext, answer, managerVars, requested
<1>5. ASSUME NEW v \in UeAppId, receiveAnswer(v)
      PROVE  u \in calls'
  <2>1. u # v
    BY <1>5, AnswerEffect DEF Core, requested
  <2>2. exchange'[u] = exchange[u] /\ calls' = calls \ {v}
    BY <1>5, <2>1, AnswerEffect DEF Core
  <2> QED  BY <1>1, <2>1, <2>2 DEF requested
<1>6. CASE managerAlone
  <2>1. requested(u)
    BY <1>6, LifeEffect DEF Core, requested
  <2>2. u \in calls /\ calls # {}
    BY <1>1, <2>1
  <2>3. phase = "serving"
    BY <2>2 DEF Core, Phases
  <2> QED
    BY <1>6, <2>2, <2>3 DEF managerAlone, Manager!destroy, Manager!destroyed,
                            Manager!start
<1>7. ASSUME UNCHANGED <<exchange, calls>>
      PROVE  u \in calls'
  BY <1>1, <1>7 DEF requested
<1>8. ASSUME NEW t \in Thread,
             handleNotification(t) \/ receiveReply(t) \/ failPost(t)
      PROVE  UNCHANGED <<exchange, calls>>
  BY <1>8 DEF handleNotification, receiveReply, failPost, managerVars,
              Manager!handleNotification
<1>9. ASSUME NEW v \in UeAppId, deleteNext(v)
      PROVE  UNCHANGED <<exchange, calls>>
  BY <1>9 DEF deleteNext, Manager!destroy_next, networkVars
<1>10. ASSUME NEW m \in late, handleLate(m)
       PROVE  UNCHANGED <<exchange, calls>>
  BY <1>10 DEF handleLate, Manager!handleNotification
<1> QED
  BY <1>2, <1>3, <1>4, <1>5, <1>6, <1>7, <1>8, <1>9, <1>10
     DEF SystemNext, systemVars, managerVars, networkVars, loseAnswer,
         proxyAlone

(* What the manager has heard of, it knows of until the destructor ends.   *)
Retained ==
  \A u \in UeAppId :
    /\ Manager!known(u) => Manager!known(u)' /\ kept(u)' = kept(u)
    /\ granted(u) =>
         \/ granted(u)' /\ exchange'[u] = exchange[u]
         \/ Manager!known(u)' /\ kept(u)' = exchange[u].contextId

(* Every step but the end of the destructor retains it.                    *)
LEMMA RetainedStep ==
  ASSUME Core, ~Lossy, ~Crashes, [SystemNext]_systemVars
  PROVE  \/ Retained
         \/ managerAlone /\ Manager!destroyed
<1>1. ASSUME UNCHANGED <<theContexts, exchange>>
      PROVE  Retained
  BY <1>1 DEF Retained, Manager!known, kept, granted
<1>2. exchange \in [UeAppId -> Exchange \cup {Nil}]
  BY DEF Core, SystemTypeOK
<1>3. ASSUME NEW v \in UeAppId, UNCHANGED theContexts, ~granted(v),
             \A u \in UeAppId \ {v} : exchange'[u] = exchange[u]
      PROVE  Retained
  BY <1>3 DEF Retained, Manager!known, kept, granted
<1>4. ASSUME NEW v \in UeAppId, NEW x \in AppInfo, requestContext(v, x)
      PROVE  Retained
  <2>1. exchange[v] = Nil /\ UNCHANGED theContexts
    BY <1>4 DEF requestContext, freshUeAppId, Manager!contextCreate
  <2>2. \A u \in UeAppId \ {v} : exchange'[u] = exchange[u]
    BY <1>2, <1>4 DEF requestContext
  <2> QED  BY <1>3, <2>1, <2>2 DEF granted
<1>5. ASSUME NEW v \in UeAppId, NEW c \in ContextId, grantContext(v, c)
      PROVE  Retained
  <2>1. ~granted(v) /\ UNCHANGED theContexts
    BY <1>5, ExchangeType DEF grantContext, managerVars, Core
  <2>2. \A u \in UeAppId \ {v} : exchange'[u] = exchange[u]
    BY <1>5, GrantedAlone DEF Core
  <2> QED  BY <1>3, <2>1, <2>2
<1>6. ASSUME NEW v \in UeAppId, refuseContext(v)
      PROVE  Retained
  <2>1. ~granted(v) /\ UNCHANGED theContexts
    BY <1>6, ExchangeType DEF refuseContext, managerVars, Core
  <2>2. \A u \in UeAppId \ {v} : exchange'[u] = exchange[u]
    BY <1>2, <1>6 DEF refuseContext, answer
  <2> QED  BY <1>3, <2>1, <2>2
<1>7. ASSUME NEW v \in UeAppId, receiveAnswer(v)
      PROVE  Retained
  <2>1. ~Manager!known(v)
    BY <1>7, AnswerEffect DEF Core, Exchanges
  <2>2. granted(v) => Manager!known(v)' /\ kept(v)' = exchange[v].contextId
    BY <1>7, AnswerEffect DEF Core
  <2>3. \A u \in UeAppId \ {v} : /\ exchange'[u] = exchange[u]
                                 /\ theContexts'[u] = theContexts[u]
    BY <1>7, AnswerEffect DEF Core
  <2> QED  BY <2>1, <2>2, <2>3 DEF Retained, Manager!known, kept, granted
<1>8. ASSUME NEW m \in mailed, Manager!handleNotification(m.callback, m.uri),
             UNCHANGED exchange
      PROVE  Retained
  <2>1. \A u \in UeAppId :
          Manager!known(u) => Manager!known(u)' /\ kept(u)' = kept(u)
    BY <1>8, HandleEffect DEF Core, Manager!known, kept
  <2> QED  BY <1>8, <2>1 DEF Retained, granted
<1>9. ASSUME NEW t \in Thread, handleNotification(t)
      PROVE  Retained
  BY <1>8, <1>9, Handles DEF handleNotification, Core
<1>10. ASSUME NEW m \in late, handleLate(m)
       PROVE  Retained
  BY <1>8, <1>10, Handles DEF handleLate, Core
<1>11. ASSUME managerAlone, ~Manager!destroyed
       PROVE  Retained
  <2>1. UNCHANGED <<calls, theContexts>>
    BY <1>11 DEF managerAlone, Manager!destroy, Manager!start
  <2>2. UNCHANGED exchange
    BY <1>2, <1>11, <2>1, LifeEffect DEF Core
  <2> QED  BY <1>1, <2>1, <2>2
<1>12. ASSUME NEW v \in UeAppId, deleteNext(v)
       PROVE  Retained
  BY <1>1, <1>12 DEF deleteNext, Manager!destroy_next, networkVars
<1>13. CASE UNCHANGED <<managerVars, exchange>>
  BY <1>1, <1>13 DEF managerVars
<1> QED
  BY <1>4, <1>5, <1>6, <1>7, <1>9, <1>10, <1>11, <1>12, <1>13
     DEF SystemNext, systemVars, networkVars, receiveReply, failPost,
         loseAnswer, proxyAlone

(* The destructor has still to go through the owner of every context.      *)
LEMMA EndingStep ==
  ASSUME Core, Accounted, NoOrphans, ~Lossy, ~Crashes,
         [SystemNext]_systemVars, alive', phase' = "ending",
         NEW c \in ContextId, live(c)'
  PROVE  theApplicationsByContextId'[c].ueAppId \in toDelete'
<1> DEFINE u == theApplicationsByContextId[c].ueAppId
<1>1. alive
  BY FailureStep DEF Core, alive
<1>2. ASSUME NEW v \in UeAppId, NEW d \in ContextId, grantContext(v, d)
      PROVE  FALSE
  <2>1. phase = "ending" /\ requested(v)
    BY <1>2 DEF grantContext, managerVars
  <2> QED  BY <2>1 DEF Accounted, Core, Phases
<1>3. /\ live(c) /\ u \in UeAppId
      /\ theApplicationsByContextId'[c].ueAppId = u
  <2>1. Keeps
    BY <1>2, KeepsStep DEF Core
  <2> QED  BY <2>1, OwnerOf DEF Keeps, Core
<1>4. CASE managerAlone /\ Manager!destroy
  <2>1. calls = {} /\ toDelete' = {v \in UeAppId : Manager!known(v)}
    BY <1>4 DEF Manager!destroy
  <2>2. Manager!known(u)
    BY <1>1, <1>3, <2>1
       DEF NoOrphans, Core, Exchanges, granted, requested
  <2> QED  BY <1>3, <2>1, <2>2
<1>5. CASE phase = "ending" /\ toDelete' = toDelete
  BY <1>1, <1>3, <1>5 DEF Accounted
<1>6. ASSUME NEW v \in UeAppId, deleteNext(v)
      PROVE  u \in toDelete'
  <2>1. /\ v \in toDelete /\ toDelete' = toDelete \ {v}
        /\ phase = "ending"
    BY <1>6 DEF deleteNext, Manager!destroy_next
  <2>2. u \in toDelete
    BY <1>1, <1>3, <2>1 DEF Accounted
  <2>3. Manager!known(v) /\ kept(v) \in ContextId
    BY <2>1, KnownType DEF Core, Phases
  <2>4. u # v
    <3>1. ASSUME u = v
          PROVE  kept(v) = c
      BY <1>3, <2>3, <3>1 DEF Core, Ownership
    <3>2. kept(v) # c
      <4>1. CASE deleteContext(kept(v)) \/ deleteContext_NotIndexed(kept(v))
        <5>1. erase(kept(v))
          BY <2>3, <4>1, DeleteEffect DEF Core
        <5> QED
          BY <2>3, <5>1 DEF erase, live, Core, IInv, TypeOK
      <4>2. CASE ~live(kept(v))
        BY <1>3, <4>2
      <4> QED  BY <1>1, <1>6, <4>1, <4>2 DEF deleteNext, kept
    <3> QED  BY <3>1, <3>2
  <2> QED  BY <2>1, <2>2, <2>4
<1>7. ASSUME UNCHANGED managerVars
      PROVE  phase = "ending" /\ toDelete' = toDelete
  BY <1>7 DEF managerVars
<1>8. ASSUME NEW v \in UeAppId,
             \/ \E x \in AppInfo : requestContext(v, x)
             \/ receiveAnswer(v)
      PROVE  phase = "ending" /\ toDelete' = toDelete
  BY <1>8, AnswerEffect DEF requestContext, Manager!contextCreate, Core
<1>9. ASSUME NEW m, Manager!handleNotification(m.callback, m.uri)
      PROVE  phase = "ending" /\ toDelete' = toDelete
  BY <1>9 DEF Manager!handleNotification
<1>10. ASSUME managerAlone, ~Manager!destroy
       PROVE  FALSE
  BY <1>10 DEF managerAlone, Manager!destroyed, Manager!vanish, Manager!start
<1> QED
  BY <1>2, <1>3, <1>4, <1>5, <1>6, <1>7, <1>8, <1>9, <1>10
     DEF SystemNext, systemVars, refuseContext, loseAnswer, proxyAlone,
         handleNotification, handleLate, receiveReply, failPost

(* The faults of a behaviour do not change.                                *)
LEMMA FaultsStep ==
  ASSUME SystemTypeOK, [SystemNext]_systemVars
  PROVE  (Lossy' <=> Lossy) /\ (Crashes' <=> Crashes)
BY LateStep DEF Lossy, Crashes

(* The two parts of Accounted are preserved together.                      *)
LEMMA AccountedStep ==
  ASSUME Core, Accounted, NoOrphans, [SystemNext]_systemVars
  PROVE  Accounted'
BY FaultsStep, WaitedForStep, EndingStep DEF Accounted, Core

(* A context keeps whoever knows of it, or goes with it.                   *)
LEMMA NoOrphansStep ==
  ASSUME Core, Accounted, NoOrphans, [SystemNext]_systemVars
  PROVE  NoOrphans'
<1> SUFFICES ASSUME alive', ~Lossy, ~Crashes,
                    NEW c \in ContextId, live(c)', NEW u,
                    u = theApplicationsByContextId'[c].ueAppId
             PROVE  \/ (Manager!known(u) /\ kept(u) = c)'
                    \/ (granted(u) /\ exchange[u].contextId = c)'
  BY FaultsStep DEF NoOrphans, Core, Manager!known, kept, granted
<1>1. alive
  BY FailureStep DEF Core, alive
<1>2. CASE /\ live(c) /\ theApplicationsByContextId[c].ueAppId = u
  <2>1. \/ Manager!known(u) /\ kept(u) = c
        \/ granted(u) /\ exchange[u].contextId = c
    BY <1>1, <1>2 DEF NoOrphans
  <2>2. u \in UeAppId
    BY <1>2, OwnerOf DEF Core
  <2>3. ~Manager!destroyed
    <3>1. phase = "ending" => u \in toDelete
      BY <1>1, <1>2 DEF Accounted
    <3> QED  BY <3>1 DEF Manager!destroyed
  <2>4. Retained
    BY <2>3, RetainedStep
  <2> QED  BY <2>1, <2>2, <2>4 DEF Retained
<1>3. CASE Keeps
  BY <1>2, <1>3 DEF Keeps
<1>4. ASSUME NEW v \in UeAppId, NEW d \in ContextId, grantContext(v, d)
      PROVE  \/ (Manager!known(u) /\ kept(u) = c)'
             \/ (granted(u) /\ exchange[u].contextId = c)'
  <2>0. Grants(v, d)
    BY <1>4, GrantEffect DEF Core
  <2>1. CASE c = d
    <3>1. v \in calls
      BY <1>4 DEF grantContext, Accounted
    <3>2. exchange'[v] =
            IF v \in calls
            THEN [type         |-> "granted",
                  contextId    |-> d,
                  referenceUri |-> theApplicationsByContextId'[d].edgeRouter]
            ELSE Nil
      BY <2>0 DEF Grants
    <3>3. exchange' \in [UeAppId -> Exchange \cup {Nil}]
      BY <2>0 DEF Grants
    <3>4. u = v
      BY <2>1, <2>0 DEF Grants
    <3>5. exchange'[v] # Nil
      <4>1. theApplicationsByContextId'[d].edgeRouter \in Router
        BY <2>0 DEF Grants
      <4>2. exchange'[v] \in Exchange
        BY <3>1, <3>2, <4>1 DEF Exchange
      <4> QED  BY <4>2, ManagerAssumption
    <3> QED  BY <2>1, <3>1, <3>2, <3>4, <3>5 DEF granted
  <2>2. CASE c # d
    <3>1. \A e \in ContextId \ {d} :
            theApplicationsByContextId'[e] = theApplicationsByContextId[e]
      BY <2>0 DEF Grants
    <3>2. theApplicationsByContextId'[c] = theApplicationsByContextId[c]
      BY <2>2, <3>1
    <3> QED  BY <1>2, <3>2 DEF live
  <2> QED  BY <2>1, <2>2
<1> QED  BY <1>3, <1>4, KeepsStep DEF Core

-----------------------------------------------------------------------------
(* The whole invariant, and what follows from it.                          *)

(* The inductive invariant.                                                *)
SystemInv == Core /\ PendingIsCurrent /\ Told /\ Accounted /\ NoOrphans

(* At the start there is nothing to know or to tell.                       *)
LEMMA InitSystemInv == SystemInit => SystemInv
<1> SUFFICES ASSUME SystemInit
             PROVE  SystemInv
  OBVIOUS
<1> USE DEF SystemInit, Manager!ManagerInit
<1>1. Core
  BY InitCore
<1>2. /\ \A c \in ContextId : ~live(c)
      /\ \A u \in UeAppId : ~requested(u)
      /\ \A t \in Thread : reply[t] = "none" /\ pending(t) = {}
  BY DEF Init, live, requested, pending
<1>3. PendingIsCurrent
  BY <1>2 DEF PendingIsCurrent
<1> QED
  BY <1>1, <1>2, <1>3 DEF SystemInv, Told, Accounted, NoOrphans

(* Every step of the system preserves the invariant.                       *)
LEMMA NextSystemInv == SystemInv /\ [SystemNext]_systemVars => SystemInv'
<1> SUFFICES ASSUME SystemInv, [SystemNext]_systemVars
             PROVE  SystemInv'
  OBVIOUS
<1>1. PendingIsCurrent'
  BY ProxyStep, PendingStep DEF SystemInv, Core
<1> QED
  BY <1>1, NextCore, ToldStep, AccountedStep, NoOrphansStep DEF SystemInv

(* In every reachable state of the system it holds.                        *)
LEMMA SystemInductive == SystemSpec => []SystemInv
BY InitSystemInv, NextSystemInv, PTL DEF SystemSpec

(* If messages are not lost and one thread changes the table, the manager  *)
(* tells an application the edge router that the proxy records, or         *)
(* notifyClients has a notification with it still to deliver: however the  *)
(* answer to contextCreate and the notifications overtake each other.      *)
THEOREM AlwaysInformed == SystemSpec => []InformedOrPending
<1>1. SystemInv => InformedOrPending
  <2> SUFFICES ASSUME SystemInv, ~Lossy, OneThread,
                      NEW u \in UeAppId, shared(u), ~current(u)
               PROVE  \E t \in Thread : \E m \in pending(t) :
                        /\ m.contextId = kept(u)
                        /\ m.uri = theApplicationsByContextId[kept(u)].edgeRouter
    BY DEF InformedOrPending, OneThread
  <2>1. /\ kept(u) \in ContextId /\ Manager!referenceUri(u) \in Router
        /\ hears(u, kept(u), Manager!referenceUri(u)) /\ live(kept(u))
    BY KnownType DEF shared, hears, SystemInv, Core
  <2>2. upToDate(kept(u), Manager!referenceUri(u))
    BY <2>1 DEF SystemInv, Told
  <2> QED  BY <2>2 DEF upToDate, current
<1> QED  BY <1>1, SystemInductive, PTL

(* If messages are not lost and the manager does not crash, a proxy that   *)
(* runs has no context that its manager has forgotten: each is known, or   *)
(* in the answer that contextCreate waits for, and when the destructor has *)
(* returned there is none.                                                 *)
THEOREM NeverOrphans == SystemSpec => []NoOrphans
<1>1. SystemInv => NoOrphans
  BY DEF SystemInv
<1> QED  BY <1>1, SystemInductive, PTL
=============================================================================
