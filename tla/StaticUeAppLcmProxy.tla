------------------------- MODULE StaticUeAppLcmProxy -------------------------
(***************************************************************************)
(* The static LCM proxy (EtsiMec/staticueapplcmproxy.{h,cpp}): a routing   *)
(* table <client address, application name> -> edge router, the contexts   *)
(* it has granted, and the notifications it posts to the owner of a        *)
(* context whose edge router has changed.                                  *)
(*                                                                         *)
(* Every operation holds theMutex for its whole body and is one step,      *)
(* except the notifications: associateAddress and removeAddress release    *)
(* the mutex and then post them one at a time, so a Thread serving one of  *)
(* those two calls goes on in further steps, between which the other       *)
(* threads run.  A context request is served in one step, so only the      *)
(* threads that change the table are modelled as such.  createContext      *)
(* takes the registry's mutex only inside exists(), so it too is one step. *)
(*                                                                         *)
(* Calls that change nothing (a refused creation, a repeated association,  *)
(* an unknown id, an empty name, the getters) are stuttering steps.        *)
(***************************************************************************)
EXTENDS UeAppLcmProxy, Common, FiniteSets

CONSTANTS
  Address,        \* addresses of client devices
  Router,         \* end-points of edge routers
  UeAppId,        \* the associateUeAppId that clients choose
  Callback,       \* the callback references that clients specify
  ValidCallback,  \* those that web::uri::validate accepts
  ContextId,      \* context ids; see fresh
  Thread          \* threads that serve calls changing the table

ASSUME StringAssumption ==
  /\ Empty \notin Address \cup Router \cup Callback
  /\ ValidCallback \subseteq Callback

(* A table key; the client address Empty matches any client.               *)
AddressAppKey == (Address \cup {Empty}) \X AppName

Desc == [ueAppId    : UeAppId,
         callback   : Callback \cup {Empty},
         client     : Address,
         app        : AppName,
         edgeRouter : Router \cup {Empty}]

Notification ==
  [callback : Callback \cup {Empty}, uri : Router, contextId : ContextId]

ASSUME NilAssumption ==
  Nil \notin Router \cup ContextId \cup Desc \cup Notification
               \cup (Address \X AppName)

VARIABLES
  theTable,                    \* key -> edge router, or Nil
  theApplicationsByContextId,  \* context id -> Desc, or Nil
  theApplicationsByUeAppId,    \* UE application id -> context id, or Nil
  toNotify,   \* thread -> the notifications it still has to post
  posting,    \* thread -> the one whose answer it waits for, or Nil
  failure     \* "none", or what has ended the process

contextVars == <<theApplicationsByContextId, theApplicationsByUeAppId>>
notifyVars  == <<toNotify, posting>>
vars == <<theApplications, theTable, contextVars, notifyVars, failure>>

-----------------------------------------------------------------------------
(* The process.  A failed assertion of the debug build aborts it, and so   *)
(* does dereferencing an end() iterator in the other build: the node       *)
(* pointer of the standard library's hash tables is null there.            *)

Failure == {"none", "noRoute", "duplicateUeAppId", "noIndexEntry",
            "emptyCallback", "mutexLocked",
            "messageKind", "malformed", "sizesDiffer"}  \* of the interfaces

alive == failure = "none"

die(why) ==
  /\ failure' = why
  /\ UNCHANGED <<theApplications, theTable, contextVars, notifyVars>>

-----------------------------------------------------------------------------
(* Contexts and routes.                                                    *)

live(c) == theApplicationsByContextId[c] # Nil

(* A lookup that never tries the entry of the client itself first.         *)
find_WildcardFirst(table, a, n) ==
  IF table[<<Empty, n>>] # Nil THEN table[<<Empty, n>>] ELSE table[<<a, n>>]

(* The entry for the client, else the one for any client, else Nil.        *)
find(table, a, n) ==
  IF table[<<a, n>>] # Nil THEN table[<<a, n>>] ELSE table[<<Empty, n>>]

(* What find returns for the client and application of context c.          *)
routeOf(table, c) ==
  find(table, theApplicationsByContextId[c].client,
              theApplicationsByContextId[c].app)

(* The contexts that a change of an entry for application n looks at.      *)
using(n) ==
  {c \in ContextId : live(c) /\ theApplicationsByContextId[c].app = n}

(* A comparison that overlooks the contexts without a route.               *)
moved_RoutedOnly(table, n) ==
  {c \in using(n) :
     routeOf(table, c) \notin
       {Nil, theApplicationsByContextId[c].edgeRouter}}

(* Those of them whose route is no longer the edge router they record.     *)
moved(table, n) ==
  {c \in using(n) :
     routeOf(table, c) # theApplicationsByContextId[c].edgeRouter}

unrouted(table, n) == {c \in using(n) : routeOf(table, c) = Nil}

(* Record new edge routers, given by a function on cs.                     *)
setRouter(cs, router) ==
  theApplicationsByContextId' =
    [c \in ContextId |->
       IF c \in cs
       THEN [theApplicationsByContextId[c] EXCEPT !.edgeRouter = router[c]]
       ELSE theApplicationsByContextId[c]]

notificationTo(c, router) ==
  [callback  |-> theApplicationsByContextId[c].callback,
   uri       |-> router,
   contextId |-> c]

(* A thread that does not wait for the answer to its last POST.            *)
idle_Unanswered(t) == toNotify[t] = {}

(* The thread serves no call.                                              *)
idle(t) == toNotify[t] = {} /\ posting[t] = Nil

pending(t) == toNotify[t] \cup ({posting[t]} \ {Nil})

(* Context ids are random UUIDs that never repeat.  ContextId stays finite *)
(* because an id that nothing in the state mentions is as good as new.     *)
fresh(c) ==
  /\ ~live(c)
  /\ \A t \in Thread : \A m \in pending(t) : m.contextId # c

-----------------------------------------------------------------------------
(* Changes of the table, up to the unlock.                                 *)

(* Give the key an edge router.  Every moved context is given that same    *)
(* edge router, whatever its own route is.                                 *)
associateAddress(t, a, n, r) ==
  LET table == [theTable EXCEPT ![<<a, n>>] = r]
      cs    == moved(table, n)
  IN  /\ alive /\ idle(t)
      /\ theTable[<<a, n>>] # r
      /\ unrouted(table, n) = {}
      /\ theTable' = table
      /\ setRouter(cs, [c \in cs |-> r])
      /\ toNotify' = [toNotify EXCEPT ![t] = {notificationTo(c, r) : c \in cs}]
      /\ UNCHANGED <<theApplications, theApplicationsByUeAppId, posting,
                     failure>>

(* The same call when a context of the application still has no route: the *)
(* end() iterator is asserted not to be one, then dereferenced.            *)
associateAddress_Unrouted(t, a, n, r) ==
  /\ alive /\ idle(t)
  /\ theTable[<<a, n>>] # r
  /\ unrouted([theTable EXCEPT ![<<a, n>>] = r], n) # {}
  /\ die("noRoute")

(* A removal that notifies nobody of the route left.                       *)
removeAddress_Silent(t, a, n) ==
  LET table == [theTable EXCEPT ![<<a, n>>] = Nil]
      cs    == moved(table, n)
      lost  == unrouted(table, n)
  IN  /\ alive /\ idle(t)
      /\ theTable' = table
      /\ setRouter(cs,
           [c \in cs |-> IF c \in lost THEN Empty ELSE routeOf(table, c)])
      /\ UNCHANGED <<theApplications, theApplicationsByUeAppId, notifyVars,
                     failure>>

(* Drop the entry of the key, if any.  A moved context is given the route  *)
(* it has now and its owner notified, or no edge router and no message.    *)
removeAddress(t, a, n) ==
  LET table == [theTable EXCEPT ![<<a, n>>] = Nil]
      cs    == moved(table, n)
      lost  == unrouted(table, n)
  IN  /\ alive /\ idle(t)
      /\ theTable' = table
      /\ setRouter(cs,
           [c \in cs |-> IF c \in lost THEN Empty ELSE routeOf(table, c)])
      /\ toNotify' = [toNotify EXCEPT ![t] =
           {notificationTo(c, routeOf(table, c)) : c \in cs \ lost}]
      /\ UNCHANGED <<theApplications, theApplicationsByUeAppId, posting,
                     failure>>

(* notifyClients asserts first that theMutex is not locked, after its      *)
(* caller has unlocked it: any other call may have locked it since.  The   *)
(* change of the table, made just before, ends with the process: as every  *)
(* removal comes this far, the key does not matter.                        *)
notifyClients_Locked(t) ==
  /\ alive /\ idle(t) /\ Assertions
  /\ die("mutexLocked")

-----------------------------------------------------------------------------
(* Contexts.                                                               *)

(* A creation that takes any application.                                  *)
admissible_Unregistered(a, x) == find(theTable, a, x.appName) # Nil

(* A creation that does not look at the iterator find returned.            *)
admissible_Unrouted(a, x) == exists(x)

(* The checks that a creation must pass.                                   *)
admissible(a, x) ==
  exists(x) /\ find(theTable, a, x.appName) # Nil

(* A build that inserts without asserting.                                 *)
accepts_Any(u) == u \in UeAppId

(* The assertion on the insertion in the index.                            *)
accepts(u) == Assertions => theApplicationsByUeAppId[u] = Nil

(* Grant client a a context.  The index keeps the entry that is there: a   *)
(* second context for the same UE application id is not indexed.           *)
createContext(a, x, u, cb, c) ==
  /\ alive /\ admissible(a, x) /\ fresh(c)
  /\ accepts(u)
  /\ theApplicationsByContextId' =
       [theApplicationsByContextId EXCEPT ![c] =
          [ueAppId |-> u, callback |-> cb, client |-> a, app |-> x.appName,
           edgeRouter |-> find(theTable, a, x.appName)]]
  /\ theApplicationsByUeAppId' =
       [theApplicationsByUeAppId EXCEPT ![u] = IF @ = Nil THEN c ELSE @]
  /\ UNCHANGED <<theApplications, theTable, notifyVars, failure>>

(* In the debug build the second context fails an assertion.               *)
createContext_Duplicate(a, x, u) ==
  /\ alive /\ admissible(a, x)
  /\ ~accepts(u)
  /\ die("duplicateUeAppId")

(* Change the callback reference of the context indexed under u.  The      *)
(* context id in the URL of the request is not looked at.                  *)
updateContext(u, cb) ==
  /\ alive /\ theApplicationsByUeAppId[u] # Nil
  /\ theApplicationsByContextId' =
       [theApplicationsByContextId EXCEPT
          ![theApplicationsByUeAppId[u]].callback = cb]
  /\ UNCHANGED <<theApplications, theTable, theApplicationsByUeAppId,
                 notifyVars, failure>>

indexed(c) ==
  theApplicationsByUeAppId[theApplicationsByContextId[c].ueAppId] # Nil

(* An erasure that forgets the index.                                      *)
erase_ContextOnly(c) ==
  /\ theApplicationsByContextId' =
       [theApplicationsByContextId EXCEPT ![c] = Nil]
  /\ UNCHANGED theApplicationsByUeAppId

(* Erase a context and the index entry of its UE application id.           *)
erase(c) ==
  /\ theApplicationsByContextId' =
       [theApplicationsByContextId EXCEPT ![c] = Nil]
  /\ theApplicationsByUeAppId' =
       [theApplicationsByUeAppId EXCEPT
          ![theApplicationsByContextId[c].ueAppId] = Nil]

deleteContext(c) ==
  /\ alive /\ live(c) /\ indexed(c)
  /\ erase(c)
  /\ UNCHANGED <<theApplications, theTable, notifyVars, failure>>

(* The index entry, asserted to be there, is erased through end().         *)
deleteContext_NotIndexed(c) ==
  /\ alive /\ live(c) /\ ~indexed(c)
  /\ die("noIndexEntry")

-----------------------------------------------------------------------------
(* notifyClients, one notification at a time, without the mutex.  The list *)
(* is in the unspecified order of a hash table: the next one is any.       *)

(* A callback reference that is not a URI, or is empty in a build without  *)
(* assertions, is passed over.                                             *)
skipNotification(t, m) ==
  /\ alive /\ posting[t] = Nil /\ m \in toNotify[t]
  /\ m.callback \notin ValidCallback
  /\ Assertions => m.callback # Empty
  /\ toNotify' = [toNotify EXCEPT ![t] = @ \ {m}]
  /\ UNCHANGED <<theApplications, theTable, contextVars, posting, failure>>

skipNotification_Empty(t, m) ==
  /\ alive /\ posting[t] = Nil /\ m \in toNotify[t]
  /\ Assertions /\ m.callback = Empty
  /\ die("emptyCallback")

postNotification(t, m) ==
  /\ alive /\ posting[t] = Nil /\ m \in toNotify[t]
  /\ m.callback \in ValidCallback
  /\ toNotify' = [toNotify EXCEPT ![t] = @ \ {m}]
  /\ posting'  = [posting EXCEPT ![t] = m]
  /\ UNCHANGED <<theApplications, theTable, contextVars, failure>>

(* Remove the context, if it is still there.  The index entry is asserted  *)
(* to be there too; without assertions its absence does no harm.           *)
purge(c) ==
  IF ~live(c) THEN UNCHANGED <<contextVars, failure>>
  ELSE IF Assertions /\ ~indexed(c)
  THEN failure' = "noIndexEntry" /\ UNCHANGED contextVars
  ELSE erase(c) /\ UNCHANGED failure

(* A refusal that puts the notification back on the list.                  *)
answerRefused_Retry(t) ==
  /\ alive /\ posting[t] # Nil
  /\ toNotify' = [toNotify EXCEPT ![t] = @ \cup {posting[t]}]
  /\ posting'  = [posting EXCEPT ![t] = Nil]
  /\ UNCHANGED <<theApplications, theTable, contextVars, failure>>

(* Any answer but 204 No Content purges the context.                       *)
answerRefused(t) ==
  /\ alive /\ posting[t] # Nil
  /\ purge(posting[t].contextId)
  /\ posting' = [posting EXCEPT ![t] = Nil]
  /\ UNCHANGED <<theApplications, theTable, toNotify>>

forget(t) ==
  /\ alive /\ posting[t] # Nil
  /\ posting' = [posting EXCEPT ![t] = Nil]
  /\ UNCHANGED <<theApplications, theTable, contextVars, toNotify, failure>>

(* 204 No Content: the owner has been told.                                *)
answerAccepted(t) == forget(t)

(* No answer: the exception is only logged, and the owner may not have     *)
(* been told.                                                              *)
postFailed(t) == forget(t)

-----------------------------------------------------------------------------

Init ==
  /\ AppsInit
  /\ theTable = [k \in AddressAppKey |-> Nil]
  /\ theApplicationsByContextId = [c \in ContextId |-> Nil]
  /\ theApplicationsByUeAppId = [u \in UeAppId |-> Nil]
  /\ toNotify = [t \in Thread |-> {}]
  /\ posting = [t \in Thread |-> Nil]
  /\ failure = "none"

changeApps ==
  /\ alive /\ AppsNext
  /\ UNCHANGED <<theTable, contextVars, notifyVars, failure>>

changeTable(t) ==
  \/ \E a \in Address \cup {Empty}, n \in AppName :
       \/ \E r \in Router : associateAddress(t, a, n, r)
       \/ \E r \in Router : associateAddress_Unrouted(t, a, n, r)
       \/ removeAddress(t, a, n)
  \/ notifyClients_Locked(t)

serveContext ==
  \/ \E a \in Address, x \in AppInfo, u \in UeAppId :
       \/ \E cb \in Callback \cup {Empty}, c \in ContextId :
            createContext(a, x, u, cb, c)
       \/ createContext_Duplicate(a, x, u)
  \/ \E u \in UeAppId, cb \in Callback \cup {Empty} : updateContext(u, cb)
  \/ \E c \in ContextId : deleteContext(c)
  \/ \E c \in ContextId : deleteContext_NotIndexed(c)

notifyClients(t) ==
  \/ \E m \in toNotify[t] : skipNotification(t, m)
  \/ \E m \in toNotify[t] : skipNotification_Empty(t, m)
  \/ \E m \in toNotify[t] : postNotification(t, m)
  \/ answerRefused(t)
  \/ answerAccepted(t)
  \/ postFailed(t)

Next ==
  \/ changeApps
  \/ serveContext
  \/ \E t \in Thread : changeTable(t)
  \/ \E t \in Thread : notifyClients(t)

Spec == Init /\ [][Next]_vars

-----------------------------------------------------------------------------

TypeOK ==
  /\ AppsTypeOK
  /\ theTable \in [AddressAppKey -> Router \cup {Nil}]
  /\ theApplicationsByContextId \in [ContextId -> Desc \cup {Nil}]
  /\ theApplicationsByUeAppId \in [UeAppId -> ContextId \cup {Nil}]
  /\ toNotify \in [Thread -> SUBSET Notification]
  /\ posting \in [Thread -> Notification \cup {Nil}]
  /\ failure \in Failure

(* The edge router recorded for a context is the one its client is         *)
(* entitled to in the present table: the entry for its own address if      *)
(* there is one, else the entry for any address, else none.  The code does *)
(* not recompute it but patches the contexts a change seems to move, and   *)
(* associateAddress gives all of them its own argument.                    *)
RoutesCurrent ==
  \A c \in ContextId : live(c) =>
    LET d   == theApplicationsByContextId[c]
        own == theTable[<<d.client, d.app>>]
        any == theTable[<<Empty, d.app>>]
    IN  /\ own # Nil => d.edgeRouter = own
        /\ own = Nil /\ any # Nil => d.edgeRouter = any
        /\ own = Nil /\ any = Nil => d.edgeRouter = Empty

(* Every iterator kept in theApplicationsByUeAppId points at an element of *)
(* theApplicationsByContextId, and at one with that UE application id:     *)
(* updateContext dereferences it.  Erasures through either of two contexts *)
(* that share an id must not leave one dangling.  (That an insertion does  *)
(* not move the elements is a fact of the hash tables in use.)             *)
IteratorsValid ==
  \A u \in UeAppId : theApplicationsByUeAppId[u] # Nil =>
    /\ live(theApplicationsByUeAppId[u])
    /\ theApplicationsByContextId[theApplicationsByUeAppId[u]].ueAppId = u

(* In the debug build, whose createContext asserts it, every context is    *)
(* the one its UE application id is indexed to: so no two share an id, and *)
(* every context can be updated, deleted and purged.                       *)
EveryContextIndexed ==
  Assertions =>
    \A c \in ContextId : live(c) =>
      theApplicationsByUeAppId[theApplicationsByContextId[c].ueAppId] = c

(* An owner is sent the edge router of its context exactly when that       *)
(* changes to another: by the thread that changed it, once, and with the   *)
(* new one.  A change to none is the one change that is not announced.     *)
tellsOwners ==
  \A c \in ContextId : live(c) /\ live(c)' =>
    LET old  == theApplicationsByContextId[c]
        new  == theApplicationsByContextId'[c]
        msgs == UNION {{<<t, m>> : m \in pending(t)' \ pending(t)} :
                         t \in Thread}
        mine == {tm \in msgs : tm[2].contextId = c}
    IN  IF new.edgeRouter \in {old.edgeRouter, Empty}
        THEN mine = {}
        ELSE \E t \in Thread :
               mine = {<<t, [callback  |-> old.callback,
                             uri       |-> new.edgeRouter,
                             contextId |-> c]>>}

(* Every step of the proxy, of whatever kind, tells exactly those owners.  *)
MovedMeansNotified == [][tellsOwners]_vars

(* When one thread serves all changes of the table, a notification that is *)
(* still to be posted, or is being posted, names the edge router its       *)
(* context has now, whatever contexts come, go and are purged meanwhile.   *)
PendingIsCurrent ==
  (\E t \in Thread : Thread = {t}) =>
    \A t \in Thread : \A m \in pending(t) :
      live(m.contextId) =>
        theApplicationsByContextId[m.contextId].edgeRouter = m.uri

(* A call that changes the table returns, however its notifications are    *)
(* answered and whatever happens to the contexts they are about, unless    *)
(* the process ends.                                                       *)
TableCallReturns == \A t \in Thread : ~idle(t) ~> (idle(t) \/ ~alive)

-----------------------------------------------------------------------------
(* The directory of contexts that the proxy keeps, in the end.             *)

appNameOf(x) == x.appName

existing == {x \in AppInfo : exists(x)}

owners ==
  [c \in ContextId |->
     IF ~live(c) THEN Nil
     ELSE <<theApplicationsByContextId[c].client,
            theApplicationsByContextId[c].app>>]

recorded ==
  [c \in ContextId |->
     IF ~live(c) \/ theApplicationsByContextId[c].edgeRouter = Empty
     THEN Nil
     ELSE theApplicationsByContextId[c].edgeRouter]

Directory == INSTANCE ContextDirectory WITH
  Application <- AppInfo,
  NameOf      <- appNameOf,
  Client      <- Address,
  AnyClient   <- Empty,
  EdgeRouter  <- Router,
  Context     <- ContextId,
  Absent      <- Nil,
  registered  <- existing,
  routes      <- theTable,
  owner       <- owners,
  router      <- recorded

(* The proxy, which patches recorded edge routers and keeps an index, does *)
(* what the directory promises, as long as distinct applications have      *)
(* distinct keys in the registry.                                          *)
ImplementsDirectory == Directory!Spec

-----------------------------------------------------------------------------
(* What the assertions and comments of the source claim, and the code does *)
(* not do (see the findings).                                              *)

(* "assert(jt != theTable.end())" in associateAddress: every context of    *)
(* the application has a route after the association, although             *)
(* removeAddress may leave one without.                                    *)
AssociateFindsRoutes == failure # "noRoute"

(* "assert(theApplicationsByContextId.size() ==                            *)
(* theApplicationsByUeAppId.size())" in numContexts and purge.             *)
SizesAgree ==
  Cardinality({c \in ContextId : live(c)}) =
    Cardinality({u \in UeAppId : theApplicationsByUeAppId[u] # Nil})

(* Only the owners "that specified a notification URI" are notified, and   *)
(* "assert(not myCallbackReference.empty())" in notifyClients.             *)
NotifiesOnlyWithCallback ==
  \A t \in Thread : \A m \in pending(t) : m.callback # Empty
=============================================================================
