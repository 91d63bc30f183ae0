---------------------- MODULE StaticUeAppLcmProxy_proofs ----------------------
(***************************************************************************)
(* Theorems of StaticUeAppLcmProxy, for every set of clients, routers,     *)
(* callbacks, contexts and threads, and for both builds.                   *)
(***************************************************************************)
EXTENDS StaticUeAppLcmProxy, Integers, SequenceTheorems, TLAPS

(* The two-level lookup returns an edge router of the table, or Nil.       *)
LEMMA FindType ==
  ASSUME NEW table \in [AddressAppKey -> Router \cup {Nil}],
         NEW a \in Address, NEW n \in AppName
  PROVE  find(table, a, n) \in Router \cup {Nil}
BY DEF find, AddressAppKey

(* The fields of a live context have their types.                          *)
LEMMA LiveContext ==
  ASSUME TypeOK, NEW c \in ContextId, live(c)
  PROVE  theApplicationsByContextId[c] \in Desc
BY DEF TypeOK, live

(* A notification made for a live context is one.                          *)
LEMMA NotificationType ==
  ASSUME TypeOK, NEW c \in ContextId, live(c), NEW r \in Router
  PROVE  notificationTo(c, r) \in Notification
BY LiveContext DEF notificationTo, Notification, Desc

(* The registry's own part of the type invariant.                          *)
LEMMA AppsNextType ==
  ASSUME AppsTypeOK, AppsNext
  PROVE  AppsTypeOK'
BY DEF AppsTypeOK, AppsNext, addApp, delApp, AppKey

(* The registry is changed by addApp and delApp only.                      *)
LEMMA AppsSteps ==
  ASSUME [Next]_vars
  PROVE  \/ UNCHANGED theApplications
         \/ AppsNext /\ UNCHANGED <<theTable, contextVars>>
<1>1. ASSUME NEW t \in Thread, notifyClients(t)
      PROVE  UNCHANGED theApplications
  BY <1>1 DEF notifyClients, skipNotification, skipNotification_Empty,
        postNotification, answerRefused, answerAccepted, postFailed, forget, die
<1>2. ASSUME NEW t \in Thread, changeTable(t)
      PROVE  UNCHANGED theApplications
  <2>1. ASSUME NEW a, NEW n, NEW r, associateAddress(t, a, n, r)
        PROVE  UNCHANGED theApplications
    BY <2>1 DEF associateAddress
  <2>2. ASSUME NEW a, NEW n, NEW r, associateAddress_Unrouted(t, a, n, r)
        PROVE  UNCHANGED theApplications
    BY <2>2 DEF associateAddress_Unrouted, die
  <2>3. ASSUME NEW a, NEW n, removeAddress(t, a, n)
        PROVE  UNCHANGED theApplications
    BY <2>3 DEF removeAddress
  <2> QED  BY <1>2, <2>1, <2>2, <2>3 DEF changeTable, notifyClients_Locked, die
<1>3. CASE serveContext
  BY <1>3 DEF serveContext, createContext, createContext_Duplicate,
        updateContext, deleteContext, deleteContext_NotIndexed, die
<1> QED  BY <1>1, <1>2, <1>3 DEF Next, vars, changeApps

(* What the registry lists is stored under its key, so exists() finds it.  *)
StoredUnderKey ==
  \A k \in AppKey : theApplications[k] # Nil => mangle(theApplications[k]) = k

(* Additions and removals keep it so.                                      *)
LEMMA StoredStep ==
  ASSUME AppsTypeOK, StoredUnderKey, AppsNext \/ UNCHANGED theApplications
  PROVE  StoredUnderKey'
BY DEF AppsTypeOK, StoredUnderKey, AppsNext, addApp, delApp, AppKey

(* Whatever the list shows, exists() answers for.                          *)
LEMMA ListedExists ==
  ASSUME StoredUnderKey, NEW x \in ApplicationList
  PROVE  exists(x)
BY DEF StoredUnderKey, ApplicationList, exists

(* Recording new edge routers changes nothing else of any context.         *)
LEMMA SetRouterEffect ==
  ASSUME TypeOK, NEW cs, NEW router, setRouter(cs, router),
         \A c \in cs : c \in ContextId /\ live(c)
                       /\ router[c] \in Router \cup {Empty}
  PROVE  /\ theApplicationsByContextId' \in [ContextId -> Desc \cup {Nil}]
         /\ \A c \in ContextId : ~live(c) => ~live(c)'
         /\ \A c \in ContextId : live(c) =>
              LET old == theApplicationsByContextId[c]
                  new == theApplicationsByContextId'[c]
              IN  /\ live(c)'
                  /\ new.ueAppId = old.ueAppId
                  /\ new.callback = old.callback
                  /\ new.client = old.client
                  /\ new.app = old.app
                  /\ c \in cs => new.edgeRouter = router[c]
                  /\ c \notin cs => new.edgeRouter = old.edgeRouter
<1>1. theApplicationsByContextId' =
        [c \in ContextId |->
           IF c \in cs
           THEN [theApplicationsByContextId[c] EXCEPT !.edgeRouter = router[c]]
           ELSE theApplicationsByContextId[c]]
  BY DEF setRouter
<1>2. ASSUME NEW c \in cs
      PROVE  /\ c \in ContextId
             /\ theApplicationsByContextId[c] \in Desc
             /\ theApplicationsByContextId'[c] \in Desc
             /\ theApplicationsByContextId'[c] =
                  [theApplicationsByContextId[c] EXCEPT
                     !.edgeRouter = router[c]]
  <2>1. theApplicationsByContextId[c] \in Desc
    BY LiveContext
  <2>2. [theApplicationsByContextId[c] EXCEPT !.edgeRouter = router[c]] \in Desc
    BY <2>1 DEF Desc
  <2> QED  BY <1>1, <2>1, <2>2
<1>3. theApplicationsByContextId' \in [ContextId -> Desc \cup {Nil}]
  BY <1>1, <1>2 DEF TypeOK
<1>4. ASSUME NEW c \in ContextId, ~live(c)
      PROVE  ~live(c)'
  BY <1>1, <1>4 DEF live
<1>5. ASSUME NEW c \in ContextId, live(c), c \in cs
      PROVE  LET old == theApplicationsByContextId[c]
                 new == theApplicationsByContextId'[c]
             IN  /\ live(c)'
                 /\ new.ueAppId = old.ueAppId
                 /\ new.callback = old.callback
                 /\ new.client = old.client
                 /\ new.app = old.app
                 /\ new.edgeRouter = router[c]
  <2> DEFINE old == theApplicationsByContextId[c]
             new == theApplicationsByContextId'[c]
  <2>1. old \in Desc /\ new \in Desc
    BY <1>2, <1>5
  <2>2. new = [old EXCEPT !.edgeRouter = router[c]]
    BY <1>2, <1>5
  <2>3. live(c)'
    BY <2>1, NilAssumption DEF live
  <2> HIDE DEF old, new
  <2>4. /\ new.ueAppId = old.ueAppId
        /\ new.callback = old.callback
        /\ new.client = old.client
        /\ new.app = old.app
        /\ new.edgeRouter = router[c]
    BY <2>1, <2>2 DEF Desc
  <2> QED  BY <2>3, <2>4 DEF old, new
<1>6. ASSUME NEW c \in ContextId, live(c), c \notin cs
      PROVE  live(c)' /\ theApplicationsByContextId'[c] =
                           theApplicationsByContextId[c]
  BY <1>1, <1>6 DEF live
<1> QED
  BY <1>3, <1>4, <1>5, <1>6

(* What a change of the table does to a context: either kind of change     *)
(* gives a router to the moved contexts and keeps the rest of them.        *)
Rerouted(n, table, router) ==
  /\ theTable' = table
  /\ table \in [AddressAppKey -> Router \cup {Nil}]
  /\ UNCHANGED theApplicationsByUeAppId
  /\ theApplicationsByContextId' \in [ContextId -> Desc \cup {Nil}]
  /\ \A c \in ContextId : ~live(c) => ~live(c)'
  /\ \A c \in ContextId : live(c) =>
       LET old == theApplicationsByContextId[c]
           new == theApplicationsByContextId'[c]
       IN  /\ live(c)'
           /\ new.ueAppId = old.ueAppId
           /\ new.callback = old.callback
           /\ new.client = old.client
           /\ new.app = old.app
           /\ c \in moved(table, n) => new.edgeRouter = router[c]
           /\ c \notin moved(table, n) => new.edgeRouter = old.edgeRouter

(* An association reroutes.                                                *)
LEMMA AssociateEffect ==
  ASSUME TypeOK, NEW t \in Thread, NEW a \in Address \cup {Empty},
         NEW n \in AppName, NEW r \in Router, associateAddress(t, a, n, r)
  PROVE  LET table == [theTable EXCEPT ![<<a, n>>] = r]
         IN  Rerouted(n, table, [c \in moved(table, n) |-> r])
<1> DEFINE table  == [theTable EXCEPT ![<<a, n>>] = r]
           router == [c \in moved(table, n) |-> r]
<1>1. \A c \in moved(table, n) :
        c \in ContextId /\ live(c) /\ router[c] \in Router \cup {Empty}
  BY DEF moved, using
<1>2. table \in [AddressAppKey -> Router \cup {Nil}]
  BY DEF TypeOK
<1>3. /\ theTable' = table
      /\ UNCHANGED theApplicationsByUeAppId
      /\ setRouter(moved(table, n), router)
  BY DEF associateAddress
<1> HIDE DEF table, router
<1> QED
  BY <1>1, <1>2, <1>3, SetRouterEffect DEF Rerouted, table, router

(* So does a removal, to the routes that are left.                         *)
LEMMA RemoveEffect ==
  ASSUME TypeOK, NEW t \in Thread, NEW a \in Address \cup {Empty},
         NEW n \in AppName, removeAddress(t, a, n)
  PROVE  LET table == [theTable EXCEPT ![<<a, n>>] = Nil]
         IN  /\ Rerouted(n, table,
                  [c \in moved(table, n) |->
                     IF c \in unrouted(table, n) THEN Empty
                     ELSE routeOf(table, c)])
             /\ \A c \in moved(table, n) \ unrouted(table, n) :
                  routeOf(table, c) \in Router
<1> DEFINE table  == [theTable EXCEPT ![<<a, n>>] = Nil]
           router == [c \in moved(table, n) |->
                        IF c \in unrouted(table, n) THEN Empty
                        ELSE routeOf(table, c)]
<1>1. table \in [AddressAppKey -> Router \cup {Nil}]
  BY DEF TypeOK
<1>2. ASSUME NEW c \in moved(table, n)
      PROVE  /\ c \in ContextId /\ live(c)
             /\ c \notin unrouted(table, n) => routeOf(table, c) \in Router
  <2>1. c \in ContextId /\ live(c) /\ c \in using(n)
    BY DEF moved, using
  <2>2. routeOf(table, c) \in Router \cup {Nil}
    BY <1>1, <2>1, LiveContext, FindType DEF routeOf, Desc
  <2> QED  BY <2>1, <2>2 DEF unrouted
<1>3. \A c \in moved(table, n) :
        c \in ContextId /\ live(c) /\ router[c] \in Router \cup {Empty}
  BY <1>2
<1>4. /\ theTable' = table
      /\ UNCHANGED theApplicationsByUeAppId
      /\ setRouter(moved(table, n), router)
  BY DEF removeAddress
<1> HIDE DEF table, router
<1> QED
  BY <1>1, <1>2, <1>3, <1>4, SetRouterEffect DEF Rerouted, table, router

(* No step takes the state out of its types: in particular a recorded edge *)
(* router is an entry of the table or empty, never an end() iterator.      *)
(* updateContext writes through an iterator of the index, so this needs    *)
(* the iterators to be valid.                                              *)
LEMMA TypeStep ==
  ASSUME TypeOK, IteratorsValid, [Next]_vars
  PROVE  TypeOK'
<1>1. CASE UNCHANGED vars
  BY <1>1 DEF vars, contextVars, notifyVars, TypeOK, AppsTypeOK
<1>2. CASE changeApps
  BY <1>2, AppsNextType DEF changeApps, contextVars, notifyVars, TypeOK
<1>3. ASSUME NEW t \in Thread, NEW a \in Address \cup {Empty},
             NEW n \in AppName, NEW r \in Router,
             associateAddress(t, a, n, r)
      PROVE  TypeOK'
  <2> DEFINE cs == moved([theTable EXCEPT ![<<a, n>>] = r], n)
  <2>1. /\ theTable' \in [AddressAppKey -> Router \cup {Nil}]
        /\ theApplicationsByContextId' \in [ContextId -> Desc \cup {Nil}]
    <3> DEFINE table  == [theTable EXCEPT ![<<a, n>>] = r]
               router == [c \in moved(table, n) |-> r]
    <3>1. Rerouted(n, table, router)
      BY <1>3, AssociateEffect
    <3> HIDE DEF table, router
    <3> QED  BY <3>1 DEF Rerouted
  <2>2. {notificationTo(c, r) : c \in cs} \subseteq Notification
    BY NotificationType DEF moved, using
  <2>3. toNotify' \in [Thread -> SUBSET Notification]
    <3>1. toNotify' = [toNotify EXCEPT ![t] =
                         {notificationTo(c, r) : c \in cs}]
      BY <1>3 DEF associateAddress
    <3>2. toNotify \in [Thread -> SUBSET Notification]
      BY DEF TypeOK
    <3> DEFINE ms == {notificationTo(c, r) : c \in cs}
    <3> HIDE DEF ms
    <3>3. toNotify' = [toNotify EXCEPT ![t] = ms] /\ ms \subseteq Notification
      BY <2>2, <3>1 DEF ms
    <3> QED  BY <3>2, <3>3
  <2> QED
    BY <1>3, <2>1, <2>3 DEF associateAddress, TypeOK, AppsTypeOK
<1>4. ASSUME NEW t \in Thread, NEW a \in Address \cup {Empty},
             NEW n \in AppName,
             removeAddress(t, a, n)
      PROVE  TypeOK'
  <2> DEFINE table == [theTable EXCEPT ![<<a, n>>] = Nil]
             cs    == moved(table, n) \ unrouted(table, n)
  <2>1. /\ theTable' \in [AddressAppKey -> Router \cup {Nil}]
        /\ theApplicationsByContextId' \in [ContextId -> Desc \cup {Nil}]
        /\ \A c \in cs : routeOf(table, c) \in Router
    BY <1>4, RemoveEffect DEF Rerouted
  <2>2. {notificationTo(c, routeOf(table, c)) : c \in cs} \subseteq Notification
    BY <2>1, NotificationType DEF moved, using
  <2>3. toNotify' \in [Thread -> SUBSET Notification]
    <3> DEFINE ms == {notificationTo(c, routeOf(table, c)) : c \in cs}
    <3>1. toNotify' = [toNotify EXCEPT ![t] = ms]
      BY <1>4 DEF removeAddress
    <3>2. toNotify \in [Thread -> SUBSET Notification]
      BY DEF TypeOK
    <3>3. ms \subseteq Notification
      BY <2>2
    <3> HIDE DEF ms
    <3> QED  BY <3>1, <3>2, <3>3
  <2> QED
    BY <1>4, <2>1, <2>3 DEF removeAddress, TypeOK, AppsTypeOK
<1>5. ASSUME NEW why \in Failure, die(why)
      PROVE  TypeOK'
  BY <1>5 DEF die, contextVars, notifyVars, TypeOK, AppsTypeOK
<1>6. ASSUME NEW a \in Address, NEW x \in AppInfo, NEW u \in UeAppId,
             NEW cb \in Callback \cup {Empty}, NEW c \in ContextId,
             createContext(a, x, u, cb, c)
      PROVE  TypeOK'
  <2>1. x.appName \in AppName
    BY DEF AppName
  <2>2. find(theTable, a, x.appName) \in Router
    BY <1>6, <2>1, FindType DEF createContext, admissible, TypeOK
  <2>3. [ueAppId |-> u, callback |-> cb, client |-> a, app |-> x.appName,
         edgeRouter |-> find(theTable, a, x.appName)] \in Desc
    BY <2>1, <2>2 DEF Desc
  <2>4. theApplicationsByContextId' \in [ContextId -> Desc \cup {Nil}]
    BY <1>6, <2>3 DEF createContext, TypeOK
  <2>5. theApplicationsByUeAppId' \in [UeAppId -> ContextId \cup {Nil}]
    BY <1>6 DEF createContext, TypeOK
  <2> QED
    BY <1>6, <2>4, <2>5 DEF createContext, notifyVars, TypeOK, AppsTypeOK
<1>7. ASSUME NEW u \in UeAppId, NEW cb \in Callback \cup {Empty},
             updateContext(u, cb)
      PROVE  TypeOK'
  <2> DEFINE c == theApplicationsByUeAppId[u]
  <2>1. c \in ContextId
    BY <1>7 DEF updateContext, TypeOK
  <2>2. theApplicationsByContextId' \in [ContextId -> Desc \cup {Nil}]
    <3>1. live(c)
      BY <1>7 DEF updateContext, IteratorsValid
    <3>2. [theApplicationsByContextId[c] EXCEPT !.callback = cb] \in Desc
      BY <2>1, <3>1, LiveContext DEF Desc
    <3> QED  BY <1>7, <2>1, <3>2 DEF updateContext, TypeOK
  <2> QED
    BY <1>7, <2>2 DEF updateContext, notifyVars, TypeOK, AppsTypeOK
<1>8. ASSUME NEW c \in ContextId, live(c), erase(c)
      PROVE  /\ theApplicationsByContextId' \in [ContextId -> Desc \cup {Nil}]
             /\ theApplicationsByUeAppId' \in [UeAppId -> ContextId \cup {Nil}]
  BY <1>8 DEF erase, TypeOK
<1>9. ASSUME NEW c \in ContextId, deleteContext(c)
      PROVE  TypeOK'
  BY <1>8, <1>9 DEF deleteContext, notifyVars, TypeOK, AppsTypeOK
<1>10. ASSUME NEW t \in Thread, NEW m \in toNotify[t],
              skipNotification(t, m) \/ postNotification(t, m)
       PROVE  TypeOK'
  <2>1. m \in Notification
    BY DEF TypeOK
  <2> QED
    BY <1>10, <2>1 DEF skipNotification, postNotification, contextVars,
                       TypeOK, AppsTypeOK
<1>11. ASSUME NEW t \in Thread, answerRefused(t)
       PROVE  TypeOK'
  <2> DEFINE c == posting[t].contextId
  <2>1. c \in ContextId
    BY <1>11 DEF answerRefused, TypeOK, Notification
  <2>2. /\ theApplicationsByContextId' \in [ContextId -> Desc \cup {Nil}]
        /\ theApplicationsByUeAppId' \in [UeAppId -> ContextId \cup {Nil}]
        /\ failure' \in Failure
    <3>1. CASE live(c) /\ erase(c) /\ UNCHANGED failure
      BY <1>8, <2>1, <3>1 DEF TypeOK
    <3>2. CASE UNCHANGED contextVars /\ failure' \in Failure
      BY <3>2 DEF contextVars, TypeOK
    <3> QED
      BY <1>11, <3>1, <3>2 DEF answerRefused, purge, Failure, TypeOK
  <2> QED
    BY <1>11, <2>2 DEF answerRefused, TypeOK, AppsTypeOK
<1>12. ASSUME NEW t \in Thread, answerAccepted(t) \/ postFailed(t)
       PROVE  TypeOK'
  BY <1>12 DEF answerAccepted, postFailed, forget, contextVars, TypeOK, AppsTypeOK
<1>13. ASSUME NEW t \in Thread, changeTable(t)
       PROVE  TypeOK'
  BY <1>3, <1>4, <1>5, <1>13
     DEF changeTable, associateAddress_Unrouted, notifyClients_Locked, Failure
<1>14. ASSUME serveContext
       PROVE  TypeOK'
  BY <1>5, <1>6, <1>7, <1>9, <1>14
     DEF serveContext, createContext_Duplicate, deleteContext_NotIndexed,
         Failure
<1>15. ASSUME NEW t \in Thread, notifyClients(t)
       PROVE  TypeOK'
  BY <1>5, <1>10, <1>11, <1>12, <1>15
     DEF notifyClients, skipNotification_Empty, Failure
<1> QED
  BY <1>1, <1>2, <1>13, <1>14, <1>15 DEF Next

-----------------------------------------------------------------------------

(* Only five kinds of step touch the contexts or their index: this sorts   *)
(* the actions by what they do to the two maps.                            *)
LEMMA ContextSteps ==
  ASSUME TypeOK, [Next]_vars
  PROVE  \/ UNCHANGED <<theTable, contextVars>>
         \/ \E t \in Thread, a \in Address \cup {Empty}, n \in AppName :
              \/ \E r \in Router : associateAddress(t, a, n, r)
              \/ removeAddress(t, a, n)
         \/ \E a \in Address, x \in AppInfo, u \in UeAppId,
               cb \in Callback \cup {Empty}, c \in ContextId :
              createContext(a, x, u, cb, c)
         \/ \E u \in UeAppId, cb \in Callback \cup {Empty} :
              updateContext(u, cb)
         \/ \E c \in ContextId :
              live(c) /\ erase(c) /\ UNCHANGED theTable
<1>1. CASE UNCHANGED vars
  BY <1>1 DEF vars, contextVars
<1>2. CASE changeApps
  BY <1>2 DEF changeApps
<1>3. ASSUME NEW why \in Failure, die(why)
      PROVE  UNCHANGED <<theTable, contextVars>>
  BY <1>3 DEF die
<1>4. CASE serveContext
  BY <1>3, <1>4
     DEF serveContext, createContext_Duplicate, deleteContext,
         deleteContext_NotIndexed, Failure
<1>5. ASSUME NEW t \in Thread, changeTable(t)
      PROVE  \/ UNCHANGED <<theTable, contextVars>>
             \/ \E a \in Address \cup {Empty}, n \in AppName :
                  \/ \E r \in Router : associateAddress(t, a, n, r)
                  \/ removeAddress(t, a, n)
  BY <1>3, <1>5 DEF changeTable, associateAddress_Unrouted,
                    notifyClients_Locked, Failure
<1>6. ASSUME NEW t \in Thread, notifyClients(t)
      PROVE  \/ UNCHANGED <<theTable, contextVars>>
             \/ \E c \in ContextId :
                  live(c) /\ erase(c) /\ UNCHANGED theTable
  <2>1. CASE answerRefused(t)
    <3>1. posting[t].contextId \in ContextId
      BY <2>1 DEF answerRefused, TypeOK, Notification
    <3> QED  BY <2>1, <3>1 DEF answerRefused, purge, contextVars
  <2>2. CASE ~answerRefused(t)
    BY <1>3, <1>6, <2>2
       DEF notifyClients, skipNotification, skipNotification_Empty,
           postNotification, answerAccepted, postFailed, forget, Failure
  <2> QED  BY <2>1, <2>2
<1> QED
  BY <1>1, <1>2, <1>4, <1>5, <1>6 DEF Next

(* The same sorting, with the effect of a reroute in place of its actions. *)
LEMMA ReroutedOrNot ==
  ASSUME TypeOK, [Next]_vars
  PROVE  \/ UNCHANGED <<theTable, contextVars>>
         \/ \E n \in AppName : \E table, router : Rerouted(n, table, router)
         \/ \E a \in Address, x \in AppInfo, u \in UeAppId,
               cb \in Callback \cup {Empty}, c \in ContextId :
              createContext(a, x, u, cb, c)
         \/ \E u \in UeAppId, cb \in Callback \cup {Empty} :
              updateContext(u, cb)
         \/ \E c \in ContextId :
              live(c) /\ erase(c) /\ UNCHANGED theTable
<1>1. ASSUME NEW t \in Thread, NEW a \in Address \cup {Empty},
             NEW n \in AppName, NEW r \in Router, associateAddress(t, a, n, r)
      PROVE  \E table, router : Rerouted(n, table, router)
  BY <1>1, AssociateEffect
<1>2. ASSUME NEW t \in Thread, NEW a \in Address \cup {Empty},
             NEW n \in AppName, removeAddress(t, a, n)
      PROVE  \E table, router : Rerouted(n, table, router)
  BY <1>2, RemoveEffect
<1> QED
  BY <1>1, <1>2, ContextSteps

(* An update changes one callback reference.                               *)
LEMMA UpdateEffect ==
  ASSUME TypeOK, IteratorsValid,
         NEW u \in UeAppId, NEW cb \in Callback \cup {Empty},
         updateContext(u, cb)
  PROVE  /\ UNCHANGED <<theTable, theApplicationsByUeAppId>>
         /\ \A c \in ContextId : ~live(c) => ~live(c)'
         /\ \A c \in ContextId : live(c) =>
              LET old == theApplicationsByContextId[c]
                  new == theApplicationsByContextId'[c]
              IN  /\ live(c)'
                  /\ new.ueAppId = old.ueAppId
                  /\ new.client = old.client
                  /\ new.app = old.app
                  /\ new.edgeRouter = old.edgeRouter
<1>1. PICK k \in ContextId : k = theApplicationsByUeAppId[u] /\ live(k)
  BY DEF updateContext, IteratorsValid, TypeOK
<1>2. theApplicationsByContextId' =
        [theApplicationsByContextId EXCEPT ![k] =
           [theApplicationsByContextId[k] EXCEPT !.callback = cb]]
  BY <1>1 DEF updateContext
<1>3. /\ theApplicationsByContextId[k] \in Desc
      /\ [theApplicationsByContextId[k] EXCEPT !.callback = cb] \in Desc
  BY <1>1, LiveContext DEF Desc
<1>4. theApplicationsByContextId'[k] =
        [theApplicationsByContextId[k] EXCEPT !.callback = cb]
  BY <1>1, <1>2 DEF TypeOK
<1>5. \A c \in ContextId \ {k} :
        theApplicationsByContextId'[c] = theApplicationsByContextId[c]
  BY <1>2 DEF TypeOK
<1>6. \A c \in ContextId : ~live(c) => ~live(c)'
  BY <1>1, <1>5 DEF live
<1>7. \A c \in ContextId \ {k} : live(c) => live(c)'
  BY <1>5 DEF live
<1>8. LET old == theApplicationsByContextId[k]
          new == theApplicationsByContextId'[k]
      IN  /\ live(k)'
          /\ new.ueAppId = old.ueAppId
          /\ new.client = old.client
          /\ new.app = old.app
          /\ new.edgeRouter = old.edgeRouter
  BY <1>3, <1>4, NilAssumption DEF live, Desc
<1>9. UNCHANGED <<theTable, theApplicationsByUeAppId>>
  BY DEF updateContext
<1> QED  BY <1>5, <1>6, <1>7, <1>8, <1>9

(* A creation adds one context, with the route that its client has.        *)
LEMMA CreateEffect ==
  ASSUME TypeOK, NEW a \in Address, NEW x \in AppInfo, NEW u \in UeAppId,
         NEW cb \in Callback \cup {Empty}, NEW c \in ContextId,
         createContext(a, x, u, cb, c)
  PROVE  LET new == theApplicationsByContextId'[c]
         IN  /\ ~live(c) /\ live(c)'
             /\ new.ueAppId = u
             /\ new.client = a
             /\ new.app = x.appName
             /\ x.appName \in AppName
             /\ new.edgeRouter = find(theTable, a, x.appName)
             /\ find(theTable, a, x.appName) \in Router
             /\ \A d \in ContextId \ {c} :
                  theApplicationsByContextId'[d] = theApplicationsByContextId[d]
             /\ theApplicationsByUeAppId[u] = Nil =>
                  theApplicationsByUeAppId'[u] = c
             /\ theApplicationsByUeAppId[u] # Nil =>
                  theApplicationsByUeAppId'[u] = theApplicationsByUeAppId[u]
             /\ \A v \in UeAppId \ {u} :
                  theApplicationsByUeAppId'[v] = theApplicationsByUeAppId[v]
             /\ UNCHANGED theTable
<1>1. x.appName \in AppName
  BY DEF AppName
<1>2. find(theTable, a, x.appName) \in Router
  BY <1>1, FindType DEF createContext, admissible, TypeOK
<1>3. [ueAppId |-> u, callback |-> cb, client |-> a, app |-> x.appName,
       edgeRouter |-> find(theTable, a, x.appName)] \in Desc
  BY <1>1, <1>2 DEF Desc
<1>4. theApplicationsByContextId'[c] =
        [ueAppId |-> u, callback |-> cb, client |-> a, app |-> x.appName,
         edgeRouter |-> find(theTable, a, x.appName)]
  BY DEF createContext, TypeOK
<1>5. ~live(c) /\ live(c)'
  BY <1>3, <1>4, NilAssumption DEF createContext, fresh, live
<1>6. \A d \in ContextId \ {c} :
        theApplicationsByContextId'[d] = theApplicationsByContextId[d]
  BY DEF createContext, TypeOK
<1>7. /\ theApplicationsByUeAppId[u] = Nil => theApplicationsByUeAppId'[u] = c
      /\ theApplicationsByUeAppId[u] # Nil =>
           theApplicationsByUeAppId'[u] = theApplicationsByUeAppId[u]
      /\ \A v \in UeAppId \ {u} :
           theApplicationsByUeAppId'[v] = theApplicationsByUeAppId[v]
      /\ UNCHANGED theTable
  BY DEF createContext, TypeOK
<1> QED
  BY <1>1, <1>2, <1>4, <1>5, <1>6, <1>7

-----------------------------------------------------------------------------

(* No step leaves an iterator of the index dangling or pointing at the     *)
(* context of another UE application id, in either build.                  *)
LEMMA IteratorsStep ==
  ASSUME TypeOK, IteratorsValid, [Next]_vars
  PROVE  IteratorsValid'
<1>1. CASE UNCHANGED <<theTable, contextVars>>
  BY <1>1 DEF contextVars, IteratorsValid, live
<1>2. ASSUME NEW n \in AppName, NEW table, NEW router,
             Rerouted(n, table, router)
      PROVE  IteratorsValid'
  BY <1>2 DEF Rerouted, IteratorsValid, TypeOK
<1>3. ASSUME NEW a \in Address, NEW x \in AppInfo, NEW u \in UeAppId,
             NEW cb \in Callback \cup {Empty}, NEW c \in ContextId,
             createContext(a, x, u, cb, c)
      PROVE  IteratorsValid'
  <2> SUFFICES ASSUME NEW v \in UeAppId, theApplicationsByUeAppId'[v] # Nil
               PROVE  /\ live(theApplicationsByUeAppId[v])'
                      /\ theApplicationsByContextId'
                           [theApplicationsByUeAppId'[v]].ueAppId = v
    BY DEF IteratorsValid
  <2>1. CASE v = u /\ theApplicationsByUeAppId[u] = Nil
    BY <1>3, <2>1, CreateEffect DEF live
  <2>2. CASE ~(v = u /\ theApplicationsByUeAppId[u] = Nil)
    <3>1. theApplicationsByUeAppId'[v] = theApplicationsByUeAppId[v]
      BY <1>3, <2>2, CreateEffect
    <3>2. theApplicationsByUeAppId[v] \in ContextId \ {c}
      BY <1>3, <3>1, CreateEffect DEF IteratorsValid, TypeOK
    <3> QED  BY <1>3, <3>1, <3>2, CreateEffect DEF IteratorsValid, live
  <2> QED  BY <2>1, <2>2
<1>4. ASSUME NEW u \in UeAppId, NEW cb \in Callback \cup {Empty},
             updateContext(u, cb)
      PROVE  IteratorsValid'
  BY <1>4, UpdateEffect DEF IteratorsValid, TypeOK
<1>5. ASSUME NEW c \in ContextId, live(c), erase(c)
      PROVE  IteratorsValid'
  <2> SUFFICES ASSUME NEW v \in UeAppId, theApplicationsByUeAppId'[v] # Nil
               PROVE  /\ live(theApplicationsByUeAppId[v])'
                      /\ theApplicationsByContextId'
                           [theApplicationsByUeAppId'[v]].ueAppId = v
    BY DEF IteratorsValid
  <2>1. /\ v # theApplicationsByContextId[c].ueAppId
        /\ theApplicationsByUeAppId'[v] = theApplicationsByUeAppId[v]
    BY <1>5, LiveContext DEF erase, TypeOK
  <2>2. theApplicationsByUeAppId[v] \in ContextId \ {c}
    BY <2>1 DEF IteratorsValid, TypeOK
  <2>3. theApplicationsByContextId'[theApplicationsByUeAppId[v]] =
          theApplicationsByContextId[theApplicationsByUeAppId[v]]
    BY <1>5, <2>2 DEF erase, TypeOK
  <2> QED  BY <2>1, <2>2, <2>3 DEF IteratorsValid, live
<1> QED
  BY <1>1, <1>2, <1>3, <1>4, <1>5, ReroutedOrNot

(* Every context of the debug build stays the one its UE application id    *)
(* is indexed to: the assertion in createContext refuses the one step that *)
(* would break this.                                                       *)
LEMMA IndexedStep ==
  ASSUME TypeOK, IteratorsValid, EveryContextIndexed, [Next]_vars
  PROVE  EveryContextIndexed'
<1> SUFFICES ASSUME Assertions
             PROVE  EveryContextIndexed'
  BY DEF EveryContextIndexed
<1>1. CASE UNCHANGED <<theTable, contextVars>>
  BY <1>1 DEF contextVars, EveryContextIndexed, live
<1>2. ASSUME NEW n \in AppName, NEW table, NEW router,
             Rerouted(n, table, router)
      PROVE  EveryContextIndexed'
  BY <1>2 DEF Rerouted, EveryContextIndexed
<1>3. ASSUME NEW a \in Address, NEW x \in AppInfo, NEW u \in UeAppId,
             NEW cb \in Callback \cup {Empty}, NEW c \in ContextId,
             createContext(a, x, u, cb, c)
      PROVE  EveryContextIndexed'
  <2> SUFFICES ASSUME NEW d \in ContextId, live(d)'
               PROVE  theApplicationsByUeAppId'
                        [theApplicationsByContextId'[d].ueAppId] = d
    BY DEF EveryContextIndexed
  <2>1. theApplicationsByUeAppId[u] = Nil
    BY <1>3 DEF createContext, accepts
  <2>2. CASE d = c
    BY <1>3, <2>1, <2>2, CreateEffect
  <2>3. CASE d # c
    <3>1. theApplicationsByContextId'[d] = theApplicationsByContextId[d]
      BY <1>3, <2>3, CreateEffect
    <3>2. live(d)
      BY <3>1 DEF live
    <3>3. /\ theApplicationsByContextId[d].ueAppId \in UeAppId
          /\ theApplicationsByUeAppId
               [theApplicationsByContextId[d].ueAppId] = d
      BY <3>2, LiveContext DEF EveryContextIndexed, Desc
    <3>4. theApplicationsByContextId[d].ueAppId # u
      BY <2>1, <3>3, NilAssumption
    <3> QED  BY <1>3, <3>1, <3>3, <3>4, CreateEffect
  <2> QED  BY <2>2, <2>3
<1>4. ASSUME NEW u \in UeAppId, NEW cb \in Callback \cup {Empty},
             updateContext(u, cb)
      PROVE  EveryContextIndexed'
  BY <1>4, UpdateEffect DEF EveryContextIndexed
<1>5. ASSUME NEW c \in ContextId, live(c), erase(c)
      PROVE  EveryContextIndexed'
  <2> SUFFICES ASSUME NEW d \in ContextId, live(d)'
               PROVE  theApplicationsByUeAppId'
                        [theApplicationsByContextId'[d].ueAppId] = d
    BY DEF EveryContextIndexed
  <2>1. d # c /\ theApplicationsByContextId'[d] = theApplicationsByContextId[d]
    BY <1>5 DEF erase, TypeOK, live
  <2>2. live(d)
    BY <2>1 DEF live
  <2>3. /\ theApplicationsByContextId[d].ueAppId \in UeAppId
        /\ theApplicationsByUeAppId[theApplicationsByContextId[d].ueAppId] = d
        /\ theApplicationsByUeAppId[theApplicationsByContextId[c].ueAppId] = c
    BY <1>5, <2>2, LiveContext DEF EveryContextIndexed, Desc
  <2>4. theApplicationsByContextId[d].ueAppId #
          theApplicationsByContextId[c].ueAppId
    BY <2>1, <2>3
  <2> QED  BY <1>5, <2>1, <2>3, <2>4 DEF erase, TypeOK
<1> QED
  BY <1>1, <1>2, <1>3, <1>4, <1>5, ReroutedOrNot

-----------------------------------------------------------------------------

(* RoutesCurrent in terms of the code's own lookup.                        *)
LEMMA RoutesAsLookup ==
  ASSUME RoutesCurrent, NEW c \in ContextId, live(c)
  PROVE  theApplicationsByContextId[c].edgeRouter =
           IF routeOf(theTable, c) = Nil THEN Empty ELSE routeOf(theTable, c)
BY DEF RoutesCurrent, routeOf, find

(* Conversely, after a reroute, which leaves clients and applications      *)
(* alone, it is enough that every context records its lookup in the new    *)
(* table.                                                                  *)
LEMMA LookupAsRoutes ==
  ASSUME NEW n \in AppName, NEW table, NEW router, Rerouted(n, table, router),
         \A c \in ContextId : live(c) =>
           theApplicationsByContextId'[c].edgeRouter =
             IF routeOf(table, c) = Nil THEN Empty ELSE routeOf(table, c)
  PROVE  RoutesCurrent'
<1> SUFFICES ASSUME NEW c \in ContextId, live(c)'
             PROVE  LET d   == theApplicationsByContextId'[c]
                        own == theTable'[<<d.client, d.app>>]
                        any == theTable'[<<Empty, d.app>>]
                    IN  /\ own # Nil => d.edgeRouter = own
                        /\ own = Nil /\ any # Nil => d.edgeRouter = any
                        /\ own = Nil /\ any = Nil => d.edgeRouter = Empty
  BY DEF RoutesCurrent
<1>1. /\ live(c)
      /\ theTable' = table
      /\ theApplicationsByContextId'[c].client =
           theApplicationsByContextId[c].client
      /\ theApplicationsByContextId'[c].app = theApplicationsByContextId[c].app
  BY DEF Rerouted
<1> QED
  BY <1>1 DEF routeOf, find

(* A change of the entry <<a, n>> leaves alone the routes of other         *)
(* applications, and gives the others their old route or the new entry.    *)
LEMMA RouteAfterChange ==
  ASSUME TypeOK, NEW a \in Address \cup {Empty}, NEW n \in AppName, NEW r,
         NEW c \in ContextId, live(c)
  PROVE  LET table == [theTable EXCEPT ![<<a, n>>] = r]
         IN  /\ c \notin using(n) => routeOf(table, c) = routeOf(theTable, c)
             /\ r # Nil => routeOf(table, c) \in {r, routeOf(theTable, c)}
<1>1. /\ theApplicationsByContextId[c].client \in Address
      /\ theApplicationsByContextId[c].app \in AppName
  BY LiveContext DEF Desc
<1>2. \A k \in AddressAppKey :
        [theTable EXCEPT ![<<a, n>>] = r][k] =
          IF k = <<a, n>> THEN r ELSE theTable[k]
  BY DEF TypeOK
<1>3. /\ <<theApplicationsByContextId[c].client,
            theApplicationsByContextId[c].app>> \in AddressAppKey
      /\ <<Empty, theApplicationsByContextId[c].app>> \in AddressAppKey
  BY <1>1 DEF AddressAppKey
<1> QED
  BY <1>2, <1>3 DEF routeOf, find, using

(* Patching the contexts that seem to have moved brings every recorded     *)
(* edge router up to date, given that all were before the change: although *)
(* all of them are given the same one.                                     *)
LEMMA AssociateRoutes ==
  ASSUME TypeOK, RoutesCurrent,
         NEW t \in Thread, NEW a \in Address \cup {Empty}, NEW n \in AppName,
         NEW r \in Router, associateAddress(t, a, n, r)
  PROVE  RoutesCurrent'
<1> DEFINE table  == [theTable EXCEPT ![<<a, n>>] = r]
           router == [c \in moved(table, n) |-> r]
<1>1. /\ Rerouted(n, table, router)
      /\ unrouted(table, n) = {}
  BY AssociateEffect DEF associateAddress
<1>2. r # Nil
  BY NilAssumption
<1>3. ASSUME NEW c \in ContextId, live(c)
      PROVE  theApplicationsByContextId'[c].edgeRouter =
               IF routeOf(table, c) = Nil THEN Empty ELSE routeOf(table, c)
  <2>1. theApplicationsByContextId[c].edgeRouter =
          IF routeOf(theTable, c) = Nil THEN Empty ELSE routeOf(theTable, c)
    BY <1>3, RoutesAsLookup
  <2>2. /\ c \notin using(n) => routeOf(table, c) = routeOf(theTable, c)
        /\ routeOf(table, c) \in {r, routeOf(theTable, c)}
    BY <1>2, <1>3, RouteAfterChange
  <2>3. /\ c \in moved(table, n) =>
             theApplicationsByContextId'[c].edgeRouter = r
        /\ c \notin moved(table, n) =>
             theApplicationsByContextId'[c].edgeRouter =
               theApplicationsByContextId[c].edgeRouter
    BY <1>1, <1>3 DEF Rerouted
  <2>4. CASE c \notin using(n)
    BY <2>1, <2>2, <2>3, <2>4 DEF moved
  <2>5. CASE c \in using(n)
    <3>1. routeOf(table, c) # Nil
      BY <1>1, <2>5 DEF unrouted
    <3> HIDE DEF table
    <3> QED  BY <2>1, <2>2, <2>3, <2>5, <3>1 DEF moved
  <2> QED  BY <2>4, <2>5
<1> HIDE DEF table, router
<1> QED
  BY <1>1, <1>3, LookupAsRoutes

(* A removal leaves every context with its route.                          *)
LEMMA RemoveRoutes ==
  ASSUME TypeOK, RoutesCurrent,
         NEW t \in Thread, NEW a \in Address \cup {Empty}, NEW n \in AppName,
         removeAddress(t, a, n)
  PROVE  RoutesCurrent'
<1> DEFINE table  == [theTable EXCEPT ![<<a, n>>] = Nil]
           router == [c \in moved(table, n) |->
                        IF c \in unrouted(table, n) THEN Empty
                        ELSE routeOf(table, c)]
<1>1. Rerouted(n, table, router)
  BY RemoveEffect
<1>2. ASSUME NEW c \in ContextId, live(c)
      PROVE  theApplicationsByContextId'[c].edgeRouter =
               IF routeOf(table, c) = Nil THEN Empty ELSE routeOf(table, c)
  <2>1. theApplicationsByContextId[c].edgeRouter =
          IF routeOf(theTable, c) = Nil THEN Empty ELSE routeOf(theTable, c)
    BY <1>2, RoutesAsLookup
  <2>2. c \notin using(n) => routeOf(table, c) = routeOf(theTable, c)
    BY <1>2, RouteAfterChange
  <2>3. /\ c \in moved(table, n) =>
             theApplicationsByContextId'[c].edgeRouter = router[c]
        /\ c \notin moved(table, n) =>
             theApplicationsByContextId'[c].edgeRouter =
               theApplicationsByContextId[c].edgeRouter
    BY <1>1, <1>2 DEF Rerouted
  <2>4. theApplicationsByContextId[c].edgeRouter \in Router \cup {Empty}
    BY <1>2, LiveContext DEF Desc
  <2>5. CASE c \notin using(n)
    BY <2>1, <2>2, <2>3, <2>5 DEF moved
  <2>6. CASE c \in moved(table, n)
    <3>1. c \in using(n)
      BY <2>6 DEF moved
    <3> QED  BY <2>3, <2>6, <3>1 DEF unrouted
  <2>7. CASE c \in using(n) /\ c \notin moved(table, n)
    <3>1. routeOf(table, c) = theApplicationsByContextId[c].edgeRouter
      BY <2>7 DEF moved
    <3> HIDE DEF table, router
    <3> QED  BY <2>3, <2>4, <2>7, <3>1, NilAssumption
  <2> QED  BY <2>5, <2>6, <2>7
<1> HIDE DEF table, router
<1> QED
  BY <1>1, <1>2, LookupAsRoutes

(* No step lets a recorded edge router fall behind the table.              *)
LEMMA RoutesStep ==
  ASSUME TypeOK, IteratorsValid, RoutesCurrent, [Next]_vars
  PROVE  RoutesCurrent'
<1>1. CASE UNCHANGED <<theTable, contextVars>>
  BY <1>1 DEF contextVars, RoutesCurrent, live
<1>2. ASSUME NEW a \in Address, NEW x \in AppInfo, NEW u \in UeAppId,
             NEW cb \in Callback \cup {Empty}, NEW c \in ContextId,
             createContext(a, x, u, cb, c)
      PROVE  RoutesCurrent'
  <2>1. /\ theTable' = theTable
        /\ theApplicationsByContextId'[c].client = a
        /\ theApplicationsByContextId'[c].app = x.appName
        /\ theApplicationsByContextId'[c].edgeRouter =
             find(theTable, a, x.appName)
        /\ find(theTable, a, x.appName) \in Router
        /\ \A d \in ContextId \ {c} :
             theApplicationsByContextId'[d] = theApplicationsByContextId[d]
    BY <1>2, CreateEffect
  <2> QED
    BY <2>1, NilAssumption DEF RoutesCurrent, live, find
<1>3. ASSUME NEW u \in UeAppId, NEW cb \in Callback \cup {Empty},
             updateContext(u, cb)
      PROVE  RoutesCurrent'
  BY <1>3, UpdateEffect DEF RoutesCurrent
<1>4. ASSUME NEW c \in ContextId, live(c), erase(c), UNCHANGED theTable
      PROVE  RoutesCurrent'
  <2>1. \A d \in ContextId :
          theApplicationsByContextId'[d] =
            IF d = c THEN Nil ELSE theApplicationsByContextId[d]
    BY <1>4 DEF erase, TypeOK
  <2> QED  BY <1>4, <2>1 DEF RoutesCurrent, live
<1> QED
  BY <1>1, <1>2, <1>3, <1>4, AssociateRoutes, RemoveRoutes, ContextSteps

-----------------------------------------------------------------------------

(* The inductive invariant.  The types need the iterators to be valid, and *)
(* the routes need both.                                                   *)
IInv == TypeOK /\ IteratorsValid /\ EveryContextIndexed /\ RoutesCurrent

(* The initial state, with nothing registered, routed or granted.          *)
LEMMA InitIInv == Init => IInv
<1> SUFFICES ASSUME Init PROVE IInv
  OBVIOUS
<1>1. TypeOK
  BY DEF Init, AppsInit, TypeOK, AppsTypeOK, Failure
<1> QED
  BY <1>1 DEF Init, IInv, IteratorsValid, EveryContextIndexed, RoutesCurrent,
              live

(* Each step of either build preserves it.                                 *)
LEMMA NextIInv == IInv /\ [Next]_vars => IInv'
BY TypeStep, IteratorsStep, IndexedStep, RoutesStep DEF IInv

(* In every reachable state of the proxy the inductive invariant holds.    *)
LEMMA Inductive == Spec => []IInv
BY InitIInv, NextIInv, PTL DEF Spec

(* Type correctness of the proxy: it never records end() as an edge router *)
(* nor queues a notification of no route, and never creates a context      *)
(* through the index.                                                      *)
THEOREM TypeCorrect == Spec => []TypeOK
BY Inductive, PTL DEF IInv

(* The edge router of every context, as contexts() shows it and clients    *)
(* were told it, is the most specific entry of the table at all times.     *)
THEOREM RoutesAlwaysCurrent == Spec => []RoutesCurrent
BY Inductive, PTL DEF IInv

(* updateContext never dereferences a dangling iterator, in either build,  *)
(* even when several contexts share a UE application id.                   *)
THEOREM IteratorsAlwaysValid == Spec => []IteratorsValid
BY Inductive, PTL DEF IInv

(* In the debug build each context is indexed by its own UE application    *)
(* id, so the assertions of deleteContext and purge on the index hold.     *)
THEOREM AlwaysIndexed == Spec => []EveryContextIndexed
BY Inductive, PTL DEF IInv

-----------------------------------------------------------------------------

(* The steps that announce nothing keep the edge router of every context   *)
(* that survives them.                                                     *)
QuietStep ==
  /\ \A t \in Thread : pending(t)' \subseteq pending(t)
  /\ \A c \in ContextId : live(c)' =>
       \/ /\ live(c)
          /\ theApplicationsByContextId'[c].edgeRouter =
               theApplicationsByContextId[c].edgeRouter
       \/ fresh(c)

(* Every step but a change of the table is such a step.                    *)
LEMMA QuietOrChange ==
  ASSUME TypeOK, IteratorsValid, [Next]_vars
  PROVE  \/ QuietStep
         \/ \E t \in Thread, a \in Address \cup {Empty}, n \in AppName :
              \/ \E r \in Router : associateAddress(t, a, n, r)
              \/ removeAddress(t, a, n)
<1>1. ASSUME UNCHANGED <<contextVars, notifyVars>>
      PROVE  QuietStep
  BY <1>1 DEF contextVars, notifyVars, QuietStep, pending, live
<1>2. ASSUME NEW why, die(why)
      PROVE  QuietStep
  BY <1>1, <1>2 DEF die
<1>3. ASSUME NEW c \in ContextId, erase(c),
             \A t \in Thread : pending(t)' \subseteq pending(t)
      PROVE  QuietStep
  <2>1. \A d \in ContextId :
          theApplicationsByContextId'[d] =
            IF d = c THEN Nil ELSE theApplicationsByContextId[d]
    BY <1>3 DEF erase, TypeOK
  <2> QED  BY <1>3, <2>1 DEF QuietStep, live
<1>4. CASE UNCHANGED vars
  BY <1>1, <1>4 DEF vars
<1>5. CASE changeApps
  BY <1>1, <1>5 DEF changeApps
<1>6. CASE serveContext
  <2>1. ASSUME NEW a \in Address, NEW x \in AppInfo, NEW u \in UeAppId,
               NEW cb \in Callback \cup {Empty}, NEW c \in ContextId,
               createContext(a, x, u, cb, c)
        PROVE  QuietStep
    <3>1. \A t \in Thread : pending(t)' = pending(t)
      BY <2>1 DEF createContext, notifyVars, pending
    <3>2. fresh(c)
      BY <2>1 DEF createContext
    <3>3. \A d \in ContextId \ {c} :
            theApplicationsByContextId'[d] = theApplicationsByContextId[d]
      BY <2>1, CreateEffect
    <3> QED  BY <3>1, <3>2, <3>3 DEF QuietStep, live
  <2>2. ASSUME NEW u \in UeAppId, NEW cb \in Callback \cup {Empty},
               updateContext(u, cb)
        PROVE  QuietStep
    <3>1. \A t \in Thread : pending(t)' = pending(t)
      BY <2>2 DEF updateContext, notifyVars, pending
    <3> QED  BY <2>2, <3>1, UpdateEffect DEF QuietStep
  <2>3. ASSUME NEW c \in ContextId, deleteContext(c)
        PROVE  QuietStep
    <3>1. \A t \in Thread : pending(t)' = pending(t)
      BY <2>3 DEF deleteContext, notifyVars, pending
    <3> QED  BY <1>3, <2>3, <3>1 DEF deleteContext
  <2> QED
    BY <1>2, <1>6, <2>1, <2>2, <2>3
       DEF serveContext, createContext_Duplicate, deleteContext_NotIndexed
<1>7. ASSUME NEW t \in Thread, notifyClients(t)
      PROVE  QuietStep
  <2>1. ASSUME NEW m \in toNotify[t],
               skipNotification(t, m) \/ postNotification(t, m)
        PROVE  QuietStep
    <3>1. \A s \in Thread : pending(s)' \subseteq pending(s)
      BY <2>1 DEF skipNotification, postNotification, pending, TypeOK
    <3> QED
      BY <2>1, <3>1
         DEF skipNotification, postNotification, contextVars, QuietStep, live
  <2>2. ASSUME answerRefused(t) \/ answerAccepted(t) \/ postFailed(t)
        PROVE  QuietStep
    <3>1. \A s \in Thread : pending(s)' \subseteq pending(s)
      BY <2>2 DEF answerRefused, answerAccepted, postFailed, forget, pending,
                  TypeOK
    <3>2. CASE UNCHANGED contextVars
      BY <3>1, <3>2 DEF contextVars, QuietStep, live
    <3>3. CASE answerRefused(t) /\ erase(posting[t].contextId)
      <4>1. posting[t].contextId \in ContextId
        BY <3>3 DEF answerRefused, TypeOK, Notification
      <4> QED  BY <1>3, <3>1, <3>3, <4>1
    <3> QED
      BY <2>2, <3>2, <3>3 DEF answerRefused, purge, answerAccepted, postFailed, forget
  <2> QED
    BY <1>2, <1>7, <2>1, <2>2 DEF notifyClients, skipNotification_Empty
<1>8. ASSUME NEW t \in Thread, changeTable(t)
      PROVE  \/ QuietStep
             \/ \E a \in Address \cup {Empty}, n \in AppName :
                  \/ \E r \in Router : associateAddress(t, a, n, r)
                  \/ removeAddress(t, a, n)
  BY <1>2, <1>8 DEF changeTable, associateAddress_Unrouted, notifyClients_Locked
<1> QED
  BY <1>4, <1>5, <1>6, <1>7, <1>8 DEF Next

(* What a change of the table by thread t announces: to the owner of each  *)
(* context in cs, the edge router that the context records from now on.    *)
Announced(t, cs) ==
  /\ pending(t) = {}
  /\ pending(t)' = {notificationTo(c, theApplicationsByContextId'[c].edgeRouter)
                      : c \in cs}
  /\ \A s \in Thread \ {t} : pending(s)' = pending(s)
  /\ \A c \in cs : c \in ContextId /\ live(c)
  /\ \A c \in ContextId : live(c) /\ live(c)' =>
       /\ c \in cs <=> theApplicationsByContextId'[c].edgeRouter \notin
                         {theApplicationsByContextId[c].edgeRouter, Empty}

(* Both kinds of change announce exactly the contexts that moved to        *)
(* another edge router.                                                    *)
LEMMA AssociateAnnounces ==
  ASSUME TypeOK, RoutesCurrent,
         NEW t \in Thread, NEW a \in Address \cup {Empty}, NEW n \in AppName,
         NEW r \in Router, associateAddress(t, a, n, r)
  PROVE  Announced(t, moved([theTable EXCEPT ![<<a, n>>] = r], n))
<1> DEFINE table == [theTable EXCEPT ![<<a, n>>] = r]
           cs    == moved(table, n)
<1>1. /\ Rerouted(n, table, [c \in cs |-> r])
      /\ unrouted(table, n) = {}
  BY AssociateEffect DEF associateAddress
<1>2. pending(t) = {} /\ posting[t] = Nil
  BY DEF associateAddress, idle, pending
<1>3. toNotify' = [toNotify EXCEPT ![t] = {notificationTo(c, r) : c \in cs}]
  BY DEF associateAddress
<1>4. posting' = posting
  BY DEF associateAddress
<1>5. ASSUME NEW c \in cs
      PROVE  /\ c \in ContextId /\ live(c) /\ c \in using(n)
             /\ theApplicationsByContextId'[c].edgeRouter = r
             /\ routeOf(table, c) # theApplicationsByContextId[c].edgeRouter
  <2>1. /\ c \in ContextId /\ live(c) /\ c \in using(n)
        /\ routeOf(table, c) # theApplicationsByContextId[c].edgeRouter
    BY DEF moved, using
  <2> QED  BY <1>1, <2>1 DEF Rerouted
<1> HIDE DEF table, cs
<1>6. pending(t)' =
        {notificationTo(c, theApplicationsByContextId'[c].edgeRouter) : c \in cs}
  <2>1. pending(t)' = {notificationTo(c, r) : c \in cs}
    BY <1>2, <1>3, <1>4 DEF pending, TypeOK
  <2> QED  BY <1>5, <2>1
<1>7. \A s \in Thread \ {t} : pending(s)' = pending(s)
  BY <1>3, <1>4 DEF pending, TypeOK
<1>8. ASSUME NEW c \in ContextId, live(c), c \in cs
      PROVE  theApplicationsByContextId'[c].edgeRouter \notin
               {theApplicationsByContextId[c].edgeRouter, Empty}
  <2>1. theApplicationsByContextId[c].edgeRouter =
          IF routeOf(theTable, c) = Nil THEN Empty ELSE routeOf(theTable, c)
    BY <1>8, RoutesAsLookup
  <2>2. routeOf(table, c) \in {r, routeOf(theTable, c)}
    BY <1>8, RouteAfterChange, NilAssumption DEF table
  <2>3. routeOf(table, c) # Nil
    BY <1>1, <1>5, <1>8 DEF unrouted
  <2> QED  BY <1>5, <1>8, <2>1, <2>2, <2>3, StringAssumption
<1>9. ASSUME NEW c \in ContextId, live(c), c \notin cs
      PROVE  theApplicationsByContextId'[c].edgeRouter =
               theApplicationsByContextId[c].edgeRouter
  BY <1>1, <1>9 DEF Rerouted, cs
<1>10. Announced(t, cs)
  BY <1>2, <1>5, <1>6, <1>7, <1>8, <1>9 DEF Announced
<1> QED  BY <1>10 DEF cs, table

(* A removal announces the new routes, and only these.                     *)
LEMMA RemoveAnnounces ==
  ASSUME TypeOK,
         NEW t \in Thread, NEW a \in Address \cup {Empty}, NEW n \in AppName,
         removeAddress(t, a, n)
  PROVE  LET table == [theTable EXCEPT ![<<a, n>>] = Nil]
         IN  Announced(t, moved(table, n) \ unrouted(table, n))
<1> DEFINE table  == [theTable EXCEPT ![<<a, n>>] = Nil]
           lost   == unrouted(table, n)
           cs     == moved(table, n) \ lost
           router == [c \in moved(table, n) |->
                        IF c \in lost THEN Empty ELSE routeOf(table, c)]
<1>1. /\ Rerouted(n, table, router)
      /\ \A c \in cs : routeOf(table, c) \in Router
  BY RemoveEffect
<1>2. pending(t) = {} /\ posting[t] = Nil
  BY DEF removeAddress, idle, pending
<1>3. toNotify' = [toNotify EXCEPT ![t] =
                     {notificationTo(c, routeOf(table, c)) : c \in cs}]
  BY DEF removeAddress
<1>4. posting' = posting
  BY DEF removeAddress
<1>5. ASSUME NEW c \in moved(table, n)
      PROVE  /\ c \in ContextId /\ live(c)
             /\ theApplicationsByContextId'[c].edgeRouter =
                  IF c \in lost THEN Empty ELSE routeOf(table, c)
             /\ routeOf(table, c) # theApplicationsByContextId[c].edgeRouter
  <2>1. /\ c \in ContextId /\ live(c)
        /\ routeOf(table, c) # theApplicationsByContextId[c].edgeRouter
    BY DEF moved, using
  <2> QED  BY <1>1, <2>1 DEF Rerouted
<1>6. ASSUME NEW c \in ContextId, live(c), c \notin moved(table, n)
      PROVE  theApplicationsByContextId'[c].edgeRouter =
               theApplicationsByContextId[c].edgeRouter
  BY <1>1, <1>6 DEF Rerouted
<1>7. cs = moved(table, n) \ lost
  OBVIOUS
<1> HIDE DEF table, lost, cs
<1>8. pending(t)' =
        {notificationTo(c, theApplicationsByContextId'[c].edgeRouter) : c \in cs}
  <2>1. pending(t)' = {notificationTo(c, routeOf(table, c)) : c \in cs}
    BY <1>2, <1>3, <1>4 DEF pending, TypeOK
  <2>2. \A c \in cs :
          theApplicationsByContextId'[c].edgeRouter = routeOf(table, c)
    BY <1>5, <1>7
  <2> QED  BY <2>1, <2>2
<1>9. \A s \in Thread \ {t} : pending(s)' = pending(s)
  BY <1>3, <1>4 DEF pending, TypeOK
<1>10. Announced(t, cs)
  BY <1>1, <1>2, <1>5, <1>6, <1>7, <1>8, <1>9, StringAssumption DEF Announced
<1> QED  BY <1>10 DEF cs, lost, table

(* The three kinds of step, seen by those who are notified.                *)
LEMMA QuietOrAnnounced ==
  ASSUME IInv, [Next]_vars
  PROVE  \/ QuietStep
         \/ \E t \in Thread : \E cs : Announced(t, cs)
BY QuietOrChange, AssociateAnnounces, RemoveAnnounces DEF IInv

(* A thread's notifications stay true of the contexts they are about while *)
(* no other thread changes the table.                                      *)
LEMMA PendingStep ==
  ASSUME IInv, PendingIsCurrent, [Next]_vars
  PROVE  PendingIsCurrent'
<1> SUFFICES ASSUME NEW t \in Thread, Thread = {t},
                    NEW m \in pending(t)', live(m.contextId)'
             PROVE  theApplicationsByContextId'[m.contextId].edgeRouter = m.uri
  BY DEF PendingIsCurrent
<1>1. CASE QuietStep
  <2>1. m \in pending(t)
    BY <1>1 DEF QuietStep
  <2>2. m.contextId \in ContextId /\ ~fresh(m.contextId)
    BY <2>1 DEF fresh, pending, IInv, TypeOK, Notification
  <2> QED
    BY <1>1, <2>1, <2>2 DEF QuietStep, PendingIsCurrent
<1>2. ASSUME NEW s \in Thread, NEW cs, Announced(s, cs)
      PROVE  theApplicationsByContextId'[m.contextId].edgeRouter = m.uri
  BY <1>2 DEF Announced, notificationTo
<1> QED
  BY <1>1, <1>2, QuietOrAnnounced

(* With one thread changing the table, no owner is ever sent an edge       *)
(* router that is not, at that moment, the one recorded for its context.   *)
THEOREM PendingAlwaysCurrent == Spec => []PendingIsCurrent
<1>1. Init => PendingIsCurrent
  BY DEF Init, PendingIsCurrent, pending
<1>2. IInv /\ PendingIsCurrent /\ [Next]_vars => PendingIsCurrent'
  BY PendingStep
<1> QED
  BY <1>1, <1>2, Inductive, PTL DEF Spec

(* Every context that moves to another edge router has exactly one         *)
(* notification of it queued, in the same step, and no other does.         *)
THEOREM MovedAlwaysNotified == Spec => MovedMeansNotified
<1>1. ASSUME IInv, [Next]_vars, NEW c \in ContextId, live(c), live(c)'
      PROVE  LET old  == theApplicationsByContextId[c]
                 new  == theApplicationsByContextId'[c]
                 msgs == UNION {{<<t, m>> : m \in pending(t)' \ pending(t)} :
                                  t \in Thread}
                 mine == {tm \in msgs : tm[2].contextId = c}
             IN  IF new.edgeRouter \in {old.edgeRouter, Empty}
                 THEN mine = {}
                 ELSE \E t \in Thread :
                        mine = {<<t, [callback  |-> old.callback,
                                      uri       |-> new.edgeRouter,
                                      contextId |-> c]>>}
  <2> DEFINE old  == theApplicationsByContextId[c]
             new  == theApplicationsByContextId'[c]
             msgs == UNION {{<<t, m>> : m \in pending(t)' \ pending(t)} :
                              t \in Thread}
             mine == {tm \in msgs : tm[2].contextId = c}
  <2>1. CASE QuietStep
    <3>1. new.edgeRouter = old.edgeRouter
      BY <1>1, <2>1 DEF QuietStep, fresh
    <3>2. msgs = {}
      BY <2>1 DEF QuietStep
    <3> QED  BY <3>1, <3>2
  <2>2. ASSUME NEW t \in Thread, NEW cs, Announced(t, cs)
        PROVE  IF new.edgeRouter \in {old.edgeRouter, Empty}
               THEN mine = {}
               ELSE mine = {<<t, notificationTo(c, new.edgeRouter)>>}
    <3>1. msgs = {<<t, m>> : m \in
             {notificationTo(d, theApplicationsByContextId'[d].edgeRouter)
                : d \in cs}}
      BY <2>2 DEF Announced
    <3>2. \A d, r : notificationTo(d, r).contextId = d
      BY DEF notificationTo
    <3>3. mine = {<<t, notificationTo(d, theApplicationsByContextId'[d].edgeRouter)>>
                    : d \in cs \cap {c}}
      BY <3>1, <3>2
    <3>4. c \in cs <=> new.edgeRouter \notin {old.edgeRouter, Empty}
      BY <1>1, <2>2 DEF Announced
    <3> HIDE DEF mine, msgs
    <3> QED  BY <3>3, <3>4
  <2> QED
    BY <1>1, <2>1, <2>2, QuietOrAnnounced DEF notificationTo
<1>2. IInv /\ [Next]_vars => [tellsOwners]_vars
  BY <1>1 DEF tellsOwners
<1> QED
  BY <1>2, Inductive, PTL DEF Spec, MovedMeansNotified

-----------------------------------------------------------------------------
(* The proxy implements the directory of contexts, as long as the          *)
(* separator of mangle is in no name and in no provider.  (A version may   *)
(* have it: the last of the three texts is told by what is left.)          *)

(* The text does not have the separator.                                   *)
Plain(s) == \A i \in DOMAIN s : s[i] # "+"

(* Neither names nor providers have it.                                    *)
PlainNames == \A x \in AppInfo : Plain(x.appName) /\ Plain(x.appProvider)

-----------------------------------------------------------------------------
(* The key of an application.                                              *)

(* Two texts joined by the separator, symbol by symbol.                    *)
LEMMA Joined ==
  ASSUME NEW S, "+" \in S, NEW s \in Seq(S), NEW p \in Seq(S)
  PROVE  LET k == s \o <<"+">> \o p
         IN  /\ k \in Seq(S) /\ Len(k) = Len(s) + 1 + Len(p)
             /\ \A i \in 1 .. Len(s) : k[i] = s[i]
             /\ k[Len(s) + 1] = "+"
             /\ \A i \in 1 .. Len(p) : k[Len(s) + 1 + i] = p[i]
             /\ k = s \o (<<"+">> \o p)
<1>1. <<"+">> \in Seq(S) /\ Len(<<"+">>) = 1 /\ <<"+">>[1] = "+"
  OBVIOUS
<1> DEFINE plus == <<"+">>
           h == s \o plus
           k == h \o p
<1> HIDE DEF plus
<1>2. plus \in Seq(S) /\ Len(plus) = 1 /\ plus[1] = "+"
  BY <1>1 DEF plus
<1>3. /\ h \in Seq(S) /\ Len(h) = Len(s) + 1
      /\ \A i \in 1 .. Len(s) + 1 : h[i] = IF i <= Len(s) THEN s[i]
                                           ELSE plus[i - Len(s)]
  <2>1. /\ h \in Seq(S) /\ Len(h) = Len(s) + Len(plus)
        /\ \A i \in 1 .. Len(s) + Len(plus) :
             h[i] = IF i <= Len(s) THEN s[i] ELSE plus[i - Len(s)]
    BY <1>2, ConcatProperties
  <2> QED  BY <1>2, <2>1
<1>4. k = s \o (plus \o p)
  BY <1>2, ConcatAssociative
<1> HIDE DEF h
<1>5. /\ k \in Seq(S) /\ Len(k) = Len(h) + Len(p)
      /\ \A i \in 1 .. Len(h) + Len(p) : k[i] = IF i <= Len(h) THEN h[i]
                                                ELSE p[i - Len(h)]
  <2>1. h \in Seq(S) /\ p \in Seq(S)
    BY <1>3
  <2> QED  BY <2>1, ConcatProperties
<1> HIDE DEF k
<1>6. Len(s) \in Nat /\ Len(p) \in Nat
  OBVIOUS
<1>7. \A i \in 1 .. Len(s) : k[i] = s[i]
  BY <1>3, <1>5, <1>6
<1>8. k[Len(s) + 1] = "+"
  BY <1>2, <1>3, <1>5, <1>6
<1>9. \A i \in 1 .. Len(p) : k[Len(s) + 1 + i] = p[i]
  BY <1>3, <1>5, <1>6
<1> QED  BY <1>3, <1>4, <1>5, <1>7, <1>8, <1>9 DEF h, k, plus

(* The first separator tells where the first text ends, if it has none.    *)
LEMMA SplitPlus ==
  ASSUME NEW S, "+" \in S, NEW s \in Seq(S), NEW t \in Seq(S),
         NEW p \in Seq(S), NEW q \in Seq(S),
         Plain(s), Plain(t), s \o <<"+">> \o p = t \o <<"+">> \o q
  PROVE  s = t /\ p = q
<1> DEFINE k == s \o <<"+">> \o p
<1>1. /\ k \in Seq(S) /\ Len(k) = Len(s) + 1 + Len(p)
      /\ \A i \in 1 .. Len(s) : k[i] = s[i]
      /\ k[Len(s) + 1] = "+"
      /\ \A i \in 1 .. Len(p) : k[Len(s) + 1 + i] = p[i]
  BY Joined
<1>2. /\ Len(k) = Len(t) + 1 + Len(q)
      /\ \A i \in 1 .. Len(t) : k[i] = t[i]
      /\ k[Len(t) + 1] = "+"
      /\ \A i \in 1 .. Len(q) : k[Len(t) + 1 + i] = q[i]
  <2> DEFINE j == t \o <<"+">> \o q
  <2>1. /\ Len(j) = Len(t) + 1 + Len(q)
        /\ \A i \in 1 .. Len(t) : j[i] = t[i]
        /\ j[Len(t) + 1] = "+"
        /\ \A i \in 1 .. Len(q) : j[Len(t) + 1 + i] = q[i]
    BY Joined
  <2>2. k = j
    OBVIOUS
  <2> HIDE DEF k, j
  <2> QED  BY <2>1, <2>2
<1> HIDE DEF k
<1>3. Len(s) \in Nat /\ Len(t) \in Nat /\ Len(p) \in Nat /\ Len(q) \in Nat
  OBVIOUS
<1>4. /\ \A i \in 1 .. Len(s) : s[i] # "+"
      /\ \A i \in 1 .. Len(t) : t[i] # "+"
  BY DEF Plain
<1>5. Len(s) = Len(t)
  <2>1. ASSUME Len(s) < Len(t)
        PROVE  FALSE
    <3>1. Len(s) + 1 \in 1 .. Len(t)
      BY <1>3, <2>1
    <3> QED  BY <1>1, <1>2, <1>4, <3>1
  <2>2. ASSUME Len(t) < Len(s)
        PROVE  FALSE
    <3>1. Len(t) + 1 \in 1 .. Len(s)
      BY <1>3, <2>2
    <3> QED  BY <1>1, <1>2, <1>4, <3>1
  <2> QED  BY <1>3, <2>1, <2>2
<1>6. Len(p) = Len(q)
  BY <1>1, <1>2, <1>3, <1>5
<1>7. s = t
  <2>1. \A i \in 1 .. Len(s) : s[i] = t[i]
    BY <1>1, <1>2, <1>5
  <2> QED  BY <1>5, <2>1, SeqEqual
<1>8. p = q
  <2>1. \A i \in 1 .. Len(p) : p[i] = q[i]
    BY <1>1, <1>2, <1>5, <1>6
  <2> QED  BY <1>6, <2>1, SeqEqual
<1> QED  BY <1>7, <1>8

(* Distinct applications have distinct keys.                               *)
LEMMA MangleInjective ==
  ASSUME NEW x \in AppInfo, NEW y \in AppInfo, mangle(x) = mangle(y),
         PlainNames
  PROVE  x = y
<1> DEFINE S == STRING \cup {"+"}
<1>1. "+" \in S /\ \A s \in Seq(STRING) : s \in Seq(S)
  OBVIOUS
<1>2. \A z \in AppInfo :
        /\ z.appName \in Seq(S) /\ z.appProvider \in Seq(S)
        /\ z.appSoftVersion \in Seq(S)
        /\ z = [appName        |-> z.appName,
                appProvider    |-> z.appProvider,
                appSoftVersion |-> z.appSoftVersion]
  BY <1>1, AppInfoAssumption
<1> HIDE DEF S
<1> DEFINE r(z) == z.appProvider \o <<"+">> \o z.appSoftVersion
<1>3. \A z \in AppInfo : r(z) \in Seq(S)
  BY <1>1, <1>2, Joined
<1>4. \A z \in AppInfo : mangle(z) = z.appName \o <<"+">> \o r(z)
  <2> SUFFICES ASSUME NEW z \in AppInfo
               PROVE  mangle(z) = z.appName \o <<"+">> \o r(z)
    OBVIOUS
  <2> DEFINE n == z.appName
             p == z.appProvider
             v == z.appSoftVersion
             plus == <<"+">>
  <2>1. n \in Seq(S) /\ p \in Seq(S) /\ v \in Seq(S)
        /\ plus \in Seq(S)
    BY <1>1, <1>2
  <2>2. mangle(z) = (((n \o plus) \o p) \o plus) \o v
    BY DEF mangle
  <2>3. (n \o plus) \o ((p \o plus) \o v) = n \o plus \o r(z)
    OBVIOUS
  <2> DEFINE a == n \o plus
             b == p \o plus
  <2> HIDE DEF n, p, v, plus, r
  <2>4. a \in Seq(S) /\ b \in Seq(S)
    BY <2>1, ConcatProperties
  <2>5. (a \o p) \o plus = a \o b
    <3> HIDE DEF a
    <3> QED  BY <2>1, <2>4, ConcatAssociative
  <2>6. (a \o b) \o v = a \o (b \o v)
    <3> HIDE DEF a, b
    <3>1. a \in Seq(S) /\ b \in Seq(S) /\ v \in Seq(S)
      BY <2>1, <2>4
    <3> QED  BY <3>1, ConcatAssociative
  <2>7. ((a \o p) \o plus) \o v = a \o (b \o v)
    BY <2>5, <2>6
  <2> QED  BY <2>2, <2>3, <2>7 DEF n, p, v, plus, r
<1> HIDE DEF r
<1>5. /\ Plain(x.appName) /\ Plain(x.appProvider)
      /\ Plain(y.appName) /\ Plain(y.appProvider)
  BY DEF PlainNames
<1>6. x.appName = y.appName /\ r(x) = r(y)
  <2>1. x.appName \o <<"+">> \o r(x) = y.appName \o <<"+">> \o r(y)
    BY <1>4
  <2> DEFINE m == x.appName
             n == y.appName
             p == r(x)
             q == r(y)
  <2>2. /\ m \in Seq(S) /\ n \in Seq(S) /\ p \in Seq(S) /\ q \in Seq(S)
        /\ Plain(m) /\ Plain(n) /\ m \o <<"+">> \o p = n \o <<"+">> \o q
    BY <1>2, <1>3, <1>5, <2>1
  <2> HIDE DEF m, n, p, q
  <2>3. m = n /\ p = q
    BY <1>1, <2>2, SplitPlus
  <2> QED  BY <2>3 DEF m, n, p, q
<1>7. x.appProvider = y.appProvider /\ x.appSoftVersion = y.appSoftVersion
  <2>1. x.appProvider \o <<"+">> \o x.appSoftVersion =
          y.appProvider \o <<"+">> \o y.appSoftVersion
    BY <1>6 DEF r
  <2> DEFINE p == x.appProvider
             q == y.appProvider
             v == x.appSoftVersion
             w == y.appSoftVersion
  <2>2. /\ p \in Seq(S) /\ q \in Seq(S) /\ v \in Seq(S) /\ w \in Seq(S)
        /\ Plain(p) /\ Plain(q) /\ p \o <<"+">> \o v = q \o <<"+">> \o w
    BY <1>2, <1>5, <2>1
  <2> HIDE DEF p, q, v, w
  <2>3. p = q /\ v = w
    BY <1>1, <2>2, SplitPlus
  <2> QED  BY <2>3 DEF p, q, v, w
<1> QED  BY <1>2, <1>6, <1>7

-----------------------------------------------------------------------------
(* The registry.                                                           *)

(* What is stored under the key of an application is that application.     *)
OwnKeys == \A x \in AppInfo : theApplications[mangle(x)] \in {Nil, x}

(* One entry at a time comes and goes.                                     *)
LEMMA AppsEffect ==
  ASSUME PlainNames, TypeOK, NEW x \in AppInfo, NEW new,
         theApplications' = [theApplications EXCEPT ![mangle(x)] = new]
  PROVE  /\ theApplications'[mangle(x)] = new
         /\ \A y \in AppInfo \ {x} :
              theApplications'[mangle(y)] = theApplications[mangle(y)]
<1>1. theApplications \in [AppKey -> AppInfo \cup {Nil}]
  BY DEF TypeOK, AppsTypeOK
<1>2. \A y \in AppInfo : mangle(y) \in AppKey
  BY DEF AppKey
<1>3. \A y \in AppInfo \ {x} : mangle(y) # mangle(x)
  BY MangleInjective
<1> QED  BY <1>1, <1>2, <1>3

(* So an application is stored under its own key only.                     *)
LEMMA OwnKeysStep ==
  ASSUME PlainNames, TypeOK, OwnKeys, [Next]_vars
  PROVE  OwnKeys'
<1>1. CASE UNCHANGED theApplications
  BY <1>1 DEF OwnKeys
<1>2. ASSUME NEW x \in AppInfo, addApp(x) \/ delApp(x)
      PROVE  OwnKeys'
  <2>1. PICK new \in {Nil, x} :
          theApplications' = [theApplications EXCEPT ![mangle(x)] = new]
    BY <1>2 DEF addApp, delApp
  <2> QED  BY <2>1, AppsEffect DEF OwnKeys
<1> QED  BY <1>1, <1>2, AppsSteps DEF AppsNext

(* exists() of the registry never answers for one application with the     *)
(* entry of another, if names and providers do not have the separator.     *)
THEOREM ExistsAlwaysListed ==
  ASSUME PlainNames
  PROVE  Spec => []ExistsMeansListed
<1>1. Init => OwnKeys
  <2>1. \A x \in AppInfo : mangle(x) \in AppKey
    BY DEF AppKey
  <2> QED  BY <2>1 DEF Init, AppsInit, OwnKeys
<1>2. IInv /\ OwnKeys /\ [Next]_vars => OwnKeys'
  BY OwnKeysStep DEF IInv
<1>3. OwnKeys => ExistsMeansListed
  BY DEF OwnKeys, ExistsMeansListed, exists, ApplicationList, AppKey
<1> QED  BY <1>1, <1>2, <1>3, Inductive, PTL DEF Spec

-----------------------------------------------------------------------------
(* The directory.                                                          *)

(* What the proxy has recorded is what the directory looks up.             *)
LEMMA Looked ==
  IInv => recorded =
    [c \in ContextId |->
       IF owners[c] = Nil THEN Nil
       ELSE Directory!mostSpecific(owners[c][1], owners[c][2])]
<1> SUFFICES ASSUME IInv, NEW c \in ContextId
             PROVE  recorded[c] =
                      IF owners[c] = Nil THEN Nil
                      ELSE Directory!mostSpecific(owners[c][1], owners[c][2])
  BY DEF recorded
<1>1. CASE ~live(c)
  BY <1>1 DEF recorded, owners
<1>2. CASE live(c)
  <2> DEFINE a == theApplicationsByContextId[c].client
             n == theApplicationsByContextId[c].app
  <2>1. a \in Address /\ n \in AppName
    BY <1>2, LiveContext DEF IInv, Desc
  <2>2. owners[c] = <<a, n>> /\ owners[c] # Nil
    BY <1>2, <2>1, NilAssumption DEF owners
  <2>3. find(theTable, a, n) \in Router \cup {Nil}
    BY <2>1, FindType DEF IInv, TypeOK
  <2>4. theApplicationsByContextId[c].edgeRouter =
          IF find(theTable, a, n) = Nil THEN Empty ELSE find(theTable, a, n)
    BY <1>2, RoutesAsLookup DEF IInv, routeOf
  <2>5. recorded[c] = find(theTable, a, n)
    BY <1>2, <2>3, <2>4, StringAssumption DEF recorded
  <2>6. Directory!mostSpecific(a, n) = find(theTable, a, n)
    BY DEF Directory!mostSpecific, find
  <2> QED  BY <2>2, <2>5, <2>6
<1> QED  BY <1>1, <1>2

(* So the edge routers are those of the new table after every step.        *)
LEMMA Refreshed == IInv' => Directory!refresh
<1>1. IInv' => (recorded =
        [c \in ContextId |->
           IF owners[c] = Nil THEN Nil
           ELSE Directory!mostSpecific(owners[c][1], owners[c][2])])'
  BY Looked, PTL
<1> QED  BY <1>1 DEF Directory!refresh

(* Contexts that keep their client and their application.                  *)
LEMMA SameOwners ==
  ASSUME \A c \in ContextId :
           /\ live(c)' <=> live(c)
           /\ live(c) => /\ theApplicationsByContextId'[c].client =
                              theApplicationsByContextId[c].client
                         /\ theApplicationsByContextId'[c].app =
                              theApplicationsByContextId[c].app
  PROVE  owners' = owners
BY DEF owners

(* What exists depends on the registry only.                               *)
LEMMA SameExisting ==
  ASSUME UNCHANGED theApplications
  PROVE  existing' = existing
BY DEF existing, exists

(* addApp and delApp register and unregister an application.               *)
LEMMA AppsRegister ==
  ASSUME PlainNames, IInv, OwnKeys, AppsNext,
         UNCHANGED <<theTable, contextVars>>
  PROVE  Directory!Register
<1>1. owners' = owners
  BY SameOwners DEF contextVars, live
<1>2. ASSUME NEW x \in AppInfo, addApp(x)
      PROVE  existing' = existing \cup {x}
  <2>1. /\ theApplications'[mangle(x)] = x
        /\ \A y \in AppInfo \ {x} :
             theApplications'[mangle(y)] = theApplications[mangle(y)]
    BY <1>2, AppsEffect DEF addApp, IInv
  <2>2. x # Nil
    BY AppInfoAssumption
  <2> QED  BY <2>1, <2>2 DEF existing, exists
<1>3. ASSUME NEW x \in AppInfo, delApp(x)
      PROVE  existing' = existing \ {x}
  <2>1. /\ theApplications'[mangle(x)] = Nil
        /\ \A y \in AppInfo \ {x} :
             theApplications'[mangle(y)] = theApplications[mangle(y)]
    BY <1>3, AppsEffect DEF delApp, IInv
  <2> QED  BY <2>1 DEF existing, exists
<1> QED
  BY <1>1, <1>2, <1>3 DEF AppsNext, Directory!Register

(* associateAddress and removeAddress change one route.                    *)
LEMMA RoutesReroute ==
  ASSUME IInv, NEW t \in Thread, NEW a \in Address \cup {Empty},
         NEW n \in AppName, NEW r \in Router \cup {Nil}, NEW router,
         Rerouted(n, [theTable EXCEPT ![<<a, n>>] = r], router),
         UNCHANGED theApplications
  PROVE  Directory!Reroute
<1>1. owners' = owners
  BY SameOwners DEF Rerouted
<1>2. theTable' = [theTable EXCEPT ![<<a, n>>] = r]
  BY DEF Rerouted
<1>3. n \in Directory!Name
  BY DEF Directory!Name, appNameOf, AppName
<1> QED  BY <1>1, <1>2, <1>3, SameExisting DEF Directory!Reroute

(* createContext grants.                                                   *)
LEMMA CreateGrants ==
  ASSUME IInv, NEW a \in Address, NEW x \in AppInfo, NEW u \in UeAppId,
         NEW cb \in Callback \cup {Empty}, NEW c \in ContextId,
         createContext(a, x, u, cb, c)
  PROVE  Directory!Grant(c, a, x)
<1>1. /\ ~live(c) /\ live(c)'
      /\ theApplicationsByContextId'[c].client = a
      /\ theApplicationsByContextId'[c].app = x.appName
      /\ \A d \in ContextId \ {c} :
           theApplicationsByContextId'[d] = theApplicationsByContextId[d]
  BY CreateEffect DEF IInv
<1>2. /\ exists(x) /\ find(theTable, a, x.appName) # Nil
      /\ UNCHANGED <<theApplications, theTable>>
  BY DEF createContext, admissible
<1>3. owners' = [owners EXCEPT ![c] = <<a, x.appName>>]
  BY <1>1 DEF owners, live
<1>4. owners[c] = Nil
  BY <1>1 DEF owners
<1>5. x \in existing
  BY <1>2 DEF existing
<1>6. Directory!mostSpecific(a, appNameOf(x)) # Nil
  BY <1>2 DEF Directory!mostSpecific, appNameOf, find
<1> QED
  BY <1>2, <1>3, <1>4, <1>5, <1>6, SameExisting
     DEF Directory!Grant, appNameOf

(* deleteContext, and the purge after a refused notification, end one.     *)
LEMMA EraseEnds ==
  ASSUME IInv, NEW c \in ContextId, live(c), erase(c),
         UNCHANGED <<theApplications, theTable>>
  PROVE  Directory!End(c)
<1>1. /\ theApplicationsByContextId[c].client \in Address
      /\ theApplicationsByContextId[c].app \in AppName
  BY LiveContext DEF IInv, Desc
<1>2. owners[c] # Nil
  BY <1>1, NilAssumption DEF owners
<1>3. /\ theApplicationsByContextId'[c] = Nil
      /\ \A d \in ContextId \ {c} :
           theApplicationsByContextId'[d] = theApplicationsByContextId[d]
  BY DEF erase, IInv, TypeOK
<1>4. owners' = [owners EXCEPT ![c] = Nil]
  <2>1. /\ owners'[c] = Nil
        /\ \A d \in ContextId \ {c} : owners'[d] = owners[d]
    BY <1>3 DEF owners, live
  <2>2. /\ owners = [d \in ContextId |-> owners[d]]
        /\ owners' = [d \in ContextId |-> owners'[d]]
    BY DEF owners
  <2> HIDE DEF owners
  <2> QED  BY <2>1, <2>2
<1> QED  BY <1>2, <1>4, SameExisting DEF Directory!End

(* Every step of the proxy is a step of the directory, or changes nothing  *)
(* in it.                                                                  *)
LEMMA DirectoryStep ==
  ASSUME PlainNames, IInv, IInv', OwnKeys, [Next]_vars
  PROVE  [Directory!Next]_(Directory!vars)
<1>1. Directory!refresh
  BY Refreshed
<1>2. ASSUME AppsNext, UNCHANGED <<theTable, contextVars>>
      PROVE  Directory!Next
  BY <1>1, <1>2, AppsRegister DEF Directory!Next
<1>3. ASSUME UNCHANGED <<theApplications, theTable>>, owners' = owners,
             recorded' = recorded
      PROVE  UNCHANGED Directory!vars
  BY <1>3, SameExisting DEF Directory!vars
<1>4. ASSUME UNCHANGED theApplications
      PROVE  [Directory!Next]_(Directory!vars)
  <2>1. CASE UNCHANGED <<theTable, contextVars>>
    BY <1>3, <1>4, <2>1 DEF contextVars, owners, recorded, live
  <2>2. ASSUME NEW t \in Thread, NEW a \in Address \cup {Empty},
               NEW n \in AppName, NEW r \in Router, associateAddress(t, a, n, r)
        PROVE  Directory!Next
    <3>1. PICK router :
            Rerouted(n, [theTable EXCEPT ![<<a, n>>] = r], router)
      BY <2>2, AssociateEffect DEF IInv
    <3> QED  BY <1>1, <1>4, <3>1, RoutesReroute DEF Directory!Next
  <2>3. ASSUME NEW t \in Thread, NEW a \in Address \cup {Empty},
               NEW n \in AppName, removeAddress(t, a, n)
        PROVE  Directory!Next
    <3>1. PICK router :
            Rerouted(n, [theTable EXCEPT ![<<a, n>>] = Nil], router)
      BY <2>3, RemoveEffect DEF IInv
    <3> QED  BY <1>1, <1>4, <3>1, RoutesReroute DEF Directory!Next
  <2>4. ASSUME NEW a \in Address, NEW x \in AppInfo, NEW u \in UeAppId,
               NEW cb \in Callback \cup {Empty}, NEW c \in ContextId,
               createContext(a, x, u, cb, c)
        PROVE  Directory!Next
    BY <1>1, <2>4, CreateGrants DEF Directory!Next
  <2>5. ASSUME NEW u \in UeAppId, NEW cb \in Callback \cup {Empty},
               updateContext(u, cb)
        PROVE  UNCHANGED Directory!vars
    <3>1. \A c \in ContextId :
            /\ live(c)' <=> live(c)
            /\ live(c) =>
                 /\ theApplicationsByContextId'[c].client =
                      theApplicationsByContextId[c].client
                 /\ theApplicationsByContextId'[c].app =
                      theApplicationsByContextId[c].app
                 /\ theApplicationsByContextId'[c].edgeRouter =
                      theApplicationsByContextId[c].edgeRouter
      BY <2>5, UpdateEffect DEF IInv
    <3>2. owners' = owners
      BY <3>1, SameOwners
    <3>3. recorded' = recorded
      BY <3>1 DEF recorded
    <3>4. UNCHANGED theTable
      BY <2>5 DEF updateContext
    <3> QED  BY <1>3, <1>4, <3>2, <3>3, <3>4
  <2>6. ASSUME NEW c \in ContextId, live(c), erase(c), UNCHANGED theTable
        PROVE  Directory!Next
    BY <1>1, <1>4, <2>6, EraseEnds DEF Directory!Next
  <2> QED
    BY <2>1, <2>2, <2>3, <2>4, <2>5, <2>6, ContextSteps DEF IInv
<1> QED  BY <1>2, <1>4, AppsSteps

(* An empty proxy is an empty directory.                                   *)
LEMMA InitDirectory ==
  ASSUME Init
  PROVE  Directory!Init /\ OwnKeys
<1>1. \A x \in AppInfo : mangle(x) \in AppKey
  BY DEF AppKey
<1>2. existing = {} /\ OwnKeys
  BY <1>1 DEF Init, AppsInit, OwnKeys, existing, exists
<1>3. \A c \in ContextId : ~live(c)
  BY DEF Init, live
<1>4. /\ owners = [c \in ContextId |-> Nil]
      /\ recorded = [c \in ContextId |-> Nil]
  BY <1>3 DEF owners, recorded
<1>5. theTable = [k \in (Address \cup {Empty}) \X Directory!Name |-> Nil]
  BY DEF Init, AddressAppKey, Directory!Name, appNameOf, AppName
<1> QED  BY <1>2, <1>4, <1>5 DEF Directory!Init

(* The end of the process is not an event of the directory.                *)
LEMMA DeadDirectory ==
  ASSUME OwnKeys, NEW why, die(why)
  PROVE  OwnKeys' /\ UNCHANGED Directory!vars
<1>1. UNCHANGED <<theApplications, theTable, theApplicationsByContextId>>
  BY DEF die, contextVars
<1>2. UNCHANGED <<existing, owners, recorded>>
  BY <1>1 DEF existing, exists, owners, recorded, live
<1>3. OwnKeys'
  BY <1>1 DEF OwnKeys
<1> QED BY <1>1, <1>2, <1>3 DEF Directory!vars

(* The proxy implements the directory: although associateAddress gives all *)
(* contexts it looks at its own argument and removeAddress patches the     *)
(* others, the edge router of every context is after each step the most    *)
(* specific match of the table, contexts are granted only for registered   *)
(* applications with a route, and nothing but a deletion or a refused      *)
(* notification ends one.                                                  *)
THEOREM ProxyImplementsDirectory ==
  ASSUME PlainNames
  PROVE  Spec => ImplementsDirectory
<1>1. Init => Directory!Init /\ OwnKeys
  BY InitDirectory
<1>2. IInv /\ OwnKeys /\ [Next]_vars => OwnKeys'
  BY OwnKeysStep DEF IInv
<1>3. IInv /\ IInv' /\ OwnKeys /\ [Next]_vars =>
        [Directory!Next]_(Directory!vars)
  BY DirectoryStep
<1> QED
  BY <1>1, <1>2, <1>3, Inductive, PTL
     DEF Spec, ImplementsDirectory, Directory!Spec
=============================================================================
