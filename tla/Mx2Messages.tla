----------------------------- MODULE Mx2Messages -----------------------------
(***************************************************************************)
(* The JSON objects of the Mx2 interface (EtsiMec/appinfo, appcontext,     *)
(* appcharcs, applicationlist): which objects the constructors make and    *)
(* accept, which kind of message an object is taken for, and the           *)
(* conversions between the kinds.                                          *)
(*                                                                         *)
(* An object is a record with a field per key; Absent is a missing key and *)
(* Other a value that is not of the type the key should have.  A string is *)
(* told from others by being empty, or too long for its field.  A function *)
(* that throws returns Thrown.                                             *)
(***************************************************************************)
EXTENDS Common, Naturals

CONSTANTS
  Long,    \* the strings too long for the field they are in
  Absent, Other, Thrown

-----------------------------------------------------------------------------
(* The helpers of the absent REST library.                                 *)

isString(s) == s \notin {Absent, Other}

notEmpty(s) == isString(s) /\ s # Empty

notEmptyIfPresent(s) == s # Absent => notEmpty(s)

tooLong(s) == isString(s) /\ s \in Long

setIfNotEmpty(s) == IF s = Empty THEN Absent ELSE s

stringOrEmpty(s) == IF isString(s) THEN s ELSE Empty

-----------------------------------------------------------------------------
(* AppCharcs: five optional numbers; the last, serviceCont, is an          *)
(* enumerator.                                                             *)

Quantity == {"memory", "storage", "latency", "bandwidth"}

(* The constructor from numbers; every other one of AppInfo's is valid.    *)
AppCharcs(n, serviceCont) ==
  [k \in Quantity \cup {"serviceCont"} |->
     IF k = "serviceCont" THEN serviceCont ELSE n]

validCharcs(c) ==
  /\ \A k \in Quantity : c[k] # Other
  /\ c["serviceCont"] \in {Absent, 0, 1}

-----------------------------------------------------------------------------
(* AppInfo.                                                                *)

isObject(o) == o \notin {Absent, Other}

commonSetup(n, p, v, d) ==
  /\ n # Empty /\ p # Empty
  /\ \A s \in {n, p, v, d} : s \notin Long

(* The object the three constructors build; r is Absent or not empty, c is *)
(* Absent or an AppCharcs.                                                 *)
build(n, p, v, d, s, r, c) ==
  IF commonSetup(n, p, v, d)
  THEN [appName          |-> n,
        appProvider      |-> p,
        appSoftVersion   |-> setIfNotEmpty(v),
        appDescription   |-> setIfNotEmpty(d),
        appPackageSource |-> setIfNotEmpty(s),
        referenceURI     |-> r,
        appCharcs        |-> c]
  ELSE Thrown

AppInfoRequest(n, p, v, d, s) == build(n, p, v, d, s, Absent, Absent)

AppInfoResponse(n, p, v, d, r, s) ==
  IF r = Empty THEN Thrown ELSE build(n, p, v, d, s, r, Absent)

AppInfoListed(n, p, v, d, c) == build(n, p, v, d, Empty, Absent, c)

(* What the constructor from JSON accepts.                                 *)
validInfo(j) ==
  /\ notEmpty(j.appName) /\ notEmpty(j.appProvider)
  /\ \A s \in {j.appName, j.appProvider, j.appSoftVersion, j.appDescription} :
       ~tooLong(s)
  /\ ~(isString(j.referenceURI) /\ isObject(j.appCharcs))
  /\ j.referenceURI # Empty
  /\ isObject(j.appCharcs) => validCharcs(j.appCharcs)

message(j) ==
  IF isObject(j.appCharcs) THEN "ApplicationList"
  ELSE IF isString(j.referenceURI) THEN "AppContextResponse"
  ELSE "AppContextRequest"

referenceUri(j) ==
  IF message(j) = "AppContextResponse" THEN j.referenceURI ELSE Thrown

appSoftVersion(j)   == stringOrEmpty(j.appSoftVersion)
appDescription(j)   == stringOrEmpty(j.appDescription)
appPackageSource(j) == stringOrEmpty(j.appPackageSource)

(* A conversion that passes the arguments of the constructor in the order  *)
(* of the other one.                                                       *)
makeAppContextResponse_Swapped(j, r) ==
  IF message(j) # "AppContextRequest" \/ r = Empty THEN Thrown
  ELSE AppInfoResponse(j.appName, j.appProvider, appSoftVersion(j),
                       appDescription(j), appPackageSource(j), r)

makeAppContextResponse(j, r) ==
  IF message(j) # "AppContextRequest" \/ r = Empty THEN Thrown
  ELSE AppInfoResponse(j.appName, j.appProvider, appSoftVersion(j),
                       appDescription(j), r, appPackageSource(j))

(* A conversion that keeps the characteristics.                            *)
makeAppContextRequest_Kept(j, s) ==
  IF message(j) # "ApplicationList" THEN Thrown
  ELSE [j EXCEPT !.appPackageSource = setIfNotEmpty(s)]

makeAppContextRequest(j, s) ==
  IF message(j) # "ApplicationList" THEN Thrown
  ELSE AppInfoRequest(j.appName, j.appProvider, appSoftVersion(j),
                      appDescription(j), s)

(* The three names the registry and the table know an application by.      *)
appOf(j) == [appName        |-> j.appName,
             appProvider    |-> j.appProvider,
             appSoftVersion |-> appSoftVersion(j)]

-----------------------------------------------------------------------------
(* AppContext.                                                             *)

newContext(c, u, cb, info) ==
  [contextId         |-> setIfNotEmpty(c),
   associateUeAppId  |-> u,
   callbackReference |-> setIfNotEmpty(cb),
   appInfo           |-> info]

ContextRequest(u, cb, info) ==
  IF u = Empty \/ message(info) # "AppContextRequest" THEN Thrown
  ELSE newContext(Empty, u, cb, info)

ContextResponse(c, u, cb, info) ==
  IF c = Empty \/ u = Empty \/ message(info) # "AppContextResponse" THEN Thrown
  ELSE newContext(c, u, cb, info)

validContext(j) ==
  /\ notEmptyIfPresent(j.contextId) /\ notEmpty(j.associateUeAppId)
  /\ isObject(j.appInfo) /\ validInfo(j.appInfo)

callbackReference(j) == stringOrEmpty(j.callbackReference)

(* What type() asserts.                                                    *)
kindsAgree(j) ==
  IF isString(j.contextId) THEN message(j.appInfo) = "AppContextResponse"
                           ELSE message(j.appInfo) = "AppContextRequest"

type(j) == IF isString(j.contextId) THEN "Response" ELSE "Request"

makeResponse(j, c, r) ==
  IF type(j) # "Request" \/ c = Empty \/ r = Empty THEN Thrown
  ELSE LET info == makeAppContextResponse(j.appInfo, r)
       IN  IF info = Thrown THEN Thrown
           ELSE ContextResponse(c, j.associateUeAppId, callbackReference(j),
                                info)

-----------------------------------------------------------------------------
(* The answer to GET app_list, and what AppListClient makes of it.         *)

ApplicationListOf(infos) ==
  [ApplicationList |-> [appInfo |-> {infos[k] : k \in DOMAIN infos}]]

(* One application that is not accepted spoils the list.                   *)
readList(status, json) ==
  IF \/ status # "OK" \/ ~isObject(json.ApplicationList)
     \/ \E j \in json.ApplicationList.appInfo : ~validInfo(j)
  THEN Thrown ELSE json.ApplicationList.appInfo
=============================================================================
