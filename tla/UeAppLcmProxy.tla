---------------------------- MODULE UeAppLcmProxy ----------------------------
(***************************************************************************)
(* The base class of every LCM proxy (EtsiMec/ueapplcmproxy.{h,cpp}): the  *)
(* registry of the applications that contexts can be created for.          *)
(*                                                                         *)
(* The registry is a std::map from a mangled key to the AppInfo stored     *)
(* under it.  Its three operations hold the base class's own mutex for     *)
(* their whole body, so each is one atomic step.                           *)
(***************************************************************************)
EXTENDS Sequences

CONSTANTS
  AppInfo,  \* the application descriptors callers use: records of three
            \* strings, each a sequence of tokens
  Nil       \* what a lookup that found nothing returns (the end() iterator)

ASSUME AppInfoAssumption ==
  /\ AppInfo \subseteq [appName        : Seq(STRING),
                        appProvider    : Seq(STRING),
                        appSoftVersion : Seq(STRING)]
  /\ Nil \notin AppInfo

VARIABLE theApplications

-----------------------------------------------------------------------------

(* A mangling that forgets the version.                                    *)
mangle_NoVersion(x) == x.appName \o <<"+">> \o x.appProvider

(* The key an application is stored under.  The separator is an ordinary   *)
(* character of the three names.                                           *)
mangle(x) ==
  x.appName \o <<"+">> \o x.appProvider \o <<"+">> \o x.appSoftVersion

AppKey == {mangle(x) : x \in AppInfo}

AppName == {x.appName : x \in AppInfo}

(* Does an application with this key exist?                                *)
exists(x) == theApplications[mangle(x)] # Nil

(* The descriptors that GET app_list returns.                              *)
ApplicationList == {theApplications[k] : k \in AppKey} \ {Nil}

-----------------------------------------------------------------------------

AppsInit == theApplications = [k \in AppKey |-> Nil]

(* Add an application, or replace the one stored under the same key.       *)
addApp(x) == theApplications' = [theApplications EXCEPT ![mangle(x)] = x]

delApp(x) == theApplications' = [theApplications EXCEPT ![mangle(x)] = Nil]

AppsNext == \E x \in AppInfo : addApp(x) \/ delApp(x)

AppsSpec == AppsInit /\ [][AppsNext]_theApplications

-----------------------------------------------------------------------------

AppsTypeOK == theApplications \in [AppKey -> AppInfo \cup {Nil}]

(* An application that exists() answers for is one that GET app_list shows *)
(* with the same name, provider and version: the map never answers for one *)
(* application with the entry of another.  Creation of a context trusts    *)
(* exists(), device applications trust the list.                           *)
ExistsMeansListed == \A x \in AppInfo : exists(x) => x \in ApplicationList
=============================================================================
