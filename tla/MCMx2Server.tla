----------------------------- MODULE MCMx2Server -----------------------------
(***************************************************************************)
(* Instances of Mx2Server for TLC: the bodies that the library itself      *)
(* makes, and those of every kind that another program may send.           *)
(***************************************************************************)
EXTENDS Mx2Server, TLC

OneApp ==
  {[appName |-> <<"app">>, appProvider |-> <<"p">>, appSoftVersion |-> <<"1">>]}

(* The kinds of application descriptions, among them with no name.         *)
Infos(r) ==
  LET x == [appName |-> <<"app">>, appProvider |-> <<"p">>,
            appSoftVersion |-> <<"1">>, appDescription |-> Absent,
            appPackageSource |-> Absent, referenceURI |-> Absent,
            appCharcs |-> Absent]
  IN  {x, [x EXCEPT !.appName = Empty], [x EXCEPT !.referenceURI = r],
       [x EXCEPT !.appCharcs = Msg!AppCharcs(0, 1)]}

Context(c, u, cb, info) ==
  [contextId |-> c, associateUeAppId |-> u, callbackReference |-> cb,
   appInfo |-> info]

AnyBody ==
  {Context(c, u, cb, info) :
     c \in {Absent} \cup ContextId, u \in UeAppId,
     cb \in {Absent} \cup Callback,
     info \in UNION {Infos(r) : r \in Router}}

ServerSymmetry ==
  Permutations(ContextId) \cup Permutations(Router) \cup Permutations(UeAppId)
    \cup Permutations(Thread)
=============================================================================
