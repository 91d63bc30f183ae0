------------------------ MODULE MCStaticUeAppLcmProxy ------------------------
(***************************************************************************)
(* Instances of StaticUeAppLcmProxy for TLC.                               *)
(***************************************************************************)
EXTENDS StaticUeAppLcmProxy, TLC

(* An application in two versions: the table does not tell them apart.     *)
TwoVersions ==
  {[appName |-> <<"app">>, appProvider |-> <<"p">>, appSoftVersion |-> <<v>>] :
     v \in {"1", "2"}}

OneVersion == {x \in TwoVersions : x.appSoftVersion = <<"1">>}

(* And another: a change of the routes of one leaves the other alone.      *)
TwoApplications ==
  TwoVersions \cup
    {[appName |-> <<"game">>, appProvider |-> <<"p">>, appSoftVersion |-> <<"1">>]}

(* Names such as "x" and "x+x", which hold the separator of mangle.        *)
NamesWithPlus ==
  LET names == {<<"x">>, <<"x", "+", "x">>}
  IN  [appName : names, appProvider : names, appSoftVersion : names]

Symmetry ==
  Permutations(ContextId) \cup Permutations(Router) \cup Permutations(Thread)
    \cup Permutations(UeAppId)
=============================================================================
