----------------------------- MODULE MCMx2System -----------------------------
(***************************************************************************)
(* Instances of Mx2System for TLC: one application, one manager.           *)
(***************************************************************************)
EXTENDS Mx2System, TLC

OneApp ==
  {[appName |-> <<"app">>, appProvider |-> <<"p">>, appSoftVersion |-> <<"1">>]}

Uri == <<"http:", "ue">>

AnyFaults == SUBSET {"loss", "crash"}

Callbacks == {Append(Uri, u) : u \in UeAppId}

SystemSymmetry ==
  Permutations(ContextId) \cup Permutations(Router) \cup Permutations(Thread)
    \cup Permutations(UeAppId)

=============================================================================
