--------------------------- MODULE ContextDirectory ---------------------------
(***************************************************************************)
(* What an LCM proxy with a static table promises to the clients and to    *)
(* the administrator (the class documentation of StaticUeAppLcmProxy):     *)
(* a context is granted only for a registered application and a client     *)
(* with a route; while it lives its edge router is the most specific       *)
(* match of the table as it is now; and changing routes or applications    *)
(* never ends a context.  Nothing is cached here: after each step the      *)
(* edge router of every context is looked up anew.                         *)
(***************************************************************************)
CONSTANTS
  Application,  \* what can be registered
  NameOf(_),    \* the name by which the table knows an application
  Client,       \* client addresses
  AnyClient,    \* the address that stands for every client
  EdgeRouter,   \* end-points of edge routers
  Context,      \* context ids
  Absent        \* no entry, no context, no edge router

Name == {NameOf(x) : x \in Application}

VARIABLES
  registered,  \* the applications that contexts can be created for
  routes,      \* <client, name> -> edge router, or Absent
  owner,       \* context -> <client, name>, or Absent
  router       \* context -> its edge router, or Absent

vars == <<registered, routes, owner, router>>

mostSpecific(a, n) ==
  IF routes[<<a, n>>] # Absent THEN routes[<<a, n>>]
                               ELSE routes[<<AnyClient, n>>]

refresh ==
  router' = [c \in Context |->
               IF owner'[c] = Absent THEN Absent
               ELSE mostSpecific(owner[c][1], owner[c][2])']

-----------------------------------------------------------------------------

Init ==
  /\ registered = {}
  /\ routes = [k \in (Client \cup {AnyClient}) \X Name |-> Absent]
  /\ owner  = [c \in Context |-> Absent]
  /\ router = [c \in Context |-> Absent]

Register ==
  /\ \E x \in Application :
       \/ registered' = registered \cup {x}
       \/ registered' = registered \ {x}
  /\ UNCHANGED <<routes, owner>>

Reroute ==
  /\ \E a \in Client \cup {AnyClient}, n \in Name,
        r \in EdgeRouter \cup {Absent} :
       routes' = [routes EXCEPT ![<<a, n>>] = r]
  /\ UNCHANGED <<registered, owner>>

Grant(c, a, x) ==
  /\ owner[c] = Absent
  /\ x \in registered
  /\ mostSpecific(a, NameOf(x)) # Absent
  /\ owner' = [owner EXCEPT ![c] = <<a, NameOf(x)>>]
  /\ UNCHANGED <<registered, routes>>

End(c) ==
  /\ owner[c] # Absent
  /\ owner' = [owner EXCEPT ![c] = Absent]
  /\ UNCHANGED <<registered, routes>>

Next ==
  /\ \/ Register
     \/ Reroute
     \/ \E c \in Context, a \in Client, x \in Application : Grant(c, a, x)
     \/ \E c \in Context : End(c)
  /\ refresh

Spec == Init /\ [][Next]_vars
=============================================================================
