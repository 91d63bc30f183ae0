-------------------------- MODULE GrpcUeAppLcmProxy --------------------------
(***************************************************************************)
(* The gRPC interface of the static proxy: the calls of the client         *)
(* (EtsiMec/grpcueapplcmproxyclient), and the thread of the server that    *)
(* serves each (EtsiMec/grpcueapplcmproxy).  A call that changes the table *)
(* returns when the notifications it has caused have all been answered.    *)
(* The server returns OK whatever happens: exceptions are swallowed.       *)
(***************************************************************************)
EXTENDS StaticUeAppLcmProxy

CONSTANTS Long, Absent, Other, Thrown   \* see Mx2Messages

VARIABLES
  call,  \* thread -> the request that it serves, or Nil
  reply  \* thread -> what it is to return for it, or Nil

rpcVars == <<call, reply>>

Msg == INSTANCE Mx2Messages

-----------------------------------------------------------------------------
(* The client.  All requests have the fields of an AddressTuple; the name  *)
(* of a lambda is in appname.                                              *)

request(method, client, appname, server) ==
  [method |-> method, client |-> client, appname |-> appname, server |-> server]

Setters == {"associateAddress", "removeAddress", "addLambda", "delLambda"}

(* A client that leaves the checks to the server.                          *)
valid_Any(q) == q.method # Nil

(* What the client checks, throwing otherwise.                             *)
valid(q) ==
  /\ q.method \in Setters => q.appname # Empty
  /\ q.method = "associateAddress" => q.server # Empty

send(t, q) ==
  /\ call[t] = Nil /\ valid(q)
  /\ call' = [call EXCEPT ![t] = q]
  /\ UNCHANGED <<vars, reply>>

(* The call returns a value.                                               *)
receive(t) ==
  /\ reply[t] # Nil /\ idle(t)
  /\ call'  = [call EXCEPT ![t] = Nil]
  /\ reply' = [reply EXCEPT ![t] = Nil]
  /\ UNCHANGED vars

(* checkStatus throws: the server's process is gone.                       *)
break(t) ==
  /\ call[t] # Nil /\ ~alive
  /\ call'  = [call EXCEPT ![t] = Nil]
  /\ reply' = [reply EXCEPT ![t] = Nil]
  /\ UNCHANGED vars

-----------------------------------------------------------------------------
(* The server.                                                             *)

returns(t, value) == reply' = [reply EXCEPT ![t] = value] /\ UNCHANGED call

(* What the handlers assert.                                               *)
malformed(q) ==
  \/ q.method \in Setters /\ q.appname = Empty
  \/ q.method = "removeAddress" /\ q.server # Empty

rpcAssociateAddress(t) ==
  LET q     == call[t]
      table == [theTable EXCEPT ![<<q.client, q.appname>>] = q.server]
  IN
  /\ call[t].method = "associateAddress"
  /\ \/ /\ q.appname = Empty \/ q.server = Empty
        /\ returns(t, "OK") /\ UNCHANGED vars
     \/ /\ q.appname # Empty /\ q.server # Empty
        /\ \/ /\ theTable[<<q.client, q.appname>>] = q.server
              /\ returns(t, "OK") /\ UNCHANGED vars
           \/ /\ associateAddress(t, q.client, q.appname, q.server)
              /\ returns(t, "OK")
           \/ /\ \/ associateAddress_Unrouted(t, q.client, q.appname, q.server)
                 \/ /\ theTable[<<q.client, q.appname>>] # q.server
                    /\ unrouted(table, q.appname) = {}
                    /\ notifyClients_Locked(t)
              /\ UNCHANGED rpcVars

rpcRemoveAddress(t) ==
  LET q == call[t] IN
  /\ call[t].method = "removeAddress"
  /\ \/ q.appname = Empty /\ returns(t, "OK") /\ UNCHANGED vars
     \/ /\ q.appname # Empty
        /\ \/ removeAddress(t, q.client, q.appname) /\ returns(t, "OK")
           \/ notifyClients_Locked(t) /\ UNCHANGED rpcVars

(* The application that a lambda function is registered as.                *)
lambda(x) ==
  Msg!AppInfoListed(x, <<"OpenLambdaMec">>, <<"1.0">>, Empty,
                    Msg!AppCharcs(0, 0))

(* A name that AppInfo does not accept throws, and nothing is done.        *)
rpcLambda(t) ==
  LET info == lambda(call[t].appname) IN
  /\ call[t].method \in {"addLambda", "delLambda"}
  /\ returns(t, "OK")
  /\ \/ info = Thrown /\ UNCHANGED vars
     \/ /\ info # Thrown
        /\ \/ call[t].method = "addLambda" /\ addApp(Msg!appOf(info))
           \/ call[t].method = "delLambda" /\ delApp(Msg!appOf(info))
        /\ UNCHANGED <<theTable, contextVars, notifyVars, failure>>

size(f) == Cardinality({k \in DOMAIN f : f[k] # Nil})

(* The two maps are asserted to be of one size.                            *)
rpcNumContexts(t) ==
  /\ call[t].method = "numContexts"
  /\ IF Assertions
        /\ size(theApplicationsByContextId) # size(theApplicationsByUeAppId)
     THEN die("sizesDiffer") /\ UNCHANGED rpcVars
     ELSE UNCHANGED vars /\ returns(t, size(theApplicationsByContextId))

rpcTable(t) ==
  /\ call[t].method = "table"
  /\ returns(t, {<<k[1], k[2], theTable[k]>> :
                   k \in {k \in AddressAppKey : theTable[k] # Nil}})
  /\ UNCHANGED vars

rpcContexts(t) ==
  /\ call[t].method = "contexts"
  /\ returns(t, {<<d.client, d.app, d.edgeRouter>> :
       d \in {theApplicationsByContextId[c] : c \in {c \in ContextId : live(c)}}})
  /\ UNCHANGED vars

serve(t) ==
  /\ alive /\ call[t] # Nil /\ reply[t] = Nil
  /\ IF Assertions /\ malformed(call[t])
     THEN die("malformed") /\ UNCHANGED rpcVars
     ELSE \/ rpcAssociateAddress(t) \/ rpcRemoveAddress(t)
          \/ rpcLambda(t)
          \/ rpcNumContexts(t) \/ rpcTable(t) \/ rpcContexts(t)

rpcInit ==
  /\ call  = [t \in Thread |-> Nil]
  /\ reply = [t \in Thread |-> Nil]
=============================================================================
