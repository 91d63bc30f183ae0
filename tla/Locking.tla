------------------------------- MODULE Locking -------------------------------
(***************************************************************************)
(* The mutexes of the system, and every operation as the mutexes it takes  *)
(* and the requests it waits for: what the other modules take for granted  *)
(* when an operation is one step of theirs.                                *)
(*                                                                         *)
(* "static" is theMutex of StaticUeAppLcmProxy, "base" that of             *)
(* UeAppLcmProxy, "manager" that of AppContextManager.  While a thread     *)
(* waits for the answer to a request, the steps of the handler at the      *)
(* other end are its own.                                                  *)
(***************************************************************************)
EXTENDS Sequences, Naturals

CONSTANTS
  Thread,
  MaxPosts,   \* bounds the notifications of one call
  MaxCalls,   \* bounds the calls of a thread
  Nil

ASSUME LockingAssumption ==
  /\ Thread # {} /\ Nil \notin Thread
  /\ MaxPosts \in Nat /\ MaxCalls \in Nat \ {0}

VARIABLES
  op,      \* thread -> the steps of the operation it is in
  pc,      \* thread -> the next of these steps
  posts,   \* thread -> the notifications it has still to send
  holder,  \* mutex -> the thread that has locked it, or Nil
  calls    \* thread -> the calls it has still to make

vars == <<op, pc, posts, holder, calls>>

Mutex == {"static", "base", "manager"}

-----------------------------------------------------------------------------
(* The operations.                                                         *)

lock(m)   == [do |-> "lock",   mutex |-> m]
unlock(m) == [do |-> "unlock", mutex |-> m]
wait      == [do |-> "wait",   mutex |-> "none"]    \* an answer arrives
check(m)  == [do |-> "check",  mutex |-> m]         \* ASSERT_IS_NOT_LOCKED
\* A check that fails ends the debug build (see StaticUeAppLcmProxy); here
\* the threads go on, as they do in the other build.

guarded(m) == <<lock(m), unlock(m)>>

(* Removal of an application that looks whether a context is using it.     *)
changeApps_Checked ==
  <<lock("base"), lock("static"), unlock("static"), unlock("base")>>

changeApps == guarded("base")

listApps == guarded("base")

createContext ==
  <<lock("static"), lock("base"), unlock("base"), unlock("static")>>

changeContext == guarded("static")    \* updateContext, deleteContext

inspect == guarded("static")          \* the getters

(* A request that fails, and may not have reached the other end.           *)
failed == <<wait>>

(* One POST: the handler at the client, the answer, and the purge.         *)
accepted == <<lock("manager"), unlock("manager"), wait>>
refused  ==
  <<lock("manager"), unlock("manager"), wait, lock("static"), unlock("static")>>

(* A change that is announced before the mutex is unlocked.                *)
changeTable_Locked ==
  <<lock("static"), lock("manager"), unlock("manager"), wait,
    lock("static"), unlock("static"), unlock("static")>>

(* A change of the table, and the start of notifyClients; the repeated     *)
(* association, which returns before, is another inspect.                  *)
changeTable == <<lock("static"), unlock("static"), check("static")>>

(* The manager's calls: each waits for the proxy without its mutex.        *)
contextCreate ==
  <<lock("static"), lock("base"), unlock("base"), unlock("static"), wait,
    lock("manager"), unlock("manager")>>

referenceUri == guarded("manager")

destructor == <<lock("static"), unlock("static"), wait>>

Post == {accepted, refused, failed}

Operation ==
  {changeApps, listApps, createContext, changeContext, inspect, changeTable,
   contextCreate, referenceUri, destructor, failed}

-----------------------------------------------------------------------------

atEnd(t) == pc[t] > Len(op[t])

returned(t) == atEnd(t) /\ posts[t] = 0

Init ==
  /\ op = [t \in Thread |-> <<>>]
  /\ pc = [t \in Thread |-> 1]
  /\ posts = [t \in Thread |-> 0]
  /\ holder = [m \in Mutex |-> Nil]
  /\ calls = [t \in Thread |-> MaxCalls]

begin(t) ==
  /\ returned(t) /\ calls[t] > 0
  /\ \E p \in Operation, n \in 0..MaxPosts :
       /\ n > 0 => p = changeTable
       /\ op' = [op EXCEPT ![t] = p]
       /\ posts' = [posts EXCEPT ![t] = n]
  /\ pc' = [pc EXCEPT ![t] = 1]
  /\ calls' = [calls EXCEPT ![t] = @ - 1]
  /\ UNCHANGED holder

(* The next notification of the list.                                      *)
notifyClients(t) ==
  /\ atEnd(t) /\ posts[t] > 0
  /\ \E p \in Post : op' = [op EXCEPT ![t] = p]
  /\ pc' = [pc EXCEPT ![t] = 1]
  /\ posts' = [posts EXCEPT ![t] = @ - 1]
  /\ UNCHANGED <<holder, calls>>

at(t, s) == ~atEnd(t) /\ op[t][pc[t]] = s

step(t) ==
  /\ \/ \E m \in Mutex : /\ at(t, lock(m)) /\ holder[m] = Nil
                         /\ holder' = [holder EXCEPT ![m] = t]
     \/ \E m \in Mutex : /\ at(t, unlock(m))
                         /\ holder' = [holder EXCEPT ![m] = Nil]
     \/ at(t, wait) /\ UNCHANGED holder
     \/ \E m \in Mutex : at(t, check(m)) /\ UNCHANGED holder
  /\ pc' = [pc EXCEPT ![t] = @ + 1]
  /\ UNCHANGED <<op, posts, calls>>

Next == \E t \in Thread : begin(t) \/ step(t) \/ notifyClients(t)

(* Threads are scheduled, and requests are answered or time out.           *)
Spec ==
  /\ Init /\ [][Next]_vars
  /\ \A t \in Thread : WF_vars(step(t) \/ notifyClients(t))

-----------------------------------------------------------------------------

holds(t) == {m \in Mutex : holder[m] = t}

(* The mutexes are taken in one order: whoever waits for the registry's    *)
(* holds at most the proxy's, and whoever waits for another holds nothing. *)
LockOrder ==
  \A t \in Thread, m \in Mutex : at(t, lock(m)) =>
    holds(t) \subseteq (IF m = "base" THEN {"static"} ELSE {})

(* No mutex is held while a request is under way: an owner that is slow to *)
(* answer a notification delays the call that caused it, and no other.     *)
NothingHeldWhileWaiting == \A t \in Thread : at(t, wait) => holds(t) = {}

(* The thread is not kept from its next step by a mutex another has.       *)
goesOn(t) == \A m \in Mutex : at(t, lock(m)) => holder[m] = Nil

(* Not everyone waits for everyone: while some call has not returned, one  *)
(* of them can go on.                                                      *)
NoDeadlock ==
  (\E t \in Thread : ~returned(t)) => \E t \in Thread : ~returned(t) /\ goesOn(t)

(* Every call returns, whatever the others do.                             *)
EveryCallReturns == \A t \in Thread : ~returned(t) ~> returned(t)

-----------------------------------------------------------------------------
(* What an assertion claims, and does not hold (see the findings).         *)

(* ASSERT_IS_NOT_LOCKED(theMutex) in notifyClients.                        *)
NotLockedWhenNotifying ==
  \A t \in Thread : at(t, check("static")) => holder["static"] = Nil
=============================================================================
