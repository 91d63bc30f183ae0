--------------------------- MODULE Locking_proofs ---------------------------
(***************************************************************************)
(* LockOrder, NothingHeldWhileWaiting and NoDeadlock for any number of     *)
(* threads, calls and notifications.                                       *)
(*                                                                         *)
(* Each operation is annotated with the mutexes its thread has locked      *)
(* before each step.  The annotation is checked once per operation; what   *)
(* the threads then do together follows from it.                           *)
(***************************************************************************)
EXTENDS Locking, TLAPS

(* The steps that operations are made of.                                  *)
Step ==
  {wait} \cup {lock(m) : m \in Mutex} \cup {unlock(m) : m \in Mutex}
    \cup {check(m) : m \in Mutex}

(* What may be locked by a thread that locks m.                            *)
below(m) == IF m = "base" THEN {"static"} ELSE {}

(* h gives the mutexes held before each step of p, and after the last.     *)
Annotates(h, p) ==
  /\ p \in Seq(Step)
  /\ h \in [1..(Len(p) + 1) -> SUBSET Mutex]
  /\ h[1] = {} /\ h[Len(p) + 1] = {}
  /\ \A i \in 1..Len(p) :
       /\ p[i] = wait => h[i] = {} /\ h[i + 1] = {}
       /\ \A m \in Mutex :
            /\ p[i] = lock(m) =>
                 m \notin h[i] /\ h[i] \subseteq below(m) /\ h[i + 1] = h[i] \cup {m}
            /\ p[i] = unlock(m) => m \in h[i] /\ h[i + 1] = h[i] \ {m}
            /\ p[i] = check(m) => h[i + 1] = h[i]

(* The operation can be annotated.                                         *)
Disciplined(p) == \E h : Annotates(h, p)

(* What the steps of guarded, lock and their like are to each other.       *)
LEMMA StepsDiffer ==
  ASSUME NEW m \in Mutex, NEW n \in Mutex
  PROVE  /\ lock(m) # wait /\ unlock(m) # wait /\ check(m) # wait
         /\ lock(m) # unlock(n) /\ lock(m) # check(n) /\ unlock(m) # check(n)
         /\ lock(m) = lock(n) => m = n
         /\ unlock(m) = unlock(n) => m = n
         /\ check(m) = check(n) => m = n
BY DEF lock, unlock, check, wait

(* Every operation of the code locks and unlocks as it should.             *)
LEMMA OperationsDisciplined ==
  ASSUME NEW p \in Operation \cup Post \cup {<<>>}
  PROVE  Disciplined(p)
<1> USE StepsDiffer
<1>1. Disciplined(<<>>)
  <2>1. Annotates([i \in 1..1 |-> {}], <<>>)
    BY DEF Annotates, Step
  <2> QED BY <2>1 DEF Disciplined
<1>2. ASSUME NEW n \in Mutex PROVE Disciplined(guarded(n))
  <2> DEFINE h == [i \in 1..3 |-> IF i = 2 THEN {n} ELSE {}]
  <2>1. Annotates(h, guarded(n))
    BY DEF Annotates, guarded, Step, Mutex, below
  <2> QED BY <2>1 DEF Disciplined
<1>3. Disciplined(failed)
  <2> DEFINE h == [i \in 1..2 |-> {}]
  <2>1. Annotates(h, failed)
    BY DEF Annotates, failed, Step, Mutex, below
  <2> QED BY <2>1 DEF Disciplined
<1>4. Disciplined(accepted)
  <2> DEFINE h == [i \in 1..4 |-> IF i = 2 THEN {"manager"} ELSE {}]
  <2>1. Annotates(h, accepted)
    BY DEF Annotates, accepted, Step, Mutex, below
  <2> QED BY <2>1 DEF Disciplined
<1>5. Disciplined(refused)
  <2> DEFINE h == [i \in 1..6 |-> IF i = 2 THEN {"manager"} ELSE IF i = 5 THEN {"static"} ELSE {}]
  <2>1. Annotates(h, refused)
    BY DEF Annotates, refused, Step, Mutex, below
  <2> QED BY <2>1 DEF Disciplined
<1>6. Disciplined(createContext)
  <2> DEFINE h == [i \in 1..5 |-> IF i \in {2, 4} THEN {"static"}
                              ELSE IF i = 3 THEN {"static", "base"} ELSE {}]
  <2>1. Annotates(h, createContext)
    BY DEF Annotates, createContext, Step, Mutex, below
  <2> QED BY <2>1 DEF Disciplined
<1>7. Disciplined(changeTable)
  <2> DEFINE h == [i \in 1..4 |-> IF i = 2 THEN {"static"} ELSE {}]
  <2>1. Annotates(h, changeTable)
    BY DEF Annotates, changeTable, Step, Mutex, below
  <2> QED BY <2>1 DEF Disciplined
<1>8. Disciplined(contextCreate)
  <2> DEFINE h == [i \in 1..8 |-> IF i \in {2, 4} THEN {"static"}
                              ELSE IF i = 3 THEN {"static", "base"}
                              ELSE IF i = 7 THEN {"manager"} ELSE {}]
  <2>1. Annotates(h, contextCreate)
    BY DEF Annotates, contextCreate, Step, Mutex, below
  <2> QED BY <2>1 DEF Disciplined
<1>9. Disciplined(destructor)
  <2> DEFINE h == [i \in 1..4 |-> IF i = 2 THEN {"static"} ELSE {}]
  <2>1. Annotates(h, destructor)
    BY DEF Annotates, destructor, Step, Mutex, below
  <2> QED BY <2>1 DEF Disciplined
<1> QED BY <1>1, <1>2, <1>3, <1>4, <1>5, <1>6, <1>7, <1>8, <1>9
       DEF Operation, Post, changeApps, listApps, changeContext, inspect,
           referenceUri, Mutex

-----------------------------------------------------------------------------
(* The annotation of its operation is what each thread holds.              *)

(* What the thread holds is what an annotation of its operation says.      *)
InStep(t) ==
  \E h : /\ Annotates(h, op[t])
         /\ pc[t] \in 1..(Len(op[t]) + 1)
         /\ holds(t) = h[pc[t]]

(* The inductive invariant.                                                *)
LockingInv ==
  /\ op \in [Thread -> Operation \cup Post \cup {<<>>}]
  /\ pc \in [Thread -> Nat]
  /\ posts \in [Thread -> Nat]
  /\ holder \in [Mutex -> Thread \cup {Nil}]
  /\ \A t \in Thread : InStep(t)

(* A thread at the end of its operation has unlocked everything.           *)
LEMMA EndHoldsNothing ==
  ASSUME LockingInv, NEW t \in Thread, atEnd(t)
  PROVE  holds(t) = {}
<1>1. PICK h : /\ Annotates(h, op[t]) /\ pc[t] \in 1..(Len(op[t]) + 1)
               /\ holds(t) = h[pc[t]]
  BY DEF LockingInv, InStep
<1>2. Len(op[t]) \in Nat
  BY <1>1 DEF Annotates
<1>3. pc[t] = Len(op[t]) + 1
  BY <1>1, <1>2 DEF atEnd
<1> QED BY <1>1, <1>3 DEF Annotates

(* At the start nobody holds anything.                                     *)
LEMMA InitLockingInv == ASSUME Init PROVE LockingInv
<1> USE LockingAssumption
<1>1. Disciplined(<<>>)
  BY OperationsDisciplined
<1>2. ASSUME NEW t \in Thread PROVE InStep(t)
  <2>1. PICK h : Annotates(h, <<>>)
    BY <1>1 DEF Disciplined
  <2>2. op[t] = <<>> /\ pc[t] = 1 /\ holds(t) = {}
    BY DEF Init, holds
  <2> QED BY <2>1, <2>2 DEF InStep, Annotates
<1> QED BY <1>2 DEF Init, LockingInv

(* A thread that enters an operation holds nothing, as its annotation says.*)
LEMMA EntersDisciplined ==
  ASSUME LockingInv, NEW t \in Thread, NEW p \in Operation \cup Post, atEnd(t),
         op' = [op EXCEPT ![t] = p], pc' = [pc EXCEPT ![t] = 1], UNCHANGED holder
  PROVE  \A u \in Thread : InStep(u)'
<1> TAKE u \in Thread
<1>1. CASE u = t
  <2>1. PICK h : Annotates(h, p)
    BY OperationsDisciplined DEF Disciplined
  <2>2. op'[u] = p /\ pc'[u] = 1 /\ holds(u)' = {}
    BY <1>1, EndHoldsNothing DEF LockingInv, holds
  <2> QED BY <2>1, <2>2 DEF InStep, Annotates
<1>2. CASE u # t
  <2>1. op'[u] = op[u] /\ pc'[u] = pc[u] /\ holds(u)' = holds(u)
    BY <1>2 DEF LockingInv, holds
  <2> QED BY <2>1 DEF LockingInv, InStep
<1> QED BY <1>1, <1>2

(* A step changes what its thread holds as the annotation says, and what   *)
(* no other holds: a mutex is unlocked by the thread that locked it.       *)
LEMMA StepsDisciplined ==
  ASSUME LockingInv, NEW t \in Thread, step(t)
  PROVE  \A u \in Thread : InStep(u)'
<1> USE LockingAssumption
<1>1. PICK h : /\ Annotates(h, op[t]) /\ pc[t] \in 1..(Len(op[t]) + 1)
               /\ holds(t) = h[pc[t]]
  BY DEF LockingInv, InStep
<1>2. Len(op[t]) \in Nat /\ op[t] \in Seq(Step)
  BY <1>1 DEF Annotates
<1>3. pc[t] \in 1..Len(op[t])
  BY <1>1, <1>2 DEF step, at, atEnd
<1>4. op' = op /\ pc' = [pc EXCEPT ![t] = @ + 1]
  BY DEF step
<1> DEFINE Moves == /\ holds(t)' = h[pc[t] + 1]
                    /\ \A u \in Thread \ {t} : holds(u)' = holds(u)
<1>5. Moves
  <2>1. ASSUME NEW m \in Mutex, op[t][pc[t]] = lock(m), holder[m] = Nil,
               holder' = [holder EXCEPT ![m] = t]
        PROVE  Moves
    <3>1. h[pc[t] + 1] = holds(t) \cup {m}
      BY <1>1, <1>3, <2>1 DEF Annotates
    <3> QED BY <3>1, <2>1 DEF LockingInv, holds
  <2>2. ASSUME NEW m \in Mutex, op[t][pc[t]] = unlock(m),
               holder' = [holder EXCEPT ![m] = Nil]
        PROVE  Moves
    <3>1. m \in holds(t) /\ h[pc[t] + 1] = holds(t) \ {m}
      BY <1>1, <1>3, <2>2 DEF Annotates
    <3> QED BY <3>1, <2>2 DEF LockingInv, holds
  <2>3. ASSUME op[t][pc[t]] = wait, holder' = holder PROVE Moves
    <3>1. h[pc[t] + 1] = holds(t)
      BY <1>1, <1>3, <2>3 DEF Annotates
    <3> QED BY <3>1, <2>3 DEF holds
  <2>4. ASSUME NEW m \in Mutex, op[t][pc[t]] = check(m), holder' = holder
        PROVE  Moves
    <3>1. h[pc[t] + 1] = holds(t)
      BY <1>1, <1>3, <2>4 DEF Annotates
    <3> QED BY <3>1, <2>4 DEF holds
  <2> QED BY <2>1, <2>2, <2>3, <2>4 DEF step, at
<1>6. InStep(t)'
  <2>1. pc'[t] = pc[t] + 1 /\ pc'[t] \in 1..(Len(op[t]) + 1)
    BY <1>2, <1>3, <1>4 DEF LockingInv
  <2> QED BY <1>1, <1>4, <1>5, <2>1 DEF InStep
<1>7. ASSUME NEW u \in Thread \ {t} PROVE InStep(u)'
  BY <1>4, <1>5 DEF LockingInv, InStep
<1> QED BY <1>6, <1>7

(* Beginning, going on and notifying keep threads in step.                 *)
LEMMA NextLockingInv == ASSUME LockingInv, [Next]_vars PROVE LockingInv'
<1> USE LockingAssumption
<1>1. ASSUME NEW t \in Thread, begin(t) PROVE LockingInv'
  <2>1. PICK p \in Operation, n \in 0..MaxPosts :
          op' = [op EXCEPT ![t] = p] /\ posts' = [posts EXCEPT ![t] = n]
    BY <1>1 DEF begin
  <2>2. atEnd(t) /\ pc' = [pc EXCEPT ![t] = 1] /\ holder' = holder
    BY <1>1 DEF begin, returned
  <2>3. \A u \in Thread : InStep(u)'
    BY <2>1, <2>2, EntersDisciplined
  <2> QED BY <2>1, <2>2, <2>3 DEF LockingInv
<1>2. ASSUME NEW t \in Thread, notifyClients(t) PROVE LockingInv'
  <2>1. PICK p \in Post : op' = [op EXCEPT ![t] = p]
    BY <1>2 DEF notifyClients
  <2>2. /\ atEnd(t) /\ pc' = [pc EXCEPT ![t] = 1] /\ holder' = holder
        /\ posts[t] > 0 /\ posts' = [posts EXCEPT ![t] = @ - 1]
    BY <1>2 DEF notifyClients
  <2>3. \A u \in Thread : InStep(u)'
    BY <2>1, <2>2, EntersDisciplined
  <2> QED BY <2>1, <2>2, <2>3 DEF LockingInv
<1>3. ASSUME NEW t \in Thread, step(t) PROVE LockingInv'
  <2>1. \A u \in Thread : InStep(u)'
    BY <1>3, StepsDisciplined
  <2>2. holder' \in [Mutex -> Thread \cup {Nil}]
    BY <1>3 DEF LockingInv, step
  <2>3. op' = op /\ posts' = posts /\ pc' = [pc EXCEPT ![t] = @ + 1]
    BY <1>3 DEF step
  <2> QED BY <2>1, <2>2, <2>3 DEF LockingInv
<1>4. CASE UNCHANGED vars
  BY <1>4 DEF LockingInv, InStep, holds, vars
<1> QED BY <1>1, <1>2, <1>3, <1>4 DEF Next

(* LockingInv holds throughout.                                            *)
LEMMA LockingInductive == Spec => []LockingInv
BY InitLockingInv, NextLockingInv, PTL DEF Spec

-----------------------------------------------------------------------------

(* An annotation has the mutexes in order.                                 *)
LEMMA InvLockOrder == ASSUME LockingInv PROVE LockOrder
<1> SUFFICES ASSUME NEW t \in Thread, NEW m \in Mutex, at(t, lock(m))
             PROVE  holds(t) \subseteq below(m)
  BY DEF LockOrder, below
<1>1. PICK h : /\ Annotates(h, op[t]) /\ pc[t] \in 1..(Len(op[t]) + 1)
               /\ holds(t) = h[pc[t]]
  BY DEF LockingInv, InStep
<1>2. Len(op[t]) \in Nat
  BY <1>1 DEF Annotates
<1>3. pc[t] \in 1..Len(op[t])
  BY <1>1, <1>2 DEF at, atEnd
<1> QED BY <1>1, <1>3 DEF Annotates, at

(* Whatever the threads do, the mutexes of the proxy, the registry and the *)
(* manager are taken in one order.                                         *)
THEOREM LocksOrdered == Spec => []LockOrder
BY LockingInductive, InvLockOrder, PTL

(* No operation waits for the other end of a request with a mutex locked.  *)
THEOREM NeverWaitsLocked == Spec => []NothingHeldWhileWaiting
<1>1. ASSUME LockingInv PROVE NothingHeldWhileWaiting
  <2> SUFFICES ASSUME NEW t \in Thread, at(t, wait) PROVE holds(t) = {}
    BY DEF NothingHeldWhileWaiting
  <2>1. PICK h : /\ Annotates(h, op[t]) /\ pc[t] \in 1..(Len(op[t]) + 1)
                 /\ holds(t) = h[pc[t]]
    BY <1>1 DEF LockingInv, InStep
  <2>2. Len(op[t]) \in Nat
    BY <2>1 DEF Annotates
  <2>3. pc[t] \in 1..Len(op[t])
    BY <2>1, <2>2 DEF at, atEnd
  <2> QED BY <2>1, <2>3 DEF Annotates, at
<1> QED BY LockingInductive, <1>1, PTL

(* A mutex that is locked has a holder that is in an operation.            *)
LEMMA HolderIsBusy ==
  ASSUME LockingInv, NEW m \in Mutex, holder[m] # Nil
  PROVE  \E t \in Thread : m \in holds(t) /\ ~returned(t)
<1> DEFINE t == holder[m]
<1>1. t \in Thread /\ m \in holds(t)
  BY DEF LockingInv, holds
<1>2. ~atEnd(t)
  BY <1>1, EndHoldsNothing
<1> QED BY <1>1, <1>2 DEF returned

(* Threads never wait for each other in a circle: follow one from the      *)
(* mutex it waits for to its holder.  That one, if it waits too, waits for *)
(* the registry's mutex, whose holder waits for none.                      *)
THEOREM NeverDeadlocks == Spec => []NoDeadlock
<1>1. ASSUME LockingInv PROVE NoDeadlock
  <2> SUFFICES ASSUME NEW u \in Thread, ~returned(u)
               PROVE  \E t \in Thread : ~returned(t) /\ goesOn(t)
    BY DEF NoDeadlock
  <2> USE <1>1
  <2>1. LockOrder
    BY InvLockOrder
  <2>2. CASE goesOn(u)
    BY <2>2
  <2>3. CASE ~goesOn(u)
    <3>1. PICK m \in Mutex : holder[m] # Nil
      BY <2>3 DEF goesOn
    <3>2. PICK v \in Thread : m \in holds(v) /\ ~returned(v)
      BY <3>1, HolderIsBusy
    <3>3. CASE goesOn(v)
      BY <3>2, <3>3
    <3>4. CASE ~goesOn(v)
      <4>1. PICK n \in Mutex : at(v, lock(n)) /\ holder[n] # Nil
        BY <3>4 DEF goesOn
      <4>2. n = "base"
        BY <2>1, <3>2, <4>1 DEF LockOrder
      <4>3. PICK w \in Thread : "base" \in holds(w) /\ ~returned(w)
        BY <4>1, <4>2, HolderIsBusy
      <4>4. goesOn(w)
        BY <2>1, <4>3 DEF LockOrder, goesOn
      <4> QED BY <4>3, <4>4
    <3> QED BY <3>3, <3>4
  <2> QED BY <2>2, <2>3
<1> QED BY LockingInductive, <1>1, PTL
=============================================================================
