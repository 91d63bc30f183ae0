--------------------------- MODULE Console_proofs ---------------------------
(***************************************************************************)
(* The console and the gRPC interface, for any number of consoles and any  *)
(* input.                                                                  *)
(***************************************************************************)
EXTENDS Console, StaticUeAppLcmProxy_proofs, SequenceTheorems

-----------------------------------------------------------------------------
(* What is typed.                                                          *)

(* The lines of a script.                                                  *)
lines(t) == {script[t][k] : k \in 1..Len(script[t])}

(* A sequence is one of its own elements.                                  *)
LEMMA Sequences ==
  ASSUME NEW s, isSequence(s)
  PROVE  s \in Seq({s[k] : k \in 1..Len(s)})
BY DEF isSequence

(* What is not read yet is the end of the script.                          *)
Suffix(t) ==
  /\ input[t] \in Seq(lines(t)) /\ Len(input[t]) <= Len(script[t])
  /\ \A i \in 1..Len(input[t]) :
       input[t][i] = script[t][Len(script[t]) - Len(input[t]) + i]

(* The last line read, if any, is one of the script.                       *)
ReadLine(t) ==
  myLine[t] = <<>> \/ \E k \in 1..Len(script[t]) : myLine[t] = script[t][k]

(* Where a console can be.                                                 *)
Phase == {"reading", "executing", "calling", "success", "failure"}

(* A console reads its script from the front.                              *)
InputOK ==
  /\ script \in Script /\ newline \in [Thread -> Newline]
  /\ input = [t \in Thread |-> input[t]]
  /\ myLine = [t \in Thread |-> myLine[t]]
  /\ stream \in [Thread -> {"good", "eof", "fail"}]
  /\ phase \in [Thread -> Phase]
  /\ \A t \in Thread : Suffix(t) /\ ReadLine(t)

(* The scripts are sequences of lines.                                     *)
LEMMA ScriptType ==
  ASSUME InputOK, NEW t \in Thread
  PROVE  script[t] \in Seq(lines(t)) /\ Len(script[t]) \in Nat
<1>1. isSequence(script[t])
  BY ScriptAssumption DEF InputOK
<1> QED BY <1>1, Sequences DEF lines, isSequence

(* Reading a line takes it from the input.                                 *)
LEMMA GetlineInput ==
  ASSUME InputOK, NEW t \in Thread, getline(t)
  PROVE  /\ Suffix(t)' /\ ReadLine(t)'
         /\ \A u \in Thread \ {t} : Suffix(u)' /\ ReadLine(u)'
<1>1. script' = script /\ \A u \in Thread : lines(u)' = lines(u)
  BY DEF getline, lines
<1>2. ASSUME NEW u \in Thread \ {t} PROVE Suffix(u)' /\ ReadLine(u)'
  <2>1. input'[u] = input[u] /\ myLine'[u] = myLine[u]
    BY DEF getline, set, InputOK
  <2> QED BY <1>1, <2>1 DEF InputOK, Suffix, ReadLine
<1>3. CASE input' = input /\ (myLine' = myLine \/ myLine' = set(myLine, t, <<>>))
  <2>1. Suffix(t)'
    BY <1>1, <1>3 DEF InputOK, Suffix
  <2>2. myLine'[t] = myLine[t] \/ myLine'[t] = <<>>
    BY <1>3 DEF InputOK, set
  <2>3. ReadLine(t)'
    BY <1>1, <2>2 DEF InputOK, ReadLine
  <2> QED BY <1>2, <2>1, <2>3
<1>4. CASE /\ input[t] # <<>>
           /\ myLine' = set(myLine, t, Head(input[t]))
           /\ input' = set(input, t, Tail(input[t]))
  <2>1. input'[t] = Tail(input[t]) /\ myLine'[t] = Head(input[t])
    BY <1>4 DEF InputOK, set
  <2>2. input[t] \in Seq(lines(t)) /\ Len(input[t]) \in Nat /\ Len(input[t]) > 0
    BY <1>4 DEF InputOK, Suffix
  <2>3. /\ Tail(input[t]) \in Seq(lines(t))
        /\ Len(Tail(input[t])) = Len(input[t]) - 1
        /\ \A i \in 1..Len(Tail(input[t])) : Tail(input[t])[i] = input[t][i + 1]
        /\ Head(input[t]) = input[t][1]
    BY <2>2
  <2> DEFINE n == Len(script[t])
             m == Len(input[t])
  <2>4. n \in Nat
    BY ScriptType
  <2>5. \A i \in 1..m : input[t][i] = script[t][n - m + i]
    BY DEF InputOK, Suffix
  <2> HIDE DEF n, m
  <2>6. m \in Nat /\ 0 < m /\ m <= n
    BY <2>2 DEF InputOK, Suffix, n, m
  <2>7. ASSUME NEW i \in 1..(m - 1)
        PROVE  Tail(input[t])[i] = script[t][n - (m - 1) + i]
    <3>1. i + 1 \in 1..m /\ n - m + (i + 1) = n - (m - 1) + i
      BY <2>4, <2>6
    <3>2. Tail(input[t])[i] = input[t][i + 1]
      BY <2>3 DEF m
    <3>3. input[t][i + 1] = script[t][n - m + (i + 1)]
      BY <2>5, <3>1
    <3> QED BY <3>1, <3>2, <3>3
  <2>8. Suffix(t)'
    <3>1. /\ input'[t] \in Seq(lines(t)') /\ Len(input'[t]) = m - 1
          /\ Len(script'[t]) = n /\ m - 1 <= n
      BY <1>1, <2>1, <2>3, <2>4, <2>6 DEF n, m
    <3>2. \A i \in 1..(m - 1) : input'[t][i] = script'[t][n - (m - 1) + i]
      BY <1>1, <2>1, <2>7
    <3> QED BY <3>1, <3>2 DEF Suffix
  <2>9. n - m + 1 \in 1..n
    BY <2>4, <2>6
  <2>10. myLine'[t] = script[t][n - m + 1]
    <3>1. 1 \in 1..m
      BY <2>6
    <3> QED BY <2>1, <2>3, <2>5, <3>1
  <2>11. ReadLine(t)'
    BY <1>1, <2>9, <2>10 DEF ReadLine, n
  <2> QED BY <1>2, <2>8, <2>11
<1> QED BY <1>2, <1>3, <1>4 DEF getline

(* What a console has read.                                                *)
inputVars == <<script, newline, input, stream, myLine>>

(* The steps of a console that read nothing change its phase.              *)
LEMMA MainEffect ==
  ASSUME NEW t \in Thread, main(t)
  PROVE  \/ getline(t)
         \/ UNCHANGED inputVars /\ \E p \in Phase : phase' = set(phase, t, p)
<1>1. CASE endOfInput(t)
  BY <1>1 DEF endOfInput, exit, inputVars, Phase
<1>2. CASE executeAlone(t)
  BY <1>2 DEF executeAlone, exit, print, inputVars, Phase
<1>3. CASE executeCall(t)
  BY <1>3 DEF executeCall, exit, inputVars, Phase
<1>4. CASE callEnds(t)
  BY <1>4 DEF callEnds, callReturns, exit, print, inputVars, Phase
<1> QED BY <1>1, <1>2, <1>3, <1>4 DEF main

(* Every step of the system preserves this.                                *)
LEMMA InputStep ==
  ASSUME InputOK, [ConsoleNext]_allVars
  PROVE  InputOK'
<1>1. ASSUME UNCHANGED inputVars, phase' \in [Thread -> Phase]
      PROVE  InputOK'
  <2>1. \A t \in Thread : Suffix(t)' /\ ReadLine(t)'
    <3> TAKE t \in Thread
    <3>1. script' = script /\ input' = input /\ myLine' = myLine
      BY <1>1 DEF inputVars
    <3>2. lines(t)' = lines(t)
      BY <3>1 DEF lines
    <3>3. Suffix(t)'
      BY <3>1, <3>2 DEF InputOK, Suffix
    <3>4. ReadLine(t)'
      BY <3>1 DEF InputOK, ReadLine
    <3> QED BY <3>3, <3>4
  <2> QED BY <1>1, <2>1 DEF InputOK, inputVars
<1>2. ASSUME NEW t \in Thread, getline(t)
      PROVE  InputOK'
  <2>1. \A u \in Thread : Suffix(u)' /\ ReadLine(u)'
    BY <1>2, GetlineInput
  <2>2. /\ script' = script /\ newline' = newline
        /\ phase' \in [Thread -> Phase]
        /\ stream' \in [Thread -> {"good", "eof", "fail"}]
    BY <1>2 DEF getline, set, InputOK, Phase
  <2>3. /\ input' = [u \in Thread |-> input'[u]]
        /\ myLine' = [u \in Thread |-> myLine'[u]]
    BY <1>2 DEF getline, set, InputOK
  <2> QED BY <2>1, <2>2, <2>3 DEF InputOK
<1>3. ASSUME NEW t \in Thread, main(t)
      PROVE  InputOK'
  <2>1. ASSUME NEW p \in Phase, phase' = set(phase, t, p)
        PROVE  phase' \in [Thread -> Phase]
    BY <2>1 DEF set, InputOK
  <2> QED BY <1>1, <1>2, <1>3, <2>1, MainEffect
<1>4. ASSUME UNCHANGED consoleVars
      PROVE  InputOK'
  BY <1>1, <1>4 DEF consoleVars, inputVars, InputOK
<1> QED BY <1>3, <1>4 DEF ConsoleNext, clients, server, allVars

(* At the start nothing is read.                                           *)
LEMMA InitInput == ASSUME ConsoleInit PROVE InputOK
<1> USE ScriptAssumption
<1>1. script \in Script /\ input = script
  BY DEF ConsoleInit
<1>2. /\ newline \in [Thread -> Newline]
      /\ input = [t \in Thread |-> input[t]]
      /\ myLine = [t \in Thread |-> myLine[t]]
      /\ stream \in [Thread -> {"good", "eof", "fail"}]
      /\ phase \in [Thread -> Phase]
  BY <1>1 DEF ConsoleInit, Phase
<1>3. ASSUME NEW t \in Thread PROVE Suffix(t) /\ ReadLine(t)
  <2>1. isSequence(script[t])
    BY <1>1
  <2>2. script[t] \in Seq(lines(t)) /\ Len(script[t]) \in Nat
    BY <2>1, Sequences DEF lines, isSequence
  <2> DEFINE n == Len(script[t])
  <2>3. \A i \in 1..n : n - n + i = i
    BY <2>2
  <2> QED BY <1>1, <2>2, <2>3 DEF Suffix, ReadLine, ConsoleInit
<1> QED BY <1>1, <1>2, <1>3 DEF InputOK

-----------------------------------------------------------------------------
(* What is called.                                                         *)

(* A call under way is one that a line of the script asks for and that the *)
(* client has checked.                                                     *)
CallsOK ==
  /\ call = [t \in Thread |-> call[t]] /\ reply = [t \in Thread |-> reply[t]]
  /\ \A t \in Thread :
       /\ phase[t] = "calling" <=> call[t] # Nil
       /\ call[t] = Nil => reply[t] = Nil
       /\ call[t] # Nil =>
            /\ valid(call[t])
            /\ \E k \in 1..Len(script[t]) : call[t] = requestOf(script[t][k])

(* What one thread does to calls leaves those of the others alone.         *)
LEMMA CallsOf ==
  ASSUME InputOK, CallsOK, NEW t \in Thread, NEW p \in Phase, NEW q, NEW r,
         UNCHANGED script, phase' = set(phase, t, p),
         call' = [call EXCEPT ![t] = q], reply' = [reply EXCEPT ![t] = r],
         p = "calling" <=> q # Nil, q = Nil => r = Nil,
         q # Nil => /\ valid(q)
                    /\ \E k \in 1..Len(script[t]) : q = requestOf(script[t][k])
  PROVE  CallsOK'
<1>1. /\ call'[t] = q /\ reply'[t] = r /\ phase'[t] = p
      /\ \A u \in Thread \ {t} : /\ call'[u] = call[u] /\ reply'[u] = reply[u]
                                 /\ phase'[u] = phase[u]
  BY DEF InputOK, CallsOK, set
<1>2. /\ call' = [u \in Thread |-> call'[u]]
      /\ reply' = [u \in Thread |-> reply'[u]]
  BY DEF CallsOK
<1> QED BY <1>1, <1>2 DEF CallsOK, valid

(* Only a line with a command asks for a call.                             *)
LEMMA NoRequest == requestOf(<<>>) = Nil
BY DEF requestOf, isCommand

(* Only what a line asks for, and the client accepts, is called.           *)
LEMMA CallsStep ==
  ASSUME InputOK, CallsOK, [ConsoleNext]_allVars
  PROVE  CallsOK'
<1>1. ASSUME UNCHANGED <<script, rpcVars>>, NEW t \in Thread,
             phase[t] \in {"reading", "executing"},
             NEW p \in Phase \ {"calling"}, phase' = set(phase, t, p)
      PROVE  CallsOK'
  <2>1. call[t] = Nil /\ reply[t] = Nil
    BY <1>1 DEF CallsOK
  <2>2. call' = [call EXCEPT ![t] = Nil] /\ reply' = [reply EXCEPT ![t] = Nil]
    BY <1>1, <2>1 DEF CallsOK, rpcVars
  <2> QED BY <1>1, <2>2, CallsOf
<1>2. ASSUME NEW t \in Thread, executeCall(t), send(t, requestOf(myLine[t])),
             exit(t, "calling")
      PROVE  CallsOK'
  <2> DEFINE q == requestOf(myLine[t])
  <2>1. q # Nil /\ valid(q) /\ call' = [call EXCEPT ![t] = q] /\ reply' = reply
    BY <1>2 DEF executeCall, send
  <2>2. \E k \in 1..Len(script[t]) : q = requestOf(script[t][k])
    BY <2>1, NoRequest DEF InputOK, ReadLine
  <2>3. reply' = [reply EXCEPT ![t] = reply[t]]
    BY <2>1 DEF CallsOK
  <2>4. script' = script /\ phase' = set(phase, t, "calling")
    BY <1>2 DEF exit
  <2> HIDE DEF q
  <2> QED BY <2>1, <2>2, <2>3, <2>4, CallsOf DEF Phase
<1>3. ASSUME NEW t \in Thread, callEnds(t)
      PROVE  CallsOK'
  <2>1. call' = [call EXCEPT ![t] = Nil] /\ reply' = [reply EXCEPT ![t] = Nil]
    BY <1>3 DEF callEnds, callReturns, receive, break
  <2>2. script' = script /\ \E p \in {"reading", "failure"} :
                              phase' = set(phase, t, p)
    BY <1>3 DEF callEnds, callReturns, print, exit
  <2> QED BY <2>1, <2>2, CallsOf DEF Phase
<1>4. ASSUME NEW t \in Thread, main(t)
      PROVE  CallsOK'
  <2>1. CASE getline(t)
    BY <1>1, <2>1 DEF getline, Phase
  <2>2. CASE endOfInput(t)
    BY <1>1, <2>2 DEF endOfInput, exit, Phase
  <2>3. CASE executeAlone(t)
    BY <1>1, <2>3 DEF executeAlone, exit, print, Phase
  <2>4. CASE executeCall(t) /\ ~valid(requestOf(myLine[t]))
    BY <1>1, <2>4 DEF executeCall, send, exit, Phase
  <2> QED BY <1>2, <1>3, <1>4, <2>1, <2>2, <2>3, <2>4 DEF main, executeCall, send
<1>5. ASSUME UNCHANGED <<rpcVars, consoleVars>>
      PROVE  CallsOK'
  BY <1>5 DEF CallsOK, rpcVars, consoleVars, valid
<1>6. ASSUME NEW t \in Thread, serve(t), UNCHANGED consoleVars
      PROVE  CallsOK'
  <2>1. CASE UNCHANGED rpcVars
    BY <1>5, <1>6, <2>1
  <2>2. ASSUME NEW r, returns(t, r)
        PROVE  CallsOK'
    <3>1. call[t] # Nil /\ call' = call /\ reply' = [reply EXCEPT ![t] = r]
      BY <1>6, <2>2 DEF serve, returns
    <3>2. call' = [call EXCEPT ![t] = call[t]] /\ phase' = set(phase, t, phase[t])
      BY <1>6, <3>1 DEF CallsOK, InputOK, consoleVars, set
    <3>3. phase[t] \in Phase /\ script' = script
      BY <1>6 DEF InputOK, consoleVars
    <3> QED BY <3>1, <3>2, <3>3, CallsOf DEF CallsOK
  <2> QED BY <1>6, <2>1, <2>2
          DEF serve, rpcAssociateAddress, rpcRemoveAddress, rpcLambda,
              rpcNumContexts, rpcTable, rpcContexts
<1> QED BY <1>4, <1>5, <1>6 DEF ConsoleNext, clients, server, allVars

(* At the start nobody calls.                                              *)
LEMMA InitCalls == ASSUME ConsoleInit PROVE CallsOK
<1>1. \A t \in Thread : phase[t] = "reading" /\ call[t] = Nil /\ reply[t] = Nil
  BY DEF ConsoleInit, rpcInit
<1>2. /\ call = [t \in Thread |-> call[t]]
      /\ reply = [t \in Thread |-> reply[t]]
  BY DEF ConsoleInit, rpcInit
<1> QED BY <1>1, <1>2 DEF CallsOK

(* Sessions keep to their scripts, and so do their calls.                  *)
LEMMA ConsoleInductive == ConsoleSpec => [](InputOK /\ CallsOK)
<1>1. ConsoleInit => InputOK /\ CallsOK
  BY InitInput, InitCalls
<1>2. InputOK /\ CallsOK /\ [ConsoleNext]_allVars => InputOK' /\ CallsOK'
  BY InputStep, CallsStep
<1> QED BY <1>1, <1>2, PTL DEF ConsoleSpec

(* Whatever the server does, a console reads its input line by line, and   *)
(* is in the middle of a call exactly when one is under way.               *)
THEOREM ConsoleTypeCorrect == ConsoleSpec => []ConsoleTypeOK
<1>1. ASSUME InputOK, CallsOK PROVE ConsoleTypeOK
  <2>1. ASSUME NEW t \in Thread
        PROVE  \E k \in 1..(Len(script[t]) + 1) :
                 input[t] = SubSeq(script[t], k, Len(script[t]))
    <3> DEFINE n == Len(script[t])
               m == Len(input[t])
               k == n - m + 1
    <3>1. n \in Nat /\ script[t] \in Seq(lines(t))
      BY <1>1, ScriptType
    <3>2. /\ input[t] \in Seq(lines(t)) /\ m \in Nat /\ m <= n
          /\ \A i \in 1..m : input[t][i] = script[t][n - m + i]
      BY <1>1 DEF InputOK, Suffix
    <3> HIDE DEF n, m
    <3>3. k \in 1..(n + 1) /\ n - k + 1 = m
      BY <3>1, <3>2
    <3> DEFINE rest == SubSeq(script[t], k, n)
    <3>4. /\ rest \in Seq(lines(t)) /\ Len(rest) = m
          /\ \A i \in 1..m : rest[i] = script[t][k + i - 1]
      <4>1. \A i \in k..n : script[t][i] \in lines(t)
        <5>1. \A i \in 1..n : script[t][i] \in lines(t)
          BY DEF n, lines
        <5>2. \A i \in k..n : i \in 1..n
          BY <3>1, <3>3
        <5> QED BY <5>1, <5>2
      <4>2. k \in Int /\ n \in Int /\ (k <= n \/ m = 0)
        BY <3>1, <3>2, <3>3
      <4> HIDE DEF k
      <4> QED BY <3>3, <4>1, <4>2, SubSeqProperties
    <3>5. \A i \in 1..m : input[t][i] = script[t][k + i - 1]
      <4> TAKE i \in 1..m
      <4>1. k + i - 1 = n - m + i
        BY <3>1, <3>2
      <4> QED BY <3>2, <4>1
    <3>6. input[t] = rest
      <4> HIDE DEF rest
      <4> QED BY <3>2, <3>4, <3>5, SeqEqual DEF m
    <3> QED BY <3>3, <3>6 DEF n
  <2> QED BY <1>1, <2>1 DEF ConsoleTypeOK, InputOK, CallsOK, Phase
<1> QED BY <1>1, ConsoleInductive, PTL

-----------------------------------------------------------------------------
(* The assertions of the gRPC server.                                      *)

(* What the client has checked is what the server asserts.                 *)
LEMMA WellFormed ==
  ASSUME NEW line, requestOf(line) # Nil, valid(requestOf(line))
  PROVE  ~malformed(requestOf(line))
BY DEF requestOf, valid, malformed, request, Setters

(* The operations of the proxy end the process for other reasons.          *)
LEMMA ProxyFailures ==
  ASSUME NEW t, failure # "malformed",
         \/ serveContext \/ notifyClients(t)
         \/ rpcAssociateAddress(t) \/ rpcRemoveAddress(t) \/ rpcLambda(t)
         \/ rpcNumContexts(t) \/ rpcTable(t) \/ rpcContexts(t)
  PROVE  failure' # "malformed"
<1>1. ASSUME NEW why, why # "malformed", die(why) PROVE failure' # "malformed"
  BY <1>1 DEF die
<1>2. CASE serveContext
  BY <1>1, <1>2 DEF serveContext, createContext, createContext_Duplicate,
                    updateContext, deleteContext, deleteContext_NotIndexed
<1>3. CASE notifyClients(t)
  BY <1>1, <1>3 DEF notifyClients, skipNotification, skipNotification_Empty,
                    postNotification, answerRefused, purge, answerAccepted,
                    postFailed, forget
<1>4. CASE rpcAssociateAddress(t) \/ rpcRemoveAddress(t)
  BY <1>1, <1>4 DEF rpcAssociateAddress, rpcRemoveAddress, vars,
                    associateAddress, associateAddress_Unrouted, removeAddress,
                    notifyClients_Locked
<1>5. CASE rpcLambda(t) \/ rpcTable(t) \/ rpcContexts(t)
  BY <1>5 DEF rpcLambda, rpcTable, rpcContexts, vars
<1>6. CASE rpcNumContexts(t)
  BY <1>1, <1>6 DEF rpcNumContexts, vars
<1> QED BY <1>2, <1>3, <1>4, <1>5, <1>6

(* Nothing typed at any console ends the server: the checks of the client  *)
(* cover the assertions of the handlers.                                   *)
THEOREM AssertionsAlwaysHold == ConsoleSpec => []ServerAssertionsHold
<1>1. ConsoleInit => ServerAssertionsHold
  BY DEF ConsoleInit, Init, ServerAssertionsHold
<1>2. ASSUME InputOK, CallsOK, ServerAssertionsHold, [ConsoleNext]_allVars
      PROVE  ServerAssertionsHold'
  <2>1. ASSUME NEW t \in Thread, serve(t) PROVE failure' # "malformed"
    <3>1. PICK k \in 1..Len(script[t]) : call[t] = requestOf(script[t][k])
      BY <1>2, <2>1 DEF serve, CallsOK
    <3>2. ~malformed(call[t])
      BY <1>2, <2>1, <3>1, WellFormed DEF serve, CallsOK
    <3> QED BY <1>2, <2>1, <3>2, ProxyFailures DEF serve, ServerAssertionsHold
  <2>2. ASSUME NEW t \in Thread, notifyClients(t) PROVE failure' # "malformed"
    BY <1>2, <2>2, ProxyFailures DEF ServerAssertionsHold
  <2>3. ASSUME NEW t \in Thread, main(t) PROVE failure' = failure
    BY <2>3 DEF main, getline, endOfInput, executeAlone, executeCall, callEnds,
                callReturns, send, receive, break, vars
  <2>4. CASE clients
    BY <1>2, <2>4, ProxyFailures DEF clients, ServerAssertionsHold
  <2>5. CASE UNCHANGED allVars
    BY <1>2, <2>5 DEF allVars, vars, ServerAssertionsHold
  <2> QED BY <1>2, <2>1, <2>2, <2>3, <2>4, <2>5
          DEF ConsoleNext, server, ServerAssertionsHold
<1>3. InputOK /\ CallsOK /\ ServerAssertionsHold /\ [ConsoleNext]_allVars
        => ServerAssertionsHold'
  BY <1>2
<1> QED BY <1>1, <1>3, ConsoleInductive, PTL DEF ConsoleSpec

-----------------------------------------------------------------------------
(* One answer to each command, when the input ends with a newline.         *)

(* The last line of every input ends with a newline.                       *)
EndsWithNewline == Newline \subseteq {TRUE}

(* The line that ends a session.                                           *)
quit == <<"quit">>

(* Lines read, and those of them that have been dealt with.                *)
read(t) == Len(script[t]) - Len(input[t])

(* The last line read is still to be dealt with.                           *)
inHand(t) == phase[t] \in {"executing", "calling"} /\ stream[t] = "good"

(* The number of lines that have been dealt with.                          *)
done(t) == IF inHand(t) THEN read(t) - 1 ELSE read(t)

(* The lines up to the n-th that are to be answered.                       *)
toAnswer(t, n) == {k \in 1..n : script[t][k] # <<>>}

(* What has been dealt with is answered, and no line of it was quit.       *)
Answered(t) ==
  /\ answers(output[t], script[t], toAnswer(t, done(t)))
  /\ \A k \in 1..done(t) : script[t][k] # quit

(* Where a session is, what it has written answers what it has read.       *)
Session(t) ==
  /\ \E S : output[t] \in Seq(S)
  /\ stream[t] # "eof"
  /\ stream[t] = "fail" =>
       /\ input[t] = <<>> /\ phase[t] # "calling"
       /\ phase[t] = "executing" => myLine[t] = <<>>
  /\ inHand(t) => read(t) \in Nat \ {0} /\ myLine[t] = script[t][read(t)]
  /\ phase[t] = "calling" =>
       requestOf(myLine[t]) # Nil /\ call[t] = requestOf(myLine[t])
  /\ phase[t] \in {"reading", "executing", "calling"} => Answered(t)
  /\ phase[t] = "success" =>
       answers(output[t], script[t], commands(script[t]))

(* All sessions are.                                                       *)
Sessions ==
  /\ output = [t \in Thread |-> output[t]]
  /\ \A t \in Thread : Session(t)

(* At the start there is nothing to answer, and no answer.                 *)
LEMMA NoAnswers ==
  ASSUME NEW s
  PROVE  answers(<<>>, s, {})
<1>1. Len(<<>>) = 0
  OBVIOUS
<1> DEFINE at == [i \in 1..0 |-> i]
<1>2. at \in [1..0 -> {}]
  OBVIOUS
<1> HIDE DEF at
<1> QED BY <1>1, <1>2 DEF answers

(* A listing may go without an answer.                                     *)
LEMMA ListingPassed ==
  ASSUME NEW out, NEW s, NEW cs, answers(out, s, cs),
         NEW k, answerTo(s[k]) = "list"
  PROVE  answers(out, s, cs \cup {k})
<1>1. PICK at \in [1..Len(out) -> cs] :
        /\ \A i, j \in 1..Len(out) : i < j => at[i] < at[j]
        /\ \A i \in 1..Len(out) : out[i] = answerTo(s[at[i]])
        /\ \A l \in cs :
             answerTo(s[l]) # "list" => \E i \in 1..Len(out) : at[i] = l
  BY DEF answers
<1>2. at \in [1..Len(out) -> cs \cup {k}]
  OBVIOUS
<1> QED BY <1>1, <1>2 DEF answers

(* One line more is one answer more, after the others.                     *)
LEMMA OneMore ==
  ASSUME NEW S, NEW out \in Seq(S), NEW s, NEW n \in Nat,
         NEW cs \in SUBSET (1..n), answers(out, s, cs), NEW v,
         v = answerTo(s[n + 1])
  PROVE  answers(Append(out, v), s, cs \cup {n + 1})
<1> DEFINE m == Len(out)
           more == Append(out, v)
<1>1. PICK at \in [1..m -> cs] :
        /\ \A i, j \in 1..m : i < j => at[i] < at[j]
        /\ \A i \in 1..m : out[i] = answerTo(s[at[i]])
        /\ \A l \in cs : answerTo(s[l]) # "list" => \E i \in 1..m : at[i] = l
  BY DEF answers
<1>2. out \in Seq(S \cup {v})
  OBVIOUS
<1>3. /\ m \in Nat /\ Len(more) = m + 1 /\ more[m + 1] = v
      /\ \A i \in 1..m : more[i] = out[i]
  BY <1>2
<1> DEFINE next == [i \in 1..(m + 1) |-> IF i <= m THEN at[i] ELSE n + 1]
<1> HIDE DEF m, more
<1>4. /\ \A i \in 1..m : next[i] = at[i] /\ at[i] \in cs /\ at[i] \in 1..n
      /\ next[m + 1] = n + 1
  <2>1. m + 1 \in 1..(m + 1) /\ ~(m + 1 <= m)
    BY <1>3
  <2>2. ASSUME NEW i \in 1..m PROVE i \in 1..(m + 1) /\ i <= m
    BY <1>3
  <2>3. \A i \in 1..m : at[i] \in cs /\ at[i] \in 1..n
    OBVIOUS
  <2> QED BY <2>1, <2>2, <2>3
<1>5. \A i \in 1..(m + 1) : i \in 1..m \/ i = m + 1
  BY <1>3
<1>6. next \in [1..(m + 1) -> cs \cup {n + 1}]
  BY <1>3
<1> HIDE DEF next
<1>7. \A i, j \in 1..(m + 1) : i < j => next[i] < next[j]
  <2> SUFFICES ASSUME NEW i \in 1..(m + 1), NEW j \in 1..(m + 1), i < j
               PROVE  next[i] < next[j]
    OBVIOUS
  <2>1. i \in 1..m
    BY <1>3
  <2>2. CASE j \in 1..m
    BY <1>1, <1>4, <2>1, <2>2
  <2>3. CASE j = m + 1
    BY <1>4, <2>1, <2>3
  <2> QED BY <1>5, <2>2, <2>3
<1>8. \A i \in 1..(m + 1) : more[i] = answerTo(s[next[i]])
  BY <1>1, <1>3, <1>4, <1>5
<1>9. ASSUME NEW l \in cs \cup {n + 1}, answerTo(s[l]) # "list"
      PROVE  \E i \in 1..(m + 1) : next[i] = l
  <2>1. CASE l \in cs
    <3>1. PICK i \in 1..m : at[i] = l
      BY <1>1, <1>9, <2>1
    <3>2. i \in 1..(m + 1)
      BY <1>3
    <3> QED BY <1>4, <3>1, <3>2
  <2>2. CASE l = n + 1
    <3>1. m + 1 \in 1..(m + 1)
      BY <1>3
    <3> QED BY <1>4, <2>2, <3>1
  <2> QED BY <2>1, <2>2
<1>10. answers(more, s, cs \cup {n + 1})
  BY <1>3, <1>6, <1>7, <1>8, <1>9 DEF answers
<1> QED BY <1>10 DEF more

(* What is answered stays answered.                                        *)
LEMMA StillAnswers ==
  ASSUME NEW t, script' = script, output'[t] = output[t]
  PROVE  /\ \A n : toAnswer(t, n)' = toAnswer(t, n)
         /\ commands(script[t])' = commands(script[t])
         /\ \A cs : answers(output[t], script[t], cs)' =
                      answers(output[t], script[t], cs)
<1>1. /\ \A n : toAnswer(t, n)' = toAnswer(t, n)
      /\ commands(script[t])' = commands(script[t])
  BY DEF toAnswer, commands
<1>2. \A line : answerTo(line)' = answerTo(line)
  OBVIOUS
<1>3. \A cs : answers(output[t], script[t], cs)' =
                 answers(output[t], script[t], cs)
  BY <1>2 DEF answers
<1> QED BY <1>1, <1>3

(* The numbers of lines are numbers.                                       *)
LEMMA ReadType ==
  ASSUME InputOK, NEW t \in Thread
  PROVE  /\ read(t) \in Nat /\ Len(input[t]) \in Nat /\ Len(script[t]) \in Nat
         /\ read(t) <= Len(script[t])
<1>1. Len(script[t]) \in Nat
  BY ScriptType
<1>2. Len(input[t]) \in Nat /\ Len(input[t]) <= Len(script[t])
  BY DEF InputOK, Suffix
<1>3. \A n, m \in Nat : m <= n => n - m \in Nat /\ n - m <= n
  OBVIOUS
<1> QED BY <1>1, <1>2, <1>3 DEF read

(* Whoever else runs, a session stays as it is.                            *)
LEMMA OtherSession ==
  ASSUME NEW t \in Thread, Session(t), UNCHANGED script,
         input'[t] = input[t], stream'[t] = stream[t], myLine'[t] = myLine[t],
         phase'[t] = phase[t], output'[t] = output[t], call'[t] = call[t]
  PROVE  Session(t)'
<1>1. read(t)' = read(t) /\ (inHand(t)' <=> inHand(t))
  BY DEF read, inHand
<1>2. done(t)' = done(t)
  BY <1>1 DEF done
<1>3. Answered(t) => Answered(t)'
  BY <1>2, StillAnswers DEF Answered
<1>4. commands(script[t])' = commands(script[t])
  BY StillAnswers
<1>5. answers(output[t], script[t], commands(script[t]))
        => answers(output[t], script[t], commands(script[t]))'
  BY <1>4, StillAnswers
<1> QED BY <1>1, <1>3, <1>5 DEF Session

(* A line is read.                                                         *)
LEMMA GetlineSession ==
  ASSUME EndsWithNewline, InputOK, NEW t \in Thread, Session(t), getline(t)
  PROVE  Session(t)'
<1>1. /\ script' = script /\ output' = output
      /\ phase[t] = "reading" /\ phase'[t] = "executing"
  BY DEF getline, set, InputOK
<1>2. newline[t] = TRUE
  BY DEF InputOK, EndsWithNewline
<1>3. ~inHand(t) /\ done(t) = read(t) /\ Answered(t)
  BY <1>1 DEF inHand, done, Session
<1>4. ASSUME done(t)' = read(t) PROVE Answered(t)'
  BY <1>1, <1>3, <1>4, StillAnswers DEF Answered
<1>5. CASE /\ input[t] = <<>> /\ stream'[t] = "fail"
           /\ myLine'[t] = <<>> /\ input' = input
  <2>1. ~inHand(t)' /\ read(t)' = read(t)
    BY <1>1, <1>5 DEF inHand, read
  <2>2. done(t)' = read(t)
    BY <2>1 DEF done
  <2> QED BY <1>1, <1>4, <1>5, <2>1, <2>2 DEF Session
<1>6. CASE /\ input[t] # <<>> /\ stream'[t] = "good"
           /\ myLine'[t] = Head(input[t]) /\ input'[t] = Tail(input[t])
  <2>1. input[t] \in Seq(lines(t)) /\ Len(input[t]) \in Nat /\ Len(input[t]) > 0
    BY <1>6 DEF InputOK, Suffix
  <2>2. Len(Tail(input[t])) = Len(input[t]) - 1 /\ Head(input[t]) = input[t][1]
    BY <2>1
  <2>3. Len(script[t]) \in Nat /\ read(t) \in Nat
    BY ReadType
  <2>4. read(t)' = read(t) + 1
    <3> DEFINE n == Len(script[t])
               m == Len(input[t])
    <3>1. Len(script'[t]) = n /\ Len(input'[t]) = m - 1
      BY <1>1, <1>6, <2>2
    <3>2. n \in Nat /\ m \in Nat
      BY <2>1, <2>3
    <3>3. read(t)' = n - (m - 1) /\ read(t) = n - m
      BY <3>1 DEF read
    <3> HIDE DEF n, m
    <3> QED BY <3>2, <3>3
  <2>5. inHand(t)' /\ done(t)' = read(t)
    BY <1>1, <1>6, <2>3, <2>4 DEF inHand, done
  <2>6. myLine'[t] = script[t][read(t) + 1]
    <3>1. 1 \in 1..Len(input[t])
      BY <2>1
    <3> QED BY <1>6, <2>2, <3>1 DEF InputOK, Suffix, read
  <2>7. read(t)' \in Nat \ {0} /\ myLine'[t] = script'[t][read(t)']
    BY <1>1, <2>3, <2>4, <2>6
  <2> QED BY <1>1, <1>4, <1>6, <2>5, <2>7 DEF Session
<1>7. stream[t] # "eof"
  BY DEF Session
<1> QED BY <1>2, <1>5, <1>6, <1>7 DEF getline, set, InputOK

(* The line in hand is dealt with: answered, or passed over if it is empty *)
(* or lists nothing.                                                       *)
LEMMA DealtWith ==
  ASSUME InputOK, NEW t \in Thread, Session(t), inHand(t),
         myLine[t] # quit, UNCHANGED <<script, input, stream, myLine>>,
         phase'[t] = "reading",
         \/ myLine[t] = <<>> /\ output'[t] = output[t]
         \/ /\ myLine[t] # <<>> /\ answerTo(myLine[t]) = "list"
            /\ output'[t] = output[t]
         \/ /\ myLine[t] # <<>>
            /\ output'[t] = Append(output[t], answerTo(myLine[t]))
  PROVE  Session(t)'
<1> DEFINE n == done(t)
           s == script[t]
           cs == toAnswer(t, n)
<1>1. read(t) \in Nat \ {0} /\ myLine[t] = s[read(t)] /\ Answered(t)
  BY DEF Session, inHand
<1>2. n \in Nat /\ read(t) = n + 1
  BY <1>1 DEF done
<1>3. ~inHand(t)' /\ read(t)' = n + 1 /\ done(t)' = n + 1
  BY <1>2 DEF inHand, read, done
<1>4. PICK S : output[t] \in Seq(S)
  BY DEF Session
<1>5. answers(output[t], s, cs)
  BY <1>1 DEF Answered
<1>6. s[n + 1] = myLine[t]
  BY <1>1, <1>2
<1>7. ASSUME myLine[t] # <<>>
      PROVE  toAnswer(t, n + 1) = cs \cup {n + 1} /\ cs \in SUBSET (1..n)
  BY <1>2, <1>6, <1>7 DEF toAnswer
<1>8. /\ \E T : output'[t] \in Seq(T)
      /\ answers(output'[t], s, toAnswer(t, n + 1))
  <2>1. CASE myLine[t] = <<>> /\ output'[t] = output[t]
    <3>1. toAnswer(t, n + 1) = cs
      BY <1>2, <1>6, <2>1 DEF toAnswer
    <3> HIDE DEF s, cs, n
    <3> QED BY <1>4, <1>5, <2>1, <3>1
  <2>2. CASE /\ myLine[t] # <<>> /\ answerTo(myLine[t]) = "list"
             /\ output'[t] = output[t]
    <3> HIDE DEF s, cs, n
    <3>1. answers(output[t], s, cs \cup {n + 1})
      BY <1>5, <1>6, <2>2, ListingPassed
    <3> QED BY <1>4, <1>7, <2>2, <3>1
  <2>3. CASE /\ myLine[t] # <<>>
             /\ output'[t] = Append(output[t], answerTo(myLine[t]))
    <3> DEFINE v == answerTo(myLine[t])
    <3>1. output[t] \in Seq(S \cup {v})
      BY <1>4
    <3>2. output'[t] \in Seq(S \cup {v})
      BY <2>3, <3>1
    <3> HIDE DEF s, cs, n
    <3>3. v = answerTo(s[n + 1])
      BY <1>6
    <3> HIDE DEF v
    <3>4. answers(Append(output[t], v), s, cs \cup {n + 1})
      BY <1>2, <1>4, <1>5, <1>7, <2>3, <3>3, OneMore
    <3> QED BY <1>7, <2>3, <3>2, <3>4 DEF v
  <2> QED BY <2>1, <2>2, <2>3
<1>9. \A k \in 1..(n + 1) : s[k] # quit
  BY <1>1, <1>2, <1>6 DEF Answered
<1>10. Answered(t)'
  <2>1. toAnswer(t, done(t))' = toAnswer(t, n + 1)
    BY <1>3 DEF toAnswer
  <2> QED BY <1>3, <1>8, <1>9, <2>1 DEF Answered
<1>11. stream[t] = "good"
  BY DEF inHand
<1> QED BY <1>3, <1>8, <1>10, <1>11 DEF Session

(* A line that is quit ends the session; what came before was answered.    *)
LEMMA QuitEnds ==
  ASSUME InputOK, NEW t \in Thread, Session(t), phase[t] = "executing",
         isCommand(myLine[t], "quit", 1),
         UNCHANGED <<script, input, stream, myLine, output>>,
         phase'[t] = "success"
  PROVE  Session(t)'
<1>1. myLine[t] # <<>>
  BY DEF isCommand
<1>2. inHand(t) /\ stream[t] = "good"
  BY <1>1 DEF Session, inHand, InputOK
<1> DEFINE n == read(t)
<1>3. n \in Nat \ {0} /\ myLine[t] = script[t][n] /\ done(t) = n - 1 /\ Answered(t)
  BY <1>2 DEF Session, done
<1>4. n <= Len(script[t]) /\ Len(script[t]) \in Nat
  BY ReadType
<1> HIDE DEF n
<1>5. script[t][n] = quit
  <2>1. isSequence(script[t][n])
    BY <1>3, <1>4, ScriptAssumption DEF InputOK
  <2> QED BY <1>3, <2>1 DEF isSequence, isCommand, quit
<1>6. DOMAIN script[t] = 1..Len(script[t])
  BY ScriptType
<1>7. \A k \in 1..(n - 1) : script[t][k] # quit
  BY <1>3 DEF Answered
<1>8. commands(script[t]) = toAnswer(t, n - 1)
  BY <1>3, <1>4, <1>5, <1>6, <1>7 DEF commands, toAnswer, quit
<1>9. answers(output[t], script[t], commands(script[t]))
  BY <1>3, <1>8 DEF Answered
<1>10. answers(output[t], script[t], commands(script[t]))'
  BY <1>9, StillAnswers
<1>11. ~inHand(t)' /\ stream'[t] = "good"
  BY <1>2 DEF inHand
<1> QED BY <1>10, <1>11 DEF Session

(* At the end of the input all lines have been dealt with.                 *)
LEMMA InputEnds ==
  ASSUME InputOK, NEW t \in Thread, Session(t), phase[t] = "reading",
         stream[t] = "fail",
         UNCHANGED <<script, input, stream, myLine, output>>,
         phase'[t] = "success"
  PROVE  Session(t)'
<1>1. input[t] = <<>> /\ ~inHand(t) /\ Answered(t)
  BY DEF Session, inHand
<1>2. Len(script[t]) \in Nat /\ DOMAIN script[t] = 1..Len(script[t])
  BY ScriptType
<1>3. done(t) = Len(script[t])
  BY <1>1, <1>2 DEF done, read
<1>4. commands(script[t]) = toAnswer(t, Len(script[t]))
  BY <1>1, <1>2, <1>3 DEF commands, toAnswer, Answered, quit
<1>5. answers(output[t], script[t], commands(script[t]))
  BY <1>1, <1>3, <1>4 DEF Answered
<1>6. answers(output[t], script[t], commands(script[t]))'
  BY <1>5, StillAnswers
<1>7. ~inHand(t)' /\ stream'[t] = "fail" /\ input'[t] = <<>>
  BY <1>1 DEF inHand
<1> QED BY <1>6, <1>7 DEF Session

(* The session is given up.                                                *)
LEMMA GivenUp ==
  ASSUME NEW t \in Thread, Session(t),
         UNCHANGED <<script, input, stream, myLine, output>>,
         phase'[t] = "failure"
  PROVE  Session(t)'
<1>1. ~inHand(t)'
  BY DEF inHand
<1> QED BY <1>1 DEF Session

(* The empty line that ends the input is not answered.                     *)
LEMMA LastLine ==
  ASSUME NEW t \in Thread, Session(t), ~inHand(t), phase[t] = "executing",
         UNCHANGED <<script, input, stream, myLine, output>>,
         phase'[t] = "reading"
  PROVE  Session(t)'
<1>1. ~inHand(t)' /\ read(t)' = read(t)
  BY DEF inHand, read
<1>2. done(t)' = done(t)
  BY <1>1 DEF done
<1>3. Answered(t)'
  BY <1>2, StillAnswers DEF Session, Answered
<1> QED BY <1>1, <1>3 DEF Session

(* A call is made for a line that is neither empty nor quit.               *)
LEMMA CallMade ==
  ASSUME InputOK, NEW t \in Thread, Session(t), phase[t] = "executing",
         requestOf(myLine[t]) # Nil,
         UNCHANGED <<script, input, stream, myLine, output>>,
         phase'[t] = "calling", call'[t] = requestOf(myLine[t])
  PROVE  Session(t)'
<1>1. inHand(t) /\ stream[t] = "good"
  BY NoRequest DEF Session, inHand, InputOK
<1>2. inHand(t)' /\ read(t)' = read(t)
  BY <1>1 DEF inHand, read
<1>3. done(t)' = done(t)
  BY <1>1, <1>2 DEF done
<1>4. Answered(t)'
  BY <1>1, <1>3, StillAnswers DEF Session, Answered, inHand
<1> QED BY <1>1, <1>2, <1>4 DEF Session

(* What asks for a call is neither empty nor quit.                         *)
LEMMA NotQuit ==
  ASSUME NEW line, requestOf(line) # Nil
  PROVE  /\ line # <<>> /\ line # quit
         /\ answerTo(line) = kindOf(requestOf(line))
<1>1. line # <<>> /\ line # quit
  BY DEF requestOf, isCommand, Listings, quit
<1>2. line[1] # "help"
  BY DEF requestOf, isCommand, Listings
<1> QED BY <1>1, <1>2 DEF answerTo

(* The steps of a session.                                                 *)
LEMMA SessionStep ==
  ASSUME EndsWithNewline, InputOK, CallsOK, NEW t \in Thread, Session(t),
         main(t), output = [u \in Thread |-> output[u]]
  PROVE  Session(t)'
<1>1. ASSUME NEW p, exit(t, p)
      PROVE  /\ UNCHANGED <<script, input, stream, myLine, output>>
             /\ phase'[t] = p
  BY <1>1 DEF exit, set, InputOK
<1>2. ASSUME NEW v, print(t, v)
      PROVE  /\ UNCHANGED <<script, input, stream, myLine>>
             /\ phase'[t] = "reading" /\ output'[t] = Append(output[t], v)
  BY <1>2 DEF print, set, InputOK
<1>3. ASSUME phase[t] \in {"executing", "calling"}, myLine[t] # <<>>,
             myLine[t] # quit,
             \/ print(t, answerTo(myLine[t]))
             \/ exit(t, "reading") /\ answerTo(myLine[t]) = "list"
      PROVE  Session(t)'
  <2>1. inHand(t)
    BY <1>3 DEF Session, inHand, InputOK
  <2> QED BY <1>1, <1>2, <1>3, <2>1, DealtWith
<1>4. CASE endOfInput(t)
  BY <1>1, <1>4, InputEnds DEF endOfInput
<1>5. CASE executeAlone(t)
  <2>1. CASE myLine[t] = <<>> /\ exit(t, "reading")
    <3>1. myLine[t] # quit
      BY <2>1 DEF quit
    <3>2. phase[t] = "executing"
      BY <1>5 DEF executeAlone
    <3>3. CASE inHand(t)
      BY <1>1, <2>1, <3>1, <3>3, DealtWith
    <3>4. CASE ~inHand(t)
      BY <1>1, <2>1, <3>2, <3>4, LastLine
    <3> QED BY <3>3, <3>4
  <2>2. CASE isCommand(myLine[t], "quit", 1) /\ exit(t, "success")
    BY <1>1, <1>5, <2>2, QuitEnds DEF executeAlone
  <2>3. CASE /\ myLine[t] # <<>>
             /\ \/ myLine[t][1] = "help" /\ print(t, "help")
                \/ /\ myLine[t][1] # "help" /\ requestOf(myLine[t]) = Nil
                   /\ ~isCommand(myLine[t], "quit", 1)
                   /\ print(t, "Invalid command")
    <3>1. quit[1] = "quit" /\ isCommand(quit, "quit", 1)
      BY DEF quit, isCommand
    <3>2. myLine[t] # quit
      BY <2>3, <3>1
    <3>3. print(t, answerTo(myLine[t]))
      BY <2>3 DEF answerTo
    <3> QED BY <1>3, <1>5, <2>3, <3>2, <3>3 DEF executeAlone
  <2> QED BY <1>5, <2>1, <2>2, <2>3 DEF executeAlone
<1>6. CASE executeCall(t)
  <2>1. CASE send(t, requestOf(myLine[t])) /\ exit(t, "calling")
    <3>1. call'[t] = requestOf(myLine[t])
      BY <2>1 DEF send, CallsOK
    <3> QED BY <1>1, <1>6, <2>1, <3>1, CallMade DEF executeCall
  <2>2. CASE exit(t, "failure")
    BY <1>1, <2>2, GivenUp
  <2> QED BY <1>6, <2>1, <2>2 DEF executeCall
<1>7. CASE callEnds(t)
  <2>1. CASE callReturns(t)
    <3>1. /\ myLine[t] # <<>> /\ myLine[t] # quit
          /\ answerTo(myLine[t]) = kindOf(call[t])
      BY <1>7, NotQuit DEF callEnds, Session
    <3>2. CASE print(t, kindOf(call[t]))
      BY <1>3, <1>7, <3>1, <3>2 DEF callEnds
    <3>3. CASE call[t].method \in Listings /\ exit(t, "reading")
      <4>1. kindOf(call[t]) = "list"
        BY <3>3 DEF kindOf, Listings, Setters
      <4> QED BY <1>3, <1>7, <3>1, <3>3, <4>1 DEF callEnds
    <3> QED BY <2>1, <3>2, <3>3 DEF callReturns
  <2>2. CASE exit(t, "failure")
    BY <1>1, <2>2, GivenUp
  <2> QED BY <1>7, <2>1, <2>2 DEF callEnds
<1> QED BY <1>4, <1>5, <1>6, <1>7, GetlineSession DEF main

(* When the input ends with a newline, a session that ends, at its end or  *)
(* at quit, has given every command one answer, of its kind and in its     *)
(* turn, but for the listings of nothing: these are given none.            *)
THEOREM AlwaysOneAnswer ==
  ASSUME EndsWithNewline
  PROVE  ConsoleSpec => []OneAnswerEach
<1>1. ConsoleInit => Sessions
  <2> SUFFICES ASSUME ConsoleInit PROVE Sessions
    OBVIOUS
  <2>1. InputOK
    BY InitInput
  <2>2. ASSUME NEW t \in Thread PROVE Session(t)
    <3>1. /\ input[t] = script[t] /\ stream[t] = "good" /\ phase[t] = "reading"
          /\ output[t] = <<>>
      BY DEF ConsoleInit
    <3>2. ~inHand(t) /\ done(t) = 0
      BY <2>1, <3>1, ReadType DEF inHand, done, read
    <3>3. toAnswer(t, 0) = {}
      BY DEF toAnswer
    <3>4. Answered(t)
      <4>1. \A k \in 1..0 : script[t][k] # quit
        OBVIOUS
      <4> QED BY <3>1, <3>2, <3>3, <4>1, NoAnswers DEF Answered
    <3> QED BY <3>1, <3>2, <3>4 DEF Session
  <2> QED BY <2>2 DEF Sessions, ConsoleInit
<1>2. InputOK /\ CallsOK /\ Sessions /\ [ConsoleNext]_allVars => Sessions'
  <2> SUFFICES ASSUME InputOK, CallsOK, Sessions, [ConsoleNext]_allVars
               PROVE  Sessions'
    OBVIOUS
  <2>1. ASSUME UNCHANGED <<consoleVars, call>> PROVE Sessions'
    BY <2>1, OtherSession DEF Sessions, consoleVars
  <2>2. ASSUME NEW t \in Thread, main(t) PROVE Sessions'
    <3>1. Session(t)'
      BY <2>2, SessionStep DEF Sessions
    <3>2. /\ script' = script
          /\ \A u \in Thread \ {t} :
               /\ input'[u] = input[u] /\ stream'[u] = stream[u]
               /\ myLine'[u] = myLine[u] /\ phase'[u] = phase[u]
      BY <2>2, MainEffect DEF getline, set, inputVars, InputOK
    <3>3. \A u \in Thread \ {t} : call'[u] = call[u]
      BY <2>2 DEF main, getline, endOfInput, executeAlone, executeCall, callEnds,
                  callReturns, send, receive, break, rpcVars, CallsOK
    <3>4. \/ output' = output
          \/ \E v : output' = set(output, t, Append(output[t], v))
      BY <2>2 DEF main, getline, endOfInput, executeAlone, executeCall, callEnds,
                  callReturns, exit, print
    <3>5. /\ output' = [u \in Thread |-> output'[u]]
          /\ \A u \in Thread \ {t} : output'[u] = output[u]
      BY <3>4 DEF Sessions, set
    <3>6. ASSUME NEW u \in Thread \ {t} PROVE Session(u)'
      BY <3>2, <3>3, <3>5, OtherSession DEF Sessions
    <3> QED BY <3>1, <3>5, <3>6 DEF Sessions
  <2>3. ASSUME NEW t \in Thread, serve(t) PROVE UNCHANGED call
    BY <2>3 DEF serve, rpcAssociateAddress, rpcRemoveAddress, rpcLambda,
                rpcNumContexts, rpcTable, rpcContexts, returns, rpcVars
  <2> QED BY <2>1, <2>2, <2>3
          DEF ConsoleNext, clients, server, allVars, rpcVars
<1>3. Sessions => OneAnswerEach
  BY DEF Sessions, Session, OneAnswerEach
<1> QED BY <1>1, <1>2, <1>3, ConsoleInductive, PTL DEF ConsoleSpec

-----------------------------------------------------------------------------
(* OK means done, when no name is too long.                                *)

(* AppInfo accepts the names of the lambda functions in the scripts.       *)
ShortNames ==
  \A s \in Script, t \in Thread : \A k \in 1..Len(s[t]) :
    LET q == requestOf(s[t][k]) IN
    q # Nil /\ valid(q) /\ q.method \in {"addLambda", "delLambda"} =>
      lambda(q.appname) # Thrown

(* The application of a lambda function, as the registry has it.           *)
lambdaApp(n) == Msg!appOf(lambda(n))

(* What a call under way may ask for.                                      *)
LEMMA CallType ==
  ASSUME InputOK, CallsOK, NEW t \in Thread, call[t] # Nil
  PROVE  LET q == call[t]
         IN  /\ valid(q) /\ ~malformed(q)
             /\ q.method \in {"associateAddress", "removeAddress"} =>
                  q.client \in Address \cup {Empty} /\ q.appname \in AppName
             /\ q.method = "associateAddress" => q.server \in Router
             /\ q.method \in {"addLambda", "delLambda"} =>
                  /\ \/ lambda(q.appname) = Thrown
                     \/ lambdaApp(q.appname) \in AppInfo
                  /\ ShortNames => lambda(q.appname) # Thrown
<1>1. PICK k \in 1..Len(script[t]) : call[t] = requestOf(script[t][k])
  BY DEF CallsOK
<1>2. script \in Script /\ valid(call[t])
  BY DEF InputOK, CallsOK
<1>3. ~malformed(call[t])
  BY <1>1, <1>2, WellFormed
<1>4. call[t].method \in Setters => call[t].appname # Empty
  BY <1>2 DEF valid
<1>5. call[t].method = "associateAddress" => call[t].server # Empty
  BY <1>2 DEF valid
<1>6. LET q == call[t]
      IN  /\ q.method \in {"associateAddress", "removeAddress"} =>
               /\ q.client \in Address \cup {Empty}
               /\ q.appname \in AppName \cup {Empty}
          /\ q.method = "associateAddress" => q.server \in Router \cup {Empty}
          /\ q.method \in {"addLambda", "delLambda"} =>
               \/ lambda(q.appname) = Thrown
               \/ lambdaApp(q.appname) \in AppInfo
  <2>1. requestOf(script[t][k]) # Nil
    BY <1>1
  <2> QED BY <1>1, <1>2, <2>1, LineAssumption DEF lambdaApp
<1>7. call[t].method \in {"addLambda", "delLambda"} =>
        (ShortNames => lambda(call[t].appname) # Thrown)
  <2>1. requestOf(script[t][k]) # Nil /\ valid(requestOf(script[t][k]))
    BY <1>1, <1>2
  <2> QED BY <1>1, <1>2, <2>1 DEF ShortNames
<1> QED BY <1>2, <1>3, <1>4, <1>5, <1>6, <1>7 DEF Setters

(* The names of a lambda function.                                         *)
LEMMA LambdaNames ==
  ASSUME NEW n, lambda(n) # Thrown
  PROVE  lambdaApp(n).appName = n
BY DEF lambdaApp, lambda, Msg!appOf, Msg!AppInfoListed, Msg!build

(* What serving a call does to the registry and the table.                 *)
LEMMA ServeEffect ==
  ASSUME NEW t \in Thread, serve(t), ~malformed(call[t])
  PROVE  LET q == call[t] IN
         \/ die("sizesDiffer") /\ UNCHANGED rpcVars
         \/ /\ UNCHANGED vars /\ call' = call
            /\ q.method = "associateAddress" /\ valid(q) =>
                 theTable[<<q.client, q.appname>>] = q.server
            /\ q.method = "removeAddress" => ~valid(q)
            /\ q.method \in {"addLambda", "delLambda"} =>
                 lambda(q.appname) = Thrown
         \/ /\ q.method = "associateAddress" /\ call' = call
            /\ associateAddress(t, q.client, q.appname, q.server)
         \/ /\ q.method = "associateAddress" /\ UNCHANGED rpcVars
            /\ associateAddress_Unrouted(t, q.client, q.appname, q.server)
         \/ /\ q.method = "removeAddress" /\ call' = call
            /\ removeAddress(t, q.client, q.appname)
         \/ notifyClients_Locked(t) /\ UNCHANGED rpcVars
         \/ /\ q.method = "addLambda" /\ call' = call
            /\ lambda(q.appname) # Thrown /\ addApp(lambdaApp(q.appname))
            /\ UNCHANGED <<theTable, contextVars, notifyVars, failure>>
         \/ /\ q.method = "delLambda" /\ call' = call
            /\ lambda(q.appname) # Thrown /\ delApp(lambdaApp(q.appname))
            /\ UNCHANGED <<theTable, contextVars, notifyVars, failure>>
<1>1. CASE rpcAssociateAddress(t)
  BY <1>1 DEF rpcAssociateAddress, returns, valid, Setters
<1>2. CASE rpcRemoveAddress(t)
  BY <1>2 DEF rpcRemoveAddress, returns, valid, Setters
<1>3. CASE rpcLambda(t)
  BY <1>3 DEF rpcLambda, returns, lambdaApp
<1>4. CASE rpcNumContexts(t)
  BY <1>4 DEF rpcNumContexts, returns
<1>5. CASE rpcTable(t) \/ rpcContexts(t)
  BY <1>5 DEF rpcTable, rpcContexts, returns
<1> QED BY <1>1, <1>2, <1>3, <1>4, <1>5 DEF serve

(* Every reply but to a call that ends the process comes with its effect;  *)
(* nothing but a call changes the table or the registry.                   *)
LEMMA ProxyOrCall ==
  ASSUME [ConsoleNext]_allVars
  PROVE  \/ \E t \in Thread : serve(t) /\ UNCHANGED consoleVars
         \/ UNCHANGED <<vars, rpcVars, script>>
         \/ \E t \in Thread : main(t) /\ UNCHANGED vars
         \/ /\ UNCHANGED <<theTable, theApplications, rpcVars, consoleVars>>
            /\ serveContext \/ \E t \in Thread : notifyClients(t)
<1>1. CASE UNCHANGED allVars
  BY <1>1 DEF allVars, consoleVars
<1>2. CASE clients
  <2> DEFINE Same == UNCHANGED <<theTable, theApplications>>
  <2>1. ASSUME NEW why, die(why) PROVE Same
    BY <2>1 DEF die
  <2>2. ASSUME NEW a, NEW x, NEW u, NEW cb, NEW c,
               \/ createContext(a, x, u, cb, c)
               \/ createContext_Duplicate(a, x, u)
        PROVE  Same
    BY <2>1, <2>2 DEF createContext, createContext_Duplicate
  <2>3. ASSUME NEW u, NEW cb, updateContext(u, cb) PROVE Same
    BY <2>3 DEF updateContext
  <2>4. ASSUME NEW c, deleteContext(c) \/ deleteContext_NotIndexed(c)
        PROVE  Same
    BY <2>1, <2>4 DEF deleteContext, deleteContext_NotIndexed
  <2> HIDE DEF Same
  <2>5. serveContext => Same
    BY <2>2, <2>3, <2>4 DEF serveContext
  <2> QED BY <1>2, <2>5 DEF clients, Same
<1>3. ASSUME NEW t \in Thread, server(t), ~serve(t)
      PROVE  /\ UNCHANGED <<theTable, theApplications, rpcVars, consoleVars>>
             /\ notifyClients(t)
  BY <1>3 DEF server, notifyClients, skipNotification, skipNotification_Empty,
              postNotification, answerRefused, answerAccepted, postFailed,
              forget, die
<1>4. ASSUME NEW t \in Thread, main(t) PROVE UNCHANGED vars
  BY <1>4 DEF main, getline, endOfInput, executeAlone, executeCall, callEnds,
              callReturns, send, receive, break
<1> QED BY <1>1, <1>2, <1>3, <1>4 DEF ConsoleNext, server

(* A call does nothing to the proxy that one of its operations does not    *)
(* do, but for the assertion on the sizes of the maps.                     *)
LEMMA ConsoleSteps ==
  ASSUME InputOK, CallsOK, [ConsoleNext]_allVars
  PROVE  [Next]_vars \/ die("sizesDiffer")
<1>1. ASSUME NEW t \in Thread, serve(t)
      PROVE  [Next]_vars \/ die("sizesDiffer")
  <2> DEFINE q == call[t]
  <2>1. call[t] # Nil /\ alive
    BY <1>1 DEF serve
  <2>2. /\ valid(q) /\ ~malformed(q)
        /\ q.method \in {"associateAddress", "removeAddress"} =>
             q.client \in Address \cup {Empty} /\ q.appname \in AppName
        /\ q.method = "associateAddress" => q.server \in Router
        /\ q.method \in {"addLambda", "delLambda"} =>
             lambda(q.appname) = Thrown \/ lambdaApp(q.appname) \in AppInfo
    BY <2>1, CallType
  <2> HIDE DEF q
  <2>3. ASSUME q.method \in {"associateAddress", "removeAddress"},
               \/ /\ q.method = "associateAddress"
                  /\ \/ associateAddress(t, q.client, q.appname, q.server)
                     \/ associateAddress_Unrouted(t, q.client, q.appname, q.server)
               \/ removeAddress(t, q.client, q.appname)
        PROVE  changeTable(t)
    BY <2>2, <2>3 DEF changeTable
  <2>4. notifyClients_Locked(t) => changeTable(t)
    BY DEF changeTable
  <2>5. ASSUME lambdaApp(q.appname) \in AppInfo,
               addApp(lambdaApp(q.appname)) \/ delApp(lambdaApp(q.appname)),
               UNCHANGED <<theTable, contextVars, notifyVars, failure>>
        PROVE  changeApps
    BY <2>1, <2>5 DEF changeApps, AppsNext
  <2> QED BY <1>1, <2>2, <2>3, <2>4, <2>5, ServeEffect DEF Next, q
<1>2. CASE serveContext \/ \E t \in Thread : notifyClients(t)
  BY <1>2 DEF Next
<1> QED BY <1>1, <1>2, ProxyOrCall

(* The proxy keeps its invariant.                                          *)
LEMMA ConsoleProxyStep ==
  ASSUME InputOK, CallsOK, IInv, [ConsoleNext]_allVars
  PROVE  IInv'
<1>1. ASSUME NEW why \in Failure, die(why) PROVE IInv'
  BY <1>1 DEF IInv, die, contextVars, notifyVars, TypeOK, AppsTypeOK,
              IteratorsValid, EveryContextIndexed, RoutesCurrent, live
<1>2. ASSUME [Next]_vars PROVE IInv'
  BY <1>2, NextIInv
<1> QED BY <1>1, <1>2, ConsoleSteps DEF Failure

(* Whoever's command it is, all that is registered through the interface   *)
(* is a lambda function.                                                   *)
Lambdas ==
  \A k \in AppKey : theApplications[k] # Nil =>
    \E n : lambda(n) # Thrown /\ theApplications[k] = lambdaApp(n)

(* What the call of a thread has left behind, once it has a reply.         *)
Served(t) ==
  LET q == call[t] IN
  reply[t] # Nil /\ alone(t) =>
    /\ q.method = "associateAddress" =>
         theTable[<<q.client, q.appname>>] = q.server
    /\ q.method = "removeAddress" => theTable[<<q.client, q.appname>>] = Nil
    /\ q.method = "addLambda" =>
         theApplications[mangle(lambdaApp(q.appname))] = lambdaApp(q.appname)
    /\ q.method = "delLambda" =>
         theApplications[mangle(lambdaApp(q.appname))] = Nil

(* The inductive invariant.                                                *)
DoneInv ==
  /\ InputOK /\ CallsOK /\ IInv
  /\ Lambdas /\ StoredUnderKey /\ \A t \in Thread : Served(t)

(* The registry is changed by the calls about lambda functions only.       *)
LEMMA RegistrySteps ==
  ASSUME InputOK, CallsOK, [ConsoleNext]_allVars
  PROVE  \/ UNCHANGED theApplications
         \/ \E n : /\ lambda(n) # Thrown /\ lambdaApp(n) \in AppInfo
                   /\ addApp(lambdaApp(n)) \/ delApp(lambdaApp(n))
<1>1. ASSUME NEW t \in Thread, serve(t)
      PROVE  \/ UNCHANGED theApplications
             \/ \E n : /\ lambda(n) # Thrown /\ lambdaApp(n) \in AppInfo
                       /\ addApp(lambdaApp(n)) \/ delApp(lambdaApp(n))
  <2>1. call[t] # Nil
    BY <1>1 DEF serve
  <2>2. /\ ~malformed(call[t])
        /\ call[t].method \in {"addLambda", "delLambda"} =>
             \/ lambda(call[t].appname) = Thrown
             \/ lambdaApp(call[t].appname) \in AppInfo
    BY <2>1, CallType
  <2> QED BY <1>1, <2>2, ServeEffect
          DEF vars, die, associateAddress, associateAddress_Unrouted,
              removeAddress, notifyClients_Locked
<1> QED BY <1>1, ProxyOrCall DEF vars

(* So lambda functions it keeps to, each under its own key.                *)
LEMMA RegistryStep ==
  ASSUME InputOK, CallsOK, IInv, Lambdas, StoredUnderKey, [ConsoleNext]_allVars
  PROVE  Lambdas' /\ StoredUnderKey'
<1>1. AppsTypeOK
  BY DEF IInv, TypeOK
<1>2. AppsNext \/ UNCHANGED theApplications
  BY RegistrySteps DEF AppsNext
<1>3. StoredUnderKey'
  BY <1>1, <1>2, StoredStep
<1>4. ASSUME NEW n, lambda(n) # Thrown,
             addApp(lambdaApp(n)) \/ delApp(lambdaApp(n))
      PROVE  Lambdas'
  <2>1. \A k \in AppKey : theApplications'[k] \in {Nil, lambdaApp(n), theApplications[k]}
    BY <1>1, <1>4 DEF addApp, delApp, AppsTypeOK
  <2> QED BY <1>4, <2>1 DEF Lambdas
<1>5. CASE UNCHANGED theApplications
  BY <1>3, <1>5 DEF Lambdas
<1> QED BY <1>3, <1>4, <1>5, RegistrySteps

(* Who is alone is the one that has a call under way.                      *)
LEMMA OnlyCaller ==
  ASSUME InputOK, CallsOK, NEW t \in Thread, call[t] # Nil,
         NEW u \in Thread, alone(u)
  PROVE  u = t
<1>1. PICK k \in 1..Len(script[t]) : call[t] = requestOf(script[t][k])
  BY DEF CallsOK
<1>2. script[t] # <<>>
  BY <1>1
<1> QED BY <1>2 DEF alone

(* A call that has been served has had its effect.                         *)
LEMMA ServeServed ==
  ASSUME ShortNames, InputOK, CallsOK, IInv, NEW t \in Thread, serve(t),
         UNCHANGED consoleVars
  PROVE  \A u \in Thread : Served(u)'
<1>1. call[t] # Nil /\ reply[t] = Nil
  BY DEF serve
<1> SUFFICES ASSUME NEW u \in Thread, reply'[u] # Nil, alone(u)' PROVE Served(u)'
  BY DEF Served
<1>2. alone(u)
  BY DEF alone, consoleVars
<1>3. u = t
  BY <1>1, <1>2, OnlyCaller
<1> DEFINE q == call[t]
<1>4. /\ valid(q) /\ ~malformed(q)
      /\ q.method \in {"associateAddress", "removeAddress"} =>
           q.client \in Address \cup {Empty} /\ q.appname \in AppName
      /\ q.method \in {"addLambda", "delLambda"} =>
           lambdaApp(q.appname) \in AppInfo /\ lambda(q.appname) # Thrown
  BY <1>1, CallType
<1>5. ~UNCHANGED rpcVars
  BY <1>1, <1>3 DEF rpcVars
<1>6. call'[u] = q
  BY <1>3, <1>4, <1>5, ServeEffect
<1>7. /\ theTable \in [AddressAppKey -> Router \cup {Nil}]
      /\ theApplications \in [AppKey -> AppInfo \cup {Nil}]
  BY DEF IInv, TypeOK, AppsTypeOK
<1> HIDE DEF q
<1>8. CASE q.method = "associateAddress"
  <2>1. <<q.client, q.appname>> \in AddressAppKey
    BY <1>4, <1>8 DEF AddressAppKey
  <2>2. theTable'[<<q.client, q.appname>>] = q.server
    <3>1. \/ UNCHANGED vars /\ theTable[<<q.client, q.appname>>] = q.server
          \/ associateAddress(t, q.client, q.appname, q.server)
      BY <1>4, <1>5, <1>8, ServeEffect DEF q
    <3> QED BY <1>7, <2>1, <3>1 DEF associateAddress, vars
  <2> QED BY <1>6, <1>8, <2>2 DEF Served
<1>9. CASE q.method = "removeAddress"
  <2>1. <<q.client, q.appname>> \in AddressAppKey
    BY <1>4, <1>9 DEF AddressAppKey
  <2>2. removeAddress(t, q.client, q.appname)
    BY <1>4, <1>5, <1>9, ServeEffect DEF q
  <2>3. theTable'[<<q.client, q.appname>>] = Nil
    BY <1>7, <2>1, <2>2 DEF removeAddress
  <2> QED BY <1>6, <1>9, <2>3 DEF Served
<1>10. CASE q.method = "addLambda"
  <2>1. addApp(lambdaApp(q.appname))
    BY <1>4, <1>5, <1>10, ServeEffect DEF q
  <2>2. mangle(lambdaApp(q.appname)) \in AppKey
    BY <1>4, <1>10 DEF AppKey
  <2>3. theApplications'[mangle(lambdaApp(q.appname))] = lambdaApp(q.appname)
    BY <1>7, <2>1, <2>2 DEF addApp
  <2> QED BY <1>6, <1>10, <2>3 DEF Served
<1>11. CASE q.method = "delLambda"
  <2>1. delApp(lambdaApp(q.appname))
    BY <1>4, <1>5, <1>11, ServeEffect DEF q
  <2>2. mangle(lambdaApp(q.appname)) \in AppKey
    BY <1>4, <1>11 DEF AppKey
  <2>3. theApplications'[mangle(lambdaApp(q.appname))] = Nil
    BY <1>7, <2>1, <2>2 DEF delApp
  <2> QED BY <1>6, <1>11, <2>3 DEF Served
<1> QED BY <1>6, <1>8, <1>9, <1>10, <1>11 DEF Served

(* Nothing undoes it before the call returns.                              *)
LEMMA ServedStep ==
  ASSUME ShortNames, DoneInv, [ConsoleNext]_allVars
  PROVE  \A u \in Thread : Served(u)'
<1>1. ASSUME NEW t \in Thread, serve(t), UNCHANGED consoleVars
      PROVE  \A u \in Thread : Served(u)'
  BY <1>1, ServeServed DEF DoneInv
<1>2. ASSUME UNCHANGED <<theTable, theApplications, script>>, NEW u \in Thread,
             reply'[u] # Nil => call'[u] = call[u] /\ reply'[u] = reply[u]
      PROVE  Served(u)'
  <2>1. alone(u)' = alone(u)
    BY <1>2 DEF alone
  <2>2. Served(u)
    BY DEF DoneInv
  <2> QED BY <1>2, <2>1, <2>2 DEF Served
<1>3. CASE UNCHANGED <<theTable, theApplications, rpcVars, script>>
  BY <1>2, <1>3 DEF rpcVars
<1>4. ASSUME NEW t \in Thread, main(t), UNCHANGED vars
      PROVE  \A u \in Thread : Served(u)'
  <2>1. script' = script
    BY <1>4, MainEffect DEF getline, inputVars
  <2>2. \/ UNCHANGED rpcVars
        \/ send(t, requestOf(myLine[t]))
        \/ receive(t) \/ break(t)
    BY <1>4 DEF main, getline, endOfInput, executeAlone, executeCall, callEnds,
                callReturns
  <2>3. ASSUME NEW u \in Thread, reply'[u] # Nil
        PROVE  call'[u] = call[u] /\ reply'[u] = reply[u]
    <3>1. CallsOK
      BY DEF DoneInv
    <3>2. CASE UNCHANGED rpcVars
      BY <3>2 DEF rpcVars
    <3>3. CASE send(t, requestOf(myLine[t]))
      BY <2>3, <3>1, <3>3 DEF send, CallsOK
    <3>4. CASE receive(t) \/ break(t)
      BY <2>3, <3>1, <3>4 DEF receive, break, CallsOK
    <3> QED BY <2>2, <3>2, <3>3, <3>4
  <2> QED BY <1>2, <1>4, <2>1, <2>3 DEF vars
<1> QED BY <1>1, <1>3, <1>4, ProxyOrCall DEF vars, consoleVars

(* What OKMeansDone says of one step.                                      *)
okMeansDone ==
  \A t \in Thread :
    callEnds(t) /\ phase'[t] = "reading" /\ alone(t) =>
    LET q == call[t] IN
    /\ pending(t) = {}
    /\ q.method = "associateAddress" =>
         /\ theTable[<<q.client, q.appname>>] = q.server
         /\ \A c \in using(q.appname) :
              routeOf(theTable, c) \in
                {Nil, theApplicationsByContextId[c].edgeRouter}
    /\ q.method = "removeAddress" => theTable[<<q.client, q.appname>>] = Nil
    /\ q.method = "addLambda" =>
         \E x \in ApplicationList : x.appName = q.appname
    /\ q.method = "delLambda" =>
         \A x \in ApplicationList : x.appName # q.appname

(* When a call returns, its effect is still there and nothing is left to   *)
(* post.                                                                   *)
LEMMA CallDone ==
  ASSUME ShortNames, DoneInv
  PROVE  okMeansDone
<1> SUFFICES ASSUME NEW t \in Thread, callEnds(t), phase'[t] = "reading", alone(t)
             PROVE  LET q == call[t] IN
                    /\ pending(t) = {}
                    /\ q.method = "associateAddress" =>
                         /\ theTable[<<q.client, q.appname>>] = q.server
                         /\ \A c \in using(q.appname) :
                              routeOf(theTable, c) \in
                                {Nil, theApplicationsByContextId[c].edgeRouter}
                    /\ q.method = "removeAddress" =>
                         theTable[<<q.client, q.appname>>] = Nil
                    /\ q.method = "addLambda" =>
                         \E x \in ApplicationList : x.appName = q.appname
                    /\ q.method = "delLambda" =>
                         \A x \in ApplicationList : x.appName # q.appname
  BY DEF okMeansDone
<1>1. receive(t)
  BY DEF callEnds, callReturns, exit, set, DoneInv, InputOK
<1>2. reply[t] # Nil /\ pending(t) = {}
  BY <1>1 DEF receive, idle, pending
<1>3. call[t] # Nil
  BY <1>2 DEF DoneInv, CallsOK
<1> DEFINE q == call[t]
<1>4. q.method \in {"addLambda", "delLambda"} =>
        lambdaApp(q.appname) \in AppInfo /\ lambda(q.appname) # Thrown
  BY <1>3, CallType DEF DoneInv
<1>5. Served(t)
  BY DEF DoneInv
<1>6. \A c \in using(q.appname) :
        routeOf(theTable, c) \in {Nil, theApplicationsByContextId[c].edgeRouter}
  BY RoutesAsLookup DEF DoneInv, IInv, using
<1>7. ASSUME q.method = "addLambda"
      PROVE  \E x \in ApplicationList : x.appName = q.appname
  <2>1. lambdaApp(q.appname) \in ApplicationList
    <3>1. theApplications[mangle(lambdaApp(q.appname))] = lambdaApp(q.appname)
      BY <1>2, <1>5, <1>7 DEF Served
    <3>2. mangle(lambdaApp(q.appname)) \in AppKey /\ lambdaApp(q.appname) # Nil
      BY <1>4, <1>7, AppInfoAssumption DEF AppKey
    <3> QED BY <3>1, <3>2 DEF ApplicationList
  <2> QED BY <1>4, <1>7, <2>1, LambdaNames
<1>8. ASSUME q.method = "delLambda", NEW x \in ApplicationList
      PROVE  x.appName # q.appname
  <2>1. PICK n : lambda(n) # Thrown /\ x = lambdaApp(n)
    BY DEF DoneInv, Lambdas, ApplicationList
  <2>2. theApplications[mangle(x)] # Nil
    BY ListedExists DEF DoneInv, exists
  <2>3. theApplications[mangle(lambdaApp(q.appname))] = Nil
    BY <1>2, <1>5, <1>8 DEF Served
  <2>4. x.appName = n
    BY <2>1, LambdaNames
  <2> QED BY <2>1, <2>2, <2>3, <2>4
<1> QED BY <1>2, <1>5, <1>6, <1>7, <1>8 DEF Served

(* OK means done: when a command of the only console in use is answered    *)
(* OK, the table or the registry is as it says, every context records its  *)
(* route, and each notification caused has been posted or passed over, and *)
(* answered or given up, although the server says OK after an exception    *)
(* too, as long as no name is too long for AppInfo.                        *)
THEOREM OKAlwaysDone ==
  ASSUME ShortNames
  PROVE  ConsoleSpec => OKMeansDone
<1>1. ConsoleInit => DoneInv
  <2> SUFFICES ASSUME ConsoleInit PROVE DoneInv
    OBVIOUS
  <2>1. InputOK /\ CallsOK
    BY InitInput, InitCalls
  <2>2. IInv
    BY InitIInv DEF ConsoleInit
  <2>3. \A k \in AppKey : theApplications[k] = Nil
    BY DEF ConsoleInit, Init, AppsInit
  <2>4. \A t \in Thread : Served(t)
    BY DEF ConsoleInit, rpcInit, Served
  <2> QED BY <2>1, <2>2, <2>3, <2>4 DEF DoneInv, Lambdas, StoredUnderKey
<1>2. DoneInv /\ [ConsoleNext]_allVars => DoneInv'
  BY InputStep, CallsStep, ConsoleProxyStep, RegistryStep, ServedStep DEF DoneInv
<1>3. DoneInv => okMeansDone
  BY CallDone
<1>4. ConsoleSpec => [][okMeansDone]_allVars
  BY <1>1, <1>2, <1>3, PTL DEF ConsoleSpec
<1> QED BY <1>4 DEF OKMeansDone, okMeansDone

-----------------------------------------------------------------------------
(* The directory behind the console.                                       *)

(* Whatever is typed at the consoles, in whatever order the threads of the *)
(* gRPC server serve them while clients come and go, the proxy implements  *)
(* the directory: there is no command that leaves a context with another   *)
(* edge router than the most specific one.                                 *)
THEOREM ConsoleImplementsDirectory ==
  ASSUME PlainNames
  PROVE  ConsoleSpec => ImplementsDirectory
<1>1. ConsoleInit => Directory!Init /\ OwnKeys /\ IInv
  BY InitDirectory, InitIInv DEF ConsoleInit
<1>2. InputOK /\ CallsOK /\ IInv /\ [ConsoleNext]_allVars => IInv'
  BY ConsoleProxyStep
<1>3. ASSUME InputOK, CallsOK, IInv, IInv', OwnKeys, [ConsoleNext]_allVars
      PROVE  OwnKeys' /\ [Directory!Next]_(Directory!vars)
  <2>1. CASE [Next]_vars
    BY <1>3, <2>1, OwnKeysStep, DirectoryStep DEF IInv
  <2>2. CASE die("sizesDiffer")
    BY <1>3, <2>2, DeadDirectory
  <2> QED BY <1>3, <2>1, <2>2, ConsoleSteps
<1>4. InputOK /\ CallsOK /\ IInv /\ IInv' /\ OwnKeys /\ [ConsoleNext]_allVars
        => OwnKeys' /\ [Directory!Next]_(Directory!vars)
  BY <1>3
<1> QED
  BY <1>1, <1>2, <1>4, ConsoleInductive, PTL
     DEF ConsoleSpec, ImplementsDirectory, Directory!Spec
=============================================================================
