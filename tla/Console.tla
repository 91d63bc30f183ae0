------------------------------- MODULE Console -------------------------------
(***************************************************************************)
(* The operator's console (Executables/ueapplcmproxyclientmain.cpp): it    *)
(* reads commands from its standard input, calls the proxy through gRPC,   *)
(* and writes an answer to each.  A thread of the gRPC server serves each  *)
(* console; clients of the proxy come and go meanwhile.                    *)
(*                                                                         *)
(* A line is the sequence of its tokens.  std::getline on a line that ends *)
(* at the end of the input sets eofbit only, which the loop's test does    *)
(* not see; the next std::getline fails and leaves the string as it is.    *)
(***************************************************************************)
EXTENDS GrpcUeAppLcmProxy, Naturals

CONSTANTS
  Script,   \* the inputs of the consoles: threads -> sequences of lines
  Newline   \* may the last line end with a newline, or not, or both

isSequence(s) == Len(s) \in Nat /\ s = [k \in 1..Len(s) |-> s[k]]

ASSUME ScriptAssumption ==
  /\ \A s \in Script :
       /\ s = [t \in Thread |-> s[t]]
       /\ \A t \in Thread :
            isSequence(s[t]) /\ \A k \in 1..Len(s[t]) : isSequence(s[t][k])
  /\ Newline \subseteq BOOLEAN

VARIABLES
  script,   \* thread -> the whole input of its console
  newline,  \* thread -> does the last line end with a newline?
  input,    \* thread -> the lines not read yet
  stream,   \* thread -> the state of std::cin: "good", "eof" or "fail"
  myLine,   \* thread -> the last line read
  phase,    \* thread -> "reading", "executing", "calling", "success",
            \* "failure"
  output    \* thread -> the answers written, each by its kind

consoleVars == <<script, newline, input, stream, myLine, phase, output>>
allVars == <<vars, rpcVars, consoleVars>>

set(f, t, value) == [f EXCEPT ![t] = value]

-----------------------------------------------------------------------------
(* The loop.                                                               *)

getline(t) ==
  /\ phase[t] = "reading"
  /\ \/ /\ stream[t] = "eof"
        /\ stream' = set(stream, t, "fail")
        /\ UNCHANGED <<input, myLine>>
     \/ /\ stream[t] = "good" /\ input[t] = <<>>
        /\ stream' = set(stream, t, "fail")
        /\ myLine' = set(myLine, t, <<>>)
        /\ UNCHANGED input
     \/ /\ stream[t] = "good" /\ input[t] # <<>>
        /\ myLine' = set(myLine, t, Head(input[t]))
        /\ input' = set(input, t, Tail(input[t]))
        /\ stream' = set(stream, t,
             IF Len(input[t]) = 1 /\ ~newline[t] THEN "eof" ELSE "good")
  /\ phase' = set(phase, t, "executing")
  /\ UNCHANGED <<vars, rpcVars, script, newline, output>>

exit(t, code) ==
  /\ phase' = set(phase, t, code)
  /\ UNCHANGED <<script, newline, input, stream, myLine, output>>

endOfInput(t) ==
  /\ phase[t] = "reading" /\ stream[t] = "fail"
  /\ exit(t, "success") /\ UNCHANGED <<vars, rpcVars>>

(* Write an answer and read on.                                            *)
print(t, kind) ==
  /\ output' = set(output, t, Append(output[t], kind))
  /\ phase' = set(phase, t, "reading")
  /\ UNCHANGED <<script, newline, input, stream, myLine>>

address(token) == IF token = "*" THEN Empty ELSE token

Listings == {"table", "contexts"}

isCommand(line, name, size_) == Len(line) = size_ /\ line[1] = name

(* The request that a line asks for, or Nil.                               *)
requestOf(line) ==
  IF isCommand(line, "associate", 4)
  THEN request("associateAddress", address(line[2]), line[3], line[4])
  ELSE IF isCommand(line, "remove", 3)
  THEN request("removeAddress", address(line[2]), line[3], Empty)
  ELSE IF isCommand(line, "add-lambda", 2)
  THEN request("addLambda", Empty, line[2], Empty)
  ELSE IF isCommand(line, "del-lambda", 2)
  THEN request("delLambda", Empty, line[2], Empty)
  ELSE IF isCommand(line, "num-contexts", 1)
  THEN request("numContexts", Empty, Empty, Empty)
  ELSE IF Len(line) = 1 /\ line[1] \in Listings
  THEN request(line[1], Empty, Empty, Empty)
  ELSE Nil

(* The lines name clients, edge routers and applications that the instance *)
(* has, or none, or a name that AppInfo does not accept.                   *)
ASSUME LineAssumption ==
  \A s \in Script, t \in Thread : \A k \in 1..Len(s[t]) :
    LET q == requestOf(s[t][k]) IN
    q # Nil =>
      /\ q.method \in {"associateAddress", "removeAddress"} =>
           /\ q.client \in Address \cup {Empty}
           /\ q.appname \in AppName \cup {Empty}
      /\ q.method = "associateAddress" => q.server \in Router \cup {Empty}
      /\ q.method \in {"addLambda", "delLambda"} =>
           \/ lambda(q.appname) = Thrown
           \/ Msg!appOf(lambda(q.appname)) \in AppInfo

(* A chain of commands without a last else.                                *)
executeAlone_Silent(t) ==
  /\ phase[t] = "executing"
  /\ \/ isCommand(myLine[t], "quit", 1) /\ exit(t, "success")
     \/ /\ ~isCommand(myLine[t], "quit", 1) /\ requestOf(myLine[t]) = Nil
        /\ exit(t, "reading")
  /\ UNCHANGED <<vars, rpcVars>>

(* A line that needs no call.                                              *)
executeAlone(t) ==
  /\ phase[t] = "executing"
  /\ \/ myLine[t] = <<>> /\ exit(t, "reading")
     \/ isCommand(myLine[t], "quit", 1) /\ exit(t, "success")
     \/ myLine[t] # <<>> /\ myLine[t][1] = "help" /\ print(t, "help")
     \/ /\ myLine[t] # <<>> /\ myLine[t][1] # "help"
        /\ ~isCommand(myLine[t], "quit", 1)
        /\ requestOf(myLine[t]) = Nil
        /\ print(t, "Invalid command")
  /\ UNCHANGED <<vars, rpcVars>>

(* A line that does.  An exception ends the program.                       *)
executeCall(t) ==
  LET q == requestOf(myLine[t]) IN
  /\ phase[t] = "executing" /\ q # Nil
  /\ \/ send(t, q) /\ exit(t, "calling")
     \/ ~valid(q) /\ exit(t, "failure") /\ UNCHANGED <<vars, rpcVars>>

(* What is written when a call returns.                                    *)
kindOf(q) ==
  IF q.method \in Setters THEN "OK"
  ELSE IF q.method \in Listings THEN "list" ELSE "number"

(* Of a list, a line for each tuple: of an empty one, nothing.             *)
callReturns(t) ==
  /\ receive(t)
  /\ IF call[t].method \in Listings /\ reply[t] = {}
     THEN exit(t, "reading")
     ELSE print(t, kindOf(call[t]))

(* A loop that goes on waiting when the call has thrown.                   *)
callEnds_Waiting(t) ==
  /\ phase[t] = "calling"
  /\ \/ callReturns(t)
     \/ break(t) /\ UNCHANGED consoleVars

callEnds(t) ==
  /\ phase[t] = "calling"
  /\ \/ callReturns(t)
     \/ break(t) /\ exit(t, "failure")

-----------------------------------------------------------------------------

main(t) ==
  \/ getline(t) \/ endOfInput(t)
  \/ executeAlone(t) \/ executeCall(t) \/ callEnds(t)

ConsoleInit ==
  /\ Init /\ rpcInit
  /\ script \in Script
  /\ newline \in [Thread -> Newline]
  /\ input = script
  /\ stream = [t \in Thread |-> "good"]
  /\ myLine = [t \in Thread |-> <<>>]
  /\ phase = [t \in Thread |-> "reading"]
  /\ output = [t \in Thread |-> <<>>]

server(t) ==
  /\ \/ serve(t)
     \/ notifyClients(t) /\ UNCHANGED rpcVars
  /\ UNCHANGED consoleVars

clients == serveContext /\ UNCHANGED <<rpcVars, consoleVars>>

ConsoleNext ==
  \/ clients
  \/ \E t \in Thread : server(t)
  \/ \E t \in Thread : main(t)

ConsoleSpec == ConsoleInit /\ [][ConsoleNext]_allVars

(* Consoles and the threads of the server are scheduled, and a POST ends.  *)
FairConsoleSpec ==
  ConsoleSpec /\ \A t \in Thread : WF_allVars(server(t)) /\ WF_allVars(main(t))

-----------------------------------------------------------------------------

ConsoleTypeOK ==
  /\ script \in Script /\ newline \in [Thread -> Newline]
  /\ \A t \in Thread : \E k \in 1..(Len(script[t]) + 1) :
       input[t] = SubSeq(script[t], k, Len(script[t]))
  /\ stream \in [Thread -> {"good", "eof", "fail"}]
  /\ phase \in [Thread -> {"reading", "executing", "calling", "success",
                           "failure"}]
  /\ \A t \in Thread : phase[t] = "calling" <=> call[t] # Nil

(* Nothing typed at a console makes an assertion of the gRPC server fail:  *)
(* what the server asserts of its requests is what the client checks.      *)
ServerAssertionsHold == failure # "malformed"

alone(t) == \A s \in Thread \ {t} : script[s] = <<>>

(* When a set command is answered OK, it has been carried out: the table   *)
(* or the registry is as the command says, every context records its new   *)
(* route, and no notification that it has caused is left to be posted or   *)
(* is still waiting for an answer.  (Their owners need not have been told: *)
(* a POST may have failed, a callback may have been passed over.)  This is *)
(* for the only console that is used, whose commands nobody overwrites,    *)
(* and for names that AppInfo accepts: the server answers OK after an      *)
(* exception.                                                              *)
OKMeansDone ==
  [][\A t \in Thread :
       callEnds(t) /\ phase'[t] = "reading" /\ alone(t) =>
       LET q == call[t] IN
       /\ pending(t) = {}
       /\ q.method = "associateAddress" =>
            /\ theTable[<<q.client, q.appname>>] = q.server
            /\ \A c \in using(q.appname) :
                 routeOf(theTable, c) \in
                   {Nil, theApplicationsByContextId[c].edgeRouter}
       /\ q.method = "removeAddress" => theTable[<<q.client, q.appname>>] = Nil
       /\ q.method = "addLambda" =>
            \E x \in ApplicationList : x.appName = q.appname
       /\ q.method = "delLambda" =>
            \A x \in ApplicationList : x.appName # q.appname]_allVars

(* The lines that are to be answered.                                      *)
commands(s) ==
  LET quits == {k \in DOMAIN s : s[k] = <<"quit">>}
  IN  {k \in DOMAIN s : s[k] # <<>> /\ \A l \in quits : k < l}

(* The kind of the answer to a command.                                    *)
answerTo(line) ==
  IF line[1] = "help" THEN "help"
  ELSE IF requestOf(line) = Nil THEN "Invalid command"
  ELSE kindOf(requestOf(line))

(* The answers out are to the lines cs of s, in their order: to each that  *)
(* is not a listing one, of its kind, and to a listing one at most.        *)
answers(out, s, cs) ==
  \E at \in [1..Len(out) -> cs] :
    /\ \A i, j \in 1..Len(out) : i < j => at[i] < at[j]
    /\ \A i \in 1..Len(out) : out[i] = answerTo(s[at[i]])
    /\ \A k \in cs :
         answerTo(s[k]) # "list" => \E i \in 1..Len(out) : at[i] = k

(* "Every command is given a response on standard output": at the end of   *)
(* the input, or of the session, each has been given one, of its kind and  *)
(* in its turn, but for the listings that had nothing to list.             *)
OneAnswerEach ==
  \A t \in Thread :
    phase[t] = "success" =>
      answers(output[t], script[t], commands(script[t]))

(* Every session ends, though its calls wait for the clients notified.     *)
EverySessionEnds ==
  \A t \in Thread : <>(phase[t] \in {"success", "failure"})

-----------------------------------------------------------------------------
(* What the help text claims, and the code does not do (see the findings). *)

(* "Every command is given a response on standard output."                 *)
EveryCommandAnswered ==
  \A t \in Thread :
    phase[t] = "success" => Len(output[t]) = Cardinality(commands(script[t]))
=============================================================================
