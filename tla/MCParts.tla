------------------------------- MODULE MCParts -------------------------------
(***************************************************************************)
(* The parts that run alone, in one instance for TLC: the messages, the    *)
(* constructor of the static-file proxy, the chat front-end and the        *)
(* OpenWhisk client.  They share no state, and a behaviour is of one of    *)
(* them: the variables of the others keep a value that stands for nothing. *)
(***************************************************************************)
EXTENDS Mx2Flow, StaticFileUeAppLcmProxy, EtsiMecCli, OpenWhisk

CONSTANTS
  aName, aProvider, aVersion, aDescription, aSource, aReference, aUeAppId,
  aCallback, aContextId,   \* a string for each field of a message
  Word,                    \* in the texts
  ActionName               \* of the gateway's actions

VARIABLE part   \* which part it is of

upTo(n, S) == UNION {[1..k -> S] : k \in 0..n}

-----------------------------------------------------------------------------
(* Messages: in each field what its constructors tell apart.               *)

Texts ==
  [appName           |-> {aName} \cup Long,
   appProvider       |-> {aProvider},
   appSoftVersion    |-> {aVersion},
   appDescription    |-> {aDescription},
   appPackageSource  |-> {aSource},
   referenceURI      |-> {aReference},
   contextId         |-> {aContextId},
   associateUeAppId  |-> {aUeAppId},
   callbackReference |-> {aCallback}]

Characteristics ==
  {AppCharcs(0, 0), AppCharcs(0, 1), AppCharcs(0, 2), AppCharcs(Other, Absent)}

Infos ==
  [appName          : {Absent, Empty, aName} \cup Long,
   appProvider      : {Other, aProvider},
   appSoftVersion   : {Absent, Other, aVersion},
   appDescription   : {Absent, aDescription},
   appPackageSource : {Absent, aSource},
   referenceURI     : {Absent, Other, Empty, aReference},
   appCharcs        : {Absent, Other} \cup Characteristics]

Contexts ==
  [contextId         : {Absent, Empty, aContextId},
   associateUeAppId  : {Empty, aUeAppId},
   callbackReference : {Absent, aCallback},
   appInfo           : {Other} \cup Infos]

-----------------------------------------------------------------------------
(* Files: at most three associations, and one and a piece of the next.     *)

TwoApps ==
  {[appName |-> <<n>>, appProvider |-> <<"p">>, appSoftVersion |-> <<"1">>] :
     n \in {"app", "game"}}

Association ==
  {<<from, <<n>>, to>> :
     from \in {"*"} \cup Address, n \in {"app", "game"}, to \in Router}

Files ==
  LET one   == {<<>>} \cup Association
      two   == {e \o f : e \in one, f \in one}
      piece == {<<"*">>, <<"*", <<"app">>>>}
  IN  {e \o f : e \in two, f \in one} \cup {e \o f : e \in one, f \in piece}

-----------------------------------------------------------------------------
(* Forms: a text of at most five words, with the token before it; shorter  *)
(* ones with the token after it, or none; one that cannot be decoded.      *)

textField(text) == [name |-> "text", value |-> text]
tokenField == [name |-> "token", value |-> Token]
userField  == [name |-> "user_name", value |-> "someone"]

Forms ==
  {<<>>, <<tokenField>>, <<tokenField, textField(Undecodable)>>}
    \cup {<<tokenField, userField, textField(text)>> : text \in upTo(5, Word)}
    \cup {<<textField(text), f>> :
            text \in upTo(2, Word), f \in {tokenField, userField}}

-----------------------------------------------------------------------------
(* Answers of the gateway: a list of at most two actions, or an error.     *)

Elements ==
  [name      : ActionName \cup {Malformed},
   namespace : {<<"x">>, <<"x", "/", "x">>},
   updated   : {1, 2},
   version   : {"0.1"}]

Responses ==
  {[status |-> "OK", elements |-> Malformed],
   [status |-> "NotFound", elements |-> <<>>]}
    \cup [status : {"OK"}, elements : upTo(2, Elements)]

WithoutSlash == {<<"x">>, <<"y">>}
WithSlash    == {<<"x">>, <<"x", "/", "x">>}

-----------------------------------------------------------------------------

noFile ==
  /\ theApplications = Nil /\ theTable = Nil
  /\ theApplicationsByContextId = Nil /\ theApplicationsByUeAppId = Nil
  /\ toNotify = Nil /\ posting = Nil /\ failure = "none"
  /\ file = Nil /\ rest = Nil /\ phase = Nil

noChat ==
  /\ myCommands = Nil /\ field = 0 /\ myAuthorized = FALSE /\ myText = Nil
  /\ myCommand = Nil /\ myApiRoot = Nil /\ myFail = FALSE
  /\ word = 0 /\ replies = Nil /\ stage = Nil

PartInit ==
  /\ part \in {"messages", "file", "chat", "actions"}
  /\ IF part = "messages" THEN FlowInit
     ELSE msg = [as |-> Nil, json |-> Nil]
  /\ IF part = "file" THEN FileInit ELSE noFile
  /\ IF part = "chat" THEN ChatInit ELSE noChat
  /\ ListerInit

flow ==
  /\ part = "messages" /\ FlowNext
  /\ UNCHANGED <<part, constructorVars, chatVars, listerVars>>

construction ==
  /\ part = "file" /\ FileNext
  /\ UNCHANGED <<part, msg, chatVars, listerVars>>

chat ==
  /\ part = "chat" /\ ChatNext
  /\ UNCHANGED <<part, msg, constructorVars, listerVars>>

listing ==
  /\ part = "actions" /\ ListerNext
  /\ UNCHANGED <<part, msg, constructorVars, chatVars>>

PartNext == flow \/ construction \/ chat \/ listing

PartSpec ==
  PartInit
    /\ [][PartNext]_<<part, msg, constructorVars, chatVars, listerVars>>
=============================================================================
