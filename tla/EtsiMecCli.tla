------------------------------ MODULE EtsiMecCli ------------------------------
(***************************************************************************)
(* The chat front-end of Executables/etsimeccli.cpp: its server receives a *)
(* form, reads in the field "text" which command to send to which API      *)
(* root, carries it out and replies.                                       *)
(*                                                                         *)
(* A form is a sequence of fields; the value of the field "text" is a      *)
(* sequence of words.  The handler keeps its state on the stack, and ends  *)
(* with a reply; a request that is not authorized is replied to twice.     *)
(***************************************************************************)
EXTENDS Common, Naturals, Sequences

CONSTANTS
  Form,      \* the forms posted
  ValidUri,  \* the words that web::uri::validate accepts
  Token,     \* theToken
  Undecodable  \* a value that web::uri::decode does not accept

isSequence(s) == Len(s) \in Nat /\ s = [k \in 1..Len(s) |-> s[k]]

ASSUME FormAssumption ==
  \A form \in Form :
    /\ isSequence(form)
    /\ \A k \in 1..Len(form) :
         form[k].name = "text" =>
           form[k].value = Undecodable \/ isSequence(form[k].value)

VARIABLES
  myCommands,    \* the form
  field,         \* the number of fields read
  myAuthorized, myText, myCommand, myApiRoot, myFail,
  word,          \* the number of words read
  replies,       \* the statuses, and texts, replied so far
  stage          \* "fields", "words", "replied" or "aborted"

chatVars == <<myCommands, field, myAuthorized, myText, myCommand, myApiRoot,
              myFail, word, replies, stage>>
parsed == <<myCommand, myApiRoot, myFail>>

-----------------------------------------------------------------------------

ChatInit ==
  /\ myCommands \in Form
  /\ field = 0 /\ myAuthorized = FALSE /\ myText = <<>>
  /\ myCommand = "app_list" /\ myApiRoot = Empty /\ myFail = FALSE
  /\ word = 0 /\ replies = <<>> /\ stage = "fields"

readField ==
  /\ stage = "fields" /\ field < Len(myCommands)
  /\ LET f == myCommands[field + 1] IN
     /\ f.value # Undecodable
     /\ myAuthorized' = (myAuthorized \/ (f.name = "token" /\ f.value = Token))
     /\ myText' = IF f.name = "text" THEN f.value ELSE myText
  /\ field' = field + 1
  /\ UNCHANGED <<myCommands, parsed, word, replies, stage>>

(* An exception, of the extraction of the body or of the decoding of a     *)
(* value, leaves the handler, and the server replies.                      *)
throw ==
  /\ stage = "fields"
  /\ \/ field = 0
     \/ field < Len(myCommands) /\ myCommands[field + 1].value = Undecodable
  /\ replies' = Append(replies, [status |-> "InternalError", text |-> Empty])
  /\ stage' = "replied"
  /\ UNCHANGED <<myCommands, field, myAuthorized, myText, parsed, word>>

endOfFields ==
  /\ stage = "fields" /\ field = Len(myCommands)
  /\ replies' = IF myAuthorized THEN replies
                ELSE Append(replies, [status |-> "Unauthorized", text |-> Empty])
  /\ stage' = "words"
  /\ UNCHANGED <<myCommands, field, myAuthorized, myText, parsed, word>>

Keyword == {"command", "apiroot"}

reading(w) ==
  stage = "words" /\ ~myFail /\ word < Len(myText) /\ w = myText[word + 1]

(* A keyword that does not take the next word away.                        *)
readKeyword_Peeked(w) ==
  /\ reading(w) /\ w \in Keyword
  /\ word' = word + 1
  /\ myFail' = (word + 1 = Len(myText))
  /\ myCommand' = IF w = "command" /\ ~myFail' THEN myText[word + 2] ELSE myCommand
  /\ myApiRoot' = IF w = "apiroot" /\ ~myFail' THEN myText[word + 2] ELSE myApiRoot
  /\ UNCHANGED <<myCommands, field, myAuthorized, myText, replies, stage>>

(* A keyword takes the next word as its value; without one, the text is    *)
(* invalid.                                                                *)
readKeyword(w) ==
  /\ reading(w) /\ w \in Keyword
  /\ word' = word + 2
  /\ myFail' = (word + 1 = Len(myText))
  /\ myCommand' = IF w = "command" /\ ~myFail' THEN myText[word + 2] ELSE myCommand
  /\ myApiRoot' = IF w = "apiroot" /\ ~myFail' THEN myText[word + 2] ELSE myApiRoot
  /\ UNCHANGED <<myCommands, field, myAuthorized, myText, replies, stage>>

readOther(w) ==
  /\ reading(w) /\ w \notin Keyword
  /\ word' = word + 1
  /\ UNCHANGED <<myCommands, field, myAuthorized, myText, parsed, replies, stage>>

endOfWords == stage = "words" /\ (myFail \/ word >= Len(myText))

finish(how, text) ==
  /\ stage' = how
  /\ replies' = IF how = "aborted" THEN replies
                ELSE Append(replies, [status |-> "OK", text |-> text])
  /\ UNCHANGED <<myCommands, field, myAuthorized, myText, parsed, word>>

invalidInput ==
  /\ endOfWords /\ (myFail \/ myApiRoot = Empty)
  /\ finish("replied", "Invalid input")

(* The command: the list of the applications, or an exception, from the    *)
(* client of the list or because there is no other command.                *)
execute ==
  /\ endOfWords /\ ~myFail /\ myApiRoot # Empty
  /\ \/ Assertions /\ myApiRoot \notin ValidUri /\ finish("aborted", Empty)
     \/ /\ Assertions => myApiRoot \in ValidUri
        /\ \/ myCommand = "app_list" /\ finish("replied", "list")
           \/ finish("replied", "Invalid response")

ChatNext ==
  \/ readField \/ throw \/ endOfFields
  \/ \E w \in {myText[k] : k \in DOMAIN myText} : readKeyword(w) \/ readOther(w)
  \/ invalidInput \/ execute

ChatSpec == ChatInit /\ [][ChatNext]_chatVars

-----------------------------------------------------------------------------

(* The keywords right before word k, without another word between.         *)
keywordsBefore(k) ==
  {j \in 1..(k - 1) : \A i \in j..(k - 1) : myText[i] \in Keyword}

(* A keyword that is not itself the value of a keyword before it.          *)
isKey(k) ==
  myText[k] \in Keyword /\
    LET run == keywordsBefore(k) IN
    \E n \in 0..Len(myText) :
      /\ run = {j \in 1..(k - 1) : j >= k - 2 * n}
      /\ k > 2 * n

(* The values that the text gives a keyword, as their places.              *)
valuesOf(key) ==
  {k \in DOMAIN myText : k > 1 /\ isKey(k - 1) /\ myText[k - 1] = key}

means(key, value, default) ==
  \/ valuesOf(key) = {} /\ value = default
  \/ \E k \in valuesOf(key) :
       value = myText[k] /\ \A l \in valuesOf(key) : l <= k

(* However keywords, values and other words are mixed - a value can be a   *)
(* keyword, a keyword can come twice or last - the loop, whose body moves  *)
(* the iterator too, finds the last value of each, and rejects exactly the *)
(* texts that end with a keyword to which no value is left.                *)
LastValueCounts ==
  endOfWords =>
    /\ myFail <=> myText # <<>> /\ isKey(Len(myText))
    /\ means("command", myCommand, "app_list")
    /\ means("apiroot", myApiRoot, Empty)

-----------------------------------------------------------------------------
(* What an assertion claims, and does not hold (see the findings).         *)

(* assert(web::uri::validate(aApiRoot)) in command.                        *)
CommandAssertionHolds == stage # "aborted"
=============================================================================
