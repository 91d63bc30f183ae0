------------------------------ MODULE OpenWhisk ------------------------------
(***************************************************************************)
(* The OpenWhisk client (OpenWhisk/{action,command,lister}): a program     *)
(* lists the actions of a gateway again and again, and compares the keys   *)
(* with those of the list before.                                          *)
(*                                                                         *)
(* A name or a namespace is a sequence of tokens, one of which is the      *)
(* slash.  Malformed is a field that is missing or of another type.        *)
(***************************************************************************)
EXTENDS Sequences, FiniteSets, Naturals

CONSTANTS
  Response,   \* what the gateway may answer: a status and a sequence of
              \* elements, or Malformed where it is not an array
  Malformed,  \* what is not of the type it should have, or is missing
  NoList      \* the lister has thrown

VARIABLES
  before, now   \* the last two lists: key -> action, or NoList

listerVars == <<before, now>>

-----------------------------------------------------------------------------
(* Action.                                                                 *)

ActionKey(space, name) == [theSpace |-> space, theName |-> name]

toString(k) == <<"/">> \o k.theSpace \o <<"/">> \o k.theName

sameSize(l, r) == Cardinality(DOMAIN l) = Cardinality(DOMAIN r)

strings(m) == {toString(k) : k \in DOMAIN m}

(* A comparison of the names alone.                                        *)
sameKeys_Names(l, r) ==
  sameSize(l, r) /\ {k.theName : k \in DOMAIN l} = {k.theName : k \in DOMAIN r}

sameKeys(l, r) == sameSize(l, r) /\ strings(l) = strings(r)

-----------------------------------------------------------------------------
(* Lister.                                                                 *)

wellFormed(e) ==
  \A f \in {"name", "namespace", "updated", "version"} : e[f] # Malformed

keyOf(e) == ActionKey(e.namespace, e.name)

(* The first of two elements with the same key is kept.                    *)
listed(elements) ==
  [k \in {keyOf(elements[i]) : i \in DOMAIN elements} |->
     LET first == CHOOSE i \in DOMAIN elements :
                    /\ keyOf(elements[i]) = k
                    /\ \A j \in DOMAIN elements : keyOf(elements[j]) = k => i <= j
     IN  [theSpace   |-> k.theSpace,
          theName    |-> k.theName,
          theUpdated |-> elements[first].updated,
          theVersion |-> elements[first].version]]

(* One element that is malformed spoils the list.                          *)
list(response) ==
  IF \/ response.status # "OK" \/ response.elements = Malformed
     \/ \E i \in DOMAIN response.elements : ~wellFormed(response.elements[i])
  THEN NoList ELSE listed(response.elements)

-----------------------------------------------------------------------------

ListerInit == before = NoList /\ now = NoList

poll(response) == now' = list(response) /\ before' = now

ListerNext == \E response \in Response : poll(response)

ListerSpec == ListerInit /\ [][ListerNext]_listerVars

-----------------------------------------------------------------------------

(* "true if the two maps have the same keys": two lists are of the same    *)
(* actions exactly when the strings that stand for their keys are the      *)
(* same.  The slash between the namespace and the name is an ordinary      *)
(* character of both; this needs names without it.                         *)
SameKeysMeansSame ==
  before # NoList /\ now # NoList =>
    (sameKeys(before, now) <=> DOMAIN before = DOMAIN now)
=============================================================================
