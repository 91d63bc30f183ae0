----------------------- MODULE StaticFileUeAppLcmProxy -----------------------
(***************************************************************************)
(* The proxy whose table is read from a file                               *)
(* (EtsiMec/staticfileueapplcmproxy.{h,cpp}): its constructor, which       *)
(* associates the triples of a file one after the other.  The server is    *)
(* not started yet: there is no client, and the only thread is its own.    *)
(* An exception in the constructor destroys what has been associated.      *)
(***************************************************************************)
EXTENDS StaticUeAppLcmProxy, Naturals

CONSTANT File   \* the contents of files: sequences of tokens

VARIABLES
  file,   \* the whole file
  rest,   \* the tokens not read yet
  phase   \* "loading", "ready", "illFormed" or "empty"

fileVars == <<file, rest, phase>>
constructorVars == <<vars, fileVars>>

address(token) == IF token = "*" THEN Empty ELSE token

ends(how) == phase' = how /\ UNCHANGED <<vars, file, rest>>

(* A loop that enters only the first router of a key.                      *)
readAssociation_First(t) ==
  /\ phase = "loading" /\ Len(rest) >= 3
  /\ \/ theTable[<<address(rest[1]), rest[2]>>] # Nil /\ UNCHANGED vars
     \/ /\ theTable[<<address(rest[1]), rest[2]>>] = Nil
        /\ associateAddress(t, address(rest[1]), rest[2], rest[3])
  /\ rest' = SubSeq(rest, 4, Len(rest))
  /\ UNCHANGED <<file, phase>>

readAssociation(t) ==
  /\ phase = "loading" /\ Len(rest) >= 3
  /\ \/ theTable[<<address(rest[1]), rest[2]>>] = rest[3] /\ UNCHANGED vars
     \/ associateAddress(t, address(rest[1]), rest[2], rest[3])
  /\ rest' = SubSeq(rest, 4, Len(rest))
  /\ UNCHANGED <<file, phase>>

readIncomplete == phase = "loading" /\ Len(rest) \in 1..2 /\ ends("illFormed")

readAll ==
  /\ phase = "loading" /\ rest = <<>>
  /\ ends(IF file = <<>> THEN "empty" ELSE "ready")

FileInit ==
  /\ Init
  /\ file \in File /\ rest = file /\ phase = "loading"

FileNext ==
  \/ \E t \in Thread : readAssociation(t)
  \/ readIncomplete
  \/ readAll

FileSpec == FileInit /\ [][FileNext]_constructorVars

-----------------------------------------------------------------------------

(* The tokens at which the associations of a file start.                   *)
starts == {k \in DOMAIN file : k % 3 = 1}

keyAt(k) == <<address(file[k]), file[k + 1]>>

(* A proxy that is constructed has, for each key, the router of the last   *)
(* triple with that key, and none for the others: a file can say a thing   *)
(* twice, and a star and an address do not hide one another.               *)
LastAssociationHolds ==
  phase = "ready" =>
    /\ Len(file) % 3 = 0
    /\ \A key \in AddressAppKey :
         LET with == {k \in starts : keyAt(k) = key} IN
         IF with = {} THEN theTable[key] = Nil
         ELSE \E k \in with :
                /\ \A l \in with : l <= k
                /\ theTable[key] = file[k + 2]

-----------------------------------------------------------------------------
(* What a comment claims, and the code does not do (see the findings).     *)

(* "There is no default edge router."                                      *)
NoDefaultEdgeRouter ==
  phase = "ready" => \A n \in AppName : theTable[<<Empty, n>>] = Nil
=============================================================================
