------------------- MODULE StaticFileUeAppLcmProxy_proofs -------------------
(***************************************************************************)
(* The constructor of the static-file proxy, for files of any length.      *)
(***************************************************************************)
EXTENDS StaticFileUeAppLcmProxy, StaticUeAppLcmProxy_proofs

(* Files are sequences of tokens, whose complete associations are about    *)
(* the clients, the applications and the edge routers of the instance.     *)
FilesOK ==
  \A f \in File :
    /\ Len(f) \in Nat /\ f = [k \in 1..Len(f) |-> f[k]]
    /\ \A k \in 1..Len(f) :
         k % 3 = 1 /\ k + 2 <= Len(f) =>
           /\ address(f[k]) \in Address \cup {Empty}
           /\ f[k + 1] \in AppName /\ f[k + 2] \in Router

(* The associations that start in the first n tokens, for a key.           *)
among(n, key) == {k \in 1..n : k % 3 = 1 /\ keyAt(k) = key}

(* The table that the first n tokens make.                                 *)
Loaded(n) ==
  \A key \in AddressAppKey :
    IF among(n, key) = {} THEN theTable[key] = Nil
    ELSE \E k \in among(n, key) :
           /\ \A l \in among(n, key) : l <= k
           /\ theTable[key] = file[k + 2]

(* What the file is made of.                                               *)
tokens == {file[k] : k \in 1..Len(file)}

(* What is left to read is the file without its first n tokens.            *)
Remains(n) ==
  /\ rest \in Seq(tokens) /\ Len(rest) = Len(file) - n
  /\ \A i \in 1..Len(rest) : rest[i] = file[n + i]

(* The inductive invariant: read in triples, entered one by one.           *)
FileInv ==
  /\ file \in File
  /\ theTable \in [AddressAppKey -> Router \cup {Nil}]
  /\ phase \in {"loading", "ready", "illFormed", "empty"}
  /\ \E n \in 0..Len(file) : n % 3 = 0 /\ Remains(n) /\ Loaded(n)
  /\ phase = "ready" => rest = <<>>

(* Of three more tokens, an association starts at the first.               *)
LEMMA NextStart ==
  ASSUME NEW n \in Nat, n % 3 = 0
  PROVE  /\ (n + 3) % 3 = 0 /\ (n + 1) % 3 = 1
         /\ \A k \in 1..(n + 3) : k % 3 = 1 => k \in 1..n \/ k = n + 1
OBVIOUS

(* Reading three tokens enters their association in the table.             *)
LEMMA ReadEffect ==
  ASSUME FilesOK, FileInv, NEW t \in Thread, readAssociation(t)
  PROVE  FileInv'
<1>1. PICK n \in 0..Len(file) : n % 3 = 0 /\ Remains(n) /\ Loaded(n)
  BY DEF FileInv
<1> DEFINE len == Len(file)
<1>2. len \in Nat /\ file \in File
  BY DEF FilesOK, FileInv
<1>3. rest \in Seq(tokens) /\ Len(rest) = len - n /\ Len(rest) >= 3
  BY <1>1 DEF Remains, readAssociation
<1> HIDE DEF len
<1>4. n \in Nat /\ n + 3 <= len
  BY <1>1, <1>2, <1>3 DEF len
<1>5. rest[1] = file[n + 1] /\ rest[2] = file[n + 2] /\ rest[3] = file[n + 3]
  <2>1. \A i \in 1..Len(rest) : rest[i] = file[n + i]
    BY <1>1 DEF Remains
  <2>2. 1 \in 1..Len(rest) /\ 2 \in 1..Len(rest) /\ 3 \in 1..Len(rest)
    BY <1>2, <1>3, <1>4
  <2> QED BY <2>1, <2>2
<1> DEFINE key0 == keyAt(n + 1)
<1>6. key0 \in AddressAppKey /\ file[n + 3] \in Router
  <2>1. n + 1 \in 1..len /\ (n + 1) % 3 = 1 /\ (n + 1) + 2 <= len
    BY <1>1, <1>2, <1>4, NextStart
  <2>2. n + 1 + 1 = n + 2 /\ n + 1 + 2 = n + 3
    BY <1>4
  <2>3. /\ address(file[n + 1]) \in Address \cup {Empty}
        /\ file[n + 1 + 1] \in AppName /\ file[n + 1 + 2] \in Router
    BY <1>2, <2>1 DEF FilesOK, len
  <2> QED BY <2>2, <2>3 DEF keyAt, AddressAppKey
<1>7. key0 = <<address(rest[1]), rest[2]>> /\ n + 1 + 1 = n + 2
  BY <1>4, <1>5 DEF keyAt
<1> HIDE DEF key0
<1>8. theTable' = [theTable EXCEPT ![key0] = file[n + 3]]
  BY <1>5, <1>7 DEF readAssociation, associateAddress, vars, FileInv
<1>9. file' = file /\ phase' = phase /\ phase = "loading"
  BY DEF readAssociation
<1>10. theTable' \in [AddressAppKey -> Router \cup {Nil}]
  BY <1>6, <1>8 DEF FileInv
<1>11. Remains(n + 3)'
  <2> DEFINE m == Len(rest)
             after == SubSeq(rest, 4, m)
  <2>1. m \in Nat /\ m >= 3 /\ m = len - n
    BY <1>3, <1>4
  <2> HIDE DEF m
  <2>2. /\ after \in Seq(tokens) /\ Len(after) = m - 3
        /\ \A i \in 1..(m - 3) : after[i] = rest[4 + i - 1]
    <3>1. \A i \in 4..m : rest[i] \in tokens
      BY <1>3, <2>1 DEF m
    <3>2. 4 <= m \/ m = 3
      BY <2>1
    <3> QED BY <1>3, <2>1, <3>1, <3>2, SubSeqProperties DEF m
  <2> HIDE DEF after
  <2>3. \A i \in 1..(m - 3) : after[i] = file[(n + 3) + i]
    <3> TAKE i \in 1..(m - 3)
    <3>1. 4 + i - 1 \in 1..m /\ n + (4 + i - 1) = (n + 3) + i
      BY <1>4, <2>1
    <3>2. rest[4 + i - 1] = file[n + (4 + i - 1)]
      BY <1>1, <3>1 DEF Remains, m
    <3> QED BY <2>2, <3>1, <3>2
  <2>4. rest' = after /\ tokens' = tokens /\ m - 3 = len - (n + 3)
    BY <1>2, <1>4, <1>9, <2>1 DEF readAssociation, after, m, tokens
  <2> QED BY <1>9, <2>2, <2>3, <2>4 DEF Remains, len
<1>12. Loaded(n + 3)'
  <2>1. ASSUME NEW key \in AddressAppKey, key # key0
        PROVE  among(n + 3, key) = among(n, key) /\ theTable'[key] = theTable[key]
    <3>1. theTable'[key] = theTable[key]
      BY <1>8, <2>1 DEF FileInv
    <3>2. \A k \in 1..n : k \in 1..(n + 3)
      BY <1>4
    <3>3. \A k \in 1..(n + 3) : k % 3 = 1 => k \in 1..n \/ k = n + 1
      BY <1>1, <1>4, NextStart
    <3>4. keyAt(n + 1) # key
      BY <2>1 DEF key0
    <3>5. among(n + 3, key) = among(n, key)
      BY <3>2, <3>3, <3>4 DEF among
    <3> QED BY <3>1, <3>5
  <2>2. /\ n + 1 \in among(n + 3, key0) /\ theTable'[key0] = file[n + 1 + 2]
        /\ \A l \in among(n + 3, key0) : l <= n + 1
    <3>1. n + 1 + 2 = n + 3 /\ n + 1 \in 1..(n + 3)
      BY <1>4
    <3>2. theTable'[key0] = file[n + 1 + 2]
      BY <1>6, <1>8, <3>1 DEF FileInv
    <3>3. n + 1 \in among(n + 3, key0)
      BY <1>1, <1>4, <3>1, NextStart DEF among, key0
    <3>4. ASSUME NEW l \in among(n + 3, key0) PROVE l <= n + 1
      <4>1. l \in 1..(n + 3) /\ l % 3 = 1
        BY DEF among
      <4>2. l \in 1..n \/ l = n + 1
        BY <1>1, <1>4, <4>1, NextStart
      <4> QED BY <1>4, <4>2
    <3> QED BY <3>2, <3>3, <3>4
  <2>3. \A key : among(n + 3, key)' = among(n + 3, key)
    BY <1>9 DEF among, keyAt
  <2> QED BY <1>1, <1>9, <2>1, <2>2, <2>3 DEF Loaded
<1>13. n + 3 \in 0..Len(file') /\ (n + 3) % 3 = 0
  BY <1>1, <1>2, <1>4, <1>9, NextStart DEF len
<1> QED BY <1>2, <1>9, <1>10, <1>11, <1>12, <1>13 DEF FileInv

(* The other steps leave all but the phase as it is.                       *)
LEMMA FileStep ==
  ASSUME FilesOK, FileInv, [FileNext]_constructorVars
  PROVE  FileInv'
<1>1. ASSUME UNCHANGED <<theTable, file, rest>>,
             phase' \in {"loading", "ready", "illFormed", "empty"},
             phase' = "ready" => rest = <<>>
      PROVE  FileInv'
  <2>1. PICK n \in 0..Len(file) : n % 3 = 0 /\ Remains(n) /\ Loaded(n)
    BY DEF FileInv
  <2>2. Remains(n)'
    BY <1>1, <2>1 DEF Remains, tokens
  <2>3. \A key : among(n, key)' = among(n, key)
    BY <1>1 DEF among, keyAt
  <2>4. Loaded(n)'
    BY <1>1, <2>1, <2>3 DEF Loaded
  <2> QED BY <1>1, <2>1, <2>2, <2>4 DEF FileInv
<1>2. CASE readIncomplete \/ readAll
  BY <1>1, <1>2 DEF readIncomplete, readAll, ends, vars
<1>3. CASE UNCHANGED constructorVars
  BY <1>1, <1>3 DEF constructorVars, fileVars, vars, FileInv
<1> QED BY <1>2, <1>3, ReadEffect DEF FileNext

(* Before the first token is read the table is empty.                      *)
LEMMA InitFileInv == ASSUME FilesOK, FileInit PROVE FileInv
<1> DEFINE len == Len(file)
<1>1. len \in Nat /\ file \in File /\ file = [k \in 1..len |-> file[k]]
  BY DEF FileInit, FilesOK
<1>2. file \in Seq(tokens)
  BY <1>1 DEF tokens
<1> HIDE DEF len
<1>3. len - 0 = len /\ \A i \in 1..len : 0 + i = i
  BY <1>1
<1>4. Remains(0)
  BY <1>2, <1>3 DEF Remains, FileInit, len
<1>5. \A key \in AddressAppKey : theTable[key] = Nil /\ among(0, key) = {}
  BY DEF FileInit, Init, among
<1>6. theTable \in [AddressAppKey -> Router \cup {Nil}]
  BY DEF FileInit, Init
<1>7. 0 \in 0..len /\ 0 % 3 = 0
  BY <1>1
<1> QED BY <1>1, <1>4, <1>5, <1>6, <1>7 DEF FileInv, Loaded, FileInit, len

(* However long the file and however often a key comes in it, a proxy that *)
(* is constructed routes each key as the last association with it says.    *)
THEOREM LastAssociationCounts ==
  ASSUME FilesOK
  PROVE  FileSpec => []LastAssociationHolds
<1>1. FileInit => FileInv
  BY InitFileInv
<1>2. FileInv /\ [FileNext]_constructorVars => FileInv'
  BY FileStep
<1>3. FileInv => LastAssociationHolds
  <2> SUFFICES ASSUME FileInv, phase = "ready" PROVE LastAssociationHolds
    BY DEF LastAssociationHolds
  <2> DEFINE len == Len(file)
  <2>1. len \in Nat /\ DOMAIN file = 1..len
    BY DEF FileInv, FilesOK
  <2>2. PICK n \in 0..len : n % 3 = 0 /\ Remains(n) /\ Loaded(n)
    BY DEF FileInv
  <2>3. len - n = 0
    BY <2>2 DEF FileInv, Remains
  <2> HIDE DEF len
  <2>4. n = len
    BY <2>1, <2>2, <2>3
  <2>5. \A key : {k \in starts : keyAt(k) = key} = among(len, key)
    BY <2>1 DEF starts, among
  <2> QED BY <2>2, <2>4, <2>5 DEF LastAssociationHolds, Loaded, len
<1> QED BY <1>1, <1>2, <1>3, PTL DEF FileSpec

-----------------------------------------------------------------------------
(* The constructor as a behaviour of the proxy.                            *)

(* The three tokens read are about what the instance has.                  *)
LEMMA TokensRead ==
  ASSUME FilesOK, FileInv, Len(rest) >= 3
  PROVE  /\ address(rest[1]) \in Address \cup {Empty}
         /\ rest[2] \in AppName /\ rest[3] \in Router
<1>1. PICK n \in 0..Len(file) : n % 3 = 0 /\ Remains(n)
  BY DEF FileInv
<1> DEFINE len == Len(file)
<1>2. len \in Nat /\ file \in File
  BY DEF FilesOK, FileInv
<1>3. Len(rest) = len - n /\ \A i \in 1..Len(rest) : rest[i] = file[n + i]
  BY <1>1 DEF Remains
<1>4. n \in Nat /\ n + 3 <= len /\ Len(rest) \in Nat
  BY <1>1, <1>2, <1>3
<1> HIDE DEF len
<1>5. rest[1] = file[n + 1] /\ rest[2] = file[n + 2] /\ rest[3] = file[n + 3]
  <2>1. 1 \in 1..Len(rest) /\ 2 \in 1..Len(rest) /\ 3 \in 1..Len(rest)
    BY <1>4
  <2> QED BY <1>3, <2>1
<1>6. n + 1 \in 1..len /\ (n + 1) % 3 = 1 /\ (n + 1) + 2 <= len
  BY <1>1, <1>4, <1>2, NextStart
<1>7. (n + 1) + 1 = n + 2 /\ (n + 1) + 2 = n + 3
  BY <1>4
<1> QED BY <1>2, <1>5, <1>6, <1>7 DEF FilesOK, len

(* The constructor only does what a thread of the proxy could do: what is  *)
(* proved of the proxy holds while the file is read, and of whatever is    *)
(* left of it when the file is ill-formed.                                 *)
THEOREM ConstructorRunsProxy ==
  ASSUME FilesOK
  PROVE  FileSpec => Spec
<1>1. FileInit => Init /\ FileInv
  BY InitFileInv DEF FileInit
<1>2. FileInv /\ [FileNext]_constructorVars => FileInv'
  BY FileStep
<1>3. ASSUME FileInv, [FileNext]_constructorVars
      PROVE  [Next]_vars
  <2>1. ASSUME NEW t \in Thread, readAssociation(t)
        PROVE  [Next]_vars
    <3>1. \/ UNCHANGED vars
          \/ associateAddress(t, address(rest[1]), rest[2], rest[3])
      BY <2>1 DEF readAssociation
    <3>2. /\ address(rest[1]) \in Address \cup {Empty}
          /\ rest[2] \in AppName /\ rest[3] \in Router
      BY <1>3, <2>1, TokensRead DEF readAssociation
    <3>3. UNCHANGED vars \/ changeTable(t)
      BY <3>1, <3>2 DEF changeTable
    <3> QED BY <3>3 DEF Next
  <2>2. CASE readIncomplete \/ readAll \/ UNCHANGED constructorVars
    BY <2>2 DEF readIncomplete, readAll, ends, constructorVars
  <2> QED BY <1>3, <2>1, <2>2 DEF FileNext
<1>4. FileInv /\ [FileNext]_constructorVars => [Next]_vars
  BY <1>3
<1> QED BY <1>1, <1>2, <1>4, PTL DEF FileSpec, Spec
=============================================================================
