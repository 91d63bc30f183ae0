---------------------------- MODULE Clients_proofs ----------------------------
(***************************************************************************)
(* The two programs that are clients of other servers: the OpenWhisk       *)
(* client, whose comparison of two lists of actions is right for lists of  *)
(* any length and names of any length, and the chat front-end, whose loop  *)
(* over the words of a text is right for texts of any length.              *)
(***************************************************************************)
EXTENDS OpenWhisk, EtsiMecCli, SequenceTheorems, TLAPS

(* What stands between namespace and name.                                 *)
Slash == "/"

(* The name of an action does not have a slash; its namespace may.         *)
PlainActionNames ==
  \A response \in Response :
    response.status = "OK" /\ response.elements # Malformed =>
      \A i \in DOMAIN response.elements :
        LET e == response.elements[i] IN
        wellFormed(e) =>
          /\ e.namespace \in Seq(STRING) /\ e.name \in Seq(STRING)
          /\ \A k \in DOMAIN e.name : e.name[k] # Slash

-----------------------------------------------------------------------------
(* The string of a key.                                                    *)

(* Names, namespaces and the strings of keys.                              *)
Text == Seq(STRING \cup {Slash})

(* The text does not have a slash.                                         *)
Plain(s) == \A i \in 1..Len(s) : s[i] # Slash

(* What the library says of sequences, for texts.                          *)
LEMMA Concat ==
  ASSUME NEW s \in Text, NEW p \in Text
  PROVE  /\ s \o p \in Text /\ Len(s \o p) = Len(s) + Len(p)
         /\ \A i \in 1..(Len(s) + Len(p)) :
              (s \o p)[i] = IF i <= Len(s) THEN s[i] ELSE p[i - Len(s)]
BY ConcatProperties DEF Text

(* Texts of the same symbols are the same.                                 *)
LEMMA SameText ==
  ASSUME NEW s \in Text, NEW p \in Text, Len(s) = Len(p),
         \A i \in 1..Len(s) : s[i] = p[i]
  PROVE  s = p
BY SeqEqual DEF Text

(* The length of a text.                                                   *)
LEMMA TextLength ==
  ASSUME NEW s \in Text
  PROVE  Len(s) \in Nat
BY DEF Text

(* Two texts joined by a slash, symbol by symbol.                          *)
LEMMA Joined ==
  ASSUME NEW s \in Text, NEW p \in Text
  PROVE  LET k == s \o <<Slash>> \o p
         IN  /\ k \in Text /\ Len(k) = Len(s) + 1 + Len(p)
             /\ \A i \in 1..Len(s) : k[i] = s[i]
             /\ k[Len(s) + 1] = Slash
             /\ \A i \in 1..Len(p) : k[Len(s) + 1 + i] = p[i]
<1> DEFINE slash == <<Slash>>
           h == s \o slash
           k == h \o p
           m == Len(s)
           n == Len(p)
<1>1. slash \in Text /\ Len(slash) = 1 /\ slash[1] = Slash
  BY DEF Text
<1> HIDE DEF slash
<1>2. /\ h \in Text /\ Len(h) = Len(s) + Len(slash)
      /\ \A i \in 1..(Len(s) + Len(slash)) :
           h[i] = IF i <= Len(s) THEN s[i] ELSE slash[i - Len(s)]
  BY <1>1, Concat
<1> HIDE DEF h
<1>3. /\ k \in Text /\ Len(k) = Len(h) + Len(p)
      /\ \A i \in 1..(Len(h) + Len(p)) :
           k[i] = IF i <= Len(h) THEN h[i] ELSE p[i - Len(h)]
  BY <1>2, Concat
<1> HIDE DEF k
<1>4. m \in Nat /\ n \in Nat
  BY TextLength
<1>5. /\ Len(h) = m + 1 /\ Len(k) = m + 1 + n
      /\ \A i \in 1..(m + 1) : h[i] = IF i <= m THEN s[i] ELSE slash[i - m]
      /\ \A i \in 1..(m + 1 + n) :
           k[i] = IF i <= m + 1 THEN h[i] ELSE p[i - (m + 1)]
  BY <1>1, <1>2, <1>3
<1> HIDE DEF m, n
<1>6. \A i \in 1..m : k[i] = s[i]
  <2> TAKE i \in 1..m
  <2>1. i \in 1..(m + 1 + n) /\ i \in 1..(m + 1) /\ i <= m /\ i <= m + 1
    BY <1>4
  <2> QED BY <1>5, <2>1
<1>7. k[m + 1] = Slash
  <2>1. m + 1 \in 1..(m + 1 + n) /\ m + 1 \in 1..(m + 1) /\ m + 1 - m = 1
    BY <1>4
  <2> QED BY <1>1, <1>4, <1>5, <2>1
<1>8. \A i \in 1..n : k[m + 1 + i] = p[i]
  <2> TAKE i \in 1..n
  <2>1. /\ m + 1 + i \in 1..(m + 1 + n) /\ ~(m + 1 + i <= m + 1)
        /\ m + 1 + i - (m + 1) = i
    BY <1>4
  <2> QED BY <1>5, <2>1
<1> QED BY <1>3, <1>5, <1>6, <1>7, <1>8 DEF h, k, slash, m, n

(* The last slash tells where the second text starts, if it has none.      *)
LEMMA SplitSlash ==
  ASSUME NEW s \in Text, NEW t \in Text, NEW p \in Text, NEW q \in Text,
         Plain(p), Plain(q), s \o <<Slash>> \o p = t \o <<Slash>> \o q
  PROVE  s = t /\ p = q
<1> DEFINE k == s \o <<Slash>> \o p
           a == Len(s)
           b == Len(t)
           c == Len(p)
           d == Len(q)
<1>1. /\ Len(k) = a + 1 + c /\ k[a + 1] = Slash
      /\ \A i \in 1..a : k[i] = s[i]
      /\ \A i \in 1..c : k[a + 1 + i] = p[i]
  BY Joined
<1>2. /\ Len(k) = b + 1 + d /\ k[b + 1] = Slash
      /\ \A i \in 1..b : k[i] = t[i]
      /\ \A i \in 1..d : k[b + 1 + i] = q[i]
  <2> DEFINE j == t \o <<Slash>> \o q
  <2>1. /\ Len(j) = b + 1 + d /\ j[b + 1] = Slash
        /\ \A i \in 1..b : j[i] = t[i]
        /\ \A i \in 1..d : j[b + 1 + i] = q[i]
    BY Joined
  <2>2. k = j
    OBVIOUS
  <2> HIDE DEF k, j
  <2> QED BY <2>1, <2>2
<1>3. a \in Nat /\ b \in Nat /\ c \in Nat /\ d \in Nat
  BY DEF Text
<1> HIDE DEF k
<1>4. /\ \A i \in 1..c : p[i] # Slash
      /\ \A i \in 1..d : q[i] # Slash
  BY DEF Plain
<1>5. /\ a = Len(s) /\ b = Len(t) /\ c = Len(p) /\ d = Len(q)
  OBVIOUS
<1> HIDE DEF a, b, c, d
<1>6. a + c = b + d
  <2>1. a + 1 + c = b + 1 + d
    BY <1>1, <1>2
  <2> QED BY <1>3, <2>1
<1>7. ~(a < b)
  <2> SUFFICES ASSUME a < b PROVE FALSE
    OBVIOUS
  <2>1. b - a \in 1..c /\ a + 1 + (b - a) = b + 1
    BY <1>3, <1>6
  <2> QED BY <1>1, <1>2, <1>4, <2>1
<1>8. ~(b < a)
  <2> SUFFICES ASSUME b < a PROVE FALSE
    OBVIOUS
  <2>1. a - b \in 1..d /\ b + 1 + (a - b) = a + 1
    BY <1>3, <1>6
  <2> QED BY <1>1, <1>2, <1>4, <2>1
<1>9. a = b /\ c = d
  BY <1>3, <1>6, <1>7, <1>8
<1>10. s = t
  BY <1>1, <1>2, <1>5, <1>9, SameText
<1>11. p = q
  <2>1. \A i \in 1..c : p[i] = q[i]
    BY <1>1, <1>2, <1>9
  <2> QED BY <1>5, <1>9, <2>1, SameText
<1> QED BY <1>10, <1>11

(* A key as the lister makes it of a plain element.                        *)
PlainKey(k) ==
  /\ k = ActionKey(k.theSpace, k.theName)
  /\ k.theSpace \in Seq(STRING) /\ k.theName \in Seq(STRING)
  /\ \A i \in DOMAIN k.theName : k.theName[i] # Slash

(* Keys with one string are one key.                                       *)
LEMMA ToStringInjective ==
  ASSUME NEW k, NEW l, PlainKey(k), PlainKey(l), toString(k) = toString(l)
  PROVE  k = l
<1>1. \A s \in Seq(STRING) : s \in Text
  BY DEF Text
<1> DEFINE e == <<>>
           ks == k.theSpace
           ls == l.theSpace
           kn == k.theName
           ln == l.theName
           slash == <<Slash>>
           kh == slash \o ks
           lh == slash \o ls
<1>2. /\ ks \in Text /\ ls \in Text /\ kn \in Text /\ ln \in Text
      /\ e \in Text /\ slash \in Text
      /\ Plain(kn) /\ Plain(ln)
  BY <1>1 DEF PlainKey, Text, Plain
<1>3. kh \o <<Slash>> \o kn = lh \o <<Slash>> \o ln
  BY DEF toString, Slash
<1>4. kh \in Text /\ lh \in Text
  <2> HIDE DEF ks, ls, slash
  <2> QED BY <1>2, Concat
<1>5. kh = lh /\ kn = ln
  <2> HIDE DEF kh, lh, kn, ln
  <2> QED BY <1>2, <1>3, <1>4, SplitSlash
<1>6. ks = ls
  <2>1. Len(slash) = 1 /\ Len(ks) \in Nat /\ Len(ls) \in Nat
    BY <1>2 DEF Text
  <2> HIDE DEF ks, ls, slash
  <2>2. /\ Len(kh) = 1 + Len(ks) /\ Len(lh) = 1 + Len(ls)
        /\ \A i \in 1..(1 + Len(ks)) :
             kh[i] = IF i <= 1 THEN slash[i] ELSE ks[i - 1]
        /\ \A i \in 1..(1 + Len(ls)) :
             lh[i] = IF i <= 1 THEN slash[i] ELSE ls[i - 1]
    <3>1. /\ Len(kh) = Len(slash) + Len(ks) /\ Len(lh) = Len(slash) + Len(ls)
          /\ \A i \in 1..(Len(slash) + Len(ks)) :
               kh[i] = IF i <= Len(slash) THEN slash[i] ELSE ks[i - Len(slash)]
          /\ \A i \in 1..(Len(slash) + Len(ls)) :
               lh[i] = IF i <= Len(slash) THEN slash[i] ELSE ls[i - Len(slash)]
      BY <1>2, Concat
    <3> HIDE DEF kh, lh
    <3> QED BY <2>1, <3>1
  <2> HIDE DEF kh, lh
  <2>3. Len(ks) = Len(ls)
    BY <1>5, <2>1, <2>2
  <2>4. ASSUME NEW i \in 1..Len(ks) PROVE ks[i] = ls[i]
    <3>1. i + 1 \in 1..(1 + Len(ks)) /\ i + 1 - 1 = i /\ ~(i + 1 <= 1)
      BY <2>1
    <3>2. kh[i + 1] = ks[i] /\ lh[i + 1] = ls[i]
      BY <2>2, <2>3, <3>1
    <3> QED BY <1>5, <3>2
  <2> QED BY <1>2, <2>3, <2>4, SameText
<1> QED BY <1>5, <1>6 DEF PlainKey

-----------------------------------------------------------------------------
(* The lists.                                                              *)

(* A list with plain keys.                                                 *)
PlainList(m) == m # NoList => \A k \in DOMAIN m : PlainKey(k)

(* Whatever the gateway answers, the keys of the list are plain.           *)
LEMMA ListPlain ==
  ASSUME PlainActionNames, NEW response \in Response
  PROVE  PlainList(list(response))
<1> SUFFICES ASSUME list(response) # NoList, NEW k \in DOMAIN list(response)
             PROVE  PlainKey(k)
  BY DEF PlainList
<1> DEFINE es == response.elements
<1>1. /\ response.status = "OK" /\ es # Malformed
      /\ \A i \in DOMAIN es : wellFormed(es[i])
      /\ list(response) = listed(es)
  BY DEF list
<1>2. PICK i \in DOMAIN es : k = keyOf(es[i])
  BY <1>1 DEF listed
<1>3. /\ es[i].namespace \in Seq(STRING) /\ es[i].name \in Seq(STRING)
      /\ \A j \in DOMAIN es[i].name : es[i].name[j] # Slash
  BY <1>1 DEF PlainActionNames
<1>4. k.theSpace = es[i].namespace /\ k.theName = es[i].name
  BY <1>2 DEF keyOf, ActionKey
<1> QED BY <1>2, <1>3, <1>4 DEF PlainKey, keyOf

(* "true if the two maps have the same keys": what sameKeys answers of two *)
(* lists is whether they are of the same actions, whatever the gateway     *)
(* answered, as long as no action has a slash in its name.                 *)
THEOREM SameKeysAlwaysMeansSame ==
  ASSUME PlainActionNames
  PROVE  ListerSpec => []SameKeysMeansSame
<1> DEFINE PlainLists == PlainList(before) /\ PlainList(now)
<1>1. ListerInit => PlainLists
  BY DEF ListerInit, PlainList
<1>2. PlainLists /\ [ListerNext]_listerVars => PlainLists'
  BY ListPlain DEF ListerNext, poll, listerVars, PlainList
<1>3. PlainLists => SameKeysMeansSame
  <2> SUFFICES ASSUME PlainLists, before # NoList, now # NoList
               PROVE  sameKeys(before, now) <=> DOMAIN before = DOMAIN now
    BY DEF SameKeysMeansSame
  <2>1. ASSUME DOMAIN before = DOMAIN now PROVE sameKeys(before, now)
    BY <2>1 DEF sameKeys, sameSize, strings
  <2>2. ASSUME sameKeys(before, now) PROVE DOMAIN before = DOMAIN now
    <3>1. ASSUME NEW l, NEW r, l # NoList, r # NoList, PlainList(l), PlainList(r),
                 strings(l) = strings(r), NEW k \in DOMAIN l
          PROVE  k \in DOMAIN r
      <4>1. PICK j \in DOMAIN r : toString(k) = toString(j)
        BY <3>1 DEF strings
      <4> QED BY <3>1, <4>1, ToStringInjective DEF PlainList
    <3>2. strings(before) = strings(now)
      BY <2>2 DEF sameKeys
    <3> QED BY <3>1, <3>2
  <2> QED BY <2>1, <2>2
<1> QED BY <1>1, <1>2, <1>3, PTL DEF ListerSpec

-----------------------------------------------------------------------------
(* Keywords and values in a text.                                          *)

(* The words right before word k are an even number of keywords.           *)
EvenRun(k) ==
  \E n \in 0..Len(myText) :
    /\ keywordsBefore(k) = {j \in 1..(k - 1) : j >= k - 2 * n}
    /\ k > 2 * n

(* At the start and after a word that is no keyword there is none.         *)
LEMMA NoRun ==
  ASSUME Len(myText) \in Nat, NEW k \in Nat \ {0},
         k = 1 \/ myText[k - 1] \notin Keyword
  PROVE  EvenRun(k)
<1>1. ASSUME NEW j \in keywordsBefore(k) PROVE FALSE
  <2>1. j \in 1..(k - 1) /\ \A i \in j..(k - 1) : myText[i] \in Keyword
    BY <1>1 DEF keywordsBefore
  <2>2. k - 1 \in j..(k - 1)
    BY <2>1
  <2> QED BY <2>1, <2>2
<1>2. keywordsBefore(k) = {j \in 1..(k - 1) : j >= k - 2 * 0}
  BY <1>1 DEF keywordsBefore
<1> QED BY <1>2 DEF EvenRun

(* A keyword is one more for the word after it.                            *)
LEMMA LongerRun ==
  ASSUME NEW k \in Nat \ {0}, myText[k] \in Keyword
  PROVE  keywordsBefore(k + 1) = keywordsBefore(k) \cup {k}
<1>1. ASSUME NEW j \in keywordsBefore(k + 1) PROVE j \in keywordsBefore(k) \cup {k}
  <2>1. j \in 1..k /\ \A i \in j..k : myText[i] \in Keyword
    BY <1>1 DEF keywordsBefore
  <2>2. \A i \in j..(k - 1) : i \in j..k
    BY <2>1
  <2> QED BY <2>1, <2>2 DEF keywordsBefore
<1>2. ASSUME NEW j \in keywordsBefore(k) PROVE j \in keywordsBefore(k + 1)
  <2>1. j \in 1..(k - 1) /\ \A i \in j..(k - 1) : myText[i] \in Keyword
    BY <1>2 DEF keywordsBefore
  <2>2. \A i \in j..k : i \in j..(k - 1) \/ i = k
    BY <2>1
  <2>3. j \in 1..k /\ \A i \in j..k : myText[i] \in Keyword
    BY <2>1, <2>2
  <2> QED BY <2>3 DEF keywordsBefore
<1>3. k \in keywordsBefore(k + 1)
  BY DEF keywordsBefore
<1> QED BY <1>1, <1>2, <1>3

(* A keyword as the value of a keyword.                                    *)
LEMMA EvenTwice ==
  ASSUME Len(myText) \in Nat, NEW k \in Nat \ {0}, k < Len(myText),
         EvenRun(k), myText[k] \in Keyword, myText[k + 1] \in Keyword
  PROVE  EvenRun(k + 2)
<1>1. PICK n \in 0..Len(myText) :
        /\ keywordsBefore(k) = {j \in 1..(k - 1) : j >= k - 2 * n}
        /\ k > 2 * n
  BY DEF EvenRun
<1>2. keywordsBefore(k + 2) = keywordsBefore(k) \cup {k, k + 1}
  <2>1. keywordsBefore((k + 1) + 1) = keywordsBefore(k + 1) \cup {k + 1}
    BY LongerRun
  <2>2. keywordsBefore(k + 1) = keywordsBefore(k) \cup {k}
    BY LongerRun
  <2>3. (k + 1) + 1 = k + 2
    OBVIOUS
  <2> QED BY <2>1, <2>2, <2>3
<1>3. keywordsBefore(k + 2) =
        {j \in 1..((k + 2) - 1) : j >= (k + 2) - 2 * (n + 1)}
  BY <1>1, <1>2
<1>4. n + 1 \in 0..Len(myText) /\ k + 2 > 2 * (n + 1)
  BY <1>1
<1> QED BY <1>3, <1>4 DEF EvenRun

(* The value of a keyword is not a keyword to the loop, even if it looks   *)
(* like one.                                                               *)
LEMMA ValueIsNoKey ==
  ASSUME Len(myText) \in Nat, NEW k \in Nat \ {0},
         EvenRun(k), myText[k] \in Keyword
  PROVE  ~isKey(k + 1)
<1> SUFFICES ASSUME isKey(k + 1) PROVE FALSE
  OBVIOUS
<1>1. PICK n \in 0..Len(myText) :
        /\ keywordsBefore(k) = {j \in 1..(k - 1) : j >= k - 2 * n}
        /\ k > 2 * n
  BY DEF EvenRun
<1>2. PICK m \in 0..Len(myText) :
        /\ keywordsBefore(k + 1) = {j \in 1..k : j >= (k + 1) - 2 * m}
        /\ k + 1 > 2 * m
  BY DEF isKey
<1>3. keywordsBefore(k + 1) = {j \in 1..k : j >= k - 2 * n}
  BY <1>1, LongerRun
<1>4. k - 2 * n \in keywordsBefore(k + 1)
  BY <1>1, <1>3
<1>5. k - 2 * n >= (k + 1) - 2 * m
  BY <1>2, <1>4
<1>6. m # 0
  BY <1>5, <1>1
<1>7. (k + 1) - 2 * m \in keywordsBefore(k + 1)
  BY <1>2, <1>6
<1>8. (k + 1) - 2 * m >= k - 2 * n
  BY <1>3, <1>7
<1> QED BY <1>1, <1>2, <1>5, <1>8

-----------------------------------------------------------------------------
(* The values found in the first n words.                                  *)

valuesUpTo(n, key) ==
  {k \in 1..n : k > 1 /\ isKey(k - 1) /\ myText[k - 1] = key}

foundUpTo(n, key, value, default) ==
  \/ valuesUpTo(n, key) = {} /\ value = default
  \/ \E k \in valuesUpTo(n, key) :
       value = myText[k] /\ \A l \in valuesUpTo(n, key) : l <= k

(* A word that is no value adds none.                                      *)
LEMMA NoValue ==
  ASSUME NEW n \in Nat, n > 0 => ~isKey(n), NEW key
  PROVE  valuesUpTo(n + 1, key) = valuesUpTo(n, key)
<1>1. \A k \in 1..(n + 1) : k > 1 => (k \in 1..n \/ ~isKey(k - 1))
  <2> TAKE k \in 1..(n + 1)
  <2>1. CASE k = n + 1
    BY <2>1
  <2>2. CASE k # n + 1
    BY <2>2
  <2> QED BY <2>1, <2>2
<1>2. \A k \in 1..n : k \in 1..(n + 1)
  OBVIOUS
<1> QED BY <1>1, <1>2 DEF valuesUpTo

(* The value of a keyword is the last one of that keyword, and none of     *)
(* another.                                                                *)
LEMMA OneValue ==
  ASSUME NEW n \in Nat, n > 0 => ~isKey(n), isKey(n + 1), NEW key
  PROVE  valuesUpTo(n + 2, key) =
           IF myText[n + 1] = key THEN valuesUpTo(n, key) \cup {n + 2}
           ELSE valuesUpTo(n, key)
<1>1. valuesUpTo(n + 1, key) = valuesUpTo(n, key)
  BY NoValue
<1>2. ASSUME NEW k
      PROVE  k \in valuesUpTo(n + 2, key) <=>
               \/ k \in valuesUpTo(n + 1, key)
               \/ k = n + 2 /\ myText[n + 1] = key
  <2>1. k \in 1..(n + 2) <=> k \in 1..(n + 1) \/ k = n + 2
    OBVIOUS
  <2>2. CASE k = n + 2
    <3>1. k - 1 = n + 1 /\ k > 1 /\ k \notin 1..(n + 1)
      BY <2>2
    <3> QED BY <2>1, <2>2, <3>1 DEF valuesUpTo
  <2>3. CASE k # n + 2
    BY <2>1, <2>3 DEF valuesUpTo
  <2> QED BY <2>2, <2>3
<1> QED BY <1>1, <1>2

(* What was found stays when a word that is no value is passed.            *)
LEMMA FoundAgain ==
  ASSUME NEW n \in Nat, n > 0 => ~isKey(n), NEW key, NEW value, NEW default,
         foundUpTo(n, key, value, default)
  PROVE  foundUpTo(n + 1, key, value, default)
BY NoValue DEF foundUpTo

(* A keyword and its value replace what was found for that keyword.        *)
LEMMA FoundNext ==
  ASSUME NEW n \in Nat, n > 0 => ~isKey(n), isKey(n + 1),
         NEW key, NEW value, NEW default, foundUpTo(n, key, value, default)
  PROVE  foundUpTo(n + 2, key,
                   IF myText[n + 1] = key THEN myText[n + 2] ELSE value, default)
<1>1. CASE myText[n + 1] = key
  <2>1. valuesUpTo(n + 2, key) = valuesUpTo(n, key) \cup {n + 2}
    BY <1>1, OneValue
  <2>2. \A l \in valuesUpTo(n, key) : l <= n + 2
    BY DEF valuesUpTo
  <2> QED BY <1>1, <2>1, <2>2 DEF foundUpTo
<1>2. CASE myText[n + 1] # key
  BY <1>2, OneValue DEF foundUpTo
<1> QED BY <1>1, <1>2

-----------------------------------------------------------------------------
(* The loop over the words.                                                *)

(* Between two rounds the iterator is after a value or a word that is      *)
(* neither, and an even number of keywords is right before it.             *)
ChatInv ==
  /\ myCommands \in Form /\ field \in Nat /\ isSequence(myText) /\ word \in Nat
  /\ myFail \in BOOLEAN
  /\ stage = "fields" =>
       word = 0 /\ ~myFail /\ myCommand = "app_list" /\ myApiRoot = Empty
  /\ stage = "words" /\ myFail =>
       /\ Len(myText) > 0 /\ isKey(Len(myText))
       /\ foundUpTo(Len(myText), "command", myCommand, "app_list")
       /\ foundUpTo(Len(myText), "apiroot", myApiRoot, Empty)
  /\ stage = "words" /\ ~myFail =>
       /\ word <= Len(myText) /\ EvenRun(word + 1)
       /\ word > 0 => ~isKey(word)
       /\ foundUpTo(word, "command", myCommand, "app_list")
       /\ foundUpTo(word, "apiroot", myApiRoot, Empty)

(* The steps over the words leave the text alone, and with it what is      *)
(* defined by the text.                                                    *)
LEMMA TextKept ==
  ASSUME myText' = myText
  PROVE  /\ \A k : isKey(k)' = isKey(k)
         /\ \A k : EvenRun(k)' = EvenRun(k)
         /\ \A n, key, value, default :
              foundUpTo(n, key, value, default)' = foundUpTo(n, key, value, default)
BY DEF isKey, EvenRun, keywordsBefore, foundUpTo, valuesUpTo

(* A field, which may bring the text.                                      *)
LEMMA ReadField ==
  ASSUME ChatInv, readField
  PROVE  ChatInv'
<1>1. isSequence(myCommands) /\ Len(myCommands) \in Nat
  BY FormAssumption DEF ChatInv, isSequence
<1>2. field + 1 \in 1..Len(myCommands)
  BY <1>1 DEF ChatInv, readField
<1>3. isSequence(myText')
  BY <1>2, FormAssumption DEF ChatInv, readField, isSequence
<1>4. isSequence(myText)'
  BY <1>3 DEF isSequence
<1> QED BY <1>4 DEF ChatInv, readField, parsed

(* An exception ends the handler.                                          *)
LEMMA Throw ==
  ASSUME ChatInv, throw
  PROVE  ChatInv'
BY DEF ChatInv, throw, parsed, isSequence

(* Before the first word nothing is found.                                 *)
LEMMA EndOfFields ==
  ASSUME ChatInv, endOfFields
  PROVE  ChatInv'
<1>1. myText' = myText /\ word' = word /\ myCommand' = myCommand
        /\ myApiRoot' = myApiRoot /\ ~myFail' /\ myFail' \in BOOLEAN
        /\ stage' = "words"
        /\ myCommands' = myCommands /\ field' = field
  BY DEF ChatInv, endOfFields, parsed
<1>2. word = 0 /\ myCommand = "app_list" /\ myApiRoot = Empty
  BY DEF ChatInv, endOfFields
<1>3. Len(myText) \in Nat
  BY DEF ChatInv, isSequence
<1>4. EvenRun(1)
  BY <1>3, NoRun
<1>5. \A key : valuesUpTo(0, key) = {}
  BY DEF valuesUpTo
<1>6. /\ foundUpTo(0, "command", myCommand, "app_list")
      /\ foundUpTo(0, "apiroot", myApiRoot, Empty)
  BY <1>2, <1>5 DEF foundUpTo
<1>7. /\ EvenRun(word + 1)'
      /\ foundUpTo(word, "command", myCommand, "app_list")'
      /\ foundUpTo(word, "apiroot", myApiRoot, Empty)'
  BY <1>1, <1>2, <1>4, <1>6, TextKept
<1>8. isSequence(myText)'
  BY <1>1 DEF ChatInv, isSequence
<1> QED BY <1>1, <1>2, <1>3, <1>7, <1>8 DEF ChatInv

(* A word that is no keyword is passed.                                    *)
LEMMA ReadOther ==
  ASSUME ChatInv, NEW w, readOther(w)
  PROVE  ChatInv'
<1>1. myText' = myText /\ word' = word + 1 /\ myCommand' = myCommand
        /\ myApiRoot' = myApiRoot /\ ~myFail' /\ myFail' \in BOOLEAN
        /\ stage' = "words"
        /\ myCommands' = myCommands /\ field' = field
  BY DEF ChatInv, readOther, reading, parsed
<1>2. /\ Len(myText) \in Nat /\ word \in Nat /\ word < Len(myText)
      /\ stage = "words" /\ ~myFail /\ myText[word + 1] \notin Keyword
  BY DEF ChatInv, isSequence, readOther, reading
<1>3. EvenRun((word + 1) + 1)
  BY <1>2, NoRun
<1>4. ~isKey(word + 1)
  BY <1>2 DEF isKey
<1>5. /\ word > 0 => ~isKey(word)
      /\ foundUpTo(word, "command", myCommand, "app_list")
      /\ foundUpTo(word, "apiroot", myApiRoot, Empty)
  BY <1>2 DEF ChatInv
<1>6. /\ foundUpTo(word + 1, "command", myCommand, "app_list")
      /\ foundUpTo(word + 1, "apiroot", myApiRoot, Empty)
  BY <1>2, <1>5, FoundAgain
<1>7. /\ EvenRun(word + 1)' /\ ~isKey(word)'
      /\ foundUpTo(word, "command", myCommand, "app_list")'
      /\ foundUpTo(word, "apiroot", myApiRoot, Empty)'
  BY <1>1, <1>3, <1>4, <1>6, TextKept
<1>8. isSequence(myText)'
  BY <1>1 DEF ChatInv, isSequence
<1> QED BY <1>1, <1>2, <1>7, <1>8 DEF ChatInv

(* A keyword takes its value along, or is the last word.                   *)
LEMMA ReadKeyword ==
  ASSUME ChatInv, NEW w, readKeyword(w)
  PROVE  ChatInv'
<1>1. myText' = myText /\ word' = word + 2 /\ stage' = "words"
        /\ myCommands' = myCommands /\ field' = field
        /\ myFail' = (word + 1 = Len(myText))
  BY DEF readKeyword, reading
<1>2. /\ Len(myText) \in Nat /\ word \in Nat /\ word < Len(myText)
      /\ stage = "words" /\ ~myFail /\ myFail \in BOOLEAN
      /\ w = myText[word + 1] /\ myText[word + 1] \in Keyword
  BY DEF ChatInv, isSequence, readKeyword, reading
<1>3. /\ word > 0 => ~isKey(word)
      /\ EvenRun(word + 1)
      /\ foundUpTo(word, "command", myCommand, "app_list")
      /\ foundUpTo(word, "apiroot", myApiRoot, Empty)
  BY <1>2 DEF ChatInv
<1>4. isKey(word + 1)
  BY <1>2, <1>3 DEF isKey, EvenRun
<1>5. isSequence(myText)'
  BY <1>1 DEF ChatInv, isSequence
<1>6. CASE word + 1 = Len(myText)
  <2>1. myFail' = TRUE /\ myCommand' = myCommand /\ myApiRoot' = myApiRoot
    BY <1>1, <1>6 DEF readKeyword
  <2>2. /\ foundUpTo(word + 1, "command", myCommand, "app_list")
        /\ foundUpTo(word + 1, "apiroot", myApiRoot, Empty)
    BY <1>2, <1>3, FoundAgain
  <2>3. /\ Len(myText)' > 0 /\ isKey(Len(myText))'
        /\ foundUpTo(Len(myText), "command", myCommand, "app_list")'
        /\ foundUpTo(Len(myText), "apiroot", myApiRoot, Empty)'
    BY <1>1, <1>2, <1>4, <1>6, <2>1, <2>2, TextKept
  <2> QED BY <1>1, <1>2, <1>5, <2>1, <2>3 DEF ChatInv
<1>7. CASE word + 1 # Len(myText)
  <2>0. myFail' = FALSE /\ word + 2 <= Len(myText)
    BY <1>1, <1>2, <1>7
  <2>1. /\ ~myFail' /\ myFail' \in BOOLEAN /\ word + 2 <= Len(myText)
        /\ myCommand' = IF myText[word + 1] = "command" THEN myText[word + 2]
                        ELSE myCommand
        /\ myApiRoot' = IF myText[word + 1] = "apiroot" THEN myText[word + 2]
                        ELSE myApiRoot
    BY <1>2, <2>0 DEF readKeyword
  <2>2. EvenRun((word + 2) + 1)
    <3>1. CASE myText[word + 2] \in Keyword
      <4>1. EvenRun((word + 1) + 2)
        <5>1. (word + 1) + 1 = word + 2 /\ word + 1 \in Nat \ {0}
              /\ word + 1 < Len(myText)
          BY <1>2, <2>1
        <5> QED BY <1>2, <1>3, <3>1, <5>1, EvenTwice
      <4> QED BY <1>2, <4>1
    <3>2. CASE myText[word + 2] \notin Keyword
      BY <1>2, <3>2, NoRun
    <3> QED BY <3>1, <3>2
  <2>3. ~isKey(word + 2)
    <3>1. ~isKey((word + 1) + 1)
      BY <1>2, <1>3, ValueIsNoKey
    <3> QED BY <1>2, <3>1
  <2>4. /\ foundUpTo(word + 2, "command", myCommand', "app_list")
        /\ foundUpTo(word + 2, "apiroot", myApiRoot', Empty)
    BY <1>2, <1>3, <1>4, <2>1, FoundNext
  <2>5. /\ EvenRun(word + 1)' /\ ~isKey(word)'
        /\ foundUpTo(word, "command", myCommand, "app_list")'
        /\ foundUpTo(word, "apiroot", myApiRoot, Empty)'
    BY <1>1, <2>2, <2>3, <2>4, TextKept
  <2> QED BY <1>1, <1>2, <1>5, <2>1, <2>5 DEF ChatInv
<1> QED BY <1>6, <1>7

(* After the reply nothing is claimed of the words.                        *)
LEMMA EndOfChat ==
  ASSUME ChatInv, invalidInput \/ execute
  PROVE  ChatInv'
<1>1. /\ myText' = myText /\ word' = word /\ myCommands' = myCommands
      /\ field' = field /\ myFail' = myFail
      /\ stage' \in {"replied", "aborted"}
  BY DEF invalidInput, execute, finish, parsed
<1> QED BY <1>1 DEF ChatInv, isSequence

(* The invariant holds whatever is posted.                                 *)
LEMMA ChatInductive == ChatSpec => []ChatInv
<1>1. ChatInit => ChatInv
  <2> SUFFICES ASSUME ChatInit PROVE ChatInv
    OBVIOUS
  <2>1. isSequence(myText)
    BY DEF ChatInit, isSequence
  <2>2. myFail \in BOOLEAN /\ ~myFail /\ stage = "fields"
    BY DEF ChatInit
  <2> QED BY <2>1, <2>2 DEF ChatInit, ChatInv
<1>2. ChatInv /\ [ChatNext]_chatVars => ChatInv'
  <2> SUFFICES ASSUME ChatInv, [ChatNext]_chatVars PROVE ChatInv'
    OBVIOUS
  <2>1. CASE readField
    BY <2>1, ReadField
  <2>2. CASE throw \/ endOfFields
    BY <2>2, Throw, EndOfFields
  <2>3. ASSUME NEW w, readKeyword(w) \/ readOther(w) PROVE ChatInv'
    BY <2>3, ReadKeyword, ReadOther
  <2>4. CASE invalidInput \/ execute
    BY <2>4, EndOfChat
  <2>5. CASE UNCHANGED chatVars
    <3>1. /\ \A k : isKey(k)' = isKey(k)
          /\ \A k : EvenRun(k)' = EvenRun(k)
          /\ \A n, key, value, default :
               foundUpTo(n, key, value, default)' = foundUpTo(n, key, value, default)
      BY <2>5, TextKept DEF chatVars
    <3> QED BY <2>5, <3>1 DEF ChatInv, chatVars, isSequence
  <2> QED BY <2>1, <2>2, <2>3, <2>4, <2>5 DEF ChatNext
<1> QED BY <1>1, <1>2, PTL DEF ChatSpec

(* LastValueCounts: the loop of the chat front-end, whose body moves the   *)
(* iterator too, finds the last value of each keyword and rejects exactly  *)
(* the texts that end with a keyword, for texts of any length.             *)
THEOREM LastValueAlwaysCounts == ChatSpec => []LastValueCounts
<1>1. ChatInv => LastValueCounts
  <2> SUFFICES ASSUME ChatInv, endOfWords PROVE
        /\ myFail <=> myText # <<>> /\ isKey(Len(myText))
        /\ means("command", myCommand, "app_list")
        /\ means("apiroot", myApiRoot, Empty)
    BY DEF LastValueCounts
  <2>1. /\ Len(myText) \in Nat /\ DOMAIN myText = 1..Len(myText) /\ word \in Nat
        /\ stage = "words" /\ (myFail \/ word >= Len(myText))
        /\ myFail \in BOOLEAN
    BY DEF ChatInv, isSequence, endOfWords
  <2>2. \A key : valuesOf(key) = valuesUpTo(Len(myText), key)
    BY <2>1 DEF valuesOf, valuesUpTo
  <2>3. ~myFail => word = Len(myText)
    <3> SUFFICES ASSUME ~myFail PROVE word = Len(myText)
      OBVIOUS
    <3>1. word <= Len(myText)
      BY <2>1 DEF ChatInv
    <3>2. word >= Len(myText)
      BY <2>1
    <3>3. Len(myText) \in Nat /\ word \in Nat
      BY <2>1
    <3> QED BY <3>1, <3>2, <3>3
  <2>4. /\ foundUpTo(Len(myText), "command", myCommand, "app_list")
        /\ foundUpTo(Len(myText), "apiroot", myApiRoot, Empty)
    BY <2>1, <2>3 DEF ChatInv
  <2>5. /\ means("command", myCommand, "app_list")
        /\ means("apiroot", myApiRoot, Empty)
    BY <2>2, <2>4 DEF means, foundUpTo
  <2>6. myText # <<>> <=> Len(myText) > 0
    BY <2>1 DEF ChatInv, isSequence
  <2>7. myFail <=> myText # <<>> /\ isKey(Len(myText))
    BY <2>1, <2>3, <2>6 DEF ChatInv
  <2> QED BY <2>5, <2>7
<1> QED BY <1>1, ChatInductive, PTL
=============================================================================
