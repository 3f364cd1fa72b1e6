---------------------------- MODULE SessionProofs ---------------------------
(***************************************************************************)
(* Proofs about a session, for any relations, any commands of the grammar  *)
(* and any sizes of arrays and pools: how far a command reaches.           *)
(***************************************************************************)
EXTENDS Session, WellFoundedInduction, TLAPS

\* Leaves are for Zenon, but those that cite SMT.
USE Zenon

\* What is not behind position i is at i or before it.
LEMMA NotBehind ==
  ASSUME NEW n \in Nat, NEW i \in 1 .. n, NEW j \in 1 .. n, ~(j > i)
  PROVE  j <= i /\ j \in Nat /\ i \in Nat
BY SMT

\* The positions of a list with one element more.
LEMMA LastOrBefore ==
  ASSUME NEW m \in Nat, NEW i \in 1 .. m + 1
  PROVE  i \in 1 .. m \/ i = m + 1
BY SMT

\* Two greatest numbers are one.
LEMMA TheGreatest ==
  ASSUME NEW i \in Nat, NEW j \in Nat, j <= i, j >= i
  PROVE  j = i
BY SMT

\* A nonempty set of natural numbers has a least element.
LEMMA LeastNat ==
  ASSUME NEW T, T \subseteq Nat, T # {}
  PROVE  \E x \in T : \A y \in T : x <= y
<1> DEFINE R == OpToRel(<, Nat)
<1>1. IsWellFoundedOn(R, Nat)
  BY NatLessThanWellFounded
<1> HIDE DEF R
<1>2. PICK x \in T : \A y \in T : ~(<<y, x>> \in R)
  BY <1>1, WFMin
<1>3. ASSUME NEW y \in T PROVE x <= y
  <2>1. x \in Nat /\ y \in Nat
    BY <1>2
  <2>2. y < x => <<y, x>> \in R
    BY <2>1 DEF R, OpToRel
  <2> QED BY <2>1, <2>2, <1>2, SMT
<1> QED BY <1>2, <1>3

-----------------------------------------------------------------------------
(* Lists: attributes and tuples, and the lists of a command *)

\* A list is a function on the numbers up to its length.
LEMMA ListsAreFunctions == \A U : Seq(U) = UNION {[1 .. n -> U] : n \in Nat}
BY SMT

\* Its length, and the places of its elements.
LEMMA ListLength ==
  ASSUME NEW U, NEW l \in Seq(U)
  PROVE  Len(l) \in Nat /\ DOMAIN l = 1 .. Len(l) /\ l \in [1 .. Len(l) -> U]
BY SMT

\* Each of its elements is one of the set.
LEMMA ListElement ==
  ASSUME NEW U, NEW l \in Seq(U), NEW i \in 1 .. Len(l)
  PROVE  l[i] \in U
BY SMT

\* A list of elements of a set is one of a larger set.
LEMMA ListOverMore ==
  ASSUME NEW U, NEW V, U \subseteq V, NEW l \in Seq(U)
  PROVE  l \in Seq(V)
BY SMT

\* A list is one of its own elements.
LEMMA ListOverItsOwn ==
  ASSUME NEW U, NEW l \in Seq(U)
  PROVE  l \in Seq(Range(l))
BY SMT DEF Range

\* The empty list, and lists that are not.
LEMMA NoElements ==
  ASSUME NEW U
  PROVE  /\ Len(<<>>) = 0 /\ <<>> \in Seq(U)
         /\ \A l \in Seq(U) : l # <<>> => Len(l) \in Nat \ {0}
BY SMT

\* Lists of the same elements in the same places are one list.
LEMMA SameLists ==
  ASSUME NEW U, NEW l \in Seq(U), NEW m \in Seq(U), Len(l) = Len(m),
         \A i \in 1 .. Len(l) : l[i] = m[i]
  PROVE  l = m
BY SMT

\* What Append does to a list.
LEMMA OneMore ==
  ASSUME NEW U, NEW l \in Seq(U), NEW v \in U
  PROVE  /\ Append(l, v) \in Seq(U) /\ Len(Append(l, v)) = Len(l) + 1
         /\ Append(l, v)[Len(l) + 1] = v
         /\ \A i \in 1 .. Len(l) : Append(l, v)[i] = l[i]
BY SMT

\* What SubSeq takes of a list.
LEMMA PartOfList ==
  ASSUME NEW U, NEW l, NEW m \in Int, NEW n \in Int, \A i \in m .. n : l[i] \in U
  PROVE  /\ SubSeq(l, m, n) \in Seq(U)
         /\ \A i \in 1 .. n - m + 1 : SubSeq(l, m, n)[i] = l[m + i - 1]
         /\ Len(SubSeq(l, m, n)) = IF m <= n THEN n - m + 1 ELSE 0
BY SMT

\* Two lists, one behind the other.
LEMMA JoinedLists ==
  ASSUME NEW U, NEW l \in Seq(U), NEW m \in Seq(U)
  PROVE  /\ l \o m \in Seq(U) /\ Len(l \o m) = Len(l) + Len(m)
         /\ \A i \in 1 .. Len(l) + Len(m) :
              (l \o m)[i] = IF i <= Len(l) THEN l[i] ELSE m[i - Len(l)]
BY SMT

\* A list that grows by one is a list.
LEMMA GrownList ==
  ASSUME NEW s, s \in Seq(Range(s)), NEW v
  PROVE  /\ Append(s, v) \in Seq(Range(Append(s, v)))
         /\ Len(s) \in Nat /\ DOMAIN s = 1 .. Len(s)
         /\ Len(Append(s, v)) = Len(s) + 1
         /\ \A i \in 1 .. Len(s) : Append(s, v)[i] = s[i]
         /\ Append(s, v)[Len(s) + 1] = v
<1> DEFINE S == Range(s) \cup {v}
<1>1. s \in Seq(S) /\ v \in S
  <2>1. Range(s) \subseteq S
    OBVIOUS
  <2> QED BY <2>1, ListOverMore
<1> HIDE DEF S
<1>2. Append(s, v) \in Seq(S)
  BY <1>1, OneMore
<1>3. Append(s, v) \in Seq(Range(Append(s, v)))
  BY <1>2, ListOverItsOwn
<1> QED BY <1>1, <1>3, OneMore, ListLength, SMTT(30)

\* A list without one of its elements is a list.
LEMMA ShrunkList ==
  ASSUME NEW s, s \in Seq(Range(s)), NEW n \in 1 .. Len(s)
  PROVE  /\ RemoveAt(s, n) \in Seq(Range(RemoveAt(s, n)))
         /\ Len(s) \in Nat /\ Len(RemoveAt(s, n)) = Len(s) - 1
         /\ \A i \in 1 .. Len(s) - 1 : RemoveAt(s, n)[i] = IF i < n THEN s[i] ELSE s[i + 1]
<1> DEFINE S == Range(s)
           a == SubSeq(s, 1, n - 1)
           b == SubSeq(s, n + 1, Len(s))
<1>1. Len(s) \in Nat /\ \A i \in 1 .. Len(s) : s[i] \in S
  BY ListLength, ListElement
<1> HIDE DEF S
<1>2. a \in Seq(S) /\ Len(a) = n - 1 /\ \A i \in 1 .. n - 1 : a[i] = s[i]
  <2>1. \A i \in 1 .. n - 1 : s[i] \in S
    BY <1>1, SMT
  <2>2. n - 1 \in Int /\ 1 \in Int
    BY <1>1, SMTT(30)
  <2>3. /\ a \in Seq(S) /\ Len(a) = IF 1 <= n - 1 THEN n - 1 - 1 + 1 ELSE 0
        /\ \A i \in 1 .. n - 1 - 1 + 1 : a[i] = s[1 + i - 1]
    BY <2>1, <2>2, PartOfList, SMTT(30)
  <2> HIDE DEF a
  <2>4. \A i \in 1 .. n - 1 : i \in 1 .. n - 1 - 1 + 1 /\ 1 + i - 1 = i
    BY <1>1, SMTT(30)
  <2> QED BY <1>1, <2>3, <2>4, SMTT(30)
<1>3. b \in Seq(S) /\ Len(b) = Len(s) - n /\ \A i \in 1 .. Len(s) - n : b[i] = s[n + i]
  <2>1. \A i \in n + 1 .. Len(s) : s[i] \in S
    BY <1>1, SMT
  <2>2. n + 1 \in Int /\ Len(s) \in Int
    BY <1>1, SMTT(30)
  <2>3. /\ b \in Seq(S) /\ Len(b) = IF n + 1 <= Len(s) THEN Len(s) - (n + 1) + 1 ELSE 0
        /\ \A i \in 1 .. Len(s) - (n + 1) + 1 : b[i] = s[n + 1 + i - 1]
    BY <2>1, <2>2, PartOfList, SMTT(30)
  <2> HIDE DEF b
  <2>4. \A i \in 1 .. Len(s) - n : i \in 1 .. Len(s) - (n + 1) + 1 /\ n + 1 + i - 1 = n + i
    BY <1>1, SMT
  <2> QED BY <1>1, <2>3, <2>4, SMTT(30)
<1>4. RemoveAt(s, n) = a \o b
  BY DEF RemoveAt
<1> HIDE DEF a, b
<1>5. /\ a \o b \in Seq(S) /\ Len(a \o b) = Len(a) + Len(b)
      /\ \A i \in 1 .. Len(a) + Len(b) : (a \o b)[i] = IF i <= Len(a) THEN a[i] ELSE b[i - Len(a)]
  BY <1>2, <1>3, JoinedLists
<1>6. a \o b \in Seq(Range(a \o b))
  BY <1>5, ListOverItsOwn
<1>7. Len(a) + Len(b) = Len(s) - 1
  BY <1>1, <1>2, <1>3, SMTT(30)
<1>8. ASSUME NEW i \in 1 .. Len(s) - 1
      PROVE  (a \o b)[i] = IF i < n THEN s[i] ELSE s[i + 1]
  <2>1. CASE i < n
    BY <1>1, <1>2, <1>5, <1>7, <2>1, SMT
  <2>2. CASE ~(i < n)
    <3>1. (a \o b)[i] = b[i - (n - 1)]
      BY <1>1, <1>2, <1>5, <1>7, <2>2, SMTT(30)
    <3>2. i - (n - 1) \in 1 .. Len(s) - n /\ n + (i - (n - 1)) = i + 1
      BY <1>1, <2>2, SMTT(30)
    <3> QED BY <1>3, <2>2, <3>1, <3>2
  <2> QED BY <2>1, <2>2
<1> QED BY <1>1, <1>4, <1>5, <1>6, <1>7, <1>8

-----------------------------------------------------------------------------
(* Comparisons *)

\* The difference of two ints that an int can hold does not wrap.
LEMMA NoWrap ==
  ASSUME NEW v \in Ints
  PROVE  Wrap(v) = v
<1> DEFINE h == 2 ^ (Bits - 1)
<1>1. h \in Nat \ {0} /\ 2 ^ Bits = 2 * h
  BY PowerAssumption
<1>2. v \in -h .. (h - 1) /\ Wrap(v) = ((v + h) % (2 * h)) - h
  BY <1>1 DEF Ints, Wrap
<1> HIDE DEF h
<1>3. v + h \in 0 .. (2 * h - 1) /\ 2 * h \in Nat \ {0}
  BY <1>1, <1>2, SMTT(30)
<1>4. (v + h) % (2 * h) = v + h
  BY <1>3, SMT
<1> QED BY <1>1, <1>2, <1>4, SMTT(30)

\* Min of a set of natural numbers is its least element.
LEMMA LeastOf ==
  ASSUME NEW S, S \subseteq Nat, S # {}
  PROVE  Min(S) \in S /\ \A y \in S : Min(S) <= y
BY LeastNat DEF Min

\* The characters of a string up to its end, as strncmp sees them.
LEMMA TextFacts ==
  ASSUME NEW v \in Seq(Nat), NEW n \in Nat
  PROVE  /\ Text(v, n) \in [1 .. n -> Nat]
         /\ \A k \in 1 .. n : /\ (\A j \in 1 .. k - 1 : j <= Len(v) => v[j] # NUL) /\ k <= Len(v)
                                   => Text(v, n)[k] = v[k]
                              /\ (\E j \in 1 .. k : j <= Len(v) /\ v[j] = NUL) \/ k > Len(v)
                                   => Text(v, n)[k] = NUL
<1> DEFINE ended(k) == k > Len(v) \/ (\E j \in 1 .. k : j <= Len(v) /\ v[j] = NUL)
<1>1. Text(v, n) = [k \in 1 .. n |-> IF ended(k) THEN NUL ELSE v[k]]
  BY DEF Text
<1>2. ASSUME NEW k \in 1 .. n
      PROVE  /\ Text(v, n)[k] = IF ended(k) THEN NUL ELSE v[k]
             /\ ~ended(k) => v[k] \in Nat
             /\ (\A j \in 1 .. k - 1 : j <= Len(v) => v[j] # NUL) /\ k <= Len(v) /\ ended(k) => v[k] = NUL
  <2>1. ~ended(k) => v[k] \in Nat
    BY SMTT(30)
  <2>2. (\A j \in 1 .. k - 1 : j <= Len(v) => v[j] # NUL) /\ k <= Len(v) /\ ended(k) => v[k] = NUL
    BY SMTT(30)
  <2> QED BY <1>1, <2>1, <2>2
<1> HIDE DEF ended
<1>3. Text(v, n) \in [1 .. n -> Nat]
  <2>1. \A k \in 1 .. n : (IF ended(k) THEN NUL ELSE v[k]) \in Nat
    BY <1>2, SMTT(30) DEF NUL
  <2> QED BY <1>1, <2>1
<1>4. ASSUME NEW k \in 1 .. n
      PROVE  (\A j \in 1 .. k - 1 : j <= Len(v) => v[j] # NUL) /\ k <= Len(v) => Text(v, n)[k] = v[k]
  BY <1>2
<1>5. ASSUME NEW k \in 1 .. n, (\E j \in 1 .. k : j <= Len(v) /\ v[j] = NUL) \/ k > Len(v)
      PROVE  Text(v, n)[k] = NUL
  BY <1>2, <1>5 DEF ended
<1> QED BY <1>3, <1>4, <1>5

\* strncmp of an attribute and a filter is the difference of the two strings.
LEMMA StrncmpIsDifference ==
  ASSUME NEW d, d.type = "STRING", d.len \in Nat, NEW s, NEW w, Comparable(d, s, w)
  PROVE  Strncmp(s, w, d.len) = Difference(d, s, w) /\ Difference(d, s, w) \in Int
<1> DEFINE n == d.len
           both == Min({n, Len(w)})
           last == {k \in 1 .. both : s[k] # w[k] \/ s[k] = NUL}
           a == Text(s, n)
           b == Text(w, n)
           diff == {k \in 1 .. n : a[k] # b[k]}
<1>1. /\ n \in Nat /\ s \in [1 .. n -> Nat] /\ s \in Seq(Nat) /\ Len(s) = n /\ w \in Seq(Nat)
      /\ Len(w) \in Nat
      /\ n <= Len(w) \/ \E z \in 1 .. Len(w) : w[z] = NUL
  <2>1. s \in [1 .. n -> Nat] /\ w \in Seq(Nat) /\ (n <= Len(w) \/ NUL \in Range(w))
    BY DEF Comparable
  <2>2. NUL \in Range(w) => \E z \in 1 .. Len(w) : w[z] = NUL
    BY <2>1, SMT DEF Range
  <2>3. s \in Seq(Nat) /\ Len(s) = n
    BY <2>1, SMTT(30)
  <2>4. Len(w) \in Nat
    BY <2>1, SMT
  <2> QED BY <2>1, <2>2, <2>3, <2>4
<1>2. both \in Nat /\ both <= n /\ both <= Len(w) /\ (both = n \/ both = Len(w))
  <2>1. {n, Len(w)} \subseteq Nat /\ {n, Len(w)} # {}
    BY <1>1
  <2>2. both \in {n, Len(w)} /\ \A y \in {n, Len(w)} : both <= y
    BY <2>1, LeastOf
  <2> QED BY <2>2, <1>1
<1>3. /\ Strncmp(s, w, n) = IF last = {} THEN 0 ELSE s[Min(last)] - w[Min(last)]
      /\ Difference(d, s, w) = IF diff = {} THEN 0 ELSE a[Min(diff)] - b[Min(diff)]
  BY DEF Strncmp, Difference
<1> HIDE DEF both
<1>4. /\ a \in [1 .. n -> Nat] /\ b \in [1 .. n -> Nat]
      /\ \A k \in 1 .. n : /\ (\A j \in 1 .. k - 1 : s[j] # NUL) => a[k] = s[k]
                           /\ (\A j \in 1 .. k - 1 : j <= Len(w) => w[j] # NUL) /\ k <= Len(w) => b[k] = w[k]
                           /\ (\E j \in 1 .. k : s[j] = NUL) => a[k] = NUL
                           /\ (\E j \in 1 .. k : j <= Len(w) /\ w[j] = NUL) => b[k] = NUL
  <2>1. a \in [1 .. n -> Nat] /\ b \in [1 .. n -> Nat]
    BY <1>1, TextFacts
  <2>2. ASSUME NEW k \in 1 .. n
        PROVE  /\ k <= Len(s) /\ (\A j \in 1 .. k - 1 : s[j] # NUL) => a[k] = s[k]
               /\ (\E j \in 1 .. k : j <= Len(s) /\ s[j] = NUL) => a[k] = NUL
    <3>1. /\ (\A j \in 1 .. k - 1 : j <= Len(s) => s[j] # NUL) /\ k <= Len(s) => a[k] = s[k]
          /\ (\E j \in 1 .. k : j <= Len(s) /\ s[j] = NUL) => a[k] = NUL
      BY <1>1, TextFacts
    <3> QED BY <3>1
  <2>3. ASSUME NEW k \in 1 .. n
        PROVE  /\ (\A j \in 1 .. k - 1 : j <= Len(w) => w[j] # NUL) /\ k <= Len(w) => b[k] = w[k]
               /\ (\E j \in 1 .. k : j <= Len(w) /\ w[j] = NUL) => b[k] = NUL
    BY <1>1, TextFacts
  <2> QED BY <1>1, <2>1, <2>2, <2>3, SMTT(30)
<1> HIDE DEF a, b
<1>5. CASE last = {}
  <2>1. \A k \in 1 .. both : s[k] = w[k] /\ s[k] # NUL
    BY <1>5
  <2>2. both = n
    BY <1>1, <1>2, <2>1, SMT
  <2>3. ASSUME NEW k \in 1 .. n PROVE a[k] = b[k]
    <3>1. \A j \in 1 .. k - 1 : j \in 1 .. both
      BY <1>1, <2>2, SMT
    <3>2. a[k] = s[k]
      BY <1>4, <2>1, <3>1
    <3>3. k <= Len(w) /\ \A j \in 1 .. k - 1 : w[j] # NUL
      BY <1>1, <1>2, <2>1, <2>2, <3>1, SMTT(30)
    <3>4. b[k] = w[k]
      BY <1>4, <3>3
    <3> QED BY <2>1, <2>2, <3>2, <3>4
  <2>4. diff = {}
    BY <2>3
  <2> QED BY <1>3, <1>5, <2>4, SMT
<1>6. CASE last # {}
  <2> DEFINE m == Min(last)
  <2>1. m \in last /\ \A y \in last : m <= y
    <3>1. last \subseteq Nat
      BY <1>2, SMT
    <3> QED BY <1>6, <3>1, LeastOf
  <2>2. m \in 1 .. both /\ m \in 1 .. n /\ (s[m] # w[m] \/ s[m] = NUL)
    BY <1>1, <1>2, <2>1, SMT
  <2>3. \A j \in 1 .. m - 1 : s[j] = w[j] /\ s[j] # NUL /\ j \in 1 .. n /\ j <= Len(w)
    <3> HIDE DEF m
    <3>1. ASSUME NEW j \in 1 .. m - 1 PROVE s[j] = w[j] /\ s[j] # NUL /\ j \in 1 .. n /\ j <= Len(w)
      <4>1. j \in 1 .. both /\ j \notin last
        BY <1>2, <2>1, <2>2, SMT
      <4> QED BY <4>1, <1>1, <1>2, SMT
    <3> QED BY <3>1
  <2> HIDE DEF m
  <2>4. a[m] = s[m] /\ b[m] = w[m] /\ \A j \in 1 .. m - 1 : a[j] = b[j]
    <3>1. a[m] = s[m]
      BY <1>4, <2>2, <2>3
    <3>2. b[m] = w[m]
      <4>1. m <= Len(w)
        BY <1>1, <1>2, <2>2, SMT
      <4>2. \A j \in 1 .. m - 1 : w[j] # NUL
        BY <2>3
      <4> QED BY <1>4, <2>2, <4>1, <4>2
    <3>3. ASSUME NEW j \in 1 .. m - 1 PROVE a[j] = b[j]
      <4>1. j \in 1 .. n /\ \A i \in 1 .. j - 1 : i \in 1 .. m - 1
        BY <2>2, <2>3, SMT
      <4>2. a[j] = s[j]
        BY <1>4, <2>3, <4>1
      <4>3. b[j] = w[j]
        <5>1. j <= Len(w) /\ \A i \in 1 .. j - 1 : w[i] # NUL
          BY <2>3, <4>1
        <5> QED BY <1>4, <4>1, <5>1
      <4> QED BY <2>3, <4>2, <4>3
    <3> QED BY <3>1, <3>2, <3>3
  <2>5. CASE s[m] # w[m]
    <3>1. m \in diff /\ \A k \in diff : m <= k
      BY <2>2, <2>4, <2>5, SMTT(30)
    <3>2. Min(diff) \in diff /\ \A k \in diff : Min(diff) <= k
      <4>1. diff \subseteq Nat
        BY <1>1, SMT
      <4> QED BY <3>1, <4>1, LeastOf
    <3>3. Min(diff) = m
      <4> DEFINE f == Min(diff)
      <4>1. f \in 1 .. n /\ m <= f /\ f <= m
        BY <3>1, <3>2
      <4> HIDE DEF f
      <4>2. f = m
        BY <4>1, <2>2, SMT
      <4> QED BY <4>2 DEF f
    <3>4. diff # {} /\ Difference(d, s, w) = a[m] - b[m]
      BY <1>3, <3>1, <3>3
    <3>5. Strncmp(s, w, n) = s[m] - w[m]
      BY <1>3, <1>6 DEF m
    <3>6. a[m] \in Nat /\ b[m] \in Nat
      BY <1>4, <2>2
    <3> QED BY <2>4, <3>4, <3>5, <3>6, SMT
  <2>6. CASE s[m] = w[m]
    <3>1. s[m] = NUL /\ w[m] = NUL
      BY <2>2, <2>6
    <3>2. ASSUME NEW k \in 1 .. n PROVE a[k] = b[k]
      <4>1. CASE k < m
        <5>1. k \in 1 .. m - 1
          BY <2>2, <4>1, SMT
        <5> QED BY <2>4, <5>1
      <4>2. CASE k >= m
        <5>1. m \in 1 .. k /\ m <= Len(w)
          BY <1>2, <2>2, <4>2, SMT
        <5> QED BY <1>4, <3>1, <5>1
      <4> QED BY <4>1, <4>2, <2>2, SMT
    <3>3. diff = {}
      BY <3>2
    <3> QED BY <1>3, <1>6, <3>1, <3>3, SMT DEF m, NUL
  <2> QED BY <2>5, <2>6
<1> QED BY <1>5, <1>6

\* matchRec of comparable values says what the operator means.
LEMMA MatchIsRight ==
  ASSUME NEW d, d.type \in Types, d.len \in Nat, NEW v, NEW w, NEW op, Comparable(d, v, w)
  PROVE  (MatchRec(d, v, op, w) <=> Satisfies(d, v, op, w)) /\ Difference(d, v, w) \in Int
<1>1. CASE d.type = "STRING"
  <2>1. Strncmp(v, w, d.len) = Difference(d, v, w) /\ Difference(d, v, w) \in Int
    BY <1>1, StrncmpIsDifference
  <2>2. MatchRec(d, v, op, w) <=> Holds(Strncmp(v, w, d.len), op)
    BY <1>1 DEF MatchRec
  <2> QED BY <2>1, <2>2 DEF Satisfies
<1>2. CASE d.type = "INTEGER"
  <2>1. v - w \in Ints /\ v - w \in Int
    BY <1>2, SMT DEF Comparable
  <2>2. Wrap(v - w) = v - w
    BY <2>1, NoWrap
  <2>3. Difference(d, v, w) = v - w
    BY <1>2 DEF Difference
  <2>4. MatchRec(d, v, op, w) <=> Holds(Wrap(v - w), op)
    BY <1>2 DEF MatchRec
  <2> QED BY <2>1, <2>2, <2>3, <2>4 DEF Satisfies
<1>3. CASE d.type = "FLOAT"
  <2>1. v - w \in Int /\ Difference(d, v, w) = v - w
    BY <1>3, SMT DEF Comparable, Difference
  <2>2. MatchRec(d, v, op, w) <=> Holds(v - w, op)
    BY <1>3 DEF MatchRec
  <2> QED BY <2>1, <2>2 DEF Satisfies
<1> QED BY <1>1, <1>2, <1>3 DEF Types

\* The difference of two values, taken the other way around.
LEMMA DifferenceTurned ==
  ASSUME NEW d, NEW e, SameType(d, e), d.type \in Types, d.len \in Nat, NEW v, NEW w, Comparable(e, w, v)
  PROVE  Difference(d, v, w) = 0 - Difference(e, w, v)
<1>1. CASE d.type # "STRING"
  <2>1. v \in Int /\ w \in Int
    BY <1>1 DEF Comparable, SameType, Types
  <2>2. Difference(d, v, w) = v - w /\ Difference(e, w, v) = w - v
    BY <1>1 DEF Difference, SameType
  <2> QED BY <2>1, <2>2, SMT
<1>2. CASE d.type = "STRING"
  <2> DEFINE n == d.len
             a == Text(v, n)
             b == Text(w, n)
             diff == {k \in 1 .. n : a[k] # b[k]}
  <2>1. e.type = "STRING" /\ e.len = n /\ n \in Nat
    BY <1>2 DEF SameType
  <2>2. w \in Seq(Nat) /\ v \in Seq(Nat)
    <3>1. w \in [1 .. n -> Nat] /\ v \in Seq(Nat)
      BY <2>1 DEF Comparable
    <3> QED BY <2>1, <3>1, SMT
  <2>3. a \in [1 .. n -> Nat] /\ b \in [1 .. n -> Nat]
    BY <2>1, <2>2, TextFacts
  <2>4. Difference(d, v, w) = IF diff = {} THEN 0 ELSE a[Min(diff)] - b[Min(diff)]
    BY <1>2 DEF Difference
  <2>5. Difference(e, w, v) = IF diff = {} THEN 0 ELSE b[Min(diff)] - a[Min(diff)]
    <3>1. diff = {k \in 1 .. n : b[k] # a[k]}
      OBVIOUS
    <3> HIDE DEF diff
    <3> QED BY <2>1, <3>1 DEF Difference
  <2> HIDE DEF a, b
  <2>6. diff # {} => Min(diff) \in 1 .. n
    <3>1. diff \subseteq Nat
      BY <2>1, SMT
    <3> QED BY <3>1, LeastOf
  <2>7. CASE diff = {}
    <3>1. Difference(d, v, w) = 0 /\ Difference(e, w, v) = 0
      BY <2>4, <2>5, <2>7
    <3> HIDE DEF diff
    <3> QED BY <3>1, SMTT(30)
  <2>8. CASE diff # {}
    <3> DEFINE m == Min(diff)
    <3>1. m \in 1 .. n
      BY <2>6, <2>8
    <3>2. Difference(d, v, w) = a[m] - b[m] /\ Difference(e, w, v) = b[m] - a[m]
      BY <2>4, <2>5, <2>8
    <3> HIDE DEF m
    <3>3. a[m] \in Nat /\ b[m] \in Nat
      BY <2>3, <3>1
    <3> QED BY <3>2, <3>3, SMT
  <2> QED BY <2>7, <2>8
<1> QED BY <1>1, <1>2

\* The operator that QU_NL_Join asks of the inner attribute says the same as the
\* operator of the join.
LEMMA FlipIsRight ==
  ASSUME NEW x \in Int, NEW op \in Operators
  PROVE  Holds(0 - x, op) <=> Holds(x, Flip(op))
<1>1. CASE op = "LT"
  BY <1>1, SMT DEF Holds, Flip
<1>2. CASE op = "LTE"
  BY <1>2, SMT DEF Holds, Flip
<1>3. CASE op = "EQ"
  BY <1>3, SMT DEF Holds, Flip
<1>4. CASE op = "GTE"
  BY <1>4, SMT DEF Holds, Flip
<1>5. CASE op = "GT"
  BY <1>5, SMT DEF Holds, Flip
<1>6. CASE op = "NE"
  BY <1>6, SMT DEF Holds, Flip
<1> QED BY <1>1, <1>2, <1>3, <1>4, <1>5, <1>6 DEF Operators

\* What the inner scan is asked is the qualification of the join.
LEMMA JoinIsRight ==
  ASSUME NEW d, NEW e, SameType(d, e), d.type \in Types, d.len \in Nat, NEW v, NEW w, Comparable(e, w, v),
         NEW op \in Operators
  PROVE  MatchRec(e, w, Flip(op), v) <=> Satisfies(d, v, op, w)
<1>1. e.type \in Types /\ e.len \in Nat
  BY DEF SameType
<1>2. (MatchRec(e, w, Flip(op), v) <=> Holds(Difference(e, w, v), Flip(op))) /\ Difference(e, w, v) \in Int
  BY <1>1, MatchIsRight DEF Satisfies
<1>3. Difference(d, v, w) = 0 - Difference(e, w, v)
  BY DifferenceTurned, SMT
<1> QED BY <1>2, <1>3, FlipIsRight DEF Satisfies

-----------------------------------------------------------------------------
(* Lists of values *)

\* Nothing is listed by the empty list.
LEMMA NothingListed ==
  ASSUME NEW s, NEW f, DOMAIN s = {}, DOMAIN f = {}
  PROVE  InOrder(s, f) /\ Lists(s, f)
<1> DEFINE e == [i \in {} |-> 0]
<1>1. e \in Bijection(DOMAIN s, DOMAIN f)
  BY DEF Bijection, Injection, Surjection, IsInjective
<1>2. Listing(e, s, f) /\ \A i, j \in DOMAIN s : i < j => e[i] < e[j]
  BY DEF Listing
<1> QED BY <1>1, <1>2 DEF InOrder, Lists

\* A list grows by the value of a new argument.
LEMMA OneMoreListed ==
  ASSUME NEW n \in Nat, NEW s, DOMAIN s = 1 .. n, NEW s2, DOMAIN s2 = 1 .. n + 1,
         \A i \in 1 .. n : s2[i] = s[i],
         NEW f, NEW f2, NEW k, k \notin DOMAIN f, DOMAIN f2 = DOMAIN f \cup {k},
         \A j \in DOMAIN f : f2[j] = f[j], s2[n + 1] = f2[k]
  PROVE  /\ Lists(s, f) => Lists(s2, f2)
         /\ InOrder(s, f) /\ k \in Int /\ DOMAIN f \subseteq Int /\ (\A j \in DOMAIN f : j < k) => InOrder(s2, f2)
<1>1. n + 1 \in 1 .. n + 1 /\ n + 1 \notin 1 .. n /\ 1 .. n + 1 = (1 .. n) \cup {n + 1}
  BY SMT
<1>2. ASSUME NEW e, e \in Bijection(1 .. n, DOMAIN f), Listing(e, s, f),
             NEW g, g = [i \in 1 .. n + 1 |-> IF i = n + 1 THEN k ELSE e[i]]
      PROVE  /\ g \in Bijection(1 .. n + 1, DOMAIN f2) /\ Listing(g, s2, f2)
             /\ g[n + 1] = k /\ \A i \in 1 .. n : g[i] = e[i] /\ e[i] \in DOMAIN f
  <2>1. /\ e \in [1 .. n -> DOMAIN f] /\ \A i, j \in 1 .. n : e[i] = e[j] => i = j
        /\ \A j \in DOMAIN f : \E i \in 1 .. n : e[i] = j
    BY <1>2 DEF Bijection, Injection, Surjection, IsInjective
  <2>2. g[n + 1] = k /\ \A i \in 1 .. n : g[i] = e[i] /\ e[i] \in DOMAIN f /\ e[i] # k
    <3>1. g[n + 1] = k
      BY <1>1, <1>2
    <3>2. ASSUME NEW i \in 1 .. n PROVE g[i] = e[i] /\ e[i] \in DOMAIN f /\ e[i] # k
      <4>1. i \in 1 .. n + 1 /\ i # n + 1
        BY <1>1
      <4>2. e[i] \in DOMAIN f
        BY <2>1
      <4>3. g[i] = IF i = n + 1 THEN k ELSE e[i]
        BY <1>2, <4>1
      <4> QED BY <4>1, <4>2, <4>3
    <3> QED BY <3>1, <3>2
  <2>3. g \in [1 .. n + 1 -> DOMAIN f2]
    BY <1>1, <1>2, <2>1, <2>2
  <2>4. ASSUME NEW i \in 1 .. n + 1, NEW j \in 1 .. n + 1, g[i] = g[j] PROVE i = j
    <3>1. (i = n + 1 \/ i \in 1 .. n) /\ (j = n + 1 \/ j \in 1 .. n)
      BY <1>1
    <3>2. CASE i = n + 1
      BY <2>2, <2>4, <3>1, <3>2
    <3>3. CASE j = n + 1
      BY <2>2, <2>4, <3>1, <3>3
    <3>4. CASE i \in 1 .. n /\ j \in 1 .. n
      <4>1. e[i] = e[j]
        BY <2>2, <2>4, <3>4
      <4> QED BY <2>1, <3>4, <4>1
    <3> QED BY <3>1, <3>2, <3>3, <3>4
  <2>5. ASSUME NEW j \in DOMAIN f2 PROVE \E i \in 1 .. n + 1 : g[i] = j
    <3>1. CASE j = k
      BY <1>1, <2>2, <3>1
    <3>2. CASE j \in DOMAIN f
      <4>1. PICK i \in 1 .. n : e[i] = j
        BY <2>1, <3>2
      <4>2. i \in 1 .. n + 1
        BY <1>1
      <4> QED BY <2>2, <4>1, <4>2
    <3> QED BY <3>1, <3>2
  <2>6. g \in Bijection(1 .. n + 1, DOMAIN f2)
    BY <2>3, <2>4, <2>5 DEF Bijection, Injection, Surjection, IsInjective
  <2>7. ASSUME NEW i \in 1 .. n + 1 PROVE s2[i] = f2[g[i]]
    <3>1. CASE i = n + 1
      BY <2>2, <3>1
    <3>2. CASE i \in 1 .. n
      BY <1>2, <2>2, <3>2 DEF Listing
    <3> QED BY <1>1, <3>1, <3>2
  <2> QED BY <2>2, <2>6, <2>7 DEF Listing
<1>3. ASSUME Lists(s, f) PROVE Lists(s2, f2)
  <2>1. PICK e \in Bijection(1 .. n, DOMAIN f) : Listing(e, s, f)
    BY <1>3 DEF Lists
  <2> DEFINE g == [i \in 1 .. n + 1 |-> IF i = n + 1 THEN k ELSE e[i]]
  <2>2. g \in Bijection(1 .. n + 1, DOMAIN f2) /\ Listing(g, s2, f2)
    BY <1>2, <2>1
  <2> QED BY <2>2 DEF Lists
<1>4. ASSUME InOrder(s, f), k \in Int, DOMAIN f \subseteq Int, \A j \in DOMAIN f : j < k PROVE InOrder(s2, f2)
  <2>1. PICK e \in Bijection(1 .. n, DOMAIN f) :
               Listing(e, s, f) /\ \A i, j \in 1 .. n : i < j => e[i] < e[j]
    BY <1>4 DEF InOrder
  <2> DEFINE g == [i \in 1 .. n + 1 |-> IF i = n + 1 THEN k ELSE e[i]]
  <2>2. /\ g \in Bijection(1 .. n + 1, DOMAIN f2) /\ Listing(g, s2, f2)
        /\ g[n + 1] = k /\ \A i \in 1 .. n : g[i] = e[i] /\ e[i] \in DOMAIN f
    BY <1>2, <2>1
  <2> HIDE DEF g
  <2>3. ASSUME NEW i \in 1 .. n + 1, NEW j \in 1 .. n + 1, i < j PROVE g[i] < g[j]
    <3>1. i \in 1 .. n
      BY <2>3, SMT
    <3>2. CASE j = n + 1
      BY <1>4, <2>2, <3>1, <3>2
    <3>3. CASE j \in 1 .. n
      BY <2>1, <2>2, <2>3, <3>1, <3>3
    <3> QED BY <1>1, <3>2, <3>3
  <2> QED BY <2>2, <2>3 DEF InOrder
<1> QED BY <1>3, <1>4

-----------------------------------------------------------------------------
(* A list that a loop removes elements from *)

\* A scan that deletes is at place p: what it has seen of the old list, but for
\* the hits, is before it, in order, and the rest is behind it.
Rest(old, gone, p, hits) == [k \in {j \in 1 .. p + gone : j \notin hits} |-> old[k]]
Swept(old, now, p, hits) ==
  LET gone == Len(old) - Len(now)
  IN  /\ Len(now) <= Len(old) /\ p <= Len(now)
      /\ \A i \in p + 1 .. Len(now) : now[i] = old[i + gone]
      /\ InOrder([i \in 1 .. p |-> now[i]], Rest(old, gone, p, hits))

\* Numbers of places in the old list and in the new one.
LEMMA SweptNumbers ==
  ASSUME NEW o \in Nat, NEW m \in Nat, m <= o, NEW p \in Nat, p < m, NEW gone, gone = o - m, NEW k, k = p + 1 + gone
  PROVE  /\ gone \in Nat /\ k \in 1 .. o /\ p + 1 \in 1 .. m /\ p + 1 \in p + 1 .. m
         /\ k \in Int /\ k \notin 1 .. p + gone /\ (\A j \in 1 .. p + gone : j < k /\ j \in Int)
         /\ p + 1 + gone = k /\ p + (gone + 1) = k /\ 1 .. k = (1 .. p + gone) \cup {k}
         /\ m - 1 \in Nat /\ m - 1 <= o /\ p <= m - 1 /\ p + 1 <= m /\ o - (m - 1) = gone + 1
         /\ \A i \in p + 1 + 1 .. m : i \in p + 1 .. m
         /\ \A i \in 1 .. p : i \in 1 .. m - 1 /\ i < p + 1
         /\ \A i \in p + 1 .. m - 1 : /\ i \in 1 .. m - 1 /\ ~(i < p + 1) /\ i + 1 \in p + 1 .. m
                                      /\ i + 1 + gone = i + (gone + 1)
         /\ 1 .. p + 1 = (1 .. p) \cup {p + 1} /\ p + 1 \notin 1 .. p
<1>1. gone \in Nat /\ k \in Nat
  BY SMT
<1> QED BY <1>1, SMT

\* At first nothing has been seen.
LEMMA SweptAtFirst ==
  ASSUME NEW old, Len(old) \in Nat, NEW hits
  PROVE  Swept(old, old, 0, hits)
<1> DEFINE n == Len(old)
           s == [i \in 1 .. 0 |-> old[i]]
<1>1. n \in Nat
  OBVIOUS
<1> HIDE DEF n
<1>2. n - n = 0 /\ 0 + 0 = 0 /\ 1 .. 0 = {} /\ n <= n /\ 0 <= n /\ \A i \in 0 + 1 .. n : i + 0 = i
  BY <1>1, SMT
<1>3. DOMAIN s = {} /\ DOMAIN Rest(old, 0, 0, hits) = {}
  BY <1>2 DEF Rest
<1>4. InOrder(s, Rest(old, 0, 0, hits))
  BY <1>3, NothingListed
<1>5. InOrder(s, Rest(old, n - n, 0, hits))
  BY <1>2, <1>4
<1>6. \A i \in 0 + 1 .. n : old[i] = old[i + (n - n)]
  BY <1>2
<1> QED BY <1>2, <1>5, <1>6 DEF Swept, n

\* The next tuple of the scan is the next one of the old list.
LEMMA SweptNext ==
  ASSUME NEW old, Len(old) \in Nat, NEW now, Len(now) \in Nat, NEW p \in Nat, NEW hits, Swept(old, now, p, hits),
         p < Len(now)
  PROVE  LET k == p + 1 + (Len(old) - Len(now)) IN k \in 1 .. Len(old) /\ now[p + 1] = old[k]
<1> DEFINE o == Len(old)
           m == Len(now)
<1>1. m <= o /\ \A i \in p + 1 .. m : now[i] = old[i + (o - m)]
  BY DEF Swept
<1>2. o \in Nat /\ m \in Nat /\ p < m
  OBVIOUS
<1> HIDE DEF o, m
<1> DEFINE gone == o - m
           k == p + 1 + gone
<1>3. gone = o - m /\ k = p + 1 + gone
  OBVIOUS
<1> HIDE DEF gone, k
<1>4. m <= o
  BY <1>1
<1>5. k \in 1 .. o /\ p + 1 \in p + 1 .. m
  BY <1>2, <1>3, <1>4, SweptNumbers, SMT
<1> QED BY <1>1, <1>3, <1>5 DEF o, m

\* A tuple is kept.
LEMMA SweptKeeps ==
  ASSUME NEW old, Len(old) \in Nat, NEW now, Len(now) \in Nat, NEW p \in Nat, NEW hits, Swept(old, now, p, hits),
         p < Len(now), p + 1 + (Len(old) - Len(now)) \notin hits
  PROVE  Swept(old, now, p + 1, hits)
<1> DEFINE o == Len(old)
           m == Len(now)
           gone == o - m
           k == p + 1 + gone
           s == [i \in 1 .. p |-> now[i]]
           s2 == [i \in 1 .. p + 1 |-> now[i]]
           f == Rest(old, gone, p, hits)
           f2 == Rest(old, gone, p + 1, hits)
<1>1. m <= o /\ (\A i \in p + 1 .. m : now[i] = old[i + gone]) /\ InOrder(s, f)
  BY DEF Swept
<1>2. o \in Nat /\ m \in Nat /\ p < m /\ gone = o - m /\ k = p + 1 + gone /\ k \notin hits
  OBVIOUS
<1>3. /\ s = [i \in 1 .. p |-> now[i]] /\ s2 = [i \in 1 .. p + 1 |-> now[i]]
      /\ f = [j \in {j \in 1 .. p + gone : j \notin hits} |-> old[j]]
      /\ f2 = [j \in {j \in 1 .. p + 1 + gone : j \notin hits} |-> old[j]]
  BY DEF Rest
<1>4. now[p + 1] = old[k]
  BY SweptNext
<1>5. (/\ m <= o /\ p + 1 <= m /\ (\A i \in p + 1 + 1 .. m : now[i] = old[i + gone]) /\ InOrder(s2, f2))
        => Swept(old, now, p + 1, hits)
  BY DEF Swept
<1> HIDE DEF o, m, gone, k, s, s2, f, f2
<1>12. m <= o
  BY <1>1
<1>6. /\ p + 1 <= m /\ (\A i \in p + 1 + 1 .. m : i \in p + 1 .. m)
      /\ k \in Int /\ k \notin 1 .. p + gone /\ (\A j \in 1 .. p + gone : j < k /\ j \in Int)
      /\ 1 .. p + 1 + gone = (1 .. p + gone) \cup {k}
      /\ 1 .. p + 1 = (1 .. p) \cup {p + 1} /\ p + 1 \notin 1 .. p
  BY <1>2, <1>12, SweptNumbers, SMT
<1>7. /\ DOMAIN s = 1 .. p /\ DOMAIN s2 = 1 .. p + 1 /\ (\A i \in 1 .. p : s2[i] = s[i])
      /\ s2[p + 1] = now[p + 1]
  BY <1>3, <1>6
<1>8. DOMAIN f2 = DOMAIN f \cup {k} /\ k \notin DOMAIN f /\ DOMAIN f \subseteq 1 .. p + gone
  BY <1>2, <1>3, <1>6
<1>9. (\A j \in DOMAIN f : f2[j] = f[j]) /\ f2[k] = old[k]
  BY <1>3, <1>8
<1>10. DOMAIN f \subseteq Int /\ \A j \in DOMAIN f : j < k
  BY <1>6, <1>8
<1>11. InOrder(s2, f2)
  BY <1>1, <1>4, <1>6, <1>7, <1>8, <1>9, <1>10, OneMoreListed
<1> QED BY <1>1, <1>5, <1>6, <1>11

\* A tuple is removed.
LEMMA SweptRemoves ==
  ASSUME NEW old, Len(old) \in Nat, NEW now, now \in Seq(Range(now)), NEW p \in Nat, NEW hits, Swept(old, now, p, hits),
         p < Len(now), p + 1 + (Len(old) - Len(now)) \in hits
  PROVE  Swept(old, RemoveAt(now, p + 1), p, hits)
<1> DEFINE o == Len(old)
           m == Len(now)
           gone == o - m
           k == p + 1 + gone
           now2 == RemoveAt(now, p + 1)
           m2 == Len(now2)
           s == [i \in 1 .. p |-> now[i]]
           s2 == [i \in 1 .. p |-> now2[i]]
           f == Rest(old, gone, p, hits)
           f2 == Rest(old, o - m2, p, hits)
<1>1. m <= o /\ (\A i \in p + 1 .. m : now[i] = old[i + gone]) /\ InOrder(s, f)
  BY DEF Swept
<1>2. o \in Nat /\ m \in Nat
  BY ListLength
<1>3. p < m /\ gone = o - m /\ k = p + 1 + gone /\ k \in hits
  OBVIOUS
<1>4. /\ s = [i \in 1 .. p |-> now[i]] /\ s2 = [i \in 1 .. p |-> now2[i]]
      /\ f = [j \in {j \in 1 .. p + gone : j \notin hits} |-> old[j]]
      /\ f2 = [j \in {j \in 1 .. p + (o - m2) : j \notin hits} |-> old[j]]
  BY DEF Rest
<1>5. (/\ m2 <= o /\ p <= m2 /\ (\A i \in p + 1 .. m2 : now2[i] = old[i + (o - m2)]) /\ InOrder(s2, f2))
        => Swept(old, now2, p, hits)
  BY DEF Swept
<1>6. p + 1 \in 1 .. m => m2 = m - 1 /\ \A i \in 1 .. m - 1 : now2[i] = IF i < p + 1 THEN now[i] ELSE now[i + 1]
  BY ShrunkList
<1> HIDE DEF o, m, gone, k, now2, m2, s, s2, f, f2
<1>7. m <= o
  BY <1>1
<1>8. /\ p + 1 \in 1 .. m /\ 1 .. k = (1 .. p + gone) \cup {k} /\ p + (gone + 1) = k
      /\ m - 1 <= o /\ p <= m - 1 /\ o - (m - 1) = gone + 1
  BY <1>2, <1>3, <1>7, SweptNumbers, SMT
<1>9. /\ \A i \in 1 .. p : i \in 1 .. m - 1 /\ i < p + 1
      /\ \A i \in p + 1 .. m - 1 : /\ i \in 1 .. m - 1 /\ ~(i < p + 1) /\ i + 1 \in p + 1 .. m
                                   /\ i + 1 + gone = i + (gone + 1)
  BY <1>2, <1>3, <1>7, SweptNumbers, SMT
<1>10. m2 = m - 1 /\ o - m2 = gone + 1 /\ p + (o - m2) = k
  BY <1>6, <1>8
<1>11. s2 = s
  BY <1>4, <1>6, <1>8, <1>9
<1>12. {j \in 1 .. k : j \notin hits} = {j \in 1 .. p + gone : j \notin hits}
  BY <1>3, <1>8
<1>13. f2 = f
  BY <1>4, <1>10, <1>12
<1>14. \A i \in p + 1 .. m - 1 : now2[i] = old[i + (gone + 1)]
  BY <1>1, <1>6, <1>8, <1>9
<1>15. Swept(old, now2, p, hits)
  BY <1>1, <1>5, <1>8, <1>10, <1>11, <1>13, <1>14
<1> QED BY <1>15 DEF now2

\* At the end of the scan all but the hits are there.
LEMMA SweptAll ==
  ASSUME NEW old, Len(old) \in Nat, DOMAIN old = 1 .. Len(old), NEW now, now \in Seq(Range(now)), NEW p, NEW hits,
         Swept(old, now, p, hits), p = Len(now)
  PROVE  InOrder(now, [k \in {j \in DOMAIN old : j \notin hits} |-> old[k]])
<1> DEFINE o == Len(old)
<1>1. InOrder([i \in 1 .. p |-> now[i]], Rest(old, o - p, p, hits))
  BY DEF Swept
<1>2. p \in Nat /\ DOMAIN now = 1 .. p /\ now = [i \in DOMAIN now |-> now[i]]
  BY ListLength, SMT
<1>3. o \in Nat /\ DOMAIN old = 1 .. o
  OBVIOUS
<1> HIDE DEF o
<1>4. p + (o - p) = o
  BY <1>2, <1>3, SMT
<1> QED BY <1>1, <1>2, <1>3, <1>4 DEF Rest

-----------------------------------------------------------------------------
(* The invariant *)

Labels == {"prompt", "interp", "select", "outer", "inner", "finish", "delete", "exited", "aborted"}
Looping == {"select", "outer", "inner", "finish"}
Live == Looping \cup {"interp", "delete"}

\* The relations are records of attributes and tuples, and one without
\* attributes is not there.
RelsOK(R) ==
  /\ R = [r \in Rels |-> [attrs |-> R[r].attrs, tuples |-> R[r].tuples]]
  /\ \A r \in Rels : Len(R[r].attrs) \in Nat
  /\ \A r \in Rels : R[r].attrs = <<>> => R[r] = NoRel

\* A relation that a refused command has left alone, or created and left empty.
Harmless(r) ==
  \/ rels[r] = before[r]
  \/ typed.kind = "query" /\ r = Result(typed) /\ before[r] = NoRel /\ rels[r].tuples = <<>>

\* The command in progress is the one that was typed, and has its relation.
InCommand ==
  /\ pc \in Live => typed \in Commands /\ parse_tree = Tree(typed) /\ parse_tree # Null
  /\ pc \in Looping => typed.kind = "query" /\ rels[Result(typed)].attrs # <<>>
  /\ pc = "delete" => typed.kind = "delete" /\ rels[typed.rel].attrs # <<>>

\* Only the relation that the command is about may have changed.
Scope ==
  /\ typed \in Commands \cup {[kind |-> "empty"]}
  /\ \A r \in Rels \ {Target(typed)} : rels[r] = before[r]
  /\ pc = "interp" => rels = before
  /\ before[Temp] = NoRel
  /\ rels[Temp] # NoRel => pc \in Looping /\ Target(typed) = Temp

\* A command that has been refused has done no harm.
Refusal ==
  /\ pc \in {"interp", "select", "outer", "inner", "delete"} => status = "OK"
  /\ pc \in {"finish", "prompt"} /\ status # "OK" => \A r \in Rels : Harmless(r)

\* The program has not ended, so the pools had room for the command.
Affordable == pc # "exited" => typed.kind # "quit" /\ ~OutOfMemory(typed)

SessionInv ==
  /\ pc \in Labels
  /\ RelsOK(rels)
  /\ InCommand
  /\ Scope
  /\ Refusal
  /\ ArraysInBounds
  /\ Affordable

-----------------------------------------------------------------------------
(* Commands and their trees *)

\* A command of the grammar is of one of these kinds.
LEMMA CommandShape ==
  ASSUME NEW c \in Commands
  PROVE  /\ c.kind = "query" =>
              /\ c = [kind |-> c.kind, star |-> c.star, list |-> c.list, into |-> c.into,
                      tables |-> c.tables, where |-> c.where]
              /\ c.list \in Seq(QualAttrs)
              /\ c.into \in RelNames \cup {""}
              /\ c.tables \in Seq([rel : RelNames, alias : STRING]) /\ c.tables # <<>>
         /\ c.kind \in {"insert", "delete", "create"} => c.rel \in RelNames
         /\ c.kind \in {"load", "destroy"} => c.rel \in RelNames \cup CatNames
         /\ c.kind = "insert" => c.attrs \in Seq(STRING)
         /\ c.kind = "create" =>
              c.descrs \in Seq([name : STRING, type : Types, len : Nat]) /\ c.descrs # <<>>
<1>1. c \in Syntax(RelNames, UnixFiles)
  BY CommandsAssumption
<1>2. <<>> \in Seq(QualAttrs)
  BY SMT
<1> QED BY <1>1, <1>2 DEF Syntax

\* Tree changes nothing but the qualifiers of a query.
LEMMA TreeOfQuery ==
  ASSUME NEW c \in Commands, c.kind = "query", Tree(c) # Null
  PROVE  /\ Tree(c).kind = "query" /\ Tree(c).into = c.into /\ Tree(c).star = c.star
         /\ Tree(c).tables = c.tables
         /\ Tree(c).list = ResolvedList(c.tables, c.list)
<1>1. Tree(c) = QueryTree(c)
  BY DEF Tree
<1>2. QueryTree(c) = [c EXCEPT !.list = ResolvedList(c.tables, @), !.where = ResolvedWhere(c.tables, @)]
  BY <1>1 DEF QueryTree
<1> QED BY <1>1, <1>2, CommandShape

\* The tree of any other command is the command.
LEMMA TreeOfOther ==
  ASSUME NEW c \in Commands, c.kind # "query", Tree(c) # Null
  PROVE  Tree(c) = c
BY DEF Tree, InsertTree

\* The attributes of a query are a list, and so are those of a new result; that
\* is empty only if the list is.
LEMMA ListIsList ==
  ASSUME NEW c \in Commands, c.kind = "query", Tree(c) # Null, RelsOK(rels)
  PROVE  /\ Len(List(Tree(c))) \in Nat
         /\ Len(ResultAttrs(Tree(c))) \in Nat
         /\ List(Tree(c)) # <<>> => ResultAttrs(Tree(c)) # <<>>
<1> DEFINE t == Tree(c)
           list == List(t)
<1>1. /\ c.list \in Seq(QualAttrs) /\ c.tables \in Seq([rel : RelNames, alias : STRING]) /\ c.tables # <<>>
      /\ t.star = c.star /\ t.tables = c.tables /\ t.list = ResolvedList(c.tables, c.list)
  BY CommandShape, TreeOfQuery
<1>2. \E n \in Nat : DOMAIN list = 1 .. n /\ list = [i \in 1 .. n |-> list[i]]
  <2>1. CASE ~t.star
    <3>1. list = [i \in DOMAIN c.list |-> Resolved(c.tables, c.list[i])]
      BY <1>1, <2>1 DEF List, ResolvedList
    <3>2. DOMAIN c.list = 1 .. Len(c.list) /\ Len(c.list) \in Nat
      BY <1>1, ListLength
    <3> QED BY <3>1, <3>2
  <2>2. CASE t.star /\ Len(t.tables) > 1
    <3>1. list = <<>>
      BY <2>2 DEF List
    <3>2. DOMAIN <<>> = 1 .. 0 /\ <<>> = [i \in 1 .. 0 |-> <<>>[i]]
      BY SMT
    <3> QED BY <3>1, <3>2
  <2>3. CASE t.star /\ ~(Len(t.tables) > 1)
    <3> DEFINE r == t.tables[1].rel
    <3>1. list = [i \in 1 .. Len(Attrs(r)) |-> [rel |-> r, attr |-> Attrs(r)[i].name]]
      BY <2>3 DEF List
    <3>2. r \in Rels
      <4>1. Len(c.tables) \in Nat /\ Len(c.tables) # 0
        BY <1>1, NoElements, ListLength
      <4>2. 1 \in 1 .. Len(c.tables)
        BY <4>1, SMT
      <4>3. c.tables[1] \in [rel : RelNames, alias : STRING]
        BY <1>1, <4>2, ListElement
      <4> QED BY <1>1, <4>3 DEF Rels
    <3>3. Len(Attrs(r)) \in Nat
      BY <3>2 DEF RelsOK, Attrs
    <3> QED BY <3>1, <3>3
  <2> QED BY <2>1, <2>2, <2>3
<1>3. PICK n \in Nat : DOMAIN list = 1 .. n /\ list = [i \in 1 .. n |-> list[i]]
  BY <1>2
<1>4. Len(list) = n
  BY <1>3, SMT
<1>5. DOMAIN ResultAttrs(t) = 1 .. n
  BY <1>3 DEF ResultAttrs
<1>6. Len(ResultAttrs(t)) = n
  BY <1>5, SMT DEF ResultAttrs
<1>7. list # <<>> => n # 0
  BY <1>3, SMT
<1>8. n # 0 => ResultAttrs(t) # <<>>
  BY <1>5, SMT
<1> QED BY <1>4, <1>6, <1>7, <1>8

-----------------------------------------------------------------------------
(* Arrays *)

\* The mk_ functions take no more elements than an array has room for.
LEMMA TakenFits ==
  ASSUME NEW n \in Nat
  PROVE  Taken(n) \in Nat /\ Taken(n) <= MAXATTRS /\ (n < MAXATTRS => Taken(n) = n)
<1>1. \E m \in {n, MAXATTRS} : \A k \in {n, MAXATTRS} : m <= k
  BY MAXATTRSAssumption, SMT
<1>2. Taken(n) \in {n, MAXATTRS} /\ \A k \in {n, MAXATTRS} : Taken(n) <= k
  BY <1>1 DEF Taken, Min
<1> QED BY <1>2, MAXATTRSAssumption, SMT

\* An accepted list leaves room for two more elements behind it.
LEMMA FilledInBounds ==
  ASSUME NEW n \in Nat, NEW array \in Arrays \ {"attrList"}, NEW behind \in 0 .. 2, NEW ok \in BOOLEAN,
         ok => ~TooMany(n), top' = Filled(array, n, behind, ok)
  PROVE  ArraysInBounds'
<1>1. Taken(n) \in Nat /\ Taken(n) <= MAXATTRS /\ (ok => Taken(n) = n /\ n < MAXATTRS)
  BY TakenFits, MAXATTRSAssumption, SMT DEF TooMany
<1>2. \A a \in Arrays : top'[a] \in {-1, Taken(n) - 1, Taken(n) - 1 + behind}
  BY DEF Filled, Unused
<1>3. top'[array] = Taken(n) - 1 + behind => ok \/ behind = 0
  BY <1>1, SMT DEF Filled, Unused
<1>4. \A a \in Arrays \ {array} : top'[a] \in {-1, Taken(n) - 1}
  BY DEF Filled, Unused
<1>5. top'[array] < MAXATTRS + 1
  BY <1>1, <1>2, <1>3, MAXATTRSAssumption, SMTT(30)
<1>6. \A a \in Arrays \ {array} : top'[a] < MAXATTRS /\ top'[a] < MAXATTRS + 1
  BY <1>1, <1>4, MAXATTRSAssumption, SMT
<1>7. \A a \in Arrays : top'[a] < Size(a)
  BY <1>5, <1>6 DEF Size
<1> QED BY <1>7 DEF ArraysInBounds

\* A command that fills no list stays within the arrays.
LEMMA NoneInBounds ==
  ASSUME top' = Unused \/ top' = [Unused EXCEPT !["qual_attrs"] = 0]
  PROVE  ArraysInBounds'
<1>1. \A a \in Arrays : top'[a] \in {-1, 0}
  BY DEF Unused
<1> QED BY <1>1, MAXATTRSAssumption, SMT DEF ArraysInBounds, Size

-----------------------------------------------------------------------------
(* Changes of one relation *)

\* createRel adds one relation and leaves the others alone.
LEMMA NewRelation ==
  ASSUME RelsOK(rels), NEW r \in Rels, NEW a, NEW e, Len(a) \in Nat, a = <<>> => e = <<>>,
         rels' = [rels EXCEPT ![r] = [attrs |-> a, tuples |-> e]]
  PROVE  /\ RelsOK(rels')
         /\ \A q \in Rels \ {r} : rels'[q] = rels[q]
<1>1. rels = [q \in Rels |-> [attrs |-> rels[q].attrs, tuples |-> rels[q].tuples]]
  BY DEF RelsOK
<1>2. rels' = [q \in Rels |-> IF q = r THEN [attrs |-> a, tuples |-> e] ELSE rels[q]]
  BY <1>1
<1>3. \A q \in Rels : rels'[q] = [attrs |-> rels'[q].attrs, tuples |-> rels'[q].tuples]
  BY <1>1, <1>2, SMT
<1>4. rels' = [q \in Rels |-> rels'[q]]
  BY <1>2
<1>5. rels' = [q \in Rels |-> [attrs |-> rels'[q].attrs, tuples |-> rels'[q].tuples]]
  BY <1>3, <1>4
<1>6. \A q \in Rels : Len(rels'[q].attrs) \in Nat
  BY <1>2, SMT DEF RelsOK
<1>7. \A q \in Rels : rels'[q].attrs = <<>> => rels'[q] = NoRel
  BY <1>2, SMTT(30) DEF RelsOK, NoRel
<1> QED BY <1>2, <1>5, <1>6, <1>7 DEF RelsOK

\* destroyRel takes one relation away and leaves the others alone.
LEMMA NoRelation ==
  ASSUME RelsOK(rels), NEW r \in Rels, rels' = [rels EXCEPT ![r] = NoRel]
  PROVE  /\ RelsOK(rels')
         /\ rels'[r] = NoRel
         /\ \A q \in Rels \ {r} : rels'[q] = rels[q]
<1>1. rels' = [q \in Rels |-> IF q = r THEN NoRel ELSE rels[q]]
  BY DEF RelsOK
<1>2. rels' = [q \in Rels |-> rels'[q]]
  BY <1>1
<1>3. NoRel = [attrs |-> NoRel.attrs, tuples |-> NoRel.tuples] /\ Len(NoRel.attrs) \in Nat
  BY DEF NoRel
<1>4. \A q \in Rels : rels'[q] = [attrs |-> rels'[q].attrs, tuples |-> rels'[q].tuples]
  BY <1>1, <1>3, SMT DEF RelsOK
<1>5. \A q \in Rels : Len(rels'[q].attrs) \in Nat /\ (rels'[q].attrs = <<>> => rels'[q] = NoRel)
  BY <1>1, <1>3 DEF RelsOK
<1> QED BY <1>1, <1>2, <1>4, <1>5 DEF RelsOK

\* insertRecord and deleteRecord change the tuples of one relation.
LEMMA NewTuples ==
  ASSUME RelsOK(rels), NEW r \in Rels, NEW e, rels[r].attrs # <<>>,
         rels' = [rels EXCEPT ![r].tuples = e]
  PROVE  /\ RelsOK(rels')
         /\ rels'[r].attrs = rels[r].attrs
         /\ \A q \in Rels \ {r} : rels'[q] = rels[q]
<1>1. rels = [q \in Rels |-> [attrs |-> rels[q].attrs, tuples |-> rels[q].tuples]]
      /\ Len(rels[r].attrs) \in Nat
  BY DEF RelsOK
<1>2. [rels[r] EXCEPT !.tuples = e] = [attrs |-> rels[r].attrs, tuples |-> e]
  BY <1>1, SMT
<1>3. rels' = [rels EXCEPT ![r] = [attrs |-> rels[r].attrs, tuples |-> e]]
  BY <1>2, ZenonT(30)
<1> QED BY <1>1, <1>3, NewRelation, ZenonT(30)
-----------------------------------------------------------------------------
(* The end of a command, and the steps of a query *)

\* The relation of a command is one of the database, or a catalog that the command
\* will refuse, and only that of a query may be the temporary one.
LEMMA TargetIsRel ==
  ASSUME NEW c \in Commands
  PROVE  /\ c.kind = "query" => Target(c) = Result(c) /\ Result(c) \in Rels
         /\ c.kind \in {"insert", "delete", "create"} =>
              Target(c) = c.rel /\ c.rel \in Rels /\ c.rel # Temp
         /\ c.kind \in {"load", "destroy"} =>
              Target(c) = c.rel /\ (c.rel \notin CatNames => c.rel \in Rels) /\ c.rel # Temp
<1>1. c.kind = "query" => Target(c) = Result(c) /\ Result(c) \in Rels
  BY CommandShape DEF Target, Result, Rels
<1>2. c.kind \in {"insert", "delete", "create", "load", "destroy"} => Target(c) = c.rel
  BY DEF Target
<1>3. /\ c.kind \in {"insert", "delete", "create"} => c.rel \in RelNames
      /\ c.kind \in {"load", "destroy"} => c.rel \in RelNames \cup CatNames
  BY CommandShape
<1>4. Temp \notin RelNames /\ Temp \notin CatNames
  BY NamesAssumption DEF Temp, CatNames
<1> QED BY <1>1, <1>2, <1>3, <1>4 DEF Rels

\* A command that ends in one step has changed its own relation at most, and
\* nothing if it was refused.
LEMMA EndOfCommand ==
  ASSUME SessionInv, pc \in {"interp", "delete"}, pc' = "prompt", typed' = typed, before' = before,
         RelsOK(rels'), ArraysInBounds',
         rels'[Temp] = rels[Temp],
         \A r \in Rels \ {Target(typed)} : rels'[r] = rels[r],
         status' # "OK" => \A r \in Rels : rels'[r] = before[r]
  PROVE  SessionInv'
<1>1. pc' \in Labels /\ RelsOK(rels)' /\ InCommand'
  BY DEF Labels, InCommand, Live, Looping, RelsOK
<1>2. Scope'
  <2>1. \A r \in Rels \ {Target(typed)} : rels'[r] = before[r]
    BY DEF SessionInv, Scope
  <2>2. rels[Temp] = NoRel
    BY DEF SessionInv, Scope, Looping
  <2> QED BY <2>1, <2>2, ZenonT(30) DEF SessionInv, Scope, Target, Result
<1>3. Refusal'
  BY DEF Refusal, Harmless
<1>4. Affordable'
  BY DEF SessionInv, Affordable
<1> QED BY <1>1, <1>2, <1>3, <1>4 DEF SessionInv

\* The loops of a query add to its result, which is there already.
LEMMA LoopStep ==
  ASSUME SessionInv, pc \in {"select", "outer", "inner"}, pc' \in Looping,
         typed' = typed, before' = before, parse_tree' = parse_tree, top' = top, status' = status,
         NEW e, rels' = rels \/ rels' = [rels EXCEPT ![Result(typed)].tuples = e]
  PROVE  SessionInv'
<1> DEFINE r == Result(typed)
<1>1. /\ typed \in Commands /\ parse_tree = Tree(typed) /\ parse_tree # Null
      /\ typed.kind = "query" /\ rels[r].attrs # <<>>
  BY DEF SessionInv, InCommand, Live, Looping
<1>2. r \in Rels /\ Target(typed) = r
  BY <1>1, TargetIsRel
<1>3. RelsOK(rels)
  BY DEF SessionInv
<1>4. RelsOK(rels') /\ rels'[r].attrs = rels[r].attrs /\ \A q \in Rels \ {r} : rels'[q] = rels[q]
  <2>1. CASE rels' = rels
    BY <1>3, <2>1
  <2>2. CASE rels' = [rels EXCEPT ![r].tuples = e]
    <3> HIDE DEF r
    <3> QED BY <1>1, <1>2, <1>3, <2>2, NewTuples, ZenonT(30) DEF r
  <2> QED BY <2>1, <2>2
<1>5. RelsOK(rels)'
  BY <1>4 DEF RelsOK
<1>6. pc' \in Labels /\ pc' \notin {"prompt", "interp", "delete", "exited"}
  BY DEF Labels, Looping
<1>7. InCommand'
  BY <1>1, <1>4, <1>6 DEF InCommand, Live, Looping, Result
<1>8. Scope'
  <2>1. \A q \in Rels \ {Target(typed)} : rels'[q] = before[q]
    BY <1>2, <1>4 DEF SessionInv, Scope
  <2>2. rels'[Temp] # NoRel => Target(typed) = Temp
    BY <1>2, <1>4 DEF SessionInv, Scope, Rels
  <2> QED BY <2>1, <2>2, <1>1, <1>6, ZenonT(30) DEF SessionInv, Scope, Target, Result
<1>9. status = "OK"
  BY DEF SessionInv, Refusal
<1>10. Refusal'
  BY <1>6, <1>9 DEF Refusal
<1>11. ArraysInBounds'
  BY DEF SessionInv, ArraysInBounds
<1>12. Affordable'
  BY DEF SessionInv, Affordable
<1> QED BY <1>5, <1>6, <1>7, <1>8, <1>10, <1>11, <1>12 DEF SessionInv
-----------------------------------------------------------------------------
(* One lemma for each action *)

\* The invariant holds when the program starts.
LEMMA InitKeeps == Init => SessionInv
<1> SUFFICES ASSUME Init PROVE SessionInv
  OBVIOUS
<1>1. RelsOK(rels)
  <2>1. \A r \in Rels : rels[r] = NoRel \/ (r \in DOMAIN InitRels /\ rels[r] = InitRels[r])
    BY DEF Init
  <2>2. \A r \in Rels : rels[r] = [attrs |-> rels[r].attrs, tuples |-> rels[r].tuples]
    BY <2>1, InitRelsAssumption, SMT DEF NoRel
  <2>3. rels = [r \in Rels |-> rels[r]]
    BY DEF Init
  <2>4. \A r \in Rels : Len(rels[r].attrs) \in Nat
    BY <2>1, InitRelsAssumption, SMT DEF NoRel
  <2>5. \A r \in Rels : rels[r].attrs = <<>> => rels[r] = NoRel
    BY <2>1, InitRelsAssumption
  <2> QED BY <2>2, <2>3, <2>4, <2>5, ZenonT(30) DEF RelsOK
<1>2. rels[Temp] = NoRel
  BY InitRelsAssumption, NamesAssumption DEF Init, Rels, Temp
<1>3. pc \in Labels /\ InCommand /\ Scope /\ Refusal
  BY <1>2 DEF Init, Labels, InCommand, Live, Looping, Scope, Refusal
<1>5. Affordable
  <2>1. Nodes(typed) = 0 /\ Chars(typed) = 0 /\ typed.kind # "quit"
    BY DEF Init, Nodes, Chars
  <2> QED BY <2>1, PoolAssumption, SMT DEF Affordable, OutOfMemory, NodesTaken, CharsTaken, NewQuery
<1>4. ArraysInBounds
  BY MAXATTRSAssumption, SMT DEF Init, Unused, ArraysInBounds, Size
<1> QED BY <1>1, <1>3, <1>4, <1>5 DEF SessionInv

\* Reading a command (parse): the pools start afresh, no relation changes.
LEMMA TypeKeeps ==
  ASSUME SessionInv, NEW c \in Commands, Type(c)
  PROVE  SessionInv'
<1>1. pc = "prompt" /\ rels' = rels /\ before' = rels /\ typed' = c /\ status' = "OK" /\ top' = Unused
  BY DEF Type
<1>2. \/ pc' = "exited"
      \/ /\ c.kind # "quit" /\ ~OutOfMemory(c)
         /\ \/ pc' = "prompt"
            \/ pc' = "interp" /\ parse_tree' = Tree(c) /\ parse_tree' # Null
  BY DEF Type, ParseTree
<1>3. pc' \in Labels /\ RelsOK(rels)' /\ InCommand'
  BY <1>1, <1>2 DEF SessionInv, RelsOK, Labels, InCommand, Live, Looping
<1>4. rels[Temp] = NoRel
  BY <1>1 DEF SessionInv, Scope, Looping
<1>5. Scope'
  BY <1>1, <1>4 DEF Scope
<1>6. Refusal'
  BY <1>1, <1>2 DEF Refusal
<1>7. ArraysInBounds'
  BY <1>1, NoneInBounds
<1>8. Affordable'
  BY <1>1, <1>2 DEF Affordable
<1> QED BY <1>3, <1>5, <1>6, <1>7, <1>8, ZenonT(30) DEF SessionInv

\* A command that interp does not know changes nothing.
LEMMA AbortKeeps ==
  ASSUME SessionInv, Abort
  PROVE  SessionInv'
<1>1. pc = "interp" /\ pc' = "aborted" /\ UNCHANGED <<rels, typed, before, parse_tree, top, status>>
  BY DEF Abort, pool, db
<1>2. pc' \in Labels /\ RelsOK(rels)' /\ InCommand'
  BY <1>1 DEF SessionInv, RelsOK, Labels, InCommand, Live, Looping
<1>3. Scope'
  BY <1>1 DEF SessionInv, Scope, Target, Result, Looping
<1>4. Refusal' /\ ArraysInBounds' /\ Affordable'
  BY <1>1 DEF SessionInv, Refusal, ArraysInBounds, Affordable
<1> QED BY <1>2, <1>3, <1>4 DEF SessionInv

\* ScanSelect adds to the result of its query only.
LEMMA SelectKeeps ==
  ASSUME SessionInv, Select
  PROVE  SessionInv'
<1>1. /\ pc = "select" /\ pc' \in Looping
      /\ typed' = typed /\ before' = before /\ parse_tree' = parse_tree /\ top' = top /\ status' = status
  BY DEF Select, pool, Looping
<1>2. Result(parse_tree) = Result(typed)
  BY <1>1, TreeOfQuery DEF SessionInv, InCommand, Live, Looping, Result
<1>3. rels' = rels \/ \E e : rels' = [rels EXCEPT ![Result(typed)].tuples = e]
  BY <1>2 DEF Select, Add
<1> QED BY <1>1, <1>3, LoopStep

\* The outer scan of QU_NL_Join changes no relation.
LEMMA OuterKeeps ==
  ASSUME SessionInv, Outer
  PROVE  SessionInv'
<1>1. /\ pc = "outer" /\ pc' \in Looping /\ rels' = rels
      /\ typed' = typed /\ before' = before /\ parse_tree' = parse_tree /\ top' = top /\ status' = status
  BY DEF Outer, pool, db, Looping
<1> QED BY <1>1, LoopStep

\* The inner scan of QU_NL_Join adds to the result of its query only.
LEMMA InnerKeeps ==
  ASSUME SessionInv, Inner
  PROVE  SessionInv'
<1>1. /\ pc = "inner" /\ pc' \in Looping
      /\ typed' = typed /\ before' = before /\ parse_tree' = parse_tree /\ top' = top /\ status' = status
  BY DEF Inner, pool, Looping
<1>2. Result(parse_tree) = Result(typed)
  BY <1>1, TreeOfQuery, ZenonT(30) DEF SessionInv, InCommand, Live, Looping, Result
<1>3. rels' = rels \/ \E e : rels' = [rels EXCEPT ![Result(typed)].tuples = e]
  BY <1>2 DEF Inner, Add
<1> QED BY <1>1, <1>3, LoopStep, ZenonT(30)

\* The end of N_QUERY leaves no temporary result.
LEMMA FinishKeeps ==
  ASSUME SessionInv, Finish
  PROVE  SessionInv'
<1>1. /\ pc = "finish" /\ pc' = "prompt"
      /\ typed' = typed /\ before' = before /\ top' = top /\ status' = status
  BY DEF Finish
<1>2. typed \in Commands /\ typed.kind = "query" /\ Result(parse_tree) = Result(typed)
  BY <1>1, TreeOfQuery DEF SessionInv, InCommand, Live, Looping, Result
<1>3. Result(typed) \in Rels /\ Target(typed) = Result(typed)
  BY <1>2, TargetIsRel
<1>4. RelsOK(rels) /\ Temp \in Rels
  BY DEF SessionInv, Rels
<1>5. /\ RelsOK(rels') /\ rels'[Temp] = NoRel
      /\ \A r \in Rels : rels'[r] = rels[r] \/ (r = Temp /\ Target(typed) = Temp)
  <2>1. CASE Result(typed) = Temp
    <3>1. rels' = [rels EXCEPT ![Temp] = NoRel]
      BY <1>2, <2>1 DEF Finish
    <3> QED BY <1>3, <1>4, <2>1, <3>1, NoRelation, ZenonT(30)
  <2>2. CASE Result(typed) # Temp
    <3>1. rels' = rels
      BY <1>2, <2>2 DEF Finish
    <3>2. rels[Temp] = NoRel
      BY <1>3, <2>2 DEF SessionInv, Scope
    <3> QED BY <3>1, <3>2, <1>4
  <2> QED BY <2>1, <2>2, ZenonT(30)
<1>6. pc' \in Labels /\ RelsOK(rels)' /\ InCommand' /\ Affordable' /\ ArraysInBounds'
  BY <1>1, <1>5 DEF SessionInv, Labels, InCommand, Live, Looping, Affordable, ArraysInBounds, RelsOK
<1>7. Scope'
  BY <1>1, <1>5, ZenonT(30) DEF SessionInv, Scope, Target, Result
<1>8. Refusal'
  <2>1. ASSUME NEW r \in Rels, status # "OK"
        PROVE  Harmless(r)'
    <3>1. Harmless(r)
      BY <1>1, <2>1 DEF SessionInv, Refusal
    <3>2. CASE rels'[r] = rels[r]
      BY <1>1, <3>1, <3>2, ZenonT(30) DEF Harmless, Result
    <3>3. CASE r = Temp
      BY <1>1, <1>5, <3>3 DEF SessionInv, Scope, Harmless
    <3> QED BY <1>5, <3>2, <3>3
  <2> QED BY <1>1, <2>1 DEF Refusal
<1> QED BY <1>6, <1>7, <1>8 DEF SessionInv

\* At interp the tree of any other command is the command.
LEMMA AtInterp ==
  ASSUME SessionInv, pc \in {"interp", "delete"}, parse_tree.kind # "query"
  PROVE  typed \in Commands /\ parse_tree = typed
<1>1. typed \in Commands /\ parse_tree = Tree(typed) /\ parse_tree # Null
  BY DEF SessionInv, InCommand, Live
<1>2. typed.kind # "query"
  BY <1>1, TreeOfQuery
<1> QED BY <1>1, <1>2, TreeOfOther

\* QU_Insert adds a tuple when all its checks have passed.
LEMMA InsertKeeps ==
  ASSUME SessionInv, Insert
  PROVE  SessionInv'
<1> DEFINE error == InsertError(parse_tree)
           made == error \notin {"E_STRINGTOOLONG", "E_TOOMANYATTRS"}
<1>1. /\ pc = "interp" /\ pc' = "prompt" /\ typed' = typed /\ before' = before
      /\ status' = error /\ parse_tree.kind = "insert"
  BY DEF Insert
<1>2. typed \in Commands /\ parse_tree = typed
  BY <1>1, AtInterp
<1>3. typed.rel \in Rels /\ typed.rel # Temp /\ Target(typed) = typed.rel
  BY <1>1, <1>2, TargetIsRel
<1>4. RelsOK(rels) /\ rels = before /\ Temp \in Rels
  BY <1>1 DEF SessionInv, Scope, Rels
<1>5. ArraysInBounds'
  <2>1. Len(typed.attrs) \in Nat
    <3>1. typed.attrs \in Seq(STRING)
      BY <1>1, <1>2, CommandShape, ZenonT(30)
    <3> QED BY <3>1, ListLength
  <2>2. made => ~TooMany(Len(typed.attrs))
    BY <1>2 DEF InsertError
  <2>3. top' = Filled("ins_attrs", Len(typed.attrs), 0, made)
    BY <1>2 DEF Insert
  <2>4. "ins_attrs" \in Arrays \ {"attrList"} /\ made \in BOOLEAN /\ 0 \in 0 .. 2
    BY SMT DEF Arrays
  <2> HIDE DEF made
  <2> QED BY <2>1, <2>2, <2>3, <2>4, FilledInBounds
<1>6. /\ RelsOK(rels') /\ \A r \in Rels \ {typed.rel} : rels'[r] = rels[r]
      /\ status' # "OK" => rels' = rels
  <2>1. CASE error = "OK"
    <3>1. rels[typed.rel].attrs # <<>>
      BY <1>2, <2>1 DEF InsertError, Exists
    <3>2. \E e : rels' = [rels EXCEPT ![typed.rel].tuples = e]
      BY <1>2, <2>1 DEF Insert, Add
    <3>3. PICK e : rels' = [rels EXCEPT ![typed.rel].tuples = e]
      BY <3>2
    <3> QED BY <1>1, <1>3, <1>4, <2>1, <3>1, <3>3, NewTuples
  <2>2. CASE error # "OK"
    BY <1>4, <2>2 DEF Insert
  <2> QED BY <2>1, <2>2, ZenonT(30)
<1> QED BY <1>1, <1>3, <1>4, <1>5, <1>6, EndOfCommand

\* QU_Delete checks before it deletes.
LEMMA BeginDeleteKeeps ==
  ASSUME SessionInv, BeginDelete
  PROVE  SessionInv'
<1>1. /\ pc = "interp" /\ rels' = rels /\ typed' = typed /\ before' = before /\ parse_tree' = parse_tree
      /\ parse_tree.kind = "delete" /\ status' = DeleteError(parse_tree)
      /\ pc' = IF status' = "OK" THEN "delete" ELSE "prompt"
  BY DEF BeginDelete, pool, db
<1>2. typed \in Commands /\ parse_tree = typed
  BY <1>1, AtInterp
<1>3. RelsOK(rels) /\ rels = before
  BY <1>1 DEF SessionInv, Scope
<1>4. ArraysInBounds'
  BY NoneInBounds DEF BeginDelete
<1>5. CASE status' = "OK"
  <2>1. pc' = "delete" /\ rels[typed.rel].attrs # <<>>
    BY <1>1, <1>2, <1>5 DEF DeleteError, Exists
  <2>2. pc' \in Labels /\ RelsOK(rels)' /\ Affordable'
    BY <1>1, <1>3, <2>1, ZenonT(30) DEF SessionInv, Labels, RelsOK, Affordable
  <2>3. InCommand'
    BY <1>1, <1>2, <2>1 DEF SessionInv, InCommand, Live, Looping
  <2>4. Scope'
    BY <1>1, <2>1 DEF SessionInv, Scope, Target, Result, Looping
  <2>5. Refusal'
    BY <1>5, <2>1 DEF Refusal
  <2> QED BY <1>4, <2>2, <2>3, <2>4, <2>5 DEF SessionInv
<1>6. CASE status' # "OK"
  BY <1>1, <1>3, <1>4, <1>6, EndOfCommand, ZenonT(30)
<1> QED BY <1>5, <1>6

\* QU_Delete removes tuples of its relation only.
LEMMA DeleteKeeps ==
  ASSUME SessionInv, Delete
  PROVE  SessionInv'
<1>1. /\ pc = "delete" /\ typed' = typed /\ before' = before /\ parse_tree' = parse_tree
      /\ top' = top /\ status' = status /\ pc' \in {"delete", "prompt"}
  BY DEF Delete, pool
<1>2. /\ typed \in Commands /\ parse_tree = Tree(typed) /\ parse_tree # Null
      /\ typed.kind = "delete" /\ rels[typed.rel].attrs # <<>>
  BY <1>1 DEF SessionInv, InCommand, Live
<1>3. parse_tree = typed
  BY <1>2, TreeOfOther
<1>4. typed.rel \in Rels /\ typed.rel # Temp /\ Target(typed) = typed.rel
  BY <1>2, TargetIsRel
<1>5. RelsOK(rels) /\ ArraysInBounds' /\ status = "OK" /\ Temp \in Rels
  BY <1>1 DEF SessionInv, ArraysInBounds, Refusal, Rels
<1>6. rels' = rels \/ \E e : rels' = [rels EXCEPT ![typed.rel].tuples = e]
  BY <1>3 DEF Delete
<1>7. /\ RelsOK(rels') /\ \A r \in Rels \ {typed.rel} : rels'[r] = rels[r]
      /\ rels'[typed.rel].attrs # <<>>
  <2>1. CASE rels' = rels
    BY <1>2, <1>5, <2>1
  <2>2. ASSUME NEW e, rels' = [rels EXCEPT ![typed.rel].tuples = e]
        PROVE  /\ RelsOK(rels') /\ \A r \in Rels \ {typed.rel} : rels'[r] = rels[r]
               /\ rels'[typed.rel].attrs # <<>>
    BY <1>2, <1>4, <1>5, <2>2, NewTuples
  <2> QED BY <1>6, <2>1, <2>2, ZenonT(30)
<1>8. CASE pc' = "prompt"
  BY <1>1, <1>4, <1>5, <1>7, <1>8, EndOfCommand
<1>9. CASE pc' = "delete"
  <2>1. pc' \in Labels /\ RelsOK(rels)' /\ Affordable'
    BY <1>1, <1>7, <1>9 DEF SessionInv, Labels, RelsOK, Affordable
  <2>2. InCommand'
    BY <1>1, <1>2, <1>7, <1>9, ZenonT(30) DEF InCommand, Looping
  <2>3. Scope'
    BY <1>1, <1>4, <1>5, <1>7, <1>9, ZenonT(30) DEF SessionInv, Scope, Target, Result, Looping
  <2>4. Refusal'
    BY <1>1, <1>5, <1>9 DEF Refusal
  <2> QED BY <1>5, <2>1, <2>2, <2>3, <2>4 DEF SessionInv
<1> QED BY <1>1, <1>8, <1>9

\* createRel makes its relation when all its checks have passed.
LEMMA CreateKeeps ==
  ASSUME SessionInv, Create
  PROVE  SessionInv'
<1> DEFINE error == CreateError(parse_tree)
           made == error \notin {"E_INVFORMATSTRING", "E_TOOMANYATTRS"}
<1>1. /\ pc = "interp" /\ pc' = "prompt" /\ typed' = typed /\ before' = before
      /\ status' = error /\ parse_tree.kind = "create"
  BY DEF Create
<1>2. typed \in Commands /\ parse_tree = typed
  BY <1>1, AtInterp
<1>3. typed.rel \in Rels /\ typed.rel # Temp /\ Target(typed) = typed.rel
  BY <1>1, <1>2, TargetIsRel
<1>4. RelsOK(rels) /\ rels = before /\ Temp \in Rels
  BY <1>1 DEF SessionInv, Scope, Rels
<1>5. typed.descrs # <<>> /\ Len(typed.descrs) \in Nat
  <2>1. typed.descrs \in Seq([name : STRING, type : Types, len : Nat]) /\ typed.descrs # <<>>
    BY <1>1, <1>2, CommandShape
  <2> QED BY <2>1, ListLength
<1>6. ArraysInBounds'
  <2>1. made => ~TooMany(Len(typed.descrs))
    BY <1>2 DEF CreateError
  <2>2. top' = Filled("attr_descrs", Len(typed.descrs), 0, made)
    BY <1>2 DEF Create
  <2>3. "attr_descrs" \in Arrays \ {"attrList"} /\ made \in BOOLEAN /\ 0 \in 0 .. 2
    BY SMT DEF Arrays
  <2> HIDE DEF made
  <2> QED BY <1>5, <2>1, <2>2, <2>3, FilledInBounds, ZenonT(30)
<1>7. /\ RelsOK(rels') /\ \A r \in Rels \ {typed.rel} : rels'[r] = rels[r]
      /\ status' # "OK" => rels' = rels
  <2>1. CASE error = "OK"
    <3>1. rels' = [rels EXCEPT ![typed.rel] = [attrs |-> typed.descrs, tuples |-> <<>>]]
      BY <1>2, <2>1 DEF Create
    <3> QED BY <1>1, <1>3, <1>4, <1>5, <2>1, <3>1, NewRelation, ZenonT(30)
  <2>2. CASE error # "OK"
    BY <1>4, <2>2 DEF Create
  <2> QED BY <2>1, <2>2
<1> QED BY <1>1, <1>3, <1>4, <1>6, <1>7, EndOfCommand, ZenonT(30)

\* destroyRel removes its relation only.
LEMMA DestroyKeeps ==
  ASSUME SessionInv, Destroy
  PROVE  SessionInv'
<1>1. /\ pc = "interp" /\ pc' = "prompt" /\ typed' = typed /\ before' = before /\ top' = top
      /\ parse_tree.kind = "destroy"
  BY DEF Destroy
<1>2. typed \in Commands /\ parse_tree = typed
  BY <1>1, AtInterp
<1>3. (typed.rel \notin CatNames => typed.rel \in Rels) /\ typed.rel # Temp /\ Target(typed) = typed.rel
  BY <1>1, <1>2, TargetIsRel
<1>4. RelsOK(rels) /\ rels = before /\ Temp \in Rels /\ ArraysInBounds'
  BY <1>1, ZenonT(30) DEF SessionInv, Scope, Rels, ArraysInBounds
<1>5. CASE rels' = rels
  BY <1>1, <1>4, <1>5, EndOfCommand, ZenonT(30)
<1>6. CASE rels' # rels
  <2>1. status' = "OK" /\ rels' = [rels EXCEPT ![typed.rel] = NoRel] /\ typed.rel \notin CatNames
    BY <1>2, <1>6 DEF Destroy
  <2>2. RelsOK(rels') /\ \A r \in Rels \ {typed.rel} : rels'[r] = rels[r]
    BY <1>3, <1>4, <2>1, NoRelation, ZenonT(30)
  <2> QED BY <1>1, <1>3, <1>4, <2>1, <2>2, EndOfCommand
<1> QED BY <1>5, <1>6

\* UT_Load adds tuples to its relation when all its checks have passed.
LEMMA LoadKeeps ==
  ASSUME SessionInv, Load
  PROVE  SessionInv'
<1>1. /\ pc = "interp" /\ pc' = "prompt" /\ typed' = typed /\ before' = before /\ top' = top
      /\ parse_tree.kind = "load"
  BY DEF Load
<1>2. typed \in Commands /\ parse_tree = typed
  BY <1>1, AtInterp
<1>3. (typed.rel \notin CatNames => typed.rel \in Rels) /\ typed.rel # Temp /\ Target(typed) = typed.rel
  BY <1>1, <1>2, TargetIsRel
<1>4. RelsOK(rels) /\ rels = before /\ Temp \in Rels /\ ArraysInBounds'
  BY <1>1 DEF SessionInv, Scope, Rels, ArraysInBounds
<1>5. /\ RelsOK(rels') /\ \A r \in Rels \ {typed.rel} : rels'[r] = rels[r]
      /\ status' # "OK" => rels' = rels
  <2>1. CASE rels' = rels
    BY <1>4, <2>1, ZenonT(30)
  <2>2. CASE rels' # rels
    <3>1. /\ rels[typed.rel].attrs # <<>> /\ status' = "OK" /\ typed.rel \notin CatNames
          /\ \E e : rels' = [rels EXCEPT ![typed.rel].tuples = e]
      BY <1>2, <2>2 DEF Load, Exists
    <3>2. PICK e : rels' = [rels EXCEPT ![typed.rel].tuples = e]
      BY <3>1
    <3> QED BY <1>3, <1>4, <3>1, <3>2, NewTuples
  <2> QED BY <2>1, <2>2
<1> QED BY <1>1, <1>3, <1>4, <1>5, EndOfCommand

\* UT_Print changes nothing.
LEMMA ShowKeeps ==
  ASSUME SessionInv, Show
  PROVE  SessionInv'
<1>1. pc = "interp" /\ pc' = "prompt" /\ typed' = typed /\ before' = before /\ rels' = rels /\ top' = top
  BY DEF Show, db
<1>2. RelsOK(rels) /\ rels = before /\ ArraysInBounds'
  BY <1>1 DEF SessionInv, Scope, ArraysInBounds
<1> QED BY <1>1, <1>2, EndOfCommand

\* help changes nothing.
LEMMA HelpKeeps ==
  ASSUME SessionInv, Help
  PROVE  SessionInv'
<1>1. pc = "interp" /\ pc' = "prompt" /\ typed' = typed /\ before' = before /\ rels' = rels /\ top' = top
  BY DEF Help, db
<1>2. RelsOK(rels) /\ rels = before /\ ArraysInBounds'
  BY <1>1 DEF SessionInv, Scope, ArraysInBounds
<1> QED BY <1>1, <1>2, EndOfCommand

\* N_QUERY up to its loop: the arrays are filled within their bounds, and the
\* result is the only relation that may be new.
LEMMA QueryKeeps ==
  ASSUME SessionInv, Query
  PROVE  SessionInv'
<1> DEFINE t == parse_tree
           mk == MkQueryError(t)
           error == IF mk = "OK" THEN ResultError(t) ELSE mk
           r == Result(typed)
<1>1. pc = "interp" /\ typed' = typed /\ before' = before /\ parse_tree' = parse_tree /\ t.kind = "query"
  BY DEF Query, pool
<1>2. typed \in Commands /\ t = Tree(typed) /\ t # Null
  BY <1>1 DEF SessionInv, InCommand, Live
<1>3. typed.kind = "query"
  BY <1>1, <1>2, TreeOfOther
<1>4. Result(t) = r /\ r \in Rels /\ Target(typed) = r
  BY <1>2, <1>3, TreeOfQuery, TargetIsRel, ZenonT(30) DEF Result
<1>5. RelsOK(rels) /\ rels = before /\ before[Temp] = NoRel /\ Temp \in Rels
  BY <1>1 DEF SessionInv, Scope, Rels
<1>6. Len(List(t)) \in Nat /\ Len(ResultAttrs(t)) \in Nat /\ (List(t) # <<>> => ResultAttrs(t) # <<>>)
  BY <1>2, <1>3, <1>5, ListIsList, ZenonT(30)
<1>7. ArraysInBounds'
  <2>1. \E array \in {"names", "qual_attrs"}, behind \in 1 .. 2 :
          top' = Filled(array, Len(List(t)), behind, mk = "OK")
    BY SMT DEF Query
  <2>2. PICK array \in {"names", "qual_attrs"}, behind \in 1 .. 2 :
          top' = Filled(array, Len(List(t)), behind, mk = "OK")
    BY <2>1
  <2>3. mk = "OK" => ~TooMany(Len(List(t)))
    BY DEF MkQueryError
  <2>4. array \in Arrays \ {"attrList"} /\ behind \in 0 .. 2 /\ (mk = "OK") \in BOOLEAN
    BY SMT DEF Arrays
  <2> HIDE DEF mk, t
  <2> QED BY <1>6, <2>2, <2>3, <2>4, FilledInBounds
<1>8. CASE error # "OK"
  <2>1. pc' = "prompt" /\ rels' = rels
    BY <1>8 DEF Query
  <2> QED BY <1>1, <1>5, <1>7, <2>1, EndOfCommand
<1>9. CASE error = "OK"
  <2>1. /\ pc' \in Looping /\ (status' # "OK" => pc' = "finish")
        /\ rels' = IF Exists(r) THEN rels
                   ELSE [rels EXCEPT ![r] = [attrs |-> ResultAttrs(t), tuples |-> <<>>]]
    BY <1>4, <1>9 DEF Query, Looping
  <2>2. /\ RelsOK(rels') /\ \A q \in Rels \ {r} : rels'[q] = rels[q]
        /\ rels'[r].attrs # <<>>
        /\ rels'[r] = rels[r] \/ (rels[r] = NoRel /\ rels'[r].tuples = <<>>)
    <3>1. CASE Exists(r)
      BY <1>5, <2>1, <3>1 DEF Exists
    <3>2. CASE ~Exists(r)
      <4>1. rels[r] = NoRel
        BY <1>4, <1>5, <3>2 DEF RelsOK, Exists
      <4>2. ResultAttrs(t) # <<>>
        BY <1>4, <1>6, <1>9, <3>2 DEF ResultError, Exists, Attrs
      <4>3. rels' = [rels EXCEPT ![r] = [attrs |-> ResultAttrs(t), tuples |-> <<>>]]
        BY <2>1, <3>2
      <4>4. /\ RelsOK(rels') /\ rels'[r].attrs = ResultAttrs(t) /\ rels'[r].tuples = <<>>
            /\ \A q \in Rels \ {r} : rels'[q] = rels[q]
        <5> HIDE DEF r, t
        <5>1. RelsOK(rels') /\ \A q \in Rels \ {r} : rels'[q] = rels[q]
          BY <1>4, <1>5, <1>6, <4>2, <4>3, NewRelation, ZenonT(30)
        <5>2. rels'[r] = [attrs |-> ResultAttrs(t), tuples |-> <<>>]
          BY <1>4, <1>5, <4>3 DEF RelsOK
        <5> QED BY <5>1, <5>2, SMTT(30)
      <4> QED BY <4>1, <4>2, <4>4
    <3> QED BY <3>1, <3>2
  <2>3. pc' \in Labels /\ pc' \notin {"interp", "prompt", "delete", "exited"}
    BY <2>1 DEF Labels, Looping
  <2>4. RelsOK(rels)' /\ Affordable'
    BY <1>1, <2>2, <2>3, ZenonT(30) DEF SessionInv, RelsOK, Affordable
  <2>5. InCommand'
    BY <1>1, <1>2, <1>3, <2>2, <2>3, ZenonT(30) DEF InCommand, Result
  <2>6. Scope'
    <3>1. rels'[Temp] # NoRel => r = Temp
      BY <1>5, <2>2
    <3> QED BY <1>1, <1>2, <1>4, <1>5, <2>1, <2>2, <2>3, <3>1, ZenonT(30) DEF Scope, Target, Result
  <2>7. Refusal'
    <3>1. \A q \in Rels : Harmless(q)'
      BY <1>1, <1>3, <1>5, <2>2, ZenonT(30) DEF Harmless, Result
    <3>2. pc' \in {"select", "outer", "inner", "delete"} => status' = "OK"
      BY <2>1
    <3> QED BY <2>3, <3>1, <3>2 DEF Refusal
  <2> QED BY <1>7, <2>3, <2>4, <2>5, <2>6, <2>7 DEF SessionInv
<1> QED BY <1>8, <1>9

\* Every step keeps the invariant.
LEMMA NextKeeps == SessionInv /\ [Next]_vars => SessionInv'
<1> SUFFICES ASSUME SessionInv, [Next]_vars PROVE SessionInv'
  OBVIOUS
<1>1. CASE UNCHANGED vars
  BY <1>1, ZenonT(30) DEF vars, pool, scan, db, SessionInv, RelsOK, InCommand, Scope, Refusal, Harmless, Target, Result,
              ArraysInBounds, Affordable
<1>2. CASE Step
  BY <1>2, QueryKeeps, AbortKeeps, SelectKeeps, OuterKeeps, InnerKeeps, FinishKeeps, InsertKeeps,
     BeginDeleteKeeps, DeleteKeeps, CreateKeeps, DestroyKeeps, LoadKeeps, ShowKeeps, HelpKeeps, ZenonT(30)
  DEF Step
<1>3. CASE \E c \in Commands : Type(c)
  BY <1>3, TypeKeeps
<1> QED BY <1>1, <1>2, <1>3 DEF Next

-----------------------------------------------------------------------------

\* Whatever commands of the grammar are typed, in whatever order: no array of
\* the interpreter is written behind its end, a command changes no relation but
\* its own and leaves no temporary result, and a refused one changes nothing but
\* for an empty new result (parse, interp, mk_* and the operators).
THEOREM SessionInvariant ==
  Spec => [](ArraysInBounds /\ CommandScope /\ RefusedIsHarmless)
<1>1. SessionInv => ArraysInBounds /\ CommandScope /\ RefusedIsHarmless
  <2> SUFFICES ASSUME SessionInv
               PROVE  ArraysInBounds /\ CommandScope /\ RefusedIsHarmless
    OBVIOUS
  <2>1. CommandScope
    BY DEF SessionInv, Scope, CommandScope, Looping
  <2>2. RefusedIsHarmless
    BY DEF SessionInv, Refusal, Harmless, RefusedIsHarmless
  <2> QED BY <2>1, <2>2 DEF SessionInv
<1> QED BY <1>1, InitKeeps, NextKeeps, PTL DEF Spec

\* No list of any length makes interp and its mk_ functions write behind the end
\* of names, qual_attrs, attr_descrs, ins_attrs or attrList.
THEOREM NoArrayOverrun == Spec => []ArraysInBounds
BY SessionInvariant, PTL

\* A command changes its own relation and no other, and no temporary relation
\* outlives the query that made it, also when the query is refused.
THEOREM CommandsKeepToTheirRelation == Spec => []CommandScope
BY SessionInvariant, PTL

\* A command that the pools had room for once does not end the program when it is
\* typed again, whatever the sizes of the pools and whatever was typed before
\* (new_query, newnode, string_alloc).
THEOREM RepeatsAreAccepted == Spec => RepeatAccepted
<1>1. ASSUME SessionInv, [Next]_vars
      PROVE  [(pc = "prompt" /\ typed' = typed) => pc' # "exited"]_vars
  <2> SUFFICES ASSUME pc = "prompt", typed' = typed, pc' = "exited" PROVE UNCHANGED vars
    OBVIOUS
  <2>1. typed.kind # "quit" /\ ~OutOfMemory(typed)
    BY <1>1 DEF SessionInv, Affordable
  <2>2. ASSUME NEW c \in Commands, Type(c) PROVE FALSE
    BY <2>1, <2>2 DEF Type
  <2>3. ~Step
    BY DEF Step, Query, Abort, Select, Outer, Inner, Finish, Insert, BeginDelete, Delete, Create, Destroy,
           Load, Show, Help
  <2> QED BY <1>1, <2>2, <2>3 DEF Next
<1> QED BY <1>1, InitKeeps, NextKeeps, PTL DEF Spec, RepeatAccepted
-----------------------------------------------------------------------------
(* Relations are lists *)

\* A list of attributes, each of a type and a length.
AttrList(a) == a \in Seq(Range(a)) /\ \A i \in DOMAIN a : a[i].type \in Types /\ a[i].len \in Nat

\* Each relation has a list of attributes and a list of tuples.
Listed(R) == \A r \in Rels : AttrList(R[r].attrs) /\ R[r].tuples \in Seq(Range(R[r].tuples))

-----------------------------------------------------------------------------
(* Qualifiers and qualifications *)

\* The parts of a command that the operators compare.
LEMMA CommandParts ==
  ASSUME NEW c \in Commands
  PROVE  /\ c.kind \in {"query", "delete"} => c.where \in Wheres
         /\ c.kind = "insert" => c.lits \in Seq(Literals)
         /\ c.kind = "load" => c.recs \in UnixFiles
         /\ c.kind = "query" => c.star \in BOOLEAN /\ (~c.star => c.list # <<>>) /\ (c.star => c.list = <<>>)
<1>1. c \in Syntax(RelNames, UnixFiles)
  BY CommandsAssumption
<1> HIDE DEF Wheres, Literals
<1> QED BY <1>1, ZenonT(30) DEF Syntax

\* The two attributes of a qualification, its operator and its literal.
LEMMA WhereParts ==
  ASSUME NEW w \in Wheres
  PROVE  /\ w.kind \in {"none", "select", "join"}
         /\ w.kind = "none" => w = NoWhere
         /\ w.kind = "select" =>
              /\ w = [kind |-> "select", attr |-> w.attr, op |-> w.op, lit |-> w.lit]
              /\ w.attr \in QualAttrs /\ w.op \in Operators /\ w.lit \in Literals
         /\ w.kind = "join" =>
              /\ w = [kind |-> "join", attr |-> w.attr, op |-> w.op, attr2 |-> w.attr2]
              /\ w.attr \in QualAttrs /\ w.op \in Operators /\ w.attr2 \in QualAttrs
<1> HIDE DEF Literals, QualAttrs, Operators
<1>1. CASE w \in {NoWhere}
  BY <1>1, SMTT(30) DEF NoWhere
<1>2. CASE w \in [kind : {"select"}, attr : QualAttrs, op : Operators, lit : Literals]
  BY <1>2
<1>3. CASE w \in [kind : {"join"}, attr : QualAttrs, op : Operators, attr2 : QualAttrs]
  BY <1>3, ZenonT(30)
<1> QED BY <1>1, <1>2, <1>3 DEF Wheres

\* The relations that a query reads.
TableRels(c) == {c.tables[i].rel : i \in DOMAIN c.tables}

\* A qualifier stands for a table of the query, or for nothing.
LEMMA RelationIsTable ==
  ASSUME NEW c \in Commands, c.kind = "query", NEW q
  PROVE  /\ Relation(c.tables, q) \in TableRels(c) \cup {""}
         /\ TableRels(c) \subseteq RelNames
         /\ c.tables[1].rel \in TableRels(c) /\ Len(c.tables) \in Nat \ {0}
<1>1. c.tables \in Seq([rel : RelNames, alias : STRING]) /\ c.tables # <<>>
  BY CommandShape
<1>2. DOMAIN c.tables = 1 .. Len(c.tables) /\ Len(c.tables) \in Nat \ {0}
  BY <1>1, ListLength, NoElements, ZenonT(30)
<1>3. TableRels(c) \subseteq RelNames
  <2>1. ASSUME NEW i \in DOMAIN c.tables PROVE c.tables[i].rel \in RelNames
    <3>1. c.tables[i] \in [rel : RelNames, alias : STRING]
      BY <1>1, <1>2, ListElement, ZenonT(30)
    <3> QED BY <3>1
  <2> QED BY <2>1 DEF TableRels
<1>4. 1 \in DOMAIN c.tables
  BY <1>2, SMT
<1>5. c.tables[1].rel \in TableRels(c)
  BY <1>4 DEF TableRels
<1>6. FindMatch(c.tables, q) \in TableRels(c) \cup {""}
  <2> DEFINE hits == {i \in DOMAIN c.tables : q \in {c.tables[i].rel, c.tables[i].alias}}
  <2>1. CASE hits = {}
    BY <2>1 DEF FindMatch
  <2>2. CASE hits # {}
    <3>1. hits \subseteq Nat
      BY <1>2, SMTT(30)
    <3>2. \E k \in hits : \A j \in hits : k <= j
      BY <2>2, <3>1, LeastNat, ZenonT(30)
    <3>3. Min(hits) \in hits
      BY <3>2 DEF Min
    <3>4. Min(hits) \in DOMAIN c.tables
      BY <3>3
    <3>5. FindMatch(c.tables, q) = c.tables[Min(hits)].rel
      BY <2>2, ZenonT(30) DEF FindMatch
    <3> QED BY <3>4, <3>5, ZenonT(30) DEF TableRels
  <2> QED BY <2>1, <2>2
<1> QED BY <1>2, <1>3, <1>5, <1>6, ZenonT(30) DEF Relation

\* The tree of a query: the attributes have the names that were typed, each of a
\* table of the query; the qualification is the one that was typed.
LEMMA TreeOfNames ==
  ASSUME NEW c \in Commands, c.kind = "query", NEW t, t = Tree(c), t # Null
  PROVE  /\ DOMAIN t.list = DOMAIN c.list
         /\ \A i \in DOMAIN c.list : /\ t.list[i].attr = c.list[i].attr
                                     /\ t.list[i].rel = Relation(c.tables, c.list[i].rel)
                                     /\ t.list[i].rel \in TableRels(c)
         /\ t.where.kind = c.where.kind
         /\ c.where.kind # "none" =>
              /\ t.where.op = c.where.op /\ t.where.attr.attr = c.where.attr.attr
              /\ t.where.attr.rel = Relation(c.tables, c.where.attr.rel)
              /\ t.where.attr.rel \in TableRels(c)
         /\ c.where.kind = "select" => t.where.lit = c.where.lit
         /\ c.where.kind = "join" =>
              /\ t.where.attr2.attr = c.where.attr2.attr
              /\ t.where.attr2.rel = Relation(c.tables, c.where.attr2.rel)
              /\ t.where.attr2.rel \in TableRels(c)
<1> DEFINE R(q) == Relation(c.tables, q)
<1>1. t = QueryTree(c)
  BY DEF Tree
<1>2. /\ t = [c EXCEPT !.list = ResolvedList(c.tables, @), !.where = ResolvedWhere(c.tables, @)]
      /\ ~\E a \in Range(t.list) \cup WhereAttrs(t.where) : a.rel = ""
  BY <1>1 DEF QueryTree
<1>3. t.list = ResolvedList(c.tables, c.list) /\ t.where = ResolvedWhere(c.tables, c.where)
  BY <1>2, CommandShape, ZenonT(30)
<1>4. \A q : R(q) \in TableRels(c) \cup {""}
  BY RelationIsTable, ZenonT(30)
<1>5. c.list \in Seq(QualAttrs) /\ c.where \in Wheres
  BY CommandShape, CommandParts
<1>6. ASSUME NEW a \in QualAttrs
      PROVE  Resolved(c.tables, a) = [rel |-> R(a.rel), attr |-> a.attr]
  BY SMTT(30) DEF Resolved, QualAttrs
<1> HIDE DEF R
<1>7. ASSUME NEW i \in DOMAIN c.list
      PROVE  t.list[i].rel = R(c.list[i].rel) /\ t.list[i].attr = c.list[i].attr /\ t.list[i].rel # ""
  <2>1. c.list[i] \in QualAttrs
    BY <1>5, ListLength, ListElement
  <2>2. t.list[i] = Resolved(c.tables, c.list[i]) /\ i \in DOMAIN t.list
    BY <1>3 DEF ResolvedList
  <2>3. t.list[i] \in Range(t.list)
    BY <2>2 DEF Range
  <2>4. t.list[i] = [rel |-> R(c.list[i].rel), attr |-> c.list[i].attr]
    BY <1>6, <2>1, <2>2
  <2>5. t.list[i].rel # ""
    BY <1>2, <2>3, ZenonT(30)
  <2>6. t.list[i].rel = R(c.list[i].rel) /\ t.list[i].attr = c.list[i].attr
    BY <2>4, SMTT(30)
  <2> QED BY <2>5, <2>6, ZenonT(30)
<1>8. DOMAIN t.list = DOMAIN c.list
  BY <1>3 DEF ResolvedList
<1> DEFINE listOK == \A i \in DOMAIN c.list : /\ t.list[i].attr = c.list[i].attr
                                               /\ t.list[i].rel = Relation(c.tables, c.list[i].rel)
                                               /\ t.list[i].rel \in TableRels(c)
<1>9. listOK
  <2> SUFFICES ASSUME NEW i \in DOMAIN c.list
               PROVE  /\ t.list[i].attr = c.list[i].attr
                      /\ t.list[i].rel = R(c.list[i].rel)
                      /\ t.list[i].rel \in TableRels(c)
    BY DEF R
  <2>1. R(c.list[i].rel) \in TableRels(c) \cup {""}
    BY <1>4, ZenonT(30)
  <2>2. t.list[i].rel = R(c.list[i].rel) /\ t.list[i].attr = c.list[i].attr /\ t.list[i].rel # ""
    BY <1>7, ZenonT(30)
  <2> QED BY <2>1, <2>2, ZenonT(30)
<1> HIDE DEF listOK
<1>10. CASE c.where.kind = "none"
  <2>1. t.where = c.where
    BY <1>3, <1>10 DEF ResolvedWhere
  <2> QED BY <1>8, <1>10, <1>9, <2>1 DEF listOK
<1>11. CASE c.where.kind = "select"
  <2>1. c.where = [kind |-> "select", attr |-> c.where.attr, op |-> c.where.op, lit |-> c.where.lit]
        /\ c.where.attr \in QualAttrs
    BY <1>5, <1>11, WhereParts
  <2>2. t.where = [c.where EXCEPT !.attr = Resolved(c.tables, @)]
    BY <1>3, <1>11 DEF ResolvedWhere
  <2>3. t.where = [kind |-> "select", attr |-> [rel |-> R(c.where.attr.rel), attr |-> c.where.attr.attr],
                   op |-> c.where.op, lit |-> c.where.lit]
    BY <1>6, <2>1, <2>2, SMTT(30)
  <2>4. t.where.attr \in WhereAttrs(t.where)
    BY <2>3, SMT DEF WhereAttrs
  <2>5. t.where.attr.rel # ""
    BY <1>2, <2>4, ZenonT(30)
  <2>6. t.where.attr.rel = R(c.where.attr.rel) /\ t.where.attr.rel \in TableRels(c)
    <3>1. R(c.where.attr.rel) \in TableRels(c) \cup {""}
      BY <1>4, ZenonT(30)
    <3>2. t.where.attr.rel = R(c.where.attr.rel)
      BY <2>3, SMTT(30)
    <3> QED BY <2>5, <3>1, <3>2, ZenonT(30)
  <2>7. t.where.kind = "select" /\ t.where.op = c.where.op /\ t.where.lit = c.where.lit
        /\ t.where.attr.attr = c.where.attr.attr
    BY <2>3, SMTT(30)
  <2> QED BY <1>8, <1>11, <1>9, <2>6, <2>7 DEF R, listOK
<1>12. CASE c.where.kind = "join"
  <2>1. c.where = [kind |-> "join", attr |-> c.where.attr, op |-> c.where.op, attr2 |-> c.where.attr2]
        /\ c.where.attr \in QualAttrs /\ c.where.attr2 \in QualAttrs
    BY <1>5, <1>12, WhereParts
  <2>2. t.where = [c.where EXCEPT !.attr = Resolved(c.tables, @), !.attr2 = Resolved(c.tables, @)]
    BY <1>3, <1>12 DEF ResolvedWhere
  <2>3. /\ t.where.kind = "join" /\ t.where.op = c.where.op
        /\ t.where.attr = [rel |-> R(c.where.attr.rel), attr |-> c.where.attr.attr]
        /\ t.where.attr2 = [rel |-> R(c.where.attr2.rel), attr |-> c.where.attr2.attr]
    <3>1. Resolved(c.tables, c.where.attr) = [rel |-> R(c.where.attr.rel), attr |-> c.where.attr.attr]
      BY <1>6, <2>1
    <3>2. Resolved(c.tables, c.where.attr2) = [rel |-> R(c.where.attr2.rel), attr |-> c.where.attr2.attr]
      BY <1>6, <2>1
    <3>3. /\ t.where.kind = "join" /\ t.where.op = c.where.op
          /\ t.where.attr = Resolved(c.tables, c.where.attr)
          /\ t.where.attr2 = Resolved(c.tables, c.where.attr2)
      <4> DEFINE x == Resolved(c.tables, c.where.attr)
                 y == Resolved(c.tables, c.where.attr2)
      <4>1. t.where = [c.where EXCEPT !.attr = x, !.attr2 = y]
        BY <2>2
      <4> HIDE DEF x, y
      <4>2. t.where = [[c.where EXCEPT !.attr = x] EXCEPT !.attr2 = y]
        BY <4>1
      <4>3. [c.where EXCEPT !.attr = x] = [kind |-> "join", attr |-> x, op |-> c.where.op, attr2 |-> c.where.attr2]
        BY <2>1, SMT
      <4> QED BY <4>2, <4>3 DEF x, y
    <3> QED BY <3>1, <3>2, <3>3
  <2>4. t.where.attr \in WhereAttrs(t.where) /\ t.where.attr2 \in WhereAttrs(t.where)
    BY <2>3 DEF WhereAttrs
  <2>5. t.where.attr.rel # "" /\ t.where.attr2.rel # ""
    BY <1>2, <2>4, ZenonT(30)
  <2>6. /\ t.where.attr.rel = R(c.where.attr.rel) /\ t.where.attr.rel \in TableRels(c)
        /\ t.where.attr2.rel = R(c.where.attr2.rel) /\ t.where.attr2.rel \in TableRels(c)
    <3>1. R(c.where.attr.rel) \in TableRels(c) \cup {""} /\ R(c.where.attr2.rel) \in TableRels(c) \cup {""}
      BY <1>4, ZenonT(30)
    <3>2. t.where.attr.rel = R(c.where.attr.rel) /\ t.where.attr2.rel = R(c.where.attr2.rel)
      BY <2>3, SMTT(30)
    <3> QED BY <2>5, <3>1, <3>2, ZenonT(30)
  <2>7. t.where.attr.attr = c.where.attr.attr /\ t.where.attr2.attr = c.where.attr2.attr
    BY <2>3, SMTT(30)
  <2> QED BY <1>8, <1>12, <1>9, <2>3, <2>6, <2>7, ZenonT(30) DEF R, listOK
<1> QED BY <1>5, <1>10, <1>11, <1>12, WhereParts, ZenonT(30)

-----------------------------------------------------------------------------
(* Every step leaves lists *)

\* The attributes of a query are a list, each of a table of the query.
LEMMA ListFacts ==
  ASSUME NEW c \in Commands, c.kind = "query", NEW t, t = Tree(c), t # Null, RelsOK(rels)
  PROVE  /\ Len(List(t)) \in Nat /\ DOMAIN List(t) = 1 .. Len(List(t))
         /\ \A i \in DOMAIN List(t) : List(t)[i].rel \in TableRels(c)
         /\ TableRels(c) \subseteq RelNames
<1>1. /\ c.list \in Seq(QualAttrs)
      /\ t.star = c.star /\ t.tables = c.tables /\ t.list = ResolvedList(c.tables, c.list)
  BY CommandShape, TreeOfQuery, ZenonT(30)
<1>2. /\ TableRels(c) \subseteq RelNames /\ c.tables[1].rel \in TableRels(c)
  BY RelationIsTable, ZenonT(30)
<1>3. DOMAIN t.list = DOMAIN c.list /\ \A i \in DOMAIN c.list : t.list[i].rel \in TableRels(c)
  BY TreeOfNames
<1>4. CASE ~t.star
  <2>1. List(t) = t.list
    BY <1>4 DEF List
  <2>2. DOMAIN c.list = 1 .. Len(c.list) /\ Len(c.list) \in Nat
    BY <1>1, ListLength
  <2>3. t.list = [i \in 1 .. Len(c.list) |-> Resolved(c.tables, c.list[i])]
    BY <1>1, <2>2 DEF ResolvedList
  <2>4. Len(t.list) = Len(c.list)
    BY <2>2, <2>3, SMT
  <2> QED BY <1>2, <1>3, <2>1, <2>2, <2>4, ZenonT(30)
<1>5. CASE t.star /\ Len(t.tables) > 1
  <2>1. List(t) = <<>>
    BY <1>5 DEF List
  <2>2. Len(<<>>) = 0 /\ DOMAIN <<>> = 1 .. 0
    BY SMT
  <2> QED BY <1>2, <2>1, <2>2, SMTT(30)
<1>6. CASE t.star /\ ~(Len(t.tables) > 1)
  <2> DEFINE r == t.tables[1].rel
  <2>1. List(t) = [i \in 1 .. Len(Attrs(r)) |-> [rel |-> r, attr |-> Attrs(r)[i].name]]
    BY <1>6 DEF List
  <2>2. r \in TableRels(c) /\ r \in Rels
    BY <1>1, <1>2 DEF Rels
  <2>3. Len(Attrs(r)) \in Nat
    BY <2>2 DEF RelsOK, Attrs
  <2> HIDE DEF r
  <2>4. Len(List(t)) = Len(Attrs(r)) /\ DOMAIN List(t) = 1 .. Len(Attrs(r))
    BY <2>1, <2>3, SMTT(30)
  <2>5. \A i \in DOMAIN List(t) : List(t)[i].rel = r
    BY <2>1, <2>4, SMTT(30)
  <2> QED BY <1>2, <2>2, <2>3, <2>4, <2>5
<1> QED BY <1>4, <1>5, <1>6, ZenonT(30)

\* An attribute that was looked up is one of its relation.
LEMMA PlaceFacts ==
  ASSUME NEW a, NEW name, name \in Names(a)
  PROVE  Place(a, name) \in DOMAIN a /\ AttrOf(a, name) = a[Place(a, name)] /\ AttrOf(a, name).name = name
<1>1. \E i \in DOMAIN a : a[i].name = name
  BY DEF Names
<1>2. Place(a, name) \in DOMAIN a /\ a[Place(a, name)].name = name
  BY <1>1 DEF Place
<1> QED BY <1>2 DEF AttrOf

\* The attributes of a new result (createRel) have types and lengths.
LEMMA ResultAttrsListed ==
  ASSUME NEW c \in Commands, c.kind = "query", NEW t, t = Tree(c), t # Null, RelsOK(rels), Listed(rels),
         \A i \in DOMAIN List(t) : Found(List(t)[i])
  PROVE  AttrList(ResultAttrs(t))
<1> DEFINE n == Len(List(t))
           a == ResultAttrs(t)
<1>1. n \in Nat /\ DOMAIN List(t) = 1 .. n /\ \A i \in 1 .. n : List(t)[i].rel \in Rels
  BY ListFacts DEF Rels
<1>2. a = [i \in 1 .. n |-> a[i]]
  BY <1>1 DEF ResultAttrs
<1>3. ASSUME NEW i \in 1 .. n PROVE a[i].type \in Types /\ a[i].len \in Nat
  <2> DEFINE q == List(t)[i]
  <2>1. a[i].type = Desc(q).type /\ a[i].len = Desc(q).len
    BY <1>1 DEF ResultAttrs
  <2>2. q.rel \in Rels /\ q.attr \in Names(Attrs(q.rel))
    BY <1>1 DEF Found
  <2> HIDE DEF q
  <2>3. Desc(q) = Attrs(q.rel)[Place(Attrs(q.rel), q.attr)] /\ Place(Attrs(q.rel), q.attr) \in DOMAIN Attrs(q.rel)
    BY <2>2, PlaceFacts DEF Desc
  <2>4. AttrList(Attrs(q.rel))
    BY <2>2 DEF Listed, Attrs
  <2> QED BY <2>1, <2>3, <2>4, ZenonT(30) DEF AttrList
<1> HIDE DEF a
<1>4. a \in [1 .. n -> Range(a)] /\ DOMAIN a = 1 .. n
  BY <1>2 DEF Range
<1>5. a \in Seq(Range(a))
  <2> HIDE DEF n
  <2> QED BY <1>1, <1>4, ListsAreFunctions, ZenonT(30)
<1> QED BY <1>3, <1>4, <1>5 DEF AttrList, a

\* A relation that is made, or whose tuples change, leaves lists.
LEMMA ListedWith ==
  ASSUME RelsOK(rels), Listed(rels), NEW r \in Rels, NEW a, NEW e, AttrList(a), e \in Seq(Range(e)),
         rels' = [rels EXCEPT ![r] = [attrs |-> a, tuples |-> e]]
  PROVE  Listed(rels')
<1>1. \A q \in Rels : rels'[q] = IF q = r THEN [attrs |-> a, tuples |-> e] ELSE rels[q]
  BY DEF RelsOK
<1> QED BY <1>1, SMT DEF Listed

\* insertRecord and deleteRecord leave the attributes alone.
LEMMA ListedWithTuples ==
  ASSUME RelsOK(rels), Listed(rels), NEW r \in Rels, NEW e, e \in Seq(Range(e)),
         rels' = [rels EXCEPT ![r].tuples = e]
  PROVE  /\ Listed(rels') /\ rels'[r].tuples = e /\ rels'[r].attrs = rels[r].attrs
         /\ \A q \in Rels \ {r} : rels'[q] = rels[q]
<1>1. rels = [q \in Rels |-> [attrs |-> rels[q].attrs, tuples |-> rels[q].tuples]]
  BY DEF RelsOK
<1>2. [rels[r] EXCEPT !.tuples = e] = [attrs |-> rels[r].attrs, tuples |-> e]
  BY <1>1, SMT
<1>3. rels' = [rels EXCEPT ![r] = [attrs |-> rels[r].attrs, tuples |-> e]]
  BY <1>2
<1>4. AttrList(rels[r].attrs)
  BY DEF Listed
<1>5. Listed(rels')
  BY <1>3, <1>4, ListedWith
<1>6. rels'[r] = [attrs |-> rels[r].attrs, tuples |-> e] /\ \A q \in Rels \ {r} : rels'[q] = rels[q]
  BY <1>1, <1>3
<1> QED BY <1>5, <1>6, SMT

\* An empty list.
LEMMA EmptyList == <<>> \in Seq(Range(<<>>)) /\ AttrList(<<>>)
<1>1. <<>> \in Seq(Range(<<>>)) /\ DOMAIN <<>> = {}
  BY SMT
<1> QED BY <1>1 DEF AttrList

-----------------------------------------------------------------------------

\* insertRecord adds a tuple at the end.
LEMMA AddEffect ==
  ASSUME RelsOK(rels), Listed(rels), NEW r \in Rels, NEW v, Add(r, v)
  PROVE  /\ Listed(rels') /\ rels'[r].attrs = rels[r].attrs
         /\ rels'[r].tuples = Append(rels[r].tuples, v)
         /\ \A q \in Rels \ {r} : rels'[q] = rels[q]
<1>1. rels[r].tuples \in Seq(Range(rels[r].tuples))
  BY DEF Listed
<1>2. Append(rels[r].tuples, v) \in Seq(Range(Append(rels[r].tuples, v)))
  BY <1>1, GrownList
<1>3. rels' = [rels EXCEPT ![r].tuples = Append(rels[r].tuples, v)]
  BY DEF Add
<1> QED BY <1>2, <1>3, ListedWithTuples, ZenonT(30)

\* The relations are lists, and the scans count their tuples.
ListInv ==
  /\ Listed(rels) /\ Listed(before)
  /\ pos \in Nat /\ ipos \in Nat

\* The relations stay lists.
LEMMA ListedStep == SessionInv /\ ListInv /\ [Next]_vars => ListInv'
<1> SUFFICES ASSUME SessionInv, ListInv, [Next]_vars PROVE ListInv'
  OBVIOUS
<1> SUFFICES Listed(rels') /\ Listed(before')
  <2>1. pos' \in {pos, pos + 1, 0} /\ ipos' \in {ipos, ipos + 1, 0}
    <3>1. CASE UNCHANGED vars \/ \E c \in Commands : Type(c)
      BY <3>1 DEF Type, vars, scan
    <3>2. CASE Query \/ Abort \/ Finish \/ Insert \/ BeginDelete \/ Create \/ Destroy \/ Load \/ Show \/ Help
      BY <3>2, ZenonT(30) DEF Query, Abort, Finish, Insert, BeginDelete, Create, Destroy, Load, Show, Help, scan
    <3>3. CASE Select \/ Outer \/ Inner
      BY <3>3 DEF Select, Outer, Inner, scan
    <3>4. CASE Delete
      BY <3>4 DEF Delete
    <3> QED BY <3>1, <3>2, <3>3, <3>4 DEF Next, Step
  <2> QED BY <2>1, SMTT(30) DEF ListInv, Listed
<1> USE DEF ListInv
<1>1. before' \in {before, rels}
  BY DEF Next, Type, Step, Query, Abort, Select, Outer, Inner, Finish, Insert, BeginDelete, Delete, Create,
         Destroy, Load, Show, Help, vars, db
<1>2. RelsOK(rels)
  BY DEF SessionInv
<1>3. CASE rels' = rels
  BY <1>1, <1>3
<1>4. ASSUME pc \in Looping
      PROVE  /\ typed \in Commands /\ parse_tree = Tree(typed) /\ Result(parse_tree) \in Rels
  <2>1. typed \in Commands /\ parse_tree = Tree(typed) /\ parse_tree # Null /\ typed.kind = "query"
    BY <1>4 DEF SessionInv, InCommand, Live
  <2>2. Result(parse_tree) = Result(typed)
    BY <2>1, TreeOfQuery, ZenonT(30) DEF Result
  <2> QED BY <2>1, <2>2, TargetIsRel
<1>5. ASSUME pc \in {"interp", "delete"}, parse_tree.kind \in {"insert", "delete", "create", "load", "destroy"}
      PROVE  /\ parse_tree = typed /\ typed \in Commands
             /\ parse_tree.kind \in {"insert", "delete", "create"} \/ parse_tree.rel \notin CatNames => parse_tree.rel \in Rels
  <2>1. typed \in Commands /\ parse_tree = typed
    BY <1>5, AtInterp
  <2> QED BY <1>5, <2>1, TargetIsRel
<1>6. CASE \E r \in Rels : \E v : Add(r, v)
  BY <1>1, <1>2, <1>6, AddEffect, ZenonT(30)
<1>7. CASE Query /\ rels' # rels
  <2> DEFINE t == parse_tree
             r == Result(t)
  <2>1. typed \in Commands /\ t = Tree(typed) /\ t # Null /\ t.kind = "query"
    BY <1>7 DEF SessionInv, InCommand, Live, Query
  <2>2. typed.kind = "query"
    BY <2>1, TreeOfOther, ZenonT(30)
  <2>3. r \in Rels
    BY <2>1, <2>2, TreeOfQuery, TargetIsRel, ZenonT(30) DEF Result
  <2>4. /\ rels' = [rels EXCEPT ![r] = [attrs |-> ResultAttrs(t), tuples |-> <<>>]]
        /\ ResultError(t) = "OK"
    BY <1>7, ZenonT(30) DEF Query
  <2>5. \A i \in DOMAIN List(t) : Found(List(t)[i])
    BY <2>4 DEF ResultError
  <2>6. AttrList(ResultAttrs(t))
    BY <1>2, <2>1, <2>2, <2>5, ResultAttrsListed, ZenonT(30)
  <2> HIDE DEF r, t
  <2> QED BY <1>1, <1>2, <2>3, <2>4, <2>6, ListedWith, EmptyList, ZenonT(30)
<1>8. CASE Finish /\ rels' # rels
  <2>1. rels' = [rels EXCEPT ![Temp] = [attrs |-> <<>>, tuples |-> <<>>]] /\ Temp \in Rels
    BY <1>8 DEF Finish, NoRel, Rels
  <2> QED BY <1>1, <1>2, <2>1, ListedWith, EmptyList
<1>9. CASE Destroy /\ rels' # rels
  <2>1. rels' = [rels EXCEPT ![parse_tree.rel] = [attrs |-> <<>>, tuples |-> <<>>]] /\ parse_tree.rel \in Rels
    BY <1>5, <1>9 DEF Destroy, NoRel
  <2> QED BY <1>1, <1>2, <2>1, ListedWith, EmptyList
<1>10. CASE Create /\ rels' # rels
  <2> DEFINE a == parse_tree.descrs
  <2>1. rels' = [rels EXCEPT ![parse_tree.rel] = [attrs |-> a, tuples |-> <<>>]]
        /\ parse_tree.rel \in Rels /\ parse_tree \in Commands /\ parse_tree.kind = "create"
    BY <1>5, <1>10 DEF Create
  <2>2. a \in Seq([name : STRING, type : Types, len : Nat])
    BY <2>1, CommandShape, ZenonT(30)
  <2> HIDE DEF a
  <2>3. a \in Seq(Range(a))
    BY <2>2, ListOverItsOwn
  <2>4. ASSUME NEW i \in DOMAIN a PROVE a[i].type \in Types /\ a[i].len \in Nat
    <3>1. a[i] \in [name : STRING, type : Types, len : Nat]
      BY <2>2, ListLength, ListElement
    <3> QED BY <3>1, ZenonT(30)
  <2>5. AttrList(a)
    BY <2>3, <2>4 DEF AttrList
  <2> QED BY <1>1, <1>2, <2>1, <2>5, ListedWith, EmptyList, ZenonT(30)
<1>11. CASE Load /\ rels' # rels
  <2> DEFINE r == parse_tree.rel
             s == rels[r].tuples
             u == parse_tree.recs
  <2>1. r \in Rels /\ parse_tree \in Commands /\ parse_tree.kind = "load" /\ rels' = [rels EXCEPT ![r].tuples = s \o u]
    BY <1>5, <1>11 DEF Load
  <2>2. s \in Seq(Range(s)) /\ u \in Seq(Range(u))
    BY <2>1, CommandParts, UnixFilesAssumption DEF Listed
  <2> HIDE DEF r, s, u
  <2>3. s \in Seq(Range(s) \cup Range(u)) /\ u \in Seq(Range(s) \cup Range(u))
    BY <2>2, ListOverMore, ZenonT(30)
  <2>4. s \o u \in Seq(Range(s \o u))
    BY <2>3, JoinedLists, ListOverItsOwn
  <2> QED BY <1>1, <1>2, <2>1, <2>4, ListedWithTuples, ZenonT(30)
<1>12. CASE Delete /\ rels' # rels
  <2> DEFINE r == parse_tree.rel
             s == rels[r].tuples
  <2>1. pc = "delete" /\ pos < Len(s) /\ rels' = [rels EXCEPT ![r].tuples = RemoveAt(s, pos + 1)]
    BY <1>12 DEF Delete, Tuples
  <2>2. typed \in Commands /\ typed.kind = "delete" /\ parse_tree = Tree(typed) /\ parse_tree # Null
    BY <2>1 DEF SessionInv, InCommand, Live
  <2>3. r \in Rels
    BY <2>2, TreeOfOther, TargetIsRel, ZenonT(30)
  <2>4. s \in Seq(Range(s))
    BY <2>3 DEF Listed
  <2> HIDE DEF r, s
  <2>5. Len(s) \in Nat
    BY <2>4, ListLength
  <2>6. pos + 1 \in 1 .. Len(s)
    BY <2>1, <2>5, SMTT(30)
  <2>7. RemoveAt(s, pos + 1) \in Seq(Range(RemoveAt(s, pos + 1)))
    BY <2>4, <2>6, ShrunkList
  <2> QED BY <1>1, <1>2, <2>1, <2>3, <2>7, ListedWithTuples
<1>13. CASE Select /\ rels' # rels
  <2>1. pc \in Looping /\ \E v : Add(Result(parse_tree), v)
    BY <1>13 DEF Select, Looping
  <2> QED BY <1>4, <1>6, <2>1
<1>14. CASE Inner /\ rels' # rels
  <2>1. pc \in Looping /\ \E v : Add(Result(parse_tree), v)
    BY <1>14 DEF Inner, Looping
  <2> QED BY <1>4, <1>6, <2>1
<1>15. CASE Insert /\ rels' # rels
  <2>1. parse_tree.rel \in Rels /\ \E v : Add(parse_tree.rel, v)
    BY <1>5, <1>15 DEF Insert
  <2> QED BY <1>6, <2>1
<1>16. CASE Abort \/ Outer \/ BeginDelete \/ Show \/ Help \/ UNCHANGED vars \/ \E c \in Commands : Type(c)
  <2>1. rels' = rels
    BY <1>16, ZenonT(30) DEF Abort, Outer, BeginDelete, Show, Help, vars, db, Type
  <2> QED BY <1>3, <2>1
<1> QED BY <1>3, <1>7, <1>8, <1>9, <1>10, <1>11, <1>12, <1>13, <1>14, <1>15, <1>16 DEF Next, Step

\* The relations of the database at the start are lists.
LEMMA ListedAtFirst == Init => ListInv
<1> SUFFICES ASSUME Init PROVE Listed(rels) /\ before = rels /\ pos = 0 /\ ipos = 0
  BY SMTT(30) DEF ListInv
<1>1. ASSUME NEW r \in Rels
      PROVE  AttrList(rels[r].attrs) /\ rels[r].tuples \in Seq(Range(rels[r].tuples))
  <2>1. CASE r \notin DOMAIN InitRels
    <3>1. rels[r].attrs = <<>> /\ rels[r].tuples = <<>>
      BY <2>1 DEF Init, NoRel
    <3> QED BY <3>1, EmptyList
  <2>2. CASE r \in DOMAIN InitRels
    <3> DEFINE a == InitRels[r].attrs
    <3>1. /\ rels[r] = InitRels[r] /\ a \in Seq([name : STRING, type : Types, len : Nat])
          /\ InitRels[r].tuples \in Seq(Range(InitRels[r].tuples))
      BY <2>2, InitRelsAssumption DEF Init
    <3> HIDE DEF a
    <3>2. a \in Seq(Range(a))
      BY <3>1, ListOverItsOwn
    <3>3. ASSUME NEW i \in DOMAIN a PROVE a[i].type \in Types /\ a[i].len \in Nat
      <4>1. a[i] \in [name : STRING, type : Types, len : Nat]
        BY <3>1, ListLength, ListElement
      <4> QED BY <4>1
    <3> QED BY <3>1, <3>2, <3>3, ZenonT(30) DEF AttrList, a
  <2> QED BY <2>1, <2>2
<1> QED BY <1>1 DEF Listed, Init

-----------------------------------------------------------------------------
(* QU_Insert *)

\* Records of m values, the i-th one of G[i].
Records(U, G, m) == {s \in Seq(U) : Len(s) = m /\ \A i \in 1 .. m : s[i] \in G[i]}

\* A record grows by the next value.
LEMMA RecordGrows ==
  ASSUME NEW U, NEW G, G \in [Nat -> SUBSET U], NEW m \in Nat
  PROVE  /\ \A s \in Records(U, G, m), v \in G[m + 1] : Append(s, v) \in Records(U, G, m + 1)
         /\ \A s \in Records(U, G, m + 1) :
              /\ SubSeq(s, 1, m) \in Records(U, G, m) /\ s[m + 1] \in G[m + 1]
              /\ s = Append(SubSeq(s, 1, m), s[m + 1])
<1> DEFINE A == Records(U, G, m)
           B == Records(U, G, m + 1)
<1> USE DEF Records
<1>1. ASSUME NEW s \in A, NEW v \in G[m + 1] PROVE Append(s, v) \in B
  <2>1. s \in Seq(U) /\ v \in U /\ Len(s) = m /\ \A i \in 1 .. m : s[i] \in G[i]
    BY SMT
  <2>2. /\ Append(s, v) \in Seq(U) /\ Len(Append(s, v)) = m + 1
        /\ \A i \in 1 .. m : Append(s, v)[i] = s[i]
        /\ Append(s, v)[m + 1] = v
    BY <2>1, OneMore, SMT
  <2>3. \A i \in 1 .. m + 1 : i \in 1 .. m \/ i = m + 1
    BY SMT
  <2> QED BY <2>1, <2>2, <2>3, ZenonT(30)
<1>2. ASSUME NEW s \in B
      PROVE  /\ SubSeq(s, 1, m) \in A /\ s[m + 1] \in G[m + 1]
             /\ s = Append(SubSeq(s, 1, m), s[m + 1])
  <2> DEFINE q == SubSeq(s, 1, m)
  <2>1. s \in Seq(U) /\ Len(s) = m + 1 /\ \A i \in 1 .. m + 1 : s[i] \in G[i]
    OBVIOUS
  <2>2. \A i \in 1 .. m + 1 : s[i] \in U
    BY <2>1, ListElement
  <2>3. q \in Seq(U) /\ Len(q) = m /\ \A i \in 1 .. m : q[i] = s[i]
    BY <2>1, <2>2, SMTT(30)
  <2> HIDE DEF q
  <2>4. q \in A
    BY <2>1, <2>3, SMTT(30)
  <2>5. s[m + 1] \in U /\ s[m + 1] \in G[m + 1]
    BY <2>1, <2>2, SMTT(30)
  <2>6. /\ Append(q, s[m + 1]) \in Seq(U) /\ Len(Append(q, s[m + 1])) = m + 1
        /\ \A i \in 1 .. m : Append(q, s[m + 1])[i] = q[i]
        /\ Append(q, s[m + 1])[m + 1] = s[m + 1]
    BY <2>3, <2>5, OneMore, SMTT(30)
  <2>7. \A i \in 1 .. m + 1 : s[i] = Append(q, s[m + 1])[i]
    <3>1. \A i \in 1 .. m + 1 : i \in 1 .. m \/ i = m + 1
      BY LastOrBefore
    <3> QED BY <2>3, <2>6, <3>1
  <2>8. s = Append(q, s[m + 1])
    BY <2>1, <2>6, <2>7, SameLists
  <2> QED BY <2>4, <2>5, <2>8 DEF q
<1> QED BY <1>1, <1>2

\* A record that QU_Insert may store has a value for each attribute, one that it
\* may store for that attribute.
LEMMA InsertedFacts ==
  ASSUME NEW t, Len(Attrs(t.rel)) \in Nat, NEW s \in InsertedTuples(t)
  PROVE  \A i \in 1 .. Len(Attrs(t.rel)) : s[i] \in Inserted(t, i)
<1> DEFINE n == Len(Attrs(t.rel))
           U == UNION {Inserted(t, i) : i \in Nat}
           G == [i \in Nat |-> Inserted(t, i)]
           F == [m \in 0 .. n |-> Records(U, G, m)]
           Grown(S, m) == {Append(q, v) : q \in S, v \in Inserted(t, m)}
           Rec(f) == f = [m \in 0 .. n |-> IF m = 0 THEN {<<>>} ELSE Grown(f[m - 1], m)]
           upto == CHOOSE f : Rec(f)
<1>1. InsertedTuples(t) = upto[n]
  BY SMT DEF InsertedTuples
<1>2. n \in Nat /\ G \in [Nat -> SUBSET U]
  OBVIOUS
<1>3. \A i \in 1 .. n : G[i] = Inserted(t, i)
  BY SMT
<1> HIDE DEF U, G, n
<1>4. Rec(F)
  <2> DEFINE E == [m \in 0 .. n |-> IF m = 0 THEN {<<>>} ELSE Grown(F[m - 1], m)]
  <2>1. ASSUME NEW m \in 0 .. n PROVE F[m] = E[m]
    <3>1. CASE m = 0
      <4>1. F[m] = {q \in Seq(U) : Len(q) = 0 /\ \A i \in 1 .. 0 : q[i] \in G[i]}
        BY <3>1 DEF Records
      <4>2. F[m] = {<<>>}
        <5>1. \A q \in Seq(U) : Len(q) = 0 <=> q = <<>>
          BY NoElements
        <5>2. <<>> \in Seq(U) /\ 1 .. 0 = {}
          BY NoElements, SMT
        <5> QED BY <4>1, <5>1, <5>2, ZenonT(30)
      <4> QED BY <3>1, <4>2, SMTT(30)
    <3>2. CASE m # 0
      <4>1. m - 1 \in 0 .. n /\ m - 1 \in Nat /\ (m - 1) + 1 = m /\ m \in 1 .. n
        BY <1>2, <3>2, SMT
      <4>2. PICK k \in Nat : k = m - 1
        BY <4>1
      <4>3. F[k] = Records(U, G, k) /\ F[m] = Records(U, G, k + 1)
        BY <4>1, <4>2, ZenonT(30)
      <4>4. /\ \A u \in Records(U, G, k), v \in G[k + 1] : Append(u, v) \in Records(U, G, k + 1)
            /\ \A u \in Records(U, G, k + 1) :
                 /\ SubSeq(u, 1, k) \in Records(U, G, k) /\ u[k + 1] \in G[k + 1]
                 /\ u = Append(SubSeq(u, 1, k), u[k + 1])
        BY <1>2, RecordGrows, ZenonT(30)
      <4>5. G[k + 1] = Inserted(t, m)
        BY <1>3, <4>1, <4>2
      <4>6. Grown(Records(U, G, k), m) = Records(U, G, k + 1)
        <5>1. ASSUME NEW x \in Grown(Records(U, G, k), m) PROVE x \in Records(U, G, k + 1)
          <6>1. PICK q \in Records(U, G, k), v \in Inserted(t, m) : x = Append(q, v)
            BY SMTT(30)
          <6>2. Append(q, v) \in Records(U, G, k + 1)
            BY <4>4, <4>5, SMTT(30)
          <6> QED BY <6>1, <6>2, SMT
        <5>2. ASSUME NEW x \in Records(U, G, k + 1) PROVE x \in Grown(Records(U, G, k), m)
          <6>1. PICK q \in Records(U, G, k), v \in Inserted(t, m) : x = Append(q, v)
            BY <4>4, <4>5, ZenonT(30)
          <6> QED BY <6>1, SMTT(30)
        <5> QED BY <5>1, <5>2, SMT
      <4> HIDE DEF Grown, F
      <4>7. Grown(F[k], m) = F[m]
        BY <4>3, <4>6
      <4> QED BY <3>2, <4>2, <4>7
    <3> HIDE DEF E, F
    <3> QED BY <3>1, <3>2
  <2>2. F = [m \in 0 .. n |-> F[m]]
    OBVIOUS
  <2> HIDE DEF F, Grown
  <2>3. F = E
    BY <2>1, <2>2
  <2> QED BY <2>3
<1>5. Rec(upto)
  <2> HIDE DEF Rec, F
  <2>1. \E f : Rec(f)
    BY <1>4
  <2> QED BY <2>1
<1> DEFINE bad == {m \in 0 .. n : ~(upto[m] \subseteq F[m])}
<1> HIDE DEF upto, F, Grown
<1>6. bad = {}
  <2> SUFFICES ASSUME bad # {} PROVE FALSE
    OBVIOUS
  <2>1. bad \subseteq Nat
    BY SMT
  <2>2. PICK m \in bad : \A k \in bad : m <= k
    <3> HIDE DEF bad
    <3> QED BY <2>1, LeastNat
  <2>3. m \in 0 .. n /\ ~(upto[m] \subseteq F[m])
    OBVIOUS
  <2>4. upto[m] = IF m = 0 THEN {<<>>} ELSE Grown(upto[m - 1], m)
    BY <1>5, <2>3, ZenonT(30)
  <2>5. F[m] = IF m = 0 THEN {<<>>} ELSE Grown(F[m - 1], m)
    BY <1>4, <2>3
  <2>6. m # 0
    BY <2>3, <2>4, <2>5
  <2>7. upto[m - 1] \subseteq F[m - 1]
    <3>1. m - 1 \in 0 .. n /\ ~(m <= m - 1)
      BY <1>2, <2>3, <2>6, SMTT(30)
    <3> QED BY <2>2, <3>1
  <2>8. Grown(upto[m - 1], m) \subseteq Grown(F[m - 1], m)
    BY <2>7, SMT DEF Grown
  <2> QED BY <2>3, <2>4, <2>5, <2>6, <2>8, ZenonT(30)
<1>7. s \in F[n]
  <2>1. n \in 0 .. n
    BY <1>2, SMT
  <2> QED BY <1>1, <1>6, <2>1
<1>8. \A i \in 1 .. n : s[i] \in G[i]
  BY <1>2, <1>7, SMTT(30) DEF F, Records
<1> QED BY <1>3, <1>8 DEF n

\* A literal has what each type makes of it.
LEMMA LiteralParts ==
  ASSUME NEW lit \in Literals
  PROVE  /\ lit.atoi \in Ints /\ lit.atof \in Int /\ lit.type \in Types
         /\ lit.text \in Seq(Nat) /\ lit.text # <<>> /\ lit.text[Len(lit.text)] = NUL
BY DEF Literals

\* What was stored for a literal is found with it, whatever lies in memory
\* behind a short string: matchRec stops at the NUL that memcpy has copied.
LEMMA StoredMatches ==
  ASSUME NEW a, a.type \in Types, a.len \in Nat, NEW lit \in Literals, NEW v \in Stored(a, lit)
  PROVE  MatchRec(a, v, "EQ", Filter(a.type, lit))
<1>1. CASE a.type = "INTEGER"
  <2>1. v = lit.atoi /\ lit.atoi \in Ints /\ Filter(a.type, lit) = lit.atoi
    BY <1>1, LiteralParts DEF Stored, Filter
  <2>2. 0 \in Ints /\ lit.atoi \in Int
    BY <2>1, PowerAssumption, SMTT(30) DEF Ints
  <2>3. Wrap(v - lit.atoi) = 0
    BY <2>1, <2>2, NoWrap, SMTT(30)
  <2> QED BY <1>1, <2>1, <2>3 DEF MatchRec, Holds
<1>2. CASE a.type = "FLOAT"
  <2>1. v = lit.atof /\ lit.atof \in Int /\ Filter(a.type, lit) = lit.atof
    BY <1>2, LiteralParts DEF Stored, Filter
  <2>2. v - lit.atof = 0
    BY <2>1, SMT
  <2> QED BY <1>2, <2>1, <2>2 DEF MatchRec, Holds
<1>3. CASE a.type = "STRING"
  <2> DEFINE s == lit.text
             last == {k \in 1 .. Min({a.len, Len(s)}) : v[k] # s[k] \/ v[k] = NUL}
  <2>1. s \in Seq(Nat) /\ Filter(a.type, lit) = s
    BY <1>3, LiteralParts DEF Filter
  <2>2. Len(s) \in Nat /\ \A k \in 1 .. Len(s) : s[k] \in Nat
    BY <2>1, ListLength, ListElement
  <2>3. PICK g : v = [k \in 1 .. a.len |-> IF k <= Len(s) THEN s[k] ELSE g[k]]
    BY <1>3 DEF Stored
  <2>4. Min({a.len, Len(s)}) <= a.len /\ Min({a.len, Len(s)}) <= Len(s) /\ Min({a.len, Len(s)}) \in Nat
    <3>1. \E m \in {a.len, Len(s)} : \A k \in {a.len, Len(s)} : m <= k
      BY <2>2, SMT
    <3> QED BY <2>2, <3>1 DEF Min
  <2> HIDE DEF s
  <2>5. \A k \in 1 .. Min({a.len, Len(s)}) : v[k] = s[k] /\ s[k] \in Nat
    BY <2>2, <2>3, <2>4, SMTT(30)
  <2>6. Strncmp(v, s, a.len) = 0
    <3>1. CASE last = {}
      BY <3>1, ZenonT(30) DEF Strncmp
    <3>2. CASE last # {}
      <4>1. \E k \in last : \A j \in last : k <= j
        <5>1. last \subseteq Nat
          BY <2>4, SMT
        <5> HIDE DEF last
        <5> QED BY <3>2, <5>1, LeastNat
      <4>2. Min(last) \in last
        BY <4>1 DEF Min
      <4>3. Min(last) \in 1 .. Min({a.len, Len(s)})
        BY <4>2, ZenonT(30)
      <4>4. Strncmp(v, s, a.len) = v[Min(last)] - s[Min(last)]
        BY <3>2, ZenonT(30) DEF Strncmp
      <4> HIDE DEF last
      <4> QED BY <2>5, <4>3, <4>4, SMT
    <3> QED BY <3>1, <3>2
  <2> QED BY <1>3, <2>1, <2>6 DEF MatchRec, Holds
<1> QED BY <1>1, <1>2, <1>3 DEF Types

\* The step of QU_Insert: the values are found under the names they were given.
LEMMA InsertIsReadable ==
  ASSUME SessionInv, ListInv, Insert
  PROVE  InsertReadable'
<1> DEFINE t == typed
           r == typed.rel
           a == Attrs(r)
<1>1. /\ pc = "interp" /\ typed' = typed /\ status' = InsertError(parse_tree) /\ parse_tree.kind = "insert"
  BY DEF Insert
<1>2. typed \in Commands /\ parse_tree = typed
  BY <1>1, AtInterp
<1>3. r \in Rels
  BY <1>1, <1>2, TargetIsRel
<1> SUFFICES ASSUME status' = "OK", NEW i \in DOMAIN t.attrs,
                    \A j \in DOMAIN t.attrs : j > i => t.attrs[j] # t.attrs[i],
                    NEW d, d = AttrOf(rels'[r].attrs, t.attrs[i])
             PROVE  MatchRec(d, Field(rels'[r], rels'[r].tuples[Len(rels'[r].tuples)], d.name), "EQ", Filter(d.type, t.lits[i]))
  BY <1>1, ZenonT(30) DEF InsertReadable, Done
<1>4. /\ t.attrs \in Seq(STRING) /\ t.lits \in Seq(Literals)
  BY <1>1, <1>2, CommandShape, CommandParts
<1>5. Len(t.attrs) = Len(t.lits)
  BY <1>1, <1>2 DEF SessionInv, InCommand, Live, Tree, InsertTree
<1>6. /\ DOMAIN t.attrs = 1 .. Len(t.attrs) /\ Len(t.attrs) \in Nat
      /\ DOMAIN t.lits = DOMAIN t.attrs
  BY <1>4, <1>5, ListLength
<1>7. Range(t.attrs) \subseteq Names(a)
  BY <1>1, <1>2 DEF InsertError
<1>8. t.attrs[i] \in Names(a)
  BY <1>7 DEF Range
<1>9. AttrList(a) /\ Listed(rels) /\ RelsOK(rels)
  BY <1>3 DEF ListInv, Listed, Attrs, SessionInv
<1>10. PICK v \in InsertedTuples(t) : Add(r, v)
  BY <1>1, <1>2 DEF Insert
<1>11. rels'[r].attrs = a /\ rels'[r].tuples = Append(Tuples(r), v)
  BY <1>3, <1>9, <1>10, AddEffect DEF Attrs, Tuples
<1>12. rels'[r].tuples[Len(rels'[r].tuples)] = v
  <2>1. Tuples(r) \in Seq(Range(Tuples(r)))
    BY <1>3, <1>9 DEF Listed, Tuples
  <2>2. Len(Append(Tuples(r), v)) = Len(Tuples(r)) + 1 /\ Append(Tuples(r), v)[Len(Tuples(r)) + 1] = v
    BY <2>1, GrownList
  <2> QED BY <1>11, <2>2
<1>13. /\ Place(a, t.attrs[i]) \in DOMAIN a /\ d = a[Place(a, t.attrs[i])] /\ d.name = t.attrs[i]
  <2>1. d = AttrOf(a, t.attrs[i])
    BY <1>11
  <2>2. /\ Place(a, t.attrs[i]) \in DOMAIN a
        /\ AttrOf(a, t.attrs[i]) = a[Place(a, t.attrs[i])] /\ AttrOf(a, t.attrs[i]).name = t.attrs[i]
    BY <1>8, PlaceFacts
  <2> QED BY <2>1, <2>2
<1>14. PICK p \in DOMAIN a : p = Place(a, t.attrs[i])
  BY <1>13
<1>15. DOMAIN a = 1 .. Len(a) /\ Len(a) \in Nat
  BY <1>9, ListLength DEF AttrList
<1>16. v[p] \in Inserted(t, p)
  BY <1>10, <1>14, <1>15, InsertedFacts
<1>17. Inserted(t, p) = Stored(d, t.lits[i])
  <2> DEFINE places == {j \in DOMAIN t.attrs : t.attrs[j] = a[p].name}
  <2>1. i \in places /\ \A j \in places : j <= i /\ j \in Nat /\ i \in Nat
    <3>1. i \in places /\ \A j \in places : j \in 1 .. Len(t.attrs) /\ ~(j > i)
      BY <1>6, <1>13, <1>14
    <3> QED BY <1>6, <3>1, NotBehind
  <2>2. Inserted(t, p) = IF places = {} THEN Unset(a[p]) ELSE Stored(a[p], t.lits[Max(places)])
    BY DEF Inserted
  <2> HIDE DEF places
  <2>3. Max(places) = i
    <3>1. \E m \in places : \A j \in places : m >= j
      BY <2>1
    <3>2. Max(places) \in places /\ \A j \in places : Max(places) >= j
      BY <3>1 DEF Max
    <3> QED BY <2>1, <3>2, TheGreatest
  <2> QED BY <1>13, <1>14, <2>1, <2>2, <2>3
<1>18. Field(rels'[r], v, d.name) = v[p]
  BY <1>11, <1>13, <1>14 DEF Field, ValueOf
<1>19. d.type \in Types /\ d.len \in Nat
  BY <1>9, <1>13 DEF AttrList
<1>20. t.lits[i] \in Literals
  BY <1>4, <1>5, <1>6, ListElement
<1>21. MatchRec(d, v[p], "EQ", Filter(d.type, t.lits[i]))
  BY <1>16, <1>17, <1>19, <1>20, StoredMatches
<1> QED BY <1>12, <1>18, <1>21

\* The kind of the tree is the kind of what was typed.
LEMMA KindOfTree ==
  ASSUME SessionInv, pc \in Live
  PROVE  typed \in Commands /\ parse_tree = Tree(typed) /\ parse_tree # Null /\ typed.kind = parse_tree.kind
<1>1. typed \in Commands /\ parse_tree = Tree(typed) /\ parse_tree # Null
  BY DEF SessionInv, InCommand
<1> QED BY <1>1, TreeOfQuery, TreeOfOther

\* Which command a step belongs to; reading a command ends none.
LEMMA KindOfStep ==
  ASSUME SessionInv, [Next]_vars
  PROVE  /\ Query \/ Select \/ Outer \/ Inner \/ Finish => typed.kind = "query"
         /\ Insert => typed.kind = "insert"
         /\ BeginDelete \/ Delete => typed.kind = "delete"
         /\ Create => typed.kind = "create"
         /\ Destroy => typed.kind = "destroy"
         /\ Load => typed.kind = "load"
         /\ Show => typed.kind = "print"
         /\ Help => typed.kind = "help"
         /\ \A c \in Commands : Type(c) => ~(pc' = "prompt" /\ Tree(typed') # Null)
         /\ Step => typed' = typed /\ before' = before
<1>1. Query \/ Insert \/ BeginDelete \/ Create \/ Destroy \/ Load \/ Show \/ Help => pc \in Live
  BY DEF Query, Insert, BeginDelete, Create, Destroy, Load, Show, Help, Live
<1>2. Select \/ Outer \/ Inner \/ Finish \/ Delete => pc \in Live
  BY DEF Select, Outer, Inner, Finish, Delete, Live, Looping
<1>3. Select \/ Outer \/ Inner \/ Finish => typed.kind = "query"
  BY DEF Select, Outer, Inner, Finish, Looping, SessionInv, InCommand
<1>4. Delete => typed.kind = "delete"
  BY DEF Delete, SessionInv, InCommand
<1>5. Query => typed.kind = "query"
  BY <1>1, KindOfTree, ZenonT(30) DEF Query
<1>6. /\ Insert => typed.kind = "insert"
      /\ BeginDelete => typed.kind = "delete"
      /\ Create => typed.kind = "create"
      /\ Destroy => typed.kind = "destroy"
      /\ Load => typed.kind = "load"
      /\ Show => typed.kind = "print"
      /\ Help => typed.kind = "help"
  <2>1. /\ Insert => parse_tree.kind = "insert"
        /\ BeginDelete => parse_tree.kind = "delete"
        /\ Create => parse_tree.kind = "create"
        /\ Destroy => parse_tree.kind = "destroy"
    BY DEF Insert, BeginDelete, Create, Destroy
  <2>2. /\ Load => parse_tree.kind = "load"
        /\ Show => parse_tree.kind = "print"
        /\ Help => parse_tree.kind = "help"
    BY DEF Load, Show, Help
  <2> QED BY <1>1, <2>1, <2>2, KindOfTree
<1>7. \A c \in Commands : Type(c) => ~(pc' = "prompt" /\ Tree(typed') # Null)
  BY DEF Type, ParseTree
<1>8. Step => typed' = typed /\ before' = before
  <2>1. Query \/ Abort \/ Select \/ Outer \/ Inner \/ Finish => typed' = typed /\ before' = before
    BY DEF Query, Abort, Select, Outer, Inner, Finish, db
  <2>2. Insert \/ BeginDelete \/ Delete \/ Create => typed' = typed /\ before' = before
    BY DEF Insert, BeginDelete, Delete, Create, db
  <2>3. Destroy \/ Load \/ Show \/ Help => typed' = typed /\ before' = before
    BY DEF Destroy, Load, Show, Help, db
  <2> QED BY <2>1, <2>2, <2>3 DEF Step
<1> QED BY <1>3, <1>4, <1>5, <1>6, <1>7, <1>8, ZenonT(30)

\* What was inserted can be read when the prompt is back.
LEMMA ReadableStep == SessionInv /\ ListInv /\ InsertReadable /\ [Next]_vars => InsertReadable'
<1> SUFFICES ASSUME SessionInv, ListInv, InsertReadable, [Next]_vars PROVE InsertReadable'
  OBVIOUS
<1>1. CASE UNCHANGED vars
  BY <1>1 DEF InsertReadable, Done, vars, db, Field
<1>2. CASE Insert
  BY <1>2, InsertIsReadable, ZenonT(30)
<1>3. CASE \E c \in Commands : Type(c)
  BY <1>3, KindOfStep, ZenonT(30) DEF InsertReadable, Done
<1>4. CASE Step /\ ~Insert
  <2>1. Abort => pc' = "aborted"
    BY DEF Abort
  <2>2. pc' # "prompt" \/ typed'.kind # "insert"
    BY <1>4, <2>1, KindOfStep DEF Step
  <2> QED BY <2>2 DEF InsertReadable, Done
<1> QED BY <1>1, <1>2, <1>3, <1>4 DEF Next

\* The invariants of a session, together.
LEMMA SessionInvariants == Spec => [](SessionInv /\ ListInv)
<1>1. Init => SessionInv /\ ListInv
  BY InitKeeps, ListedAtFirst
<1>2. SessionInv /\ ListInv /\ [Next]_vars => SessionInv' /\ ListInv'
  BY NextKeeps, ListedStep
<1> QED BY <1>1, <1>2, PTL DEF Spec

\* After every insert that was accepted, whatever the order of its values, the
\* length of its strings and the contents of uninitialised memory, a scan finds
\* the tuple by each value it was given (mk_ins_attrs, QU_Insert, matchRec).
THEOREM InsertsAreFound == Spec => []InsertReadable
<1>1. Init => InsertReadable
  <2>1. Init => ~Done("insert")
    BY SMT DEF Init, Done
  <2> QED BY <2>1, ZenonT(30) DEF InsertReadable
<1> QED BY <1>1, ReadableStep, SessionInvariants, PTL DEF Spec
=============================================================================
