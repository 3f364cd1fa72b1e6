--------------------------- MODULE HeapCallProofs ---------------------------
(***************************************************************************)
(* What one call on a heap file does, for any number of objects of each    *)
(* class, any records and any size of page, pool and file: it keeps        *)
(* HeapInv, which is about the file and the positions of the objects, it   *)
(* moves no record, it leaves no change behind of which the buffer pool    *)
(* will not be told, and no scan goes back to what it has returned.        *)
(***************************************************************************)
EXTENDS HeapFile, TLAPS

\* Every nonempty set of natural numbers has a least element.  The lemmas of this
\* module have that as a hypothesis, or as a part of FileOK; HeapFileProofs, which
\* needs the library on finite sets and with it the one on well-founded orders,
\* proves it and from these lemmas the theorems.
LeastNumbers == \A T \in SUBSET Nat : T # {} => \E x \in T : \A y \in T : x <= y

\* It, for one set.
LEMMA LeastNat ==
  ASSUME LeastNumbers, NEW T, T \subseteq Nat, T # {}
  PROVE  \E x \in T : \A y \in T : x <= y
BY Zenon DEF LeastNumbers

\* A nonempty set of natural numbers up to n has a greatest element.
LEMMA GreatestNat ==
  ASSUME LeastNumbers, NEW n \in Nat, NEW w, w \subseteq 0 .. n, w # {}
  PROVE  \E x \in w : \A y \in w : y <= x
<1> DEFINE T == {j \in 0 .. n : (n - j) \in w}
<1>1. T \subseteq Nat
  OBVIOUS
<1>2. T # {}
  <2>1. PICK i \in w : TRUE
    BY Zenon
  <2>2. n - i \in T
    OBVIOUS
  <2> QED BY <2>2, Zenon
<1> HIDE DEF T
<1>3. PICK t \in T : \A y \in T : t <= y
  BY <1>1, <1>2, LeastNat, Zenon
<1>4. t \in 0 .. n /\ n - t \in w
  BY DEF T
<1>5. ASSUME NEW y \in w PROVE y <= n - t
  <2>1. y \in 0 .. n /\ n - y \in T
    BY DEF T
  <2> QED BY <2>1, <1>3, <1>4
<1> QED BY <1>4, <1>5

-----------------------------------------------------------------------------
(* The pages a scan walks over.                                            *)

\* Links lead forward: a new page has the highest number of the file.
LinksForward ==
  /\ size \in 2 .. MaxPages
  /\ next \in [PageNos -> {-1} \cup (2 .. size)]
  /\ \A p \in PageNos : next[p] = -1 \/ p < next[p]

\* w is the walk from page c over n links.
IsWalk(w, c, n) ==
  w = [k \in 0 .. n |->
         IF k = 0 THEN c ELSE IF w[k - 1] = -1 THEN -1 ELSE next[w[k - 1]]]

\* The recursion of Walk has a solution.
LEMMA WalkExists ==
  ASSUME LeastNumbers, NEW c, NEW n \in Nat
  PROVE  \E w : IsWalk(w, c, n)
<1> USE DEF IsWalk
<1> DEFINE T == {m \in Nat : ~\E w : IsWalk(w, c, m)}
<1>1. SUFFICES T = {}
  BY Zenon
<1>2. SUFFICES ASSUME T # {} PROVE FALSE
  OBVIOUS
<1>3. PICK m \in T : \A y \in T : m <= y
  BY <1>2, LeastNat, Zenon
<1>m. m \in Nat
  OBVIOUS
<1>4. CASE m = 0
  <2>1. IsWalk([k \in 0 .. 0 |-> c], c, 0)
    OBVIOUS
  <2> QED BY <1>3, <1>4, <2>1, Zenon
<1>5. CASE m # 0
  <2>1. m - 1 \in Nat /\ m - 1 \notin T
    <3> HIDE DEF T
    <3> QED BY <1>m, <1>3, <1>5
  <2>2. PICK v : IsWalk(v, c, m - 1)
    BY <2>1
  <2> DEFINE w == [k \in 0 .. m |->
                     IF k = m THEN IF v[k - 1] = -1 THEN -1 ELSE next[v[k - 1]] ELSE v[k]]
  <2>3. ASSUME NEW k \in 0 .. m
        PROVE  w[k] = IF k = 0 THEN c ELSE IF w[k - 1] = -1 THEN -1 ELSE next[w[k - 1]]
    <3>1. CASE k = m
      BY <1>5, <3>1, <2>1
    <3>2. CASE k # m
      <4>1. k \in 0 .. (m - 1) /\ w[k] = v[k] /\ (k # 0 => w[k - 1] = v[k - 1])
        BY <3>2, <2>1, SMTT(30)
      <4>2. v[k] = IF k = 0 THEN c ELSE IF v[k - 1] = -1 THEN -1 ELSE next[v[k - 1]]
        BY <2>2, <4>1
      <4> QED BY <4>1, <4>2
    <3> QED BY <3>1, <3>2
  <2>4. w = [k \in 0 .. m |-> w[k]]
    OBVIOUS
  <2> HIDE DEF w
  <2>5. IsWalk(w, c, m)
    BY <2>3, <2>4, Zenon
  <2> QED BY <1>3, <2>5
<1> QED BY <1>4, <1>5

\* So Walk follows the links.
LEMMA WalkSteps ==
  ASSUME LeastNumbers, NEW c
  PROVE  /\ Walk(c)[0] = c
         /\ \A k \in 1 .. MaxPages :
              Walk(c)[k] = IF Walk(c)[k - 1] = -1 THEN -1 ELSE next[Walk(c)[k - 1]]
<1>0. MaxPages \in Nat
  BY SizesAssumption
<1>1. \E w : IsWalk(w, c, MaxPages)
  BY <1>0, WalkExists
<1>2. Walk(c) = CHOOSE w : IsWalk(w, c, MaxPages)
  BY DEF Walk, IsWalk
<1>3. IsWalk(Walk(c), c, MaxPages)
  BY <1>1, <1>2
<1> QED BY <1>0, <1>3 DEF IsWalk

\* The walk climbs, at least one page number per link, and stays in the file.
LEMMA WalkClimbs ==
  ASSUME LeastNumbers, LinksForward, NEW c \in 2 .. size
  PROVE  \A k \in 0 .. MaxPages : Walk(c)[k] = -1 \/ Walk(c)[k] \in (c + k) .. size
<1> DEFINE Good(k) == Walk(c)[k] = -1 \/ Walk(c)[k] \in (c + k) .. size
           T == {k \in 0 .. MaxPages : ~Good(k)}
<1>0. MaxPages \in Nat /\ size \in 2 .. MaxPages
  BY SizesAssumption DEF LinksForward
<1>1. SUFFICES ASSUME T # {} PROVE FALSE
  OBVIOUS
<1>2. T \subseteq Nat
  OBVIOUS
<1>3. PICK k \in T : \A y \in T : k <= y
  BY <1>1, <1>2, LeastNat, Zenon
<1>4. k \in 0 .. MaxPages /\ ~Good(k)
  OBVIOUS
<1>5. k # 0
  BY <1>0, <1>4, WalkSteps
<1>6. k - 1 \in 0 .. MaxPages /\ k - 1 \notin T
  <2> HIDE DEF T
  <2> QED BY <1>0, <1>3, <1>4, <1>5
<1>7. Good(k - 1)
  BY <1>6
<1>8. Walk(c)[k] = IF Walk(c)[k - 1] = -1 THEN -1 ELSE next[Walk(c)[k - 1]]
  BY <1>0, <1>4, <1>5, WalkSteps
<1>9. CASE Walk(c)[k - 1] = -1
  BY <1>4, <1>8, <1>9
<1>10. CASE Walk(c)[k - 1] # -1
  <2>1. Walk(c)[k - 1] \in (c + (k - 1)) .. size
    BY <1>7, <1>10
  <2>2. Walk(c)[k - 1] \in PageNos /\ Walk(c)[k] = next[Walk(c)[k - 1]]
    BY <1>0, <1>4, <1>5, <1>8, <1>10, <2>1 DEF PageNos
  <2> HIDE DEF T
  <2> QED BY <1>0, <1>4, <1>5, <2>1, <2>2 DEF LinksForward
<1> QED BY <1>9, <1>10

\* Later pages of the walk have higher numbers, and it ends.
LEMMA WalkOrder ==
  ASSUME LeastNumbers, LinksForward, NEW c \in 2 .. size
  PROVE  /\ \A k \in 0 .. MaxPages : \A j \in 0 .. (k - 1) :
              Walk(c)[k] # -1 => Walk(c)[j] # -1 /\ Walk(c)[j] < Walk(c)[k]
         /\ Walk(c)[MaxPages] = -1
<1>0. MaxPages \in Nat /\ size \in 2 .. MaxPages
  BY SizesAssumption DEF LinksForward
<1>1. Walk(c)[MaxPages] = -1
  BY <1>0, WalkClimbs
<1>2. ASSUME NEW j \in 0 .. MaxPages
      PROVE  \A k \in (j + 1) .. MaxPages :
               Walk(c)[k] # -1 => Walk(c)[j] # -1 /\ Walk(c)[j] < Walk(c)[k]
  <2> DEFINE Good(k) == Walk(c)[k] # -1 => Walk(c)[j] # -1 /\ Walk(c)[j] < Walk(c)[k]
             T == {k \in (j + 1) .. MaxPages : ~Good(k)}
  <2>1. SUFFICES ASSUME T # {} PROVE FALSE
    OBVIOUS
  <2>2. T \subseteq Nat
    OBVIOUS
  <2>3. PICK k \in T : \A y \in T : k <= y
    BY <2>1, <2>2, LeastNat, Zenon
  <2>4. k \in (j + 1) .. MaxPages /\ ~Good(k)
    OBVIOUS
  <2>5. Walk(c)[k] = IF Walk(c)[k - 1] = -1 THEN -1 ELSE next[Walk(c)[k - 1]]
    BY <1>0, <2>4, WalkSteps
  <2>6. Walk(c)[k - 1] # -1 /\ Walk(c)[k] = next[Walk(c)[k - 1]] /\ Walk(c)[k] # -1
    BY <2>4, <2>5
  <2>7. Walk(c)[k - 1] \in 2 .. size
    <3>1. k - 1 \in 0 .. MaxPages
      BY <1>0, <2>4
    <3> QED BY <1>0, <2>6, <3>1, WalkClimbs
  <2>8. Walk(c)[k - 1] < Walk(c)[k] /\ Walk(c)[k] \in 2 .. size
    BY <1>0, <2>6, <2>7 DEF LinksForward, PageNos
  <2>9. k - 1 # j /\ Good(k - 1) => FALSE
    <3> HIDE DEF T
    <3>1. j \in 0 .. MaxPages /\ Walk(c)[j] # -1 => Walk(c)[j] \in 2 .. size
      BY <1>0, WalkClimbs
    <3> QED BY <2>4, <2>6, <2>7, <2>8, <3>1
  <2>10. k - 1 # j => k - 1 \in (j + 1) .. MaxPages /\ k - 1 \notin T
    <3> HIDE DEF T
    <3> QED BY <1>0, <2>3, <2>4
  <2>11. CASE k - 1 = j
    BY <2>4, <2>6, <2>8, <2>11
  <2> QED BY <2>9, <2>10, <2>11
<1>3. ASSUME NEW k \in 0 .. MaxPages, NEW j \in 0 .. (k - 1)
      PROVE  j \in 0 .. MaxPages /\ k \in (j + 1) .. MaxPages
  BY <1>0
<1> QED BY <1>1, <1>2, <1>3

\* A call of scanNext ends, on a page of the file, and on the first one it can.
LEMMA ScanEnds ==
  ASSUME LeastNumbers, LinksForward, NEW pn, NEW c \in 2 .. size, NEW s
  PROVE  /\ Ending(pn, c, s) \in 0 .. (MaxPages - 1)
         /\ EndsAt(pn, c, s, Ending(pn, c, s))
         /\ \A j \in 0 .. (Ending(pn, c, s) - 1) : ~EndsAt(pn, c, s, j)
         /\ Walk(c)[Ending(pn, c, s)] \in c .. size
<1> DEFINE T == {k \in 0 .. (MaxPages - 1) : EndsAt(pn, c, s, k)}
           e == Ending(pn, c, s)
<1>0. MaxPages \in Nat /\ MaxPages - 1 \in Nat /\ size \in 2 .. MaxPages
  BY SizesAssumption DEF LinksForward
<1>1. MaxPages - 1 \in T
  BY <1>0, WalkOrder DEF EndsAt
<1>2. T \subseteq Nat
  OBVIOUS
<1>3. PICK k \in T : \A y \in T : k <= y
  BY <1>1, <1>2, LeastNat, Zenon
<1>4. k \in 0 .. (MaxPages - 1) /\ EndsAt(pn, c, s, k)
  OBVIOUS
<1>5. ASSUME NEW j \in 0 .. (k - 1) PROVE ~EndsAt(pn, c, s, j)
  <2>1. j \in 0 .. (MaxPages - 1) /\ ~(k <= j)
    BY <1>0, <1>4
  <2>2. j \notin T
    <3> HIDE DEF T
    <3> QED BY <1>3, <2>1
  <2> QED BY <2>1, <2>2
<1>6. /\ e \in 0 .. (MaxPages - 1)
      /\ EndsAt(pn, c, s, e) /\ \A j \in 0 .. (e - 1) : ~EndsAt(pn, c, s, j)
  BY <1>4, <1>5 DEF Ending
<1> HIDE DEF e, T
<1>7. Walk(c)[e] # -1
  <2>1. CASE e = 0
    BY <2>1, WalkSteps
  <2>2. CASE e # 0
    <3>1. e - 1 \in 0 .. (e - 1) /\ (e - 1) + 1 = e
      BY <1>6, <2>2
    <3> QED BY <1>6, <3>1 DEF EndsAt
  <2> QED BY <2>1, <2>2
<1>8. Walk(c)[e] \in c .. size
  BY <1>0, <1>6, <1>7, WalkClimbs
<1> QED BY <1>6, <1>8 DEF e

-----------------------------------------------------------------------------
(* Slots, and the places of records.                                       *)

\* Record r is in slot i of page p.
Holds(p, i, r) == p \in 2 .. size /\ i \in Occupied(p) /\ slots[p][i] = r

\* The slots of a page are empty or hold records, and only pages that the file has
\* hold any.
SlotsOK ==
  /\ slots \in [PageNos -> Seq(Records \cup {NoRecord})]
  /\ \A p \in PageNos \ (2 .. size) : slots[p] = <<>>

\* A slot in use is a positive number and holds a record.
LEMMA OccupiedFacts ==
  ASSUME SlotsOK, NEW p \in PageNos
  PROVE  /\ slots[p] \in Seq(Records \cup {NoRecord})
         /\ Len(slots[p]) \in Nat /\ DOMAIN slots[p] = 1 .. Len(slots[p])
         /\ Occupied(p) \subseteq 1 .. Len(slots[p])
         /\ \A i \in Occupied(p) : slots[p][i] \in Records
BY DEF SlotsOK, Occupied

\* The records of the file are those in its slots.
LEMMA RecordsInPlaces ==
  \A r : r \in FileRecords <=> \E p, i : Holds(p, i, r)
BY DEF FileRecords, Holds

\* Page::insertRecord fills one slot that was not in use.
LEMMA SlotsWithFacts ==
  ASSUME LeastNumbers, SlotsOK, NEW p \in PageNos, NEW r \in Records
  PROVE  \E i \in Nat \ {0} :
           LET new == SlotsWith(p, r)
           IN  /\ i \notin Occupied(p)
               /\ new \in Seq(Records \cup {NoRecord})
               /\ {j \in DOMAIN new : new[j] # NoRecord} = Occupied(p) \cup {i}
               /\ new[i] = r
               /\ \A j \in Occupied(p) : new[j] = slots[p][j]
<1> DEFINE empty == DOMAIN slots[p] \ Occupied(p)
           old == slots[p]
<1>1. /\ old \in Seq(Records \cup {NoRecord}) /\ Len(old) \in Nat
      /\ DOMAIN old = 1 .. Len(old) /\ Occupied(p) \subseteq 1 .. Len(old)
      /\ Occupied(p) = {j \in 1 .. Len(old) : old[j] # NoRecord}
  BY OccupiedFacts DEF Occupied
<1>2. r # NoRecord
  BY RecordsAssumption
<1>3. CASE empty = {}
  <2>1. SlotsWith(p, r) = Append(old, r)
    BY <1>3 DEF SlotsWith
  <2>2. /\ Append(old, r) \in Seq(Records \cup {NoRecord})
        /\ DOMAIN Append(old, r) = 1 .. (Len(old) + 1)
        /\ Append(old, r)[Len(old) + 1] = r
        /\ \A j \in 1 .. Len(old) : Append(old, r)[j] = old[j]
    BY <1>1
  <2> HIDE DEF old
  <2>3. {j \in 1 .. (Len(old) + 1) : Append(old, r)[j] # NoRecord} = Occupied(p) \cup {Len(old) + 1}
    BY <1>1, <1>2, <2>2
  <2>4. Len(old) + 1 \in Nat \ {0} /\ Len(old) + 1 \notin Occupied(p)
    BY <1>1
  <2>5. \A j \in Occupied(p) : Append(old, r)[j] = old[j]
    BY <1>1, <2>2
  <2> QED BY <2>1, <2>2, <2>3, <2>4, <2>5 DEF old
<1>4. CASE empty # {}
  <2> DEFINE i == Min(empty)
  <2>1. SlotsWith(p, r) = [old EXCEPT ![i] = r]
    BY <1>4 DEF SlotsWith
  <2>2. i \in empty
    <3>1. empty \subseteq Nat
      BY <1>1
    <3>2. PICK x \in empty : \A y \in empty : x <= y
      BY <1>4, <3>1, LeastNat, Zenon
    <3> QED BY <3>1, <3>2 DEF Min
  <2>3. i \in 1 .. Len(old) /\ i \notin Occupied(p)
    BY <1>1, <2>2
  <2> HIDE DEF i, old
  <2> DEFINE new == [old EXCEPT ![i] = r]
  <2>4. /\ new \in Seq(Records \cup {NoRecord}) /\ DOMAIN new = 1 .. Len(old)
        /\ new[i] = r /\ \A j \in 1 .. Len(old) : j # i => new[j] = old[j]
    BY <1>1, <2>3
  <2> HIDE DEF new
  <2>5. {j \in DOMAIN new : new[j] # NoRecord} = Occupied(p) \cup {i}
    BY <1>1, <1>2, <2>3, <2>4
  <2>6. \A j \in Occupied(p) : new[j] = old[j]
    BY <1>1, <2>3, <2>4
  <2>7. i \in Nat \ {0}
    BY <1>1, <2>3
  <2>8. SlotsWith(p, r) = new
    BY <2>1 DEF new
  <2> QED BY <2>3, <2>4, <2>5, <2>6, <2>7, <2>8 DEF old
<1> QED BY <1>3, <1>4

\* Page::deleteRecord empties one slot, wherever the slot array is cut.
LEMMA SlotsWithoutFacts ==
  ASSUME LeastNumbers, SlotsOK, NEW p \in PageNos, NEW s \in Int, s + 1 \in Occupied(p)
  PROVE  LET new == SlotsWithout(p, s)
         IN  /\ new \in Seq(Records \cup {NoRecord})
             /\ {j \in DOMAIN new : new[j] # NoRecord} = Occupied(p) \ {s + 1}
             /\ \A j \in Occupied(p) \ {s + 1} : new[j] = slots[p][j]
<1> DEFINE old == slots[p]
           e == [old EXCEPT ![s + 1] = NoRecord]
           left == (Occupied(p) \ {s + 1}) \cup {0}
           m == Max(left)
<1>1. /\ old \in Seq(Records \cup {NoRecord}) /\ Len(old) \in Nat
      /\ DOMAIN old = 1 .. Len(old) /\ Occupied(p) \subseteq 1 .. Len(old)
      /\ Occupied(p) = {j \in 1 .. Len(old) : old[j] # NoRecord}
  BY OccupiedFacts DEF Occupied
<1>2. m \in left /\ \A y \in left : y <= m
  <2>1. left \subseteq 0 .. Len(old) /\ left # {} /\ Len(old) \in Nat
    BY <1>1
  <2>2. PICK x \in left : \A y \in left : y <= x
    BY <2>1, GreatestNat, Zenon
  <2>3. \A z, y \in left : y <= z <=> z >= y
    BY <2>1
  <2> QED BY <2>2, <2>3, Zenon DEF Max
<1>3. m \in 0 .. Len(old)
  BY <1>1, <1>2
<1>4. SlotsWithout(p, s) = SubSeq(e, 1, m)
  BY DEF SlotsWithout
<1> HIDE DEF m, old
<1>5. /\ e \in Seq(Records \cup {NoRecord}) /\ Len(e) = Len(old) /\ e[s + 1] = NoRecord
      /\ \A j \in 1 .. Len(old) : j # s + 1 => e[j] = old[j]
  BY <1>1
<1> HIDE DEF e
<1> DEFINE new == SubSeq(e, 1, m)
<1>6. /\ new \in Seq(Records \cup {NoRecord}) /\ DOMAIN new = 1 .. m
      /\ \A j \in 1 .. m : new[j] = e[j]
  BY <1>1, <1>3, <1>5
<1> HIDE DEF new
<1>7. ASSUME NEW j
      PROVE  j \in DOMAIN new /\ new[j] # NoRecord <=> j \in Occupied(p) \ {s + 1}
  <2>1. j \in DOMAIN new /\ new[j] # NoRecord => j \in Occupied(p) \ {s + 1}
    BY <1>1, <1>3, <1>5, <1>6
  <2>2. ASSUME j \in Occupied(p) \ {s + 1} PROVE j \in DOMAIN new /\ new[j] # NoRecord
    <3>1. j \in 1 .. m
      BY <1>1, <1>2, <1>3, <2>2
    <3> QED BY <1>1, <1>3, <1>5, <1>6, <2>2, <3>1
  <2> QED BY <2>1, <2>2
<1>8. \A j \in Occupied(p) \ {s + 1} : new[j] = old[j]
  BY <1>1, <1>3, <1>5, <1>6, <1>7
<1>9. SlotsWithout(p, s) = new
  BY <1>4 DEF new
<1> QED BY <1>6, <1>7, <1>8, <1>9 DEF old

-----------------------------------------------------------------------------
(* Types, and where the objects stand.                                     *)

FileOK ==
  /\ LeastNumbers
  /\ LinksForward
  /\ SlotsOK
  /\ hdr \in [firstPage : {2}, lastPage : 2 .. size, pageCnt : Nat, recCnt : Int]

ObjectsOK ==
  /\ pins \in [PageNos -> Nat]
  /\ touched \subseteq PageNos
  /\ open \subseteq Handles /\ curDirty \subseteq Handles /\ hdrDirty \subseteq Handles
  /\ curPage \in [Handles -> {Null} \cup (2 .. size)]
  /\ curPageNo \in [Handles -> {-1, 0} \cup (2 .. size)]
  /\ curRec \in [Handles -> Int]
  /\ due \in [Handles -> SUBSET Records]
  /\ seen \in [Handles -> SUBSET Records]
  /\ marked \in [Handles -> {<<>>} \cup ((2 .. size) \X Int \X (SUBSET Records) \X (SUBSET Records))]
  /\ out \in [Handles -> Records \cup Statuses]

\* An object that can be used has the page of its number as its current page;
\* only a scan that starts again has none, and has returned nothing yet.
Positions ==
  \A h \in open : Usable(h) =>
    \/ curPage[h] = curPageNo[h] /\ curPage[h] # Null
    \/ /\ h \in Rescanners /\ curPage[h] = Null /\ curPageNo[h] \in {-1, 0}
       /\ seen[h] = {} /\ out[h] \notin Records

HeapInv == FileOK /\ ObjectsOK /\ Positions

\* The place of an object that can be used.
LEMMA PositionOf ==
  ASSUME HeapInv, NEW h \in Handles, Usable(h)
  PROVE  /\ h \in open /\ curPage[h] \in {Null} \cup (2 .. size) /\ curPageNo[h] \in {-1, 0} \cup (2 .. size)
         /\ \/ curPage[h] = curPageNo[h] /\ curPage[h] # Null
            \/ /\ h \in Rescanners /\ curPage[h] = Null /\ curPageNo[h] \in {-1, 0}
               /\ seen[h] = {} /\ out[h] \notin Records
BY Zenon DEF HeapInv, ObjectsOK, Positions, Usable

\* Numbers of data pages, and what is none.
LEMMA PageNumbers ==
  ASSUME NEW n \in Nat, NEW q \in 2 .. n
  PROVE  q # Null /\ q \notin {-1, 0} /\ q \in Int
BY DEF Null

\* The three ways in which a call of scanNext ends on page p, k links behind the
\* page c it began with: the page cannot be read, a record matches, none is left.
ScanStops(h, pn, c, s, k, p) ==
  /\ k # 0 /\ ~CanPin(pn, p)
  /\ pins' = pn
  /\ touched' = Announced(touched, c, h \in curDirty)
  /\ curPage' = [curPage EXCEPT ![h] = Null]
  /\ curPageNo' = [curPageNo EXCEPT ![h] = p]
  /\ curDirty' = curDirty \ {h}
  /\ out' = [out EXCEPT ![h] = "BUFFEREXCEEDED"]
  /\ UNCHANGED <<curRec, due, seen, repeated>>

ScanMoves(h, pn, c, s, k, p) ==
  /\ pins' = Pin(pn, p)
  /\ touched' = IF k = 0 THEN touched ELSE Announced(touched, c, h \in curDirty)
  /\ curPage' = [curPage EXCEPT ![h] = p]
  /\ curPageNo' = [curPageNo EXCEPT ![h] = p]
  /\ curDirty' = IF k = 0 /\ curPage[h] # Null THEN curDirty ELSE curDirty \ {h}

ScanFinds(h, pn, c, s, k, p) ==
  /\ ScanMoves(h, pn, c, s, k, p)
  /\ \E t \in Nat :
       /\ t \in Hits(c, s, k) /\ \A u \in Hits(c, s, k) : t <= u
       /\ t + 1 \in Occupied(p) /\ slots[p][t + 1] \in Matches
       /\ k = 0 => t > s
       /\ curRec' = [curRec EXCEPT ![h] = t]
       /\ due' = [due EXCEPT ![h] = @ \ {slots[p][t + 1]}]
       /\ seen' = [seen EXCEPT ![h] = @ \cup {slots[p][t + 1]}]
       /\ slots[p][t + 1] \in Matches \ seen[h] => repeated' = repeated
       /\ out' = [out EXCEPT ![h] = slots[p][t + 1]]

ScanRunsOut(h, pn, c, s, k, p) ==
  /\ ScanMoves(h, pn, c, s, k, p)
  /\ Hits(c, s, k) = {} /\ Walk(c)[k + 1] = -1
  /\ \E t \in Int : curRec' = [curRec EXCEPT ![h] = t] /\ (k = 0 => t >= s)
  /\ out' = [out EXCEPT ![h] = "FILEEOF"]
  /\ UNCHANGED <<due, seen, repeated>>

\* What a call visits are slots in use behind where it began.
LEMMA VisitedFacts ==
  ASSUME FileOK, NEW c \in 2 .. size, NEW s \in Int, NEW k \in 0 .. MaxPages
  PROVE  /\ Visited(c, s, k) \subseteq Nat
         /\ \E n \in Nat : Visited(c, s, k) \subseteq 0 .. n
         /\ k = 0 => \A t \in Visited(c, s, k) : t > s
         /\ \A t \in Visited(c, s, k) : Walk(c)[k] \in 2 .. size /\ t + 1 \in Occupied(Walk(c)[k])
<1> DEFINE q == Walk(c)[k]
<1>1. CASE q = -1
  BY <1>1 DEF Visited
<1>2. CASE q # -1
  <2>1. q \in 2 .. size /\ q \in PageNos
    <3>1. size \in 2 .. MaxPages /\ MaxPages \in Nat
      BY SizesAssumption DEF FileOK, LinksForward
    <3> QED BY <1>2, <3>1, WalkClimbs DEF FileOK, PageNos
  <2> HIDE DEF q
  <2>2. Len(slots[q]) \in Nat /\ Occupied(q) \subseteq 1 .. Len(slots[q])
    BY <2>1, OccupiedFacts DEF FileOK
  <2> DEFINE from == IF k = 0 THEN s ELSE -1
  <2>3. Visited(c, s, k) = {i - 1 : i \in {j \in Occupied(q) : j > from + 1}}
    BY <1>2 DEF Visited, SlotsAfter, q
  <2> HIDE DEF from
  <2>4. from \in Int /\ (k = 0 => from = s)
    BY DEF from
  <2>5. ASSUME NEW t \in Visited(c, s, k)
        PROVE  t \in Nat /\ t <= Len(slots[q]) /\ t + 1 \in Occupied(q) /\ t > from
    <3>1. PICK i \in Occupied(q) : t = i - 1 /\ i > from + 1
      BY <2>3
    <3>2. i \in 1 .. Len(slots[q])
      BY <2>2
    <3>3. t \in Nat /\ t + 1 = i /\ t > from /\ t <= Len(slots[q])
      BY <2>2, <2>4, <3>1, <3>2
    <3> QED BY <3>3
  <2>6. Visited(c, s, k) \subseteq 0 .. Len(slots[q])
    BY <2>2, <2>5
  <2> QED BY <2>1, <2>2, <2>4, <2>5, <2>6, Zenon DEF q
<1> QED BY <1>1, <1>2

\* At the end of the file curRec is behind where the call began, if that is on the
\* same page.
LEMMA LastVisitedFacts ==
  ASSUME FileOK, NEW c \in 2 .. size, NEW s \in Int, NEW n \in 0 .. MaxPages
  PROVE  LastVisited(c, s, n) \in Int /\ (n = 0 => LastVisited(c, s, n) >= s)
<1> DEFINE on == {k \in 0 .. n : Visited(c, s, k) # {}}
           m == Max(on)
<1>0. MaxPages \in Nat /\ LeastNumbers
  BY SizesAssumption DEF FileOK
<1>1. CASE on = {}
  BY <1>1 DEF LastVisited
<1>2. CASE on # {}
  <2>1. on \subseteq 0 .. n /\ n \in Nat
    BY <1>0
  <2>2. PICK x \in on : \A y \in on : y <= x
    BY <1>0, <1>2, <2>1, GreatestNat, Zenon
  <2>3. \A x1, y \in on : y <= x1 <=> x1 >= y
    BY <2>1
  <2>4. m \in on
    BY <2>2, <2>3 DEF Max
  <2>5. m \in 0 .. n /\ Visited(c, s, m) # {} /\ m \in 0 .. MaxPages /\ (n = 0 => m = 0)
    <3> HIDE DEF m
    <3>1. m \in 0 .. n /\ Visited(c, s, m) # {}
      BY <2>4
    <3> QED BY <1>0, <3>1
  <2>6. LastVisited(c, s, n) = Max(Visited(c, s, m))
    BY <1>2 DEF LastVisited
  <2> HIDE DEF m, on
  <2> DEFINE V == Visited(c, s, m)
  <2>7. PICK b \in Nat : V \subseteq 0 .. b
    BY <2>5, VisitedFacts, Zenon
  <2>8. m = 0 => \A t \in V : t > s
    BY <2>5, VisitedFacts, Zenon
  <2>9. V # {}
    BY <2>5
  <2> HIDE DEF V
  <2>10. PICK z \in V : \A y \in V : y <= z
    BY <1>0, <2>7, <2>9, GreatestNat, Zenon
  <2>11. \A x1, y \in V : y <= x1 <=> x1 >= y
    BY <2>7
  <2>12. Max(V) \in V
    BY <2>10, <2>11 DEF Max
  <2>13. Max(V) \in Int
    <3>1. \A x1 \in V : x1 \in Int
      BY <2>7
    <3> QED BY <2>12, <3>1
  <2> QED BY <2>5, <2>6, <2>8, <2>12, <2>13 DEF V
<1> QED BY <1>1, <1>2

\* Each call of scanNext that looks at a page ends in one of the three ways, and
\* no page before the last one had a match.
LEMMA ScanOutcome ==
  ASSUME FileOK, NEW h, NEW pn, NEW c \in 2 .. size, NEW s \in Int, ScanFrom(h, pn, c, s)
  PROVE  \E k \in 0 .. (MaxPages - 1), p \in c .. size :
           /\ p = Walk(c)[k] /\ (k = 0 => p = c) /\ (k # 0 => c < p)
           /\ \A j \in 0 .. (k - 1) : Hits(c, s, j) = {}
           /\ \/ ScanStops(h, pn, c, s, k, p)
              \/ ScanFinds(h, pn, c, s, k, p)
              \/ ScanRunsOut(h, pn, c, s, k, p)
<1> DEFINE k == Ending(pn, c, s)
           p == Walk(c)[k]
           H == Hits(c, s, k)
<1>0. /\ MaxPages \in Nat /\ MaxPages >= 2 /\ size \in 2 .. MaxPages
      /\ LinksForward /\ LeastNumbers
  BY SizesAssumption DEF FileOK, LinksForward
<1>1. /\ k \in 0 .. (MaxPages - 1) /\ EndsAt(pn, c, s, k)
      /\ \A j \in 0 .. (k - 1) : ~EndsAt(pn, c, s, j)
      /\ p \in c .. size
  BY <1>0, ScanEnds
<1>2. (k = 0 => p = c) /\ (k # 0 => c < p)
  <2>1. k = 0 => p = c
    BY <1>0, WalkSteps
  <2>2. k # 0 => c < p
    <3> SUFFICES ASSUME k # 0 PROVE c < p
      OBVIOUS
    <3>1. p # -1 /\ k \in 0 .. MaxPages /\ 0 \in 0 .. (k - 1)
      BY <1>0, <1>1
    <3>2. Walk(c)[0] < p
      BY <1>0, <3>1, WalkOrder
    <3> QED BY <1>0, <3>2, WalkSteps
  <2> QED BY <2>1, <2>2
<1>3. \A j \in 0 .. (k - 1) : Hits(c, s, j) = {}
  BY <1>1 DEF EndsAt
<1>4. CASE Blocked(pn, c, k)
  <2>1. k # 0 /\ ~CanPin(pn, p)
    BY <1>4, SMTT(30) DEF Blocked
  <2>2. ScanStops(h, pn, c, s, k, p)
    BY <1>4, <2>1, Zenon DEF ScanFrom, ScanStops
  <2> HIDE DEF k, p
  <2> QED BY <1>1, <1>2, <1>3, <2>2 DEF p
<1>5. CASE ~Blocked(pn, c, k)
  <2>1. ScanMoves(h, pn, c, s, k, p)
    BY <1>5 DEF ScanFrom, ScanMoves
  <2>2. CASE H # {}
    <3> DEFINE t == Min(H)
    <3>1. k \in 0 .. MaxPages
      BY <1>0, <1>1
    <3>2. H \subseteq Visited(c, s, k) /\ H \subseteq Nat
      BY <3>1, VisitedFacts, ZenonT(30) DEF Hits
    <3>3. PICK x \in H : \A y \in H : x <= y
      BY <1>0, <2>2, <3>2, LeastNat
    <3>4. t \in H /\ \A u \in H : t <= u
      BY <3>2, <3>3 DEF Min
    <3>5. /\ curRec' = [curRec EXCEPT ![h] = t]
          /\ due' = [due EXCEPT ![h] = @ \ {slots[p][t + 1]}]
          /\ seen' = [seen EXCEPT ![h] = @ \cup {slots[p][t + 1]}]
          /\ slots[p][t + 1] \in Matches \ seen[h] => repeated' = repeated
          /\ out' = [out EXCEPT ![h] = slots[p][t + 1]]
      BY <1>5, <2>2, Zenon DEF ScanFrom
    <3> HIDE DEF t
    <3>6. t \in Nat /\ t \in Visited(c, s, k) /\ slots[p][t + 1] \in Matches
      BY <3>2, <3>4, ZenonT(30) DEF Hits
    <3>7. t + 1 \in Occupied(p) /\ (k = 0 => t > s)
      BY <3>1, <3>6, VisitedFacts, Zenon
    <3> HIDE DEF k, p, H
    <3>8. ScanFinds(h, pn, c, s, k, p)
      BY <2>1, <3>4, <3>5, <3>6, <3>7, ZenonT(30) DEF ScanFinds, H
    <3> QED BY <1>1, <1>2, <1>3, <3>8 DEF p
  <2>3. CASE H = {}
    <3>1. /\ curRec' = [curRec EXCEPT ![h] = LastVisited(c, s, k)]
          /\ out' = [out EXCEPT ![h] = "FILEEOF"]
          /\ UNCHANGED <<due, seen, repeated>>
      BY <1>5, <2>3, ZenonT(30) DEF ScanFrom
    <3>2. Walk(c)[k + 1] = -1
      BY <1>1, <1>5, <2>3, Zenon DEF EndsAt
    <3>3. k \in 0 .. MaxPages
      BY <1>0, <1>1
    <3>4. LastVisited(c, s, k) \in Int /\ (k = 0 => LastVisited(c, s, k) >= s)
      BY <3>3, LastVisitedFacts, ZenonT(30)
    <3> HIDE DEF k, p
    <3>5. ScanRunsOut(h, pn, c, s, k, p)
      BY <2>1, <2>3, <3>1, <3>2, <3>4, Zenon DEF ScanRunsOut
    <3> QED BY <1>1, <1>2, <1>3, <3>5 DEF p
  <2> QED BY <2>2, <2>3, ZenonT(30)
<1> QED BY <1>4, <1>5

-----------------------------------------------------------------------------
(* HeapInv is inductive.                                                   *)

\* What a call that leaves the file alone keeps.
LEMMA FileStays ==
  ASSUME FileOK, UNCHANGED file
  PROVE  /\ FileOK' /\ hdr' = hdr /\ next' = next /\ slots' = slots /\ size' = size
         /\ FileRecords' = FileRecords
         /\ \A p, i, r : Holds(p, i, r)' <=> Holds(p, i, r)
BY DEF file, FileOK, LinksForward, SlotsOK, FileRecords, Holds, Occupied

\* Pins are counted in natural numbers.
LEMMA PinTypes ==
  ASSUME NEW pn \in [PageNos -> Nat], NEW p \in PageNos
  PROVE  Pin(pn, p) \in [PageNos -> Nat] /\ UnPin(pn, p) \in [PageNos -> Nat]
BY DEF Pin, UnPin

\* The pages of the file, and the numbers they have.
LEMMA PageFacts ==
  ASSUME FileOK
  PROVE  /\ MaxPages \in Nat /\ size \in 2 .. MaxPages /\ size \in Nat /\ size \in Int
         /\ 2 .. size \subseteq PageNos /\ Header \in PageNos
         /\ hdr.firstPage = 2 /\ hdr.firstPage \in 2 .. size /\ hdr.lastPage \in 2 .. size
         /\ \A p \in 2 .. size : p # Null /\ p # Header /\ p # -1
BY SizesAssumption DEF FileOK, LinksForward, PageNos, Header, Null

\* An object that can be used is on a data page, or it is a scan on none.
LEMMA PlaceOf ==
  ASSUME HeapInv, NEW h \in Handles, Usable(h)
  PROVE  /\ -1 \in Int /\ -1 # 0 /\ curRec[h] \in Int
         /\ curPage[h] # Null => curPageNo[h] \in 2 .. size /\ curPageNo[h] # -1 /\ curPageNo[h] # 0
         /\ curPage[h] = Null => curPageNo[h] \in {-1, 0} /\ seen[h] = {} /\ out[h] \notin Records
         /\ curPageNo[h] \in {-1, 0} => curPage[h] = Null
<1>1. curRec[h] \in Int
  BY Zenon DEF HeapInv, ObjectsOK
<1>2. size \in Nat /\ -1 \in Int /\ -1 # 0
  BY PageFacts DEF HeapInv
<1>3. \A p \in 2 .. size : p # Null /\ p \notin {-1, 0}
  BY <1>2, PageNumbers, Zenon
<1> QED BY <1>1, <1>2, <1>3, PositionOf, ZenonT(30)

\* Leaving the current page keeps the types of the pins.
LEMMA CurTypes ==
  ASSUME HeapInv, NEW h \in Handles, Usable(h)
  PROVE  CurUnpinned(h) \in [PageNos -> Nat] /\ CurAnnounced(h) \subseteq PageNos
<1>1. curPage[h] # Null => curPageNo[h] \in PageNos
  BY PageFacts DEF HeapInv, Positions, ObjectsOK, Usable
<1>2. pins \in [PageNos -> Nat] /\ touched \subseteq PageNos
  BY DEF HeapInv, ObjectsOK
<1>3. CurUnpinned(h) \in [PageNos -> Nat]
  BY <1>1, <1>2, PinTypes DEF CurUnpinned
<1>4. CurAnnounced(h) \subseteq PageNos
  BY <1>2 DEF CurAnnounced, Announced
<1> QED BY <1>3, <1>4, Zenon

\* A constructor.
LEMMA OpenKeeps ==
  ASSUME HeapInv, NEW h \in Handles, Open(h)
  PROVE  HeapInv'
<1> DEFINE home == IF h \in Inserts THEN hdr.lastPage ELSE hdr.firstPage
<1>1. FileOK' /\ size' = size
  BY FileStays DEF HeapInv, Open
<1>2. home \in 2 .. size /\ home \in PageNos /\ home # Null /\ Header \in PageNos
  BY PageFacts, Zenon DEF HeapInv
<1>3. pins' = Pin(Pin(pins, Header), home) /\ curPage' = [curPage EXCEPT ![h] = home]
      /\ curPageNo' = [curPageNo EXCEPT ![h] = home]
  BY ZenonT(30) DEF Open
<1> HIDE DEF home
<1>4. pins' \in [PageNos -> Nat]
  BY <1>2, <1>3, PinTypes, Zenon DEF HeapInv, ObjectsOK
<1>5. FileRecords \subseteq Records
  <2>1. \A p \in 2 .. size : p \in PageNos
    BY PageFacts DEF HeapInv
  <2> QED BY <2>1, OccupiedFacts DEF FileRecords, HeapInv, FileOK
<1>6. ObjectsOK'
  <2>1. /\ curRec' = [curRec EXCEPT ![h] = -1] /\ marked' = [marked EXCEPT ![h] = <<>>]
        /\ due' = [due EXCEPT ![h] = IF h \in Scans THEN FileRecords ELSE {}]
        /\ seen' = [seen EXCEPT ![h] = {}] /\ out' = [out EXCEPT ![h] = "OK"]
        /\ open' = open \cup {h} /\ curDirty' \subseteq curDirty /\ hdrDirty' \subseteq hdrDirty
        /\ touched' = touched
    BY Zenon DEF Open
  <2>2. /\ open' \subseteq Handles /\ curDirty' \subseteq Handles /\ hdrDirty' \subseteq Handles
        /\ touched' \subseteq PageNos
    BY <2>1, Zenon DEF HeapInv, ObjectsOK
  <2>3. curPage' \in [Handles -> {Null} \cup (2 .. size')]
        /\ curPageNo' \in [Handles -> {-1, 0} \cup (2 .. size')]
    BY <1>1, <1>2, <1>3, Zenon DEF HeapInv, ObjectsOK
  <2>4. /\ curRec' \in [Handles -> Int] /\ due' \in [Handles -> SUBSET Records]
        /\ seen' \in [Handles -> SUBSET Records] /\ out' \in [Handles -> Records \cup Statuses]
    BY <1>5, <2>1, SMTT(30) DEF HeapInv, ObjectsOK, Statuses
  <2>5. marked' \in [Handles -> {<<>>} \cup ((2 .. size') \X Int \X (SUBSET Records) \X (SUBSET Records))]
    <3> DEFINE marks == (2 .. size) \X Int \X (SUBSET Records) \X (SUBSET Records)
    <3>1. marked \in [Handles -> {<<>>} \cup marks]
      BY Zenon DEF HeapInv, ObjectsOK
    <3> HIDE DEF marks
    <3>2. marked' \in [Handles -> {<<>>} \cup marks]
      BY <2>1, <3>1, Zenon
    <3> QED BY <1>1, <3>2, Zenon DEF marks
  <2> QED BY <1>4, <2>2, <2>3, <2>4, <2>5, Zenon DEF ObjectsOK
<1>7. Positions'
  BY <1>2, <1>3, SMTT(30) DEF HeapInv, ObjectsOK, Positions, Open, Usable
<1> QED BY <1>1, <1>6, <1>7, Zenon DEF HeapInv

\* A destructor.
LEMMA CloseKeeps ==
  ASSUME HeapInv, NEW h \in Handles, Close(h)
  PROVE  HeapInv'
<1>1. FileOK' /\ size' = size
  BY FileStays DEF HeapInv, Close
<1>2. Header \in PageNos /\ 2 .. size \subseteq PageNos
  BY PageFacts DEF HeapInv
<1>3. CurUnpinned(h) \in [PageNos -> Nat]
  <2>1. CASE curPageNo[h] \in PageNos
    BY <2>1, PinTypes, Zenon DEF CurUnpinned, HeapInv, ObjectsOK
  <2>2. CASE curPageNo[h] \notin PageNos
    BY <2>2, Zenon DEF CurUnpinned, UnPin, HeapInv, ObjectsOK
  <2> QED BY <2>1, <2>2
<1>4. pins' \in [PageNos -> Nat]
  BY <1>2, <1>3, PinTypes, SMTT(30) DEF Close
<1>5. touched' \subseteq PageNos
  BY DEF Close, CurAnnounced, Announced, HeapInv, ObjectsOK
<1>6. ObjectsOK'
  <2>1. -1 \in Int
    BY SMTT(30)
  <2> QED BY <1>1, <1>4, <1>5, <2>1, ZenonT(30) DEF HeapInv, ObjectsOK, Close, Statuses
<1>7. Positions'
  BY DEF HeapInv, ObjectsOK, Positions, Close, Usable
<1> QED BY <1>1, <1>6, <1>7 DEF HeapInv

\* HeapFile::getRecord.
LEMMA GetRecordKeeps ==
  ASSUME HeapInv, NEW h \in Handles, NEW p \in PageNos, NEW s \in Int, GetRecord(h, p, s)
  PROVE  HeapInv'
<1>1. FileOK' /\ size' = size
  BY FileStays DEF HeapInv, GetRecord
<1>2. p \in 2 .. size /\ p # Null
  <2>1. slots[p] # <<>>
    BY OccupiedFacts DEF GetRecord, HeapInv, FileOK, Occupied
  <2>2. p \in 2 .. size
    BY <2>1 DEF HeapInv, FileOK, SlotsOK
  <2> QED BY <2>2, PageFacts, ZenonT(30) DEF HeapInv
<1>3. Usable(h) /\ CurUnpinned(h) \in [PageNos -> Nat] /\ CurAnnounced(h) \subseteq PageNos
  BY CurTypes DEF GetRecord
<1>4. pins' \in [PageNos -> Nat] /\ touched' \subseteq PageNos
  <2>1. /\ pins' = pins \/ pins' = CurUnpinned(h) \/ pins' = Pin(CurUnpinned(h), p)
        /\ touched' = touched \/ touched' = CurAnnounced(h)
    BY ZenonT(30) DEF GetRecord, LeftPins
  <2>2. pins \in [PageNos -> Nat] /\ touched \subseteq PageNos
    BY DEF HeapInv, ObjectsOK
  <2>3. Pin(CurUnpinned(h), p) \in [PageNos -> Nat]
    BY <1>3, PinTypes
  <2> QED BY <1>3, <2>1, <2>2, <2>3, Zenon
<1>5. UNCHANGED <<open, hdrDirty, marked, due, seen>>
  BY DEF GetRecord
<1>6. CASE p = curPageNo[h]
  <2>1. /\ curRec' = [curRec EXCEPT ![h] = s] /\ out' = [out EXCEPT ![h] = "OK"]
        /\ UNCHANGED <<pins, touched, curPage, curPageNo, curDirty>>
    BY <1>6, Zenon DEF GetRecord
  <2>2. ObjectsOK'
    BY <1>1, <1>5, <2>1, Zenon DEF HeapInv, ObjectsOK, Statuses
  <2>3. curPage[h] = curPageNo[h] /\ curPage[h] # Null
    <3>1. size \in Nat
      BY PageFacts, Zenon DEF HeapInv
    <3>2. p \notin {-1, 0}
      BY <1>2, <3>1, PageNumbers, Zenon
    <3> QED BY <1>3, <1>6, <3>2, PositionOf, Zenon
  <2>4. Positions'
    BY <1>5, <2>1, <2>3, Zenon DEF HeapInv, ObjectsOK, Positions, Usable
  <2> QED BY <1>1, <2>2, <2>4 DEF HeapInv
<1>7. CASE p # curPageNo[h] /\ CanPin(LeftPins(h), p)
  <2>1. /\ curPage' = [curPage EXCEPT ![h] = p] /\ curPageNo' = [curPageNo EXCEPT ![h] = p]
        /\ curRec' = [curRec EXCEPT ![h] = s] /\ out' = [out EXCEPT ![h] = "OK"]
        /\ curDirty' = curDirty \ {h}
    BY <1>7, Zenon DEF GetRecord
  <2>2. ObjectsOK'
    BY <1>1, <1>2, <1>4, <1>5, <2>1, Zenon DEF HeapInv, ObjectsOK, Statuses
  <2>3. Positions'
    BY <1>2, <1>5, <2>1, Zenon DEF HeapInv, ObjectsOK, Positions, Usable
  <2> QED BY <1>1, <2>2, <2>3 DEF HeapInv
<1>8. CASE p # curPageNo[h] /\ ~CanPin(LeftPins(h), p)
  <2>1. /\ out' = [out EXCEPT ![h] = "BUFFEREXCEEDED"]
        /\ UNCHANGED <<curPage, curPageNo, curDirty, curRec>>
    BY <1>8, Zenon DEF GetRecord
  <2>2. ObjectsOK'
    BY <1>1, <1>4, <1>5, <2>1, Zenon DEF HeapInv, ObjectsOK, Statuses
  <2>3. Positions'
    BY <1>5, <2>1 DEF HeapInv, ObjectsOK, Positions, Usable, Failed
  <2> QED BY <1>1, <2>2, <2>3 DEF HeapInv
<1> QED BY <1>6, <1>7, <1>8, Zenon

\* scanNext, once it looks at a page.
LEMMA ScanFromKeeps ==
  ASSUME HeapInv, NEW h \in Scans, Usable(h), NEW pn \in [PageNos -> Nat],
         NEW c \in 2 .. size, NEW s \in Int, ScanFrom(h, pn, c, s),
         UNCHANGED <<file, open, hdrDirty, marked>>
  PROVE  HeapInv'
<1>0. h \in Handles
  BY DEF Handles
<1>1. FileOK /\ FileOK' /\ size' = size /\ 2 .. size \subseteq PageNos
  BY FileStays, PageFacts, Zenon DEF HeapInv
<1>2. PICK k \in 0 .. (MaxPages - 1), p \in c .. size :
        \/ ScanStops(h, pn, c, s, k, p)
        \/ ScanFinds(h, pn, c, s, k, p)
        \/ ScanRunsOut(h, pn, c, s, k, p)
  BY <1>1, ScanOutcome, Zenon
<1>3. p \in 2 .. size /\ p \in PageNos /\ p # Null
  BY <1>1, PageFacts DEF Null
<1>4. CASE ScanStops(h, pn, c, s, k, p)
  <2>1. ObjectsOK'
    BY <1>0, <1>1, <1>3, <1>4, ZenonT(30) DEF ScanStops, HeapInv, ObjectsOK, Announced, Statuses, Null
  <2>2. Positions'
    BY <1>4, ZenonT(30) DEF ScanStops, HeapInv, ObjectsOK, Positions, Usable, Failed
  <2> QED BY <1>1, <2>1, <2>2 DEF HeapInv
<1>5. ASSUME ScanMoves(h, pn, c, s, k, p)
      PROVE  /\ pins' \in [PageNos -> Nat] /\ touched' \subseteq PageNos
             /\ curDirty' \subseteq Handles
             /\ curPage' = [curPage EXCEPT ![h] = p] /\ curPageNo' = [curPageNo EXCEPT ![h] = p]
             /\ curPage' \in [Handles -> {Null} \cup (2 .. size')]
             /\ curPageNo' \in [Handles -> {-1, 0} \cup (2 .. size')]
  BY <1>0, <1>1, <1>3, <1>5, PinTypes, ZenonT(30) DEF ScanMoves, Announced, HeapInv, ObjectsOK
<1>6. CASE ScanFinds(h, pn, c, s, k, p)
  <2>0. PICK t \in Nat :
               /\ slots[p][t + 1] \in Matches
               /\ curRec' = [curRec EXCEPT ![h] = t]
               /\ due' = [due EXCEPT ![h] = @ \ {slots[p][t + 1]}]
               /\ seen' = [seen EXCEPT ![h] = @ \cup {slots[p][t + 1]}]
               /\ out' = [out EXCEPT ![h] = slots[p][t + 1]]
    BY <1>6, Zenon DEF ScanFinds
  <2>1. slots[p][t + 1] \in Records /\ ScanMoves(h, pn, c, s, k, p)
    BY <1>6, <2>0, RecordsAssumption, Zenon DEF ScanFinds
  <2> DEFINE r == slots[p][t + 1]
  <2>r. r \in Records
    BY <2>1, Zenon
  <2>t. /\ curRec' = [curRec EXCEPT ![h] = t]
        /\ due' = [due EXCEPT ![h] = @ \ {r}] /\ seen' = [seen EXCEPT ![h] = @ \cup {r}]
        /\ out' = [out EXCEPT ![h] = r]
    BY <2>0, ZenonT(30)
  <2> HIDE DEF r
  <2>2. ObjectsOK'
    <3>1. /\ curRec' \in [Handles -> Int] /\ due' \in [Handles -> SUBSET Records]
          /\ seen' \in [Handles -> SUBSET Records] /\ out' \in [Handles -> Records \cup Statuses]
      <4>1. t \in Int
        OBVIOUS
      <4> QED BY <1>0, <2>r, <2>t, <4>1, ZenonT(30) DEF HeapInv, ObjectsOK
    <3> QED BY <1>1, <1>5, <2>1, <3>1, ZenonT(30) DEF HeapInv, ObjectsOK
  <2>3. Positions'
    <3> SUFFICES ASSUME NEW g \in open', Usable(g)'
                 PROVE  \/ curPage'[g] = curPageNo'[g] /\ curPage'[g] # Null
                        \/ /\ g \in Rescanners /\ curPage'[g] = Null /\ curPageNo'[g] \in {-1, 0}
                           /\ seen'[g] = {} /\ out'[g] \notin Records
      BY Zenon DEF Positions
    <3>0. g \in open /\ g \in Handles
      BY Zenon DEF HeapInv, ObjectsOK
    <3>1. CASE g = h
      BY <1>0, <1>3, <1>5, <2>1, <3>1, ZenonT(30) DEF HeapInv, ObjectsOK
    <3>2. CASE g # h
      <4>1. /\ curPage'[g] = curPage[g] /\ curPageNo'[g] = curPageNo[g]
            /\ seen'[g] = seen[g] /\ out'[g] = out[g]
        BY <1>0, <1>5, <2>1, <2>t, <3>0, <3>2, ZenonT(30) DEF HeapInv, ObjectsOK
      <4>2. Usable(g)
        BY <4>1, Zenon DEF Usable, Failed
      <4> QED BY <3>0, <4>1, <4>2, ZenonT(30) DEF HeapInv, Positions
    <3> QED BY <3>1, <3>2, Zenon
  <2> QED BY <1>1, <2>2, <2>3 DEF HeapInv
<1>7. CASE ScanRunsOut(h, pn, c, s, k, p)
  <2>0. PICK t \in Int : curRec' = [curRec EXCEPT ![h] = t]
    BY <1>7, ZenonT(30) DEF ScanRunsOut
  <2>1. ScanMoves(h, pn, c, s, k, p) /\ out' = [out EXCEPT ![h] = "FILEEOF"] /\ UNCHANGED <<due, seen>>
    BY <1>7 DEF ScanRunsOut
  <2>2. ObjectsOK'
    BY <1>0, <1>1, <1>5, <2>0, <2>1, Zenon DEF HeapInv, ObjectsOK, Statuses
  <2>3. Positions'
    <3> SUFFICES ASSUME NEW g \in open', Usable(g)'
                 PROVE  \/ curPage'[g] = curPageNo'[g] /\ curPage'[g] # Null
                        \/ /\ g \in Rescanners /\ curPage'[g] = Null /\ curPageNo'[g] \in {-1, 0}
                           /\ seen'[g] = {} /\ out'[g] \notin Records
      BY Zenon DEF Positions
    <3>0. g \in open /\ g \in Handles
      BY Zenon DEF HeapInv, ObjectsOK
    <3>1. CASE g = h
      BY <1>0, <1>3, <1>5, <2>1, <3>1, Zenon DEF HeapInv, ObjectsOK
    <3>2. CASE g # h
      <4>1. /\ curPage'[g] = curPage[g] /\ curPageNo'[g] = curPageNo[g]
            /\ seen'[g] = seen[g] /\ out'[g] = out[g]
        BY <1>0, <1>5, <2>1, <3>0, <3>2, Zenon DEF HeapInv, ObjectsOK
      <4>2. Usable(g)
        BY <3>0, <4>1, Zenon DEF Usable
      <4> QED BY <3>0, <4>1, <4>2, Zenon DEF HeapInv, Positions
    <3> QED BY <3>1, <3>2, Zenon
  <2> QED BY <1>1, <2>2, <2>3, Zenon DEF HeapInv
<1> QED BY <1>2, <1>4, <1>6, <1>7

\* scanNext.
LEMMA ScanNextKeeps ==
  ASSUME HeapInv, NEW h \in Handles, ScanNext(h)
  PROVE  HeapInv'
<1>0. h \in Scans /\ Usable(h) /\ UNCHANGED <<file, open, hdrDirty, marked>> /\ h \in open
  BY Zenon DEF ScanNext, Usable
<1>1. FileOK' /\ size' = size /\ 2 .. size \subseteq PageNos /\ hdr.firstPage \in 2 .. size
  BY <1>0, FileStays, PageFacts, ZenonT(30) DEF HeapInv
<1>2. pins \in [PageNos -> Nat] /\ curRec[h] \in Int
  BY DEF HeapInv, ObjectsOK
<1>3. CASE curPageNo[h] = -1 /\ out' = [out EXCEPT ![h] = "FILEEOF"]
           /\ UNCHANGED <<pins, touched, curPage, curPageNo, curDirty, curRec, due, seen>>
  <2>1. ObjectsOK'
    BY <1>0, <1>1, <1>3, Zenon DEF HeapInv, ObjectsOK, Statuses
  <2>2. "FILEEOF" \notin Records
    BY RecordsAssumption, Zenon DEF Statuses
  <2>3. Positions'
    BY <1>0, <1>1, <1>3, <2>2, Zenon DEF HeapInv, ObjectsOK, Positions, Usable
  <2> QED BY <1>1, <2>1, <2>3, Zenon DEF HeapInv
<1>4. CASE curPage[h] # Null /\ ScanFrom(h, UnPin(pins, curPageNo[h]), curPageNo[h], curRec[h])
  <2>1. curPageNo[h] \in 2 .. size
    <3>1. curPage[h] \in {Null} \cup (2 .. size)
      BY Zenon DEF HeapInv, ObjectsOK
    <3>2. curPage[h] = curPageNo[h]
      BY <1>0, <1>4, Zenon DEF HeapInv, Positions
    <3> QED BY <1>4, <3>1, <3>2, Zenon
  <2>2. UnPin(pins, curPageNo[h]) \in [PageNos -> Nat]
    BY <1>1, <1>2, <2>1, PinTypes
  <2> QED BY <1>0, <1>2, <1>4, <2>1, <2>2, ScanFromKeeps, Zenon
<1>5. CASE curPageNo[h] = 0 /\ ~CanPin(pins, hdr.firstPage)
           /\ curPageNo' = [curPageNo EXCEPT ![h] = hdr.firstPage]
           /\ curRec' = [curRec EXCEPT ![h] = -1]
           /\ out' = [out EXCEPT ![h] = "BUFFEREXCEEDED"]
           /\ UNCHANGED <<pins, touched, curPage, curDirty, due, seen>>
  <2>1. ObjectsOK'
    <3>1. -1 \in Int
      OBVIOUS
    <3> QED BY <1>0, <1>1, <1>5, <3>1, ZenonT(30) DEF HeapInv, ObjectsOK, Statuses
  <2>2. Positions'
    BY <1>0, <1>1, <1>5, Zenon DEF HeapInv, ObjectsOK, Positions, Usable, Failed
  <2> QED BY <1>1, <2>1, <2>2 DEF HeapInv
<1>6. CASE ScanFrom(h, pins, hdr.firstPage, -1)
  <2>1. -1 \in Int
    OBVIOUS
  <2> QED BY <1>0, <1>1, <1>2, <1>6, <2>1, ScanFromKeeps, Zenon
<1>7. CASE curPageNo[h] = 0 /\ curPageNo' = [curPageNo EXCEPT ![h] = -1]
           /\ out' = [out EXCEPT ![h] = "FILEEOF"]
           /\ UNCHANGED <<pins, touched, curPage, curDirty, curRec, due, seen>>
  <2>1. ObjectsOK'
    BY <1>0, <1>1, <1>7, Zenon DEF HeapInv, ObjectsOK, Statuses
  <2>2. "FILEEOF" \notin Records
    BY RecordsAssumption DEF Statuses
  <2>3. Positions'
    BY <1>0, <1>1, <1>7, <2>2, ZenonT(30) DEF HeapInv, ObjectsOK, Positions, Usable, Null
  <2> QED BY <1>1, <2>1, <2>3 DEF HeapInv
<1> QED BY <1>3, <1>4, <1>5, <1>6, <1>7 DEF ScanNext

\* endScan and startScan.
LEMMA EndScanKeeps ==
  ASSUME HeapInv, NEW h \in Handles, EndScan(h)
  PROVE  HeapInv'
<1>1. FileOK' /\ size' = size
  BY FileStays, Zenon DEF HeapInv, EndScan
<1>2. pins' \in [PageNos -> Nat] /\ touched' \subseteq PageNos
  BY CurTypes, Zenon DEF EndScan
<1>3. FileRecords \subseteq Records
  <2>1. \A p \in 2 .. size : p \in PageNos
    BY PageFacts DEF HeapInv
  <2> QED BY <2>1, OccupiedFacts DEF FileRecords, HeapInv, FileOK
<1>4. ObjectsOK'
  BY <1>1, <1>2, <1>3, Zenon DEF HeapInv, ObjectsOK, EndScan, Statuses, Null
<1>5. "OK" \notin Records
  BY RecordsAssumption, Zenon DEF Statuses
<1>6. Positions'
  BY <1>1, <1>5, ZenonT(30) DEF HeapInv, ObjectsOK, Positions, EndScan, Usable, Null
<1> QED BY <1>1, <1>4, <1>6 DEF HeapInv

\* markScan.
LEMMA MarkScanKeeps ==
  ASSUME HeapInv, NEW h \in Handles, MarkScan(h)
  PROVE  HeapInv'
<1>1. FileOK' /\ size' = size
  BY FileStays, Zenon DEF HeapInv, MarkScan
<1>2. curPageNo[h] \in 2 .. size
  BY PositionOf, Zenon DEF MarkScan
<1> DEFINE m == <<curPageNo[h], curRec[h], due[h], seen[h]>>
<1>3. m \in (2 .. size) \X Int \X (SUBSET Records) \X (SUBSET Records)
  BY <1>2, Zenon DEF HeapInv, ObjectsOK
<1>4. marked' = [marked EXCEPT ![h] = m]
  BY Zenon DEF MarkScan
<1> HIDE DEF m
<1>5. ObjectsOK'
  <2>1. /\ out' = [out EXCEPT ![h] = "OK"]
        /\ UNCHANGED <<pins, touched, open, curPage, curPageNo, curDirty, hdrDirty, curRec, due, seen>>
    BY Zenon DEF MarkScan, pool
  <2>2. marked' \in [Handles -> {<<>>} \cup ((2 .. size') \X Int \X (SUBSET Records) \X (SUBSET Records))]
    BY <1>1, <1>3, <1>4, Zenon DEF HeapInv, ObjectsOK
  <2> QED BY <1>1, <2>1, <2>2, Zenon DEF HeapInv, ObjectsOK, Statuses
<1>6. Positions'
  BY Zenon DEF HeapInv, ObjectsOK, Positions, MarkScan, Usable, Failed
<1> QED BY <1>1, <1>5, <1>6 DEF HeapInv

\* resetScan.
LEMMA ResetScanKeeps ==
  ASSUME HeapInv, NEW h \in Handles, ResetScan(h)
  PROVE  HeapInv'
<1>1. FileOK' /\ size' = size
  BY FileStays, ZenonT(30) DEF HeapInv, ResetScan
<1>2. /\ marked[h][1] \in 2 .. size /\ marked[h][2] \in Int
      /\ marked[h][3] \in SUBSET Records /\ marked[h][4] \in SUBSET Records
  BY ZenonT(30) DEF ResetScan, HeapInv, ObjectsOK
<1> DEFINE p == marked[h][1]
<1>3. p \in PageNos /\ p # Null /\ p \in 2 .. size /\ p \notin {-1, 0}
  <2>1. size \in Nat /\ 2 .. size \subseteq PageNos
    BY PageFacts, Zenon DEF HeapInv
  <2> QED BY <1>2, <2>1, PageNumbers, Zenon
<1>4. Usable(h) /\ CurUnpinned(h) \in [PageNos -> Nat] /\ CurAnnounced(h) \subseteq PageNos
  BY CurTypes DEF ResetScan
<1>5. pins' \in [PageNos -> Nat] /\ touched' \subseteq PageNos /\ curDirty' \subseteq Handles
  <2>1. /\ pins' = pins \/ pins' = CurUnpinned(h) \/ pins' = Pin(CurUnpinned(h), p)
        /\ touched' = touched \/ touched' = CurAnnounced(h)
        /\ curDirty' = curDirty \/ curDirty' = curDirty \ {h}
    BY Zenon DEF ResetScan, DirtyAfterReset, pool
  <2> HIDE DEF p
  <2>2. Pin(CurUnpinned(h), p) \in [PageNos -> Nat]
    BY <1>3, <1>4, PinTypes, ZenonT(30)
  <2>3. pins \in [PageNos -> Nat] /\ touched \subseteq PageNos /\ curDirty \subseteq Handles
    BY DEF HeapInv, ObjectsOK
  <2>4. pins' \in [PageNos -> Nat]
    BY <1>4, <2>1, <2>2, <2>3, Zenon
  <2> QED BY <1>4, <2>1, <2>3, <2>4, Zenon
<1>6. /\ curPageNo' = [curPageNo EXCEPT ![h] = p] /\ curRec' = [curRec EXCEPT ![h] = marked[h][2]]
      /\ due' = [due EXCEPT ![h] = marked[h][3]] /\ seen' = [seen EXCEPT ![h] = marked[h][4]]
      /\ UNCHANGED <<open, hdrDirty, marked>>
  BY ZenonT(30) DEF ResetScan, MarkedRec
<1>7. CASE p = curPageNo[h]
  <2>1. out' = [out EXCEPT ![h] = "OK"] /\ curPage' = curPage
    BY <1>7, ZenonT(30) DEF ResetScan, pool
  <2> HIDE DEF p
  <2>2. ObjectsOK'
    BY <1>1, <1>2, <1>3, <1>5, <1>6, <2>1, Zenon DEF HeapInv, ObjectsOK, Statuses
  <2>3. curPage[h] = curPageNo[h] /\ curPage[h] # Null
    BY <1>3, <1>4, <1>7, Zenon DEF HeapInv, ObjectsOK, Positions, Usable
  <2>4. Positions'
    BY <1>3, <1>6, <1>7, <2>1, <2>3, ZenonT(30) DEF HeapInv, ObjectsOK, Positions, Usable
  <2> QED BY <1>1, <2>2, <2>4 DEF HeapInv
<1>8. CASE p # curPageNo[h] /\ CanPin(CurUnpinned(h), p)
  <2>1. out' = [out EXCEPT ![h] = "OK"] /\ curPage' = [curPage EXCEPT ![h] = p]
    BY <1>8, ZenonT(30) DEF ResetScan
  <2> HIDE DEF p
  <2>2. ObjectsOK'
    BY <1>1, <1>2, <1>3, <1>5, <1>6, <2>1, ZenonT(30) DEF HeapInv, ObjectsOK, Statuses
  <2>4. Positions'
    BY <1>3, <1>6, <2>1, ZenonT(30) DEF HeapInv, ObjectsOK, Positions, Usable
  <2> QED BY <1>1, <2>2, <2>4 DEF HeapInv
<1>9. CASE p # curPageNo[h] /\ ~CanPin(CurUnpinned(h), p)
  <2>1. out' = [out EXCEPT ![h] = "BUFFEREXCEEDED"] /\ curPage' = curPage
    BY <1>9, ZenonT(30) DEF ResetScan
  <2> HIDE DEF p
  <2>2. ObjectsOK'
    BY <1>1, <1>2, <1>3, <1>5, <1>6, <2>1, ZenonT(30) DEF HeapInv, ObjectsOK, Statuses
  <2>4. Positions'
    BY <1>3, <1>6, <2>1 DEF HeapInv, ObjectsOK, Positions, Usable, Failed
  <2> QED BY <1>1, <2>2, <2>4 DEF HeapInv
<1> QED BY <1>7, <1>8, <1>9, Zenon

\* deleteRecord takes one record out of its place and leaves the others where they
\* are.
LEMMA DeleteEffect ==
  ASSUME HeapInv, NEW h \in Handles, DeleteRecord(h)
  PROVE  /\ FileOK' /\ size' = size /\ next' = next
         /\ hdr' = [hdr EXCEPT !.recCnt = @ - 1]
         /\ curPage[h] = curPageNo[h] /\ curPageNo[h] \in 2 .. size
         /\ Holds(curPageNo[h], curRec[h] + 1, out[h])
         /\ \A q, j, x : Holds(q, j, x)' <=>
              Holds(q, j, x) /\ ~(q = curPageNo[h] /\ j = curRec[h] + 1)
<1> DEFINE p == curPageNo[h]
           s == curRec[h]
           new == SlotsWithout(p, s)
<1>1. curPage[h] = p /\ p \in 2 .. size
  BY Zenon DEF DeleteRecord, CanDelete, HeapInv, ObjectsOK, Positions, Usable
<1>2. p \in PageNos /\ s \in Int
  BY <1>1, PageFacts DEF HeapInv, ObjectsOK
<1>3. s + 1 \in Occupied(p) /\ slots[p][s + 1] = out[h]
  BY DEF DeleteRecord, CanDelete
<1>4. slots' = [slots EXCEPT ![p] = new] /\ hdr' = [hdr EXCEPT !.recCnt = @ - 1]
      /\ size' = size /\ next' = next
  BY ZenonT(30) DEF DeleteRecord
<1> HIDE DEF p, s
<1>5. /\ new \in Seq(Records \cup {NoRecord})
      /\ {j \in DOMAIN new : new[j] # NoRecord} = Occupied(p) \ {s + 1}
      /\ \A j \in Occupied(p) \ {s + 1} : new[j] = slots[p][j]
  BY <1>2, <1>3, SlotsWithoutFacts DEF HeapInv, FileOK
<1> HIDE DEF new
<1>6. FileOK'
  <2>1. LinksForward'
    BY <1>4 DEF HeapInv, FileOK, LinksForward
  <2>2. SlotsOK'
    BY <1>1, <1>4, <1>5, Zenon DEF HeapInv, FileOK, SlotsOK
  <2>3. hdr' \in [firstPage : {2}, lastPage : 2 .. size', pageCnt : Nat, recCnt : Int]
    BY <1>4 DEF HeapInv, FileOK
  <2> QED BY <1>4, <2>1, <2>2, <2>3, ZenonT(30) DEF HeapInv, FileOK
<1>7. slots'[p] = new /\ \A q \in PageNos : q # p => slots'[q] = slots[q]
  BY <1>2, <1>4 DEF HeapInv, FileOK, SlotsOK
<1>8. 2 .. size \subseteq PageNos
  BY PageFacts DEF HeapInv
<1>9. ASSUME NEW q, NEW j, NEW x
      PROVE  Holds(q, j, x)' <=> Holds(q, j, x) /\ ~(q = p /\ j = s + 1)
  <2>1. CASE q = p
    <3>1. Holds(q, j, x)' <=> j \in Occupied(p) \ {s + 1} /\ new[j] = x
      BY <1>1, <1>4, <1>5, <1>7, <2>1, Zenon DEF Holds, Occupied
    <3>2. j \in Occupied(p) \ {s + 1} => new[j] = slots[p][j]
      BY <1>5
    <3> QED BY <1>1, <2>1, <3>1, <3>2 DEF Holds
  <2>2. CASE q # p
    BY <1>4, <1>7, <1>8, <2>2, Zenon DEF Holds, Occupied
  <2> QED BY <2>1, <2>2
<1>10. Holds(p, s + 1, out[h])
  BY <1>1, <1>3, Zenon DEF Holds
<1> QED BY <1>1, <1>4, <1>6, <1>9, <1>10 DEF p, s

\* deleteRecord.
LEMMA DeleteRecordKeeps ==
  ASSUME HeapInv, NEW h \in Handles, DeleteRecord(h)
  PROVE  HeapInv'
<1>1. FileOK' /\ size' = size /\ curPage[h] = curPageNo[h] /\ curPageNo[h] \in 2 .. size
  BY DeleteEffect, Zenon
<1>2. curPageNo[h] \in PageNos /\ Header \in PageNos
  BY <1>1, PageFacts DEF HeapInv
<1>3. /\ pins' = pins /\ touched' = touched \cup {curPageNo[h], Header} /\ open' = open
      /\ curDirty' = curDirty \cup {h} /\ hdrDirty' = hdrDirty \cup {h}
      /\ curPage' = curPage /\ curPageNo' = curPageNo /\ curRec' = curRec
      /\ out' = [out EXCEPT ![h] = "OK"] /\ Forget(out[h])
  BY Zenon DEF DeleteRecord, DirtyAfterDelete
<1>4. /\ due' \in [Handles -> SUBSET Records] /\ seen' \in [Handles -> SUBSET Records]
      /\ \A g \in Handles : seen[g] = {} => seen'[g] = {}
  BY <1>3, Zenon DEF Forget, HeapInv, ObjectsOK
<1>5. marked' \in [Handles -> {<<>>} \cup ((2 .. size) \X Int \X (SUBSET Records) \X (SUBSET Records))]
  <2>1. ASSUME NEW g \in Handles, marked[g] # <<>>
        PROVE  <<marked[g][1], marked[g][2], marked[g][3] \ {out[h]}, marked[g][4] \ {out[h]}>>
                  \in (2 .. size) \X Int \X (SUBSET Records) \X (SUBSET Records)
    BY <2>1, ZenonT(30) DEF HeapInv, ObjectsOK
  <2> QED BY <1>3, <2>1, Zenon DEF Forget
<1>6. ObjectsOK'
  BY <1>1, <1>2, <1>3, <1>4, <1>5, Zenon DEF HeapInv, ObjectsOK, Statuses
<1>7. "OK" \notin Records
  BY RecordsAssumption DEF Statuses
<1>8. Usable(h) /\ h \in open
  BY DEF DeleteRecord, CanDelete, Usable
<1>9. Positions'
  BY <1>1, <1>3, <1>4, <1>7, <1>8, ZenonT(30) DEF HeapInv, ObjectsOK, Positions, Usable
<1> QED BY <1>1, <1>6, <1>9 DEF HeapInv

\* insertRecord puts its record into one free place, or no record anywhere.
InsertedAt(p, i, r) ==
  /\ ~\E x : Holds(p, i, x)
  /\ \A q, j, x : Holds(q, j, x)' <=> Holds(q, j, x) \/ (q = p /\ j = i /\ x = r)

\* A page that the file does not have yet, or whose slots are empty, holds nothing.
LEMMA NoneHeld ==
  ASSUME NEW p, p \notin 2 .. size \/ slots[p] = <<>>
  PROVE  \A i, x : ~Holds(p, i, x)
BY DEF Holds, Occupied

\* insertRecord on the current page.
LEMMA InsertHereEffect ==
  ASSUME HeapInv, NEW h \in Handles, NEW r \in Records, InsertRecord(h, r), InsertHere(h, r)
  PROVE  /\ FileOK' /\ size' = size /\ next' = next /\ hdr' = [hdr EXCEPT !.recCnt = @ + 1]
         /\ curPageNo[h] \in 2 .. size /\ curPage[h] = curPageNo[h]
         /\ \E i \in Nat : InsertedAt(curPageNo[h], i, r)
<1> DEFINE p == curPageNo[h]
           new == SlotsWith(p, r)
<1>1. curPage[h] = p /\ p \in 2 .. size
  <2>1. h \in Inserts /\ h \notin Rescanners /\ Usable(h)
    BY KindsAssumption, Zenon DEF InsertRecord
  <2> QED BY <2>1, SMTT(30) DEF HeapInv, ObjectsOK, Positions, Usable
<1>2. p \in PageNos
  BY <1>1, PageFacts DEF HeapInv
<1>3. /\ slots' = [slots EXCEPT ![p] = new] /\ hdr' = [hdr EXCEPT !.recCnt = @ + 1]
      /\ size' = size /\ next' = next
  BY Zenon DEF InsertHere
<1> HIDE DEF p
<1>4. PICK i \in Nat \ {0} :
        /\ i \notin Occupied(p)
        /\ new \in Seq(Records \cup {NoRecord})
        /\ {j \in DOMAIN new : new[j] # NoRecord} = Occupied(p) \cup {i}
        /\ new[i] = r
        /\ \A j \in Occupied(p) : new[j] = slots[p][j]
  BY <1>2, SlotsWithFacts, ZenonT(30) DEF HeapInv, FileOK
<1> HIDE DEF new
<1>5. FileOK'
  <2>1. LinksForward'
    BY <1>3 DEF HeapInv, FileOK, LinksForward
  <2>2. SlotsOK'
    BY <1>1, <1>3, <1>4, Zenon DEF HeapInv, FileOK, SlotsOK
  <2>3. hdr' \in [firstPage : {2}, lastPage : 2 .. size', pageCnt : Nat, recCnt : Int]
    BY <1>3 DEF HeapInv, FileOK
  <2> QED BY <1>3, <2>1, <2>2, <2>3, ZenonT(30) DEF HeapInv, FileOK
<1>6. slots'[p] = new /\ \A q \in PageNos : q # p => slots'[q] = slots[q]
  BY <1>2, <1>3 DEF HeapInv, FileOK, SlotsOK
<1>7. 2 .. size \subseteq PageNos
  BY PageFacts DEF HeapInv
<1>8. ASSUME NEW q, NEW j, NEW x
      PROVE  Holds(q, j, x)' <=> Holds(q, j, x) \/ (q = p /\ j = i /\ x = r)
  <2>1. CASE q = p
    <3>1. Holds(q, j, x)' <=> j \in Occupied(p) \cup {i} /\ new[j] = x
      BY <1>1, <1>3, <1>4, <1>6, <2>1, ZenonT(30) DEF Holds, Occupied
    <3>2. j \in Occupied(p) => new[j] = slots[p][j] /\ j # i
      BY <1>4
    <3> QED BY <1>1, <1>4, <2>1, <3>1, <3>2 DEF Holds
  <2>2. CASE q # p
    BY <1>3, <1>6, <1>7, <2>2, ZenonT(30) DEF Holds, Occupied
  <2> QED BY <2>1, <2>2, ZenonT(30)
<1>9. InsertedAt(p, i, r)
  BY <1>4, <1>8 DEF InsertedAt, Holds
<1> QED BY <1>1, <1>3, <1>5, <1>9, ZenonT(30) DEF p

\* insertRecord on a new page.
LEMMA InsertNewPageEffect ==
  ASSUME HeapInv, NEW h \in Handles, NEW r \in Records, InsertRecord(h, r), InsertNewPage(h, r)
  PROVE  /\ FileOK' /\ size' = size + 1
         /\ curPageNo[h] \in 2 .. size /\ curPage[h] = curPageNo[h]
         /\ next' = [next EXCEPT ![curPageNo[h]] = size + 1, ![size + 1] = -1]
         /\ hdr' = [hdr EXCEPT !.lastPage = size + 1, !.pageCnt = @ + 1, !.recCnt = hdr'.recCnt]
         /\ \/ hdr'.recCnt = hdr.recCnt + 1 /\ InsertedAt(size + 1, 1, r)
            \/ /\ hdr'.recCnt = hdr.recCnt
               /\ \A q, j, x : Holds(q, j, x)' <=> Holds(q, j, x)
<1> DEFINE p == curPageNo[h]
           n == size + 1
           fits == Length(r) + SlotSize <= DataSize
           page == IF fits THEN <<r>> ELSE <<>>
<1>1. curPage[h] = p /\ p \in 2 .. size
  <2>1. h \in Inserts /\ h \notin Rescanners /\ Usable(h)
    BY KindsAssumption DEF InsertRecord
  <2> QED BY <2>1 DEF HeapInv, ObjectsOK, Positions, Usable
<1>2. p \in PageNos /\ MaxPages \in Nat /\ size \in 2 .. MaxPages /\ 2 .. size \subseteq PageNos
  BY <1>1, PageFacts, ZenonT(30) DEF HeapInv
<1>3. /\ size < MaxPages /\ size' = n /\ next' = [next EXCEPT ![p] = n, ![n] = -1]
      /\ slots' = [slots EXCEPT ![n] = page] /\ hdr' = HdrGrown(n, fits)
  BY DEF InsertNewPage
<1> HIDE DEF p, fits, page
<1>4. n \in PageNos /\ n \in 2 .. size' /\ n \notin 2 .. size /\ n # p
  BY <1>1, <1>2, <1>3 DEF PageNos
<1>5. page \in Seq(Records \cup {NoRecord}) /\ r # NoRecord
  <2>1. <<>> \in Seq(Records \cup {NoRecord}) /\ <<r>> \in Seq(Records \cup {NoRecord})
    OBVIOUS
  <2> QED BY <2>1, RecordsAssumption, Zenon DEF page
<1>6. /\ hdr'.recCnt = IF fits THEN hdr.recCnt + 1 ELSE hdr.recCnt
      /\ hdr' = [hdr EXCEPT !.lastPage = n, !.pageCnt = @ + 1, !.recCnt = hdr'.recCnt]
      /\ hdr' \in [firstPage : {2}, lastPage : 2 .. size', pageCnt : Nat, recCnt : Int]
  <2>1. hdr \in [firstPage : {2}, lastPage : 2 .. size, pageCnt : Nat, recCnt : Int]
    BY DEF HeapInv, FileOK
  <2>2. hdr' = [hdr EXCEPT !.lastPage = n, !.pageCnt = @ + 1,
                           !.recCnt = IF fits THEN @ + 1 ELSE @]
    BY <1>3 DEF HdrGrown
  <2> HIDE DEF n
  <2>3. hdr'.recCnt = IF fits THEN hdr.recCnt + 1 ELSE hdr.recCnt
    BY <2>1, <2>2
  <2>4. hdr' = [hdr EXCEPT !.lastPage = n, !.pageCnt = @ + 1, !.recCnt = hdr'.recCnt]
    BY <2>1, <2>2, <2>3
  <2>5. hdr' = [firstPage |-> 2, lastPage |-> n, pageCnt |-> hdr.pageCnt + 1, recCnt |-> hdr'.recCnt]
    BY <2>1, <2>4, Zenon
  <2>6. hdr.pageCnt + 1 \in Nat /\ hdr'.recCnt \in Int
    BY <2>1, <2>3
  <2>7. hdr' \in [firstPage : {2}, lastPage : 2 .. size', pageCnt : Nat, recCnt : Int]
    BY <1>4, <2>5, <2>6
  <2> QED BY <2>3, <2>4, <2>7
<1>7. FileOK'
  <2>1. LinksForward'
    <3>1. size' \in 2 .. MaxPages
      BY <1>2, <1>3, SMTT(30)
    <3>2. next' \in [PageNos -> {-1} \cup (2 .. size')]
      BY <1>2, <1>3, <1>4, SMTT(30) DEF HeapInv, FileOK, LinksForward
    <3>3. \A q \in PageNos : next'[q] = -1 \/ q < next'[q]
      BY <1>1, <1>2, <1>3, <1>4, SMTT(30) DEF HeapInv, FileOK, LinksForward
    <3> QED BY <3>1, <3>2, <3>3 DEF LinksForward
  <2>2. SlotsOK'
    <3>1. slots \in [PageNos -> Seq(Records \cup {NoRecord})]
          /\ \A q \in PageNos \ (2 .. size) : slots[q] = <<>>
      BY Zenon DEF HeapInv, FileOK, SlotsOK
    <3>2. slots' \in [PageNos -> Seq(Records \cup {NoRecord})]
      BY <1>3, <1>4, <1>5, <3>1, Zenon
    <3>3. 2 .. size \subseteq 2 .. size'
      BY <1>2, <1>3, SMTT(30)
    <3>4. \A q \in PageNos \ (2 .. size') : slots'[q] = <<>>
      BY <1>3, <1>4, <3>1, <3>3, Zenon
    <3> QED BY <3>2, <3>4, Zenon DEF SlotsOK
  <2> QED BY <1>6, <2>1, <2>2, ZenonT(30) DEF HeapInv, FileOK
<1>8. slots'[n] = page /\ \A q \in PageNos : q # n => slots'[q] = slots[q]
  BY <1>3, <1>4, SMTT(30) DEF HeapInv, FileOK, SlotsOK
<1>9. ASSUME NEW q, NEW j, NEW x, q # n PROVE Holds(q, j, x)' <=> Holds(q, j, x)
  <2>1. q \in 2 .. size' <=> q \in 2 .. size
    BY <1>2, <1>3, <1>9
  <2> QED BY <1>2, <1>8, <1>9, <2>1 DEF Holds, Occupied
<1>10. \A j, x : ~Holds(n, j, x)
  BY <1>4, NoneHeld
<1>11. CASE fits
  <2>1. \A q, j, x : q = n => (Holds(q, j, x)' <=> j = 1 /\ x = r)
    BY <1>4, <1>5, <1>8, <1>11, SMTT(30) DEF Holds, Occupied, page
  <2>2. InsertedAt(n, 1, r)
    BY <1>9, <1>10, <2>1 DEF InsertedAt
  <2> QED BY <1>1, <1>3, <1>6, <1>7, <1>11, <2>2, Zenon DEF p
<1>12. CASE ~fits
  <2>1. \A q, j, x : q = n => ~Holds(q, j, x)'
    BY <1>8, <1>12, SMTT(30) DEF Holds, Occupied, page
  <2>2. \A q, j, x : Holds(q, j, x)' <=> Holds(q, j, x)
    BY <1>9, <1>10, <2>1, Zenon
  <2> QED BY <1>1, <1>3, <1>6, <1>7, <1>12, <2>2, Zenon DEF p
<1> QED BY <1>11, <1>12

\* insertRecord.
LEMMA InsertRecordKeeps ==
  ASSUME HeapInv, NEW h \in Handles, NEW r \in Records, InsertRecord(h, r)
  PROVE  HeapInv'
<1>0. /\ h \in Inserts /\ h \in open /\ Usable(h) /\ h \notin Rescanners
      /\ UNCHANGED <<open, curRec, marked, due, seen>>
  BY KindsAssumption DEF InsertRecord, Usable
<1>1. CASE Length(r) > DataSize
  <2>1. UNCHANGED <<file, pool, curPage, curPageNo, curDirty, hdrDirty>>
        /\ out' = [out EXCEPT ![h] = "INVALIDRECLEN"]
    BY <1>1 DEF InsertRecord
  <2>2. FileOK' /\ size' = size
    BY <2>1, FileStays, Zenon DEF HeapInv
  <2>3. ObjectsOK'
    BY <1>0, <2>1, <2>2, ZenonT(30) DEF HeapInv, ObjectsOK, pool, Statuses
  <2>4. Positions'
    BY <1>0, <2>1, <2>2, Zenon DEF HeapInv, ObjectsOK, Positions, Usable
  <2> QED BY <2>2, <2>3, <2>4, Zenon DEF HeapInv
<1>2. CASE InsertHere(h, r)
  <2>1. FileOK' /\ size' = size /\ curPageNo[h] \in 2 .. size /\ curPage[h] = curPageNo[h]
    BY <1>2, InsertHereEffect, Zenon
  <2>2. curPageNo[h] \in PageNos /\ Header \in PageNos
    BY <2>1, PageFacts DEF HeapInv
  <2>3. /\ touched' = touched \cup {curPageNo[h], Header} /\ hdrDirty' = hdrDirty \cup {h}
        /\ curDirty' = curDirty \cup {h} /\ out' = [out EXCEPT ![h] = "OK"]
        /\ UNCHANGED <<pins, curPage, curPageNo>>
    BY <1>2, ZenonT(30) DEF InsertHere
  <2>4. ObjectsOK'
    BY <1>0, <2>1, <2>2, <2>3, ZenonT(30) DEF HeapInv, ObjectsOK, Statuses
  <2>5. Positions'
    BY <1>0, <2>1, <2>3 DEF HeapInv, ObjectsOK, Positions, Usable
  <2> QED BY <2>1, <2>4, <2>5 DEF HeapInv
<1>3. CASE InsertNoFrame(h, r)
  <2>1. /\ size < MaxPages /\ size' = size + 1 /\ out' = [out EXCEPT ![h] = "BUFFEREXCEEDED"]
        /\ UNCHANGED <<hdr, next, slots, pool, curPage, curPageNo, curDirty, hdrDirty>>
    BY <1>3 DEF InsertNoFrame
  <2>2. size \in 2 .. MaxPages /\ MaxPages \in Nat
    BY PageFacts, Zenon DEF HeapInv
  <2>3. FileOK'
    BY <2>1, <2>2, SMTT(30) DEF HeapInv, FileOK, LinksForward, SlotsOK
  <2>4. 2 .. size \subseteq 2 .. size'
    BY <2>1, <2>2, SMTT(30)
  <2>5. ObjectsOK'
    BY <1>0, <2>1, <2>4, ZenonT(30) DEF HeapInv, ObjectsOK, pool, Statuses
  <2>6. Positions'
    BY <1>0, <2>1, Zenon DEF HeapInv, ObjectsOK, Positions, Usable, Failed
  <2> QED BY <2>3, <2>5, <2>6 DEF HeapInv
<1>4. CASE InsertNewPage(h, r)
  <2> DEFINE n == size + 1
             st == IF Length(r) + SlotSize <= DataSize THEN "OK" ELSE "NOSPACE"
  <2>1. FileOK' /\ size' = n /\ curPageNo[h] \in 2 .. size /\ curPage[h] = curPageNo[h]
    BY <1>4, InsertNewPageEffect, Zenon
  <2>2. /\ size \in 2 .. MaxPages /\ MaxPages \in Nat /\ curPageNo[h] \in PageNos
        /\ Header \in PageNos
    BY <2>1, PageFacts, Zenon DEF HeapInv
  <2>3. /\ size < MaxPages /\ pins' = UnPin(Pin(pins, n), curPageNo[h])
        /\ touched' = (touched \ {curPageNo[h]}) \cup {n, Header}
        /\ curPage' = [curPage EXCEPT ![h] = n] /\ curPageNo' = [curPageNo EXCEPT ![h] = n]
        /\ hdrDirty' = hdrDirty \cup {h} /\ curDirty' \subseteq curDirty \cup {h}
        /\ out' = [out EXCEPT ![h] = st]
    BY <1>4, Zenon DEF InsertNewPage
  <2>4. n \in 2 .. size' /\ n \in PageNos /\ n # Null /\ 2 .. size \subseteq 2 .. size'
    BY <2>1, <2>2, <2>3 DEF PageNos, Null
  <2>5. st \in Statuses /\ st \notin Failed
    BY Zenon DEF Statuses, Failed
  <2> HIDE DEF n, st
  <2>6. pins' \in [PageNos -> Nat]
    BY <2>2, <2>3, <2>4, PinTypes, ZenonT(30) DEF HeapInv, ObjectsOK
  <2>7. /\ curPage' \in [Handles -> {Null} \cup (2 .. size')]
        /\ curPageNo' \in [Handles -> {-1, 0} \cup (2 .. size')]
    BY <2>3, <2>4, Zenon DEF HeapInv, ObjectsOK
  <2>8. marked' \in [Handles -> {<<>>} \cup ((2 .. size') \X Int \X (SUBSET Records) \X (SUBSET Records))]
    BY <1>0, <2>4, Zenon DEF HeapInv, ObjectsOK
  <2>9. ObjectsOK'
    BY <1>0, <2>2, <2>3, <2>4, <2>5, <2>6, <2>7, <2>8, ZenonT(30) DEF HeapInv, ObjectsOK
  <2>10. Positions'
    BY <1>0, <2>3, <2>4, <2>5, Zenon DEF HeapInv, ObjectsOK, Positions, Usable
  <2> QED BY <2>1, <2>9, <2>10 DEF HeapInv
<1> QED BY <1>1, <1>2, <1>3, <1>4, Zenon DEF InsertRecord

\* The file as createHeapFile leaves it, with no object on it.
LEMMA InitKeeps ==
  ASSUME LeastNumbers, Init
  PROVE  HeapInv
<1>1. MaxPages \in Nat /\ MaxPages >= 2
  BY SizesAssumption, SMTT(30)
<1>2. LinksForward
  BY <1>1, SMTT(30) DEF Init, LinksForward
<1>3. SlotsOK
  <2>1. <<>> \in Seq(Records \cup {NoRecord})
    BY SMTT(30)
  <2> QED BY <2>1 DEF Init, SlotsOK
<1>4. FileOK
  BY <1>2, <1>3, SMTT(30) DEF Init, FileOK
<1>5. ObjectsOK
  BY SMTT(30) DEF Init, ObjectsOK, Null, Statuses
<1>6. Positions
  BY DEF Init, Positions
<1> QED BY <1>4, <1>5, <1>6 DEF HeapInv

\* Nothing changes in a stuttering step.
LEMMA StutterKeeps ==
  ASSUME HeapInv, UNCHANGED vars
  PROVE  HeapInv'
<1>1. UNCHANGED file
  BY DEF vars, file
<1>2. FileOK'
  BY <1>1, FileStays, Zenon DEF HeapInv
<1>3. ObjectsOK' /\ Positions'
  BY Zenon DEF vars, HeapInv, ObjectsOK, Positions, Usable
<1> QED BY <1>2, <1>3 DEF HeapInv

\* Every call keeps HeapInv.
LEMMA HeapInvStep == HeapInv /\ [Next]_vars => HeapInv'
<1> SUFFICES ASSUME HeapInv, [Next]_vars PROVE HeapInv'
  BY Zenon
<1>1. ASSUME NEW p \in PageNos, NEW i \in DOMAIN slots[p] PROVE i - 1 \in Int
  BY OccupiedFacts, SMTT(30) DEF HeapInv, FileOK
<1>2. CASE Next
  BY <1>1, <1>2, OpenKeeps, CloseKeeps, GetRecordKeeps, ScanNextKeeps, EndScanKeeps, MarkScanKeeps,
     ResetScanKeeps, DeleteRecordKeeps, InsertRecordKeeps, ZenonT(30) DEF Next
<1> QED BY <1>2, StutterKeeps

-----------------------------------------------------------------------------
(* A call is a call on one object.                                         *)

Call(h) ==
  \/ Open(h) \/ Close(h)
  \/ \E p \in PageNos : \E i \in DOMAIN slots[p] : GetRecord(h, p, i - 1)
  \/ ScanNext(h) \/ EndScan(h) \/ MarkScan(h) \/ ResetScan(h) \/ DeleteRecord(h)
  \/ \E r \in Records : InsertRecord(h, r)

\* The other objects keep their page, flags and position.
OthersStay(h) ==
  \A g \in Handles \ {h} :
    /\ g \in open' <=> g \in open
    /\ g \in curDirty' <=> g \in curDirty
    /\ g \in hdrDirty' <=> g \in hdrDirty
    /\ curPage'[g] = curPage[g] /\ curPageNo'[g] = curPageNo[g]
    /\ curRec'[g] = curRec[g] /\ out'[g] = out[g]

\* They do in scanNext.
LEMMA OthersStayInScan ==
  ASSUME HeapInv, NEW h \in Handles, ScanNext(h)
  PROVE  OthersStay(h)
<1>1. ASSUME NEW pn, NEW c, NEW s, ScanFrom(h, pn, c, s), UNCHANGED <<open, hdrDirty>>
      PROVE  OthersStay(h)
  <2>1. /\ \E p : curPage' = [curPage EXCEPT ![h] = p]
        /\ \E p : curPageNo' = [curPageNo EXCEPT ![h] = p]
        /\ \E t : curRec' = [curRec EXCEPT ![h] = t] \/ curRec' = curRec
        /\ \E r : out' = [out EXCEPT ![h] = r]
        /\ curDirty' = curDirty \/ curDirty' = curDirty \ {h}
    BY <1>1, Zenon DEF ScanFrom
  <2> QED BY <1>1, <2>1, ZenonT(30) DEF OthersStay, HeapInv, ObjectsOK
<1>2. UNCHANGED <<open, hdrDirty>>
  BY Zenon DEF ScanNext
<1>3. \/ \E pn, c, s : ScanFrom(h, pn, c, s)
      \/ /\ \E p : curPageNo' = [curPageNo EXCEPT ![h] = p] \/ curPageNo' = curPageNo
         /\ \E t : curRec' = [curRec EXCEPT ![h] = t] \/ curRec' = curRec
         /\ \E r : out' = [out EXCEPT ![h] = r]
         /\ UNCHANGED <<curPage, curDirty>>
  BY ZenonT(30) DEF ScanNext
<1>4. CASE \E pn, c, s : ScanFrom(h, pn, c, s)
  BY <1>1, <1>2, <1>4, Zenon
<1>5. CASE /\ \E p : curPageNo' = [curPageNo EXCEPT ![h] = p] \/ curPageNo' = curPageNo
           /\ \E t : curRec' = [curRec EXCEPT ![h] = t] \/ curRec' = curRec
           /\ \E r : out' = [out EXCEPT ![h] = r]
           /\ UNCHANGED <<curPage, curDirty>>
  BY <1>2, <1>5, ZenonT(30) DEF OthersStay, HeapInv, ObjectsOK
<1> QED BY <1>3, <1>4, <1>5, Zenon

\* They do in every call.
LEMMA OthersStayAlways ==
  ASSUME HeapInv, NEW h \in Handles, Call(h)
  PROVE  OthersStay(h)
<1>1. CASE Open(h)
  BY <1>1, ZenonT(30) DEF Open, OthersStay, HeapInv, ObjectsOK
<1>2. CASE Close(h)
  BY <1>2, ZenonT(30) DEF Close, OthersStay, HeapInv, ObjectsOK
<1>3. ASSUME NEW p, NEW s, GetRecord(h, p, s) PROVE OthersStay(h)
  BY <1>3, ZenonT(30) DEF GetRecord, OthersStay, HeapInv, ObjectsOK
<1>4. CASE EndScan(h)
  BY <1>4, Zenon DEF EndScan, OthersStay, HeapInv, ObjectsOK
<1>5. CASE MarkScan(h)
  BY <1>5, ZenonT(30) DEF MarkScan, OthersStay, HeapInv, ObjectsOK
<1>6. CASE ResetScan(h)
  BY <1>6, Zenon DEF ResetScan, DirtyAfterReset, OthersStay, HeapInv, ObjectsOK
<1>7. CASE DeleteRecord(h)
  BY <1>7, ZenonT(30) DEF DeleteRecord, DirtyAfterDelete, OthersStay, HeapInv, ObjectsOK
<1>8. ASSUME NEW r, InsertRecord(h, r) PROVE OthersStay(h)
  BY <1>8, ZenonT(30) DEF InsertRecord, InsertHere, InsertNoFrame, InsertNewPage, OthersStay, HeapInv, ObjectsOK
<1> QED BY <1>1, <1>2, <1>3, <1>4, <1>5, <1>6, <1>7, <1>8, OthersStayInScan, ZenonT(30) DEF Call

\* Next is a call on some object.
LEMMA NextIsCall == Next <=> \E h \in Handles : Call(h)
BY ZenonT(30) DEF Next, Call

-----------------------------------------------------------------------------
(* The places of the records.                                              *)

\* No record moves, comes or goes.
PlacesStay == \A q, j, x : Holds(q, j, x)' <=> Holds(q, j, x)

\* What a call does to the places of the records, and to their count.
LEMMA CallOnPlaces ==
  ASSUME HeapInv, NEW h \in Handles, Call(h)
  PROVE  \/ hdr'.recCnt = hdr.recCnt /\ PlacesStay
         \/ DeleteRecord(h)
         \/ \E r \in Records : \E p \in 2 .. MaxPages, i \in Nat :
              /\ InsertRecord(h, r) /\ r \notin FileRecords
              /\ hdr'.recCnt = hdr.recCnt + 1 /\ InsertedAt(p, i, r)
<1>1. CASE UNCHANGED file
  BY <1>1, FileStays, Zenon DEF HeapInv, PlacesStay
<1>2. CASE \E r \in Records : InsertRecord(h, r)
  <2>1. PICK r \in Records : InsertRecord(h, r)
    BY <1>2, Zenon
  <2>2. r \notin FileRecords
    BY <2>1, ZenonT(30) DEF InsertRecord
  <2>3. CASE InsertHere(h, r)
    <3>1. /\ curPageNo[h] \in 2 .. size /\ hdr' = [hdr EXCEPT !.recCnt = @ + 1]
          /\ \E i \in Nat : InsertedAt(curPageNo[h], i, r)
      BY <2>1, <2>3, InsertHereEffect, ZenonT(30)
    <3>2. curPageNo[h] \in 2 .. MaxPages
      BY <3>1, PageFacts DEF HeapInv
    <3>3. hdr'.recCnt = hdr.recCnt + 1
      BY <3>1, Zenon DEF HeapInv, FileOK
    <3> QED BY <2>1, <2>2, <3>1, <3>2, <3>3, ZenonT(30)
  <2>4. CASE InsertNoFrame(h, r)
    <3>1. slots' = slots /\ size' = size + 1 /\ hdr' = hdr /\ size < MaxPages
      BY <2>4, ZenonT(30) DEF InsertNoFrame
    <3>2. size \in Nat /\ size \in 2 .. MaxPages /\ MaxPages \in Nat
      BY PageFacts, ZenonT(30) DEF HeapInv
    <3>3. size + 1 \in PageNos \ (2 .. size)
      BY <3>1, <3>2 DEF PageNos
    <3>4. slots[size + 1] = <<>>
      BY <3>3, ZenonT(30) DEF HeapInv, FileOK, SlotsOK
    <3>5. ASSUME NEW q, NEW j, NEW x PROVE Holds(q, j, x)' <=> Holds(q, j, x)
      <4>1. CASE q = size + 1
        BY <3>1, <3>3, <3>4, <4>1, SMTT(30) DEF Holds, Occupied
      <4>2. CASE q # size + 1
        BY <3>1, <3>2, <4>2, SMTT(30) DEF Holds, Occupied
      <4> QED BY <4>1, <4>2, Zenon
    <3> QED BY <3>1, <3>5, Zenon DEF PlacesStay
  <2>5. CASE InsertNewPage(h, r)
    <3>1. /\ size' = size + 1 /\ FileOK'
          /\ \/ hdr'.recCnt = hdr.recCnt + 1 /\ InsertedAt(size + 1, 1, r)
             \/ hdr'.recCnt = hdr.recCnt /\ PlacesStay
      BY <2>1, <2>5, InsertNewPageEffect, Zenon DEF PlacesStay
    <3>2. size + 1 \in 2 .. MaxPages /\ 1 \in Nat
      BY <3>1, SizesAssumption, Zenon DEF FileOK, LinksForward
    <3> QED BY <2>1, <2>2, <3>1, <3>2, ZenonT(30)
  <2>6. CASE Length(r) > DataSize
    BY <1>1, <2>1, <2>6, Zenon DEF InsertRecord
  <2> QED BY <2>1, <2>3, <2>4, <2>5, <2>6, Zenon DEF InsertRecord
<1> QED BY <1>1, <1>2, ZenonT(30) DEF Call, Open, Close, GetRecord, ScanNext, EndScan, MarkScan, ResetScan

\* A record has one place only.
OnePlace == \A p, i, q, j, r : Holds(p, i, r) /\ Holds(q, j, r) => p = q /\ i = j

\* No call puts a record in a second place: insertRecord is given a new one.
LEMMA OnePlaceStep == HeapInv /\ OnePlace /\ [Next]_vars => OnePlace'
<1> SUFFICES ASSUME HeapInv, OnePlace, [Next]_vars PROVE OnePlace'
  OBVIOUS
<1>1. ASSUME PlacesStay PROVE OnePlace'
  BY <1>1, ZenonT(30) DEF OnePlace, PlacesStay
<1>2. ASSUME NEW h \in Handles, DeleteRecord(h) PROVE OnePlace'
  <2>1. \A q, j, x : Holds(q, j, x)' => Holds(q, j, x)
    BY <1>2, DeleteEffect, Zenon
  <2> QED BY <2>1, ZenonT(30) DEF OnePlace
<1>3. ASSUME NEW r \in Records \ FileRecords, NEW p, NEW i, InsertedAt(p, i, r) PROVE OnePlace'
  <2>1. \A q, j : ~Holds(q, j, r)
    BY <1>3, RecordsInPlaces, ZenonT(30)
  <2>2. ASSUME NEW q1, NEW j1, NEW q2, NEW j2, NEW x, Holds(q1, j1, x)', Holds(q2, j2, x)'
        PROVE  q1 = q2 /\ j1 = j2
    <3>1. CASE x = r
      BY <1>3, <2>1, <2>2, <3>1 DEF InsertedAt
    <3>2. CASE x # r
      <4>1. Holds(q1, j1, x) /\ Holds(q2, j2, x)
        BY <1>3, <2>2, <3>2 DEF InsertedAt
      <4> QED BY <4>1, Zenon DEF OnePlace
    <3> QED BY <3>1, <3>2, Zenon
  <2> QED BY <2>2, ZenonT(30) DEF OnePlace
<1>4. CASE UNCHANGED vars
  <2>1. UNCHANGED file
    BY <1>4, Zenon DEF vars, file
  <2>2. PlacesStay
    BY <2>1, FileStays, Zenon DEF HeapInv, PlacesStay
  <2> QED BY <1>1, <2>2, Zenon
<1> QED BY <1>1, <1>2, <1>3, <1>4, NextIsCall, CallOnPlaces, ZenonT(30)

\* A new file holds no record.
LEMMA NoneAtFirst == Init => \A p, i, r : ~Holds(p, i, r)
<1> SUFFICES ASSUME Init PROVE \A p, i, r : ~Holds(p, i, r)
  BY Zenon
<1>1. \A p \in 2 .. size : Occupied(p) = {}
  BY SizesAssumption DEF Init, Occupied, PageNos
<1> QED BY <1>1, ZenonT(30) DEF Holds

-----------------------------------------------------------------------------
(* Changes are announced.                                                  *)

\* Object h will unpin page p dirty.
Announces(h, p) ==
  \/ p = Header /\ h \in hdrDirty
  \/ p = curPage[h] /\ curPage[h] = curPageNo[h] /\ h \in curDirty \cup Inserts

\* ChangeAnnounced, by an object whose pointer and page number agree: after a
\* failed resetScan they do not, and then the page is not announced.
Announcer == \A p \in touched : \E h \in open : Announces(h, p)

\* A call on h leaves no change behind that only h had announced.
LeavesNone(h) ==
  \A p \in touched' :
    \/ p \in touched /\ ~(h \in open /\ Announces(h, p))
    \/ h \in open' /\ Announces(h, p)'

\* scanNext announces a page it leaves.
LEMMA ScanLeavesNone ==
  ASSUME HeapInv, NEW h \in Handles, ScanNext(h)
  PROVE  LeavesNone(h)
<1>0. /\ h \in Scans /\ h \notin Inserts /\ h \in open /\ Usable(h) /\ UNCHANGED <<open, hdrDirty>>
  BY KindsAssumption, ZenonT(30) DEF ScanNext, Usable
<1>1. ASSUME NEW pn, NEW c \in 2 .. size, NEW s \in Int, ScanFrom(h, pn, c, s),
             curPage[h] # Null => c = curPageNo[h]
      PROVE  LeavesNone(h)
  <2>1. PICK k \in 0 .. (MaxPages - 1), p \in c .. size :
          /\ k = 0 => p = c
          /\ \/ ScanStops(h, pn, c, s, k, p)
             \/ ScanMoves(h, pn, c, s, k, p)
    BY <1>1, ScanOutcome, ZenonT(30) DEF HeapInv, ScanFinds, ScanRunsOut
  <2>2. ASSUME NEW q \in touched, h \in open /\ Announces(h, q), q # Header
        PROVE  q = c /\ curPage[h] # Null /\ h \in curDirty
    BY <1>0, <1>1, <2>2, PageFacts, SMTT(30) DEF Announces, HeapInv, ObjectsOK, Positions, Null, PageNos
  <2>a. ASSUME touched' = Announced(touched, c, h \in curDirty)
        PROVE  LeavesNone(h)
    <3>1. SUFFICES ASSUME NEW q \in touched', h \in open, Announces(h, q)
                   PROVE  h \in open' /\ Announces(h, q)'
      BY <2>a, ZenonT(30) DEF LeavesNone, Announced
    <3>2. q \in touched /\ (h \in curDirty => q # c)
      BY <2>a, <3>1, ZenonT(30) DEF Announced
    <3>3. q = Header
      BY <2>2, <3>1, <3>2, ZenonT(30)
    <3>4. h \in hdrDirty
      BY <3>1, <3>3, PageFacts, Zenon DEF Announces, HeapInv, ObjectsOK, Header, Null
    <3> QED BY <1>0, <3>3, <3>4, ZenonT(30) DEF Announces
  <2>3. CASE ScanStops(h, pn, c, s, k, p)
    BY <2>a, <2>3, ZenonT(30) DEF ScanStops
  <2>4. CASE ScanMoves(h, pn, c, s, k, p)
    <3>1. curPage'[h] = p /\ curPageNo'[h] = p
      BY <2>4, ZenonT(30) DEF ScanMoves, HeapInv, ObjectsOK
    <3>2. CASE k # 0
      BY <2>a, <2>4, <3>2, ZenonT(30) DEF ScanMoves
    <3>3. CASE k = 0
      <4>1. SUFFICES ASSUME NEW q \in touched, h \in open, Announces(h, q)
                     PROVE  h \in open' /\ Announces(h, q)'
        BY <2>4, <3>3, ZenonT(30) DEF LeavesNone, ScanMoves
      <4>2. CASE q = Header
        <5>1. h \in hdrDirty
          BY <4>1, <4>2, PageFacts, Zenon DEF Announces, HeapInv, ObjectsOK, Header, Null
        <5> QED BY <1>0, <4>2, <5>1, ZenonT(30) DEF Announces
      <4>3. CASE q # Header
        <5>1. q = c /\ curPage[h] # Null /\ h \in curDirty
          BY <2>2, <4>1, <4>3, ZenonT(30)
        <5>2. h \in curDirty'
          BY <2>4, <3>3, <5>1, ZenonT(30) DEF ScanMoves
        <5> QED BY <1>0, <2>1, <3>1, <3>3, <5>1, <5>2, ZenonT(30) DEF Announces
      <4> QED BY <4>2, <4>3, ZenonT(30)
    <3> QED BY <3>2, <3>3, ZenonT(30)
  <2> QED BY <2>1, <2>3, <2>4, ZenonT(30)
<1>2. ASSUME UNCHANGED <<touched, curPage, curDirty>>,
             curPageNo[h] \in {-1, 0}
      PROVE  LeavesNone(h)
  <2>0. curPage[h] = Null
    BY <1>0, <1>2, PlaceOf, Zenon
  <2>1. ASSUME NEW q \in touched, h \in open /\ Announces(h, q) PROVE q = Header /\ h \in hdrDirty
    <3>1. q # Null
      BY DEF HeapInv, ObjectsOK, PageNos, Null
    <3> QED BY <1>0, <2>0, <2>1, <3>1, Zenon DEF Announces
  <2> QED BY <1>0, <1>2, <2>1, ZenonT(30) DEF LeavesNone, Announces
<1>3. CASE curPageNo[h] = -1
  <2>1. curPage[h] = Null /\ curPageNo[h] # 0
    BY <1>0, <1>3, PlaceOf, Zenon
  <2>2. UNCHANGED <<touched, curPage, curDirty>>
    BY <1>3, <2>1, ZenonT(30) DEF ScanNext
  <2> QED BY <1>2, <1>3, <2>2, Zenon
<1>4. CASE curPageNo[h] # -1 /\ curPage[h] # Null
  <2>1. curPageNo[h] \in 2 .. size /\ curRec[h] \in Int /\ curPageNo[h] # 0
    BY <1>0, <1>4, PlaceOf, Zenon
  <2>3. ScanFrom(h, UnPin(pins, curPageNo[h]), curPageNo[h], curRec[h])
    BY <1>4, <2>1, ZenonT(30) DEF ScanNext
  <2> QED BY <1>1, <2>1, <2>3, ZenonT(30)
<1>5. CASE curPageNo[h] = 0
  <2>1. curPage[h] = Null
    BY <1>0, <1>5, PlaceOf, Zenon
  <2>2. hdr.firstPage \in 2 .. size /\ -1 \in Int
    BY <1>0, PageFacts, PlaceOf, Zenon DEF HeapInv
  <2>3. ScanFrom(h, pins, hdr.firstPage, -1) \/ UNCHANGED <<touched, curPage, curDirty>>
    BY <1>5, <2>1, ZenonT(30) DEF ScanNext
  <2> QED BY <1>1, <1>2, <1>5, <2>1, <2>2, <2>3, ZenonT(30)
<1> QED BY <1>0, <1>3, <1>4, <1>5, ZenonT(30) DEF ScanNext

\* What is left after the current page is unpinned is not announced by it.
LEMMA NotCurrent ==
  ASSUME HeapInv, NEW h \in Handles, NEW q \in CurAnnounced(h)
  PROVE  /\ q \in touched
         /\ ~(q = curPage[h] /\ curPage[h] = curPageNo[h] /\ h \in curDirty \cup Inserts)
<1>1. q \in touched
  BY ZenonT(30) DEF CurAnnounced, Announced
<1>2. q # Null
  BY <1>1 DEF HeapInv, ObjectsOK, PageNos, Null
<1> QED BY <1>1, <1>2, ZenonT(30) DEF CurAnnounced, Announced

\* So a call that unpins the current page leaves nothing behind.
LEMMA LeavesCurrent ==
  ASSUME HeapInv, NEW h \in Handles, h \in open, UNCHANGED <<open, hdrDirty>>,
         touched' = CurAnnounced(h)
  PROVE  LeavesNone(h)
<1>1. ASSUME NEW q \in touched', Announces(h, q) PROVE Announces(h, q)'
  BY <1>1, NotCurrent, ZenonT(30) DEF Announces
<1> QED BY <1>1, NotCurrent, ZenonT(30) DEF LeavesNone

\* getRecord announces a page it leaves.
LEMMA GetRecordLeavesNone ==
  ASSUME HeapInv, NEW h \in Handles, NEW p, NEW s, GetRecord(h, p, s)
  PROVE  LeavesNone(h)
<1>0. h \in open /\ UNCHANGED <<open, hdrDirty>>
  BY ZenonT(30) DEF GetRecord, Usable
<1>1. CASE UNCHANGED <<touched, curPage, curPageNo, curDirty>>
  BY <1>0, <1>1, ZenonT(30) DEF LeavesNone, Announces
<1>2. CASE touched' = CurAnnounced(h)
  BY <1>0, <1>2, LeavesCurrent, ZenonT(30)
<1> QED BY <1>1, <1>2, ZenonT(30) DEF GetRecord

\* resetScan announces a page it leaves.
LEMMA ResetScanLeavesNone ==
  ASSUME HeapInv, NEW h \in Handles, ResetScan(h)
  PROVE  LeavesNone(h)
<1>0. h \in open /\ UNCHANGED <<open, hdrDirty>>
  BY ZenonT(30) DEF ResetScan, Usable
<1>1. CASE marked[h][1] = curPageNo[h]
  <2>1. curPageNo'[h] = curPageNo[h] /\ UNCHANGED <<touched, curPage, curDirty>>
    BY <1>1, ZenonT(30) DEF ResetScan, DirtyAfterReset, pool, HeapInv, ObjectsOK
  <2> QED BY <1>0, <2>1, ZenonT(30) DEF LeavesNone, Announces
<1>2. CASE marked[h][1] # curPageNo[h]
  BY <1>0, <1>2, LeavesCurrent, ZenonT(30) DEF ResetScan
<1> QED BY <1>1, <1>2, ZenonT(30)

\* insertRecord: the new page is announced by the object that made it.
LEMMA InsertRecordLeavesNone ==
  ASSUME HeapInv, NEW h \in Handles, NEW r \in Records, InsertRecord(h, r)
  PROVE  LeavesNone(h)
<1>0. h \in Inserts /\ h \in open /\ UNCHANGED open
  BY ZenonT(30) DEF InsertRecord, Usable
<1>1. curPage[h] = curPageNo[h] /\ curPage[h] # Null
  BY KindsAssumption, ZenonT(30) DEF HeapInv, Positions, InsertRecord, Usable
<1>2. CASE UNCHANGED <<touched, curPage, curPageNo, curDirty, hdrDirty>>
  BY <1>0, <1>2, ZenonT(30) DEF LeavesNone, Announces
<1>3. CASE InsertHere(h, r)
  <2>1. /\ UNCHANGED <<curPage, curPageNo>> /\ h \in hdrDirty'
        /\ touched' = touched \cup {curPageNo[h], Header}
    BY <1>3, ZenonT(30) DEF InsertHere
  <2> QED BY <1>0, <1>1, <2>1, ZenonT(30) DEF LeavesNone, Announces
<1>4. CASE InsertNewPage(h, r)
  <2>1. /\ curPage'[h] = size + 1 /\ curPageNo'[h] = size + 1 /\ h \in hdrDirty'
        /\ touched' = (touched \ {curPageNo[h]}) \cup {size + 1, Header}
    BY <1>4, ZenonT(30) DEF InsertNewPage, HeapInv, ObjectsOK
  <2> QED BY <1>0, <1>1, <2>1, ZenonT(30) DEF LeavesNone, Announces
<1> QED BY <1>2, <1>3, <1>4, ZenonT(30) DEF InsertRecord, InsertNoFrame, pool

\* No call leaves a change behind.
LEMMA CallLeavesNone ==
  ASSUME HeapInv, NEW h \in Handles, Call(h)
  PROVE  LeavesNone(h)
<1>1. CASE Open(h)
  BY <1>1, ZenonT(30) DEF Open, LeavesNone
<1>2. CASE Close(h)
  <2>1. touched' = Announced(CurAnnounced(h), Header, h \in hdrDirty) /\ h \in open
    BY <1>2, ZenonT(30) DEF Close
  <2>2. ASSUME NEW q \in touched' PROVE q \in touched /\ ~Announces(h, q)
    <3>1. q \in CurAnnounced(h) /\ (h \in hdrDirty => q # Header)
      BY <2>1, <2>2, ZenonT(30) DEF Announced
    <3> QED BY <3>1, NotCurrent, ZenonT(30) DEF Announces
  <2> QED BY <2>2, ZenonT(30) DEF LeavesNone
<1>3. CASE EndScan(h)
  BY <1>3, LeavesCurrent, ZenonT(30) DEF EndScan, Usable
<1>4. CASE MarkScan(h)
  BY <1>4, ZenonT(30) DEF MarkScan, LeavesNone, Announces, pool
<1>5. CASE DeleteRecord(h)
  <2>1. /\ h \in open /\ out[h] \in Records /\ Usable(h)
        /\ UNCHANGED <<open, curPage, curPageNo>> /\ h \in hdrDirty'
        /\ touched' = touched \cup {curPageNo[h], Header} /\ h \in curDirty'
    BY <1>5, ZenonT(30) DEF DeleteRecord, CanDelete, Usable, DirtyAfterDelete
  <2>2. curPage[h] = curPageNo[h]
    BY <2>1, ZenonT(30) DEF HeapInv, Positions
  <2> QED BY <2>1, <2>2, ZenonT(30) DEF LeavesNone, Announces
<1> QED BY <1>1, <1>2, <1>3, <1>4, <1>5, GetRecordLeavesNone, ScanLeavesNone,
           ResetScanLeavesNone, InsertRecordLeavesNone, ZenonT(30) DEF Call

\* Announcer is inductive.
LEMMA AnnouncerStep == HeapInv /\ Announcer /\ [Next]_vars => Announcer'
<1> SUFFICES ASSUME HeapInv, Announcer, [Next]_vars PROVE Announcer'
  OBVIOUS
<1>1. CASE UNCHANGED vars
  BY <1>1, ZenonT(30) DEF vars, Announcer, Announces
<1>2. CASE Next
  <2>1. PICK h \in Handles : Call(h)
    BY <1>2, NextIsCall, ZenonT(30)
  <2>2. LeavesNone(h) /\ OthersStay(h)
    BY <2>1, CallLeavesNone, OthersStayAlways, ZenonT(30)
  <2>3. ASSUME NEW p \in touched' PROVE \E g \in open' : Announces(g, p)'
    <3>1. CASE h \in open' /\ Announces(h, p)'
      BY <3>1, ZenonT(30)
    <3>2. CASE p \in touched /\ ~(h \in open /\ Announces(h, p))
      <4>1. PICK g \in open : Announces(g, p)
        BY <3>2, ZenonT(30) DEF Announcer
      <4>2. g \in Handles \ {h}
        BY <3>2, <4>1, ZenonT(30) DEF HeapInv, ObjectsOK
      <4>3. g \in open' /\ Announces(g, p)'
        BY <2>2, <4>1, <4>2, ZenonT(30) DEF OthersStay, Announces
      <4> QED BY <4>3, ZenonT(30)
    <3> QED BY <2>2, <3>1, <3>2, ZenonT(30) DEF LeavesNone
  <2> QED BY <2>3, ZenonT(30) DEF Announcer
<1> QED BY <1>1, <1>2, ZenonT(30)

-----------------------------------------------------------------------------
(* A scan returns no record twice.                                         *)

\* What a scan has returned, has to return or has marked is in the file.
Tracked ==
  \A h \in Handles :
    /\ due[h] \subseteq FileRecords /\ seen[h] \subseteq FileRecords
    /\ marked[h] # <<>> => marked[h][3] \subseteq FileRecords /\ marked[h][4] \subseteq FileRecords

\* A call that is not deleteRecord leaves what the other objects track alone.
OthersTrack(h) ==
  \A g \in Handles \ {h} : due'[g] = due[g] /\ seen'[g] = seen[g] /\ marked'[g] = marked[g]

\* The object of such a call tracks records of the file.
OwnTrack(h) ==
  /\ due'[h] \subseteq FileRecords /\ seen'[h] \subseteq FileRecords
  /\ marked'[h] # <<>> => marked'[h][3] \subseteq FileRecords /\ marked'[h][4] \subseteq FileRecords

\* scanNext adds the record it returns.
LEMMA ScanTracks ==
  ASSUME HeapInv, Tracked, NEW h \in Handles, ScanNext(h)
  PROVE  OthersTrack(h) /\ OwnTrack(h)
<1>1. marked' = marked
  BY ZenonT(30) DEF ScanNext
<1>2. CASE UNCHANGED <<due, seen>>
  BY <1>1, <1>2, ZenonT(30) DEF OthersTrack, OwnTrack, Tracked
<1>3. ASSUME NEW pn, NEW c \in 2 .. size, NEW s \in Int, ScanFrom(h, pn, c, s)
      PROVE  OthersTrack(h) /\ OwnTrack(h)
  <2>1. PICK k \in 0 .. (MaxPages - 1), p \in c .. size :
          ScanFinds(h, pn, c, s, k, p) \/ UNCHANGED <<due, seen>>
    BY <1>3, ScanOutcome, ZenonT(30) DEF HeapInv, ScanStops, ScanRunsOut
  <2>2. CASE ScanFinds(h, pn, c, s, k, p)
    <3>1. PICK t \in Nat : /\ t + 1 \in Occupied(p)
                           /\ due' = [due EXCEPT ![h] = @ \ {slots[p][t + 1]}]
                           /\ seen' = [seen EXCEPT ![h] = @ \cup {slots[p][t + 1]}]
      BY <2>2, Zenon DEF ScanFinds
    <3>2. Holds(p, t + 1, slots[p][t + 1])
      BY <3>1 DEF Holds
    <3>3. slots[p][t + 1] \in FileRecords
      BY <3>2, RecordsInPlaces, ZenonT(30)
    <3>4. due'[h] \subseteq due[h] /\ seen'[h] = seen[h] \cup {slots[p][t + 1]}
      BY <3>1, ZenonT(30) DEF HeapInv, ObjectsOK
    <3>5. OwnTrack(h)
      BY <1>1, <3>3, <3>4, ZenonT(30) DEF OwnTrack, Tracked
    <3>6. OthersTrack(h)
      BY <1>1, <3>1, ZenonT(30) DEF OthersTrack, HeapInv, ObjectsOK
    <3> QED BY <3>5, <3>6, ZenonT(30)
  <2> QED BY <1>2, <2>1, <2>2, ZenonT(30)
<1>4. CASE curPageNo[h] # -1 /\ curPage[h] # Null
  <2>1. curPageNo[h] \in 2 .. size /\ curRec[h] \in Int /\ curPageNo[h] # 0
    BY <1>4, PlaceOf, Zenon DEF ScanNext
  <2>3. ScanFrom(h, UnPin(pins, curPageNo[h]), curPageNo[h], curRec[h])
    BY <1>4, <2>1, ZenonT(30) DEF ScanNext
  <2> QED BY <1>3, <2>1, <2>3, ZenonT(30)
<1>5. CASE curPageNo[h] = -1 \/ curPage[h] = Null
  <2>1. hdr.firstPage \in 2 .. size /\ -1 \in Int
    BY PageFacts, PlaceOf, Zenon DEF HeapInv, ScanNext
  <2>2. UNCHANGED <<due, seen>> \/ ScanFrom(h, pins, hdr.firstPage, -1)
    BY <1>5, Zenon DEF ScanNext
  <2> QED BY <1>2, <1>3, <2>1, <2>2, ZenonT(30)
<1> QED BY <1>4, <1>5, ZenonT(30)

\* Every call but deleteRecord.
LEMMA CallTracks ==
  ASSUME HeapInv, Tracked, NEW h \in Handles, Call(h), ~DeleteRecord(h)
  PROVE  OthersTrack(h) /\ OwnTrack(h)
<1>1. CASE Open(h)
  BY <1>1, ZenonT(30) DEF Open, OthersTrack, OwnTrack, HeapInv, ObjectsOK
<1>2. CASE Close(h)
  BY <1>2, ZenonT(30) DEF Close, OthersTrack, OwnTrack, HeapInv, ObjectsOK
<1>3. CASE EndScan(h)
  BY <1>3, ZenonT(30) DEF EndScan, OthersTrack, OwnTrack, HeapInv, ObjectsOK, Tracked
<1>4. CASE MarkScan(h)
  BY <1>4, ZenonT(30) DEF MarkScan, OthersTrack, OwnTrack, HeapInv, ObjectsOK, Tracked
<1>5. CASE ResetScan(h)
  BY <1>5, ZenonT(30) DEF ResetScan, OthersTrack, OwnTrack, HeapInv, ObjectsOK, Tracked
<1>6. CASE UNCHANGED <<due, seen, marked>>
  BY <1>6, ZenonT(30) DEF OthersTrack, OwnTrack, Tracked
<1> QED BY <1>1, <1>2, <1>3, <1>4, <1>5, <1>6, ScanTracks, Zenon DEF Call, GetRecord, InsertRecord

\* deleteRecord: the record is forgotten by all.
LEMMA DeleteTracks ==
  ASSUME HeapInv, OnePlace, NEW h \in Handles, DeleteRecord(h)
  PROVE  /\ FileRecords' = FileRecords \ {out[h]}
         /\ \A g \in Handles :
              /\ due'[g] = due[g] \ {out[h]} /\ seen'[g] = seen[g] \ {out[h]}
              /\ marked[g] = <<>> => marked'[g] = <<>>
              /\ marked[g] # <<>> =>
                   /\ marked'[g] # <<>> /\ marked'[g][1] = marked[g][1] /\ marked'[g][2] = marked[g][2]
                   /\ marked'[g][3] = marked[g][3] \ {out[h]} /\ marked'[g][4] = marked[g][4] \ {out[h]}
<1>1. /\ Holds(curPageNo[h], curRec[h] + 1, out[h])
      /\ \A q, j, x : Holds(q, j, x)' <=>
              Holds(q, j, x) /\ ~(q = curPageNo[h] /\ j = curRec[h] + 1)
  BY DeleteEffect, ZenonT(30)
<1>2. \A r : r \in FileRecords' <=> \E p, i : Holds(p, i, r)'
  BY DEF FileRecords, Holds
<1>3. ASSUME NEW r PROVE r \in FileRecords' <=> r \in FileRecords /\ r # out[h]
  <2>1. \A q, j : Holds(q, j, out[h]) => q = curPageNo[h] /\ j = curRec[h] + 1
    BY <1>1, ZenonT(30) DEF OnePlace
  <2>2. \A q, j, x : Holds(q, j, x) /\ q = curPageNo[h] /\ j = curRec[h] + 1 => x = out[h]
    BY <1>1, ZenonT(30) DEF Holds
  <2>3. \A q, j : Holds(q, j, r)' <=> Holds(q, j, r) /\ r # out[h]
    BY <1>1, <2>1, <2>2, ZenonT(30)
  <2> QED BY <1>2, <2>3, RecordsInPlaces, ZenonT(30)
<1>4. Forget(out[h])
  BY ZenonT(30) DEF DeleteRecord
<1> QED BY <1>3, <1>4, ZenonT(30) DEF Forget

\* Tracked is inductive.
LEMMA TrackedStep == HeapInv /\ OnePlace /\ Tracked /\ [Next]_vars => Tracked'
<1> SUFFICES ASSUME HeapInv, OnePlace, Tracked, [Next]_vars PROVE Tracked'
  OBVIOUS
<1>1. CASE UNCHANGED vars
  <2>1. UNCHANGED file /\ UNCHANGED <<due, seen, marked>>
    BY <1>1, Zenon DEF vars, file
  <2> QED BY <2>1, FileStays, Zenon DEF Tracked, HeapInv
<1>2. ASSUME NEW h \in Handles, DeleteRecord(h) PROVE Tracked'
  <2>1. FileRecords' = FileRecords \ {out[h]}
    BY <1>2, DeleteTracks, Zenon
  <2>2. ASSUME NEW g \in Handles
        PROVE  /\ due'[g] \subseteq FileRecords' /\ seen'[g] \subseteq FileRecords'
               /\ marked'[g] # <<>> => marked'[g][3] \subseteq FileRecords' /\ marked'[g][4] \subseteq FileRecords'
    <3>1. /\ due[g] \subseteq FileRecords /\ seen[g] \subseteq FileRecords
          /\ marked[g] # <<>> => marked[g][3] \subseteq FileRecords /\ marked[g][4] \subseteq FileRecords
      BY Zenon DEF Tracked
    <3>2. /\ due'[g] = due[g] \ {out[h]} /\ seen'[g] = seen[g] \ {out[h]}
          /\ marked'[g] # <<>> => /\ marked[g] # <<>> /\ marked'[g][3] = marked[g][3] \ {out[h]}
                                 /\ marked'[g][4] = marked[g][4] \ {out[h]}
      BY <1>2, DeleteTracks, ZenonT(30)
    <3> QED BY <2>1, <3>1, <3>2, ZenonT(30)
  <2> QED BY <2>2, Zenon DEF Tracked
<1>3. ASSUME NEW h \in Handles, Call(h), ~DeleteRecord(h) PROVE Tracked'
  <2>1. \A q, j, x : Holds(q, j, x) => Holds(q, j, x)'
    BY <1>3, CallOnPlaces, ZenonT(30) DEF PlacesStay, InsertedAt
  <2>2. \A r : r \in FileRecords' <=> \E p, i : Holds(p, i, r)'
    BY DEF FileRecords, Holds
  <2>3. FileRecords \subseteq FileRecords'
    BY <2>1, <2>2, RecordsInPlaces, ZenonT(30)
  <2>4. OthersTrack(h) /\ OwnTrack(h)
    BY <1>3, CallTracks, ZenonT(30)
  <2> QED BY <2>3, <2>4, ZenonT(30) DEF Tracked, OthersTrack, OwnTrack
<1> QED BY <1>1, <1>2, <1>3, NextIsCall, ZenonT(30)

\* Slot i of page p is not behind slot number s of page c, in scan order.
AtOrBefore(p, i, c, s) == p < c \/ (p = c /\ i - 1 <= s)

\* What the scan has returned is not behind its position, and what it had returned
\* when it was marked not behind the mark.
SeenOf(h) ==
  \A p, i, x : Holds(p, i, x) =>
    /\ x \in seen[h] => AtOrBefore(p, i, curPageNo[h], curRec[h])
    /\ marked[h] # <<>> /\ x \in marked[h][4] => AtOrBefore(p, i, marked[h][1], marked[h][2])

SeenBehind == \A h \in open \cap Scans : Usable(h) => SeenOf(h)

\* A step in the order of the scan.
LEMMA OrderFacts ==
  ASSUME NEW p \in Int, NEW i \in Int, NEW c \in Int, NEW s \in Int, NEW d \in Int, NEW t \in Int,
         AtOrBefore(p, i, c, s), c < d \/ (c = d /\ s <= t)
  PROVE  AtOrBefore(p, i, d, t)
BY DEF AtOrBefore

\* Places behind a position.
LEMMA BehindFacts ==
  ASSUME NEW p \in Int, NEW i \in Nat \ {0}, NEW c \in Int, NEW s \in Int
  PROVE  /\ ~AtOrBefore(p, i, c, s) <=> c < p \/ (c = p /\ i - 1 > s)
         /\ c < p => c <= p
         /\ c = p => c <= p
         /\ (i - 1) + 1 = i
         /\ i - 1 > s => i > s + 1
         /\ i > -1 + 1
         /\ s <= i - 1 /\ i # s + 1 => i - 1 > s
BY DEF AtOrBefore

\* A slot behind position s of page c, or any slot of a later page.
LEMMA NextIsBehind ==
  ASSUME NEW p \in Int, NEW c \in Int, NEW s \in Int, NEW t \in Nat, NEW k,
         k = 0 => p = c, k # 0 => c < p, k = 0 => t > s
  PROVE  ~AtOrBefore(p, t + 1, c, s)
BY DEF AtOrBefore

\* Such a slot lies forward of the position.
LEMMA NextIsForward ==
  ASSUME NEW p \in Int, NEW c \in Int, NEW s \in Int, NEW t \in Nat, NEW k,
         k = 0 => p = c, k # 0 => c < p, k = 0 => t > s
  PROVE  c < p \/ (c = p /\ s <= t)
BY SMTT(30)

\* Places have numbers.
LEMMA HoldTypes ==
  ASSUME FileOK, NEW p, NEW i, NEW x, Holds(p, i, x)
  PROVE  p \in 2 .. size /\ p \in Int /\ p \in PageNos /\ i \in Nat \ {0} /\ x \in Records
<1>1. p \in 2 .. size /\ i \in Occupied(p) /\ x = slots[p][i]
  BY ZenonT(30) DEF Holds
<1>2. p \in PageNos /\ p \in Int
  BY <1>1, PageFacts, SMTT(30)
<1> QED BY <1>1, <1>2, OccupiedFacts DEF FileOK

\* A call of scanNext on page c, which does not begin before the position: the
\* position moves forward, and the record returned was behind it.
LEMMA ScanFromSeen ==
  ASSUME HeapInv, OnePlace, NEW h \in Handles, h \in open, SeenOf(h), marked' = marked, UNCHANGED file,
         NEW pn, NEW c \in 2 .. size, NEW s \in Int, ScanFrom(h, pn, c, s),
         seen[h] = {} \/ (c = curPageNo[h] /\ s = curRec[h])
  PROVE  /\ Usable(h)' => SeenOf(h)'
         /\ repeated' = repeated
<1>0. PICK k \in 0 .. (MaxPages - 1), p \in c .. size :
           /\ (k = 0 => p = c) /\ (k # 0 => c < p)
           /\ \/ ScanStops(h, pn, c, s, k, p)
              \/ ScanFinds(h, pn, c, s, k, p)
              \/ ScanRunsOut(h, pn, c, s, k, p)
  BY ScanOutcome, Zenon DEF HeapInv
<1>1. p \in 2 .. size /\ p \in Int /\ c \in Int /\ size \in Int
  BY PageFacts DEF HeapInv
<1>2. \A q, j, x : Holds(q, j, x)' <=> Holds(q, j, x)
  BY FileStays, ZenonT(30) DEF HeapInv
<1>3. \A q, j, x : Holds(q, j, x) /\ x \in seen[h] => AtOrBefore(q, j, c, s)
  BY ZenonT(30) DEF SeenOf
<1>4. \A q, j, x : Holds(q, j, x)' /\ marked'[h] # <<>> /\ x \in marked'[h][4]
                    => AtOrBefore(q, j, marked'[h][1], marked'[h][2])
  BY <1>2, ZenonT(30) DEF SeenOf
<1>6. CASE ScanStops(h, pn, c, s, k, p)
  <2>1. out'[h] = "BUFFEREXCEEDED" /\ repeated' = repeated
    BY <1>6, Zenon DEF ScanStops, HeapInv, ObjectsOK
  <2> QED BY <2>1, Zenon DEF Usable, Failed
<1>7. CASE ScanFinds(h, pn, c, s, k, p)
  <2>1. PICK t \in Nat :
          /\ t + 1 \in Occupied(p) /\ slots[p][t + 1] \in Matches
          /\ k = 0 => t > s
          /\ curRec' = [curRec EXCEPT ![h] = t]
          /\ seen' = [seen EXCEPT ![h] = @ \cup {slots[p][t + 1]}]
          /\ slots[p][t + 1] \in Matches \ seen[h] => repeated' = repeated
          /\ out' = [out EXCEPT ![h] = slots[p][t + 1]]
    BY <1>7, ZenonT(30) DEF ScanFinds
  <2> DEFINE r == slots[p][t + 1]
  <2>2. /\ curPageNo'[h] = p /\ curRec'[h] = t /\ seen'[h] = seen[h] \cup {r} /\ out'[h] = r
    BY <1>7, <2>1, ZenonT(30) DEF ScanFinds, ScanMoves, HeapInv, ObjectsOK
  <2>3. Holds(p, t + 1, r)
    BY <1>1, <2>1, ZenonT(30) DEF Holds
  <2>4. r \notin seen[h]
    <3>1. ~AtOrBefore(p, t + 1, c, s)
      BY <1>0, <1>1, <2>1, NextIsBehind, ZenonT(30)
    <3> QED BY <1>3, <2>3, <3>1, ZenonT(30)
  <2>5. ASSUME NEW q, NEW j, NEW x, Holds(q, j, x), x \in seen'[h]
        PROVE  AtOrBefore(q, j, p, t)
    <3>1. CASE x = r
      <4>1. q = p /\ j = t + 1
        BY <2>3, <2>5, <3>1, Zenon DEF OnePlace
      <4> QED BY <1>1, <4>1, SMTT(30) DEF AtOrBefore
    <3>2. CASE x # r
      <4>1. AtOrBefore(q, j, c, s)
        BY <1>3, <2>2, <2>5, <3>2, Zenon
      <4>2. q \in Int /\ j \in Int
        BY <2>5, HoldTypes, SMTT(30) DEF HeapInv
      <4>3. c < p \/ (c = p /\ s <= t)
        BY <1>0, <1>1, <2>1, NextIsForward, ZenonT(30)
      <4>4. s \in Int /\ t \in Int
        BY <2>1, SMTT(30)
      <4> QED BY <1>1, <4>1, <4>2, <4>3, <4>4, OrderFacts, Zenon
    <3> QED BY <3>1, <3>2, Zenon
  <2>6. SeenOf(h)'
    BY <1>2, <1>4, <2>2, <2>5, Zenon DEF SeenOf
  <2> QED BY <2>1, <2>2, <2>4, <2>6, ZenonT(30)
<1>8. CASE ScanRunsOut(h, pn, c, s, k, p)
  <2>1. PICK t \in Int : curRec' = [curRec EXCEPT ![h] = t] /\ (k = 0 => t >= s)
    BY <1>8, Zenon DEF ScanRunsOut
  <2>2. /\ curPageNo'[h] = p /\ curRec'[h] = t /\ seen' = seen /\ repeated' = repeated
    BY <1>8, <2>1, ZenonT(30) DEF ScanRunsOut, ScanMoves, HeapInv, ObjectsOK
  <2>3. ASSUME NEW q, NEW j, NEW x, Holds(q, j, x), x \in seen[h]
        PROVE  AtOrBefore(q, j, p, t)
    <3>1. AtOrBefore(q, j, c, s)
      BY <1>3, <2>3, ZenonT(30)
    <3>2. q \in Int /\ j \in Int
      BY <2>3, HoldTypes DEF HeapInv
    <3>3. c < p \/ (c = p /\ s <= t)
      BY <1>0, <1>1, <2>1, Zenon
    <3> QED BY <1>1, <3>1, <3>2, <3>3, OrderFacts, ZenonT(30)
  <2>4. SeenOf(h)'
    BY <1>2, <1>4, <2>2, <2>3, Zenon DEF SeenOf
  <2> QED BY <2>2, <2>4, ZenonT(30)
<1> QED BY <1>0, <1>6, <1>7, <1>8, ZenonT(30)

\* scanNext.
LEMMA ScanNextSeen ==
  ASSUME HeapInv, OnePlace, SeenBehind, NEW h \in Handles, ScanNext(h)
  PROVE  /\ Usable(h)' => SeenOf(h)'
         /\ repeated' = repeated
<1>0. h \in open /\ h \in Scans /\ Usable(h) /\ SeenOf(h) /\ marked' = marked /\ UNCHANGED file
  BY ZenonT(30) DEF ScanNext, Usable, SeenBehind
<1>2. CASE curPageNo[h] # -1 /\ curPage[h] # Null
  <2>1. curPageNo[h] \in 2 .. size /\ curRec[h] \in Int /\ curPageNo[h] # 0
    BY <1>0, <1>2, PlaceOf, Zenon
  <2>3. ScanFrom(h, UnPin(pins, curPageNo[h]), curPageNo[h], curRec[h])
    BY <1>2, <2>1, Zenon DEF ScanNext
  <2> QED BY <1>0, <2>1, <2>3, ScanFromSeen, Zenon
<1>3. CASE curPageNo[h] = -1 \/ curPage[h] = Null
  <2>1. seen[h] = {}
    BY <1>0, <1>3, PlaceOf, Zenon
  <2>2. hdr.firstPage \in 2 .. size /\ -1 \in Int
    BY <1>0, PageFacts, PlaceOf, Zenon DEF HeapInv
  <2>3. CASE ScanFrom(h, pins, hdr.firstPage, -1)
    BY <1>0, <2>1, <2>2, <2>3, ScanFromSeen, ZenonT(30)
  <2>4. CASE seen' = seen /\ repeated' = repeated
    <3>1. \A q, j, x : Holds(q, j, x)' <=> Holds(q, j, x)
      BY <1>0, FileStays, Zenon DEF HeapInv
    <3>2. SeenOf(h)'
      BY <1>0, <2>1, <2>4, <3>1, Zenon DEF SeenOf
    <3> QED BY <2>4, <3>2, Zenon
  <2>5. \/ ScanFrom(h, pins, hdr.firstPage, -1)
        \/ seen' = seen /\ repeated' = repeated
    BY <1>3, ZenonT(30) DEF ScanNext
  <2> QED BY <2>3, <2>4, <2>5, Zenon
<1> QED BY <1>2, <1>3, Zenon

\* The other calls of a scan.
LEMMA OwnSeen ==
  ASSUME HeapInv, SeenBehind, NEW h \in Handles, h \in Scans, Call(h), ~ScanNext(h), Usable(h)'
  PROVE  SeenOf(h)'
<1>0. Statuses \cap Records = {} /\ out \in [Handles -> Records \cup Statuses] /\ h \notin Heaps
      /\ h \notin Inserts
  BY RecordsAssumption, KindsAssumption, Zenon DEF HeapInv, ObjectsOK
<1>1. CASE Open(h)
  <2>1. seen'[h] = {} /\ marked'[h] = <<>> /\ out'[h] = "OK"
    BY <1>1, ZenonT(30) DEF Open, HeapInv, ObjectsOK
  <2> QED BY <1>0, <2>1, Zenon DEF SeenOf, Statuses
<1>2. CASE Close(h)
  BY <1>2, Zenon DEF Close, Usable
<1>3. ASSUME UNCHANGED file, Usable(h)
      PROVE  SeenOf(h) /\ \A q, j, x : Holds(q, j, x)' <=> Holds(q, j, x)
  BY <1>3, FileStays, Zenon DEF SeenBehind, HeapInv, Usable
<1>4. CASE EndScan(h)
  <2>1. seen'[h] = {} /\ marked' = marked /\ out'[h] = "OK" /\ UNCHANGED file /\ Usable(h)
    BY <1>4, Zenon DEF EndScan, HeapInv, ObjectsOK
  <2> QED BY <1>0, <1>3, <2>1, Zenon DEF SeenOf, Statuses
<1>5. CASE MarkScan(h)
  <2>1. /\ marked'[h][1] = curPageNo[h] /\ marked'[h][2] = curRec[h] /\ marked'[h][4] = seen[h]
        /\ out'[h] = "OK" /\ UNCHANGED <<file, curPageNo, curRec, seen>> /\ Usable(h)
    BY <1>5, Zenon DEF MarkScan, HeapInv, ObjectsOK
  <2> QED BY <1>0, <1>3, <2>1, Zenon DEF SeenOf, Statuses
<1>6. CASE ResetScan(h)
  <2>1. /\ curPageNo'[h] = marked[h][1] /\ curRec'[h] = marked[h][2] /\ seen'[h] = marked[h][4]
        /\ UNCHANGED <<file, marked>> /\ Usable(h) /\ marked[h] # <<>>
    BY <1>6, Zenon DEF ResetScan, MarkedRec, HeapInv, ObjectsOK
  <2>2. out'[h] \in {"OK", "BUFFEREXCEEDED"}
    BY <1>6, Zenon DEF ResetScan, HeapInv, ObjectsOK
  <2> QED BY <1>0, <1>3, <2>1, <2>2, Zenon DEF SeenOf, Statuses
<1>7. CASE DeleteRecord(h)
  <2>1. Usable(h) /\ out'[h] = "OK" /\ UNCHANGED <<curPageNo, curRec>> /\ Forget(out[h])
    BY <1>7, ZenonT(30) DEF DeleteRecord, CanDelete, HeapInv, ObjectsOK
  <2>2. SeenOf(h)
    BY <2>1, ZenonT(30) DEF SeenBehind, Usable
  <2>3. \A q, j, x : Holds(q, j, x)' => Holds(q, j, x)
    BY <1>7, DeleteEffect, Zenon
  <2>4. seen'[h] \subseteq seen[h] /\
        (marked'[h] # <<>> => /\ marked[h] # <<>> /\ marked'[h][1] = marked[h][1]
                              /\ marked'[h][2] = marked[h][2] /\ marked'[h][4] \subseteq marked[h][4])
    BY <2>1, ZenonT(30) DEF Forget
  <2> QED BY <1>0, <2>1, <2>2, <2>3, <2>4, ZenonT(30) DEF SeenOf, Statuses
<1> QED BY <1>0, <1>1, <1>2, <1>4, <1>5, <1>6, <1>7, ZenonT(30) DEF Call, GetRecord, InsertRecord

\* A call keeps the order of what the other scans have returned.
LEMMA OthersSeen ==
  ASSUME HeapInv, OnePlace, Tracked, SeenBehind, NEW h \in Handles, Call(h),
         NEW g \in Scans, g # h, g \in open', Usable(g)'
  PROVE  SeenOf(g)'
<1>0. g \in Handles \ {h}
  BY ZenonT(30) DEF Handles
<1>1. /\ g \in open /\ Usable(g) /\ SeenOf(g)
      /\ curPageNo'[g] = curPageNo[g] /\ curRec'[g] = curRec[g]
  BY <1>0, OthersStayAlways, Zenon DEF OthersStay, Usable, SeenBehind
<1>2. CASE DeleteRecord(h)
  <2>1. \A q, j, x : Holds(q, j, x)' => Holds(q, j, x)
    BY <1>2, DeleteEffect, Zenon
  <2>2. seen'[g] \subseteq seen[g] /\
        (marked'[g] # <<>> => /\ marked[g] # <<>> /\ marked'[g][1] = marked[g][1]
                              /\ marked'[g][2] = marked[g][2] /\ marked'[g][4] \subseteq marked[g][4])
    BY <1>0, <1>2, DeleteTracks, Zenon
  <2> QED BY <1>1, <2>1, <2>2, ZenonT(30) DEF SeenOf
<1>3. CASE ~DeleteRecord(h)
  <2>1. seen'[g] = seen[g] /\ marked'[g] = marked[g]
    BY <1>0, <1>3, CallTracks, ZenonT(30) DEF OthersTrack
  <2>2. \A q, j, x : Holds(q, j, x)' => Holds(q, j, x) \/ x \notin FileRecords
    BY <1>3, CallOnPlaces, ZenonT(30) DEF PlacesStay, InsertedAt
  <2>3. seen[g] \subseteq FileRecords /\ (marked[g] # <<>> => marked[g][4] \subseteq FileRecords)
    BY <1>0, ZenonT(30) DEF Tracked
  <2> QED BY <1>1, <2>1, <2>2, <2>3, ZenonT(30) DEF SeenOf
<1> QED BY <1>2, <1>3, ZenonT(30)

\* SeenBehind is inductive.
LEMMA SeenBehindStep == HeapInv /\ OnePlace /\ Tracked /\ SeenBehind /\ [Next]_vars => SeenBehind'
<1> SUFFICES ASSUME HeapInv, OnePlace, Tracked, SeenBehind, [Next]_vars PROVE SeenBehind'
  BY ZenonT(30)
<1>1. CASE UNCHANGED vars
  BY <1>1, ZenonT(30) DEF vars, SeenBehind, SeenOf, Usable, Holds, Occupied
<1>2. ASSUME NEW h \in Handles, Call(h) PROVE SeenBehind'
  <2>1. ASSUME NEW g \in open' \cap Scans, Usable(g)' PROVE SeenOf(g)'
    <3>1. CASE g # h
      BY <1>2, <2>1, <3>1, OthersSeen, ZenonT(30)
    <3>2. CASE g = h /\ ScanNext(h)
      BY <2>1, <3>2, ScanNextSeen, ZenonT(30)
    <3>3. CASE g = h /\ ~ScanNext(h)
      BY <1>2, <2>1, <3>3, OwnSeen, ZenonT(30)
    <3> QED BY <3>1, <3>2, <3>3, ZenonT(30)
  <2> QED BY <2>1, ZenonT(30) DEF SeenBehind
<1> QED BY <1>1, <1>2, NextIsCall, ZenonT(30)

\* No step returns a record again.
LEMMA ReturnsNew ==
  ASSUME HeapInv, OnePlace, SeenBehind, Next
  PROVE  repeated' = repeated
<1>1. PICK h \in Handles : Call(h)
  BY NextIsCall, Zenon
<1>2. CASE ScanNext(h)
  BY <1>2, ScanNextSeen, Zenon
<1>3. CASE ~ScanNext(h)
  BY <1>1, <1>3, ZenonT(30) DEF Call, Open, Close, GetRecord, EndScan, MarkScan, ResetScan, DeleteRecord,
                                InsertRecord
<1> QED BY <1>2, <1>3

=============================================================================
