--------------------------- MODULE StorageProofs ----------------------------
(***************************************************************************)
(* Proofs about what lies on disk and the table of what is open there.     *)
(* The slotted page of page.C, for every page size, slot size and set of   *)
(* record lengths.  The file layer, db.C: the free list of a file, for     *)
(* every bound on its size and whatever fails, and the table of open files,*)
(* for any number of names, File objects and handles, whatever fails and   *)
(* whenever the program crashes.                                           *)
(***************************************************************************)
EXTENDS Page, DB, DBFile, FiniteSetTheorems, WellFoundedInduction, TLAPS

-----------------------------------------------------------------------------
(* The slotted page                                                        *)

\* A nonempty set of natural numbers has a least element.
LEMMA LeastNat ==
  ASSUME NEW T, T \subseteq Nat, T # {}
  PROVE  \E x \in T : \A y \in T : x <= y
<1> DEFINE R == OpToRel(<, Nat)
<1>1. IsWellFoundedOn(R, Nat)
  BY NatLessThanWellFounded, Zenon
<1> HIDE DEF R
<1>2. PICK x \in T : \A y \in T : ~(<<y, x>> \in R)
  BY <1>1, WFMin, Zenon
<1>3. ASSUME NEW y \in T PROVE x <= y
  <2>1. x \in Nat /\ y \in Nat
    BY <1>2
  <2>2. y < x => <<y, x>> \in R
    BY <2>1 DEF R, OpToRel
  <2> QED BY <2>1, <2>2, <1>2
<1> QED BY <1>2, <1>3

\* The inductive invariant.
PageInv ==
  /\ PTypeOK
  /\ SpaceAccounted
  /\ RecordsDisjoint
  /\ Compacted
  /\ NoEmptyTail
  /\ \A s \in Used : length[s] \in Lengths

\* A slot takes at least a byte.
LEMMA SlotsTakeSpace ==
  ASSUME NEW S \in Nat \ {0}, NEW n \in Nat
  PROVE  n <= S * n /\ S * n \in Nat
OBVIOUS

\* The difference of two natural numbers.
LEMMA NatDifference ==
  ASSUME NEW n \in Nat, NEW m \in Nat, m <= n
  PROVE  \E k \in Nat : k = n - m /\ n = k + m
<1>1. n - m \in Nat
  OBVIOUS
<1>2. n = (n - m) + m
  OBVIOUS
<1> QED BY <1>1, <1>2

\* The space of slots adds up.
LEMMA SlotsAddUp ==
  ASSUME NEW S \in Nat, NEW a \in Nat, NEW b \in Nat
  PROVE  S * (a + b) = S * a + S * b
OBVIOUS

\* The space of one slot less.
LEMMA OneSlotLess ==
  ASSUME NEW S \in Nat, NEW n \in Nat
  PROVE  S * (n - 1) = S * n - S
OBVIOUS

\* A slot in use has a record of at least a byte that ends by freePtr.
LEMMA UsedFacts ==
  ASSUME PageInv
  PROVE  \A t \in Used : /\ t \in Slots /\ offset[t] \in Nat /\ length[t] \in Nat /\ length[t] > 0
                         /\ offset[t] + length[t] <= freePtr
<1> SUFFICES ASSUME NEW t \in Used
             PROVE  /\ t \in Slots /\ offset[t] \in Nat /\ length[t] \in Nat /\ length[t] > 0
                    /\ offset[t] + length[t] <= freePtr
  OBVIOUS
<1>1. t \in Slots
  BY DEF Used
<1>2. offset[t] \in Nat
  BY <1>1, SizeAssumption DEF PageInv, PTypeOK
<1>3. length[t] \in Nat /\ length[t] > 0
  <2>1. length[t] \in Lengths
    BY DEF PageInv
  <2>2. length[t] \in Nat \ {0}
    BY <2>1, LengthsAssumption, Zenon
  <2> QED BY <2>2
<1>4. offset[t] + length[t] <= freePtr
  BY DEF PageInv, RecordsDisjoint
<1> QED BY <1>1, <1>2, <1>3, <1>4

\* insertRecord's search finds the first empty slot or the next new one.
LEMMA InsertSlotFacts ==
  ASSUME PTypeOK
  PROVE  /\ InsertSlot \in 0 .. nslots
         /\ InsertSlot = nslots \/ length[InsertSlot] = -1
<1> DEFINE T == {s \in 0 .. nslots : s = nslots \/ length[s] = -1}
<1>1. nslots \in Nat
  BY SizeAssumption DEF PTypeOK, Slots
<1>2. T \subseteq Nat /\ nslots \in T
  BY <1>1
<1>3. PICK s \in T : \A t \in T : s <= t
  BY <1>2, LeastNat, Zenon
<1>4. /\ s \in 0 .. nslots
      /\ s = nslots \/ length[s] = -1
      /\ \A t \in 0 .. (s - 1) : length[t] # -1
  <2>1. ASSUME NEW t \in 0 .. (s - 1) PROVE length[t] # -1
    <3>1. t \in 0 .. nslots /\ t < s
      BY <1>1, <1>3
    <3> QED BY <1>3, <3>1
  <2> QED BY <1>3, <2>1
<1> QED BY <1>4 DEF InsertSlot

\* deleteRecord's trimming stops behind the last slot in use.
LEMMA TrimmedCountFacts ==
  ASSUME PTypeOK, nslots > 0
  PROVE  /\ TrimmedCount \in 0 .. (nslots - 1)
         /\ TrimmedCount = 0 \/ length[TrimmedCount - 1] # -1
         /\ \A t \in TrimmedCount .. (nslots - 2) : length[t] = -1
<1> DEFINE T == {m \in 0 .. (nslots - 1) : \A t \in m .. (nslots - 2) : length[t] = -1}
<1>1. nslots \in Nat
  BY SizeAssumption DEF PTypeOK, Slots
<1>2. T \subseteq Nat /\ nslots - 1 \in T
  BY <1>1
<1>3. PICK m \in T : \A t \in T : m <= t
  BY <1>2, LeastNat, Zenon
<1>4. m = 0 \/ length[m - 1] # -1
  <2> SUFFICES ASSUME m # 0, length[m - 1] = -1 PROVE FALSE
    OBVIOUS
  <2>1. m - 1 \in T
    BY <1>1, <1>3
  <2> QED BY <1>1, <1>3, <2>1
<1>5. /\ m \in 0 .. (nslots - 1)
      /\ m = 0 \/ length[m - 1] # -1
      /\ \A t \in m .. (nslots - 2) : length[t] = -1
  BY <1>4
<1> QED BY <1>5 DEF TrimmedCount

\* insertRecord keeps the page consistent.
LEMMA InsertKeeps ==
  ASSUME PageInv, NEW n \in Lengths, NEW r \in [0 .. (n - 1) -> Bytes], InsertRecord(r, n)
  PROVE  PageInv'
<1>1. CASE n + SlotSize > freeSpace
  <2>1. UNCHANGED <<data, offset, length, nslots, freePtr, freeSpace>> /\ result' = "NOSPACE"
    BY <1>1 DEF InsertRecord
  <2> QED BY <2>1 DEF PageInv, PTypeOK, SpaceAccounted, RecordsDisjoint, Compacted, NoEmptyTail, Used
<1>2. CASE ~(n + SlotSize > freeSpace)
  <2> DEFINE i == InsertSlot
  <2>1. i \in 0 .. nslots /\ (i = nslots \/ length[i] = -1)
    BY InsertSlotFacts DEF PageInv
  <2> HIDE DEF i
  <2>2. /\ nslots' = IF i = nslots THEN nslots + 1 ELSE nslots
        /\ freeSpace' = IF i = nslots THEN freeSpace - (n + SlotSize) ELSE freeSpace - n
        /\ offset' = [offset EXCEPT ![i] = freePtr]
        /\ length' = [length EXCEPT ![i] = n]
        /\ data' = [a \in Addresses |-> IF freePtr <= a /\ a < freePtr + n THEN r[a - freePtr] ELSE data[a]]
        /\ freePtr' = freePtr + n
        /\ result' = "OK"
    BY <1>2 DEF InsertRecord, i
  <2>3. /\ n \in Nat /\ n > 0 /\ SlotSize \in Nat /\ SlotSize > 0 /\ DataSize \in Nat
        /\ nslots \in 0 .. DataSize /\ freePtr \in 0 .. DataSize /\ freeSpace \in 0 .. DataSize
    BY SizeAssumption, LengthsAssumption DEF PageInv, PTypeOK, Slots
  <2>4. freeSpace = DataSize - freePtr - SlotSize * nslots
    BY DEF PageInv, SpaceAccounted
  <2>5. nslots + 1 <= SlotSize * (nslots + 1) /\ SlotSize * (nslots + 1) = SlotSize * nslots + SlotSize
    <3>1. nslots + 1 <= SlotSize * (nslots + 1)
      BY <2>3, SlotsTakeSpace
    <3> QED BY <2>3, <3>1
  <2>6. SlotSize * nslots \in Nat
    BY <2>3, SlotsTakeSpace
  <2>7. /\ freePtr + n \in 0 .. DataSize /\ nslots + 1 \in 0 .. DataSize
        /\ freePtr + n + SlotSize * nslots + SlotSize <= DataSize
    BY <1>2, <2>3, <2>4, <2>5, <2>6
  <2>8. PTypeOK'
    <3>1. data' \in [Addresses -> Bytes]
      BY <2>2, <2>3 DEF PageInv, PTypeOK, Addresses
    <3>2. freeSpace' \in 0 .. DataSize
      BY <1>2, <2>2, <2>3
    <3>3. offset' \in [Slots -> 0 .. DataSize] /\ length' \in [Slots -> -1 .. DataSize]
      <4>1. n \in -1 .. DataSize
        BY <2>3, <2>7
      <4>2. freePtr \in 0 .. DataSize
        BY <2>3
      <4>3. offset \in [Slots -> 0 .. DataSize] /\ length \in [Slots -> -1 .. DataSize]
        BY DEF PageInv, PTypeOK
      <4> QED BY <2>2, <4>1, <4>2, <4>3, Zenon
    <3>4. nslots' \in Slots /\ freePtr' \in 0 .. DataSize /\ result' = "OK"
      BY <2>2, <2>3, <2>7 DEF Slots
    <3> QED BY <3>1, <3>2, <3>3, <3>4 DEF PTypeOK
  <2>9. SpaceAccounted'
    <3>1. CASE i = nslots
      BY <2>2, <2>3, <2>4, <2>5, <2>6, <2>7, <3>1 DEF SpaceAccounted
    <3>2. CASE i # nslots
      <4>1. SlotSize * (nslots - 1) = SlotSize * nslots - SlotSize
        BY <2>3
      <4> QED BY <2>2, <2>3, <2>4, <2>6, <2>7, <3>2, <4>1 DEF SpaceAccounted
    <3> QED BY <3>1, <3>2
  <2>10. /\ i \in Used' /\ i \notin Used /\ offset'[i] = freePtr /\ length'[i] = n
         /\ \A s \in Used' : s # i => s \in Used /\ offset'[s] = offset[s] /\ length'[s] = length[s]
         /\ Used \subseteq Used'
    <3>1. i \in Slots /\ DOMAIN offset = Slots /\ DOMAIN length = Slots
      BY <2>1, <2>3 DEF Slots, PageInv, PTypeOK
    <3>2. i < nslots' /\ nslots <= nslots' /\ (\A s \in Slots : s < nslots' /\ s # i => s < nslots)
      BY <2>1, <2>2, <2>3 DEF Slots
    <3>3. i \notin Used
      BY <2>1, <2>3 DEF Used
    <3>4. \A s \in Slots : s # i => offset'[s] = offset[s] /\ length'[s] = length[s]
      BY <2>2, <3>1
    <3>5. offset'[i] = freePtr /\ length'[i] = n /\ n # -1
      BY <2>2, <2>3, <3>1
    <3>6. i \in Used'
      BY <3>1, <3>2, <3>5 DEF Used
    <3>7. \A s \in Used' : s # i => s \in Used
      BY <3>2, <3>4 DEF Used
    <3>8. \A s \in Used : s \in Used'
      BY <2>2, <2>3, <3>2, <3>3, <3>4 DEF Used, Slots
    <3>9. Used' \subseteq Slots
      BY DEF Used
    <3> QED BY <3>3, <3>4, <3>5, <3>6, <3>7, <3>8, <3>9
  <2>11. \A s \in Used : /\ offset[s] \in Nat /\ length[s] \in Nat /\ length[s] > 0
                         /\ offset[s] + length[s] <= freePtr
    BY UsedFacts
  <2>12. RecordsDisjoint'
    <3>1. ASSUME NEW s \in Used', NEW t \in Used', s # t
          PROVE  \/ offset'[s] + length'[s] <= offset'[t]
                 \/ offset'[t] + length'[t] <= offset'[s]
      <4>1. CASE s = i
        BY <2>10, <2>11, <3>1, <4>1
      <4>2. CASE t = i
        BY <2>10, <2>11, <3>1, <4>2
      <4>3. CASE s # i /\ t # i
        BY <2>10, <3>1, <4>3 DEF PageInv, RecordsDisjoint
      <4> QED BY <4>1, <4>2, <4>3
    <3>2. ASSUME NEW s \in Used' PROVE offset'[s] + length'[s] <= freePtr'
      BY <2>2, <2>3, <2>10, <2>11
    <3> QED BY <3>1, <3>2 DEF RecordsDisjoint
  <2>13. Compacted'
    <3> SUFFICES ASSUME NEW a \in 0 .. (freePtr' - 1)
                 PROVE  \E s \in Used' : offset'[s] <= a /\ a < offset'[s] + length'[s]
      BY DEF Compacted
    <3>1. CASE a < freePtr
      <4>1. a \in 0 .. (freePtr - 1)
        BY <2>2, <2>3, <3>1
      <4>2. PICK s \in Used : offset[s] <= a /\ a < offset[s] + length[s]
        BY <4>1 DEF PageInv, Compacted
      <4> QED BY <2>10, <4>2
    <3>2. CASE a >= freePtr
      BY <2>2, <2>3, <2>10, <3>2
    <3> QED BY <2>2, <2>3, <3>1, <3>2
  <2>14. NoEmptyTail'
    <3>1. CASE nslots' - 1 = i
      BY <2>3, <2>10, <3>1 DEF NoEmptyTail
    <3>2. CASE nslots' - 1 # i
      <4>1. nslots' = nslots /\ nslots > 0 /\ nslots - 1 \in Slots
        BY <2>1, <2>2, <2>3, <3>2 DEF Slots
      <4>2. length'[nslots - 1] = length[nslots - 1]
        BY <2>2, <3>2, <4>1 DEF PageInv, PTypeOK
      <4> QED BY <4>1, <4>2 DEF NoEmptyTail, PageInv
    <3> QED BY <3>1, <3>2
  <2>15. \A s \in Used' : length'[s] \in Lengths
    BY <2>10 DEF PageInv
  <2> QED BY <2>8, <2>9, <2>12, <2>13, <2>14, <2>15 DEF PageInv
<1> QED BY <1>1, <1>2

\* What deleteRecord does to a page: the slot goes, the records left of it stay
\* and those right of it move by its length.
LEMMA DeleteEffect ==
  ASSUME PageInv, NEW s \in Slots, ValidSlot(s), DeleteRecord(s)
  PROVE  /\ DataSize \in Nat /\ SlotSize \in Nat /\ SlotSize > 0 /\ nslots \in 0 .. DataSize
         /\ freePtr \in 0 .. DataSize /\ freeSpace \in 0 .. DataSize
         /\ length[s] \in Nat /\ length[s] > 0 /\ freePtr' = freePtr - length[s] /\ freePtr' \in 0 .. DataSize
         /\ offset[s] \in Nat /\ offset[s] + length[s] <= freePtr
         /\ result' = "OK" /\ data' = DataWithout(s)
         /\ s \in Used /\ Used' = Used \ {s}
         /\ offset' \in [Slots -> 0 .. DataSize] /\ length' \in [Slots -> -1 .. DataSize]
         /\ nslots' \in 0 .. nslots
         /\ freeSpace' = freeSpace + length[s] + SlotSize * (nslots - nslots')
         /\ NoEmptyTail'
         /\ \A t \in Used' :
              /\ t \in Used /\ t \in Slots /\ t # s /\ length'[t] = length[t]
              /\ \/ offset[t] + length[t] <= offset[s] /\ offset'[t] = offset[t]
                 \/ offset[s] + length[s] <= offset[t] /\ offset'[t] = offset[t] - length[s]
<1> DEFINE d == length[s]
<1>1. s \in Used
  BY DEF ValidSlot, Used
<1>2. \A t \in Used : /\ t \in Slots /\ offset[t] \in Nat /\ length[t] \in Nat /\ length[t] > 0
                      /\ offset[t] + length[t] <= freePtr
  BY UsedFacts
<1>3. /\ DataSize \in Nat /\ SlotSize \in Nat /\ SlotSize > 0 /\ nslots \in 0 .. DataSize
      /\ freePtr \in 0 .. DataSize /\ freeSpace \in 0 .. DataSize
      /\ d \in Nat /\ d > 0 /\ freePtr' = freePtr - d /\ freePtr' \in 0 .. DataSize
      /\ offset[s] \in Nat /\ offset[s] + d <= freePtr
      /\ nslots > 0 /\ result' = "OK" /\ data' = DataWithout(s)
  <2>1. d \in Nat /\ d > 0 /\ offset[s] \in Nat /\ offset[s] + d <= freePtr
    BY <1>1, <1>2
  <2>2. /\ DataSize \in Nat /\ SlotSize \in Nat /\ SlotSize > 0 /\ nslots \in 0 .. DataSize
        /\ freePtr \in 0 .. DataSize /\ freeSpace \in 0 .. DataSize
    BY SizeAssumption DEF PageInv, PTypeOK, Slots
  <2>3. freePtr' = freePtr - d /\ result' = "OK" /\ data' = DataWithout(s)
    BY DEF DeleteRecord
  <2>4. nslots > 0
    BY <2>2 DEF ValidSlot, Slots
  <2> QED BY <2>1, <2>2, <2>3, <2>4
<1>4. \A t \in Used : t # s => \/ offset[t] + length[t] <= offset[s]
                               \/ offset[s] + d <= offset[t]
  BY <1>1 DEF PageInv, RecordsDisjoint
<1> HIDE DEF d
<1>5. ASSUME NEW t \in Slots
      PROVE  OffsetsWithout(s)[t] = IF t \in Used /\ offset[t] > offset[s] THEN offset[t] - d ELSE offset[t]
  <2>1. length[t] >= 0 <=> length[t] # -1
    BY SizeAssumption DEF PageInv, PTypeOK
  <2> QED BY <2>1 DEF OffsetsWithout, Used, d
<1>6. OffsetsWithout(s) \in [Slots -> 0 .. DataSize]
  <2>1. ASSUME NEW t \in Slots PROVE OffsetsWithout(s)[t] \in 0 .. DataSize
    <3>1. offset[t] \in 0 .. DataSize
      BY DEF PageInv, PTypeOK
    <3>2. CASE t \in Used /\ offset[t] > offset[s]
      <4>1. t # s /\ offset[s] + d <= offset[t]
        BY <1>2, <1>3, <1>4, <3>2
      <4> QED BY <1>3, <1>5, <3>1, <3>2, <4>1
    <3>3. CASE ~(t \in Used /\ offset[t] > offset[s])
      BY <1>5, <3>1, <3>3
    <3> QED BY <3>2, <3>3
  <2> QED BY <2>1 DEF OffsetsWithout
<1>7. /\ Used' = Used \ {s}
      /\ \A t \in Used' : length'[t] = length[t] /\ offset'[t] = OffsetsWithout(s)[t]
      /\ offset' \in [Slots -> 0 .. DataSize] /\ length' \in [Slots -> -1 .. DataSize]
      /\ nslots' \in 0 .. nslots
      /\ freeSpace' = freeSpace + d + SlotSize * (nslots - nslots')
      /\ NoEmptyTail'
  <2>0. length \in [Slots -> -1 .. DataSize] /\ Slots = 0 .. DataSize
    BY DEF PageInv, PTypeOK, Slots
  <2>1. CASE s = nslots - 1
    <3> DEFINE m == TrimmedCount
    <3>1. m \in 0 .. (nslots - 1) /\ (m = 0 \/ length[m - 1] # -1) /\ \A t \in m .. (nslots - 2) : length[t] = -1
      BY <1>3, TrimmedCountFacts DEF PageInv
    <3> HIDE DEF m
    <3>2. /\ nslots' = m /\ freeSpace' = freeSpace + d + SlotSize * (nslots - m)
          /\ offset' = OffsetsWithout(s) /\ length' = length
      BY <2>1 DEF DeleteRecord, m, d
    <3>3. Used' = Used \ {s}
      <4>1. ASSUME NEW t \in Used' PROVE t \in Used \ {s}
        BY <1>3, <2>0, <2>1, <3>1, <3>2 DEF Used
      <4>2. ASSUME NEW t \in Used \ {s} PROVE t \in Used'
        <5>1. t \in Slots /\ t < nslots /\ length[t] # -1 /\ t # nslots - 1
          BY <2>1 DEF Used
        <5>2. t < m
          BY <1>3, <2>0, <3>1, <5>1
        <5> QED BY <3>2, <5>1, <5>2 DEF Used
      <4> QED BY <4>1, <4>2
    <3>4. NoEmptyTail'
      BY <3>1, <3>2 DEF NoEmptyTail
    <3>5. nslots' \in 0 .. nslots
      BY <1>3, <3>1, <3>2
    <3> QED BY <1>6, <2>0, <3>2, <3>3, <3>4, <3>5
  <2>2. CASE s # nslots - 1
    <3>1. /\ nslots' = nslots /\ freeSpace' = freeSpace + d
          /\ offset' = [OffsetsWithout(s) EXCEPT ![s] = 0] /\ length' = [length EXCEPT ![s] = -1]
      BY <2>2 DEF DeleteRecord, d
    <3>2. Used' = Used \ {s}
      BY <1>1, <2>0, <3>1 DEF Used
    <3>3. \A t \in Used' : t \in Slots /\ length'[t] = length[t] /\ offset'[t] = OffsetsWithout(s)[t]
      BY <1>6, <2>0, <3>1, <3>2 DEF Used
    <3>4. offset' \in [Slots -> 0 .. DataSize] /\ length' \in [Slots -> -1 .. DataSize]
      <4>1. 0 \in 0 .. DataSize /\ -1 \in -1 .. DataSize
        BY <1>3
      <4> QED BY <1>6, <2>0, <3>1, <4>1
    <3>5. NoEmptyTail'
      BY <1>3, <2>0, <2>2, <3>1 DEF PageInv, NoEmptyTail
    <3>6. SlotSize * (nslots - nslots') = 0
      BY <1>3, <3>1
    <3> QED BY <1>3, <3>1, <3>2, <3>3, <3>4, <3>5, <3>6
  <2> QED BY <2>1, <2>2
<1>8. ASSUME NEW t \in Used'
       PROVE  /\ t \in Used /\ t \in Slots /\ t # s /\ length'[t] = length[t]
              /\ \/ offset[t] + length[t] <= offset[s] /\ offset'[t] = offset[t]
                 \/ offset[s] + d <= offset[t] /\ offset'[t] = offset[t] - d
  <2>1. t \in Used /\ t \in Slots /\ t # s /\ length'[t] = length[t] /\ offset'[t] = OffsetsWithout(s)[t]
    BY <1>7 DEF Used
  <2>2. offset[t] \in Nat /\ length[t] \in Nat /\ length[t] > 0
    BY <1>2, <2>1
  <2> QED BY <1>3, <1>4, <1>5, <2>1, <2>2
<1> QED BY <1>1, <1>3, <1>7, <1>8 DEF d

\* deleteRecord keeps the page consistent.
LEMMA DeleteKeeps ==
  ASSUME PageInv, NEW s \in Slots, DeleteRecord(s)
  PROVE  PageInv'
<1>1. CASE ~ValidSlot(s)
  <2>1. UNCHANGED <<data, offset, length, nslots, freePtr, freeSpace>> /\ result' = "INVALIDSLOTNO"
    BY <1>1 DEF DeleteRecord
  <2> QED BY <2>1 DEF PageInv, PTypeOK, SpaceAccounted, RecordsDisjoint, Compacted, NoEmptyTail, Used
<1>2. CASE ValidSlot(s)
  <2> DEFINE d == length[s]
  <2>2. \A t \in Used : /\ t \in Slots /\ offset[t] \in Nat /\ length[t] \in Nat /\ length[t] > 0
                        /\ offset[t] + length[t] <= freePtr
    BY UsedFacts
  <2>3. /\ DataSize \in Nat /\ SlotSize \in Nat /\ SlotSize > 0 /\ nslots \in 0 .. DataSize
       /\ freePtr \in 0 .. DataSize /\ freeSpace \in 0 .. DataSize
       /\ d \in Nat /\ d > 0 /\ freePtr' = freePtr - d /\ freePtr' \in 0 .. DataSize
       /\ offset[s] \in Nat /\ offset[s] + d <= freePtr
       /\ result' = "OK" /\ data' = DataWithout(s)
       /\ s \in Used /\ Used' = Used \ {s}
       /\ offset' \in [Slots -> 0 .. DataSize] /\ length' \in [Slots -> -1 .. DataSize]
       /\ nslots' \in 0 .. nslots
       /\ freeSpace' = freeSpace + d + SlotSize * (nslots - nslots')
       /\ NoEmptyTail'
    BY <1>2, DeleteEffect
  <2>10. ASSUME NEW t \in Used'
         PROVE  /\ t \in Used /\ t \in Slots /\ t # s /\ length'[t] = length[t]
                /\ \/ offset[t] + length[t] <= offset[s] /\ offset'[t] = offset[t]
                   \/ offset[s] + d <= offset[t] /\ offset'[t] = offset[t] - d
    BY <1>2, DeleteEffect
  <2> HIDE DEF d
  <2>8. SpaceAccounted' /\ freeSpace' \in 0 .. DataSize
    <3>1. freeSpace = DataSize - freePtr - SlotSize * nslots
      BY DEF PageInv, SpaceAccounted
    <3>2. /\ SlotSize \in Nat \ {0} /\ DataSize \in Nat /\ freePtr \in Nat /\ freeSpace \in Nat
          /\ d \in Nat /\ d <= freePtr /\ freePtr' = freePtr - d
      BY <2>3
    <3>3. nslots \in Nat /\ nslots' \in Nat /\ nslots' <= nslots
      BY <2>3
    <3>4. PICK k \in Nat : k = nslots - nslots' /\ nslots = k + nslots'
      BY <3>3, NatDifference, Zenon
    <3> DEFINE x == SlotSize * k
               y == SlotSize * nslots'
               z == SlotSize * nslots
    <3>5. x \in Nat /\ y \in Nat
      BY <3>2, <3>3, <3>4, SlotsTakeSpace, Zenon
    <3>0. SlotSize \in Nat
      BY <3>2
    <3>6. z = x + y
      <4>1. z = SlotSize * (k + nslots')
        BY <3>4, Zenon
      <4> QED BY <3>0, <3>3, <3>4, <4>1, SlotsAddUp, Zenon
    <3>7. SlotSize * (nslots' - 1) = y - SlotSize
      BY <3>0, <3>3, OneSlotLess, Zenon
    <3>8. freeSpace = DataSize - freePtr - z /\ freeSpace' = freeSpace + d + x
      BY <2>3, <3>1, <3>4
    <3> HIDE DEF x, y, z
    <3>9. freeSpace' = DataSize - freePtr' - y /\ freeSpace' \in 0 .. DataSize /\ freePtr' <= DataSize - (y - SlotSize)
      BY <3>2, <3>5, <3>6, <3>8
    <3> QED BY <3>7, <3>9 DEF SpaceAccounted, y
  <2>9. PTypeOK'
    <3>1. data' \in [Addresses -> Bytes]
      <4>1. ASSUME NEW a \in Addresses, a < freePtr - d PROVE a + d \in Addresses
        BY <2>3, <4>1 DEF Addresses
      <4>2. ASSUME NEW a \in Addresses PROVE data'[a] \in Bytes
        BY <2>3, <4>1 DEF PageInv, PTypeOK, DataWithout, d
      <4> QED BY <2>3, <4>2 DEF DataWithout
    <3>2. nslots' \in Slots
      BY <2>3 DEF Slots
    <3> QED BY <2>3, <2>8, <3>1, <3>2, Zenon DEF PTypeOK
  <2>11. RecordsDisjoint'
    <3>1. ASSUME NEW t \in Used' PROVE offset'[t] + length'[t] <= freePtr'
      <4>1. offset[t] + length[t] <= freePtr /\ offset[t] \in Nat /\ length[t] \in Nat
        BY <2>2, <2>10
      <4> QED BY <2>3, <2>10, <4>1
    <3>2. ASSUME NEW t \in Used', NEW u \in Used', t # u
          PROVE  offset'[t] + length'[t] <= offset'[u] \/ offset'[u] + length'[u] <= offset'[t]
      <4>1. t \in Used /\ u \in Used
        BY <2>10
      <4>2. offset[t] + length[t] <= offset[u] \/ offset[u] + length[u] <= offset[t]
        BY <3>2, <4>1 DEF PageInv, RecordsDisjoint
      <4>3. /\ offset[t] \in Nat /\ length[t] \in Nat /\ length[t] > 0
            /\ offset[u] \in Nat /\ length[u] \in Nat /\ length[u] > 0
        BY <2>2, <4>1
      <4> QED BY <2>3, <2>10, <4>2, <4>3
    <3> QED BY <3>1, <3>2 DEF RecordsDisjoint
  <2>12. Compacted'
    <3> SUFFICES ASSUME NEW a \in 0 .. (freePtr' - 1)
                 PROVE  \E t \in Used' : offset'[t] <= a /\ a < offset'[t] + length'[t]
      BY DEF Compacted
    <3> DEFINE o == IF a < offset[s] THEN a ELSE a + d
    <3>1. o \in 0 .. (freePtr - 1) /\ a \in Nat
      BY <2>3
    <3>2. PICK t \in Used : offset[t] <= o /\ o < offset[t] + length[t]
      BY <3>1 DEF PageInv, Compacted
    <3>3. offset[t] \in Nat /\ length[t] \in Nat
      BY <2>2
    <3>4. t # s
      BY <2>3, <3>1, <3>2, <3>3 DEF d
    <3>5. t \in Used'
      BY <2>3, <3>4
    <3> QED BY <2>3, <2>10, <3>1, <3>2, <3>3, <3>5
  <2>13. \A t \in Used' : length'[t] \in Lengths
    BY <2>10 DEF PageInv
  <2> QED BY <2>3, <2>8, <2>9, <2>11, <2>12, <2>13 DEF PageInv
<1> QED BY <1>1, <1>2

\* PageInv is an invariant.
LEMMA PageInvHolds == PSpec => []PageInv
<1>1. PInit => PageInv
  <2> SUFFICES ASSUME PInit PROVE PageInv
    OBVIOUS
  <2>1. Used = {}
    BY DEF PInit, Used, Slots
  <2>2. PTypeOK
    BY SizeAssumption DEF PInit, PTypeOK, Slots
  <2>3. SpaceAccounted
    BY SizeAssumption DEF PInit, SpaceAccounted
  <2> QED BY <2>1, <2>2, <2>3 DEF PInit, PageInv, RecordsDisjoint, Compacted, NoEmptyTail
<1>2. PageInv /\ [PNext]_pvars => PageInv'
  <2> SUFFICES ASSUME PageInv, [PNext]_pvars PROVE PageInv'
    OBVIOUS
  <2>1. CASE UNCHANGED pvars
    BY <2>1 DEF pvars, PageInv, PTypeOK, SpaceAccounted, RecordsDisjoint, Compacted, NoEmptyTail, Used
  <2> QED BY <2>1, InsertKeeps, DeleteKeeps DEF PNext
<1> QED BY <1>1, <1>2, PTL DEF PSpec

\* The page's books always add up: freeSpace is exact, the records never reach
\* the slot array, no two share a byte, none leaves a hole, and the slot array
\* ends in a slot in use.
THEOREM PageInvariant ==
  PSpec => [](PTypeOK /\ SpaceAccounted /\ RecordsDisjoint /\ Compacted /\ NoEmptyTail)
<1>1. PageInv => PTypeOK /\ SpaceAccounted /\ RecordsDisjoint /\ Compacted /\ NoEmptyTail
  BY DEF PageInv
<1> QED BY <1>1, PageInvHolds, PTL

\* deleteRecord leaves no hole behind the record it removed: the bytes in use are
\* one block that ends at the free pointer.
THEOREM PageStaysCompact == PSpec => []Compacted
BY PageInvariant, PTL

-----------------------------------------------------------------------------
(* The page implements PageSpec.                                           *)

\* Only slots in use hold records, and those are records.
LEMMA SlotRecordFacts ==
  ASSUME PageInv
  PROVE  /\ \A s \in Slots : ValidSlot(s) <=> s \in Used
         /\ \A s \in Used : SlotRecord[s] = GetRecord(s)
         /\ \A s \in Slots \ Used : SlotRecord[s] = NoRecord
BY UsedFacts DEF ValidSlot, Used, SlotRecord, PageInv, PTypeOK

\* A record whose bytes are where its slot says is the same record.
LEMMA SameBytes ==
  ASSUME NEW t, length'[t] = length[t],
         \A k \in 0 .. (length[t] - 1) : data'[offset'[t] + k] = data[offset[t] + k]
  PROVE  GetRecord(t)' = GetRecord(t)
BY DEF GetRecord

\* Slots that hold the same records hold the same contents.
LEMMA SameSlots ==
  ASSUME PageInv, PageInv', NEW t \in Slots, t \in Used <=> t \in Used',
         t \in Used => GetRecord(t)' = GetRecord(t)
  PROVE  SlotRecord'[t] = SlotRecord[t]
<1>1. (ValidSlot(t) <=> t \in Used) /\ (ValidSlot(t)' <=> t \in Used')
  BY SizeAssumption, LengthsAssumption DEF PageInv, PTypeOK, ValidSlot, Used
<1> QED BY <1>1 DEF SlotRecord

\* insertRecord puts the record into one empty slot and changes no other.
LEMMA InsertRefines ==
  ASSUME PageInv, PageInv', NEW n \in Lengths, NEW r \in [0 .. (n - 1) -> Bytes], InsertRecord(r, n)
  PROVE  Abstract!Insert(r)
<1>1. CASE n + SlotSize > freeSpace
  <2>1. SlotRecord' = SlotRecord
    BY <1>1 DEF InsertRecord, SlotRecord, ValidSlot, GetRecord
  <2> QED BY <1>1, <2>1 DEF InsertRecord, Abstract!Insert
<1>2. CASE ~(n + SlotSize > freeSpace)
  <2>1. PICK i \in 0 .. nslots : i = InsertSlot /\ (i = nslots \/ length[i] = -1)
    BY InsertSlotFacts DEF PageInv
  <2>2. /\ nslots' = IF i = nslots THEN nslots + 1 ELSE nslots
        /\ offset' = [offset EXCEPT ![i] = freePtr]
        /\ length' = [length EXCEPT ![i] = n]
        /\ data' = [a \in Addresses |-> IF freePtr <= a /\ a < freePtr + n THEN r[a - freePtr] ELSE data[a]]
        /\ freePtr' = freePtr + n
        /\ result' = "OK"
    BY <1>2, <2>1 DEF InsertRecord
  <2>3. /\ n \in Nat /\ n > 0 /\ DataSize \in Nat /\ nslots \in 0 .. DataSize
        /\ freePtr \in 0 .. DataSize /\ freePtr' \in 0 .. DataSize /\ nslots' \in 0 .. DataSize
    BY SizeAssumption, LengthsAssumption DEF PageInv, PTypeOK, Slots
  <2>4. /\ i \in Slots /\ i \notin Used /\ i \in Used' /\ offset'[i] = freePtr /\ length'[i] = n
    <3>1. i \in Slots /\ i \in Nat /\ i < nslots'
      BY <2>1, <2>2, <2>3 DEF Slots
    <3>2. offset'[i] = freePtr /\ length'[i] = n /\ n # -1
      BY <2>2, <2>3, <3>1 DEF PageInv, PTypeOK
    <3>3. i \notin Used
      BY <2>1, <2>3 DEF Used
    <3> QED BY <3>1, <3>2, <3>3 DEF Used
  <2>5. ASSUME NEW t \in Slots, t # i
        PROVE  /\ t \in Used <=> t \in Used'
               /\ offset'[t] = offset[t] /\ length'[t] = length[t]
    <3>1. offset'[t] = offset[t] /\ length'[t] = length[t]
      BY <2>2, <2>5 DEF PageInv, PTypeOK
    <3>2. t < nslots' <=> t < nslots
      BY <2>1, <2>2, <2>3, <2>5 DEF Slots
    <3> QED BY <3>1, <3>2 DEF Used
  <2>6. ASSUME NEW t \in Slots, t # i PROVE SlotRecord'[t] = SlotRecord[t]
    <3>1. ASSUME t \in Used PROVE GetRecord(t)' = GetRecord(t)
      <4>1. offset[t] \in Nat /\ length[t] \in Nat /\ offset[t] + length[t] <= freePtr
        BY <3>1, UsedFacts
      <4>2. ASSUME NEW k \in 0 .. (length[t] - 1) PROVE data'[offset'[t] + k] = data[offset[t] + k]
        <5>1. offset[t] + k \in Addresses /\ offset[t] + k < freePtr
          BY <2>3, <4>1, SMTT(30) DEF Addresses
        <5>2. offset'[t] = offset[t] /\ ~(freePtr <= offset[t] + k)
          BY <2>3, <2>5, <2>6, <4>1, <5>1
        <5> QED BY <2>2, <5>1, <5>2
      <4> QED BY <2>5, <2>6, <4>2, SameBytes
    <3> QED BY <2>5, <2>6, <3>1, SameSlots
  <2>7. GetRecord(i)' = r
    <3>1. ASSUME NEW k \in 0 .. (n - 1) PROVE data'[freePtr + k] = r[k]
      <4>1. freePtr + k \in Addresses /\ freePtr <= freePtr + k /\ freePtr + k < freePtr + n
            /\ (freePtr + k) - freePtr = k
        BY <2>2, <2>3 DEF Addresses
      <4> QED BY <2>2, <4>1
    <3> QED BY <2>4, <3>1 DEF GetRecord
  <2>8. SlotRecord[i] = NoRecord /\ SlotRecord'[i] = r
    <3>1. ValidSlot(i)' /\ ~ValidSlot(i)
      BY <2>1, <2>3, <2>4 DEF ValidSlot, Used
    <3> QED BY <2>4, <2>7, <3>1 DEF SlotRecord
  <2>9. SlotRecord' = [SlotRecord EXCEPT ![i] = r]
    BY <2>6, <2>8 DEF SlotRecord
  <2> QED BY <2>2, <2>4, <2>8, <2>9, Zenon DEF Abstract!Insert
<1> QED BY <1>1, <1>2

\* deleteRecord empties its own slot and changes no other.
LEMMA DeleteRefines ==
  ASSUME PageInv, PageInv', NEW s \in Slots, DeleteRecord(s)
  PROVE  Abstract!Delete(s)
<1>1. CASE ~ValidSlot(s)
  <2>1. SlotRecord' = SlotRecord /\ SlotRecord[s] = NoRecord
    BY <1>1 DEF DeleteRecord, SlotRecord, ValidSlot, GetRecord
  <2> QED BY <1>1, <2>1 DEF DeleteRecord, Abstract!Delete
<1>2. CASE ValidSlot(s)
  <2> DEFINE d == length[s]
  <2>1. /\ DataSize \in Nat /\ freePtr \in 0 .. DataSize /\ d \in Nat /\ d > 0
        /\ offset[s] \in Nat /\ offset[s] + d <= freePtr
        /\ result' = "OK" /\ s \in Used /\ Used' = Used \ {s}
    BY <1>2, DeleteEffect
  <2>2. data' = [a \in Addresses |-> IF offset[s] <= a /\ a < freePtr - d THEN data[a + d] ELSE data[a]]
    BY <1>2, DeleteEffect DEF DataWithout
  <2>3. ASSUME NEW t \in Slots, t # s PROVE SlotRecord'[t] = SlotRecord[t]
    <3>1. ASSUME t \in Used PROVE GetRecord(t)' = GetRecord(t)
      <4>1. /\ length'[t] = length[t]
            /\ \/ offset[t] + length[t] <= offset[s] /\ offset'[t] = offset[t]
               \/ offset[s] + d <= offset[t] /\ offset'[t] = offset[t] - d
        BY <1>2, <2>1, <2>3, <3>1, DeleteEffect
      <4>2. offset[t] \in Nat /\ length[t] \in Nat /\ offset[t] + length[t] <= freePtr
        BY <3>1, UsedFacts
      <4> HIDE DEF d
      <4>3. ASSUME NEW k \in 0 .. (length[t] - 1) PROVE data'[offset'[t] + k] = data[offset[t] + k]
        <5>1. CASE offset[t] + length[t] <= offset[s] /\ offset'[t] = offset[t]
          <6>1. offset[t] + k \in Addresses /\ ~(offset[s] <= offset[t] + k)
            BY <2>1, <4>2, <5>1 DEF Addresses
          <6> QED BY <2>2, <5>1, <6>1
        <5>2. CASE offset[s] + d <= offset[t] /\ offset'[t] = offset[t] - d
          <6>1. /\ offset'[t] + k \in Addresses
                /\ offset[s] <= offset'[t] + k /\ offset'[t] + k < freePtr - d
                /\ (offset'[t] + k) + d = offset[t] + k
            BY <2>1, <4>2, <5>2 DEF Addresses
          <6> QED BY <2>2, <6>1
        <5> QED BY <4>1, <5>1, <5>2, SMTT(30)
      <4> QED BY <4>1, <4>3, SameBytes, SMTT(30)
    <3> QED BY <2>1, <2>3, <3>1, SameSlots
  <2>4. SlotRecord'[s] = NoRecord /\ SlotRecord[s] = GetRecord(s)
    <3>1. ~ValidSlot(s)'
      <4>1. s \notin Used'
        BY <2>1
      <4>2. s < nslots' => length'[s] = -1
        BY <4>1 DEF Used
      <4> QED BY <4>2 DEF ValidSlot
    <3> QED BY <1>2, <3>1 DEF SlotRecord
  <2>5. SlotRecord[s] # NoRecord
    <3>1. length[s] \in Lengths
      BY <2>1 DEF PageInv
    <3>2. ASSUME NEW k \in 0 .. (length[s] - 1) PROVE data[offset[s] + k] \in Bytes
      <4>1. offset[s] + k \in Addresses
        BY <2>1 DEF Addresses
      <4> QED BY <4>1 DEF PageInv, PTypeOK
    <3>3. GetRecord(s) \in [0 .. (length[s] - 1) -> Bytes]
      BY <3>2 DEF GetRecord
    <3>4. GetRecord(s) \in Records
      BY <3>1, <3>3 DEF Records
    <3> QED BY <2>4, <3>4, NoRecordAssumption
  <2>6. SlotRecord' = [SlotRecord EXCEPT ![s] = NoRecord]
    BY <2>3, <2>4, Zenon DEF SlotRecord
  <2> QED BY <2>1, <2>5, <2>6 DEF Abstract!Delete
<1> QED BY <1>1, <1>2

\* Every call on the page is a call on the abstract page: whatever was moved,
\* reused or trimmed, each slot still holds the record last inserted there.
THEOREM PageRefinement == PSpec => ImplementsPage
<1>1. PInit => Abstract!Init
  BY DEF PInit, Abstract!Init, SlotRecord, ValidSlot, Slots
<1>2. ASSUME PageInv, PageInv', [PNext]_pvars PROVE [Abstract!Next]_(Abstract!vars)
  <2>1. CASE UNCHANGED pvars
    BY <2>1 DEF pvars, Abstract!vars, SlotRecord, ValidSlot, GetRecord
  <2>2. ASSUME NEW n \in Lengths, NEW r \in [0 .. (n - 1) -> Bytes], InsertRecord(r, n)
        PROVE  r \in Records /\ Abstract!Insert(r)
    BY <1>2, <2>2, InsertRefines DEF Records
  <2>3. ASSUME NEW s \in Slots, DeleteRecord(s) PROVE Abstract!Delete(s)
    BY <1>2, <2>3, DeleteRefines
  <2> QED BY <1>2, <2>1, <2>2, <2>3 DEF PNext, Abstract!Next
<1> QED BY <1>1, <1>2, PageInvHolds, PTL DEF PSpec, ImplementsPage, Abstract!Spec

-----------------------------------------------------------------------------
(* One file.  FileInv, the conjunction of the invariants of DBFile, is     *)
(* inductive as it stands.                                                 *)

FileInv == FTypeOK /\ FreeListExact /\ FirstPageKept

\* The free list as the proofs use it.
Lists(n, s) ==
  /\ n \in 0 .. MaxPages
  /\ s \in [1 .. n -> PageNos]
  /\ IsFreeList(n, s)
  /\ {s[i] : i \in 1 .. n} = Existing \ alloc

\* A list of distinct pages is no longer than the file.
LEMMA ListFits ==
  ASSUME NEW n \in Nat, NEW s \in [1 .. n -> PageNos],
         \A i, j \in 1 .. n : s[i] = s[j] => i = j
  PROVE  n \in 0 .. MaxPages
<1>1. s \in Injection(1 .. n, PageNos)
  BY DEF Injection, IsInjective
<1>2. IsFiniteSet(PageNos) /\ Cardinality(PageNos) = MaxPages
  BY FS_Interval, MaxPagesAssumption DEF PageNos
<1>3. IsFiniteSet(1 .. n) /\ Cardinality(1 .. n) = n
  BY FS_Interval
<1>4. Cardinality(1 .. n) <= Cardinality(PageNos)
  BY <1>1, <1>2, FS_Injection
<1> QED BY <1>2, <1>3, <1>4, MaxPagesAssumption

\* A file without free pages has an empty list, and the other way round.
LEMMA EmptyList ==
  ASSUME NEW n, NEW s, Lists(n, s)
  PROVE  /\ header.nextFree = -1 <=> n = 0
         /\ header.nextFree # -1 => n > 0 /\ header.nextFree = s[1] /\ s[1] \in PageNos
<1>1. n \in Nat /\ \A i \in 1 .. n : s[i] \in PageNos
  BY MaxPagesAssumption DEF Lists
<1>2. \A p \in PageNos : p # -1
  BY MaxPagesAssumption DEF PageNos
<1>3. n # 0 => 1 \in 1 .. n
  BY <1>1
<1> QED BY <1>1, <1>2, <1>3 DEF Lists, IsFreeList

\* The list is what FreeListExact speaks of.
LEMMA ListsExist == FreeListExact <=> \E n, s : Lists(n, s)
BY DEF FreeListExact, Lists

\* The pages of the file are page numbers.
LEMMA ExistingInFile == FTypeOK => Existing \subseteq PageNos
BY MaxPagesAssumption DEF FTypeOK, Existing, PageNos

\* A list after a step is the list of the new state.
LEMMA ListMakesExact ==
  ASSUME NEW n, NEW s, Lists(n, s)'
  PROVE  FreeListExact'
BY DEF Lists, FreeListExact

\* A page in use is not on the list; a change of it leaves the list alone.
LEMMA ListUntouched ==
  ASSUME NEW n, NEW s, Lists(n, s), header'.nextFree = header.nextFree,
         \A p \in Existing \ alloc : pages'[p] = pages[p],
         Existing' \ alloc' = Existing \ alloc
  PROVE  Lists(n, s)'
<1>1. \A i \in 1 .. n : s[i] \in Existing \ alloc
  BY DEF Lists
<1> QED BY <1>1 DEF Lists, IsFreeList

\* Taking the first free page leaves the rest of the list.
LEMMA AllocateFreeKeeps ==
  ASSUME FileInv, AllocateFree
  PROVE  FileInv'
<1>0. header.nextFree # -1 /\ pages' = pages /\ code' = "OK"
      /\ header' = [header EXCEPT !.nextFree = NextFree(pages[header.nextFree])]
      /\ alloc' = alloc \cup {header.nextFree}
  BY DEF AllocateFree
<1>1. PICK n, s : Lists(n, s)
  BY ListsExist DEF FileInv
<1>2. n \in Nat /\ n > 0 /\ n <= MaxPages /\ header.nextFree = s[1] /\ s[1] \in PageNos /\ 1 \in 1 .. n
  BY <1>0, <1>1, EmptyList, MaxPagesAssumption DEF Lists
<1>3. pages[s[1]] = Link(IF 1 = n THEN -1 ELSE s[2])
  BY <1>1, <1>2 DEF Lists, IsFreeList
<1>4. NextFree(pages[s[1]]) = IF 1 = n THEN -1 ELSE s[2]
  BY <1>3 DEF NextFree, Link
<1>5. /\ header'.nextFree = (IF 1 = n THEN -1 ELSE s[2])
      /\ header'.firstPage = header.firstPage /\ header'.numPages = header.numPages
      /\ header' \in [nextFree : PageNos \cup {-1}, firstPage : PageNos \cup {-1}, numPages : 1 .. (MaxPages + 1)]
  <2>1. n # 1 => s[2] \in PageNos
    BY <1>1, <1>2 DEF Lists
  <2> QED BY <1>0, <1>2, <1>4, <2>1 DEF FileInv, FTypeOK
<1>6. Existing' = Existing /\ s[1] \in Existing
  BY <1>1, <1>2, <1>5 DEF Lists, Existing
<1> DEFINE t == [i \in 1 .. (n - 1) |-> s[i + 1]]
<1>7. Lists(n - 1, t)'
  <2>1. n - 1 \in 0 .. MaxPages /\ \A i \in 1 .. (n - 1) : i + 1 \in 1 .. n
    BY <1>2, MaxPagesAssumption
  <2>2. t \in [1 .. (n - 1) -> PageNos]
    BY <1>1, <2>1 DEF Lists
  <2>3. header'.nextFree = IF n - 1 = 0 THEN -1 ELSE t[1]
    BY <1>2, <1>5
  <2>4. ASSUME NEW i \in 1 .. (n - 1)
        PROVE  pages'[t[i]] = Link(IF i = n - 1 THEN -1 ELSE t[i + 1])
    <3>1. i + 1 \in 1 .. n /\ (i = n - 1 <=> i + 1 = n) /\ t[i] = s[i + 1]
      BY <1>2, <2>1
    <3>2. i # n - 1 => t[i + 1] = s[(i + 1) + 1]
      BY <1>2
    <3>3. pages[s[i + 1]] = Link(IF i + 1 = n THEN -1 ELSE s[(i + 1) + 1])
      BY <1>1, <3>1 DEF Lists, IsFreeList
    <3> QED BY <1>0, <3>1, <3>2, <3>3
  <2>5. ASSUME NEW i \in 1 .. (n - 1), NEW j \in 1 .. (n - 1), t[i] = t[j] PROVE i = j
    <3>1. i + 1 = j + 1
      BY <1>1, <2>1, <2>5 DEF Lists, IsFreeList
    <3> QED BY <1>2, <3>1
  <2>6. {t[i] : i \in 1 .. (n - 1)} = {s[i] : i \in 1 .. n} \ {s[1]}
    <3>1. ASSUME NEW i \in 1 .. (n - 1) PROVE t[i] \in {s[k] : k \in 1 .. n} \ {s[1]}
      <4>1. i + 1 \in 1 .. n /\ i + 1 # 1 /\ t[i] = s[i + 1]
        BY <1>2, <2>1
      <4> QED BY <1>1, <1>2, <4>1 DEF Lists, IsFreeList
    <3>2. ASSUME NEW i \in 1 .. n, s[i] # s[1] PROVE \E k \in 1 .. (n - 1) : t[k] = s[i]
      <4>1. i # 1
        BY <3>2
      <4>2. i - 1 \in 1 .. (n - 1) /\ (i - 1) + 1 = i
        BY <1>2, <4>1
      <4>3. t[i - 1] = s[i]
        BY <4>2
      <4> QED BY <4>2, <4>3
    <3> HIDE DEF t
    <3> QED BY <3>1, <3>2
  <2>7. {t[i] : i \in 1 .. (n - 1)} = Existing' \ alloc'
    BY <1>0, <1>1, <1>2, <1>6, <2>6, Zenon DEF Lists
  <2> HIDE DEF t
  <2> QED BY <2>1, <2>2, <2>3, <2>4, <2>5, <2>7 DEF Lists, IsFreeList
<1> HIDE DEF t
<1>8. FreeListExact'
  BY <1>7, ListMakesExact
<1>9. FTypeOK'
  BY <1>0, <1>2, <1>5, <1>6 DEF FileInv, FTypeOK
<1>10. FirstPageKept'
  BY <1>0, <1>5 DEF FileInv, FirstPageKept
<1> QED BY <1>8, <1>9, <1>10 DEF FileInv

\* Extending the file, or failing to, leaves the free list empty.
LEMMA ExtendKeeps ==
  ASSUME FileInv, Extend
  PROVE  FileInv'
<1>0. /\ header.nextFree = -1 /\ header.numPages \in 1 .. MaxPages /\ header.numPages \in PageNos
      /\ pages' = [pages EXCEPT ![header.numPages] = Zero]
  BY MaxPagesAssumption DEF Extend, FileInv, FTypeOK, PageNos
<1>1. PICK n, s : Lists(n, s)
  BY ListsExist DEF FileInv
<1>2. n = 0 /\ Existing \ alloc = {}
  <2>1. n = 0
    BY <1>0, <1>1, EmptyList
  <2> QED BY <1>1, <2>1 DEF Lists
<1>3. pages' \in [PageNos -> Data \cup {Link(k) : k \in PageNos \cup {-1}}]
  BY <1>0, ZeroAssumption DEF FileInv, FTypeOK
<1>4. CASE code' = "UNIXERR" /\ UNCHANGED <<header, alloc>>
  <2>1. Existing' = Existing
    BY <1>4 DEF Existing
  <2>2. Lists(n, s)'
    BY <1>1, <1>2, <1>4, <2>1, ListUntouched
  <2>3. FTypeOK'
    BY <1>3, <1>4, <2>1 DEF FileInv, FTypeOK
  <2> QED BY <1>4, <2>2, <2>3, ListMakesExact DEF FileInv, FirstPageKept
<1>5. CASE /\ header' = [header EXCEPT !.numPages = @ + 1,
                                      !.firstPage = IF @ = -1 THEN header.numPages ELSE @]
           /\ alloc' = alloc \cup {header.numPages}
           /\ code' = "OK"
  <2>1. /\ header'.nextFree = -1 /\ header'.numPages = header.numPages + 1
        /\ header'.firstPage = IF header.firstPage = -1 THEN header.numPages ELSE header.firstPage
        /\ header' \in [nextFree : PageNos \cup {-1}, firstPage : PageNos \cup {-1}, numPages : 1 .. (MaxPages + 1)]
    <3>1. header.numPages + 1 \in 1 .. (MaxPages + 1)
      BY <1>0, MaxPagesAssumption
    <3> QED BY <1>0, <1>5, <3>1, Zenon DEF FileInv, FTypeOK
  <2>2. Existing' = Existing \cup {header.numPages}
    BY <1>0, <2>1, MaxPagesAssumption DEF Existing
  <2>3. Existing' \ alloc' = Existing \ alloc
    BY <1>2, <1>5, <2>2
  <2>4. Lists(n, s)'
    BY <1>0, <1>1, <1>2, <2>1, <2>3, ListUntouched
  <2>5. FTypeOK'
    BY <1>3, <1>5, <2>1, <2>2 DEF FileInv, FTypeOK
  <2>6. FirstPageKept'
    <3>1. CASE header.numPages = 1
      BY <1>0, <1>5, <2>1, <3>1 DEF FileInv, FirstPageKept
    <3>2. CASE header.numPages # 1
      <4>1. header.firstPage = 1 /\ 1 \in alloc
        BY <3>2 DEF FileInv, FirstPageKept
      <4>2. header'.numPages # 1
        BY <1>0, <2>1, MaxPagesAssumption
      <4> QED BY <1>5, <2>1, <4>1, <4>2 DEF FirstPageKept
    <3> QED BY <3>1, <3>2
  <2> QED BY <2>4, <2>5, <2>6, ListMakesExact DEF FileInv
<1> QED BY <1>4, <1>5 DEF Extend

\* A step that changes at most the content of a page in use.
LEMMA WriteKeeps ==
  ASSUME FileInv, UNCHANGED <<header, alloc>>, code' \in {"OK", "BADPAGENO", "UNIXERR"},
         NEW p \in alloc, NEW c \in Data \cup {Link(n) : n \in PageNos \cup {-1}},
         pages' = pages \/ pages' = [pages EXCEPT ![p] = c]
  PROVE  FileInv'
<1>1. PICK n, s : Lists(n, s)
  BY ListsExist DEF FileInv
<1>2. Existing' = Existing
  BY DEF Existing
<1>3. p \in PageNos /\ Existing \subseteq PageNos
  BY ExistingInFile DEF FileInv, FTypeOK
<1>4. pages' \in [PageNos -> Data \cup {Link(k) : k \in PageNos \cup {-1}}]
  BY <1>3 DEF FileInv, FTypeOK
<1>5. \A q \in Existing \ alloc : pages'[q] = pages[q]
  BY <1>3 DEF FileInv, FTypeOK
<1>6. Lists(n, s)'
  BY <1>1, <1>2, <1>5, ListUntouched
<1> QED BY <1>2, <1>4, <1>6, ListMakesExact DEF FileInv, FTypeOK, FirstPageKept

\* Disposing of a page puts it in front of the free list.
LEMMA DisposeKeeps ==
  ASSUME FileInv, NEW p \in alloc, p # header.firstPage,
         pages' = [pages EXCEPT ![p] = Link(header.nextFree)],
         header' = [header EXCEPT !.nextFree = p],
         alloc' = alloc \ {p}, code' = "OK"
  PROVE  FileInv'
<1>1. PICK n, s : Lists(n, s)
  BY ListsExist DEF FileInv
<1>2. n \in Nat /\ s \in [1 .. n -> PageNos]
  BY <1>1, MaxPagesAssumption DEF Lists
<1>3. p \in PageNos /\ p \in Existing /\ Existing \subseteq PageNos
  BY ExistingInFile DEF FileInv, FTypeOK
<1>4. /\ header'.nextFree = p /\ header'.firstPage = header.firstPage /\ header'.numPages = header.numPages
      /\ header' \in [nextFree : PageNos \cup {-1}, firstPage : PageNos \cup {-1}, numPages : 1 .. (MaxPages + 1)]
  BY <1>3 DEF FileInv, FTypeOK
<1>5. Existing' = Existing
  BY <1>4 DEF Existing
<1>6. \A i \in 1 .. n : s[i] \in Existing \ alloc /\ s[i] # p /\ pages'[s[i]] = pages[s[i]]
  BY <1>1, <1>2 DEF Lists, FileInv, FTypeOK
<1>7. pages'[p] = Link(IF n = 0 THEN -1 ELSE s[1])
  BY <1>1, <1>3 DEF Lists, IsFreeList, FileInv, FTypeOK
<1> DEFINE t == [i \in 1 .. (n + 1) |-> IF i = 1 THEN p ELSE s[i - 1]]
<1>8. \A i \in 1 .. (n + 1) : i # 1 => i - 1 \in 1 .. n
  BY <1>2
<1>9. t \in [1 .. (n + 1) -> PageNos]
  BY <1>2, <1>3, <1>8
<1>10. ASSUME NEW i \in 1 .. (n + 1), NEW j \in 1 .. (n + 1), t[i] = t[j] PROVE i = j
  <2>1. CASE i = 1 \/ j = 1
    BY <1>6, <1>8, <1>10, <2>1
  <2>2. CASE i # 1 /\ j # 1
    <3>1. s[i - 1] = s[j - 1] /\ i - 1 \in 1 .. n /\ j - 1 \in 1 .. n
      BY <1>8, <1>10, <2>2
    <3>2. i - 1 = j - 1
      BY <1>1, <3>1 DEF Lists, IsFreeList
    <3> QED BY <1>2, <3>2
  <2> QED BY <2>1, <2>2
<1>11. n + 1 \in 0 .. MaxPages
  <2> HIDE DEF t
  <2> QED BY <1>2, <1>9, <1>10, ListFits
<1>12. ASSUME NEW i \in 1 .. (n + 1)
       PROVE  pages'[t[i]] = Link(IF i = n + 1 THEN -1 ELSE t[i + 1])
  <2>1. CASE i = 1
    <3>1. (i = n + 1 <=> n = 0) /\ (n # 0 => t[i + 1] = s[1])
      BY <1>2, <2>1
    <3> QED BY <1>7, <2>1, <3>1
  <2>2. CASE i # 1
    <3>1. i - 1 \in 1 .. n /\ t[i] = s[i - 1] /\ (i = n + 1 <=> i - 1 = n)
      BY <1>2, <1>8, <2>2
    <3>2. i # n + 1 => t[i + 1] = s[(i - 1) + 1]
      BY <1>2, <2>2
    <3>3. pages[s[i - 1]] = Link(IF i - 1 = n THEN -1 ELSE s[(i - 1) + 1])
      BY <1>1, <3>1 DEF Lists, IsFreeList
    <3> QED BY <1>6, <3>1, <3>2, <3>3
  <2> QED BY <2>1, <2>2
<1>13. {t[i] : i \in 1 .. (n + 1)} = {s[i] : i \in 1 .. n} \cup {p}
  <2>1. ASSUME NEW i \in 1 .. (n + 1) PROVE t[i] \in {s[k] : k \in 1 .. n} \cup {p}
    BY <1>8
  <2>2. ASSUME NEW i \in 1 .. n PROVE \E k \in 1 .. (n + 1) : t[k] = s[i]
    <3>1. i + 1 \in 1 .. (n + 1) /\ i + 1 # 1 /\ (i + 1) - 1 = i
      BY <1>2
    <3>2. t[i + 1] = s[i]
      BY <3>1
    <3> QED BY <3>1, <3>2
  <2>3. 1 \in 1 .. (n + 1) /\ t[1] = p
    BY <1>2
  <2> HIDE DEF t
  <2> QED BY <2>1, <2>2, <2>3
<1>14. header'.nextFree = IF n + 1 = 0 THEN -1 ELSE t[1]
  BY <1>2, <1>4
<1>15. {t[i] : i \in 1 .. (n + 1)} = Existing' \ alloc'
  BY <1>1, <1>3, <1>5, <1>13, Zenon DEF Lists
<1> HIDE DEF t
<1>16. Lists(n + 1, t)'
  BY <1>9, <1>10, <1>11, <1>12, <1>14, <1>15 DEF Lists, IsFreeList
<1>17. FTypeOK'
  <2>1. header.nextFree \in PageNos \cup {-1}
    BY DEF FileInv, FTypeOK
  <2>2. pages' \in [PageNos -> Data \cup {Link(k) : k \in PageNos \cup {-1}}]
    BY <2>1, Zenon DEF FileInv, FTypeOK
  <2> QED BY <1>4, <1>5, <2>2 DEF FileInv, FTypeOK
<1>18. FirstPageKept'
  BY <1>4 DEF FileInv, FirstPageKept
<1> QED BY <1>16, <1>17, <1>18, ListMakesExact DEF FileInv

\* What disposePage may do: refuse, fail before the header, or succeed.
LEMMA DisposeCases ==
  ASSUME FileInv, NEW p \in 0 .. MaxPages, DisposePage(p)
  PROVE  \/ code' \in {"BADPAGENO", "UNIXERR"} /\ UNCHANGED <<header, pages, alloc>>
         \/ /\ p \in alloc /\ p # header.firstPage
            /\ pages' = [pages EXCEPT ![p] = Link(header.nextFree)]
            /\ \/ header' = [header EXCEPT !.nextFree = p] /\ alloc' = alloc \ {p} /\ code' = "OK"
               \/ code' = "UNIXERR" /\ UNCHANGED <<header, alloc>>
<1>1. CASE p < 1 \/ p = header.firstPage \/ p >= header.numPages
  BY <1>1 DEF DisposePage
<1>2. CASE ~(p < 1 \/ p = header.firstPage \/ p >= header.numPages)
  <2>1. p \in 1 .. (header.numPages - 1)
    BY <1>2, MaxPagesAssumption, SMTT(30) DEF FileInv, FTypeOK
  <2>2. p \in alloc
    BY <2>1, Zenon DEF DisposePage
  <2> QED BY <1>2, <2>2 DEF DisposePage, Unwritten
<1> QED BY <1>1, <1>2

\* A step that changes nothing but the code.
LEMMA NothingKeeps ==
  ASSUME FileInv, UNCHANGED <<header, pages, alloc>>, code' \in {"OK", "BADPAGENO", "UNIXERR"}
  PROVE  FileInv'
BY SMTT(30) DEF FileInv, FTypeOK, FreeListExact, IsFreeList, FirstPageKept, Existing

\* Every call keeps the file consistent, whether or not its writes succeed.
LEMMA FileInvStep ==
  ASSUME FileInv, [FNext]_fvars
  PROVE  FileInv'
<1>1. CASE UNCHANGED fvars
  BY <1>1, NothingKeeps DEF fvars, FileInv, FTypeOK
<1>2. CASE AllocatePage
  BY <1>2, AllocateFreeKeeps, ExtendKeeps, NothingKeeps DEF AllocatePage, Unwritten
<1>3. ASSUME NEW p \in 0 .. MaxPages, DisposePage(p) PROVE FileInv'
  <2>1. Link(header.nextFree) \in {Link(n) : n \in PageNos \cup {-1}}
    BY DEF FileInv, FTypeOK
  <2> QED BY <1>3, <2>1, DisposeCases, DisposeKeeps, WriteKeeps, NothingKeeps, ZenonT(30)
<1>4. ASSUME NEW p \in PageNos, NEW c \in Data, WritePage(p, c) PROVE FileInv'
  BY <1>4, WriteKeeps, NothingKeeps DEF WritePage, Unwritten
<1> QED BY <1>1, <1>2, <1>3, <1>4 DEF FNext

\* The free list of a file always holds exactly the pages that are not in use,
\* each once, and page 1 is the first page and stays in use, whichever writes
\* of allocatePage and disposePage fail.
THEOREM FreeListInvariant == FSpec => [](FTypeOK /\ FreeListExact /\ FirstPageKept)
<1>1. FInit => FileInv
  <2> SUFFICES ASSUME FInit PROVE FileInv
    OBVIOUS
  <2>1. header.nextFree = -1 /\ header.firstPage = -1 /\ header.numPages = 1 /\ Existing = {}
    BY DEF FInit, Existing
  <2>2. FTypeOK
    BY <2>1, ZeroAssumption, MaxPagesAssumption DEF FInit, FTypeOK
  <2>3. IsFreeList(0, [i \in 1 .. 0 |-> 1])
    BY <2>1 DEF IsFreeList
  <2>4. 0 \in 0 .. MaxPages /\ [i \in 1 .. 0 |-> 1] \in [1 .. 0 -> PageNos]
    BY MaxPagesAssumption DEF PageNos
  <2>5. PICK s \in [1 .. 0 -> PageNos] : IsFreeList(0, s)
    BY <2>3, <2>4, Zenon
  <2>6. {s[i] : i \in 1 .. 0} = Existing \ alloc
    BY <2>1
  <2>7. FreeListExact
    BY <2>4, <2>5, <2>6, Zenon DEF FreeListExact
  <2> QED BY <2>1, <2>2, <2>7 DEF FileInv, FirstPageKept
<1>2. FileInv /\ [FNext]_fvars => FileInv'
  BY FileInvStep
<1>3. FileInv <=> FTypeOK /\ FreeListExact /\ FirstPageKept
  BY DEF FileInv
<1> QED BY <1>1, <1>2, <1>3, PTL DEF FSpec

-----------------------------------------------------------------------------
(* The file implements FileSpec.                                           *)

\* A step that leaves the header and the pages in use as they are is a failure
\* in the abstract file.
LEMMA FailRefines ==
  ASSUME FileInv, UNCHANGED <<header, alloc>>, code' \in {"UNIXERR", "BADPAGENO"},
         \A q \in alloc : pages'[q] = pages[q]
  PROVE  \E p \in PageNos : File!Fail(p)
<1>1. FileContent' = FileContent
  BY DEF FileContent
<1>2. 1 \in PageNos
  BY MaxPagesAssumption DEF PageNos
<1> QED BY <1>1, <1>2 DEF File!Fail, File!Only

\* allocatePage is an allocation of the abstract file, or a failure.
LEMMA AllocateRefines ==
  ASSUME FileInv, AllocatePage
  PROVE  \E p \in PageNos : File!Allocate(p) \/ File!Fail(p)
<1>1. PICK n, s : Lists(n, s)
  BY ListsExist DEF FileInv
<1>2. (header.nextFree = -1 <=> n = 0) /\ Existing \ alloc = {s[i] : i \in 1 .. n} /\ Existing \subseteq PageNos
  BY <1>1, EmptyList, ExistingInFile DEF Lists, FileInv
<1>3. File!Free = Existing \ alloc
  BY DEF File!Free, Existing
<1>4. CASE AllocateFree
  <2>1. /\ header.nextFree = s[1] /\ header.nextFree \in Existing \ alloc
    <3>1. n \in Nat /\ n > 0 /\ header.nextFree = s[1]
      BY <1>1, <1>4, EmptyList, MaxPagesAssumption, SMTT(30) DEF AllocateFree, Lists
    <3>2. 1 \in 1 .. n
      BY <3>1
    <3> QED BY <1>2, <3>1, <3>2
  <2>2. header'.numPages = header.numPages /\ alloc' = alloc \cup {header.nextFree} /\ pages' = pages /\ code' = "OK"
    BY <1>4 DEF AllocateFree, FileInv, FTypeOK
  <2>3. \A q \in PageNos \ {header.nextFree} : FileContent'[q] = FileContent[q]
    BY <2>2, Zenon DEF FileContent
  <2> QED BY <1>2, <1>3, <2>1, <2>2, <2>3, Zenon DEF File!Allocate, File!Only
<1>5. CASE Extend /\ code' = "OK"
  <2>1. /\ header.nextFree = -1 /\ header.numPages \in PageNos /\ header.numPages \notin Existing
        /\ pages' = [pages EXCEPT ![header.numPages] = Zero]
    BY <1>5, MaxPagesAssumption DEF Extend, FileInv, FTypeOK, PageNos, Existing
  <2>2. header'.numPages = header.numPages + 1 /\ alloc' = alloc \cup {header.numPages}
    BY <1>5, ZenonT(30) DEF Extend, FileInv, FTypeOK
  <2>3. Existing \ alloc = {} /\ header.numPages \notin alloc
    BY <1>2, <2>1 DEF FileInv, FTypeOK
  <2>4. \A q \in PageNos \ {header.numPages} : FileContent'[q] = FileContent[q]
    BY <2>1, <2>2 DEF FileContent, FileInv, FTypeOK
  <2> QED BY <1>3, <1>5, <2>1, <2>2, <2>3, <2>4, Zenon DEF File!Allocate, File!Only
<1>6. CASE Extend /\ code' = "UNIXERR"
  <2>1. UNCHANGED <<header, alloc>> /\ pages' = [pages EXCEPT ![header.numPages] = Zero]
    BY <1>6 DEF Extend
  <2>2. header.numPages \notin alloc
    BY MaxPagesAssumption, SMTT(30) DEF FileInv, FTypeOK, Existing
  <2>3. \A q \in alloc : pages'[q] = pages[q]
    BY <1>2, <2>1, <2>2, Zenon DEF FileInv, FTypeOK
  <2> QED BY <1>6, <2>1, <2>3, FailRefines
<1>7. CASE Unwritten
  BY <1>7, FailRefines DEF Unwritten
<1> QED BY <1>4, <1>5, <1>6, <1>7, Zenon DEF AllocatePage, Extend

\* disposePage is a disposal of the abstract file, or a failure in which at most
\* the page it was asked to dispose of loses its content.
LEMMA DisposeRefines ==
  ASSUME FileInv, NEW p \in 0 .. MaxPages, DisposePage(p)
  PROVE  \E q \in PageNos : File!Dispose(q) \/ File!Fail(q)
<1>1. CASE code' \in {"BADPAGENO", "UNIXERR"} /\ UNCHANGED <<header, pages, alloc>>
  BY <1>1, FailRefines
<1>2. CASE /\ p \in alloc /\ p # header.firstPage
           /\ pages' = [pages EXCEPT ![p] = Link(header.nextFree)]
           /\ \/ header' = [header EXCEPT !.nextFree = p] /\ alloc' = alloc \ {p} /\ code' = "OK"
              \/ code' = "UNIXERR" /\ UNCHANGED <<header, alloc>>
  <2>1. p \in PageNos
    BY <1>2, ExistingInFile DEF FileInv, FTypeOK
  <2>2. \A q \in PageNos \ {p} : pages'[q] = pages[q]
    BY <1>2, <2>1 DEF FileInv, FTypeOK
  <2>3. header.firstPage = 1
    BY <1>2 DEF FileInv, FTypeOK, FirstPageKept, Existing
  <2>4. CASE header' = [header EXCEPT !.nextFree = p] /\ alloc' = alloc \ {p} /\ code' = "OK"
    <3>1. FileContent' = [FileContent EXCEPT ![p] = NoContent]
      BY <2>1, <2>2, <2>4, Zenon DEF FileContent
    <3>2. header'.numPages = header.numPages
      BY <2>4 DEF FileInv, FTypeOK
    <3> QED BY <1>2, <2>1, <2>3, <2>4, <3>1, <3>2, Zenon DEF File!Dispose
  <2>5. CASE code' = "UNIXERR" /\ UNCHANGED <<header, alloc>>
    <3>1. \A q \in PageNos \ {p} : FileContent'[q] = FileContent[q]
      BY <2>2, <2>5 DEF FileContent
    <3> QED BY <1>2, <2>1, <2>5, <3>1, ZenonT(30) DEF File!Fail, File!Only
  <2> QED BY <1>2, <2>4, <2>5
<1> QED BY <1>1, <1>2, DisposeCases

\* writePage is a write of the abstract file, or a failure.
LEMMA WriteRefines ==
  ASSUME FileInv, NEW p \in PageNos, NEW c \in Data, WritePage(p, c)
  PROVE  File!Write(p, c) \/ \E q \in PageNos : File!Fail(q)
<1>1. CASE Unwritten
  BY <1>1, FailRefines DEF Unwritten
<1>2. CASE pages' = [pages EXCEPT ![p] = c] /\ code' = "OK" /\ UNCHANGED <<header, alloc>>
  <2>1. p \in alloc
    BY DEF WritePage
  <2>2. FileContent' = [FileContent EXCEPT ![p] = c]
    BY <1>2, <2>1, Zenon DEF FileContent, FileInv, FTypeOK
  <2> QED BY <1>2, <2>1, <2>2 DEF File!Write
<1> QED BY <1>1, <1>2 DEF WritePage

\* A file with its header and its linked list implements the abstract file: it
\* never hands out a page in use, reuses disposed pages before it grows, and
\* changes no page it was not asked to change.
THEOREM FileRefinement == FSpec => ImplementsFile
<1>1. FInit => File!Init
  BY DEF FInit, File!Init, FileContent
<1>2. FileInv /\ [FNext]_fvars => [File!Next]_(File!vars)
  <2> SUFFICES ASSUME FileInv, [FNext]_fvars PROVE [File!Next]_(File!vars)
    OBVIOUS
  <2>1. CASE UNCHANGED fvars
    BY <2>1 DEF fvars, File!vars, FileContent
  <2>2. CASE AllocatePage
    BY <2>2, AllocateRefines DEF File!Next
  <2>3. ASSUME NEW p \in 0 .. MaxPages, DisposePage(p) PROVE File!Next
    BY <2>3, DisposeRefines DEF File!Next
  <2>4. ASSUME NEW p \in PageNos, NEW c \in Data, WritePage(p, c) PROVE File!Next
    BY <2>4, WriteRefines DEF File!Next
  <2> QED BY <2>1, <2>2, <2>3, <2>4 DEF FNext
<1>3. FileInv <=> FTypeOK /\ FreeListExact /\ FirstPageKept
  BY DEF FileInv
<1> QED BY <1>1, <1>2, <1>3, FreeListInvariant, PTL DEF FSpec, ImplementsFile, File!Spec

-----------------------------------------------------------------------------
(* The open files.  DBInv, the conjunction of the invariants of DB, is     *)
(* inductive: that a file which is removed is not open needs the table,    *)
(* that a File in the table lives needs the counts.                        *)

DBInv == TypeOK /\ TableExact /\ HeldIsCounted /\ OpenExists

\* The handles of a File are a finite set.
LEMMA HoldersFinite ==
  ASSUME NEW o
  PROVE  IsFiniteSet(Holders(o)) /\ Cardinality(Holders(o)) \in Nat
<1>1. Holders(o) \subseteq Handles
  BY DEF Holders
<1> QED BY <1>1, FS_Subset, FS_CardinalityType, HandlesAssumption

\* A handle that had no File gets File o: o has one more, the others as many.
LEMMA HoldersGrow ==
  ASSUME TypeOK, NEW h \in Handles, NEW o \in Files, holds[h] = NoFile,
         holds' = [holds EXCEPT ![h] = o]
  PROVE  /\ Cardinality(Holders(o)') = Cardinality(Holders(o)) + 1
         /\ \A p \in Files \ {o} : Holders(p)' = Holders(p)
<1>1. Holders(o)' = Holders(o) \cup {h} /\ h \notin Holders(o)
  BY FilesAssumption DEF TypeOK, Holders
<1>2. \A p \in Files \ {o} : Holders(p)' = Holders(p)
  BY FilesAssumption DEF TypeOK, Holders
<1> QED BY <1>1, <1>2, HoldersFinite, FS_AddElement, ZenonT(30)

\* A handle gives its File o back.
LEMMA HoldersShrink ==
  ASSUME TypeOK, NEW h \in Handles, NEW o \in Files, holds[h] = o,
         holds' = [holds EXCEPT ![h] = NoFile]
  PROVE  /\ Cardinality(Holders(o)) > 0
         /\ Cardinality(Holders(o)') = Cardinality(Holders(o)) - 1
         /\ \A p \in Files \ {o} : Holders(p)' = Holders(p)
<1>1. Holders(o)' = Holders(o) \ {h} /\ h \in Holders(o)
  BY FilesAssumption DEF TypeOK, Holders
<1>2. \A p \in Files \ {o} : Holders(p)' = Holders(p)
  BY FilesAssumption DEF TypeOK, Holders
<1>3. Cardinality(Holders(o)) # 0
  BY <1>1, HoldersFinite, FS_EmptySet
<1>4. Cardinality(Holders(o) \ {h}) = Cardinality(Holders(o)) - 1
  BY <1>1, HoldersFinite, FS_RemoveElement, ZenonT(30)
<1> QED BY <1>1, <1>2, <1>3, <1>4, HoldersFinite

\* A new File of a name that is not open: openFile, and createHeapFile when it
\* is abandoned.
LEMMA NewFile ==
  ASSUME DBInv, NEW n \in Names, NEW o \in Files \ live, openFiles[n] = NoFile,
         openCnt' = [openCnt EXCEPT ![o] = 1],
         live' = live \cup {o},
         fileName' = [fileName EXCEPT ![o] = n],
         openFiles' = [openFiles EXCEPT ![n] = o]
  PROVE  /\ openFiles' \in [Names -> Files \cup {NoFile}]
         /\ live' \subseteq Files
         /\ fileName' \in [Files -> Names]
         /\ openCnt' \in [Files -> 0 .. MaxOpen]
         /\ TableExact'
         /\ openCnt[o] = 0
<1> USE DEF DBInv
<1>1. /\ openFiles' \in [Names -> Files \cup {NoFile}]
      /\ live' \subseteq Files
      /\ fileName' \in [Files -> Names]
      /\ openCnt' \in [Files -> 0 .. MaxOpen]
  BY MaxOpenAssumption DEF TypeOK
<1>2. openCnt[o] = 0
  BY MaxOpenAssumption DEF TypeOK, HeldIsCounted
<1>3. \A p \in live : p # o /\ fileName[p] # n
  BY FilesAssumption DEF TypeOK, TableExact
<1>4. ASSUME NEW m \in Names, openFiles'[m] # NoFile
      PROVE  openFiles'[m] \in live' /\ fileName'[openFiles'[m]] = m
  BY <1>3, <1>4, ZenonT(30) DEF TypeOK, TableExact
<1>5. ASSUME NEW p \in live' PROVE openFiles'[fileName'[p]] = p
  BY <1>3, <1>5, SMTT(30) DEF TypeOK, TableExact
<1> QED BY <1>1, <1>2, <1>4, <1>5 DEF TableExact

\* openFile returns File o to a handle, or to createHeapFile, which keeps none.
LEMMA OpenFileKeeps ==
  ASSUME DBInv, NEW n \in Names, NEW o \in Files, OpenFile(n, o), disk' = disk,
         UNCHANGED <<pinned, late>>, cached' \subseteq Files, status' \in {"OK", "FILEEXISTS"},
         \/ holds' = holds
         \/ \E h \in Handles : holds[h] = NoFile /\ holds' = [holds EXCEPT ![h] = o]
  PROVE  DBInv'
<1> USE DEF DBInv
<1>1. holds' \in [Handles -> Files \cup {NoFile}]
  BY DEF TypeOK
<1>2. /\ Cardinality(Holders(o)') <= Cardinality(Holders(o)) + 1
      /\ \A p \in Files \ {o} : Holders(p)' = Holders(p)
  <2>0. Cardinality(Holders(o)) \in Nat
    BY HoldersFinite
  <2>1. CASE holds' = holds
    <3>1. \A p : Holders(p)' = Holders(p)
      BY <2>1 DEF Holders
    <3> QED BY <2>0, <3>1
  <2>2. CASE \E h \in Handles : holds[h] = NoFile /\ holds' = [holds EXCEPT ![h] = o]
    <3>1. PICK h \in Handles : holds[h] = NoFile /\ holds' = [holds EXCEPT ![h] = o]
      BY <2>2, Zenon
    <3>2. /\ Cardinality(Holders(o)') = Cardinality(Holders(o)) + 1
          /\ \A p \in Files \ {o} : Holders(p)' = Holders(p)
      BY <3>1, HoldersGrow, Zenon
    <3> QED BY <2>0, <3>2, SMTT(30)
  <2> QED BY <2>1, <2>2
<1>3. CASE /\ o = openFiles[n] /\ o # NoFile /\ openCnt[o] < MaxOpen
           /\ openCnt' = [openCnt EXCEPT ![o] = @ + 1]
           /\ UNCHANGED <<openFiles, live, fileName>>
  <2>0. openCnt' \in [Files -> 0 .. MaxOpen]
    BY <1>3, MaxOpenAssumption, SMTT(30) DEF TypeOK
  <2>1. TypeOK'
    BY <1>1, <1>3, <2>0, Zenon DEF TypeOK
  <2>2. TableExact' /\ OpenExists'
    BY <1>3, Zenon DEF TableExact, OpenExists
  <2>3. o \in live
    BY <1>3 DEF TableExact
  <2>4. /\ openCnt[o] \in Nat /\ openCnt'[o] = openCnt[o] + 1
        /\ \A p \in Files \ {o} : openCnt'[p] = openCnt[p]
    BY <1>3, MaxOpenAssumption, SMTT(30) DEF TypeOK
  <2>5. Cardinality(Holders(o)) \in Nat /\ Cardinality(Holders(o)') \in Nat
    <3>1. IsFiniteSet(Holders(o)')
      <4>1. Holders(o)' \subseteq Handles
        BY Zenon DEF Holders
      <4> QED BY <4>1, FS_Subset, HandlesAssumption, Zenon
    <3> QED BY <3>1, HoldersFinite, FS_CardinalityType, Zenon
  <2>6. Cardinality(Holders(o)') <= openCnt'[o]
    BY <1>2, <2>4, <2>5, SMTT(30) DEF HeldIsCounted
  <2>7. HeldIsCounted'
    BY <1>2, <1>3, <2>3, <2>4, <2>6, SMTT(30) DEF HeldIsCounted
  <2> QED BY <2>1, <2>2, <2>7
<1>4. CASE openFiles[n] = NoFile /\ OpenAnew(n, o)
  <2>1. /\ TableExact' /\ openCnt[o] = 0 /\ o \notin live
        /\ openFiles' \in [Names -> Files \cup {NoFile}]
        /\ live' \subseteq Files
        /\ fileName' \in [Files -> Names]
        /\ openCnt' \in [Files -> 0 .. MaxOpen]
    BY <1>4, NewFile, ZenonT(30) DEF OpenAnew
  <2>2. TypeOK'
    BY <1>1, <2>1 DEF TypeOK
  <2>3. OpenExists'
    BY <1>4, <2>1 DEF TypeOK, OpenAnew, OpenExists
  <2>4. /\ openCnt'[o] = 1 /\ o \in live'
        /\ \A p \in Files \ {o} : openCnt'[p] = openCnt[p] /\ (p \in live' <=> p \in live)
    BY <1>4, Zenon DEF TypeOK, OpenAnew
  <2>5. Cardinality(Holders(o)') <= 1
    BY <1>2, <2>1, HoldersFinite, SMTT(30) DEF HeldIsCounted
  <2>6. HeldIsCounted'
    BY <1>2, <2>4, <2>5 DEF HeldIsCounted
  <2> QED BY <2>1, <2>2, <2>3, <2>6, Zenon
<1> QED BY <1>3, <1>4, Zenon DEF OpenFile

\* The constructor of a HeapFile.
LEMMA OpenKeeps ==
  ASSUME DBInv, NEW h \in Handles, NEW n \in Names, Open(h, n)
  PROVE  DBInv'
<1>1. CASE OpenFails(n) /\ status' = "UNIXERR" /\ UNCHANGED <<table, holds, cached>>
  BY <1>1, Zenon DEF Open, table, DBInv, TypeOK, TableExact, HeldIsCounted, OpenExists, Holders
<1>2. CASE /\ \E o \in Files : /\ OpenFile(n, o)
                               /\ holds' = [holds EXCEPT ![h] = o]
                               /\ cached' = cached \cup {o}
           /\ status' = "OK"
  <2>1. PICK o \in Files : /\ OpenFile(n, o)
                           /\ holds' = [holds EXCEPT ![h] = o]
                           /\ cached' = cached \cup {o}
    BY <1>2, Zenon
  <2>2. cached' \subseteq Files
    BY <2>1 DEF DBInv, TypeOK
  <2> QED BY <1>2, <2>1, <2>2, OpenFileKeeps, Zenon DEF Open
<1> QED BY <1>1, <1>2, Zenon DEF Open

\* The destructor of a HeapFile.
LEMMA CloseKeeps ==
  ASSUME DBInv, NEW h \in Handles, Close(h)
  PROVE  DBInv'
<1> USE DEF DBInv
<1> DEFINE o == holds[h]
<1>1. o \in Files /\ o # NoFile
  BY DEF Close, TypeOK
<1>2. /\ Cardinality(Holders(o)) > 0
      /\ \A q \in Files : q = o => Cardinality(Holders(q)') = Cardinality(Holders(q)) - 1
      /\ \A q \in Files \ {o} : Holders(q)' = Holders(q)
  BY <1>1, HoldersShrink, Zenon DEF Close
<1>3. o \in live /\ openCnt[o] \in 1 .. MaxOpen
  BY <1>1, <1>2, HoldersFinite, MaxOpenAssumption DEF TypeOK, HeldIsCounted
<1>4. holds' \in [Handles -> Files \cup {NoFile}] /\ openCnt' \in [Files -> 0 .. MaxOpen]
  BY <1>1, <1>3, MaxOpenAssumption, SMTT(30) DEF Close, CloseFile, TypeOK
<1>5. live' = IF openCnt[o] = 1 THEN live \ {o} ELSE live
  BY DEF Close, CloseFile
<1>6. HeldIsCounted'
  BY <1>1, <1>2, <1>3, <1>5, HoldersFinite, MaxOpenAssumption, SMTT(30) DEF Close, CloseFile, TypeOK, HeldIsCounted
<1>7. cached' \subseteq Files
  BY DEF Close, CloseFile, FramesAfterClose, TypeOK
<1>8. TypeOK'
  BY <1>1, <1>4, <1>7, Zenon DEF Close, CloseFile, TypeOK
<1>9. TableExact'
  BY <1>1, <1>3, SMTT(30) DEF Close, CloseFile, TypeOK, TableExact
<1>10. OpenExists'
  BY <1>5 DEF Close, CloseFile, OpenExists
<1> QED BY <1>6, <1>8, <1>9, <1>10, Zenon

\* createHeapFile, wherever it returns.
LEMMA CreateKeeps ==
  ASSUME DBInv, NEW n \in Names, CreateHeapFile(n)
  PROVE  DBInv'
<1> USE DEF DBInv
<1>0. UNCHANGED <<holds, late>>
  BY DEF CreateHeapFile
<1>1. CASE CreateExisting(n)
  <2>1. CASE \E o \in Files : OpenFile(n, o)
    <3>1. PICK o \in Files : OpenFile(n, o)
      BY <2>1
    <3>2. cached' \subseteq Files
      BY <1>1, Zenon DEF CreateExisting, TypeOK
    <3> QED BY <1>0, <1>1, <3>1, <3>2, OpenFileKeeps DEF CreateExisting
  <2>2. CASE UNCHANGED table
    BY <1>0, <1>1, <2>2, Zenon
       DEF CreateExisting, table, TypeOK, TableExact, HeldIsCounted, OpenExists, Holders
  <2> QED BY <1>1, <2>1, <2>2 DEF CreateExisting
<1>2. CASE CreateCompletes(n) \/ CreateUnopened(n)
  <2>1. UNCHANGED <<table, holds, late, cached, pinned>> /\ status' \in {"OK", "UNIXERR"}
    BY <1>0, <1>2 DEF CreateCompletes, CreateUnopened
  <2>2. \E v \in {"heap", "partial"} : disk' \in {disk, [disk EXCEPT ![n] = v]}
    BY <1>2 DEF CreateCompletes, CreateUnopened
  <2>3. TypeOK' /\ OpenExists'
    BY <2>1, <2>2, Zenon DEF table, TypeOK, OpenExists
  <2>4. TableExact' /\ HeldIsCounted'
    BY <2>1 DEF table, TableExact, HeldIsCounted, Holders
  <2> QED BY <2>3, <2>4
<1>3. CASE CreateAbandoned(n)
  <2>1. PICK o \in Files \ live :
          /\ disk' = [disk EXCEPT ![n] = "partial"]
          /\ openFiles' = [openFiles EXCEPT ![n] = o]
          /\ live' = live \cup {o}
          /\ fileName' = [fileName EXCEPT ![o] = n]
          /\ openCnt' = [openCnt EXCEPT ![o] = 1]
          /\ cached' \subseteq cached \cup {o} /\ pinned' \subseteq pinned \cup {o}
    BY <1>3, Zenon DEF CreateAbandoned
  <2>2. openFiles[n] = NoFile /\ status' = "error"
    BY <1>3 DEF CreateAbandoned, OpenFails
  <2>3. /\ TableExact' /\ openCnt[o] = 0
        /\ openFiles' \in [Names -> Files \cup {NoFile}]
        /\ live' \subseteq Files
        /\ fileName' \in [Files -> Names]
        /\ openCnt' \in [Files -> 0 .. MaxOpen]
    BY <2>1, <2>2, NewFile, Zenon
  <2>4. TypeOK'
    BY <1>0, <2>1, <2>2, <2>3 DEF TypeOK
  <2>5. OpenExists'
    BY <2>1, Zenon DEF TypeOK, OpenExists
  <2>6. HeldIsCounted'
    <3>1. \A p \in Files : Holders(p)' = Holders(p)
      BY <1>0 DEF Holders
    <3> QED BY <2>1, <2>3, <3>1, HoldersFinite, MaxOpenAssumption DEF TypeOK, HeldIsCounted
  <2> QED BY <2>3, <2>4, <2>5, <2>6, Zenon
<1> QED BY <1>1, <1>2, <1>3 DEF CreateHeapFile

\* destroyHeapFile removes only a file that is not open.
LEMMA DestroyKeeps ==
  ASSUME DBInv, NEW n \in Names, DestroyHeapFile(n)
  PROVE  DBInv'
<1> USE DEF DBInv
<1>1. UNCHANGED <<table, holds, cached, pinned, late>> /\ status' \in {"OK", "FILEOPEN", "UNIXERR"}
  BY DEF DestroyHeapFile
<1>2. disk' = disk \/ (openFiles[n] = NoFile /\ disk' = [disk EXCEPT ![n] = "absent"])
  BY Zenon DEF DestroyHeapFile
<1>3. TypeOK'
  BY <1>1, <1>2, Zenon DEF table, TypeOK
<1>4. TableExact' /\ HeldIsCounted'
  BY <1>1 DEF table, TableExact, HeldIsCounted, Holders
<1>5. OpenExists'
  <2>1. openFiles[n] = NoFile => \A o \in live : fileName[o] # n
    BY FilesAssumption DEF TypeOK, TableExact
  <2> QED BY <1>1, <1>2, <2>1 DEF table, TypeOK, OpenExists
<1> QED BY <1>3, <1>4, <1>5

\* Nothing is open when the process has gone.
LEMMA GoneKeeps ==
  ASSUME DBInv, Gone, late' \in BOOLEAN, status' \in {"quit", "crash"}
  PROVE  DBInv'
<1> USE DEF DBInv
<1>1. TypeOK'
  BY MaxOpenAssumption, SMTT(30) DEF Gone, TypeOK
<1>2. TableExact' /\ OpenExists'
  BY DEF Gone, TableExact, OpenExists
<1>3. \A o \in Files : Holders(o)' = {}
  BY FilesAssumption DEF Gone, Holders
<1>4. HeldIsCounted'
  <2>1. \A o \in Files : openCnt'[o] = 0 /\ o \notin live'
    BY DEF Gone
  <2>2. \A o \in Files : Cardinality(Holders(o)') = 0
    BY <1>3, FS_EmptySet
  <2> QED BY <2>1, <2>2 DEF HeldIsCounted
<1> QED BY <1>1, <1>2, <1>4, Zenon

\* Whatever fails in createHeapFile, openFile and closeFile, the open-file table
\* leads to the one File of a name, a File that a handle has open is counted for
\* it and so not deleted, and an open file is on disk.
THEOREM OpenFilesInvariant == Spec => [](TableExact /\ HeldIsCounted /\ OpenExists)
<1>1. Init => DBInv
  <2> SUFFICES ASSUME Init PROVE DBInv
    OBVIOUS
  <2>0. openCnt \in [Files -> 0 .. MaxOpen]
    BY MaxOpenAssumption DEF Init
  <2>1. TypeOK
    BY <2>0, Zenon DEF Init, TypeOK
  <2>2. \A o \in Files : Holders(o) = {}
    BY FilesAssumption DEF Init, Holders
  <2> QED BY <2>1, <2>2, FS_EmptySet DEF Init, DBInv, TableExact, HeldIsCounted, OpenExists
<1>2. DBInv /\ [Next]_vars => DBInv'
  <2> SUFFICES ASSUME DBInv, [Next]_vars PROVE DBInv'
    OBVIOUS
  <2>1. ASSUME NEW h \in Handles, NEW n \in Names, Open(h, n) PROVE DBInv'
    BY <2>1, OpenKeeps
  <2>2. ASSUME NEW h \in Handles, Close(h) PROVE DBInv'
    BY <2>2, CloseKeeps
  <2>3. ASSUME NEW n \in Names, CreateHeapFile(n) PROVE DBInv'
    BY <2>3, CreateKeeps
  <2>4. ASSUME NEW n \in Names, DestroyHeapFile(n) PROVE DBInv'
    BY <2>4, DestroyKeeps
  <2>5. CASE Quit
    BY <2>5, GoneKeeps DEF Quit
  <2>6. CASE Crash
    BY <2>6, GoneKeeps, Zenon DEF Crash
  <2>7. CASE UNCHANGED vars
    BY <2>7 DEF vars, table, DBInv, TypeOK, TableExact, HeldIsCounted, OpenExists, Holders
  <2> QED BY <2>1, <2>2, <2>3, <2>4, <2>5, <2>6, <2>7 DEF Next
<1>3. DBInv => TableExact /\ HeldIsCounted /\ OpenExists
  BY DEF DBInv
<1> QED BY <1>1, <1>2, <1>3, PTL DEF Spec

\* The open-file table has an entry for exactly the Files that are open, and it is
\* the one with that name: openFile of an open file never makes a second File.
THEOREM OneFilePerName == Spec => []TableExact
BY OpenFilesInvariant, PTL

\* destroyFile never removes a file from under an open File.
THEOREM OpenFilesStay == Spec => []OpenExists
BY OpenFilesInvariant, PTL
=============================================================================
