--------------------------- MODULE HeapFileProofs ---------------------------
(***************************************************************************)
(* Proofs about a heap file and the objects on it, for any number of       *)
(* objects of each class, any records and any size of page, pool and file: *)
(* the changes of which the buffer pool has to know, that a scan returns no*)
(* record twice, and the records and the pins counted.                     *)
(***************************************************************************)
EXTENDS HeapCallProofs, FiniteSetTheorems

\* The hypothesis of the lemmas about calls.
LEMMA NumbersHaveLeast == LeastNumbers
<1> SUFFICES ASSUME NEW T \in SUBSET Nat, T # {}
             PROVE  \E x \in T : \A y \in T : x <= y
  BY DEF LeastNumbers
<1> DEFINE R == OpToRel(<, Nat)
<1>1. IsWellFoundedOn(R, Nat)
  BY NatLessThanWellFounded, Zenon
<1> HIDE DEF R
<1>2. PICK x \in T : \A y \in T : ~(<<y, x>> \in R)
  BY <1>1, WFMin, Zenon
<1>3. ASSUME NEW y \in T PROVE x <= y
  <2>1. x \in Nat /\ y \in Nat
    BY <1>2
  <2>2. y < x => <<y, x>> \in R
    BY <2>1 DEF R, OpToRel
  <2> QED BY <2>1, <2>2, <1>2
<1> QED BY <1>2, <1>3

-----------------------------------------------------------------------------
(* What holds because every call keeps it.                                  *)

\* The types and positions hold in every reachable state.
LEMMA HeapInvHolds == Spec => []HeapInv
<1>1. Init => HeapInv
  BY NumbersHaveLeast, InitKeeps
<1> QED BY <1>1, HeapInvStep, PTL DEF Spec

\* OnePlace holds in every reachable state.
LEMMA OnePlaceHolds == Spec => [](HeapInv /\ OnePlace)
<1>1. Init => OnePlace
  BY NoneAtFirst DEF OnePlace
<1> QED BY <1>1, HeapInvHolds, OnePlaceStep, PTL DEF Spec

\* A page that has been changed, the header page included, is pinned by an object
\* that will unpin it dirty: whatever scans, insertions, deletions, marks and
\* failed calls are interleaved, the pool is told of every change in heapfile.C.
THEOREM ChangesAnnounced == Spec => []ChangeAnnounced
<1>1. Init => Announcer
  BY DEF Init, Announcer
<1>2. Announcer => ChangeAnnounced
  BY DEF Announcer, Announces, ChangeAnnounced
<1> QED BY <1>1, <1>2, HeapInvHolds, AnnouncerStep, PTL DEF Spec

\* OnePlace and Tracked and SeenBehind hold in every reachable state.
LEMMA ScansTracked == Spec => [](HeapInv /\ OnePlace /\ Tracked /\ SeenBehind)
<1>1. Init => OnePlace /\ Tracked /\ SeenBehind
  BY NoneAtFirst DEF OnePlace, Init, Tracked, SeenBehind
<1> QED BY <1>1, HeapInvHolds, OnePlaceStep, TrackedStep, SeenBehindStep, PTL DEF Spec

\* Each record scanNext returns matches and was not returned before, since the scan
\* began or since the mark it was reset to: a deletion, which may cut the slot array
\* under another scan, and an insertion into a slot it left empty take no scan back.
THEOREM NoRecordTwice == Spec => []ScanOnce
<1>1. Init => ScanOnce
  BY DEF Init, ScanOnce
<1>2. HeapInv /\ OnePlace /\ SeenBehind /\ ScanOnce /\ [Next]_vars => ScanOnce'
  BY ReturnsNew DEF vars, ScanOnce
<1> QED BY <1>1, <1>2, ScansTracked, PTL DEF Spec

-----------------------------------------------------------------------------
(* Numbers of pages and of pins.                                           *)

\* A page behind a data page has a number.
LEMMA LaterPages ==
  ASSUME NEW n \in Nat, NEW c \in 2 .. n, NEW p \in c .. n
  PROVE  p \in 2 .. n
OBVIOUS

\* The record number with which a scan begins.
LEMMA NoRecordYet ==
  -1 \in Int
OBVIOUS

\* The page that a full file can still get is a new one.
LEMMA NewPageNo ==
  ASSUME MaxPages \in Nat, NEW n \in 2 .. MaxPages, n < MaxPages
  PROVE  n + 1 \in PageNos /\ \A p \in 2 .. n : p # n + 1
BY DEF PageNos

\* The pins that an object adds with its constructor and gives back with its
\* destructor, on one page.
LEMMA PinSums ==
  ASSUME NEW n \in Nat, NEW a \in {0, 1}, NEW b \in {0, 1}
  PROVE  /\ (n + b + a) + 0 = n + (a + b)
         /\ n >= a + 1 => n - a # 0 /\ (n - a) - 1 + (a + 1) = n + 0
         /\ (n - a) + (a + 0) = n + 0
         /\ 0 + 0 = 0
OBVIOUS

-----------------------------------------------------------------------------
(* Records are counted.                                                    *)

\* The places in use.
Places == UNION {{<<p, i>> : i \in Occupied(p)} : p \in 2 .. size}

\* They are the places that hold a record.
LEMMA PlacesHold ==
  \A p, i : <<p, i>> \in Places <=> \E r : Holds(p, i, r)
BY DEF Places, Holds

\* The count is that of the places.
Counted == IsFiniteSet(Places) /\ hdr.recCnt = Cardinality(Places)

\* Counted is inductive.
LEMMA CountedStep == HeapInv /\ Counted /\ [Next]_vars => Counted'
<1> SUFFICES ASSUME HeapInv, Counted, [Next]_vars PROVE Counted'
  OBVIOUS
<1>0. \A x : x \in Places => \E p, i : x = <<p, i>>
  BY DEF Places
<1>00. \A x : x \in Places' => \E p, i : x = <<p, i>>
  BY DEF Places
<1>h. \A p, i : <<p, i>> \in Places' <=> \E r : Holds(p, i, r)'
  BY DEF Places, Holds
<1>1. ASSUME hdr'.recCnt = hdr.recCnt, PlacesStay PROVE Counted'
  <2>1. Places' = Places
    BY <1>0, <1>00, <1>h, <1>1, PlacesHold, SMTT(30) DEF PlacesStay
  <2> QED BY <1>1, <2>1 DEF Counted
<1>2. ASSUME NEW h \in Handles, DeleteRecord(h) PROVE Counted'
  <2> DEFINE p == curPageNo[h]
             i == curRec[h] + 1
  <2>1. /\ hdr' = [hdr EXCEPT !.recCnt = @ - 1] /\ Holds(p, i, out[h])
        /\ \A q, j, x : Holds(q, j, x)' <=> Holds(q, j, x) /\ ~(q = p /\ j = i)
    BY <1>2, DeleteEffect
  <2>2. hdr'.recCnt = hdr.recCnt - 1
    BY <2>1 DEF HeapInv, FileOK
  <2> HIDE DEF p, i
  <2>3. Places' = Places \ {<<p, i>>} /\ <<p, i>> \in Places
    <3>1. <<p, i>> \in Places
      BY <2>1, PlacesHold
    <3>2. \A q, j : <<q, j>> \in Places' <=> <<q, j>> \in Places /\ <<q, j>> # <<p, i>>
      <4> SUFFICES ASSUME NEW q, NEW j
                   PROVE  <<q, j>> \in Places' <=> <<q, j>> \in Places /\ ~(q = p /\ j = i)
        BY Zenon
      <4>1. <<q, j>> \in Places' <=> \E r : Holds(q, j, r)'
        BY <1>h
      <4>2. <<q, j>> \in Places <=> \E r : Holds(q, j, r)
        BY PlacesHold
      <4> QED BY <2>1, <4>1, <4>2, SMTT(30)
    <3> QED BY <1>0, <1>00, <3>1, <3>2, SMTT(30)
  <2>4. IsFiniteSet(Places') /\ Cardinality(Places') = Cardinality(Places) - 1
    BY <2>3, FS_RemoveElement, Zenon DEF Counted
  <2> QED BY <2>2, <2>4 DEF Counted
<1>3. ASSUME NEW r \in Records \ FileRecords, NEW p, NEW i, hdr'.recCnt = hdr.recCnt + 1,
             InsertedAt(p, i, r)
      PROVE  Counted'
  <2>1. Places' = Places \cup {<<p, i>>} /\ <<p, i>> \notin Places
    <3>1. <<p, i>> \notin Places
      BY <1>3, PlacesHold DEF InsertedAt
    <3>2. \A q, j : <<q, j>> \in Places' <=> <<q, j>> \in Places \/ <<q, j>> = <<p, i>>
      <4> SUFFICES ASSUME NEW q, NEW j
                   PROVE  <<q, j>> \in Places' <=> <<q, j>> \in Places \/ (q = p /\ j = i)
        BY Zenon
      <4>1. <<q, j>> \in Places' <=> \E x : Holds(q, j, x)'
        BY <1>h
      <4>2. <<q, j>> \in Places <=> \E x : Holds(q, j, x)
        BY PlacesHold
      <4> QED BY <1>3, <4>1, <4>2, ZenonT(30) DEF InsertedAt
    <3> QED BY <1>0, <1>00, <3>1, <3>2, SMTT(30)
  <2>2. IsFiniteSet(Places') /\ Cardinality(Places') = Cardinality(Places) + 1
    BY <2>1, FS_AddElement, Zenon DEF Counted
  <2> QED BY <1>3, <2>2 DEF Counted
<1>4. CASE UNCHANGED vars
  BY <1>4 DEF vars, Counted, Places, Holds, Occupied
<1> QED BY <1>1, <1>2, <1>3, <1>4, NextIsCall, CallOnPlaces, ZenonT(30)

\* A record has one place, so counting the records counts the places.
LEMMA CountsAgree ==
  ASSUME Counted, OnePlace
  PROVE  IsFiniteSet(FileRecords) /\ Cardinality(FileRecords) = Cardinality(Places)
<1> DEFINE f == [x \in Places |-> slots[x[1]][x[2]]]
<1>0. \A x : x \in Places => \E p, i : x = <<p, i>>
  BY DEF Places
<1>1. \A p, i : <<p, i>> \in Places => Holds(p, i, f[<<p, i>>])
  BY PlacesHold DEF Holds
<1>2. \A p, i, r : Holds(p, i, r) => <<p, i>> \in Places /\ f[<<p, i>>] = r
  BY PlacesHold DEF Holds
<1> HIDE DEF f
<1>3. \A x \in Places : f[x] \in FileRecords
  BY <1>0, <1>1, RecordsInPlaces, ZenonT(30)
<1>4. \A x, y \in Places : f[x] = f[y] => x = y
  BY <1>0, <1>1 DEF OnePlace
<1>5. ASSUME NEW r \in FileRecords PROVE \E x \in Places : f[x] = r
  <2>1. PICK p, i : Holds(p, i, r)
    BY RecordsInPlaces
  <2>2. <<p, i>> \in Places /\ f[<<p, i>>] = r
    BY <1>2, <2>1, SMTT(30)
  <2> QED BY <2>2
<1>6. f \in [Places -> FileRecords]
  BY <1>3 DEF f
<1>7. f \in Bijection(Places, FileRecords)
  BY <1>4, <1>5, <1>6, SMTT(30) DEF Bijection, Injection, IsInjective, Surjection
<1>8. ExistsBijection(Places, FileRecords)
  BY <1>7, ZenonT(30) DEF ExistsBijection
<1> QED BY <1>8, FS_Bijection DEF Counted

\* A new file counts none.
LEMMA CountedAtFirst == Init => Counted
<1> SUFFICES ASSUME Init PROVE Counted
  OBVIOUS
<1>1. Places = {}
  BY NoneAtFirst DEF Places, Holds
<1> QED BY <1>1, FS_EmptySet DEF Counted, Init

\* recCnt, which insertRecord and deleteRecord of heapfile.C keep by adding and
\* subtracting one, is always the number of records in the file, each of which is
\* in one slot of one page.
THEOREM RecordsCounted == Spec => []RecCntExact
<1>1. Counted /\ OnePlace => RecCntExact
  BY CountsAgree, Zenon DEF Counted, RecCntExact, OnePlace, Places
<1> QED BY <1>1, CountedAtFirst, OnePlaceHolds, CountedStep, PTL DEF Spec

-----------------------------------------------------------------------------
(* Every pin belongs to an object.                                         *)

\* The objects with page p as their current page, and the pins object h has on it.
Users(p) == {h \in open : curPage[h] = p}
Own(h, p) ==
  (IF h \in open /\ curPage[h] = p THEN 1 ELSE 0) + (IF h \in open /\ p = Header THEN 1 ELSE 0)

\* An object has a page only under its number: it loses track of a pin when
\* getRecord or resetScan unpins its page and cannot read the next.
Held == \A h \in open : curPage[h] \in {Null, curPageNo[h]}

\* A call changes the pins by what it changes of its object's.
PinsMove(h) == \A p \in PageNos : pins'[p] + Own(h, p) = pins[p] + Own(h, p)'

\* getRecord and resetScan, the calls that may do that, are not used, or the pool
\* has a frame for the current page of every object and the header page.
Roomy == (Heaps = {} /\ Markers = {}) \/ NumBufs > Cardinality(Handles)

\* An object is one more among the objects, or not among them.
LEMMA CountWithout ==
  ASSUME NEW S, IsFiniteSet(S), NEW h
  PROVE  /\ IsFiniteSet(S \ {h})
         /\ Cardinality(S \ {h}) \in Nat
         /\ Cardinality(S) = Cardinality(S \ {h}) + (IF h \in S THEN 1 ELSE 0)
<1>1. IsFiniteSet(S \ {h}) /\ Cardinality(S) \in Nat /\ Cardinality(S \ {h}) \in Nat
  BY FS_RemoveElement, FS_CardinalityType, Zenon
<1>2. Cardinality(S \ {h}) = IF h \in S THEN Cardinality(S) - 1 ELSE Cardinality(S)
  BY FS_RemoveElement
<1> QED BY <1>1, <1>2, SMTT(30)

\* The sets that PinsExact counts are finite.
LEMMA UsersFinite ==
  ASSUME HeapInv, NEW p
  PROVE  IsFiniteSet(open) /\ IsFiniteSet(Users(p))
<1>1. open \in SUBSET Handles /\ Users(p) \in SUBSET Handles
  BY DEF HeapInv, ObjectsOK, Users
<1> QED BY <1>1, KindsAssumption, FS_Subset, Zenon

\* So a call that moves its own pins only keeps PinsExact.
LEMMA PinsMoveKeeps ==
  ASSUME HeapInv, HeapInv', PinsExact, NEW h \in Handles, OthersStay(h), PinsMove(h)
  PROVE  PinsExact'
<1> SUFFICES ASSUME NEW p \in PageNos
             PROVE  pins'[p] = Cardinality(Users(p)') + (IF p = Header THEN Cardinality(open') ELSE 0)
  BY DEF PinsExact, Users
<1>1. IsFiniteSet(open) /\ IsFiniteSet(Users(p)) /\ IsFiniteSet(open') /\ IsFiniteSet(Users(p)')
  <2>1. open' \in SUBSET Handles /\ Users(p)' \in SUBSET Handles
    BY ZenonT(30) DEF HeapInv, ObjectsOK, Users
  <2> QED BY <2>1, UsersFinite, KindsAssumption, FS_Subset, Zenon
<1>2. Users(p)' \ {h} = Users(p) \ {h} /\ open' \ {h} = open \ {h}
  BY DEF Users, OthersStay, HeapInv, ObjectsOK
<1> DEFINE U == Cardinality(Users(p) \ {h})
           O == Cardinality(open \ {h})
<1>3. U \in Nat /\ O \in Nat
  BY <1>1, CountWithout, Zenon
<1>4. /\ Cardinality(Users(p)) = U + (IF h \in open /\ curPage[h] = p THEN 1 ELSE 0)
      /\ Cardinality(open) = O + (IF h \in open THEN 1 ELSE 0)
  <2>1. /\ Cardinality(Users(p)) = U + (IF h \in Users(p) THEN 1 ELSE 0)
        /\ Cardinality(open) = O + (IF h \in open THEN 1 ELSE 0)
    BY <1>1, CountWithout
  <2>2. h \in Users(p) <=> h \in open /\ curPage[h] = p
    BY DEF Users
  <2> QED BY <2>1, <2>2
<1>5. /\ Cardinality(Users(p)') = U + (IF h \in open' /\ curPage'[h] = p THEN 1 ELSE 0)
      /\ Cardinality(open') = O + (IF h \in open' THEN 1 ELSE 0)
  <2>1. /\ Cardinality(Users(p)') = Cardinality(Users(p)' \ {h}) + (IF h \in Users(p)' THEN 1 ELSE 0)
        /\ Cardinality(open') = Cardinality(open' \ {h}) + (IF h \in open' THEN 1 ELSE 0)
    BY <1>1, CountWithout, Zenon
  <2>2. h \in Users(p)' <=> h \in open' /\ curPage'[h] = p
    BY DEF Users
  <2> QED BY <1>2, <2>1, <2>2
<1>6. pins[p] = Cardinality(Users(p)) + (IF p = Header THEN Cardinality(open) ELSE 0)
  BY DEF PinsExact, Users
<1>7. pins[p] \in Nat /\ pins'[p] \in Nat
  BY DEF HeapInv, ObjectsOK
<1>8. pins'[p] + Own(h, p) = pins[p] + Own(h, p)'
  BY DEF PinsMove
<1> HIDE DEF U, O
<1>9. CASE p = Header
  BY <1>3, <1>4, <1>5, <1>6, <1>7, <1>8, <1>9, SMTT(30) DEF Own
<1>10. CASE p # Header
  BY <1>3, <1>4, <1>5, <1>6, <1>7, <1>8, <1>10, SMTT(30) DEF Own
<1> QED BY <1>9, <1>10, Zenon

\* An object has its pins.
LEMMA OwnPins ==
  ASSUME HeapInv, PinsExact, NEW h \in open, NEW p \in PageNos
  PROVE  pins[p] \in Nat /\ pins[p] >= Own(h, p)
<1>1. IsFiniteSet(open) /\ IsFiniteSet(Users(p))
  BY UsersFinite, Zenon
<1>2. /\ Cardinality(Users(p) \ {h}) \in Nat /\ Cardinality(open \ {h}) \in Nat
      /\ Cardinality(Users(p)) = Cardinality(Users(p) \ {h}) + (IF curPage[h] = p THEN 1 ELSE 0)
      /\ Cardinality(open) = Cardinality(open \ {h}) + 1
  <2>1. /\ Cardinality(Users(p) \ {h}) \in Nat /\ Cardinality(open \ {h}) \in Nat
        /\ Cardinality(Users(p)) = Cardinality(Users(p) \ {h}) + (IF h \in Users(p) THEN 1 ELSE 0)
        /\ Cardinality(open) = Cardinality(open \ {h}) + (IF h \in open THEN 1 ELSE 0)
    BY <1>1, CountWithout
  <2>2. h \in Users(p) <=> curPage[h] = p
    BY DEF Users
  <2> QED BY <2>1, <2>2, Zenon
<1>3. pins[p] = Cardinality(Users(p)) + (IF p = Header THEN Cardinality(open) ELSE 0)
  BY DEF PinsExact, Users
<1> QED BY <1>2, <1>3 DEF Own

\* The pins without the current page of h: its own is gone.
LEMMA CurUnpinnedFacts ==
  ASSUME HeapInv, PinsExact, Held, NEW h \in open
  PROVE  /\ CurUnpinned(h) \in [PageNos -> Nat]
         /\ \A p \in PageNos :
              CurUnpinned(h)[p] = pins[p] - (IF curPage[h] = p THEN 1 ELSE 0)
<1>0. h \in Handles /\ pins \in [PageNos -> Nat]
  BY DEF HeapInv, ObjectsOK
<1>1. CASE curPage[h] = Null
  BY <1>0, <1>1, SMTT(30) DEF CurUnpinned, PageNos, Null
<1>2. CASE curPage[h] # Null
  <2>1. curPageNo[h] = curPage[h] /\ curPage[h] \in PageNos
    BY <1>0, <1>2, PageFacts, Zenon DEF Held, HeapInv, ObjectsOK
  <2>2. pins[curPage[h]] \in Nat /\ pins[curPage[h]] >= 1
    BY <2>1, OwnPins, SMTT(30) DEF Own
  <2>3. CurUnpinned(h) = [pins EXCEPT ![curPage[h]] = @ - 1]
    <3>1. CurUnpinned(h) = [pins EXCEPT ![curPage[h]] = IF pins[curPage[h]] = 0 THEN 0 ELSE pins[curPage[h]] - 1]
      BY <1>2, <2>1, Zenon DEF CurUnpinned, UnPin
    <3>2. pins[curPage[h]] # 0
      BY <2>2
    <3> QED BY <3>1, <3>2, Zenon
  <2>4. pins[curPage[h]] - 1 \in Nat
    BY <2>2
  <2>5. CurUnpinned(h) \in [PageNos -> Nat]
    BY <1>0, <2>1, <2>3, <2>4, Zenon
  <2>6. ASSUME NEW p \in PageNos
        PROVE  CurUnpinned(h)[p] = pins[p] - (IF curPage[h] = p THEN 1 ELSE 0)
    BY <1>0, <2>1, <2>3, SMTT(30)
  <2> QED BY <2>5, <2>6, Zenon
<1> QED BY <1>1, <1>2, Zenon

\* With room in the pool the page an object moves to can be read.
LEMMA RoomLeft ==
  ASSUME HeapInv, PinsExact, Held, NumBufs > Cardinality(Handles), NEW h \in open, NEW p
  PROVE  CanPin(CurUnpinned(h), p)
<1> DEFINE Q == {q \in PageNos : CurUnpinned(h)[q] > 0}
           f == [g \in Handles |-> IF g = h THEN Header ELSE curPage[g]]
           T == {f[g] : g \in Handles}
<1>1. IsFiniteSet(Handles) /\ Cardinality(Handles) \in Nat
  BY KindsAssumption, FS_CardinalityType
<1>2. f \in Surjection(Handles, T)
  BY Zenon DEF Surjection
<1>3. IsFiniteSet(T) /\ Cardinality(T) <= Cardinality(Handles)
  BY <1>1, <1>2, FS_Surjection, Zenon
<1>4. ASSUME NEW q \in Q PROVE q \in T
  <2>1. q \in PageNos /\ CurUnpinned(h)[q] > 0
    OBVIOUS
  <2>2. CASE q = Header
    BY <2>2, Zenon DEF HeapInv, ObjectsOK
  <2>3. CASE q # Header
    <3>a. IsFiniteSet(Users(q)) /\ (h \in Users(q) <=> curPage[h] = q)
      BY UsersFinite, Zenon DEF Users
    <3>b. pins[q] \in Nat
      BY <2>1, Zenon DEF HeapInv, ObjectsOK
    <3>1. pins[q] = Cardinality(Users(q)) /\ pins[q] \in Nat
      <4>1. pins[q] = Cardinality(Users(q)) + 0
        BY <2>1, <2>3, Zenon DEF PinsExact, Users
      <4> QED BY <3>a, <3>b, <4>1, FS_CardinalityType, SMTT(30)
    <3>2. /\ Cardinality(Users(q) \ {h}) \in Nat
          /\ Cardinality(Users(q)) = Cardinality(Users(q) \ {h}) + (IF curPage[h] = q THEN 1 ELSE 0)
          /\ IsFiniteSet(Users(q) \ {h})
      BY <3>a, CountWithout, Zenon
    <3>3. Cardinality(Users(q) \ {h}) > 0
      <4> HIDE DEF Q, T
      <4> QED BY <2>1, <3>1, <3>2, CurUnpinnedFacts, SMTT(30)
    <3>4. PICK g \in Users(q) : g # h
      BY <3>2, <3>3, FS_EmptySet, SMTT(30)
    <3>5. g \in Handles /\ f[g] = q
      BY <3>4, Zenon DEF Users, HeapInv, ObjectsOK
    <3> QED BY <3>5
  <2> QED BY <2>2, <2>3
<1>5. Cardinality(Q) <= Cardinality(T) /\ Cardinality(Q) \in Nat /\ Cardinality(T) \in Nat
  BY <1>3, <1>4, FS_Subset, FS_CardinalityType, Zenon
<1>6. NumBufs \in Nat
  BY SizesAssumption
<1>7. Cardinality(Q) < NumBufs
  <2> HIDE DEF Q, T
  <2> QED BY <1>1, <1>3, <1>5, <1>6, SMTT(30)
<1> QED BY <1>7 DEF CanPin

\* A call that gives up the current page.
LEMMA MovesAway ==
  ASSUME HeapInv, PinsExact, Held, NEW h \in open, h \in open', curPage'[h] = Null,
         pins' = CurUnpinned(h)
  PROVE  PinsMove(h)
<1> SUFFICES ASSUME NEW q \in PageNos PROVE pins'[q] + Own(h, q) = pins[q] + Own(h, q)'
  BY Zenon DEF PinsMove
<1>1. pins'[q] = pins[q] - (IF curPage[h] = q THEN 1 ELSE 0) /\ pins[q] \in Nat
  BY CurUnpinnedFacts DEF HeapInv, ObjectsOK
<1>2. q # Null
  BY DEF PageNos, Null
<1>3. Own(h, q)' = IF q = Header THEN 1 ELSE 0
  BY <1>2 DEF Own
<1>4. Own(h, q) = (IF curPage[h] = q THEN 1 ELSE 0) + (IF q = Header THEN 1 ELSE 0)
  BY Zenon DEF Own
<1> QED BY <1>1, <1>3, <1>4, SMTT(30)

\* A call that moves to page p.
LEMMA MovesTo ==
  ASSUME HeapInv, PinsExact, Held, NEW h \in open, h \in open', NEW p \in PageNos,
         curPage'[h] = p, pins' = Pin(CurUnpinned(h), p)
  PROVE  PinsMove(h)
<1> SUFFICES ASSUME NEW q \in PageNos PROVE pins'[q] + Own(h, q) = pins[q] + Own(h, q)'
  BY Zenon DEF PinsMove
<1>1. pins[q] \in Nat
  BY Zenon DEF HeapInv, ObjectsOK
<1>2. /\ CurUnpinned(h) \in [PageNos -> Nat]
      /\ CurUnpinned(h)[q] = pins[q] - (IF curPage[h] = q THEN 1 ELSE 0)
  BY CurUnpinnedFacts
<1>3. pins'[q] = CurUnpinned(h)[q] + (IF p = q THEN 1 ELSE 0)
  BY <1>2 DEF Pin
<1>4. Own(h, q)' = (IF p = q THEN 1 ELSE 0) + (IF q = Header THEN 1 ELSE 0)
  BY DEF Own
<1>5. Own(h, q) = (IF curPage[h] = q THEN 1 ELSE 0) + (IF q = Header THEN 1 ELSE 0)
  BY DEF Own
<1> QED BY <1>1, <1>2, <1>3, <1>4, <1>5, SMTT(30)

\* A call that stays.
LEMMA Stays ==
  ASSUME HeapInv, NEW h, (h \in open') = (h \in open), curPage'[h] = curPage[h], pins' = pins
  PROVE  PinsMove(h)
<1> SUFFICES ASSUME NEW q \in PageNos PROVE pins'[q] + Own(h, q) = pins[q] + Own(h, q)'
  BY DEF PinsMove
<1>1. Own(h, q)' = Own(h, q)
  BY Zenon DEF Own
<1> QED BY <1>1

\* A constructor.
LEMMA OpenPins ==
  ASSUME HeapInv, NEW h \in Handles, Open(h)
  PROVE  PinsMove(h) /\ curPage'[h] = curPageNo'[h]
<1> DEFINE home == IF h \in Inserts THEN hdr.lastPage ELSE hdr.firstPage
<1>1. home \in PageNos /\ Header \in PageNos
  BY PageFacts, Zenon DEF HeapInv
<1>2. /\ pins' = Pin(Pin(pins, Header), home) /\ curPage'[h] = home /\ curPageNo'[h] = home
      /\ h \notin open /\ h \in open'
  BY Zenon DEF Open, HeapInv, ObjectsOK
<1> HIDE DEF home
<1>3. ASSUME NEW q \in PageNos PROVE pins'[q] + Own(h, q) = pins[q] + Own(h, q)'
  <2>1. pins[q] \in Nat
    BY Zenon DEF HeapInv, ObjectsOK
  <2>2. pins'[q] = pins[q] + (IF q = Header THEN 1 ELSE 0) + (IF home = q THEN 1 ELSE 0)
    BY <1>1, <1>2, SMTT(30) DEF Pin, HeapInv, ObjectsOK
  <2>3. Own(h, q) = 0 /\ Own(h, q)' = (IF home = q THEN 1 ELSE 0) + (IF q = Header THEN 1 ELSE 0)
    <3>1. Own(h, q) = 0 + 0
          /\ Own(h, q)' = (IF home = q THEN 1 ELSE 0) + (IF q = Header THEN 1 ELSE 0)
      BY <1>2, Zenon DEF Own
    <3> QED BY <2>1, <3>1, PinSums, Zenon
  <2> DEFINE a == IF home = q THEN 1 ELSE 0
             b == IF q = Header THEN 1 ELSE 0
  <2>4. a \in {0, 1} /\ b \in {0, 1}
    BY Zenon
  <2>5. pins'[q] = pins[q] + b + a /\ Own(h, q)' = a + b
    BY <2>2, <2>3, Zenon
  <2> HIDE DEF a, b
  <2>6. (pins[q] + b + a) + 0 = pins[q] + (a + b)
    BY <2>1, <2>4, PinSums, Zenon
  <2> QED BY <2>3, <2>5, <2>6, Zenon
<1> QED BY <1>2, <1>3, Zenon DEF PinsMove

\* A destructor.
LEMMA ClosePins ==
  ASSUME HeapInv, PinsExact, Held, NEW h \in Handles, Close(h)
  PROVE  PinsMove(h) /\ h \notin open'
<1>1. pins' = UnPin(CurUnpinned(h), Header) /\ h \in open /\ h \notin open'
  BY Zenon DEF Close
<1>2. ASSUME NEW q \in PageNos PROVE pins'[q] + Own(h, q) = pins[q] + Own(h, q)'
  <2>1. pins[q] \in Nat /\ pins[q] >= Own(h, q)
    BY <1>1, OwnPins, Zenon
  <2> DEFINE a == IF curPage[h] = q THEN 1 ELSE 0
  <2>2. a \in {0, 1} /\ CurUnpinned(h) \in [PageNos -> Nat] /\ CurUnpinned(h)[q] = pins[q] - a
    BY <1>1, CurUnpinnedFacts, Zenon
  <2>3. Own(h, q) = a + (IF q = Header THEN 1 ELSE 0) /\ Own(h, q)' = 0 + 0
    BY <1>1, Zenon DEF Own
  <2> HIDE DEF a
  <2>4. Own(h, q)' = 0
    BY <2>1, <2>2, <2>3, PinSums, Zenon
  <2>5. CASE q = Header
    <3>1. Own(h, q) = a + 1
      BY <2>3, <2>5, Zenon
    <3>2. pins[q] - a # 0 /\ (pins[q] - a) - 1 + (a + 1) = pins[q] + 0
      BY <2>1, <2>2, <3>1, PinSums, Zenon
    <3>3. pins'[q] = CurUnpinned(h)[q] - 1
      BY <1>1, <2>2, <2>5, <3>2, Zenon DEF UnPin
    <3> QED BY <2>2, <2>4, <3>1, <3>2, <3>3, Zenon
  <2>6. CASE q # Header
    <3>1. Own(h, q) = a + 0
      BY <2>3, <2>6, Zenon
    <3>2. pins'[q] = CurUnpinned(h)[q]
      BY <1>1, <2>2, <2>6, Zenon DEF UnPin
    <3>3. (pins[q] - a) + (a + 0) = pins[q] + 0
      BY <2>1, <2>2, PinSums, Zenon
    <3> QED BY <2>2, <2>4, <3>1, <3>2, <3>3, Zenon
  <2> QED BY <2>5, <2>6, Zenon
<1> QED BY <1>1, <1>2, Zenon DEF PinsMove

\* getRecord.
LEMMA GetRecordPins ==
  ASSUME HeapInv, PinsExact, Held, Roomy, NEW h \in Handles, NEW p \in PageNos, NEW s,
         GetRecord(h, p, s)
  PROVE  PinsMove(h) /\ curPage'[h] \in {Null, curPageNo'[h]}
<1>0. h \in open /\ h \in open' /\ h \in Heaps
  BY Zenon DEF GetRecord, Usable
<1>1. CASE p = curPageNo[h]
  BY <1>0, <1>1, Stays, Zenon DEF GetRecord, Held
<1>2. CASE p # curPageNo[h]
  <2>1. NumBufs > Cardinality(Handles)
    BY <1>0 DEF Roomy
  <2>2. CanPin(CurUnpinned(h), p)
    BY <1>0, <2>1, RoomLeft, Zenon
  <2>3. /\ pins' = Pin(CurUnpinned(h), p) /\ curPage' = [curPage EXCEPT ![h] = p]
        /\ curPageNo' = [curPageNo EXCEPT ![h] = p]
    BY <1>2, <2>2, Zenon DEF GetRecord, LeftPins
  <2>4. curPage'[h] = p /\ curPageNo'[h] = p
    BY <2>3, Zenon DEF HeapInv, ObjectsOK
  <2> QED BY <1>0, <2>3, <2>4, MovesTo, Zenon
<1> QED BY <1>1, <1>2, Zenon

\* resetScan.
LEMMA ResetScanPins ==
  ASSUME HeapInv, PinsExact, Held, Roomy, NEW h \in Handles, ResetScan(h)
  PROVE  PinsMove(h) /\ curPage'[h] \in {Null, curPageNo'[h]}
<1>0. h \in open /\ h \in open' /\ h \in Markers /\ marked[h] # <<>>
  BY ZenonT(30) DEF ResetScan, Usable
<1>1. curPageNo'[h] = marked[h][1] /\ marked[h][1] \in 2 .. size
  BY <1>0, ZenonT(30) DEF ResetScan, HeapInv, ObjectsOK
<1>2. marked[h][1] \in PageNos
  BY <1>1, PageFacts, ZenonT(30) DEF HeapInv
<1>3. CASE marked[h][1] = curPageNo[h]
  BY <1>0, <1>1, <1>3, Stays, ZenonT(30) DEF ResetScan, Held, pool
<1>4. CASE marked[h][1] # curPageNo[h]
  <2>1. NumBufs > Cardinality(Handles)
    BY <1>0, Zenon DEF Roomy
  <2>2. CanPin(CurUnpinned(h), marked[h][1])
    BY <1>0, <2>1, RoomLeft, Zenon
  <2>3. pins' = Pin(CurUnpinned(h), marked[h][1]) /\ curPage' = [curPage EXCEPT ![h] = marked[h][1]]
    BY <1>4, <2>2, ZenonT(30) DEF ResetScan
  <2>4. curPage'[h] = marked[h][1]
    BY <2>3, Zenon DEF HeapInv, ObjectsOK
  <2> QED BY <1>0, <1>1, <1>2, <2>3, <2>4, MovesTo, ZenonT(30)
<1> QED BY <1>3, <1>4, ZenonT(30)

\* scanNext.
LEMMA ScanNextPins ==
  ASSUME HeapInv, PinsExact, Held, NEW h \in Handles, ScanNext(h)
  PROVE  PinsMove(h) /\ curPage'[h] \in {Null, curPageNo'[h]}
<1>0. h \in open /\ h \in open' /\ Usable(h) /\ open' = open
  BY ZenonT(30) DEF ScanNext, Usable
<1>1. ASSUME NEW c \in 2 .. size, NEW s \in Int, ScanFrom(h, CurUnpinned(h), c, s)
      PROVE  PinsMove(h) /\ curPage'[h] \in {Null, curPageNo'[h]}
  <2>1. PICK k \in 0 .. (MaxPages - 1), p \in c .. size :
          \/ ScanStops(h, CurUnpinned(h), c, s, k, p)
          \/ ScanMoves(h, CurUnpinned(h), c, s, k, p)
    BY <1>1, ScanOutcome, ZenonT(30) DEF HeapInv, ScanFinds, ScanRunsOut
  <2>2. p \in PageNos
    BY <1>1, <2>1, PageFacts, LaterPages, Zenon DEF HeapInv
  <2>3. CASE ScanStops(h, CurUnpinned(h), c, s, k, p)
    <3>1. pins' = CurUnpinned(h) /\ curPage'[h] = Null
      BY <2>3, ZenonT(30) DEF ScanStops, HeapInv, ObjectsOK
    <3> QED BY <1>0, <3>1, MovesAway, ZenonT(30)
  <2>4. CASE ScanMoves(h, CurUnpinned(h), c, s, k, p)
    <3>1. pins' = Pin(CurUnpinned(h), p) /\ curPage'[h] = p /\ curPageNo'[h] = p
      BY <2>4, ZenonT(30) DEF ScanMoves, HeapInv, ObjectsOK
    <3> QED BY <1>0, <2>2, <3>1, MovesTo, ZenonT(30)
  <2> QED BY <2>1, <2>3, <2>4, ZenonT(30)
<1>2. CASE curPageNo[h] # -1 /\ curPage[h] # Null
  <2>1. curPageNo[h] \in 2 .. size /\ curRec[h] \in Int
    BY <1>0, <1>2, ZenonT(30) DEF HeapInv, ObjectsOK, Positions
  <2>2. curPageNo[h] # 0
    BY <2>1, SMTT(30)
  <2>3. ScanFrom(h, CurUnpinned(h), curPageNo[h], curRec[h])
    BY <1>2, <2>2, Zenon DEF ScanNext, CurUnpinned
  <2> QED BY <1>1, <2>1, <2>3, ZenonT(30)
<1>3. CASE curPageNo[h] = -1 \/ curPage[h] = Null
  <2>1. hdr.firstPage \in 2 .. size /\ -1 \in Int
    BY PageFacts, NoRecordYet, Zenon DEF HeapInv
  <2>2. curPage[h] = Null
    BY <1>0, <1>3, PositionOf, PageFacts, Zenon DEF HeapInv
  <2>3. CASE ScanFrom(h, pins, hdr.firstPage, -1)
    <3>1. CurUnpinned(h) = pins
      BY <2>2, Zenon DEF CurUnpinned
    <3> QED BY <1>1, <2>1, <2>3, <3>1, ZenonT(30)
  <2>4. CASE UNCHANGED <<pins, curPage>>
    BY <1>0, <2>2, <2>4, Stays, ZenonT(30)
  <2> QED BY <1>3, <2>3, <2>4, Zenon DEF ScanNext
<1> QED BY <1>2, <1>3, ZenonT(30)

\* insertRecord.
LEMMA InsertRecordPins ==
  ASSUME HeapInv, PinsExact, Held, NEW h \in Handles, NEW r \in Records, InsertRecord(h, r)
  PROVE  PinsMove(h) /\ curPage'[h] \in {Null, curPageNo'[h]}
<1>0. h \in open /\ h \in open' /\ open' = open
  BY Zenon DEF InsertRecord, Usable
<1>1. CASE UNCHANGED <<pins, curPage, curPageNo>>
  BY <1>0, <1>1, Stays, Zenon DEF Held
<1>2. CASE InsertNewPage(h, r)
  <2> DEFINE n == size + 1
             p == curPageNo[h]
  <2>1. curPageNo[h] \in 2 .. size /\ curPage[h] = curPageNo[h]
    BY <1>2, InsertNewPageEffect, Zenon
  <2>2. p \in PageNos /\ n \in PageNos /\ p # n
    <3>1. size \in 2 .. MaxPages /\ MaxPages \in Nat /\ 2 .. size \subseteq PageNos
      BY PageFacts, Zenon DEF HeapInv
    <3>2. size < MaxPages
      BY <1>2, Zenon DEF InsertNewPage
    <3> QED BY <2>1, <3>1, <3>2, NewPageNo, Zenon
  <2>3. /\ pins' = UnPin(Pin(pins, n), p) /\ curPage'[h] = n /\ curPageNo'[h] = n
    BY <1>2, ZenonT(30) DEF InsertNewPage, HeapInv, ObjectsOK
  <2>4. curPage[h] # Null
    BY <2>1, PageFacts, ZenonT(30) DEF HeapInv
  <2> HIDE DEF n
  <2>5. pins' = Pin(CurUnpinned(h), n)
    <3>1. CurUnpinned(h) = UnPin(pins, p)
      BY <2>4, Zenon DEF CurUnpinned
    <3>2. pins \in [PageNos -> Nat]
      BY DEF HeapInv, ObjectsOK
    <3> HIDE DEF p
    <3>3. UnPin(Pin(pins, n), p) = Pin(UnPin(pins, p), n)
      <4>1. \A q \in PageNos : UnPin(Pin(pins, n), p)[q] = Pin(UnPin(pins, p), n)[q]
        BY <2>2, <3>2, ZenonT(30) DEF UnPin, Pin
      <4>2. /\ UnPin(Pin(pins, n), p) = [q \in PageNos |-> UnPin(Pin(pins, n), p)[q]]
            /\ Pin(UnPin(pins, p), n) = [q \in PageNos |-> Pin(UnPin(pins, p), n)[q]]
        BY <3>2, ZenonT(30) DEF UnPin, Pin
      <4> QED BY <4>1, <4>2, Zenon
    <3> QED BY <2>3, <3>1, <3>3, ZenonT(30)
  <2>6. PinsMove(h)
    BY <1>0, <2>2, <2>3, <2>5, MovesTo, SMTT(30)
  <2> QED BY <2>3, <2>6, Zenon
<1> QED BY <1>1, <1>2, Zenon DEF InsertRecord, InsertHere, InsertNoFrame, pool

\* Every call moves its own pins only.
LEMMA CallPins ==
  ASSUME HeapInv, PinsExact, Held, Roomy, NEW h \in Handles, Call(h)
  PROVE  PinsMove(h) /\ (h \in open' => curPage'[h] \in {Null, curPageNo'[h]})
<1>1. CASE EndScan(h)
  <2>1. h \in open /\ h \in open' /\ pins' = CurUnpinned(h) /\ curPage'[h] = Null
    BY <1>1, Zenon DEF EndScan, Usable, HeapInv, ObjectsOK
  <2> QED BY <2>1, MovesAway, Zenon
<1>2. CASE MarkScan(h) \/ DeleteRecord(h)
  <2>1. h \in open /\ UNCHANGED <<pins, open, curPage, curPageNo>>
    BY <1>2 DEF MarkScan, DeleteRecord, CanDelete, Usable, pool
  <2> QED BY <2>1, Stays, Zenon DEF Held
<1> QED BY <1>1, <1>2, OpenPins, ClosePins, GetRecordPins, ScanNextPins, ResetScanPins,
           InsertRecordPins, ZenonT(30) DEF Call

\* PinsExact and Held are inductive, with room in the pool.
LEMMA PinsStep ==
  ASSUME Roomy
  PROVE  HeapInv /\ PinsExact /\ Held /\ [Next]_vars => PinsExact' /\ Held'
<1> SUFFICES ASSUME HeapInv, PinsExact, Held, [Next]_vars PROVE PinsExact' /\ Held'
  BY Zenon
<1>1. CASE UNCHANGED vars
  BY <1>1 DEF vars, PinsExact, Held
<1>2. ASSUME NEW h \in Handles, Call(h) PROVE PinsExact' /\ Held'
  <2>1. OthersStay(h) /\ PinsMove(h) /\ (h \in open' => curPage'[h] \in {Null, curPageNo'[h]})
    BY <1>2, CallPins, OthersStayAlways, Zenon
  <2>2. HeapInv'
    BY <1>2, NextIsCall, HeapInvStep, Zenon
  <2>3. PinsExact'
    BY <2>1, <2>2, PinsMoveKeeps, ZenonT(30)
  <2>4. Held'
    BY <2>1, <2>2, Zenon DEF Held, OthersStay, HeapInv, ObjectsOK
  <2> QED BY <2>3, <2>4, Zenon
<1> QED BY <1>1, <1>2, NextIsCall, Zenon

\* Every pin on a page of the file belongs to one object, so the destructors of
\* heapfile.C leave no page pinned: for any number of objects, unless getRecord or
\* resetScan is used and the pool may be too small for the pages of all objects.
THEOREM PinsBalanced ==
  ASSUME Roomy
  PROVE  Spec => []PinsExact
<1>1. Init => PinsExact /\ Held
  <2> SUFFICES ASSUME Init PROVE PinsExact /\ Held
    OBVIOUS
  <2>1. \A p : Users(p) = {}
    BY DEF Init, Users
  <2>2. \A p \in PageNos : pins[p] = 0
    BY DEF Init
  <2>3. Cardinality(open) = 0 /\ \A p : Cardinality(Users(p)) = 0
    BY <2>1, FS_EmptySet, Zenon DEF Init
  <2> QED BY <2>2, <2>3 DEF PinsExact, Held, Users, Init
<1> QED BY <1>1, HeapInvHolds, PinsStep, PTL DEF Spec
=============================================================================
