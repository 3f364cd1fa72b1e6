--------------------------- MODULE HeapScanProofs ---------------------------
(***************************************************************************)
(* Proofs about the chain of pages of a heap file, for any number of       *)
(* objects on it, and that a scan along it leaves no record out.           *)
(***************************************************************************)
EXTENDS HeapFileProofs

-----------------------------------------------------------------------------
(* Numbers of pages and of steps.                                          *)

\* The numbers of the first page, of no record, and of a neighbour in a list.
LEMMA NumberFacts ==
  /\ -1 \in Int /\ 2 <= 2 /\ 2 .. 2 = {2}
  /\ \A n \in Int : n + 1 # n /\ n - 1 # n /\ (n - 1) + 1 = n
OBVIOUS

\* Pages from a page on.
LEMMA InnerPages ==
  ASSUME NEW n \in Nat, NEW c \in 2 .. n, NEW q \in c .. n
  PROVE  q \in 2 .. n /\ q # -1 /\ q \in Int /\ c \in Int
OBVIOUS

\* Numbers of steps of a walk.
LEMMA StepNumbers ==
  ASSUME NEW n \in Nat, NEW k \in 0 .. (n - 1), NEW m \in 0 .. (n - 1)
  PROVE  /\ k \in 0 .. n /\ m \in 0 .. n
         /\ m \notin 0 .. (k - 1) => m \in k .. (n - 1)
         /\ m \in k .. (n - 1) /\ m # k => k \in 0 .. (m - 1) /\ (m = k + 1 \/ k + 1 \in 0 .. (m - 1))
OBVIOUS

\* The number of one more page.
LEMMA NextNumber ==
  ASSUME NEW m \in Nat, m >= 2, NEW n, n = m + 1
  PROVE  /\ n \in Nat /\ n \in 2 .. n /\ 2 .. m \subseteq 2 .. n /\ n <= n /\ n \notin 2 .. m
         /\ \A q \in 2 .. m : q \in Int /\ q <= n
         /\ \A q \in 2 .. n : q = n \/ q \in 2 .. m
OBVIOUS

\* It is the number of a page while the file may grow.
LEMMA NextPageNo ==
  ASSUME NEW m \in 2 .. MaxPages, MaxPages \in Nat, m < MaxPages
  PROVE  m + 1 \in PageNos
BY DEF PageNos

\* The pages of a file are finitely many.
LEMMA FinitePages ==
  ASSUME NEW m \in Nat
  PROVE  IsFiniteSet(2 .. m)
BY FS_Interval

\* A list with an element is not empty.
LEMMA NotEmpty ==
  ASSUME NEW l, NEW i \in DOMAIN l
  PROVE  l # <<>>
OBVIOUS

-----------------------------------------------------------------------------
(* The chain of pages.                                                     *)

\* The pages C are linked in the order of their numbers, from the first page to
\* the last; they are pageCnt many, and only they hold records.
IsChain(C) ==
  /\ C \subseteq 2 .. size /\ 2 \in C /\ hdr.lastPage \in C /\ next[hdr.lastPage] = -1
  /\ hdr.pageCnt = Cardinality(C)
  /\ \A p \in C : p <= hdr.lastPage
  /\ \A p \in C \ {hdr.lastPage} : next[p] \in C /\ \A q \in C : q <= p \/ next[p] <= q
  /\ \A p \in (2 .. size) \ C : slots[p] = <<>>

\* The objects are on these pages, the one that inserts on the last.
OnChain(C) ==
  \A h \in open :
    /\ Usable(h) => curPageNo[h] \in C \cup {-1, 0}
    /\ Usable(h) /\ h \in Inserts => curPageNo[h] = hdr.lastPage
    /\ marked[h] # <<>> => marked[h][1] \in C

Chained == \E C : IsChain(C) /\ OnChain(C)

\* At most one object inserts: two would each link a page behind the same one.
OneInserter == \A g, h \in Inserts : g = h

\* A walk that begins on the chain stays on it.
LEMMA WalkInChain ==
  ASSUME FileOK, NEW C, IsChain(C), NEW c \in C
  PROVE  \A k \in 0 .. MaxPages : Walk(c)[k] \in C \cup {-1}
<1> DEFINE T == {k \in 0 .. MaxPages : Walk(c)[k] \notin C \cup {-1}}
<1>0. MaxPages \in Nat
  BY SizesAssumption
<1>1. SUFFICES ASSUME T # {} PROVE FALSE
  OBVIOUS
<1>2. PICK k \in T : \A y \in T : k <= y
  <2>1. T \subseteq Nat
    OBVIOUS
  <2> QED BY <1>1, <2>1, NumbersHaveLeast, LeastNat, Zenon
<1>3. k \in 0 .. MaxPages /\ Walk(c)[k] \notin C \cup {-1}
  OBVIOUS
<1>4. k # 0
  BY <1>3, NumbersHaveLeast, WalkSteps, SMTT(30)
<1>5. k - 1 \in 0 .. MaxPages /\ k - 1 \notin T /\ k \in 1 .. MaxPages
  <2> HIDE DEF T
  <2> QED BY <1>0, <1>2, <1>3, <1>4, SMTT(30)
<1>6. Walk(c)[k - 1] \in C \cup {-1}
  BY <1>5
<1>7. Walk(c)[k] = IF Walk(c)[k - 1] = -1 THEN -1 ELSE next[Walk(c)[k - 1]]
  BY <1>5, NumbersHaveLeast, WalkSteps, SMTT(30)
<1> QED BY <1>3, <1>6, <1>7, Zenon DEF IsChain

\* It reaches every page behind its first one.
LEMMA WalkReaches ==
  ASSUME FileOK, NEW C, IsChain(C), NEW c \in C, NEW q \in C, c <= q
  PROVE  \E k \in 0 .. (MaxPages - 1) : Walk(c)[k] = q
<1> DEFINE T == {k \in 0 .. MaxPages : Walk(c)[k] # -1 /\ Walk(c)[k] <= q}
<1>0. /\ MaxPages \in Nat /\ LinksForward /\ c \in 2 .. size /\ q \in 2 .. size /\ size \in Nat
  BY PageFacts DEF IsChain, FileOK
<1>1. 0 \in T
  BY <1>0, NumbersHaveLeast, WalkSteps, SMTT(30)
<1>2. PICK m \in T : \A y \in T : y <= m
  <2>1. T \subseteq 0 .. MaxPages
    OBVIOUS
  <2> HIDE DEF T
  <2> QED BY <1>0, <1>1, <2>1, NumbersHaveLeast, GreatestNat, Zenon
<1>3. m \in 0 .. MaxPages /\ Walk(c)[m] # -1 /\ Walk(c)[m] <= q
  OBVIOUS
<1>4. m # MaxPages
  BY <1>0, <1>3, NumbersHaveLeast, WalkOrder, SMTT(30)
<1>5. m \in 0 .. (MaxPages - 1) /\ m + 1 \in 1 .. MaxPages /\ m + 1 \in 0 .. MaxPages
  BY <1>0, <1>3, <1>4, SMTT(30)
<1>6. m + 1 \notin T
  <2> HIDE DEF T
  <2> QED BY <1>2, <1>5
<1>7. Walk(c)[m] \in C
  BY <1>3, WalkInChain
<1>8. CASE Walk(c)[m] = q
  BY <1>5, <1>8
<1>9. CASE Walk(c)[m] # q
  <2>1. Walk(c)[m + 1] = next[Walk(c)[m]]
    <3>1. (m + 1) - 1 = m
      BY <1>5, SMTT(30)
    <3> QED BY <1>3, <1>5, <3>1, NumbersHaveLeast, WalkSteps, SMTT(30)
  <2>2. Walk(c)[m] \in Int /\ q \in Int /\ Walk(c)[m] < q /\ q <= hdr.lastPage /\ hdr.lastPage \in Int
    <3>1. hdr.lastPage \in Int /\ q \in Int /\ Walk(c)[m] \in Int
      <4>1. hdr.lastPage \in 2 .. size /\ Walk(c)[m] \in 2 .. size
        BY <1>7, ZenonT(30) DEF IsChain
      <4> QED BY <1>0, <4>1, SMTT(30)
    <3>2. q <= hdr.lastPage
      BY DEF IsChain
    <3> QED BY <1>3, <1>9, <3>1, <3>2, SMTT(30)
  <2>3. Walk(c)[m] # hdr.lastPage
    BY <2>2
  <2>4. next[Walk(c)[m]] \in C /\ next[Walk(c)[m]] <= q
    BY <1>7, <2>2, <2>3, SMTT(30) DEF IsChain
  <2>5. next[Walk(c)[m]] # -1
    BY <2>4, SMTT(30) DEF IsChain
  <2> QED BY <1>5, <1>6, <2>1, <2>4, <2>5, ZenonT(30)
<1> QED BY <1>8, <1>9, ZenonT(30)

\* So the pages linked from the first page are the chain.
LEMMA ChainWalked ==
  ASSUME HeapInv, Chained
  PROVE  ChainExact
<1>1. PICK C : IsChain(C) /\ OnChain(C)
  BY DEF Chained
<1>2. hdr.firstPage = 2 /\ 2 \in C /\ MaxPages \in Nat
  BY <1>1, PageFacts DEF IsChain, HeapInv
<1> DEFINE chain == {Walk(2)[k] : k \in 0 .. MaxPages} \ {-1}
<1>3. ASSUME NEW x \in chain PROVE x \in C
  BY <1>1, <1>2, WalkInChain, SMTT(30) DEF HeapInv
<1>4. ASSUME NEW x \in C PROVE x \in chain
  <2>1. 2 <= x /\ x # -1
    BY <1>1 DEF IsChain
  <2>2. PICK k \in 0 .. (MaxPages - 1) : Walk(2)[k] = x
    BY <1>1, <1>2, <2>1, WalkReaches, ZenonT(30) DEF HeapInv
  <2>3. k \in 0 .. MaxPages
    BY <1>2
  <2> QED BY <2>1, <2>2, <2>3, Zenon
<1>5. chain = C
  BY <1>3, <1>4, Zenon
<1> HIDE DEF chain
<1>6. /\ hdr.lastPage \in chain /\ next[hdr.lastPage] = -1
      /\ hdr.pageCnt = Cardinality(chain)
      /\ \A p \in (2 .. size) \ chain : slots[p] = <<>>
  BY <1>1, <1>5, Zenon DEF IsChain
<1> QED BY <1>2, <1>6, ZenonT(30) DEF ChainExact, chain

\* After a call its object is on the pages D.
OwnOnChain(h, D) ==
  h \in open' =>
    /\ Usable(h)' => curPageNo'[h] \in D \cup {-1, 0}
    /\ Usable(h)' /\ h \in Inserts => curPageNo'[h] = hdr'.lastPage
    /\ marked'[h] # <<>> => marked'[h][1] \in D

\* The others stay where they are.
LEMMA OnChainKeeps ==
  ASSUME HeapInv, OnePlace, Tracked, OneInserter, NEW h \in Handles, Call(h),
         NEW C, OnChain(C), NEW D, C \subseteq D, OwnOnChain(h, D),
         hdr'.lastPage = hdr.lastPage \/ h \in Inserts
  PROVE  OnChain(D)'
<1> SUFFICES ASSUME NEW g \in open'
             PROVE  /\ Usable(g)' => curPageNo'[g] \in D \cup {-1, 0}
                    /\ Usable(g)' /\ g \in Inserts => curPageNo'[g] = hdr'.lastPage
                    /\ marked'[g] # <<>> => marked'[g][1] \in D
  BY Zenon DEF OnChain
<1>1. CASE g = h
  BY <1>1, Zenon DEF OwnOnChain
<1>2. CASE g # h
  <2>1. g \in Handles \ {h}
    <3>1. HeapInv'
      BY NextIsCall, HeapInvStep, Zenon
    <3> QED BY <1>2, <3>1, Zenon DEF HeapInv, ObjectsOK
  <2>2. g \in open /\ (Usable(g)' => Usable(g)) /\ curPageNo'[g] = curPageNo[g]
    BY <2>1, OthersStayAlways, Zenon DEF OthersStay, Usable
  <2>3. marked'[g] # <<>> => marked[g] # <<>> /\ marked'[g][1] = marked[g][1]
    <3>1. CASE DeleteRecord(h)
      BY <2>1, <3>1, DeleteTracks, ZenonT(30)
    <3>2. CASE ~DeleteRecord(h)
      BY <2>1, <3>2, CallTracks, ZenonT(30) DEF OthersTrack
    <3> QED BY <3>1, <3>2, Zenon
  <2>4. g \in Inserts => hdr'.lastPage = hdr.lastPage
    BY <1>2, Zenon DEF OneInserter
  <2> QED BY <2>2, <2>3, <2>4, Zenon DEF OnChain
<1> QED BY <1>1, <1>2, Zenon

\* A usable object with a page is on the chain.
LEMMA PageOnChain ==
  ASSUME HeapInv, NEW C, OnChain(C), NEW h \in open, Usable(h), curPage[h] # Null
  PROVE  curPageNo[h] \in C /\ curPageNo[h] \in 2 .. size
<1>1. curPageNo[h] \in 2 .. size
  BY Zenon DEF HeapInv, ObjectsOK, Positions, Null
<1>2. curPageNo[h] \notin {-1, 0}
  BY <1>1, PageFacts, PageNumbers, Zenon DEF HeapInv
<1> QED BY <1>1, <1>2, Zenon DEF OnChain

\* scanNext.
LEMMA ScanNextOnChain ==
  ASSUME HeapInv, NEW h \in Handles, NEW C, IsChain(C), OnChain(C), ScanNext(h)
  PROVE  OwnOnChain(h, C)
<1>0. h \in open /\ h \notin Inserts /\ Usable(h) /\ marked' = marked
  BY KindsAssumption, ZenonT(30) DEF ScanNext, Usable
<1>1. marked'[h] # <<>> => marked'[h][1] \in C
  BY <1>0, Zenon DEF OnChain
<1>2. ASSUME NEW pn, NEW c \in C, NEW s \in Int, ScanFrom(h, pn, c, s)
      PROVE  curPageNo'[h] \in C
  <2>1. c \in 2 .. size
    BY ZenonT(30) DEF IsChain
  <2>2. PICK k \in 0 .. (MaxPages - 1), p \in c .. size :
          /\ p = Walk(c)[k]
          /\ ScanStops(h, pn, c, s, k, p) \/ ScanMoves(h, pn, c, s, k, p)
    BY <1>2, <2>1, ScanOutcome, ZenonT(30) DEF HeapInv, ScanFinds, ScanRunsOut
  <2>3. curPageNo'[h] = p
    BY <2>2, ZenonT(30) DEF ScanStops, ScanMoves, HeapInv, ObjectsOK
  <2>4. k \in 0 .. MaxPages /\ p # -1
    BY <2>1, PageFacts, InnerPages, StepNumbers, Zenon DEF HeapInv
  <2> QED BY <2>2, <2>3, <2>4, WalkInChain, ZenonT(30) DEF HeapInv
<1>3. CASE curPageNo[h] # -1 /\ curPage[h] # Null
  <2>1. curPageNo[h] \in 2 .. size /\ curPageNo[h] \in C /\ curRec[h] \in Int
    BY <1>0, <1>3, PageOnChain, ZenonT(30) DEF HeapInv, ObjectsOK
  <2>2. curPageNo[h] # 0
    BY <2>1, PageFacts, PageNumbers, Zenon DEF HeapInv
  <2>3. ScanFrom(h, UnPin(pins, curPageNo[h]), curPageNo[h], curRec[h])
    BY <1>3, <2>2, ZenonT(30) DEF ScanNext
  <2> QED BY <1>0, <1>1, <1>2, <2>1, <2>3, ZenonT(30) DEF OwnOnChain
<1>4. CASE curPageNo[h] = -1 \/ curPage[h] = Null
  <2>1. hdr.firstPage \in C /\ -1 \in Int
    BY PageFacts, NumberFacts, Zenon DEF HeapInv, IsChain
  <2>2. CASE ScanFrom(h, pins, hdr.firstPage, -1)
    BY <1>0, <1>1, <1>2, <2>1, <2>2, ZenonT(30) DEF OwnOnChain
  <2>3. CASE \/ curPageNo' = curPageNo
             \/ curPageNo' = [curPageNo EXCEPT ![h] = hdr.firstPage]
             \/ curPageNo' = [curPageNo EXCEPT ![h] = -1]
    <3>1. curPageNo'[h] \in C \cup {-1, 0}
      BY <1>0, <2>1, <2>3, ZenonT(30) DEF HeapInv, ObjectsOK, OnChain
    <3> QED BY <1>0, <1>1, <3>1, ZenonT(30) DEF OwnOnChain
  <2> QED BY <1>4, <2>2, <2>3, ZenonT(30) DEF ScanNext
<1> QED BY <1>3, <1>4, ZenonT(30)

\* The calls that leave the file alone.
LEMMA QuietOnChain ==
  ASSUME HeapInv, NEW h \in Handles, NEW C, IsChain(C), OnChain(C), Call(h), UNCHANGED file
  PROVE  OwnOnChain(h, C)
<1>0. hdr' = hdr /\ hdr.lastPage \in C /\ hdr.firstPage \in C
  BY PageFacts, ZenonT(30) DEF IsChain, HeapInv, file
<1>1. CASE Open(h)
  <2>1. /\ curPageNo'[h] = IF h \in Inserts THEN hdr.lastPage ELSE hdr.firstPage
        /\ marked'[h] = <<>>
    BY <1>1, ZenonT(30) DEF Open, HeapInv, ObjectsOK
  <2> QED BY <1>0, <2>1, ZenonT(30) DEF OwnOnChain
<1>2. CASE Close(h)
  BY <1>2, Zenon DEF Close, OwnOnChain
<1>3. ASSUME NEW p \in PageNos, NEW s, GetRecord(h, p, s) PROVE OwnOnChain(h, C)
  <2>1. h \in open /\ h \notin Inserts /\ marked' = marked /\ Usable(h) /\ s + 1 \in Occupied(p)
    BY <1>3, KindsAssumption, Zenon DEF GetRecord, Usable
  <2>2. slots[p] # <<>>
    BY <2>1, NotEmpty, Zenon DEF Occupied
  <2>3. p \in C
    BY <2>2, Zenon DEF IsChain, HeapInv, FileOK, SlotsOK
  <2>4. curPageNo'[h] \in {curPageNo[h], p}
    <3>1. curPageNo' = curPageNo \/ curPageNo' = [curPageNo EXCEPT ![h] = p]
      BY <1>3, Zenon DEF GetRecord
    <3> QED BY <3>1, Zenon DEF HeapInv, ObjectsOK
  <2> QED BY <2>1, <2>3, <2>4, Zenon DEF OwnOnChain, OnChain
<1>4. CASE EndScan(h)
  <2>1. h \in open /\ h \notin Inserts /\ marked' = marked /\ Usable(h)
    BY <1>4, KindsAssumption, Zenon DEF EndScan, Usable
  <2>2. curPageNo'[h] \in {curPageNo[h], 0}
    BY <1>4, ZenonT(30) DEF EndScan, HeapInv, ObjectsOK
  <2> QED BY <2>1, <2>2, Zenon DEF OwnOnChain, OnChain
<1>5. CASE MarkScan(h)
  <2>1. /\ h \in open /\ h \notin Inserts /\ marked'[h][1] = curPageNo[h] /\ Usable(h)
        /\ curPageNo' = curPageNo /\ curPage[h] # Null
    BY <1>5, KindsAssumption, ZenonT(30) DEF MarkScan, Usable, HeapInv, ObjectsOK
  <2>2. curPageNo[h] \in C
    BY <2>1, PageOnChain, ZenonT(30)
  <2> QED BY <2>1, <2>2, Zenon DEF OwnOnChain
<1>6. CASE ResetScan(h)
  <2>1. /\ h \in open /\ h \notin Inserts /\ marked' = marked /\ marked[h] # <<>>
        /\ curPageNo'[h] = marked[h][1]
    BY <1>6, KindsAssumption, ZenonT(30) DEF ResetScan, Usable, HeapInv, ObjectsOK
  <2> QED BY <2>1, ZenonT(30) DEF OwnOnChain, OnChain
<1>7. CASE h \in open /\ Usable(h) /\ UNCHANGED <<curPageNo, marked>>
  BY <1>0, <1>7, ZenonT(30) DEF OwnOnChain, OnChain
<1>8. CASE DeleteRecord(h)
  <2>1. hdr' = [hdr EXCEPT !.recCnt = @ - 1]
    BY <1>8 DEF DeleteRecord
  <2>2. hdr.recCnt \in Int /\ hdr'.recCnt = hdr.recCnt - 1
    BY <2>1, Zenon DEF HeapInv, FileOK
  <2> QED BY <1>0, <2>2, NumberFacts, Zenon
<1>9. ASSUME NEW r \in Records, InsertRecord(h, r) PROVE OwnOnChain(h, C)
  <2>1. size' = size /\ hdr' = hdr /\ size \in Int /\ hdr.recCnt \in Int
    BY PageFacts, Zenon DEF file, HeapInv, FileOK
  <2>2. h \in open /\ Usable(h) /\ marked' = marked
    BY <1>9 DEF InsertRecord, Usable
  <2>3. ~InsertHere(h, r)
    <3>1. InsertHere(h, r) => hdr'.recCnt = hdr.recCnt + 1
      BY Zenon DEF InsertHere, HeapInv, FileOK
    <3> QED BY <2>1, <3>1
  <2>4. ~InsertNoFrame(h, r) /\ ~InsertNewPage(h, r)
    <3>1. InsertNoFrame(h, r) \/ InsertNewPage(h, r) => size' = size + 1
      BY Zenon DEF InsertNoFrame, InsertNewPage
    <3> QED BY <2>1, <3>1, NumberFacts, Zenon
  <2>5. curPageNo' = curPageNo
    BY <1>9, <2>3, <2>4, Zenon DEF InsertRecord
  <2> QED BY <1>7, <2>2, <2>5, Zenon
<1> QED BY <1>1, <1>2, <1>3, <1>4, <1>5, <1>6, <1>8, <1>9, ScanNextOnChain, ZenonT(30) DEF Call

\* A change of the slots of a page of the chain.
LEMMA ChainHere ==
  ASSUME HeapInv, NEW C, IsChain(C), NEW p \in C, NEW new, slots' = [slots EXCEPT ![p] = new],
         UNCHANGED <<next, size>>, hdr'.lastPage = hdr.lastPage, hdr'.pageCnt = hdr.pageCnt
  PROVE  IsChain(C)'
<1>1. \A q \in (2 .. size) \ C : slots'[q] = slots[q]
  BY PageFacts, Zenon DEF HeapInv, FileOK, SlotsOK
<1> QED BY <1>1, Zenon DEF IsChain

\* deleteRecord.
LEMMA DeleteOnChain ==
  ASSUME HeapInv, NEW h \in Handles, NEW C, IsChain(C), OnChain(C), DeleteRecord(h)
  PROVE  IsChain(C)' /\ OwnOnChain(h, C) /\ hdr'.lastPage = hdr.lastPage
<1>0. h \in open /\ Usable(h) /\ h \notin Inserts
  BY KindsAssumption DEF DeleteRecord, CanDelete, Usable
<1>1. /\ next' = next /\ size' = size /\ hdr' = [hdr EXCEPT !.recCnt = @ - 1]
      /\ curPage[h] = curPageNo[h] /\ curPageNo[h] \in 2 .. size
  BY DeleteEffect
<1>2. curPage[h] # Null
  BY <1>1, PageFacts, Zenon DEF HeapInv
<1>3. curPageNo[h] \in C
  BY <1>0, <1>2, PageOnChain, Zenon
<1>4. hdr'.lastPage = hdr.lastPage /\ hdr'.pageCnt = hdr.pageCnt
  BY <1>1, ZenonT(30) DEF HeapInv, FileOK
<1>5. IsChain(C)'
  BY <1>1, <1>3, <1>4, ChainHere, ZenonT(30) DEF DeleteRecord
<1>6. /\ curPageNo' = curPageNo
      /\ marked'[h] # <<>> => marked[h] # <<>> /\ marked'[h][1] = marked[h][1]
  BY DEF DeleteRecord, Forget
<1>7. OwnOnChain(h, C)
  BY <1>0, <1>6, SMTT(30) DEF OwnOnChain, OnChain
<1> QED BY <1>4, <1>5, <1>7, ZenonT(30)

\* insertRecord links the new page behind the last one.
LEMMA GrownChain ==
  ASSUME HeapInv, NEW C, IsChain(C), NEW n, n = size + 1, n \in PageNos, size' = n,
         next' = [next EXCEPT ![hdr.lastPage] = n, ![n] = -1],
         NEW new, slots' = [slots EXCEPT ![n] = new],
         hdr'.lastPage = n, hdr'.pageCnt = hdr.pageCnt + 1
  PROVE  IsChain(C \cup {n})'
<1> DEFINE L == hdr.lastPage
<1>0. /\ size \in Nat /\ 2 .. size \subseteq PageNos /\ L \in 2 .. size /\ L \in PageNos
      /\ L \in C /\ C \subseteq 2 .. size /\ size >= 2
  <2>1. size \in Nat /\ size \in 2 .. MaxPages /\ 2 .. size \subseteq PageNos /\ L \in 2 .. size
    BY PageFacts, Zenon DEF HeapInv
  <2>2. size >= 2
    BY <2>1
  <2> QED BY <2>1, <2>2, Zenon DEF IsChain
<1>1. n \notin C /\ n \in Nat /\ n \in 2 .. size' /\ C \subseteq 2 .. size' /\ n # L
  BY <1>0, NextNumber, Zenon
<1>2. \A p \in C : p \in Int /\ p <= n
  BY <1>0, NextNumber, Zenon
<1>a. n <= n
  BY <1>0, NextNumber, Zenon
<1> HIDE DEF L
<1>3. Cardinality(C \cup {n}) = Cardinality(C) + 1
  <2>1. IsFiniteSet(2 .. size)
    BY <1>0, FinitePages, Zenon
  <2>2. IsFiniteSet(C)
    BY <1>0, <2>1, FS_Subset, ZenonT(30)
  <2> QED BY <1>1, <2>2, FS_AddElement, Zenon
<1>4. /\ next'[L] = n /\ next'[n] = -1
      /\ \A p \in C : p # L => next'[p] = next[p]
  BY <1>0, <1>1 DEF HeapInv, FileOK, LinksForward, L
<1>5. \A p \in C : p <= L
  BY Zenon DEF IsChain, L
<1>6. ASSUME NEW p \in C PROVE next'[p] \in C \cup {n} /\ \A q \in C \cup {n} : q <= p \/ next'[p] <= q
  <2>1. CASE p = L
    <3>1. next'[p] = n /\ \A q \in C : q <= p
      BY <1>4, <1>5, <2>1, SMTT(30)
    <3> QED BY <1>a, <3>1, ZenonT(30)
  <2>2. CASE p # L
    <3>1. next[p] \in C /\ \A q \in C : q <= p \/ next[p] <= q
      BY <2>2, Zenon DEF IsChain, L
    <3>2. next[p] <= n
      BY <1>2, <3>1, ZenonT(30)
    <3>3. next'[p] = next[p]
      BY <1>4, <2>2, ZenonT(30)
    <3> QED BY <3>1, <3>2, <3>3, Zenon
  <2> QED BY <2>1, <2>2, Zenon
<1>7. ASSUME NEW p \in (2 .. size') \ (C \cup {n}) PROVE slots'[p] = <<>>
  <2>1. p \in (2 .. size) \ C /\ p # n /\ p \in PageNos
    BY <1>0, <1>7, NextNumber, Zenon
  <2> QED BY <2>1 DEF IsChain, HeapInv, FileOK, SlotsOK
<1>8. \A p \in C \cup {n} : p <= n
  BY <1>a, <1>2, Zenon
<1>9. 2 \in C
  BY Zenon DEF IsChain
<1>10. hdr.pageCnt = Cardinality(C)
  BY ZenonT(30) DEF IsChain
<1>11. C \cup {n} \subseteq 2 .. size' /\ next'[n] = -1 /\ hdr'.pageCnt = Cardinality(C \cup {n})
  BY <1>1, <1>3, <1>4, <1>10, ZenonT(30)
<1> DEFINE D == C \cup {n}
<1>12. /\ D \subseteq 2 .. size' /\ 2 \in D /\ hdr'.lastPage \in D /\ next'[hdr'.lastPage] = -1
       /\ hdr'.pageCnt = Cardinality(D)
  BY <1>9, <1>11, Zenon
<1>13. \A p \in D : p <= hdr'.lastPage
  BY <1>8, ZenonT(30)
<1>14. \A p \in D \ {hdr'.lastPage} : next'[p] \in D /\ \A q \in D : q <= p \/ next'[p] <= q
  BY <1>6, ZenonT(30)
<1>15. \A p \in (2 .. size') \ D : slots'[p] = <<>>
  BY <1>7
<1> HIDE DEF D
<1>16. IsChain(D)'
  BY <1>12, <1>13, <1>14, <1>15, ZenonT(30) DEF IsChain
<1> QED BY <1>16, Zenon DEF D

\* insertRecord.
LEMMA InsertOnChain ==
  ASSUME HeapInv, NEW h \in Handles, NEW C, IsChain(C), OnChain(C), NEW r \in Records,
         InsertRecord(h, r)
  PROVE  \/ UNCHANGED file
         \/ \E D : C \subseteq D /\ IsChain(D)' /\ OwnOnChain(h, D)
<1>0. h \in open /\ Usable(h) /\ h \in Inserts /\ marked' = marked
  BY Zenon DEF InsertRecord, Usable
<1>1. curPageNo[h] = hdr.lastPage /\ hdr.lastPage \in C
  BY <1>0, Zenon DEF OnChain, IsChain
<1>2. CASE InsertHere(h, r)
  <2>1. next' = next /\ size' = size /\ hdr' = [hdr EXCEPT !.recCnt = @ + 1]
    BY <1>2, InsertHereEffect, Zenon
  <2>2. hdr'.lastPage = hdr.lastPage /\ hdr'.pageCnt = hdr.pageCnt
    BY <2>1, ZenonT(30) DEF HeapInv, FileOK
  <2>3. IsChain(C)'
    BY <1>1, <1>2, <2>1, <2>2, ChainHere, ZenonT(30) DEF InsertHere
  <2>4. curPageNo' = curPageNo
    BY <1>2, ZenonT(30) DEF InsertHere
  <2>5. OwnOnChain(h, C)
    BY <1>0, <1>1, <2>2, <2>4, ZenonT(30) DEF OwnOnChain, OnChain
  <2> QED BY <2>3, <2>5, Zenon
<1>3. CASE InsertNoFrame(h, r)
  <2>1. /\ size < MaxPages /\ size' = size + 1 /\ out' = [out EXCEPT ![h] = "BUFFEREXCEEDED"]
        /\ UNCHANGED <<hdr, next, slots, curPageNo>>
    BY <1>3, Zenon DEF InsertNoFrame
  <2>2. size \in 2 .. MaxPages /\ MaxPages \in Nat /\ C \subseteq 2 .. size
    BY PageFacts, ZenonT(30) DEF HeapInv, IsChain
  <2>3. size + 1 \in PageNos \ (2 .. size) /\ C \subseteq 2 .. size'
    <3>1. size \in Nat /\ size >= 2
      BY <2>2
    <3> QED BY <2>1, <2>2, <3>1, NextNumber, NextPageNo, PageFacts, Zenon DEF HeapInv
  <2>4. slots[size + 1] = <<>>
    BY <2>3, ZenonT(30) DEF HeapInv, FileOK, SlotsOK
  <2>5. \A p \in (2 .. size') \ C : slots'[p] = <<>>
    <3>1. \A p \in (2 .. size') \ C : p = size + 1 \/ p \in (2 .. size) \ C
      <4>1. size \in Nat /\ size >= 2
        BY <2>2
      <4> QED BY <2>1, <2>2, <4>1, NextNumber, PageFacts, Zenon DEF HeapInv
    <3> QED BY <2>1, <2>4, <3>1, ZenonT(30) DEF IsChain
  <2>6. IsChain(C)'
    BY <2>1, <2>3, <2>5, ZenonT(30) DEF IsChain
  <2>7. ~Usable(h)'
    BY <2>1, ZenonT(30) DEF Usable, Failed, HeapInv, ObjectsOK
  <2>8. OwnOnChain(h, C)
    BY <1>0, <2>7, ZenonT(30) DEF OwnOnChain, OnChain
  <2> QED BY <2>6, <2>8
<1>4. CASE InsertNewPage(h, r)
  <2>0. PICK n : n = size + 1
    OBVIOUS
  <2> DEFINE new == IF Length(r) + SlotSize <= DataSize THEN <<r>> ELSE <<>>
  <2>1. /\ size' = n /\ next' = [next EXCEPT ![hdr.lastPage] = n, ![n] = -1]
        /\ hdr' = [hdr EXCEPT !.lastPage = n, !.pageCnt = @ + 1, !.recCnt = hdr'.recCnt]
    BY <1>1, <1>4, <2>0, InsertNewPageEffect, ZenonT(30)
  <2>2. slots' = [slots EXCEPT ![n] = new] /\ curPageNo'[h] = n /\ size < MaxPages
    BY <1>4, <2>0, ZenonT(30) DEF InsertNewPage, HeapInv, ObjectsOK
  <2>3. n \in PageNos
    BY <2>0, <2>2, PageFacts, NextPageNo, Zenon DEF HeapInv
  <2> HIDE DEF new
  <2>4. hdr'.lastPage = n /\ hdr'.pageCnt = hdr.pageCnt + 1
    BY <2>1, Zenon DEF HeapInv, FileOK
  <2>5. IsChain(C \cup {n})'
    BY <2>0, <2>1, <2>2, <2>3, <2>4, GrownChain, ZenonT(30)
  <2>6. OwnOnChain(h, C \cup {n})
    BY <1>0, <2>2, <2>4, ZenonT(30) DEF OwnOnChain, OnChain
  <2> QED BY <2>5, <2>6, Zenon
<1> QED BY <1>2, <1>3, <1>4, ZenonT(30) DEF InsertRecord

\* Chained is inductive when one object inserts.
LEMMA ChainedStep ==
  ASSUME OneInserter
  PROVE  HeapInv /\ OnePlace /\ Tracked /\ Chained /\ [Next]_vars => Chained'
<1> SUFFICES ASSUME HeapInv, OnePlace, Tracked, Chained, [Next]_vars PROVE Chained'
  OBVIOUS
<1>0. PICK C : IsChain(C) /\ OnChain(C)
  BY DEF Chained
<1>1. CASE UNCHANGED vars
  <2>1. IsChain(C)' /\ OnChain(C)'
    BY <1>0, <1>1, ZenonT(30) DEF vars, IsChain, OnChain, Usable
  <2> QED BY <2>1, ZenonT(30) DEF Chained
<1>2. ASSUME NEW h \in Handles, Call(h) PROVE Chained'
  <2>1. CASE UNCHANGED file
    <3>1. IsChain(C)' /\ hdr' = hdr
      BY <1>0, <2>1, Zenon DEF IsChain, file
    <3>2. OwnOnChain(h, C)
      BY <1>0, <1>2, <2>1, QuietOnChain, Zenon
    <3>3. OnChain(C)'
      BY <1>0, <1>2, <3>1, <3>2, OnChainKeeps, Zenon
    <3> QED BY <3>1, <3>3, Zenon DEF Chained
  <2>2. CASE DeleteRecord(h)
    <3>1. IsChain(C)' /\ OwnOnChain(h, C) /\ hdr'.lastPage = hdr.lastPage
      BY <1>0, <2>2, DeleteOnChain, Zenon
    <3>2. OnChain(C)'
      BY <1>0, <1>2, <3>1, OnChainKeeps, Zenon
    <3> QED BY <3>1, <3>2, Zenon DEF Chained
  <2>3. ASSUME NEW r \in Records, InsertRecord(h, r), ~UNCHANGED file PROVE Chained'
    <3>1. PICK D : C \subseteq D /\ IsChain(D)' /\ OwnOnChain(h, D)
      BY <1>0, <2>3, InsertOnChain, Zenon
    <3>2. h \in Inserts
      BY <2>3, ZenonT(30) DEF InsertRecord
    <3>3. OnChain(D)'
      BY <1>0, <1>2, <3>1, <3>2, OnChainKeeps, ZenonT(30)
    <3> QED BY <3>1, <3>3, Zenon DEF Chained
  <2> QED BY <1>2, <2>1, <2>2, <2>3, ZenonT(30) DEF Call, Open, Close, GetRecord, ScanNext, EndScan, MarkScan,
                                         ResetScan
<1> QED BY <1>1, <1>2, NextIsCall, ZenonT(30)

\* It holds in every reachable state.
LEMMA ChainedHolds ==
  ASSUME OneInserter
  PROVE  Spec => []Chained
<1>1. Init => Chained
  <2> SUFFICES ASSUME Init PROVE Chained
    OBVIOUS
  <2>1. Cardinality({2}) = 1
    BY FS_Singleton, Zenon
  <2>2. /\ next[2] = -1 /\ size = 2 /\ 2 .. 2 = {2}
        /\ hdr.lastPage = 2 /\ hdr.pageCnt = 1
    <3>1. 2 \in PageNos
      BY SizesAssumption DEF PageNos
    <3> QED BY <3>1, NumberFacts, Zenon DEF Init
  <2>3. IsChain({2})
    BY <2>1, <2>2, NumberFacts, Zenon DEF IsChain
  <2>4. OnChain({2})
    BY DEF OnChain, Init
  <2> QED BY <2>3, <2>4, Zenon DEF Chained
<1> QED BY <1>1, ScansTracked, ChainedStep, PTL DEF Spec

\* While one object inserts at a time, the pages linked from the header's firstPage
\* are pageCnt many, end with its lastPage and hold every record, also when the
\* pool had no frame for a page that insertRecord allocated.
THEOREM ChainHolds ==
  ASSUME OneInserter
  PROVE  Spec => []ChainExact
BY ChainWalked, ChainedHolds, HeapInvHolds, PTL

-----------------------------------------------------------------------------
(* A scan misses no record.                                                *)

\* What the scan has yet to return is behind its position, and what it had to
\* return when it was marked behind the mark.
DueOf(h) ==
  \A p, i, x : Holds(p, i, x) /\ x \in Matches =>
    /\ x \in due[h] => ~AtOrBefore(p, i, curPageNo[h], curRec[h])
    /\ marked[h] # <<>> /\ x \in marked[h][3] => ~AtOrBefore(p, i, marked[h][1], marked[h][2])

DueAhead == \A h \in open \cap Scans : Usable(h) => DueOf(h)

\* A matching record behind the position of a scan is one that the call, were it
\* to go on, would stop at.
LEMMA AheadIsHit ==
  ASSUME HeapInv, NEW C, IsChain(C), NEW c \in C, NEW s \in Int,
         NEW q, NEW j, NEW x, Holds(q, j, x), x \in Matches, ~AtOrBefore(q, j, c, s)
  PROVE  \E m \in 0 .. (MaxPages - 1) : Walk(c)[m] = q /\ j - 1 \in Hits(c, s, m)
<1>1. q \in 2 .. size /\ q \in Int /\ j \in Nat \ {0} /\ q \in PageNos
  BY HoldTypes, Zenon DEF HeapInv
<1>2. j \in Occupied(q) /\ slots[q][j] = x /\ j \in DOMAIN slots[q]
  BY Zenon DEF Holds, Occupied
<1>3. slots[q] # <<>>
  BY <1>2, NotEmpty, Zenon
<1>4. q \in C /\ c \in Int
  <2>1. c \in 2 .. size
    BY ZenonT(30) DEF IsChain
  <2> QED BY <1>1, <1>3, <2>1, PageFacts, PageNumbers, Zenon DEF IsChain, HeapInv
<1>5. c < q \/ (c = q /\ j - 1 > s)
  BY <1>1, <1>4, BehindFacts, Zenon
<1>6. PICK m \in 0 .. (MaxPages - 1) : Walk(c)[m] = q
  <2>1. c <= q
    BY <1>1, <1>4, <1>5, BehindFacts, Zenon
  <2> QED BY <1>4, <2>1, WalkReaches, Zenon DEF HeapInv
<1>7. m = 0 => q = c
  BY <1>6, NumbersHaveLeast, WalkSteps, Zenon
<1>8. q # -1
  BY <1>1, PageFacts, Zenon DEF HeapInv
<1> DEFINE z == IF m = 0 THEN s ELSE -1
<1>9. z \in Int /\ j > z + 1
  <2>1. CASE m = 0
    <3>1. j - 1 > s
      BY <1>4, <1>5, <1>7, <2>1, SMTT(30)
    <3> QED BY <1>1, <1>4, <2>1, <3>1, BehindFacts, Zenon
  <2>2. CASE m # 0
    BY <1>1, <1>4, <2>2, BehindFacts, NumberFacts, Zenon
  <2> QED BY <2>1, <2>2, Zenon
<1>10. Visited(c, s, m) = {i - 1 : i \in {l \in Occupied(q) : l > z + 1}}
  BY <1>6, <1>8, ZenonT(30) DEF Visited, SlotsAfter
<1> HIDE DEF z
<1>11. j - 1 \in Visited(c, s, m)
  BY <1>2, <1>9, <1>10, ZenonT(30)
<1>12. slots[Walk(c)[m]][(j - 1) + 1] = x
  <2>1. (j - 1) + 1 = j
    BY <1>1, <1>4, BehindFacts, Zenon
  <2> QED BY <1>2, <1>6, <2>1, Zenon
<1> QED BY <1>6, <1>11, <1>12, Zenon DEF Hits

\* A call of scanNext from the position of the scan skips no record it has yet to
\* return, and reports the end only when there is none.
LEMMA ScanFromDue ==
  ASSUME HeapInv, OnePlace, Tracked, NEW C, IsChain(C), NEW h \in Handles, h \in open, DueOf(h),
         marked' = marked, UNCHANGED file, curPageNo[h] \in C, curRec[h] \in Int,
         NEW pn, ScanFrom(h, pn, curPageNo[h], curRec[h])
  PROVE  /\ Usable(h)' => DueOf(h)'
         /\ out'[h] = "FILEEOF" => due'[h] \cap Matches = {}
<1> DEFINE c == curPageNo[h]
           s == curRec[h]
<1>0. c \in 2 .. size /\ c \in C /\ s \in Int
  BY ZenonT(30) DEF IsChain
<1>1. PICK k \in 0 .. (MaxPages - 1), p \in c .. size :
           /\ p = Walk(c)[k]
           /\ \A m \in 0 .. (k - 1) : Hits(c, s, m) = {}
           /\ \/ ScanStops(h, pn, c, s, k, p)
              \/ ScanFinds(h, pn, c, s, k, p)
              \/ ScanRunsOut(h, pn, c, s, k, p)
  BY <1>0, ScanOutcome, ZenonT(30) DEF HeapInv
<1>2. \A q, j, x : Holds(q, j, x)' <=> Holds(q, j, x)
  BY FileStays, ZenonT(30) DEF HeapInv
<1>3. \A q, j, x : Holds(q, j, x) /\ x \in Matches /\ x \in due[h] => ~AtOrBefore(q, j, c, s)
  BY ZenonT(30) DEF DueOf
<1>4. \A q, j, x : Holds(q, j, x)' /\ x \in Matches /\ marked'[h] # <<>> /\ x \in marked'[h][3]
                    => ~AtOrBefore(q, j, marked'[h][1], marked'[h][2])
  BY <1>2, ZenonT(30) DEF DueOf
<1>5. /\ MaxPages \in Nat /\ LinksForward /\ size \in Nat
      /\ p \in Int /\ p # -1 /\ p \in 2 .. size
  BY <1>0, PageFacts, InnerPages, Zenon DEF HeapInv, FileOK
<1> HIDE DEF c, s
<1>6. ASSUME NEW q, NEW j, NEW x, Holds(q, j, x), x \in Matches, x \in due[h]
      PROVE  \E m \in k .. (MaxPages - 1) : Walk(c)[m] = q /\ j - 1 \in Hits(c, s, m)
  <2>1. PICK m \in 0 .. (MaxPages - 1) : Walk(c)[m] = q /\ j - 1 \in Hits(c, s, m)
    BY <1>0, <1>3, <1>6, AheadIsHit, Zenon
  <2>2. m \notin 0 .. (k - 1)
    BY <1>1, <2>1, Zenon
  <2>3. m \in k .. (MaxPages - 1)
    BY <1>5, <2>2, StepNumbers, Zenon
  <2> QED BY <2>1, <2>3, Zenon
<1>7. CASE ScanStops(h, pn, c, s, k, p)
  <2>1. out'[h] = "BUFFEREXCEEDED"
    BY <1>7, ZenonT(30) DEF ScanStops, HeapInv, ObjectsOK
  <2> QED BY <2>1, ZenonT(30) DEF Usable, Failed
<1>8. CASE ScanFinds(h, pn, c, s, k, p)
  <2>1. PICK t \in Nat :
          /\ t \in Hits(c, s, k) /\ \A u \in Hits(c, s, k) : t <= u
          /\ t + 1 \in Occupied(p)
          /\ curRec' = [curRec EXCEPT ![h] = t]
          /\ due' = [due EXCEPT ![h] = @ \ {slots[p][t + 1]}]
          /\ out' = [out EXCEPT ![h] = slots[p][t + 1]]
    BY <1>8, ZenonT(30) DEF ScanFinds
  <2> DEFINE r == slots[p][t + 1]
  <2>2. /\ curPageNo'[h] = p /\ curRec'[h] = t /\ due'[h] = due[h] \ {r} /\ out'[h] = r
    BY <1>8, <2>1, ZenonT(30) DEF ScanFinds, ScanMoves, HeapInv, ObjectsOK
  <2>3. Holds(p, t + 1, r)
    BY <1>5, <2>1, ZenonT(30) DEF Holds
  <2>4. r # "FILEEOF"
    BY <2>3, HoldTypes, RecordsAssumption, ZenonT(30) DEF HeapInv, Statuses
  <2>5. ASSUME NEW q, NEW j, NEW x, Holds(q, j, x), x \in Matches, x \in due'[h]
        PROVE  ~AtOrBefore(q, j, p, t)
    <3>1. x # r /\ x \in due[h]
      BY <2>2, <2>5, ZenonT(30)
    <3>2. PICK m \in k .. (MaxPages - 1) : Walk(c)[m] = q /\ j - 1 \in Hits(c, s, m)
      BY <1>6, <2>5, <3>1, ZenonT(30)
    <3>3. q \in Int /\ j \in Nat \ {0} /\ q # -1
      BY <2>5, HoldTypes, PageFacts, ZenonT(30) DEF HeapInv
    <3>4. CASE m = k
      <4>1. q = p /\ t <= j - 1
        BY <1>1, <2>1, <3>2, <3>4, ZenonT(30)
      <4>2. j # t + 1
        BY <2>3, <2>5, <3>1, <4>1, ZenonT(30) DEF Holds
      <4> HIDE DEF r
      <4>3. t \in Int
        OBVIOUS
      <4> QED BY <3>3, <4>1, <4>2, <4>3, BehindFacts, Zenon
    <3>5. CASE m # k
      <4>1. m \in 0 .. MaxPages /\ k \in 0 .. (m - 1)
        <5>1. m \in 0 .. (MaxPages - 1)
          BY <1>5
        <5> QED BY <1>5, <3>5, <5>1, StepNumbers, Zenon
      <4>2. p < q
        BY <1>0, <1>1, <1>5, <3>2, <3>3, <4>1, NumbersHaveLeast, WalkOrder, ZenonT(30)
      <4>3. t \in Int
        OBVIOUS
      <4> QED BY <1>5, <3>3, <4>2, <4>3, BehindFacts, Zenon
    <3> QED BY <3>4, <3>5, ZenonT(30)
  <2>6. DueOf(h)'
    BY <1>2, <1>4, <2>2, <2>5, ZenonT(30) DEF DueOf
  <2> QED BY <2>2, <2>4, <2>6, ZenonT(30)
<1>9. CASE ScanRunsOut(h, pn, c, s, k, p)
  <2>1. Hits(c, s, k) = {} /\ Walk(c)[k + 1] = -1 /\ due' = due
    BY <1>9, ZenonT(30) DEF ScanRunsOut
  <2>2. ASSUME NEW x \in due[h], x \in Matches PROVE FALSE
    <3>1. PICK q, j : Holds(q, j, x)
      BY RecordsInPlaces, ZenonT(30) DEF Tracked
    <3>2. PICK m \in k .. (MaxPages - 1) : Walk(c)[m] = q /\ j - 1 \in Hits(c, s, m)
      BY <1>6, <2>2, <3>1, ZenonT(30)
    <3>3. m # k
      BY <2>1, <3>2, Zenon
    <3>4. q # -1
      BY <3>1, HoldTypes, PageFacts, Zenon DEF HeapInv
    <3>5. m \in 0 .. MaxPages /\ (m = k + 1 \/ k + 1 \in 0 .. (m - 1))
      <4>1. m \in 0 .. (MaxPages - 1)
        BY <1>5
      <4> QED BY <1>5, <3>3, <4>1, StepNumbers, Zenon
    <3> QED BY <1>0, <1>5, <2>1, <3>2, <3>4, <3>5, NumbersHaveLeast, WalkOrder, ZenonT(30)
  <2>3. due'[h] \cap Matches = {}
    BY <2>1, <2>2, ZenonT(30)
  <2>4. DueOf(h)'
    BY <1>4, <2>3, ZenonT(30) DEF DueOf
  <2> QED BY <2>3, <2>4, Zenon
<1> QED BY <1>1, <1>7, <1>8, <1>9, ZenonT(30)

\* scanNext.
LEMMA ScanNextDue ==
  ASSUME HeapInv, OnePlace, Tracked, Chained, DueAhead, Rescanners = {}, NEW h \in Handles, ScanNext(h)
  PROVE  /\ Usable(h)' => DueOf(h)'
         /\ out'[h] = "FILEEOF" => due'[h] \cap Matches = {}
<1>0. h \in open /\ Usable(h) /\ DueOf(h) /\ marked' = marked /\ UNCHANGED file
  BY Zenon DEF ScanNext, Usable, DueAhead
<1>1. PICK C : IsChain(C) /\ OnChain(C)
  BY ZenonT(30) DEF Chained
<1>2. curPage[h] # Null
  BY <1>0, ZenonT(30) DEF HeapInv, Positions
<1>3. curPageNo[h] \in C /\ curPageNo[h] \in 2 .. size /\ curRec[h] \in Int
  BY <1>0, <1>1, <1>2, PageOnChain, ZenonT(30) DEF HeapInv, ObjectsOK
<1>4. curPageNo[h] # 0 /\ curPageNo[h] # -1
  BY <1>3, PageFacts, PageNumbers, Zenon DEF HeapInv
<1>5. ScanFrom(h, UnPin(pins, curPageNo[h]), curPageNo[h], curRec[h])
  BY <1>2, <1>4, ZenonT(30) DEF ScanNext
<1> QED BY <1>0, <1>1, <1>3, <1>5, ScanFromDue, ZenonT(30)

\* The other calls of a scan.
LEMMA OwnDue ==
  ASSUME HeapInv, DueAhead, Rescanners = {}, NEW h \in Handles, h \in Scans, Call(h), ~ScanNext(h),
         h \in open'
  PROVE  (Usable(h)' => DueOf(h)') /\ out'[h] # "FILEEOF"
<1>0. h \notin Heaps /\ h \notin Inserts /\ h \notin Rescanners
  BY KindsAssumption, ZenonT(30)
<1>1. CASE Open(h)
  <2>1. curPageNo'[h] = 2 /\ curRec'[h] = -1 /\ marked'[h] = <<>> /\ out'[h] = "OK"
    BY <1>0, <1>1, PageFacts, ZenonT(30) DEF Open, HeapInv, ObjectsOK
  <2>2. \A q, j, x : Holds(q, j, x)' <=> Holds(q, j, x)
    BY <1>1, FileStays, ZenonT(30) DEF HeapInv, Open
  <2>3. ASSUME NEW q, NEW j, NEW x, Holds(q, j, x) PROVE ~AtOrBefore(q, j, 2, -1)
    <3>1. q \in 2 .. size /\ q \in Int /\ j \in Nat \ {0}
      BY <2>3, HoldTypes, Zenon DEF HeapInv
    <3> QED BY <3>1 DEF AtOrBefore
  <2> QED BY <2>1, <2>2, <2>3, ZenonT(30) DEF DueOf
<1>2. CASE Close(h)
  BY <1>2 DEF Close
<1>3. ASSUME UNCHANGED file, Usable(h)
      PROVE  DueOf(h) /\ \A q, j, x : Holds(q, j, x)' <=> Holds(q, j, x)
  BY <1>3, FileStays, ZenonT(30) DEF DueAhead, HeapInv, Usable
<1>5. CASE MarkScan(h)
  <2>1. /\ marked'[h][1] = curPageNo[h] /\ marked'[h][2] = curRec[h] /\ marked'[h][3] = due[h]
        /\ out'[h] = "OK" /\ UNCHANGED <<file, curPageNo, curRec, due>> /\ Usable(h)
    BY <1>5, ZenonT(30) DEF MarkScan, HeapInv, ObjectsOK
  <2> QED BY <1>3, <2>1, ZenonT(30) DEF DueOf
<1>6. CASE ResetScan(h)
  <2>1. /\ curPageNo'[h] = marked[h][1] /\ curRec'[h] = marked[h][2] /\ due'[h] = marked[h][3]
        /\ UNCHANGED <<file, marked>> /\ Usable(h) /\ marked[h] # <<>>
    BY <1>6, ZenonT(30) DEF ResetScan, MarkedRec, HeapInv, ObjectsOK
  <2>2. out'[h] \in {"OK", "BUFFEREXCEEDED"}
    BY <1>6, ZenonT(30) DEF ResetScan, HeapInv, ObjectsOK
  <2> QED BY <1>3, <2>1, <2>2, ZenonT(30) DEF DueOf
<1>7. CASE DeleteRecord(h)
  <2>1. Usable(h) /\ out'[h] = "OK" /\ UNCHANGED <<curPageNo, curRec>> /\ Forget(out[h])
    BY <1>7, Zenon DEF DeleteRecord, CanDelete, HeapInv, ObjectsOK
  <2>2. DueOf(h)
    BY <2>1 DEF DueAhead, Usable
  <2>3. \A q, j, x : Holds(q, j, x)' => Holds(q, j, x)
    BY <1>7, DeleteEffect, Zenon
  <2>4. due'[h] \subseteq due[h] /\
        (marked'[h] # <<>> => /\ marked[h] # <<>> /\ marked'[h][1] = marked[h][1]
                              /\ marked'[h][2] = marked[h][2] /\ marked'[h][3] \subseteq marked[h][3])
    BY <2>1, Zenon DEF Forget
  <2> QED BY <2>1, <2>2, <2>3, <2>4, ZenonT(30) DEF DueOf
<1> QED BY <1>0, <1>1, <1>2, <1>5, <1>6, <1>7, ZenonT(30) DEF Call, GetRecord, InsertRecord, EndScan

\* The scans that a call is not on.
LEMMA OthersDue ==
  ASSUME HeapInv, OnePlace, Tracked, DueAhead, ScanComplete, NEW h \in Handles, Call(h),
         NEW g \in Scans, g # h, g \in open'
  PROVE  (Usable(g)' => DueOf(g)') /\ (out'[g] = "FILEEOF" => due'[g] \cap Matches = {})
<1>0. g \in Handles \ {h}
  BY Zenon DEF Handles
<1>1. /\ g \in open /\ (Usable(g)' => Usable(g) /\ DueOf(g)) /\ out'[g] = out[g]
      /\ curPageNo'[g] = curPageNo[g] /\ curRec'[g] = curRec[g]
  BY <1>0, OthersStayAlways, Zenon DEF OthersStay, Usable, DueAhead
<1>2. out[g] = "FILEEOF" => due[g] \cap Matches = {}
  BY <1>1, ZenonT(30) DEF ScanComplete
<1>3. CASE DeleteRecord(h)
  <2>1. \A q, j, x : Holds(q, j, x)' => Holds(q, j, x)
    BY <1>3, DeleteEffect, ZenonT(30)
  <2>2. due'[g] \subseteq due[g] /\
        (marked'[g] # <<>> => /\ marked[g] # <<>> /\ marked'[g][1] = marked[g][1]
                              /\ marked'[g][2] = marked[g][2] /\ marked'[g][3] \subseteq marked[g][3])
    BY <1>0, <1>3, DeleteTracks, ZenonT(30)
  <2> QED BY <1>1, <1>2, <2>1, <2>2, ZenonT(30) DEF DueOf
<1>4. CASE ~DeleteRecord(h)
  <2>1. due'[g] = due[g] /\ marked'[g] = marked[g]
    BY <1>0, <1>4, CallTracks, ZenonT(30) DEF OthersTrack
  <2>2. \A q, j, x : Holds(q, j, x)' => Holds(q, j, x) \/ x \notin FileRecords
    BY <1>4, CallOnPlaces, ZenonT(30) DEF PlacesStay, InsertedAt
  <2>3. due[g] \subseteq FileRecords /\ (marked[g] # <<>> => marked[g][3] \subseteq FileRecords)
    BY <1>0 DEF Tracked
  <2> QED BY <1>1, <1>2, <2>1, <2>2, <2>3, ZenonT(30) DEF DueOf
<1> QED BY <1>3, <1>4, ZenonT(30)

\* DueAhead and ScanComplete are inductive for scans that do not start again.
LEMMA DueStep ==
  ASSUME Rescanners = {}
  PROVE  HeapInv /\ OnePlace /\ Tracked /\ Chained /\ DueAhead /\ ScanComplete /\ [Next]_vars
           => DueAhead' /\ ScanComplete'
<1> SUFFICES ASSUME HeapInv, OnePlace, Tracked, Chained, DueAhead, ScanComplete, [Next]_vars
             PROVE  DueAhead' /\ ScanComplete'
  BY ZenonT(30)
<1>1. CASE UNCHANGED vars
  BY <1>1, ZenonT(30) DEF vars, DueAhead, ScanComplete, DueOf, Usable, Holds, Occupied
<1>2. ASSUME NEW h \in Handles, Call(h) PROVE DueAhead' /\ ScanComplete'
  <2>1. ASSUME NEW g \in open' \cap Scans
        PROVE  (Usable(g)' => DueOf(g)') /\ (out'[g] = "FILEEOF" => due'[g] \cap Matches = {})
    <3>1. CASE g # h
      BY <1>2, <2>1, <3>1, OthersDue, ZenonT(30)
    <3>2. CASE g = h /\ ScanNext(h)
      BY <2>1, <3>2, ScanNextDue, ZenonT(30)
    <3>3. CASE g = h /\ ~ScanNext(h)
      BY <1>2, <2>1, <3>3, OwnDue, ZenonT(30)
    <3> QED BY <3>1, <3>2, <3>3, ZenonT(30)
  <2> QED BY <2>1, ZenonT(30) DEF DueAhead, ScanComplete
<1> QED BY <1>1, <1>2, NextIsCall, SMTT(30)

\* While one object inserts, a scan that was not ended and started again has, when
\* scanNext reports FILEEOF, returned every matching record that was there when it
\* began and still is, whatever was inserted and deleted by others meanwhile and
\* however often it was marked and reset.
THEOREM ScanMissesNone ==
  ASSUME OneInserter, Rescanners = {}
  PROVE  Spec => []ScanComplete
<1>1. Init => DueAhead /\ ScanComplete
  BY DEF Init, DueAhead, ScanComplete
<1> QED BY <1>1, ScansTracked, ChainedHolds, DueStep, PTL DEF Spec
=============================================================================
