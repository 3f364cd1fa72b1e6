------------------------------ MODULE HeapFile ------------------------------
(***************************************************************************)
(* One heap file (heapfile.C) and the objects that have it open: plain     *)
(* HeapFiles, HeapFileScans and InsertFileScans, each with its own current *)
(* page, dirty flags and position, all on the same pages.  The program is  *)
(* sequential: an action is one call on one object, and callers interleave *)
(* their objects freely.                                                   *)
(*                                                                         *)
(* Pages and pins are those of BufferSpec: one content per page, pins      *)
(* counted per page, BUFFEREXCEEDED when NumBufs pages are pinned.  A data *)
(* page is its sequence of slots (PageSpec).  Page 1 is the header page.   *)
(***************************************************************************)
EXTENDS Integers, Sequences, FiniteSets, FiniteSetsExt

CONSTANTS
  Heaps,       \* objects of class HeapFile, of which only getRecord(rid) is used
  Scans,       \* objects of class HeapFileScan
  Inserts,     \* objects of class InsertFileScan
  Deleters,    \* the scans that delete
  Markers,     \* the scans that mark and reset (sort.C)
  Rescanners,  \* the scans that start again after endScan
  Records,     \* the records, each in the file at most once at a time
  Length(_),   \* record.length
  Matches,     \* the records for which matchRec holds
  NoRecord,    \* an empty slot
  DataSize,    \* PAGESIZE - DPFIXED
  SlotSize,    \* sizeof(slot_t)
  NumBufs,     \* frames of the buffer pool
  MaxPages     \* bound: pages of the file

Handles == Heaps \cup Scans \cup Inserts

\* What a call that returns no record reports.
Statuses ==
  {"OK", "FILEEOF", "BUFFEREXCEEDED", "PAGENOTPINNED", "INVALIDRECLEN", "NOSPACE"}

ASSUME KindsAssumption ==
  /\ Deleters \cup Markers \cup Rescanners \subseteq Scans
  /\ Heaps \cap Scans = {} /\ Heaps \cap Inserts = {} /\ Scans \cap Inserts = {}
  /\ IsFiniteSet(Handles)
ASSUME SizesAssumption ==
  {DataSize, SlotSize, NumBufs} \subseteq Nat \ {0} /\ MaxPages \in Nat \ {0, 1}
ASSUME RecordsAssumption ==
  NoRecord \notin Records /\ Matches \subseteq Records /\ Records \cap Statuses = {}

PageNos == 1 .. MaxPages
Header == 1
Null == 0

VARIABLES
  hdr,        \* the header page: firstPage, lastPage, pageCnt, recCnt
  next,       \* nextPage of each data page
  slots,      \* the slots of each data page; slot s is slots[p][s + 1]
  size,       \* pages allocated: 1 .. size
  pins,       \* pins on each page
  touched,    \* pages changed and not yet unpinned dirty
  open,       \* the objects that exist
  curPage,    \* the page the object's pointer leads to, or Null
  curPageNo,
  curDirty,   \* the objects with curDirtyFlag
  hdrDirty,   \* the objects with hdrDirtyFlag
  curRec,     \* curRec.slotNo, -1 for NULLRID
  marked,     \* markedPageNo and markedRec, with due and seen at that point
  due,        \* records there since the scan began that it has not returned
  seen,       \* records it has returned and that are still there
  repeated,   \* history: the scans that returned a record a second time, or one
              \* that does not match
  out         \* what the last call on the object returned

file == <<hdr, next, slots, size>>
pool == <<pins, touched>>
vars == <<hdr, next, slots, size, pins, touched, open, curPage, curPageNo, curDirty,
          hdrDirty, curRec, marked, due, seen, repeated, out>>

\* The file as createHeapFile leaves it.
Init ==
  /\ hdr = [firstPage |-> 2, lastPage |-> 2, pageCnt |-> 1, recCnt |-> 0]
  /\ next = [p \in PageNos |-> -1]
  /\ slots = [p \in PageNos |-> <<>>]
  /\ size = 2
  /\ pins = [p \in PageNos |-> 0]
  /\ touched = {}
  /\ open = {}
  /\ curPage = [h \in Handles |-> Null]
  /\ curPageNo = [h \in Handles |-> 0]
  /\ curDirty = {}
  /\ hdrDirty = {}
  /\ curRec = [h \in Handles |-> -1]
  /\ marked = [h \in Handles |-> <<>>]
  /\ due = [h \in Handles |-> {}]
  /\ seen = [h \in Handles |-> {}]
  /\ repeated = {}
  /\ out = [h \in Handles |-> "OK"]

-----------------------------------------------------------------------------
(* Data pages *)

Occupied(p) == {i \in DOMAIN slots[p] : slots[p][i] # NoRecord}

FreeSpace(p) ==
  LET Size(i) == Length(slots[p][i])
  IN  DataSize - MapThenSumSet(Size, Occupied(p)) - SlotSize * Len(slots[p])

Fits(p, r) == Length(r) + SlotSize <= FreeSpace(p)

\* Page::insertRecord into the first empty slot, or a new one.
SlotsWith(p, r) ==
  LET empty == DOMAIN slots[p] \ Occupied(p)
  IN  IF empty = {} THEN Append(slots[p], r) ELSE [slots[p] EXCEPT ![Min(empty)] = r]

\* Page::deleteRecord, with the slot array cut after the last record.
SlotsWithout(p, s) ==
  SubSeq([slots[p] EXCEPT ![s + 1] = NoRecord], 1, Max((Occupied(p) \ {s + 1}) \cup {0}))

\* Mutants: a slot is skipped; the present slot is visited again.
SlotsAfterSkips(p, s) == {i - 1 : i \in {j \in Occupied(p) : j > s + 2}}
SlotsAfterStays(p, s) == {i - 1 : i \in {j \in Occupied(p) : j >= s + 1}}

\* The slots that repeated calls of Page::nextRecord visit after slot s;
\* firstRecord starts at slot 0, as nextRecord does after NULLRID.
SlotsAfter(p, s) == {i - 1 : i \in {j \in Occupied(p) : j > s + 1}}

FileRecords == UNION {{slots[p][i] : i \in Occupied(p)} : p \in 2 .. size}
-----------------------------------------------------------------------------
(* Pins *)

\* readPage and allocPage find a frame for page p when the pins are pn.
CanPin(pn, p) == pn[p] > 0 \/ Cardinality({q \in PageNos : pn[q] > 0}) < NumBufs

Pin(pn, p) == [pn EXCEPT ![p] = @ + 1]

\* unPinPage; a page that is not pinned stays as it is (PAGENOTPINNED).
UnPin(pn, p) == [pn EXCEPT ![p] = IF @ = 0 THEN 0 ELSE @ - 1]

\* What is still to be announced once page p is unpinned with the flag d.
Announced(T, p, d) == IF d THEN T \ {p} ELSE T

\* An assumption about the callers: an object whose last call failed is closed,
\* and not used again.
Failed == {"BUFFEREXCEEDED", "PAGENOTPINNED"}
Usable(h) == h \in open /\ out[h] \notin Failed

-----------------------------------------------------------------------------
(* Constructors and destructors *)

\* HeapFile and HeapFileScan stay on the first page, InsertFileScan moves to the
\* last.  The constructors are called with room in the pool for both pages: what
\* they do without is undefined (they use the pointer readPage did not set).
Open(h) ==
  LET first == hdr.firstPage
      home  == IF h \in Inserts THEN hdr.lastPage ELSE first
      pn    == Pin(pins, Header)
  IN  /\ h \notin open
      /\ CanPin(pins, Header) /\ CanPin(pn, first) /\ CanPin(pn, home)
      /\ open' = open \cup {h}
      /\ pins' = Pin(pn, home)
      /\ curPage' = [curPage EXCEPT ![h] = home]
      /\ curPageNo' = [curPageNo EXCEPT ![h] = home]
      /\ curDirty' = curDirty \ {h}
      /\ hdrDirty' = hdrDirty \ {h}
      /\ curRec' = [curRec EXCEPT ![h] = -1]
      /\ marked' = [marked EXCEPT ![h] = <<>>]
      /\ due' = [due EXCEPT ![h] = IF h \in Scans THEN FileRecords ELSE {}]
      /\ seen' = [seen EXCEPT ![h] = {}]
      /\ out' = [out EXCEPT ![h] = "OK"]
      /\ UNCHANGED <<file, touched, repeated>>

\* Mutant: the page is unpinned although curPage is NULL.
CurUnpinnedAlways(h) == UnPin(pins, curPageNo[h])

\* Unpin the current page, if any: dirty for an InsertFileScan, as the flag says
\* for the others.
CurUnpinned(h) == IF curPage[h] = Null THEN pins ELSE UnPin(pins, curPageNo[h])
CurAnnounced(h) ==
  IF curPage[h] = Null THEN touched
  ELSE Announced(touched, curPageNo[h], h \in curDirty \cup Inserts)

\* The destructors: current page, header page, closeFile.
Close(h) ==
  /\ h \in open
  /\ open' = open \ {h}
  /\ pins' = UnPin(CurUnpinned(h), Header)
  /\ touched' = Announced(CurAnnounced(h), Header, h \in hdrDirty)
  /\ curPage' = [curPage EXCEPT ![h] = Null]
  /\ curPageNo' = [curPageNo EXCEPT ![h] = 0]
  /\ curDirty' = curDirty \ {h}
  /\ hdrDirty' = hdrDirty \ {h}
  /\ curRec' = [curRec EXCEPT ![h] = -1]
  /\ marked' = [marked EXCEPT ![h] = <<>>]
  /\ due' = [due EXCEPT ![h] = {}]
  /\ seen' = [seen EXCEPT ![h] = {}]
  /\ out' = [out EXCEPT ![h] = "OK"]
  /\ UNCHANGED <<file, repeated>>

-----------------------------------------------------------------------------
(* HeapFile::getRecord(rid), of a record the file holds.  When the page    *)
(* cannot be read the object keeps its pointer to the page it has just     *)
(* unpinned.  (The mutant does not unpin it.)                              *)

LeftPinsKept(h) == pins
LeftPins(h) == CurUnpinned(h)

GetRecord(h, p, s) ==
  /\ h \in Heaps /\ Usable(h)
  /\ s + 1 \in Occupied(p)
  /\ \/ /\ p = curPageNo[h]
        /\ curRec' = [curRec EXCEPT ![h] = s]
        /\ out' = [out EXCEPT ![h] = "OK"]
        /\ UNCHANGED <<pins, touched, curPage, curPageNo, curDirty>>
     \/ /\ p # curPageNo[h]
        /\ touched' = CurAnnounced(h)
        /\ IF CanPin(LeftPins(h), p)
             THEN /\ pins' = Pin(LeftPins(h), p)
                  /\ curPage' = [curPage EXCEPT ![h] = p]
                  /\ curPageNo' = [curPageNo EXCEPT ![h] = p]
                  /\ curDirty' = curDirty \ {h}
                  /\ curRec' = [curRec EXCEPT ![h] = s]
                  /\ out' = [out EXCEPT ![h] = "OK"]
             ELSE /\ pins' = LeftPins(h)
                  /\ out' = [out EXCEPT ![h] = "BUFFEREXCEEDED"]
                  /\ UNCHANGED <<curPage, curPageNo, curDirty, curRec>>
  /\ UNCHANGED <<file, open, hdrDirty, marked, due, seen, repeated>>

-----------------------------------------------------------------------------
(* scanNext.  The call visits the records after slot s of page c, then     *)
(* those of the pages behind it, until one matches, a page cannot be read  *)
(* or the chain ends.                                                      *)

\* The pages from c on, -1 behind the last.
Walk(c) ==
  LET w[k \in 0 .. MaxPages] ==
        IF k = 0 THEN c ELSE IF w[k - 1] = -1 THEN -1 ELSE next[w[k - 1]]
  IN  w

\* What the scan visits on the k-th page, and what of it matches.
Visited(c, s, k) ==
  IF Walk(c)[k] = -1 THEN {} ELSE SlotsAfter(Walk(c)[k], IF k = 0 THEN s ELSE -1)
Hits(c, s, k) == {t \in Visited(c, s, k) : slots[Walk(c)[k]][t + 1] \in Matches}

\* The k-th page cannot be read once page c is unpinned.
Blocked(pn, c, k) == k > 0 /\ Walk(c)[k] # -1 /\ ~CanPin(pn, Walk(c)[k])

\* The call ends on the k-th page: with a record, without the page, at the end.
EndsAt(pn, c, s, k) ==
  Hits(c, s, k) # {} \/ Blocked(pn, c, k) \/ Walk(c)[k + 1] = -1
Ending(pn, c, s) ==
  CHOOSE k \in 0 .. (MaxPages - 1) :
    EndsAt(pn, c, s, k) /\ \A j \in 0 .. (k - 1) : ~EndsAt(pn, c, s, j)

\* At the end of the file curRec stays on the last record visited, which may be
\* on an earlier page.
LastVisited(c, s, n) ==
  LET on == {k \in 0 .. n : Visited(c, s, k) # {}}
  IN  IF on = {} THEN s ELSE Max(Visited(c, s, Max(on)))

\* Go on from slot s of page c, which the scan h has pinned; pn are the pins
\* without that one.
ScanFrom(h, pn, c, s) ==
  LET k == Ending(pn, c, s)
      p == Walk(c)[k]
      t == Min(Hits(c, s, k))
      r == slots[p][t + 1]
  IN  IF Blocked(pn, c, k)
        THEN /\ pins' = pn
             /\ touched' = Announced(touched, c, h \in curDirty)
             /\ curPage' = [curPage EXCEPT ![h] = Null]
             /\ curPageNo' = [curPageNo EXCEPT ![h] = p]
             /\ curDirty' = curDirty \ {h}
             /\ out' = [out EXCEPT ![h] = "BUFFEREXCEEDED"]
             /\ UNCHANGED <<curRec, due, seen, repeated>>
        ELSE /\ pins' = Pin(pn, p)
             /\ touched' = IF k = 0 THEN touched ELSE Announced(touched, c, h \in curDirty)
             /\ curPage' = [curPage EXCEPT ![h] = p]
             /\ curPageNo' = [curPageNo EXCEPT ![h] = p]
             /\ curDirty' = IF k = 0 /\ curPage[h] # Null THEN curDirty ELSE curDirty \ {h}
             /\ \/ /\ Hits(c, s, k) # {}
                   /\ curRec' = [curRec EXCEPT ![h] = t]
                   /\ due' = [due EXCEPT ![h] = @ \ {r}]
                   /\ seen' = [seen EXCEPT ![h] = @ \cup {r}]
                   /\ repeated' = IF r \in Matches \ seen[h] THEN repeated ELSE repeated \cup {h}
                   /\ out' = [out EXCEPT ![h] = r]
                \/ /\ Hits(c, s, k) = {}
                   /\ curRec' = [curRec EXCEPT ![h] = LastVisited(c, s, k)]
                   /\ out' = [out EXCEPT ![h] = "FILEEOF"]
                   /\ UNCHANGED <<due, seen, repeated>>

ScanNext(h) ==
  /\ h \in Scans /\ Usable(h)
  /\ \/ /\ curPageNo[h] = -1
        /\ out' = [out EXCEPT ![h] = "FILEEOF"]
        /\ UNCHANGED <<pins, touched, curPage, curPageNo, curDirty, curRec, due, seen,
                       repeated>>
     \/ /\ curPageNo[h] # -1 /\ curPage[h] # Null
        /\ ScanFrom(h, UnPin(pins, curPageNo[h]), curPageNo[h], curRec[h])
     \/ /\ curPageNo[h] = 0
        /\ IF ~CanPin(pins, hdr.firstPage)
             THEN /\ curPageNo' = [curPageNo EXCEPT ![h] = hdr.firstPage]
                  /\ curRec' = [curRec EXCEPT ![h] = -1]
                  /\ out' = [out EXCEPT ![h] = "BUFFEREXCEEDED"]
                  /\ UNCHANGED <<pins, touched, curPage, curDirty, due, seen, repeated>>
             ELSE IF Occupied(hdr.firstPage) # {}
             THEN ScanFrom(h, pins, hdr.firstPage, -1)
             ELSE /\ curPageNo' = [curPageNo EXCEPT ![h] = -1]
                  /\ out' = [out EXCEPT ![h] = "FILEEOF"]
                  /\ UNCHANGED <<pins, touched, curPage, curDirty, curRec, due, seen,
                                 repeated>>
  /\ UNCHANGED <<file, open, hdrDirty, marked>>

-----------------------------------------------------------------------------
(* The other calls of a scan *)


\* endScan, then startScan: the next scanNext begins with the first page.
EndScan(h) ==
  /\ h \in Rescanners /\ Usable(h)
  /\ pins' = CurUnpinned(h)
  /\ touched' = CurAnnounced(h)
  /\ curPage' = [curPage EXCEPT ![h] = Null]
  /\ curPageNo' = IF curPage[h] = Null THEN curPageNo ELSE [curPageNo EXCEPT ![h] = 0]
  /\ curDirty' = curDirty \ {h}
  /\ due' = [due EXCEPT ![h] = FileRecords]
  /\ seen' = [seen EXCEPT ![h] = {}]
  /\ out' = [out EXCEPT ![h] = "OK"]
  /\ UNCHANGED <<file, open, hdrDirty, curRec, marked, repeated>>

MarkScan(h) ==
  /\ h \in Markers /\ Usable(h) /\ curPage[h] # Null
  /\ marked' = [marked EXCEPT ![h] =
                  <<curPageNo[h], curRec[h], due[h], seen[h]>>]
  /\ out' = [out EXCEPT ![h] = "OK"]
  /\ UNCHANGED <<file, pool, open, curPage, curPageNo, curDirty, hdrDirty, curRec, due, seen,
                 repeated>>

\* resetScan goes back to the marked record (the mutant to the start of the
\* page), and the flag of a page it leaves is false (in the mutant
\* also of a page it stays on).
MarkedRecStart(h) == -1
MarkedRec(h) == marked[h][2]

DirtyAfterResetNever(h) == curDirty \ {h}
DirtyAfterReset(h) == IF marked[h][1] = curPageNo[h] THEN curDirty ELSE curDirty \ {h}

\* When the marked page cannot be read the scan keeps its pointer to the page it
\* has unpinned, under the number of the marked page.
ResetScan(h) ==
  /\ h \in Markers /\ Usable(h) /\ marked[h] # <<>>
  /\ curPageNo' = [curPageNo EXCEPT ![h] = marked[h][1]]
  /\ curRec' = [curRec EXCEPT ![h] = MarkedRec(h)]
  /\ due' = [due EXCEPT ![h] = marked[h][3]]
  /\ seen' = [seen EXCEPT ![h] = marked[h][4]]
  /\ IF marked[h][1] = curPageNo[h]
       THEN /\ curDirty' = DirtyAfterReset(h)
            /\ out' = [out EXCEPT ![h] = "OK"]
            /\ UNCHANGED <<pool, curPage>>
       ELSE /\ touched' = CurAnnounced(h)
            /\ IF CanPin(CurUnpinned(h), marked[h][1])
                 THEN /\ pins' = Pin(CurUnpinned(h), marked[h][1])
                      /\ curPage' = [curPage EXCEPT ![h] = marked[h][1]]
                      /\ curDirty' = DirtyAfterReset(h)
                      /\ out' = [out EXCEPT ![h] = "OK"]
                 ELSE /\ pins' = CurUnpinned(h)
                      /\ out' = [out EXCEPT ![h] = "BUFFEREXCEEDED"]
                      /\ UNCHANGED <<curPage, curDirty>>
  /\ UNCHANGED <<file, open, hdrDirty, marked, repeated>>

\* Record r leaves the file: no scan has to return it any more.
Forget(r) ==
  /\ due' = [h \in Handles |-> due[h] \ {r}]
  /\ seen' = [h \in Handles |-> seen[h] \ {r}]
  /\ marked' = [h \in Handles |->
                  IF marked[h] = <<>> THEN <<>>
                  ELSE <<marked[h][1], marked[h][2], marked[h][3] \ {r}, marked[h][4] \ {r}>>]

\* The callers delete the record the last scanNext returned, if it is still
\* there: the count is decremented in any case.
CanDelete(h) ==
  /\ h \in Deleters /\ Usable(h) /\ out[h] \in Records
  /\ curRec[h] + 1 \in Occupied(curPageNo[h])
  /\ slots[curPageNo[h]][curRec[h] + 1] = out[h]

\* Mutant: curDirtyFlag is not set.
DirtyAfterDeleteForgotten(h) == curDirty
DirtyAfterDelete(h) == curDirty \cup {h}

DeleteRecord(h) ==
  LET p == curPageNo[h]
      s == curRec[h]
  IN  /\ CanDelete(h)
      /\ slots' = [slots EXCEPT ![p] = SlotsWithout(p, s)]
      /\ hdr' = [hdr EXCEPT !.recCnt = @ - 1]
      /\ touched' = touched \cup {p, Header}
      /\ curDirty' = DirtyAfterDelete(h)
      /\ hdrDirty' = hdrDirty \cup {h}
      /\ Forget(out[h])
      /\ out' = [out EXCEPT ![h] = "OK"]
      /\ UNCHANGED <<next, size, pins, open, curPage, curPageNo, curRec, repeated>>

-----------------------------------------------------------------------------
(* InsertFileScan::insertRecord *)

\* On the current page.
InsertHere(h, r) ==
  LET p == curPageNo[h]
  IN  /\ Fits(p, r)
      /\ slots' = [slots EXCEPT ![p] = SlotsWith(p, r)]
      /\ hdr' = [hdr EXCEPT !.recCnt = @ + 1]
      /\ touched' = touched \cup {p, Header}
      /\ hdrDirty' = hdrDirty \cup {h}
      /\ curDirty' = curDirty \cup {h}
      /\ out' = [out EXCEPT ![h] = "OK"]
      /\ UNCHANGED <<next, size, pins, curPage, curPageNo>>

\* The file has a new page, but the pool no frame for it: it belongs to no chain.
InsertNoFrame(h, r) ==
  /\ ~Fits(curPageNo[h], r)
  /\ size < MaxPages
  /\ ~CanPin(pins, size + 1)
  /\ size' = size + 1
  /\ out' = [out EXCEPT ![h] = "BUFFEREXCEEDED"]
  /\ UNCHANGED <<hdr, next, slots, pool, curPage, curPageNo, curDirty, hdrDirty>>

\* The header page with a new last page (the mutants forget lastPage, or the
\* record that comes with it).
HdrGrownLastKept(new, fits) ==
  [hdr EXCEPT !.pageCnt = @ + 1, !.recCnt = IF fits THEN @ + 1 ELSE @]
HdrGrownUncounted(new, fits) == [hdr EXCEPT !.lastPage = new, !.pageCnt = @ + 1]
HdrGrown(new, fits) ==
  [hdr EXCEPT !.lastPage = new, !.pageCnt = @ + 1, !.recCnt = IF fits THEN @ + 1 ELSE @]

\* A new page is linked behind the current one, which is unpinned dirty; the
\* dirty flag stays as it was unless the record fits.
InsertNewPage(h, r) ==
  LET p    == curPageNo[h]
      new  == size + 1
      fits == Length(r) + SlotSize <= DataSize
  IN  /\ ~Fits(p, r)
      /\ size < MaxPages
      /\ CanPin(pins, new)
      /\ size' = new
      /\ next' = [next EXCEPT ![p] = new, ![new] = -1]
      /\ slots' = [slots EXCEPT ![new] = IF fits THEN <<r>> ELSE <<>>]
      /\ hdr' = HdrGrown(new, fits)
      /\ pins' = UnPin(Pin(pins, new), p)
      /\ touched' = (touched \ {p}) \cup {new, Header}
      /\ curPage' = [curPage EXCEPT ![h] = new]
      /\ curPageNo' = [curPageNo EXCEPT ![h] = new]
      /\ hdrDirty' = hdrDirty \cup {h}
      /\ curDirty' = IF fits THEN curDirty \cup {h} ELSE curDirty
      /\ out' = [out EXCEPT ![h] = IF fits THEN "OK" ELSE "NOSPACE"]

InsertRecord(h, r) ==
  /\ h \in Inserts /\ Usable(h)
  /\ r \notin FileRecords
  /\ IF Length(r) > DataSize
       THEN /\ out' = [out EXCEPT ![h] = "INVALIDRECLEN"]
            /\ UNCHANGED <<file, pool, curPage, curPageNo, curDirty, hdrDirty>>
       ELSE InsertHere(h, r) \/ InsertNoFrame(h, r) \/ InsertNewPage(h, r)
  /\ UNCHANGED <<open, curRec, marked, due, seen, repeated>>

Next ==
  \E h \in Handles :
    \/ Open(h) \/ Close(h)
    \/ \E p \in PageNos : \E i \in DOMAIN slots[p] : GetRecord(h, p, i - 1)
    \/ ScanNext(h) \/ EndScan(h) \/ MarkScan(h) \/ ResetScan(h) \/ DeleteRecord(h)
    \/ \E r \in Records : InsertRecord(h, r)

Spec == Init /\ [][Next]_vars

-----------------------------------------------------------------------------
(* Invariants *)

\* Every pin belongs to one object: each has the header page and its current
\* page pinned once ("data page currently pinned in buffer pool", heapfile.h).
\* After the last destructor no page is pinned, so the flush in File::close,
\* whose status nobody looks at, leaves no frame behind.
PinsExact ==
  \A p \in PageNos :
    pins[p] = Cardinality({h \in open : curPage[h] = p})
              + (IF p = Header THEN Cardinality(open) ELSE 0)

\* A changed page is pinned by an object that will unpin it dirty: no change of
\* a record, a link or the header is lost when the page leaves the pool.
ChangeAnnounced ==
  \A p \in touched : \E h \in open :
    \/ p = Header /\ h \in hdrDirty
    \/ p = curPage[h] /\ h \in curDirty \cup Inserts

\* The pages linked from the header's firstPage end with its lastPage, are
\* pageCnt many, and hold every record: no insertion unlinks a page.
ChainExact ==
  LET chain == {Walk(hdr.firstPage)[k] : k \in 0 .. MaxPages} \ {-1}
  IN  /\ hdr.lastPage \in chain /\ next[hdr.lastPage] = -1
      /\ hdr.pageCnt = Cardinality(chain)
      /\ \A p \in (2 .. size) \ chain : slots[p] = <<>>

\* recCnt counts the records of the file (getRecCnt), each in one slot.
RecCntExact ==
  LET places == UNION {{<<p, i>> : i \in Occupied(p)} : p \in 2 .. size}
  IN  hdr.recCnt = Cardinality(places) /\ hdr.recCnt = Cardinality(FileRecords)

\* When scanNext reports the end of the file, the scan has returned every
\* matching record that was there when it began and still is, whatever was
\* inserted and deleted meanwhile.
ScanComplete ==
  \A h \in open \cap Scans : out[h] = "FILEEOF" => due[h] \cap Matches = {}

\* A record that fits on no page is refused before a page is looked for: "will
\* never fit on a page, so don't even bother looking" (heapfile.C).
OversizeRefused == \A h \in open : out[h] # "NOSPACE"

\* Every record that scanNext returns matches and was not returned before by that
\* scan, since it began or since the mark that resetScan took it back to: also
\* if it stays on the same slot, or meets that slot on another page.
ScanOnce == repeated = {}
=============================================================================
