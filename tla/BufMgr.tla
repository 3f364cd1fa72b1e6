------------------------------- MODULE BufMgr -------------------------------
(***************************************************************************)
(* The buffer manager of src/src/buf.C with its page hash table            *)
(* (bufHash.C): a pool of NumBufs frames over the pages of the open files, *)
(* replaced by the clock algorithm.  The file layer (db.C) appears here by *)
(* what it promises (module DBFile has its free list): a page is past the  *)
(* end of its file (NoContent), free, or allocated.                        *)
(*                                                                         *)
(* The manager is a sequential library: one action is one call.  Its       *)
(* callers interleave freely, each holding pins and writing through the    *)
(* Page pointers it was given (Modify).                                    *)
(***************************************************************************)
EXTENDS Integers, FiniteSets

CONSTANTS
  NumBufs,    \* number of frames (minirel uses 100)
  Files,      \* the open files
  Pages,      \* <<file, page number>> pairs, page numbers from 1
  NoPage,     \* file = NULL, pageNo = -1
  Contents,   \* what a page can hold
  Zero,       \* a zeroed page
  NoContent,  \* a page past the end of its file
  MaxPin,     \* bound: pins a page may have at once
  IoFaults    \* TRUE: I/O may fail, and callers may ask for any page

ASSUME BufsAssumption == NumBufs \in Nat \ {0}
ASSUME PagesAssumption == Pages \subseteq Files \X (Nat \ {0})
ASSUME NoPageAssumption == NoPage \notin Pages
ASSUME ContentsAssumption == Zero \in Contents /\ NoContent \notin Contents
ASSUME MaxPinAssumption == MaxPin \in Nat
ASSUME FaultsAssumption == IoFaults \in BOOLEAN

Frames == 0 .. (NumBufs - 1)
NoFrame == -1
Status == {"OK", "BUFFEREXCEEDED", "HASHNOTFOUND", "HASHTBLERROR", "PAGENOTPINNED",
           "PAGEPINNED", "BADBUFFER", "BADPAGENO", "UNIXERR"}

VARIABLES
  page,       \* bufTable[i].file and .pageNo
  pinCnt,     \* bufTable[i].pinCnt
  dirty,      \* the frames with bufTable[i].dirty
  valid,      \* the frames with bufTable[i].valid
  refbit,     \* the frames with bufTable[i].refbit
  pool,       \* bufPool[i]
  hashTable,  \* page -> frame, NoFrame when absent
  clockHand,
  disk,       \* what each page of each file holds on disk
  alloc,      \* the pages the files have allocated
  touched,    \* the pages changed through a pin and not yet unpinned dirty
  status      \* what the last call returned

vars == <<page, pinCnt, dirty, valid, refbit, pool, hashTable, clockHand,
          disk, alloc, touched, status>>

Init ==
  /\ page = [i \in Frames |-> NoPage]
  /\ pinCnt = [i \in Frames |-> 0]
  /\ dirty = {}
  /\ valid = {}
  /\ refbit = {}
  /\ pool = [i \in Frames |-> Zero]
  /\ hashTable = [p \in Pages |-> NoFrame]
  /\ clockHand = NumBufs - 1
  /\ disk = [p \in Pages |-> NoContent]
  /\ alloc = {}
  /\ touched = {}
  /\ status = "OK"

-----------------------------------------------------------------------------
(* allocBuf: the clock sweep.  It advances at most 2 * NumBufs times.  The *)
(* first round clears the reference bit of every frame it passes, so in    *)
(* the second only a pin keeps a frame.                                    *)

Visit(k) == (clockHand + k) % NumBufs

\* Mutant: the second round starts one visit early.
StopsOneEarly(k) ==
  LET i == Visit(k)
  IN  i \notin valid \/ (pinCnt[i] = 0 /\ (i \notin refbit \/ k >= NumBufs))

Stops(k) ==
  LET i == Visit(k)
  IN  i \notin valid \/ (pinCnt[i] = 0 /\ (i \notin refbit \/ k > NumBufs))

\* Mutant: the sweep gives up after one round.
ExhaustedAfterOneRound == \A k \in 1 .. NumBufs : ~Stops(k)

Exhausted == \A k \in 1 .. 2 * NumBufs : ~Stops(k)

StopStep ==
  CHOOSE k \in 1 .. 2 * NumBufs : Stops(k) /\ \A j \in 1 .. (k - 1) : ~Stops(j)

Victim == Visit(StopStep)

RefbitAfterSweep == refbit \ {Visit(j) : j \in 1 .. (StopStep - 1)}

\* Mutant: the evicted page keeps its hash entry.
HashAfterSweepKept == hashTable

\* hashTable->remove of the victim's page: by page, whichever frame it names.
HashAfterSweep ==
  IF Victim \in valid THEN [hashTable EXCEPT ![page[Victim]] = NoFrame] ELSE hashTable

\* A dirty victim is written back to the file contents d.
WriteVictim(d) ==
  IF Victim \in dirty THEN [d EXCEPT ![page[Victim]] = pool[Victim]] ELSE d

AllocBufFull ==
  /\ Exhausted
  /\ refbit' = {}
  /\ status' = "BUFFEREXCEEDED"
  /\ UNCHANGED <<page, pinCnt, dirty, valid, pool, hashTable, clockHand>>

\* The sweep found a victim, but its frame is not refilled: the victim stays
\* valid and keeps its page, without a hash entry.
LeaveVictim ==
  /\ clockHand' = Victim
  /\ refbit' = RefbitAfterSweep
  /\ hashTable' = HashAfterSweep
  /\ status' = "UNIXERR"
  /\ UNCHANGED <<page, pinCnt, dirty, valid, pool>>

AllocBufWriteFails ==
  /\ IoFaults
  /\ ~Exhausted
  /\ Victim \in dirty
  /\ LeaveVictim

\* Mutant: the hash entry is not inserted.
SetFrameNoInsert(p, c) ==
  /\ clockHand' = Victim
  /\ refbit' = RefbitAfterSweep \cup {Victim}
  /\ page' = [page EXCEPT ![Victim] = p]
  /\ pinCnt' = [pinCnt EXCEPT ![Victim] = 1]
  /\ dirty' = dirty \ {Victim}
  /\ valid' = valid \cup {Victim}
  /\ pool' = [pool EXCEPT ![Victim] = c]
  /\ hashTable' = HashAfterSweep
  /\ status' = "OK"

\* BufDesc::Set on the victim and hashTable->insert, which refuses a page that
\* already has an entry.
SetFrame(p, c) ==
  /\ clockHand' = Victim
  /\ refbit' = RefbitAfterSweep \cup {Victim}
  /\ page' = [page EXCEPT ![Victim] = p]
  /\ pinCnt' = [pinCnt EXCEPT ![Victim] = 1]
  /\ dirty' = dirty \ {Victim}
  /\ valid' = valid \cup {Victim}
  /\ pool' = [pool EXCEPT ![Victim] = c]
  /\ hashTable' = IF HashAfterSweep[p] = NoFrame
                    THEN [HashAfterSweep EXCEPT ![p] = Victim]
                    ELSE HashAfterSweep
  /\ status' = IF HashAfterSweep[p] = NoFrame THEN "OK" ELSE "HASHTBLERROR"

-----------------------------------------------------------------------------
(* readPage *)

ReadHit(p) ==
  /\ hashTable[p] # NoFrame
  /\ pinCnt[hashTable[p]] < MaxPin
  /\ refbit' = refbit \cup {hashTable[p]}
  /\ pinCnt' = [pinCnt EXCEPT ![hashTable[p]] = @ + 1]
  /\ status' = "OK"
  /\ UNCHANGED <<page, dirty, valid, pool, hashTable, clockHand, disk, alloc, touched>>

ReadMiss(p) ==
  /\ hashTable[p] = NoFrame
  /\ \/ AllocBufFull /\ UNCHANGED disk
     \/ AllocBufWriteFails /\ UNCHANGED disk
     \/ /\ ~Exhausted
        /\ IoFaults \/ WriteVictim(disk)[p] = NoContent
        /\ LeaveVictim
        /\ disk' = WriteVictim(disk)
     \/ /\ ~Exhausted
        /\ WriteVictim(disk)[p] # NoContent
        /\ SetFrame(p, WriteVictim(disk)[p])
        /\ disk' = WriteVictim(disk)
  /\ UNCHANGED <<alloc, touched>>

ReadPage(p) == (IoFaults \/ p \in alloc) /\ (ReadHit(p) \/ ReadMiss(p))

-----------------------------------------------------------------------------
(* allocPage.  The file gives out a free page if it has one, else it grows *)
(* by the next page number, written as zeros.  The page is allocated in    *)
(* the file before a frame is found for it, and the frame keeps whatever   *)
(* it held: the caller is to initialise it.                                *)

CanAllocate(p) ==
  LET free == {q \in Pages \ alloc : q[1] = p[1] /\ disk[q] # NoContent}
  IN  /\ p \notin alloc
      /\ IF free # {} THEN p \in free
                      ELSE \A q \in Pages : q[1] = p[1] /\ q[2] < p[2] => disk[q] # NoContent

DiskAfterAllocate(p) == IF disk[p] = NoContent THEN [disk EXCEPT ![p] = Zero] ELSE disk

AllocateFails ==
  /\ IoFaults
  /\ status' = "UNIXERR"
  /\ UNCHANGED <<page, pinCnt, dirty, valid, refbit, pool, hashTable, clockHand, disk, alloc, touched>>

AllocateSucceeds(p) ==
  /\ alloc' = alloc \cup {p}
  /\ \/ AllocBufFull /\ disk' = DiskAfterAllocate(p) /\ UNCHANGED touched
     \/ AllocBufWriteFails /\ disk' = DiskAfterAllocate(p) /\ UNCHANGED touched
     \/ /\ ~Exhausted
        /\ SetFrame(p, pool[Victim])
        /\ disk' = WriteVictim(DiskAfterAllocate(p))
        /\ touched' = touched \cup {p}

AllocPage(p) == CanAllocate(p) /\ (AllocateSucceeds(p) \/ AllocateFails)

-----------------------------------------------------------------------------
(* unPinPage: the dirty flag is set before the pin count is looked at.     *)
(* A caller that changed the page says so, unless another pin remains      *)
(* whose holder will.                                                      *)

\* Mutant: the dirty flag is overwritten.
UnPinPageOverwrites(p, d) ==
  LET i == hashTable[p]
  IN  /\ d \/ p \notin touched \/ (i # NoFrame /\ pinCnt[i] > 1)
      /\ i # NoFrame /\ pinCnt[i] > 0
      /\ dirty' = IF d THEN dirty \cup {i} ELSE dirty \ {i}
      /\ touched' = IF d THEN touched \ {p} ELSE touched
      /\ pinCnt' = [pinCnt EXCEPT ![i] = @ - 1]
      /\ status' = "OK"
      /\ UNCHANGED <<page, valid, refbit, pool, hashTable, clockHand, disk, alloc>>

UnPinPage(p, d) ==
  LET i == hashTable[p]
  IN  /\ d \/ p \notin touched \/ (i # NoFrame /\ pinCnt[i] > 1)
      /\ IF i = NoFrame
           THEN status' = "HASHNOTFOUND" /\ UNCHANGED <<dirty, pinCnt, touched>>
           ELSE /\ dirty' = IF d THEN dirty \cup {i} ELSE dirty
                /\ touched' = IF d THEN touched \ {p} ELSE touched
                /\ pinCnt' = IF pinCnt[i] = 0 THEN pinCnt ELSE [pinCnt EXCEPT ![i] = @ - 1]
                /\ status' = IF pinCnt[i] = 0 THEN "PAGENOTPINNED" ELSE "OK"
      /\ UNCHANGED <<page, valid, refbit, pool, hashTable, clockHand, disk, alloc>>

\* A caller writes through the Page* of a frame it has pinned.
Modify(i, c) ==
  /\ pinCnt[i] > 0
  /\ pool' = [pool EXCEPT ![i] = c]
  /\ touched' = touched \cup {page[i]}
  /\ status' = "OK"
  /\ UNCHANGED <<page, pinCnt, dirty, valid, refbit, hashTable, clockHand, disk, alloc>>

-----------------------------------------------------------------------------
(* flushFile: frame by frame, in order, up to the first frame it refuses.  *)

OfFile(i, f) == page[i] # NoPage /\ page[i][1] = f
\* Mutant: a pinned frame is flushed like any other.
RefusedUnlessPinned(i, f) == OfFile(i, f) /\ i \notin valid

Refused(i, f) == OfFile(i, f) /\ (i \notin valid \/ pinCnt[i] > 0)
Flushable(f, n) == {i \in valid : i < n /\ OfFile(i, f)}

\* The dirty frames of S are written in frame order: the last one wins.
WriteBack(S) ==
  [p \in Pages |->
     LET w == {i \in S \cap dirty : page[i] = p}
     IN  IF w = {} THEN disk[p] ELSE pool[CHOOSE i \in w : \A j \in w : j <= i]]

FlushUpTo(f, n) ==
  LET S == Flushable(f, n)
  IN  /\ disk' = WriteBack(S)
      /\ dirty' = dirty \ S
      /\ valid' = valid \ S
      /\ page' = [i \in Frames |-> IF i \in S THEN NoPage ELSE page[i]]
      /\ hashTable' = [p \in Pages |-> IF \E i \in S : page[i] = p THEN NoFrame ELSE hashTable[p]]
      /\ UNCHANGED <<pinCnt, refbit, pool, clockHand, alloc, touched>>

FlushFile(f) ==
  \/ /\ \A i \in Frames : ~Refused(i, f)
     /\ FlushUpTo(f, NumBufs)
     /\ status' = "OK"
  \/ \E n \in Frames :
       /\ \A i \in 0 .. (n - 1) : ~Refused(i, f)
       /\ FlushUpTo(f, n)
       /\ \/ Refused(n, f) /\ status' = IF n \in valid THEN "PAGEPINNED" ELSE "BADBUFFER"
          \/ IoFaults /\ ~Refused(n, f) /\ OfFile(n, f) /\ n \in dirty /\ status' = "UNIXERR"

-----------------------------------------------------------------------------
(* disposePage: the frame is cleared, pinned or not, before the file is    *)
(* asked; the file refuses its first page.                                 *)

DisposePage(p) ==
  LET i == hashTable[p]
  IN  /\ p \in alloc
      /\ page' = IF i = NoFrame THEN page ELSE [page EXCEPT ![i] = NoPage]
      /\ pinCnt' = IF i = NoFrame THEN pinCnt ELSE [pinCnt EXCEPT ![i] = 0]
      /\ dirty' = dirty \ {i}
      /\ valid' = valid \ {i}
      /\ hashTable' = [hashTable EXCEPT ![p] = NoFrame]
      /\ touched' = touched \ {p}
      /\ IF p[2] = 1
           THEN status' = "BADPAGENO" /\ UNCHANGED <<disk, alloc>>
           ELSE \/ status' = "OK" /\ disk' = [disk EXCEPT ![p] = Zero] /\ alloc' = alloc \ {p}
                \/ /\ IoFaults
                   /\ status' = "UNIXERR"
                   /\ disk' \in {disk, [disk EXCEPT ![p] = Zero]}
                   /\ UNCHANGED alloc
      /\ UNCHANGED <<refbit, pool, clockHand>>

\* ~BufMgr once every caller has given its changes back, then a new BufMgr.  The
\* destructor ignores what its writes return.
Restart ==
  /\ touched = {}
  /\ \E S \in IF IoFaults THEN SUBSET valid ELSE {valid} : disk' = WriteBack(S)
  /\ page' = [i \in Frames |-> NoPage]
  /\ pinCnt' = [i \in Frames |-> 0]
  /\ dirty' = {}
  /\ valid' = {}
  /\ refbit' = {}
  /\ pool' = [i \in Frames |-> Zero]
  /\ hashTable' = [p \in Pages |-> NoFrame]
  /\ clockHand' = NumBufs - 1
  /\ status' = "OK"
  /\ UNCHANGED <<alloc, touched>>

Next ==
  \/ \E p \in Pages : ReadPage(p)
  \/ \E p \in Pages : AllocPage(p)
  \/ \E p \in Pages, d \in BOOLEAN : UnPinPage(p, d)
  \/ \E i \in Frames, c \in Contents : Modify(i, c)
  \/ \E f \in Files : FlushFile(f)
  \/ \E p \in Pages : DisposePage(p)
  \/ Restart

Spec == Init /\ [][Next]_vars
-----------------------------------------------------------------------------
(* Invariants and action properties *)

TypeOK ==
  /\ page \in [Frames -> Pages \cup {NoPage}]
  /\ pinCnt \in [Frames -> Nat]
  /\ dirty \subseteq Frames
  /\ valid \subseteq Frames
  /\ refbit \subseteq Frames
  /\ pool \in [Frames -> Contents]
  /\ hashTable \in [Pages -> Frames \cup {NoFrame}]
  /\ clockHand \in Frames
  /\ disk \in [Pages -> Contents \cup {NoContent}]
  /\ alloc \subseteq Pages
  /\ touched \subseteq Pages
  /\ status \in Status

\* A hash entry names a valid frame that holds that page (bufHash.C lookup is
\* trusted by readPage, unPinPage and disposePage), failing I/O or not.
HashSound ==
  \A p \in Pages : hashTable[p] # NoFrame => hashTable[p] \in valid /\ page[hashTable[p]] = p

\* Every page in the pool is in the hash table, in exactly one frame: "Check if
\* (file,pageNo) is currently in the buffer pool (ie. in the hash table)".
BufferedIsHashed == \A i \in valid : hashTable[page[i]] = i

\* A frame in use holds a page; one that is not holds no pin and no change:
\* allocBuf takes it without looking further.
UnusedIsClean ==
  /\ dirty \subseteq valid
  /\ \A i \in Frames : IF i \in valid THEN page[i] \in Pages
                        ELSE page[i] = NoPage /\ pinCnt[i] = 0

\* A frame that differs from the disk is dirty, or is changed by a caller that
\* still holds a pin: no sequence of reads, evictions, flushes and restarts
\* drops a change that was unpinned dirty.
NoLostUpdate ==
  \A i \in valid :
    pool[i] # disk[page[i]] => i \in dirty \/ (page[i] \in touched /\ pinCnt[i] > 0)

\* The pool holds only pages the files have allocated, and those are all on
\* disk: a page that left its file, or never got there, is in no frame.
BufferedIsAllocated ==
  /\ \A p \in alloc : disk[p] # NoContent
  /\ \A p \in Pages : hashTable[p] # NoFrame => p \in alloc

\* A pinned frame keeps its page whatever the sweep, a flush or a failing read
\* does; only disposePage and the end of the manager take it away.
PinnedFrameKept ==
  [][\/ \E p \in Pages : DisposePage(p)
     \/ Restart
     \/ \A i \in Frames :
          pinCnt[i] > 0 => i \in valid' /\ page'[i] = page[i]]_vars
-----------------------------------------------------------------------------
(* The pool implements the abstract buffer: a page's content is its frame's *)
(* when it is in the hash table and the disk's otherwise.                   *)

PageContent ==
  [p \in Pages |-> IF p \notin alloc THEN NoContent
                  ELSE IF hashTable[p] # NoFrame THEN pool[hashTable[p]] ELSE disk[p]]

PagePins == [p \in Pages |-> IF hashTable[p] = NoFrame THEN 0 ELSE pinCnt[hashTable[p]]]

Buffer == INSTANCE BufferSpec WITH content <- PageContent, pins <- PagePins

\* Every call of the manager is a call of the abstract buffer: no eviction,
\* flush or restart is visible, and BUFFEREXCEEDED is returned exactly when
\* NumBufs pages are pinned (buf.C allocBuf, readPage, allocPage).
ImplementsBuffer == Buffer!Spec
=============================================================================
