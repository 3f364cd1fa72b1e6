---------------------------- MODULE BufMgrProofs ----------------------------
(***************************************************************************)
(* Proofs about the buffer manager for every number of frames, every set   *)
(* of pages and every bound on pins.  HashInv holds whatever the I/O does; *)
(* BufInv, which adds that nothing is lost, needs writes that succeed and  *)
(* callers that only ask for allocated pages.                              *)
(***************************************************************************)
EXTENDS BufClock, FiniteSetTheorems, TLAPS

\* A nonempty set of natural numbers has a least element.
LEMMA LeastNat ==
  ASSUME NEW T, T \subseteq Nat, T # {}
  PROVE  \E x \in T : \A y \in T : x <= y
<1> DEFINE R == OpToRel(<, Nat)
<1>1. IsWellFoundedOn(R, Nat)
  BY NatLessThanWellFounded, Zenon
<1> HIDE DEF R
<1>2. PICK x \in T : \A y \in T : ~(<<y, x>> \in R)
  BY <1>1, WFMin, Zenon
<1>3. ASSUME NEW y \in T PROVE x <= y
  <2>1. x \in Nat /\ y \in Nat
    BY <1>2
  <2>2. y < x => <<y, x>> \in R
    BY <2>1 DEF R, OpToRel
  <2> QED BY <2>1, <2>2, <1>2
<1> QED BY <1>2, <1>3

\* A nonempty set of natural numbers up to n has a greatest element.
LEMMA GreatestNat ==
  ASSUME NEW n \in Nat, NEW w, w \subseteq 0 .. n, w # {}
  PROVE  \E x \in w : \A y \in w : y <= x
<1> DEFINE T == {j \in 0 .. n : (n - j) \in w}
<1>1. T \subseteq Nat
  OBVIOUS
<1>2. T # {}
  <2>1. PICK i \in w : TRUE
    BY Zenon
  <2>2. n - i \in T
    OBVIOUS
  <2> QED BY <2>2, Zenon
<1> HIDE DEF T
<1>3. PICK t \in T : \A y \in T : t <= y
  BY <1>1, <1>2, LeastNat, Zenon
<1>4. t \in 0 .. n /\ n - t \in w
  BY DEF T
<1>5. ASSUME NEW y \in w PROVE y <= n - t
  <2>1. y \in 0 .. n /\ n - y \in T
    BY DEF T
  <2> QED BY <2>1, <1>3, <1>4
<1> QED BY <1>4, <1>5

HashInv == TypeOK /\ HashSound /\ UnusedIsClean

-----------------------------------------------------------------------------
(* The clock sweep of allocBuf.                                            *)

\* One whole round of the clock comes back to the same frame.
LEMMA RoundOfClock ==
  ASSUME NEW n \in Nat \ {0}, NEW h \in 0 .. (n - 1), NEW k \in 1 .. n
  PROVE  (h + k + n) % n = (h + k) % n
OBVIOUS

\* The hand stays on the pool.
LEMMA VisitInPool ==
  ASSUME TypeOK, NEW k \in Nat
  PROVE  Visit(k) \in Frames
BY BufsAssumption DEF TypeOK, Frames, Visit

\* When the sweep does not give up it stops, and at a first place.
LEMMA SweepStops ==
  ASSUME TypeOK, ~Exhausted
  PROVE  /\ StopStep \in 1 .. 2 * NumBufs
         /\ Stops(StopStep)
         /\ \A j \in 1 .. (StopStep - 1) : ~Stops(j)
<1> DEFINE T == {k \in 1 .. 2 * NumBufs : Stops(k)}
<1>1. T \subseteq Nat /\ T # {}
  BY BufsAssumption DEF Exhausted
<1>2. PICK k \in T : \A j \in T : k <= j
  BY <1>1, LeastNat, Zenon
<1>3. k \in 1 .. 2 * NumBufs /\ Stops(k) /\ \A j \in 1 .. (k - 1) : ~Stops(j)
  BY <1>2, BufsAssumption
<1> QED BY <1>3 DEF StopStep

\* The sweep gives up exactly when every frame is in use and pinned: an unused
\* or unpinned frame is found in at most two rounds.
LEMMA ExhaustedIsPinned ==
  ASSUME TypeOK
  PROVE  Exhausted <=> \A i \in Frames : i \in valid /\ pinCnt[i] > 0
<1>1. ASSUME NEW i \in Frames PROVE \E k \in 1 .. NumBufs : (clockHand + k) % NumBufs = i
  <2> clockHand \in 0 .. (NumBufs - 1) /\ i \in 0 .. (NumBufs - 1)
    BY DEF TypeOK, Frames
  <2>1. CASE i > clockHand
    <3>1. i - clockHand \in 1 .. NumBufs /\ clockHand + (i - clockHand) = i
      BY <2>1, BufsAssumption
    <3>2. i % NumBufs = i
      BY BufsAssumption
    <3> QED BY <3>1, <3>2
  <2>2. CASE i <= clockHand
    <3>1. NumBufs + i - clockHand \in 1 .. NumBufs
          /\ clockHand + (NumBufs + i - clockHand) = NumBufs + i
      BY <2>2, BufsAssumption
    <3>2. (NumBufs + i) % NumBufs = i
      BY BufsAssumption
    <3> QED BY <3>1, <3>2
  <2> QED BY <2>1, <2>2, BufsAssumption
<1>2. ASSUME NEW i \in Frames, Exhausted PROVE i \in valid /\ pinCnt[i] > 0
  <2>1. PICK k \in 1 .. NumBufs : (clockHand + k) % NumBufs = i
    BY <1>1
  <2>2. clockHand + (k + NumBufs) = (clockHand + k) + NumBufs /\ clockHand + k \in Nat
        /\ k + NumBufs \in 1 .. 2 * NumBufs /\ k + NumBufs > NumBufs
    BY BufsAssumption DEF TypeOK, Frames
  <2>3. ((clockHand + k) + NumBufs) % NumBufs = (clockHand + k) % NumBufs
    BY RoundOfClock, BufsAssumption, Zenon DEF TypeOK, Frames
  <2>4. Visit(k + NumBufs) = i
    BY <2>1, <2>2, <2>3 DEF Visit
  <2>5. ~Stops(k + NumBufs)
    BY <1>2, <2>2 DEF Exhausted
  <2>6. pinCnt[i] \in Nat
    BY DEF TypeOK
  <2> QED BY <2>2, <2>4, <2>5, <2>6 DEF Stops
<1>3. ASSUME \A i \in Frames : i \in valid /\ pinCnt[i] > 0 PROVE Exhausted
  <2> SUFFICES ASSUME NEW k \in 1 .. 2 * NumBufs PROVE ~Stops(k)
    BY DEF Exhausted
  <2>1. Visit(k) \in Frames
    BY VisitInPool, BufsAssumption
  <2>2. Visit(k) \in valid /\ pinCnt[Visit(k)] # 0
    BY <2>1, <1>3 DEF TypeOK
  <2> QED BY <2>2 DEF Stops
<1> QED BY <1>2, <1>3
-----------------------------------------------------------------------------
(* What the sweep leaves behind.                                           *)

\* The victim is a frame of the pool, and nobody has it pinned.
LEMMA VictimFacts ==
  ASSUME HashInv, ~Exhausted
  PROVE  /\ Victim \in Frames
         /\ pinCnt[Victim] = 0
         /\ RefbitAfterSweep \subseteq Frames
         /\ Victim \in valid => page[Victim] \in Pages
<1>1. StopStep \in Nat /\ Stops(StopStep)
  BY SweepStops, BufsAssumption DEF HashInv
<1>2. Victim \in Frames
  BY <1>1, VisitInPool DEF Victim, HashInv
<1>3. Victim \notin valid \/ pinCnt[Victim] = 0
  BY <1>1 DEF Stops, Victim
<1> QED BY <1>2, <1>3 DEF RefbitAfterSweep, HashInv, TypeOK, UnusedIsClean

\* After the sweep no hash entry names the victim, and the others are as before.
LEMMA HashAfterSweepFacts ==
  ASSUME HashInv, ~Exhausted
  PROVE  /\ HashAfterSweep \in [Pages -> Frames \cup {NoFrame}]
         /\ \A p \in Pages : HashAfterSweep[p] # NoFrame =>
               HashAfterSweep[p] = hashTable[p] /\ HashAfterSweep[p] # Victim
         /\ \A p \in Pages : hashTable[p] = NoFrame => HashAfterSweep[p] = NoFrame
BY VictimFacts DEF HashAfterSweep, HashInv, TypeOK, HashSound

\* Writing the victim back keeps the disk a disk.
LEMMA WriteVictimType ==
  ASSUME HashInv, ~Exhausted, NEW d \in [Pages -> Contents \cup {NoContent}]
  PROVE  WriteVictim(d) \in [Pages -> Contents \cup {NoContent}]
BY VictimFacts DEF WriteVictim, HashInv, TypeOK, UnusedIsClean

\* Writing several frames back keeps the disk a disk.
LEMMA WriteBackType ==
  ASSUME HashInv, NEW S \in SUBSET Frames
  PROVE  WriteBack(S) \in [Pages -> Contents \cup {NoContent}]
<1> SUFFICES ASSUME NEW p \in Pages PROVE WriteBack(S)[p] \in Contents \cup {NoContent}
  BY DEF WriteBack
<1> DEFINE w == {i \in S \cap dirty : page[i] = p}
<1>1. WriteBack(S)[p] = IF w = {} THEN disk[p] ELSE pool[CHOOSE i \in w : \A j \in w : j <= i]
  BY DEF WriteBack
<1>2. CASE w = {}
  BY <1>1, <1>2 DEF HashInv, TypeOK
<1>3. CASE w # {}
  <2>0. w \subseteq Frames
    OBVIOUS
  <2> HIDE DEF w
  <2>1. w \subseteq 0 .. (NumBufs - 1) /\ NumBufs - 1 \in Nat
    BY <2>0, BufsAssumption DEF Frames
  <2>2. \E i \in w : \A j \in w : j <= i
    BY <2>1, <1>3, GreatestNat, Zenon
  <2>3. (CHOOSE i \in w : \A j \in w : j <= i) \in w
    BY <2>2
  <2>4. (CHOOSE i \in w : \A j \in w : j <= i) \in Frames
    BY <2>0, <2>3
  <2> QED BY <1>1, <1>3, <2>4 DEF HashInv, TypeOK
<1> QED BY <1>2, <1>3

-----------------------------------------------------------------------------
(* HashInv is inductive, failing I/O or not: one lemma per action.         *)

\* The frames, the hash table and the hand after a sweep that gave up.
LEMMA FullKeeps ==
  ASSUME HashInv, AllocBufFull, disk' \in [Pages -> Contents \cup {NoContent}],
         alloc' \subseteq Pages, touched' \subseteq Pages
  PROVE  HashInv'
BY DEF AllocBufFull, HashInv, TypeOK, HashSound, UnusedIsClean, Status

\* ... after a sweep whose victim was left in place.
LEMMA LeaveKeeps ==
  ASSUME HashInv, ~Exhausted, LeaveVictim, disk' \in [Pages -> Contents \cup {NoContent}],
         alloc' \subseteq Pages, touched' \subseteq Pages
  PROVE  HashInv'
BY VictimFacts, HashAfterSweepFacts
   DEF LeaveVictim, HashInv, TypeOK, HashSound, UnusedIsClean, Status

\* ... and after one whose victim took page p.
LEMMA SetKeeps ==
  ASSUME HashInv, ~Exhausted, NEW p \in Pages, NEW c \in Contents, SetFrame(p, c),
         disk' \in [Pages -> Contents \cup {NoContent}],
         alloc' \subseteq Pages, touched' \subseteq Pages
  PROVE  HashInv'
<1> USE VictimFacts, HashAfterSweepFacts
<1>1. TypeOK'
  BY DEF SetFrame, HashInv, TypeOK, Status
<1>2. HashSound'
  BY DEF SetFrame, HashInv, TypeOK, HashSound
<1>3. UnusedIsClean'
  BY DEF SetFrame, HashInv, TypeOK, UnusedIsClean
<1> QED BY <1>1, <1>2, <1>3 DEF HashInv

\* readPage keeps the frames, the hash table and the pins consistent.
LEMMA ReadPageKeeps ==
  ASSUME HashInv, NEW p \in Pages, ReadPage(p)
  PROVE  HashInv'
<1>1. CASE ReadHit(p)
  BY <1>1 DEF ReadHit, HashInv, TypeOK, HashSound, UnusedIsClean, Status
<1>2. CASE ReadMiss(p)
  <2>1. CASE AllocBufFull /\ UNCHANGED disk
    BY <1>2, <2>1, FullKeeps DEF ReadMiss, HashInv, TypeOK
  <2>2. CASE AllocBufWriteFails /\ UNCHANGED disk
    BY <1>2, <2>2, LeaveKeeps, Zenon DEF ReadMiss, AllocBufWriteFails, HashInv, TypeOK
  <2>3. CASE ~Exhausted /\ LeaveVictim /\ disk' = WriteVictim(disk)
    BY <1>2, <2>3, LeaveKeeps, WriteVictimType, ZenonT(30) DEF ReadMiss, HashInv, TypeOK
  <2>4. CASE /\ ~Exhausted
             /\ WriteVictim(disk)[p] # NoContent
             /\ SetFrame(p, WriteVictim(disk)[p])
             /\ disk' = WriteVictim(disk)
    <3>1. WriteVictim(disk)[p] \in Contents
      BY <2>4, WriteVictimType DEF HashInv, TypeOK
    <3> QED BY <1>2, <2>4, <3>1, SetKeeps, WriteVictimType DEF ReadMiss, HashInv, TypeOK
  <2> QED BY <1>2, <2>1, <2>2, <2>3, <2>4, Zenon DEF ReadMiss
<1> QED BY <1>1, <1>2 DEF ReadPage

\* allocPage keeps them consistent.
LEMMA AllocPageKeeps ==
  ASSUME HashInv, NEW p \in Pages, AllocPage(p)
  PROVE  HashInv'
<1>1. DiskAfterAllocate(p) \in [Pages -> Contents \cup {NoContent}] /\ alloc' \subseteq Pages
  BY ContentsAssumption DEF DiskAfterAllocate, AllocPage, AllocateSucceeds, AllocateFails, HashInv, TypeOK
<1>2. CASE AllocBufFull /\ disk' = DiskAfterAllocate(p) /\ UNCHANGED touched
  BY <1>1, <1>2, FullKeeps DEF HashInv, TypeOK
<1>3. CASE AllocBufWriteFails /\ disk' = DiskAfterAllocate(p) /\ UNCHANGED touched
  BY <1>1, <1>3, LeaveKeeps DEF AllocBufWriteFails, HashInv, TypeOK
<1>4. CASE /\ ~Exhausted
           /\ SetFrame(p, pool[Victim])
           /\ disk' = WriteVictim(DiskAfterAllocate(p))
           /\ touched' = touched \cup {p}
  <2>1. pool[Victim] \in Contents /\ touched' \subseteq Pages
    BY <1>4, VictimFacts DEF HashInv, TypeOK
  <2> QED BY <1>1, <1>4, <2>1, SetKeeps, WriteVictimType
<1>5. CASE AllocateFails
  BY <1>5 DEF AllocateFails, HashInv, TypeOK, HashSound, UnusedIsClean, Status
<1> QED BY <1>2, <1>3, <1>4, <1>5 DEF AllocPage, AllocateSucceeds

\* unPinPage keeps them consistent.
LEMMA UnPinPageKeeps ==
  ASSUME HashInv, NEW p \in Pages, NEW d \in BOOLEAN, UnPinPage(p, d)
  PROVE  HashInv'
<1>1. CASE hashTable[p] = NoFrame
  BY <1>1 DEF UnPinPage, HashInv, TypeOK, HashSound, UnusedIsClean, Status
<1>2. CASE hashTable[p] # NoFrame
  <2>1. hashTable[p] \in valid /\ hashTable[p] \in Frames /\ pinCnt[hashTable[p]] \in Nat
    BY <1>2 DEF HashInv, TypeOK, HashSound
  <2>2. TypeOK'
    BY <1>2, <2>1 DEF UnPinPage, HashInv, TypeOK, Status
  <2>3. HashSound' /\ UnusedIsClean'
    BY <1>2, <2>1 DEF UnPinPage, HashInv, TypeOK, HashSound, UnusedIsClean
  <2> QED BY <2>2, <2>3 DEF HashInv
<1> QED BY <1>1, <1>2

\* A write through a pinned frame keeps them consistent.
LEMMA ModifyKeeps ==
  ASSUME HashInv, NEW i \in Frames, NEW c \in Contents, Modify(i, c)
  PROVE  HashInv'
<1>1. page[i] \in Pages
  BY DEF Modify, HashInv, TypeOK, UnusedIsClean
<1> QED BY <1>1 DEF Modify, HashInv, TypeOK, HashSound, UnusedIsClean, Status

\* Flushing the frames below n that are not refused keeps them consistent.
LEMMA FlushKeeps ==
  ASSUME HashInv, NEW f \in Files, NEW n \in Nat, FlushUpTo(f, n), status' \in Status,
         \A i \in Frames : i < n => ~Refused(i, f)
  PROVE  HashInv'
<1> DEFINE S == Flushable(f, n)
<1>1. S \subseteq valid /\ S \subseteq Frames
  BY DEF Flushable, HashInv, TypeOK
<1>2. \A i \in S : pinCnt[i] = 0
  BY <1>1 DEF Flushable, Refused, HashInv, TypeOK
<1> HIDE DEF S
<1>3. /\ disk' = WriteBack(S)
      /\ dirty' = dirty \ S
      /\ valid' = valid \ S
      /\ page' = [i \in Frames |-> IF i \in S THEN NoPage ELSE page[i]]
      /\ hashTable' = [p \in Pages |-> IF \E i \in S : page[i] = p THEN NoFrame ELSE hashTable[p]]
      /\ UNCHANGED <<pinCnt, refbit, pool, clockHand, alloc, touched>>
  BY DEF FlushUpTo, S
<1>4. TypeOK'
  BY <1>1, <1>3, WriteBackType DEF HashInv, TypeOK
<1>5. HashSound'
  BY <1>1, <1>3 DEF HashInv, TypeOK, HashSound
<1>6. UnusedIsClean'
  BY <1>1, <1>2, <1>3 DEF HashInv, TypeOK, UnusedIsClean
<1> QED BY <1>4, <1>5, <1>6 DEF HashInv

\* Whatever flushFile returns, it flushed the frames before some frame n, none
\* of which it refused.
LEMMA FlushFileIsPrefix ==
  ASSUME HashInv, NEW f \in Files, FlushFile(f)
  PROVE  \E n \in Nat : /\ FlushUpTo(f, n)
                        /\ status' \in Status
                        /\ \A i \in Frames : i < n => ~Refused(i, f)
<1>1. CASE (\A i \in Frames : ~Refused(i, f)) /\ FlushUpTo(f, NumBufs) /\ status' = "OK"
  BY <1>1, BufsAssumption DEF Status
<1>2. ASSUME NEW n \in Frames,
             \A i \in 0 .. (n - 1) : ~Refused(i, f),
             FlushUpTo(f, n),
             \/ Refused(n, f) /\ status' = IF n \in valid THEN "PAGEPINNED" ELSE "BADBUFFER"
             \/ status' = "UNIXERR"
      PROVE  /\ n \in Nat
             /\ status' \in Status
             /\ \A i \in Frames : i < n => ~Refused(i, f)
  BY <1>2, BufsAssumption DEF Status, Frames
<1> QED BY <1>1, <1>2 DEF FlushFile

\* flushFile keeps them consistent, wherever it stops.
LEMMA FlushFileKeeps ==
  ASSUME HashInv, NEW f \in Files, FlushFile(f)
  PROVE  HashInv'
BY FlushFileIsPrefix, FlushKeeps

\* disposePage keeps them consistent.
LEMMA DisposePageKeeps ==
  ASSUME HashInv, NEW p \in Pages, DisposePage(p)
  PROVE  HashInv'
<1>1. TypeOK'
  BY ContentsAssumption DEF DisposePage, HashInv, TypeOK, Status
<1>2. HashSound'
  BY DEF DisposePage, HashInv, TypeOK, HashSound
<1>3. UnusedIsClean'
  <2>1. CASE hashTable[p] = NoFrame
    <3>1. hashTable[p] \notin Frames
      BY <2>1, BufsAssumption DEF NoFrame, Frames
    <3>2. UNCHANGED <<page, pinCnt, dirty, valid>>
      BY <2>1, <3>1 DEF DisposePage, HashInv, TypeOK
    <3> QED BY <3>2 DEF HashInv, UnusedIsClean
  <2>2. CASE hashTable[p] # NoFrame
    BY <2>2 DEF DisposePage, HashInv, TypeOK, UnusedIsClean
  <2> QED BY <2>1, <2>2
<1> QED BY <1>1, <1>2, <1>3 DEF HashInv

\* The end of the manager and a new one keep them consistent.
LEMMA RestartKeeps ==
  ASSUME HashInv, Restart
  PROVE  HashInv'
<1>1. disk' \in [Pages -> Contents \cup {NoContent}]
  <2>1. PICK S \in IF IoFaults THEN SUBSET valid ELSE {valid} : disk' = WriteBack(S)
    BY DEF Restart
  <2>2. S \subseteq Frames
    BY <2>1 DEF HashInv, TypeOK
  <2> QED BY <2>1, <2>2, WriteBackType DEF HashInv, TypeOK
<1> QED BY <1>1, BufsAssumption, ContentsAssumption
        DEF Restart, HashInv, TypeOK, HashSound, UnusedIsClean, Status, Frames

\* HashInv holds initially and every step keeps it, failing I/O or not: a hash
\* entry always names the frame that holds the page.
THEOREM HashInvariant == Spec => [](TypeOK /\ HashSound /\ UnusedIsClean)
<1>1. Init => HashInv
  BY BufsAssumption, ContentsAssumption
     DEF Init, HashInv, TypeOK, HashSound, UnusedIsClean, Status, Frames
<1>2. HashInv /\ [Next]_vars => HashInv'
  <2> SUFFICES ASSUME HashInv, [Next]_vars PROVE HashInv'
    OBVIOUS
  <2>1. CASE UNCHANGED vars
    BY <2>1 DEF vars, HashInv, TypeOK, HashSound, UnusedIsClean
  <2>2. CASE Next
    BY <2>2, ReadPageKeeps, AllocPageKeeps, UnPinPageKeeps, ModifyKeeps, FlushFileKeeps,
       DisposePageKeeps, RestartKeeps DEF Next
  <2> QED BY <2>1, <2>2
<1>3. HashInv => TypeOK /\ HashSound /\ UnusedIsClean
  BY DEF HashInv
<1> QED BY <1>1, <1>2, <1>3, PTL DEF Spec

-----------------------------------------------------------------------------
(* Pinned frames.                                                          *)

FrameKept(i) == pinCnt[i] > 0 => i \in valid' /\ page'[i] = page[i]

\* The sweep, whatever its outcome, touches no pinned frame.
LEMMA AllocBufKeepsPinned ==
  ASSUME HashInv, NEW i \in Frames,
         \/ AllocBufFull
         \/ ~Exhausted /\ LeaveVictim
         \/ ~Exhausted /\ \E p \in Pages : \E c : SetFrame(p, c)
  PROVE  FrameKept(i)
BY VictimFacts
   DEF FrameKept, AllocBufFull, LeaveVictim, SetFrame, HashInv, TypeOK, UnusedIsClean

\* No sweep, flush, read or unpin takes a pinned frame from its page, failing
\* I/O or not (buf.C allocBuf, flushFile).
THEOREM PinnedFramesStay == Spec => PinnedFrameKept
<1> DEFINE Keep == \/ \E p \in Pages : DisposePage(p)
                   \/ Restart
                   \/ \A i \in Frames : pinCnt[i] > 0 => i \in valid' /\ page'[i] = page[i]
<1>1. ASSUME HashInv, [Next]_vars PROVE [Keep]_vars
  <2> SUFFICES ASSUME Next, ~(\E p \in Pages : DisposePage(p)), ~Restart, NEW i \in Frames
               PROVE  FrameKept(i)
    BY <1>1 DEF FrameKept
  <2>0. pinCnt[i] > 0 => i \in valid
    BY <1>1 DEF HashInv, TypeOK, UnusedIsClean
  <2>1. ASSUME NEW p \in Pages, ReadPage(p) PROVE FrameKept(i)
    BY <2>0, <2>1, <1>1, AllocBufKeepsPinned
       DEF ReadPage, ReadHit, ReadMiss, AllocBufWriteFails, FrameKept
  <2>2. ASSUME NEW p \in Pages, AllocPage(p) PROVE FrameKept(i)
    BY <2>0, <2>2, <1>1, AllocBufKeepsPinned
       DEF AllocPage, AllocateSucceeds, AllocateFails, AllocBufWriteFails, FrameKept
  <2>3. ASSUME NEW p \in Pages, NEW d \in BOOLEAN, UnPinPage(p, d) PROVE FrameKept(i)
    BY <2>0, <2>3 DEF UnPinPage, FrameKept
  <2>4. ASSUME NEW j \in Frames, NEW c \in Contents, Modify(j, c) PROVE FrameKept(i)
    BY <2>0, <2>4 DEF Modify, FrameKept
  <2>5. ASSUME NEW f \in Files, FlushFile(f) PROVE FrameKept(i)
    <3>1. PICK n \in Nat : FlushUpTo(f, n) /\ \A j \in Frames : j < n => ~Refused(j, f)
      BY <2>5, <1>1, FlushFileIsPrefix
    <3>2. pinCnt[i] > 0 => i \notin Flushable(f, n)
      BY <3>1 DEF Flushable, Refused
    <3> QED BY <2>0, <3>1, <3>2 DEF FlushUpTo, FrameKept
  <2> QED BY <2>1, <2>2, <2>3, <2>4, <2>5, ZenonT(30) DEF Next
<1>2. HashInv <=> TypeOK /\ HashSound /\ UnusedIsClean
  BY DEF HashInv
<1> QED BY <1>1, <1>2, HashInvariant, PTL DEF Spec, PinnedFrameKept

-----------------------------------------------------------------------------
(* With writes that succeed and callers that ask only for allocated pages, *)
(* the buffer manager loses nothing and implements BufferSpec.             *)

BufInv == HashInv /\ BufferedIsHashed /\ NoLostUpdate /\ BufferedIsAllocated

-----------------------------------------------------------------------------
(* What BufInv says about frames and about what a write back leaves.       *)

\* A frame given to a page starts with one pin.
LEMMA OneIsPositive ==
  1 > 0
OBVIOUS

\* No frame number is the mark of a page that hashes to none.
LEMMA FrameIsNotNone ==
  \A i \in Frames : i # NoFrame
BY BufsAssumption DEF Frames, NoFrame

\* Two frames in use hold different, allocated pages that are on disk.
LEMMA FramesDiffer ==
  ASSUME BufInv
  PROVE  /\ \A i \in valid : page[i] \in Pages /\ page[i] \in alloc /\ hashTable[page[i]] = i
         /\ \A i, j \in valid : page[i] = page[j] => i = j
         /\ valid \subseteq Frames
<1>1. \A i \in valid : i \in Frames /\ page[i] \in Pages /\ hashTable[page[i]] = i
  BY DEF BufInv, HashInv, TypeOK, UnusedIsClean, BufferedIsHashed
<1>2. \A i \in Frames : i # NoFrame
  BY FrameIsNotNone, Zenon
<1> QED BY <1>1, <1>2 DEF BufInv, BufferedIsAllocated

\* Evicting the victim writes its content to its page and no other.
LEMMA WriteVictimAt ==
  ASSUME BufInv, ~Exhausted, NEW d \in [Pages -> Contents \cup {NoContent}]
  PROVE  /\ Victim \in valid /\ Victim \in dirty => WriteVictim(d)[page[Victim]] = pool[Victim]
         /\ \A p \in Pages : Victim \notin dirty \/ page[Victim] # p => WriteVictim(d)[p] = d[p]
         /\ \A p \in Pages : d[p] # NoContent => WriteVictim(d)[p] # NoContent
BY VictimFacts, ContentsAssumption DEF WriteVictim, BufInv, HashInv, TypeOK, UnusedIsClean

\* Flushing a set of frames writes the dirty ones to their own pages.
LEMMA WriteBackAt ==
  ASSUME BufInv, NEW S, S \subseteq valid
  PROVE  /\ \A i \in S : WriteBack(S)[page[i]] = IF i \in dirty THEN pool[i] ELSE disk[page[i]]
         /\ \A p \in Pages : (\A i \in S : page[i] # p) => WriteBack(S)[p] = disk[p]
<1>1. ASSUME NEW i \in S
      PROVE  WriteBack(S)[page[i]] = IF i \in dirty THEN pool[i] ELSE disk[page[i]]
  <2> DEFINE w == {j \in S \cap dirty : page[j] = page[i]}
  <2>1. page[i] \in Pages
    BY FramesDiffer
  <2>2. w = IF i \in dirty THEN {i} ELSE {}
    BY FramesDiffer
  <2>3. WriteBack(S)[page[i]] =
          IF w = {} THEN disk[page[i]] ELSE pool[CHOOSE j \in w : \A k \in w : k <= j]
    BY <2>1, Zenon DEF WriteBack
  <2>4. i \in Int
    BY FramesDiffer, BufsAssumption DEF Frames
  <2>5. (CHOOSE j \in {i} : \A k \in {i} : k <= j) = i
    BY <2>4
  <2> HIDE DEF w
  <2>6. CASE i \in dirty
    BY <2>2, <2>3, <2>5, <2>6, Zenon
  <2>7. CASE i \notin dirty
    BY <2>2, <2>3, <2>7
  <2> QED BY <2>6, <2>7
<1>2. ASSUME NEW p \in Pages, \A i \in S : page[i] # p PROVE WriteBack(S)[p] = disk[p]
  BY <1>2 DEF WriteBack
<1> QED BY <1>1, <1>2

\* So a write back of unpinned frames leaves the disk with their contents, and
\* no page without one.
LEMMA WriteBackSaves ==
  ASSUME BufInv, NEW S, S \subseteq valid, \A i \in S : pinCnt[i] = 0 \/ page[i] \notin touched
  PROVE  /\ \A i \in S : WriteBack(S)[page[i]] = pool[i]
         /\ \A p \in Pages : (\A i \in S : page[i] # p) => WriteBack(S)[p] = disk[p]
         /\ \A p \in alloc : WriteBack(S)[p] # NoContent
<1>1. ASSUME NEW i \in S PROVE WriteBack(S)[page[i]] = pool[i]
  BY WriteBackAt DEF BufInv, NoLostUpdate
<1>2. ASSUME NEW p \in alloc PROVE WriteBack(S)[p] # NoContent
  <2>1. CASE \E i \in S : page[i] = p
    BY <1>1, <2>1, FramesDiffer, ContentsAssumption, SMTT(30) DEF BufInv, HashInv, TypeOK
  <2>2. CASE \A i \in S : page[i] # p
    BY <2>2, WriteBackAt, Zenon DEF BufInv, HashInv, TypeOK, BufferedIsAllocated
  <2> QED BY <2>1, <2>2, Zenon
<1> QED BY <1>1, <1>2, WriteBackAt, Zenon

-----------------------------------------------------------------------------
(* BufInv is inductive when IoFaults is FALSE.  HashInv' is HashInvariant's *)
(* business; one lemma per action shows the other three conjuncts.          *)

Rest == BufferedIsHashed /\ NoLostUpdate /\ BufferedIsAllocated

\* A sweep that gives up keeps the rest of the invariant.
LEMMA FullKeepsRest ==
  ASSUME BufInv, AllocBufFull, UNCHANGED touched, alloc \subseteq alloc',
         \A p \in alloc : disk'[p] = disk[p], \A p \in alloc' : disk'[p] # NoContent
  PROVE  Rest'
<1> USE FramesDiffer
<1> QED BY DEF Rest, AllocBufFull, BufInv, BufferedIsHashed, NoLostUpdate, BufferedIsAllocated

\* The victim's page is out, p is in, and the content given to p is the disk's
\* or its caller's to initialise.
LEMMA SetKeepsRest ==
  ASSUME BufInv, ~Exhausted, NEW p \in Pages, NEW c \in Contents, SetFrame(p, c),
         hashTable[p] = NoFrame,
         NEW d \in [Pages -> Contents \cup {NoContent}],
         disk' = WriteVictim(d),
         \A q \in alloc : d[q] = disk[q], d[p] # NoContent,
         alloc' = alloc \cup {p}, touched \subseteq touched',
         c = disk'[p] \/ p \in touched'
  PROVE  Rest'
<1> USE VictimFacts, HashAfterSweepFacts, FramesDiffer
<1> HashInv
  BY DEF BufInv
<1>0. HashAfterSweep[p] = NoFrame /\ \A i \in valid : page[i] # p
  <2>1. HashAfterSweep[p] = NoFrame
    BY Zenon
  <2>2. ASSUME NEW i \in valid, page[i] = p PROVE FALSE
    <3>1. i \in Frames /\ hashTable[p] = i
      BY <2>2, Zenon
    <3> QED BY <3>1, FrameIsNotNone, Zenon
  <2> QED BY <2>1, <2>2, Zenon
<1>1. BufferedIsHashed'
  <2> SUFFICES ASSUME NEW i \in valid' PROVE hashTable'[page'[i]] = i
    BY Zenon DEF BufferedIsHashed
  <2>1. CASE i = Victim
    BY <1>0, <2>1, ZenonT(30) DEF SetFrame, HashInv, TypeOK
  <2>2. CASE i # Victim
    <3>1. i \in valid /\ page'[i] = page[i] /\ page[i] # p
      BY <1>0, <2>2, Zenon DEF SetFrame, HashInv, TypeOK
    <3>2. HashAfterSweep[page[i]] = i
      BY <2>2, <3>1, ZenonT(30) DEF HashAfterSweep, HashInv, TypeOK
    <3> QED BY <1>0, <3>1, <3>2, Zenon DEF SetFrame
  <2> QED BY <2>1, <2>2
<1>2. NoLostUpdate'
  <2> SUFFICES ASSUME NEW i \in valid', pool'[i] # disk'[page'[i]]
               PROVE  i \in dirty' \/ (page'[i] \in touched' /\ pinCnt'[i] > 0)
    BY Zenon DEF NoLostUpdate
  <2>1. CASE i = Victim
    <3>1. page'[i] = p /\ pool'[i] = c /\ pinCnt'[i] = 1
      BY <2>1, Zenon DEF SetFrame, HashInv, TypeOK
    <3>2. p \in touched'
      BY <3>1, Zenon
    <3> QED BY <3>1, <3>2, OneIsPositive, Zenon
  <2>2. CASE i # Victim
    <3>1. /\ i \in valid /\ page'[i] = page[i] /\ page[i] # p
          /\ pool'[i] = pool[i] /\ pinCnt'[i] = pinCnt[i] /\ (i \in dirty => i \in dirty')
      BY <1>0, <2>2, ZenonT(30) DEF SetFrame, HashInv, TypeOK
    <3>2. Victim \notin dirty \/ page[Victim] # page[i]
      BY <2>2, <3>1, ZenonT(30) DEF HashInv, UnusedIsClean
    <3>3. disk'[page[i]] = disk[page[i]]
      <4>1. page[i] \in Pages /\ page[i] \in alloc
        BY <3>1, Zenon
      <4> QED BY <3>2, <4>1, WriteVictimAt, Zenon
    <3> QED BY <3>1, <3>3, Zenon DEF BufInv, NoLostUpdate
  <2> QED BY <2>1, <2>2
<1>3. BufferedIsAllocated'
  <2>1. \A q \in alloc' : d[q] # NoContent /\ q \in Pages
    BY Zenon DEF BufInv, BufferedIsAllocated, HashInv, TypeOK
  <2>2. \A q \in alloc' : disk'[q] # NoContent
    BY <2>1, WriteVictimAt, ZenonT(30)
  <2>3. \A q \in Pages : hashTable'[q] # NoFrame => q \in alloc \/ q = p
    BY <1>0, Zenon DEF SetFrame, BufInv, BufferedIsAllocated
  <2>4. alloc \subseteq alloc'
    OBVIOUS
  <2> QED BY <2>2, <2>3, <2>4, Zenon DEF BufferedIsAllocated
<1> QED BY <1>1, <1>2, <1>3 DEF Rest

\* readPage keeps the rest of the invariant.
LEMMA ReadPageKeepsRest ==
  ASSUME BufInv, IoFaults = FALSE, NEW p \in Pages, ReadPage(p)
  PROVE  Rest'
<1> HashInv
  BY DEF BufInv
<1>0. p \in alloc /\ disk[p] # NoContent
  BY Zenon DEF ReadPage, BufInv, BufferedIsAllocated
<1>1. CASE ReadHit(p)
  BY <1>1, FramesDiffer, SMTT(30) DEF ReadHit, Rest, BufInv, HashInv, TypeOK, HashSound,
     BufferedIsHashed, NoLostUpdate, BufferedIsAllocated
<1>2. CASE ReadMiss(p)
  <2>1. CASE AllocBufFull /\ UNCHANGED disk
    BY <1>2, <2>1, FullKeepsRest, Zenon DEF ReadMiss, BufInv, BufferedIsAllocated
  <2>2. CASE ~Exhausted /\ LeaveVictim /\ WriteVictim(disk)[p] = NoContent
    BY <1>0, <2>2, WriteVictimAt, Zenon DEF HashInv, TypeOK
  <2>3. CASE /\ ~Exhausted
             /\ SetFrame(p, WriteVictim(disk)[p])
             /\ disk' = WriteVictim(disk)
    <3>1. WriteVictim(disk)[p] \in Contents
      BY <1>0, <2>3, WriteVictimAt, WriteVictimType, SMTT(30) DEF HashInv, TypeOK
    <3> QED BY <1>0, <1>2, <2>3, <3>1, SetKeepsRest, Zenon DEF ReadMiss, HashInv, TypeOK
  <2> QED BY <1>2, <2>1, <2>2, <2>3, Zenon DEF ReadMiss, AllocBufWriteFails
<1> QED BY <1>1, <1>2 DEF ReadPage

\* allocPage keeps the rest of the invariant.
LEMMA AllocPageKeepsRest ==
  ASSUME BufInv, IoFaults = FALSE, NEW p \in Pages, AllocPage(p)
  PROVE  Rest'
<1> HashInv
  BY DEF BufInv
<1>1. /\ p \notin alloc /\ hashTable[p] = NoFrame /\ alloc' = alloc \cup {p}
      /\ DiskAfterAllocate(p) \in [Pages -> Contents \cup {NoContent}]
      /\ \A q \in alloc : DiskAfterAllocate(p)[q] = disk[q]
      /\ DiskAfterAllocate(p)[p] # NoContent
  BY ContentsAssumption, Zenon
     DEF AllocPage, AllocateSucceeds, AllocateFails, CanAllocate, DiskAfterAllocate, BufInv, HashInv, TypeOK, BufferedIsAllocated
<1>2. CASE AllocBufFull /\ disk' = DiskAfterAllocate(p) /\ UNCHANGED touched
  <2>1. \A q \in alloc' : disk'[q] # NoContent
    BY <1>1, <1>2, Zenon DEF BufInv, BufferedIsAllocated
  <2> QED BY <1>1, <1>2, <2>1, FullKeepsRest, Zenon
<1>3. CASE /\ ~Exhausted
           /\ SetFrame(p, pool[Victim])
           /\ disk' = WriteVictim(DiskAfterAllocate(p))
           /\ touched' = touched \cup {p}
  <2>1. pool[Victim] \in Contents
    BY <1>3, VictimFacts DEF HashInv, TypeOK
  <2> QED BY <1>1, <1>3, <2>1, SetKeepsRest, Zenon
<1> QED BY <1>2, <1>3, Zenon DEF AllocPage, AllocateSucceeds, AllocateFails, AllocBufWriteFails

\* unPinPage keeps the rest of the invariant.
LEMMA UnPinPageKeepsRest ==
  ASSUME BufInv, NEW p \in Pages, NEW d \in BOOLEAN, UnPinPage(p, d)
  PROVE  Rest'
<1> HashInv
  BY DEF BufInv
<1>1. BufferedIsHashed' /\ BufferedIsAllocated'
  BY DEF UnPinPage, BufInv, BufferedIsHashed, BufferedIsAllocated
<1>2. NoLostUpdate'
  <2> SUFFICES ASSUME NEW i \in valid, pool[i] # disk[page[i]], i \notin dirty'
               PROVE  page[i] \in touched' /\ pinCnt'[i] > 0
    BY Zenon DEF UnPinPage, NoLostUpdate
  <2>1. i \notin dirty /\ page[i] \in touched /\ pinCnt[i] > 0
    BY DEF UnPinPage, BufInv, NoLostUpdate
  <2>2. CASE i = hashTable[p]
    <3>1. i # NoFrame /\ page[i] = p /\ i \in Frames /\ pinCnt[i] \in Nat
      BY <2>2, FramesDiffer, FrameIsNotNone, ZenonT(30) DEF HashInv, HashSound, TypeOK
    <3>2. d = FALSE
      BY <2>2, <3>1, Zenon DEF UnPinPage
    <3>3. touched' = touched /\ pinCnt' = [pinCnt EXCEPT ![i] = @ - 1] /\ pinCnt[i] > 1
      BY <2>1, <2>2, <3>1, <3>2 DEF UnPinPage
    <3> QED BY <2>1, <3>1, <3>3, SMTT(30) DEF HashInv, TypeOK
  <2>3. CASE i # hashTable[p]
    <3>1. page[i] # p
      BY <2>3, FramesDiffer, Zenon
    <3>2. page[i] \in touched'
      BY <2>1, <3>1, Zenon DEF UnPinPage
    <3>3. pinCnt'[i] = pinCnt[i]
      BY <2>3, FramesDiffer, Zenon DEF UnPinPage, HashInv, TypeOK
    <3> QED BY <2>1, <3>2, <3>3
  <2> QED BY <2>2, <2>3, Zenon
<1> QED BY <1>1, <1>2 DEF Rest

\* A write through a pinned frame keeps the rest of the invariant.
LEMMA ModifyKeepsRest ==
  ASSUME BufInv, NEW i \in Frames, NEW c \in Contents, Modify(i, c)
  PROVE  Rest'
BY FramesDiffer DEF Modify, Rest, BufInv, HashInv, TypeOK, UnusedIsClean,
   BufferedIsHashed, NoLostUpdate, BufferedIsAllocated

\* flushFile keeps the rest of the invariant, wherever it stops.
LEMMA FlushFileKeepsRest ==
  ASSUME BufInv, NEW f \in Files, FlushFile(f)
  PROVE  Rest'
<1> HashInv
  BY DEF BufInv
<1>1. PICK n \in Nat : FlushUpTo(f, n) /\ \A i \in Frames : i < n => ~Refused(i, f)
  BY FlushFileIsPrefix
<1> DEFINE S == Flushable(f, n)
<1>2. S \subseteq valid /\ \A i \in S : pinCnt[i] = 0
  BY <1>1, SMTT(30) DEF Flushable, Refused, HashInv, TypeOK
<1> HIDE DEF S
<1>3. /\ disk' = WriteBack(S)
      /\ dirty' = dirty \ S
      /\ valid' = valid \ S
      /\ page' = [i \in Frames |-> IF i \in S THEN NoPage ELSE page[i]]
      /\ hashTable' = [p \in Pages |-> IF \E i \in S : page[i] = p THEN NoFrame ELSE hashTable[p]]
      /\ UNCHANGED <<pinCnt, refbit, pool, clockHand, alloc, touched>>
  BY <1>1, Zenon DEF FlushUpTo, S
<1>4. \A i \in valid' : /\ i \in valid /\ page'[i] = page[i]
                        /\ \A j \in S : page[j] # page[i]
                        /\ disk'[page[i]] = disk[page[i]]
  BY <1>2, <1>3, FramesDiffer, WriteBackSaves, SMTT(30)
<1>5. BufferedIsHashed'
  BY <1>3, <1>4, FramesDiffer, SMTT(30) DEF BufferedIsHashed
<1>6. NoLostUpdate'
  BY <1>3, <1>4, SMTT(30) DEF BufInv, NoLostUpdate
<1>7. BufferedIsAllocated'
  BY <1>2, <1>3, WriteBackSaves DEF BufInv, BufferedIsAllocated
<1> QED BY <1>5, <1>6, <1>7 DEF Rest

\* disposePage keeps the rest of the invariant.
LEMMA DisposePageKeepsRest ==
  ASSUME BufInv, NEW p \in Pages, DisposePage(p)
  PROVE  Rest'
<1> HashInv
  BY DEF BufInv
<1>1. \A i \in valid' : /\ i \in valid /\ page[i] # p /\ page'[i] = page[i]
                        /\ pinCnt'[i] = pinCnt[i] /\ disk'[page[i]] = disk[page[i]]
                        /\ (i \in dirty => i \in dirty')
                        /\ (page[i] \in touched => page[i] \in touched')
  BY FramesDiffer, ZenonT(30) DEF DisposePage, HashInv, TypeOK
<1>2. BufferedIsHashed'
  BY <1>1, FramesDiffer, SMTT(30) DEF DisposePage, BufferedIsHashed
<1>3. NoLostUpdate'
  BY <1>1, ZenonT(30) DEF DisposePage, BufInv, NoLostUpdate
<1>4. BufferedIsAllocated'
  BY ContentsAssumption DEF DisposePage, BufInv, BufferedIsAllocated, HashInv, TypeOK
<1> QED BY <1>2, <1>3, <1>4, Zenon DEF Rest

\* The end of the manager and a new one keep the rest of the invariant.
LEMMA RestartKeepsRest ==
  ASSUME IoFaults = FALSE, BufInv, Restart
  PROVE  Rest'
<1>1. \A p \in alloc : WriteBack(valid)[p] # NoContent
  BY WriteBackSaves DEF Restart
<1> QED BY <1>1 DEF Restart, Rest, BufferedIsHashed, NoLostUpdate, BufferedIsAllocated

\* One step of the manager keeps BufInv.
LEMMA BufInvStep ==
  ASSUME IoFaults = FALSE, BufInv, HashInv', [Next]_vars
  PROVE  BufInv'
<1>1. CASE UNCHANGED vars
  BY <1>1 DEF vars, BufInv, HashInv, BufferedIsHashed, NoLostUpdate, BufferedIsAllocated
<1>2. CASE Next
  <2>1. Rest'
    BY <1>2, ReadPageKeepsRest, AllocPageKeepsRest, UnPinPageKeepsRest, ModifyKeepsRest,
       FlushFileKeepsRest, DisposePageKeepsRest, RestartKeepsRest, Zenon DEF Next
  <2> QED BY <2>1 DEF Rest, BufInv
<1> QED BY <1>1, <1>2

\* When writes succeed and callers ask only for allocated pages, no change that
\* was unpinned dirty is ever lost and every page of the pool is found through
\* the hash table, in one frame.
THEOREM NothingLost ==
  ASSUME IoFaults = FALSE
  PROVE  Spec => [](BufferedIsHashed /\ NoLostUpdate /\ BufferedIsAllocated)
<1>1. Init => Rest
  BY DEF Init, Rest, BufferedIsHashed, NoLostUpdate, BufferedIsAllocated
<1>2. HashInv <=> TypeOK /\ HashSound /\ UnusedIsClean
  BY DEF HashInv
<1>3. BufInv <=> HashInv /\ Rest
  BY DEF BufInv, Rest
<1>4. BufInv /\ HashInv' /\ [Next]_vars => BufInv'
  BY BufInvStep, Zenon
<1>5. Rest <=> BufferedIsHashed /\ NoLostUpdate /\ BufferedIsAllocated
  BY DEF Rest
<1> QED BY <1>1, <1>2, <1>3, <1>4, <1>5, HashInvariant, PTL DEF Spec

\* No frame of the pool is out of the hash table's sight: readPage of a page that
\* is in the pool finds it there and does not read a second copy.
THEOREM NoSecondCopy ==
  ASSUME IoFaults = FALSE
  PROVE  Spec => []BufferedIsHashed
BY NothingLost, PTL

-----------------------------------------------------------------------------
(* The pool implements BufferSpec.                                         *)

\* As many pages are pinned as there are frames exactly when the sweep gives
\* up: pinned frames and pinned pages correspond one to one.
LEMMA FullIsExhausted ==
  ASSUME BufInv
  PROVE  Buffer!Full <=> Exhausted
<1> HashInv
  BY DEF BufInv
<1> DEFINE PF == {i \in Frames : pinCnt[i] > 0}
           PP == {p \in Pages : PagePins[p] > 0}
           pg == [i \in PF |-> page[i]]
<1>1. PF \subseteq valid /\ PF \subseteq Frames
  BY DEF HashInv, TypeOK, UnusedIsClean
<1>2. pg \in Bijection(PF, PP)
  <2>1. pg \in [PF -> PP]
    <3> SUFFICES ASSUME NEW i \in PF PROVE page[i] \in PP
      OBVIOUS
    <3>1. page[i] \in Pages /\ hashTable[page[i]] = i /\ i # NoFrame
      BY <1>1, FramesDiffer, BufsAssumption DEF Frames, NoFrame
    <3> QED BY <3>1 DEF PagePins
  <2>2. \A i, j \in PF : pg[i] = pg[j] => i = j
    BY <1>1, FramesDiffer
  <2>3. ASSUME NEW p \in PP PROVE \E i \in PF : pg[i] = p
    <3>1. hashTable[p] # NoFrame /\ pinCnt[hashTable[p]] > 0
      BY DEF PagePins
    <3>2. hashTable[p] \in PF /\ page[hashTable[p]] = p
      BY <3>1 DEF HashInv, HashSound, TypeOK
    <3> QED BY <3>2
  <2> HIDE DEF PF, PP, pg
  <2> QED BY <2>1, <2>2, <2>3 DEF Bijection, Injection, IsInjective, Surjection
<1>3. IsFiniteSet(Frames) /\ Cardinality(Frames) = NumBufs
  BY FS_Interval, BufsAssumption DEF Frames
<1>4. IsFiniteSet(PF) /\ (Cardinality(PF) = NumBufs <=> PF = Frames)
  BY <1>1, <1>3, FS_Subset, Zenon
<1>5. Cardinality(PP) = Cardinality(PF)
  BY <1>2, <1>4, FS_Bijection DEF ExistsBijection
<1>6. Exhausted <=> PF = Frames
  BY <1>1, ExhaustedIsPinned DEF HashInv
<1>7. Buffer!Full <=> Cardinality(PP) = NumBufs
  <2>1. Buffer!Pinned = PP
    BY DEF Buffer!Pinned
  <2> QED BY <2>1 DEF Buffer!Full, Buffer!Cardinality, Cardinality
<1> HIDE DEF PF, PP, pg
<1> QED BY <1>4, <1>5, <1>6, <1>7

\* An unpinned page in the pool means a frame the sweep can take.
LEMMA UnpinnedHitNotFull ==
  ASSUME BufInv, NEW p \in Pages, hashTable[p] # NoFrame, pinCnt[hashTable[p]] = 0
  PROVE  ~Buffer!Full
<1>1. hashTable[p] \in Frames /\ TypeOK
  BY Zenon DEF BufInv, HashInv, TypeOK
<1>2. ~(pinCnt[hashTable[p]] > 0)
  OBVIOUS
<1> QED BY <1>1, <1>2, FullIsExhausted, ExhaustedIsPinned, Zenon

\* Giving the victim's frame to p shows on no other page.
LEMMA EvictionInvisible ==
  ASSUME BufInv, ~Exhausted, NEW p \in Pages, NEW c \in Contents, SetFrame(p, c),
         hashTable[p] = NoFrame,
         NEW d \in [Pages -> Contents \cup {NoContent}], disk' = WriteVictim(d),
         NEW q \in Pages, q # p, d[q] = disk[q], q \in alloc' <=> q \in alloc
  PROVE  PageContent'[q] = PageContent[q] /\ PagePins'[q] = PagePins[q]
<1> HashInv
  BY ZenonT(30) DEF BufInv
<1> USE VictimFacts, HashAfterSweepFacts
<1>0. hashTable'[q] = HashAfterSweep[q]
  BY Zenon DEF SetFrame
<1>1. CASE Victim \in valid /\ page[Victim] = q
  <2>1. hashTable[q] = Victim /\ hashTable'[q] = NoFrame /\ Victim # NoFrame
    BY <1>0, <1>1, FramesDiffer, FrameIsNotNone, ZenonT(30) DEF HashAfterSweep, HashInv, TypeOK
  <2>2. disk'[q] = pool[Victim]
    <3>1. Victim \in dirty => disk'[q] = pool[Victim]
      BY <1>1, WriteVictimAt, Zenon
    <3>2. Victim \notin dirty => disk'[q] = disk[q]
      BY WriteVictimAt, Zenon
    <3>3. ~(pinCnt[Victim] > 0)
      BY VictimFacts
    <3>4. Victim \notin dirty => pool[Victim] = disk[q]
      BY <1>1, <3>3, Zenon DEF BufInv, NoLostUpdate
    <3> QED BY <3>1, <3>2, <3>4, Zenon
  <2> QED BY <2>1, <2>2, Zenon DEF PageContent, PagePins
<1>2. CASE ~(Victim \in valid /\ page[Victim] = q)
  <2>1. HashAfterSweep[q] = hashTable[q]
    BY <1>2, Zenon DEF HashAfterSweep, HashInv, TypeOK
  <2>2. disk'[q] = disk[q]
    BY <1>2, WriteVictimAt, ZenonT(30) DEF HashInv, UnusedIsClean
  <2>3. hashTable[q] # NoFrame => /\ pool'[hashTable[q]] = pool[hashTable[q]]
                                  /\ pinCnt'[hashTable[q]] = pinCnt[hashTable[q]]
    BY <2>1, Zenon DEF SetFrame, HashInv, TypeOK
  <2> QED BY <1>0, <2>1, <2>2, <2>3, ZenonT(30) DEF PageContent, PagePins
<1> QED BY <1>1, <1>2, Zenon

\* The refinement mapping is a pair of functions on the pages.
LEMMA MappingShape ==
  /\ PageContent = [p \in Pages |-> PageContent[p]] /\ PagePins = [p \in Pages |-> PagePins[p]]
  /\ PageContent' = [p \in Pages |-> PageContent'[p]] /\ PagePins' = [p \in Pages |-> PagePins'[p]]
BY ZenonT(30) DEF PageContent, PagePins

\* A sweep that gave up changes no content and no pin.
LEMMA FullInvisible ==
  ASSUME BufInv, AllocBufFull, NEW q \in Pages, disk'[q] = disk[q], q \in alloc' <=> q \in alloc
  PROVE  PageContent'[q] = PageContent[q] /\ PagePins'[q] = PagePins[q]
BY ZenonT(30) DEF AllocBufFull, PageContent, PagePins

\* A page that is in no frame is not the one evicted.
LEMMA UnhashedNotVictim ==
  ASSUME BufInv, ~Exhausted, NEW p \in Pages, hashTable[p] = NoFrame
  PROVE  Victim \notin dirty \/ page[Victim] # p
<1>1. dirty \subseteq valid
  BY Zenon DEF BufInv, HashInv, UnusedIsClean
<1> QED BY <1>1, FrameIsNotNone, FramesDiffer, ZenonT(30)

\* readPage is a read of the abstract buffer.
LEMMA ReadRefines ==
  ASSUME BufInv, IoFaults = FALSE, NEW p \in Pages, ReadPage(p)
  PROVE  Buffer!Read(p)
<1> HashInv
  BY DEF BufInv
<1>0. p \in alloc /\ disk[p] # NoContent /\ alloc' = alloc
  BY Zenon DEF ReadPage, ReadHit, ReadMiss, BufInv, BufferedIsAllocated
<1>1. CASE ReadHit(p)
  <2>1. hashTable[p] \in Frames /\ pinCnt[hashTable[p]] \in Nat
    BY <1>1, Zenon DEF ReadHit, HashInv, TypeOK
  <2>2. PageContent' = PageContent
    BY <1>1, Zenon DEF ReadHit, PageContent
  <2>3. \A q \in Pages : q # p /\ hashTable[q] # NoFrame => hashTable[q] # hashTable[p]
    BY <1>1, Zenon DEF ReadHit, HashInv, HashSound
  <2>4. \A q \in Pages : PagePins'[q] = IF q = p THEN PagePins[p] + 1 ELSE PagePins[q]
    BY <1>1, <2>1, <2>3 DEF ReadHit, PagePins, HashInv, TypeOK
  <2>5. PagePins' = [PagePins EXCEPT ![p] = @ + 1]
    BY <2>4, MappingShape, Zenon
  <2>6. p \in Buffer!Pinned \/ ~Buffer!Full
    BY <1>1, <2>1, UnpinnedHitNotFull, SMTT(30) DEF ReadHit, Buffer!Pinned, PagePins
  <2> QED BY <1>0, <1>1, <2>2, <2>5, <2>6, Zenon DEF ReadHit, Buffer!Read
<1>2. CASE ReadMiss(p)
  <2>0. PagePins[p] = 0 /\ p \notin Buffer!Pinned
    BY <1>2 DEF ReadMiss, PagePins, Buffer!Pinned
  <2>1. CASE AllocBufFull /\ UNCHANGED disk
    <3>1. PageContent' = PageContent /\ PagePins' = PagePins
      BY <1>0, <2>1, FullInvisible, MappingShape
    <3>2. Buffer!Full
      BY <2>1, FullIsExhausted, Zenon DEF AllocBufFull
    <3> QED BY <1>0, <2>0, <2>1, <3>1, <3>2, ZenonT(30) DEF AllocBufFull, Buffer!Read
  <2>2. CASE ~Exhausted /\ LeaveVictim /\ WriteVictim(disk)[p] = NoContent
    BY <1>0, <2>2, WriteVictimAt, Zenon DEF HashInv, TypeOK
  <2>3. CASE /\ ~Exhausted
             /\ SetFrame(p, WriteVictim(disk)[p])
             /\ disk' = WriteVictim(disk)
    <3>0. disk \in [Pages -> Contents \cup {NoContent}] /\ hashTable[p] = NoFrame
      BY <1>2, Zenon DEF ReadMiss, HashInv, TypeOK
    <3>1. WriteVictim(disk)[p] = disk[p] /\ disk[p] \in Contents
      <4>1. Victim \notin dirty \/ page[Victim] # p
        BY <2>3, <3>0, UnhashedNotVictim, Zenon
      <4>2. WriteVictim(disk)[p] = disk[p]
        BY <2>3, <3>0, <4>1, WriteVictimAt, Zenon
      <4> QED BY <1>0, <3>0, <4>2, Zenon
    <3>2. \A q \in Pages : q # p => PageContent'[q] = PageContent[q] /\ PagePins'[q] = PagePins[q]
      BY <1>0, <2>3, <3>0, <3>1, EvictionInvisible, Zenon
    <3>3. hashTable'[p] = Victim /\ Victim \in Frames /\ Victim # NoFrame /\ status' = "OK"
      BY <2>3, <3>0, VictimFacts, HashAfterSweepFacts, FrameIsNotNone, ZenonT(30)
         DEF SetFrame
    <3>4. PageContent'[p] = PageContent[p] /\ PagePins'[p] = PagePins[p] + 1
      BY <1>0, <2>0, <2>3, <3>0, <3>1, <3>3, SMTT(30) DEF SetFrame, PageContent, PagePins, HashInv, TypeOK
    <3>5. PageContent' = PageContent /\ PagePins' = [PagePins EXCEPT ![p] = @ + 1]
      BY <3>2, <3>4, MappingShape
    <3>6. ~Buffer!Full
      BY <2>3, FullIsExhausted
    <3> QED BY <1>0, <3>3, <3>5, <3>6, Zenon DEF Buffer!Read
  <2> QED BY <1>2, <2>1, <2>2, <2>3, Zenon DEF ReadMiss, AllocBufWriteFails
<1> QED BY <1>1, <1>2, Zenon DEF ReadPage

\* allocPage is an allocation of the abstract buffer.
LEMMA AllocRefines ==
  ASSUME BufInv, IoFaults = FALSE, NEW p \in Pages, AllocPage(p)
  PROVE  Buffer!Alloc(p)
<1> HashInv
  BY DEF BufInv
<1>0. p \notin alloc /\ alloc' = alloc \cup {p} /\ hashTable[p] = NoFrame
  BY DEF AllocPage, AllocateSucceeds, AllocateFails, CanAllocate, BufInv, BufferedIsAllocated
<1> DEFINE d == DiskAfterAllocate(p)
<1>1. /\ d \in [Pages -> Contents \cup {NoContent}]
      /\ d[p] \in Contents
      /\ \A q \in Pages : q # p => d[q] = disk[q]
  BY ContentsAssumption, ZenonT(30) DEF DiskAfterAllocate, HashInv, TypeOK
<1> HIDE DEF d
<1>2. CASE AllocBufFull /\ disk' = d
  <2>1. \A q \in Pages : q # p => PageContent'[q] = PageContent[q] /\ PagePins'[q] = PagePins[q]
    BY <1>0, <1>1, <1>2, FullInvisible
  <2>2. PageContent'[p] = d[p] /\ PagePins'[p] = PagePins[p]
    BY <1>0, <1>2 DEF AllocBufFull, PageContent, PagePins
  <2>3. PageContent' = [PageContent EXCEPT ![p] = d[p]] /\ PagePins' = PagePins
    BY <2>1, <2>2, MappingShape
  <2>4. Buffer!Full
    BY <1>2, FullIsExhausted, Zenon DEF AllocBufFull
  <2> QED BY <1>0, <1>1, <1>2, <2>3, <2>4, ZenonT(30) DEF AllocBufFull, Buffer!Alloc
<1>3. CASE ~Exhausted /\ SetFrame(p, pool[Victim]) /\ disk' = WriteVictim(d)
  <2>1. Victim \in Frames /\ Victim # NoFrame /\ pool[Victim] \in Contents
    BY <1>3, VictimFacts, FrameIsNotNone, ZenonT(30) DEF HashInv, TypeOK
  <2>2. \A q \in Pages : q # p => PageContent'[q] = PageContent[q] /\ PagePins'[q] = PagePins[q]
    BY <1>0, <1>1, <1>3, <2>1, EvictionInvisible, ZenonT(30)
  <2>3. hashTable'[p] = Victim /\ status' = "OK"
    BY <1>0, <1>3, HashAfterSweepFacts, Zenon DEF SetFrame
  <2>4. PageContent'[p] = pool[Victim] /\ PagePins'[p] = 1
    BY <1>0, <1>3, <2>1, <2>3, Zenon DEF SetFrame, PageContent, PagePins, HashInv, TypeOK
  <2>5. PageContent' = [PageContent EXCEPT ![p] = pool[Victim]] /\ PagePins' = [PagePins EXCEPT ![p] = 1]
    BY <2>2, <2>4, MappingShape
  <2>6. ~Buffer!Full
    BY <1>3, FullIsExhausted
  <2> QED BY <1>0, <2>1, <2>3, <2>5, <2>6, Zenon DEF Buffer!Alloc
<1> QED BY <1>2, <1>3, Zenon DEF AllocPage, AllocateSucceeds, AllocateFails, AllocBufWriteFails, d

\* unPinPage is an unpin of the abstract buffer.
LEMMA UnPinRefines ==
  ASSUME BufInv, NEW p \in Pages, NEW d \in BOOLEAN, UnPinPage(p, d)
  PROVE  Buffer!UnPin(p)
<1> HashInv
  BY DEF BufInv
<1>1. PageContent' = PageContent /\ alloc' = alloc
  BY Zenon DEF UnPinPage, PageContent
<1>2. CASE hashTable[p] = NoFrame
  BY <1>1, <1>2, SMTT(30) DEF UnPinPage, Buffer!UnPin, Buffer!Pinned, PagePins
<1>3. CASE hashTable[p] # NoFrame
  <2>1. hashTable[p] \in Frames /\ pinCnt[hashTable[p]] \in Nat /\ PagePins[p] = pinCnt[hashTable[p]]
    BY <1>3, Zenon DEF HashInv, TypeOK, PagePins
  <2>2. CASE pinCnt[hashTable[p]] = 0
    BY <1>1, <1>3, <2>1, <2>2, SMTT(30) DEF UnPinPage, Buffer!UnPin, Buffer!Pinned, PagePins
  <2>3. CASE pinCnt[hashTable[p]] > 0
    <3>1. \A q \in Pages : q # p /\ hashTable[q] # NoFrame => hashTable[q] # hashTable[p]
      BY <1>3, Zenon DEF HashInv, HashSound
    <3>2. \A q \in Pages : PagePins'[q] = IF q = p THEN PagePins[p] - 1 ELSE PagePins[q]
      BY <1>3, <2>1, <2>3, <3>1, SMTT(30) DEF UnPinPage, PagePins, HashInv, TypeOK
    <3>3. PagePins' = [PagePins EXCEPT ![p] = @ - 1]
      BY <3>2, MappingShape, Zenon
    <3>4. p \in Buffer!Pinned /\ status' = "OK"
      BY <1>3, <2>1, <2>3, SMTT(30) DEF UnPinPage, Buffer!Pinned
    <3> QED BY <1>1, <3>3, <3>4, Zenon DEF Buffer!UnPin
  <2> QED BY <2>1, <2>2, <2>3, SMTT(30)
<1> QED BY <1>2, <1>3, Zenon

\* A write through a pinned frame is a write of the abstract buffer.
LEMMA ModifyRefines ==
  ASSUME BufInv, NEW i \in Frames, NEW c \in Contents, Modify(i, c)
  PROVE  page[i] \in Pages /\ Buffer!Write(page[i], c)
<1> HashInv
  BY Zenon DEF BufInv
<1>1. i \in valid /\ page[i] \in Pages /\ hashTable[page[i]] = i /\ page[i] \in alloc /\ i # NoFrame
  <2>1. i \in valid
    BY DEF Modify, HashInv, UnusedIsClean
  <2> QED BY <2>1, FramesDiffer, FrameIsNotNone, Zenon
<1>2. \A q \in Pages : q # page[i] => hashTable[q] # i
  BY <1>1, Zenon DEF HashInv, HashSound
<1>3. \A q \in Pages : PageContent'[q] = IF q = page[i] THEN c ELSE PageContent[q]
  BY <1>1, <1>2 DEF Modify, PageContent, HashInv, TypeOK
<1>4. PageContent' = [PageContent EXCEPT ![page[i]] = c]
  BY <1>3, MappingShape
<1> QED BY <1>1, <1>4 DEF Modify, Buffer!Write, Buffer!Pinned, PagePins

\* flushFile is invisible but for its status, PAGEPINNED exactly when a page of
\* the file is pinned.
LEMMA FlushRefines ==
  ASSUME BufInv, IoFaults = FALSE, NEW f \in Files, FlushFile(f)
  PROVE  Buffer!Flush(f)
<1> HashInv
  BY DEF BufInv
<1>1. PICK n \in Nat : FlushUpTo(f, n) /\ \A i \in Frames : i < n => ~Refused(i, f)
  BY FlushFileIsPrefix
<1> DEFINE S == Flushable(f, n)
<1>2. S \subseteq valid /\ \A i \in S : pinCnt[i] = 0
  BY <1>1, SMTT(30) DEF Flushable, Refused, HashInv, TypeOK
<1> HIDE DEF S
<1>3. /\ disk' = WriteBack(S)
      /\ hashTable' = [p \in Pages |-> IF \E i \in S : page[i] = p THEN NoFrame ELSE hashTable[p]]
      /\ UNCHANGED <<pinCnt, pool, alloc>>
  BY <1>1 DEF FlushUpTo, S
<1>4. ASSUME NEW q \in Pages
      PROVE  PageContent'[q] = PageContent[q] /\ PagePins'[q] = PagePins[q]
  <2>1. CASE \E i \in S : page[i] = q
    <3>1. PICK i \in S : page[i] = q
      BY <2>1, Zenon
    <3>2. i \in valid /\ hashTable[q] = i /\ i \in Frames /\ pinCnt[i] = 0
      BY <1>2, <3>1, FramesDiffer
    <3>3. i # NoFrame
      BY <3>2, BufsAssumption DEF Frames, NoFrame
    <3>4. hashTable'[q] = NoFrame
      BY <1>3, <2>1, Zenon
    <3>5. disk'[q] = pool[i]
      BY <1>2, <1>3, <3>1, WriteBackSaves, Zenon
    <3> QED BY <1>3, <3>2, <3>3, <3>4, <3>5 DEF PageContent, PagePins
  <2>2. CASE \A i \in S : page[i] # q
    <3>1. hashTable'[q] = hashTable[q] /\ disk'[q] = disk[q]
      BY <1>2, <1>3, <2>2, WriteBackSaves
    <3> QED BY <1>3, <3>1, Zenon DEF PageContent, PagePins
  <2> QED BY <2>1, <2>2, ZenonT(30)
<1>5. PageContent' = PageContent /\ PagePins' = PagePins
  BY <1>4, MappingShape
<1>6. ASSUME NEW i \in Frames
      PROVE  Refused(i, f) <=> i \in valid /\ pinCnt[i] > 0 /\ page[i][1] = f
  BY NoPageAssumption DEF Refused, OfFile, HashInv, TypeOK, UnusedIsClean
<1>7. (\E p \in Buffer!Pinned : p[1] = f) <=> \E i \in Frames : Refused(i, f)
  <2>1. ASSUME NEW p \in Buffer!Pinned, p[1] = f PROVE \E i \in Frames : Refused(i, f)
    <3>1. p \in Pages /\ hashTable[p] # NoFrame /\ pinCnt[hashTable[p]] > 0
      BY DEF Buffer!Pinned, PagePins
    <3>2. hashTable[p] \in Frames /\ hashTable[p] \in valid /\ page[hashTable[p]] = p
      BY <3>1 DEF HashInv, HashSound, TypeOK
    <3> QED BY <1>6, <2>1, <3>1, <3>2
  <2>2. ASSUME NEW i \in Frames, Refused(i, f) PROVE \E p \in Buffer!Pinned : p[1] = f
    <3>1. i \in valid /\ pinCnt[i] > 0 /\ page[i][1] = f
      BY <1>6, <2>2
    <3>2. page[i] \in Pages /\ hashTable[page[i]] = i /\ i # NoFrame
      BY <3>1, FramesDiffer, FrameIsNotNone, ZenonT(30)
    <3>3. page[i] \in Buffer!Pinned
      BY <3>1, <3>2, Zenon DEF Buffer!Pinned, PagePins
    <3> QED BY <3>1, <3>3
  <2> QED BY <2>1, <2>2, ZenonT(30)
<1>8. status' = IF \E i \in Frames : Refused(i, f) THEN "PAGEPINNED" ELSE "OK"
  <2>1. CASE (\A i \in Frames : ~Refused(i, f)) /\ status' = "OK"
    BY <2>1
  <2>2. ASSUME NEW m \in Frames, Refused(m, f), status' = IF m \in valid THEN "PAGEPINNED" ELSE "BADBUFFER"
        PROVE  status' = "PAGEPINNED"
    BY <1>6, <2>2, Zenon
  <2> QED BY <2>1, <2>2 DEF FlushFile
<1>9. alloc' = alloc
  BY <1>3, Zenon
<1> QED BY <1>5, <1>7, <1>8, <1>9, Zenon DEF Buffer!Flush

\* disposePage is a disposal of the abstract buffer.
LEMMA DisposeRefines ==
  ASSUME IoFaults = FALSE, BufInv, NEW p \in Pages, DisposePage(p)
  PROVE  Buffer!Dispose(p)
<1> HashInv
  BY Zenon DEF BufInv
<1>0. p \in alloc /\ hashTable'[p] = NoFrame /\ disk[p] \in Contents
  BY Zenon DEF DisposePage, HashInv, TypeOK, BufInv, BufferedIsAllocated
<1>1. \A q \in Pages : q # p => PageContent'[q] = PageContent[q] /\ PagePins'[q] = PagePins[q]
  <2> SUFFICES ASSUME NEW q \in Pages, q # p
               PROVE  PageContent'[q] = PageContent[q] /\ PagePins'[q] = PagePins[q]
    BY Zenon
  <2>1. hashTable'[q] = hashTable[q] /\ disk'[q] = disk[q] /\ (q \in alloc' <=> q \in alloc) /\ pool' = pool
    BY Zenon DEF DisposePage, HashInv, TypeOK
  <2>2. hashTable[q] # NoFrame => pinCnt'[hashTable[q]] = pinCnt[hashTable[q]]
    BY DEF DisposePage, HashInv, TypeOK, HashSound
  <2> QED BY <2>1, <2>2, ZenonT(30) DEF PageContent, PagePins
<1>2. PagePins' = [PagePins EXCEPT ![p] = 0]
  <2>1. PagePins'[p] = 0
    BY <1>0, Zenon DEF PagePins
  <2> QED BY <1>1, <2>1, MappingShape, Zenon
<1>3. CASE status' = "BADPAGENO" /\ UNCHANGED <<disk, alloc>>
  <2>1. PageContent'[p] = disk[p]
    BY <1>0, <1>3 DEF PageContent
  <2>2. PageContent' = [PageContent EXCEPT ![p] = disk[p]]
    BY <1>1, <2>1, MappingShape
  <2> QED BY <1>0, <1>2, <1>3, <2>2, ZenonT(30) DEF Buffer!Dispose
<1>4. CASE status' = "OK" /\ alloc' = alloc \ {p}
  <2>1. PageContent'[p] = NoContent
    BY <1>4 DEF PageContent
  <2>2. PageContent' = [PageContent EXCEPT ![p] = NoContent]
    BY <1>1, <2>1, MappingShape
  <2> QED BY <1>0, <1>2, <1>4, <2>2 DEF Buffer!Dispose
<1> QED BY <1>3, <1>4 DEF DisposePage

\* The end of the manager and the start of the next one keep every content.
LEMMA RestartRefines ==
  ASSUME IoFaults = FALSE, BufInv, Restart
  PROVE  Buffer!Restart
<1> HashInv
  BY DEF BufInv
<1>1. ASSUME NEW q \in Pages PROVE PageContent'[q] = PageContent[q]
  <2>1. CASE hashTable[q] = NoFrame
    <3>1. \A i \in valid : page[i] # q
      BY <2>1, FramesDiffer, FrameIsNotNone, ZenonT(30)
    <3>2. disk'[q] = disk[q]
      BY <3>1, WriteBackSaves, SMTT(30) DEF Restart
    <3> QED BY <2>1, <3>2, Zenon DEF Restart, PageContent
  <2>2. CASE hashTable[q] # NoFrame
    <3>1. hashTable[q] \in valid /\ page[hashTable[q]] = q
      BY <2>2, ZenonT(30) DEF HashInv, HashSound
    <3>2. disk'[q] = pool[hashTable[q]]
      BY <3>1, WriteBackSaves DEF Restart
    <3> QED BY <2>2, <3>2 DEF Restart, PageContent
  <2> QED BY <2>1, <2>2, Zenon
<1>2. PageContent' = PageContent
  BY <1>1, MappingShape
<1>3. PagePins' = [p \in Pages |-> 0]
  BY DEF Restart, PagePins
<1> QED BY <1>2, <1>3 DEF Restart, Buffer!Restart

\* Every call of the manager is a call of the abstract buffer: no eviction,
\* flush or restart is visible to a caller, and the pool is reported full
\* exactly when as many pages are pinned as there are frames.
THEOREM Refinement ==
  ASSUME IoFaults = FALSE
  PROVE  Spec => ImplementsBuffer
<1>1. Init => Buffer!Init
  BY DEF Init, Buffer!Init, PageContent, PagePins
<1>2. ASSUME BufInv, [Next]_vars PROVE [Buffer!Next]_(Buffer!vars)
  <2>1. CASE UNCHANGED vars
    BY <2>1 DEF vars, Buffer!vars, PageContent, PagePins
  <2>2. CASE Next
    BY <1>2, <2>2, ReadRefines, AllocRefines, UnPinRefines, ModifyRefines, FlushRefines,
       DisposeRefines, RestartRefines, Zenon DEF Next, Buffer!Next
  <2> QED BY <1>2, <2>1, <2>2, ZenonT(30)
<1>3. BufInv <=> TypeOK /\ HashSound /\ UnusedIsClean /\ BufferedIsHashed /\ NoLostUpdate /\ BufferedIsAllocated
  BY DEF BufInv, HashInv
<1> QED BY <1>1, <1>2, <1>3, HashInvariant, NothingLost, PTL DEF Spec, ImplementsBuffer, Buffer!Spec

-----------------------------------------------------------------------------
(* The loop of allocBuf                                                    *)

\* The frames that the first n iterations look at.
Visited(n) == {Visit(j) : j \in 1 .. n}

\* The loop after n iterations none of which broke it, and after a break in the
\* m-th.
Running(n) ==
  [hand |-> Visit(n), scanned |-> n, ref |-> refbit \ Visited(n), found |-> FALSE, broke |-> FALSE]
Broken(m) ==
  [hand |-> Visit(m), scanned |-> m, ref |-> refbit \ Visited(m - 1),
   found |-> Visit(m) \in valid, broke |-> TRUE]

\* The remainder, in the range in which the loop needs it.
LEMMA Remainder ==
  ASSUME NEW N \in Nat \ {0}, NEW a \in 0 .. (3 * N - 1)
  PROVE  a % N = IF a < N THEN a ELSE IF a < 2 * N THEN a - N ELSE a - 2 * N
<1>1. CASE a < N
  BY <1>1
<1>2. CASE N <= a /\ a < 2 * N
  <2>1. a = 1 * N + (a - N) /\ a - N \in 0 .. (N - 1)
    BY <1>2
  <2> QED BY <1>2, <2>1
<1>3. CASE 2 * N <= a
  <2>1. a = 2 * N + (a - 2 * N) /\ a - 2 * N \in 0 .. (N - 1)
    BY <1>3
  <2> QED BY <1>3, <2>1
<1> QED BY <1>1, <1>2, <1>3

\* Where the clock is after n steps.
LEMMA VisitIs ==
  ASSUME TypeOK, NEW n \in 0 .. 2 * NumBufs
  PROVE  LET a == clockHand + n
         IN  Visit(n) = IF a < NumBufs THEN a ELSE IF a < 2 * NumBufs THEN a - NumBufs ELSE a - 2 * NumBufs
<1>1. NumBufs \in Nat \ {0} /\ clockHand \in 0 .. (NumBufs - 1)
  BY BufsAssumption DEF TypeOK, Frames
<1>2. clockHand + n \in 0 .. (3 * NumBufs - 1)
  BY <1>1
<1> QED BY <1>1, <1>2, Remainder, Zenon DEF Visit

\* Two rounds lead the hand back to where it began, and end the loop.
LEMMA TwoRounds ==
  ASSUME TypeOK
  PROVE  Visit(2 * NumBufs) = clockHand /\ 2 * NumBufs >= 2 * NumBufs
<1>1. NumBufs \in Nat \ {0} /\ clockHand \in 0 .. (NumBufs - 1)
  BY BufsAssumption DEF TypeOK, Frames
<1>2. 2 * NumBufs \in 0 .. 2 * NumBufs
  BY <1>1
<1> QED BY <1>1, <1>2, VisitIs

\* The clock comes to the next frame.
LEMMA NextVisit ==
  ASSUME TypeOK, NEW n \in 0 .. (2 * NumBufs - 1)
  PROVE  (Visit(n) + 1) % NumBufs = Visit(n + 1)
<1>1. NumBufs \in Nat \ {0} /\ clockHand \in 0 .. (NumBufs - 1)
  BY BufsAssumption DEF TypeOK, Frames
<1>2. n + 1 \in 0 .. 2 * NumBufs /\ n \in 0 .. 2 * NumBufs
  BY <1>1
<1>3. Visit(n) + 1 \in 0 .. (3 * NumBufs - 1)
  BY <1>1, <1>2, VisitIs
<1> DEFINE a == Visit(n) + 1
<1>4. a = Visit(n) + 1 /\ a \in 0 .. (3 * NumBufs - 1)
  BY <1>3
<1> HIDE DEF a
<1>5. a % NumBufs = IF a < NumBufs THEN a ELSE IF a < 2 * NumBufs THEN a - NumBufs ELSE a - 2 * NumBufs
  BY <1>1, <1>4, Remainder, Zenon
<1>6. a % NumBufs = Visit(n + 1)
  BY <1>1, <1>2, <1>4, <1>5, VisitIs
<1> QED BY <1>6 DEF a

\* A round later it is at the same frame, and in less than a round at another.
LEMMA VisitsOfRound ==
  ASSUME TypeOK, NEW j \in 0 .. 2 * NumBufs, NEW k \in 0 .. 2 * NumBufs, j < k
  PROVE  /\ k = j + NumBufs => Visit(k) = Visit(j)
         /\ k < j + NumBufs => Visit(k) # Visit(j)
<1>1. NumBufs \in Nat \ {0} /\ clockHand \in 0 .. (NumBufs - 1)
  BY BufsAssumption DEF TypeOK, Frames
<1> QED BY <1>1, VisitIs

\* Which frames the loop has looked at when it comes to the next: that frame, if
\* the second round has begun.
LEMMA SeenBefore ==
  ASSUME TypeOK, NEW n \in 1 .. 2 * NumBufs
  PROVE  Visit(n) \in Visited(n - 1) <=> n > NumBufs
<1>1. NumBufs \in Nat \ {0}
  BY BufsAssumption
<1>2. ASSUME n > NumBufs PROVE Visit(n) \in Visited(n - 1)
  <2>1. n - NumBufs \in 1 .. (n - 1) /\ n - NumBufs \in 0 .. 2 * NumBufs /\ n \in 0 .. 2 * NumBufs
        /\ n = (n - NumBufs) + NumBufs /\ n - NumBufs < n
    BY <1>1, <1>2
  <2>2. Visit(n) = Visit(n - NumBufs)
    BY <2>1, VisitsOfRound
  <2> QED BY <2>1, <2>2 DEF Visited
<1>3. ASSUME n <= NumBufs, NEW j \in 1 .. (n - 1) PROVE Visit(n) # Visit(j)
  <2>1. j \in 0 .. 2 * NumBufs /\ n \in 0 .. 2 * NumBufs /\ j < n /\ n < j + NumBufs
    BY <1>1, <1>3, SMTT(30)
  <2> QED BY <2>1, VisitsOfRound
<1> QED BY <1>1, <1>2, <1>3 DEF Visited

\* One iteration of a loop that was not broken: it goes on exactly if Stops says
\* that it does not stop here.
LEMMA ScanOneIs ==
  ASSUME TypeOK, NEW n \in 1 .. 2 * NumBufs
  PROVE  ScanOne(Running(n - 1)) = IF Stops(n) THEN Broken(n) ELSE Running(n)
<1> DEFINE i == Visit(n)
           s == Running(n - 1)
           t == [s EXCEPT !.hand = i, !.scanned = @ + 1]
<1>1. NumBufs \in Nat \ {0} /\ n - 1 \in 0 .. (2 * NumBufs - 1) /\ n - 1 + 1 = n
  BY BufsAssumption, SMTT(30)
<1>2. (s.hand + 1) % NumBufs = i
  BY <1>1, NextVisit DEF Running
<1>3. ScanOne(s) = IF i \notin valid THEN [t EXCEPT !.broke = TRUE]
                   ELSE IF i \in s.ref THEN [t EXCEPT !.ref = @ \ {i}]
                   ELSE IF pinCnt[i] = 0 THEN [t EXCEPT !.found = TRUE, !.broke = TRUE]
                   ELSE t
  BY <1>2, Zenon DEF ScanOne
<1>4. i \in s.ref <=> i \in refbit /\ ~(n > NumBufs)
  BY SeenBefore DEF Running
<1>5. t = [hand |-> i, scanned |-> n, ref |-> refbit \ Visited(n - 1), found |-> FALSE, broke |-> FALSE]
  <2>1. t = [hand |-> i, scanned |-> n - 1 + 1, ref |-> refbit \ Visited(n - 1), found |-> FALSE, broke |-> FALSE]
    <3> DEFINE R == refbit \ Visited(n - 1)
               v == Visit(n - 1)
    <3>1. s = [hand |-> v, scanned |-> n - 1, ref |-> R, found |-> FALSE, broke |-> FALSE]
      BY DEF Running
    <3> HIDE DEF R, v, s, i
    <3>2. t \in [hand : {i}, scanned : {n - 1 + 1}, ref : {R}, found : {FALSE}, broke : {FALSE}]
      BY <3>1, Zenon
    <3> HIDE DEF t
    <3>3. t = [hand |-> i, scanned |-> n - 1 + 1, ref |-> R, found |-> FALSE, broke |-> FALSE]
      BY <3>2, Zenon
    <3> QED BY <3>3 DEF R
  <2> QED BY <1>1, <2>1, ZenonT(30)
<1>6. Visited(n) = Visited(n - 1) \cup {i}
  <2>1. 1 .. n = (1 .. (n - 1)) \cup {n}
    BY <1>1
  <2> QED BY <2>1 DEF Visited
<1>7. Stops(n) <=> i \notin valid \/ (pinCnt[i] = 0 /\ (i \notin refbit \/ n > NumBufs))
  BY DEF Stops
<1> HIDE DEF i, t
<1>8. CASE i \notin valid
  <2>1. Stops(n) /\ ScanOne(s) = [t EXCEPT !.broke = TRUE]
    BY <1>3, <1>7, <1>8
  <2>2. Broken(n) = [hand |-> i, scanned |-> n, ref |-> refbit \ Visited(n - 1), found |-> FALSE, broke |-> TRUE]
    <3>1. (Visit(n) \in valid) = FALSE
      BY <1>8 DEF i
    <3> QED BY <3>1, Zenon DEF Broken, i
  <2> QED BY <1>5, <2>1, <2>2, Zenon
<1>9. CASE i \in valid /\ i \in s.ref
  <2>1. ~Stops(n) /\ ScanOne(s) = [t EXCEPT !.ref = @ \ {i}]
    BY <1>3, <1>4, <1>7, <1>9
  <2>2. refbit \ Visited(n) = (refbit \ Visited(n - 1)) \ {i}
    BY <1>6
  <2> QED BY <1>5, <2>1, <2>2, Zenon DEF Running, i
<1>10. CASE i \in valid /\ i \notin s.ref /\ pinCnt[i] = 0
  <2>1. Stops(n) /\ ScanOne(s) = [t EXCEPT !.found = TRUE, !.broke = TRUE]
    BY <1>3, <1>4, <1>7, <1>10
  <2>2. Broken(n) = [hand |-> i, scanned |-> n, ref |-> refbit \ Visited(n - 1), found |-> TRUE, broke |-> TRUE]
    <3>1. (Visit(n) \in valid) = TRUE
      BY <1>10 DEF i
    <3> QED BY <3>1, Zenon DEF Broken, i
  <2> QED BY <1>5, <2>1, <2>2, Zenon
<1>11. CASE i \in valid /\ i \notin s.ref /\ pinCnt[i] # 0
  <2>1. ~Stops(n) /\ ScanOne(s) = t
    BY <1>3, <1>7, <1>11
  <2>2. refbit \ Visited(n) = refbit \ Visited(n - 1)
    BY <1>6, <1>11 DEF Running
  <2> QED BY <1>5, <2>1, <2>2, Zenon DEF Running, i
<1> QED BY <1>8, <1>9, <1>10, <1>11


\* The loop after n iterations.
LoopAfter(n) ==
  IF \A j \in 1 .. n : ~Stops(j) THEN Running(n) ELSE Broken(StopStep)

\* The first n iterations of the loop broke it if one of them stops.
LEMMA StopIsFirst ==
  ASSUME TypeOK, NEW n \in 1 .. 2 * NumBufs, Stops(n), \A j \in 1 .. (n - 1) : ~Stops(j)
  PROVE  StopStep = n
<1>1. NumBufs \in Nat \ {0}
  BY BufsAssumption
<1>2. \A k \in 1 .. 2 * NumBufs :
        Stops(k) /\ (\A j \in 1 .. (k - 1) : ~Stops(j)) => k = n
  <2> SUFFICES ASSUME NEW k \in 1 .. 2 * NumBufs, Stops(k), \A j \in 1 .. (k - 1) : ~Stops(j)
               PROVE  k = n
    OBVIOUS
  <2>1. ~(k < n) /\ ~(n < k)
    BY <1>1
  <2> QED BY <2>1
<1> QED BY <1>2 DEF StopStep

\* An iteration more, in terms of the loop itself.
LEMMA LoopAdvances ==
  ASSUME TypeOK, NEW n \in 1 .. 2 * NumBufs
  PROVE  LoopAfter(n) = IF LoopAfter(n - 1).broke THEN LoopAfter(n - 1) ELSE ScanOne(LoopAfter(n - 1))
<1>1. NumBufs \in Nat \ {0}
  BY BufsAssumption
<1>2. CASE \A j \in 1 .. (n - 1) : ~Stops(j)
  <2>1. LoopAfter(n - 1) = Running(n - 1)
    BY <1>2 DEF LoopAfter
  <2>2. ~LoopAfter(n - 1).broke
    BY <2>1, SMTT(30) DEF Running
  <2>3. CASE Stops(n)
    <3>1. LoopAfter(n) = Broken(n)
      BY <1>1, <1>2, <2>3, StopIsFirst, SMTT(30) DEF LoopAfter
    <3> QED BY <2>1, <2>2, <2>3, <3>1, ScanOneIs, Zenon
  <2>4. CASE ~Stops(n)
    <3>1. \A j \in 1 .. n : ~Stops(j)
      <4>1. \A j \in 1 .. n : j = n \/ j \in 1 .. (n - 1)
        BY <1>1
      <4> QED BY <1>2, <2>4, <4>1
    <3>2. LoopAfter(n) = Running(n)
      BY <3>1 DEF LoopAfter
    <3> QED BY <2>1, <2>2, <2>4, <3>2, ScanOneIs
  <2> QED BY <2>3, <2>4
<1>3. CASE ~\A j \in 1 .. (n - 1) : ~Stops(j)
  <2>1. ~\A j \in 1 .. n : ~Stops(j)
    BY <1>1, <1>3
  <2>2. LoopAfter(n - 1) = Broken(StopStep) /\ LoopAfter(n) = Broken(StopStep)
    BY <1>3, <2>1 DEF LoopAfter
  <2>3. Broken(StopStep).broke
    BY DEF Broken
  <2> QED BY <2>2, <2>3
<1> QED BY <1>2, <1>3

\* The recursive definition of the loop has a solution, and no other.
LEMMA LoopIs ==
  ASSUME TypeOK, NEW n \in 0 .. 2 * NumBufs
  PROVE  ScanLoop[n] = LoopAfter(n)
<1> DEFINE N == 0 .. 2 * NumBufs
           G(f) == [k \in N |-> IF k = 0 THEN LoopStart
                                ELSE IF f[k - 1].broke THEN f[k - 1] ELSE ScanOne(f[k - 1])]
           L == [k \in N |-> LoopAfter(k)]
<1>1. NumBufs \in Nat \ {0} /\ clockHand \in 0 .. (NumBufs - 1)
  BY BufsAssumption DEF TypeOK, Frames
<1>2. LoopAfter(0) = LoopStart
  <2>1. Visited(0) = {}
    BY DEF Visited
  <2>2. Visit(0) = clockHand
    BY <1>1, VisitIs
  <2>3. LoopAfter(0) = Running(0)
    BY DEF LoopAfter
  <2> QED BY <2>1, <2>2, <2>3 DEF Running, LoopStart
<1>3. \A k \in N : k # 0 => k - 1 \in N /\ k \in 1 .. 2 * NumBufs
  BY <1>1, SMTT(30)
<1>4. L = G(L)
  BY <1>2, <1>3, LoopAdvances
<1>5. ScanLoop = CHOOSE f : f = G(f)
  BY DEF ScanLoop
<1> HIDE DEF G, L
<1>6. ScanLoop = G(ScanLoop)
  BY <1>4, <1>5
<1>7. ScanLoop[0] = LoopStart
  BY <1>1, <1>6 DEF G
<1>8. \A k \in N : k # 0 => ScanLoop[k] = IF ScanLoop[k - 1].broke THEN ScanLoop[k - 1] ELSE ScanOne(ScanLoop[k - 1])
  <2> SUFFICES ASSUME NEW k \in N, k # 0
               PROVE  G(ScanLoop)[k] = IF ScanLoop[k - 1].broke THEN ScanLoop[k - 1] ELSE ScanOne(ScanLoop[k - 1])
    BY <1>6, Zenon
  <2> QED BY DEF G
<1> DEFINE T == {k \in N : ScanLoop[k] # LoopAfter(k)}
<1>9. ASSUME T # {} PROVE FALSE
  <2>0. T \subseteq Nat
    BY <1>1
  <2>1. PICK k \in T : \A j \in T : k <= j
    <3> HIDE DEF T
    <3> QED BY <1>9, <2>0, LeastNat, Zenon
  <2>2. k \in N /\ ScanLoop[k] # LoopAfter(k) /\ k # 0
    BY <1>2, <1>7, <2>1
  <2>3. k - 1 \in N /\ k \in 1 .. 2 * NumBufs /\ ~(k <= k - 1)
    BY <1>1, <2>2
  <2>4. ScanLoop[k - 1] = LoopAfter(k - 1)
    BY <2>1, <2>3
  <2> QED BY <1>8, <2>2, <2>3, <2>4, LoopAdvances, ZenonT(30)
<1> QED BY <1>9, Zenon

\* All frames are looked at in the first round.
LEMMA AllVisited ==
  ASSUME TypeOK
  PROVE  Visited(2 * NumBufs) = Frames
<1>1. NumBufs \in Nat \ {0} /\ clockHand \in 0 .. (NumBufs - 1)
  BY BufsAssumption DEF TypeOK, Frames
<1>2. Visited(2 * NumBufs) \subseteq Frames
  BY <1>1, VisitInPool DEF Visited
<1>3. ASSUME NEW i \in Frames PROVE \E j \in 1 .. 2 * NumBufs : Visit(j) = i
  <2>1. i \in 0 .. (NumBufs - 1)
    BY DEF Frames
  <2> DEFINE j == i + NumBufs - clockHand
  <2>2. j \in 1 .. 2 * NumBufs /\ j \in 0 .. 2 * NumBufs /\ clockHand + j = i + NumBufs
    BY <1>1, <2>1, SMTT(30)
  <2> HIDE DEF j
  <2>3. Visit(j) = i
    BY <1>1, <2>1, <2>2, VisitIs
  <2> QED BY <2>2, <2>3
<1> QED BY <1>2, <1>3, Zenon DEF Visited

\* The loop of allocBuf, iteration by iteration, ends where the one step of the
\* model says: at the same frame and with the same reference bits.  It refuses
\* the page exactly when every frame is in use and pinned, although a break on
\* an unused frame does not set found.
THEOREM SweepIsTheLoop == Spec => []SweepIsLoop
<1>1. TypeOK => SweepIsLoop
  <2> SUFFICES ASSUME TypeOK PROVE SweepIsLoop
    OBVIOUS
  <2> DEFINE s == ScanLoop[2 * NumBufs]
  <2>1. NumBufs \in Nat \ {0} /\ clockHand \in 0 .. (NumBufs - 1) /\ 2 * NumBufs \in 0 .. 2 * NumBufs
    BY BufsAssumption DEF TypeOK, Frames
  <2>2. s = LoopAfter(2 * NumBufs)
    BY <2>1, LoopIs, Zenon
  <2> HIDE DEF s
  <2>3. CASE Exhausted
    <3>1. s = Running(2 * NumBufs)
      BY <2>2, <2>3, Zenon DEF LoopAfter, Exhausted
    <3>2. ~s.found /\ s.scanned = 2 * NumBufs /\ s.hand = Visit(2 * NumBufs)
          /\ s.ref = refbit \ Visited(2 * NumBufs)
      BY <3>1 DEF Running
    <3>3. Visit(2 * NumBufs) = clockHand
      BY TwoRounds, Zenon
    <3>4. s.ref = {}
      BY <3>2, AllVisited, Zenon DEF TypeOK
    <3>5. LoopIsFull(s)
      BY <3>2, TwoRounds, Zenon DEF LoopIsFull
    <3> QED BY <2>3, <3>2, <3>3, <3>4, <3>5, ExhaustedIsPinned, Zenon DEF SweepIsLoop, s
  <2>4. CASE ~Exhausted
    <3>1. s = Broken(StopStep)
      BY <2>2, <2>4, Zenon DEF LoopAfter, Exhausted
    <3>2. /\ s.found <=> Visit(StopStep) \in valid
          /\ s.scanned = StopStep /\ s.hand = Victim /\ s.ref = RefbitAfterSweep
      BY <3>1, Zenon DEF Broken, Victim, RefbitAfterSweep, Visited
    <3>3. StopStep \in 1 .. 2 * NumBufs /\ Stops(StopStep) /\ \A j \in 1 .. (StopStep - 1) : ~Stops(j)
      BY <2>4, SweepStops
    <3>4. ~LoopIsFull(s)
      <4> SUFFICES ASSUME ~s.found, s.scanned >= 2 * NumBufs PROVE FALSE
        BY DEF LoopIsFull
      <4>1. StopStep = 2 * NumBufs /\ NumBufs \in 1 .. (StopStep - 1)
        BY <2>1, <3>2, <3>3, SMTT(30)
      <4>2. Visit(NumBufs) = Visit(2 * NumBufs)
        BY <2>1, VisitIs, SMTT(30)
      <4>3. Stops(NumBufs)
        BY <3>2, <4>1, <4>2 DEF Stops
      <4> QED BY <3>3, <4>1, <4>3
    <3> QED BY <2>4, <3>2, <3>4, ExhaustedIsPinned, Zenon DEF SweepIsLoop, s
  <2> QED BY <2>3, <2>4
<1> QED BY <1>1, HashInvariant, PTL
=============================================================================
