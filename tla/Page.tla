-------------------------------- MODULE Page --------------------------------
(***************************************************************************)
(* The slotted data page of page.C.  Records fill data[] from the left;    *)
(* the slot array grows from the right end of the page towards them, slot  *)
(* 0 just outside data[].  slotCnt counts down from 0 in the code and is   *)
(* -nslots here.  A deletion moves the records behind the deleted one to   *)
(* the left; a slot in the middle of the array is only marked empty.       *)
(***************************************************************************)
EXTENDS Integers

CONSTANTS
  DataSize,  \* PAGESIZE - DPFIXED: 1004 bytes
  SlotSize,  \* sizeof(slot_t): 4 bytes
  Bytes,     \* what a byte can hold
  Lengths,   \* the record lengths inserted
  NoRecord   \* what an empty slot holds, in the refinement

ASSUME SizeAssumption == DataSize \in Nat /\ SlotSize \in Nat \ {0}
ASSUME LengthsAssumption == Lengths \subseteq Nat \ {0}
ASSUME BytesAssumption == Bytes # {}

Addresses == 0 .. (DataSize - 1)
Slots == 0 .. DataSize
Records == UNION {[0 .. (n - 1) -> Bytes] : n \in Lengths}
ASSUME NoRecordAssumption == NoRecord \notin Records

VARIABLES
  data,       \* data[]
  offset,     \* slot[-s].offset
  length,     \* slot[-s].length, -1 when the slot is empty
  nslots,     \* -slotCnt
  freePtr,
  freeSpace,
  result      \* what the last call returned

pvars == <<data, offset, length, nslots, freePtr, freeSpace, result>>

\* init.  The data and the slots beyond slotCnt are leftovers of what the frame
\* held (BufMgr::allocPage clears nothing): here the same value everywhere.
PInit ==
  /\ \E b \in Bytes : data = [a \in Addresses |-> b]
  /\ \E l \in {-1, 0} : length = [s \in Slots |-> l]
  /\ offset = [s \in Slots |-> 0]
  /\ nslots = 0
  /\ freePtr = 0
  /\ freeSpace = DataSize
  /\ result = "OK"

-----------------------------------------------------------------------------
(* insertRecord *)

\* The first empty slot, or the next new one.
InsertSlot ==
  CHOOSE s \in 0 .. nslots : /\ s = nslots \/ length[s] = -1
                             /\ \A t \in 0 .. (s - 1) : length[t] # -1

\* Mutant: a slot that is reused is charged.
InsertRecordCharges(r, n) ==
  /\ n + SlotSize <= freeSpace
  /\ nslots' = IF InsertSlot = nslots THEN nslots + 1 ELSE nslots
  /\ freeSpace' = freeSpace - (n + SlotSize)
  /\ offset' = [offset EXCEPT ![InsertSlot] = freePtr]
  /\ length' = [length EXCEPT ![InsertSlot] = n]
  /\ data' = data
  /\ freePtr' = freePtr + n
  /\ result' = "OK"

InsertRecord(r, n) ==
  IF n + SlotSize > freeSpace
    THEN result' = "NOSPACE" /\ UNCHANGED <<data, offset, length, nslots, freePtr, freeSpace>>
    ELSE /\ nslots' = IF InsertSlot = nslots THEN nslots + 1 ELSE nslots
         /\ freeSpace' = IF InsertSlot = nslots THEN freeSpace - (n + SlotSize) ELSE freeSpace - n
         /\ offset' = [offset EXCEPT ![InsertSlot] = freePtr]
         /\ length' = [length EXCEPT ![InsertSlot] = n]
         /\ data' = [a \in Addresses |-> IF freePtr <= a /\ a < freePtr + n THEN r[a - freePtr] ELSE data[a]]
         /\ freePtr' = freePtr + n
         /\ result' = "OK"

-----------------------------------------------------------------------------
(* deleteRecord *)

\* Also the test of getRecord.
ValidSlot(s) == s < nslots /\ length[s] > 0

\* slotCnt after the last slot is freed: the slots emptied before it go too.
TrimmedCount ==
  CHOOSE m \in 0 .. (nslots - 1) : /\ m = 0 \/ length[m - 1] # -1
                                   /\ \A t \in m .. (nslots - 2) : length[t] = -1

\* Mutant: one byte too few is moved.
DataWithoutLast(s) ==
  [a \in Addresses |-> IF offset[s] <= a /\ a < freePtr - length[s] - 1 THEN data[a + length[s]] ELSE data[a]]

\* bcopy of the bytes behind the record onto it.
DataWithout(s) ==
  [a \in Addresses |-> IF offset[s] <= a /\ a < freePtr - length[s] THEN data[a + length[s]] ELSE data[a]]

\* The records behind it move by its length.
OffsetsWithout(s) ==
  [t \in Slots |-> IF t < nslots /\ length[t] >= 0 /\ offset[t] > offset[s]
                     THEN offset[t] - length[s] ELSE offset[t]]

\* Mutant: the slot is emptied and its bytes stay where they are.
DeleteRecordLeavesHole(s) ==
  /\ ValidSlot(s) /\ s < nslots - 1
  /\ offset' = [offset EXCEPT ![s] = 0]
  /\ length' = [length EXCEPT ![s] = -1]
  /\ result' = "OK"
  /\ UNCHANGED <<data, nslots, freePtr, freeSpace>>

DeleteRecord(s) ==
  IF ~ValidSlot(s)
    THEN result' = "INVALIDSLOTNO" /\ UNCHANGED <<data, offset, length, nslots, freePtr, freeSpace>>
    ELSE /\ data' = DataWithout(s)
         /\ freePtr' = freePtr - length[s]
         /\ IF s = nslots - 1
              THEN /\ nslots' = TrimmedCount
                   /\ freeSpace' = freeSpace + length[s] + SlotSize * (nslots - TrimmedCount)
                   /\ offset' = OffsetsWithout(s)
                   /\ UNCHANGED length
              ELSE /\ freeSpace' = freeSpace + length[s]
                   /\ offset' = [OffsetsWithout(s) EXCEPT ![s] = 0]
                   /\ length' = [length EXCEPT ![s] = -1]
                   /\ UNCHANGED nslots
         /\ result' = "OK"

PNext ==
  \/ \E n \in Lengths : \E r \in [0 .. (n - 1) -> Bytes] : InsertRecord(r, n)
  \/ \E s \in Slots : DeleteRecord(s)

PSpec == PInit /\ [][PNext]_pvars

Used == {s \in Slots : s < nslots /\ length[s] # -1}

\* What getRecord returns.
GetRecord(s) == [k \in 0 .. (length[s] - 1) |-> data[offset[s] + k]]
-----------------------------------------------------------------------------
(* Invariants *)

PTypeOK ==
  /\ data \in [Addresses -> Bytes]
  /\ offset \in [Slots -> 0 .. DataSize]
  /\ length \in [Slots -> -1 .. DataSize]
  /\ nslots \in Slots
  /\ freePtr \in 0 .. DataSize
  /\ freeSpace \in 0 .. DataSize
  /\ result \in {"OK", "NOSPACE", "INVALIDSLOTNO"}

\* freeSpace is exactly what data[] has left after the records and the slots,
\* whatever was inserted, deleted and reused; so the records end before the
\* slot array begins (slot s > 0 lies in the last SlotSize * s bytes of data[]).
SpaceAccounted ==
  /\ freeSpace = DataSize - freePtr - SlotSize * nslots
  /\ nslots > 0 => freePtr <= DataSize - SlotSize * (nslots - 1)

\* No two records share a byte and none reaches past freePtr.
RecordsDisjoint ==
  \A s \in Used :
    /\ offset[s] + length[s] <= freePtr
    /\ \A t \in Used : s # t => \/ offset[s] + length[s] <= offset[t]
                               \/ offset[t] + length[t] <= offset[s]

\* "records are kept compacted when deletions are performed" (page.h): every
\* byte below freePtr belongs to a record.
Compacted ==
  \A a \in 0 .. (freePtr - 1) :
    \E s \in Used : offset[s] <= a /\ a < offset[s] + length[s]

\* The slot array never ends in an empty slot: deleteRecord trims it.
NoEmptyTail == nslots > 0 => length[nslots - 1] # -1

-----------------------------------------------------------------------------
(* The page implements the abstract one: a slot's record is the bytes that *)
(* getRecord points to.                                                    *)

SlotRecord == [s \in Slots |-> IF ValidSlot(s) THEN GetRecord(s) ELSE NoRecord]

Abstract == INSTANCE PageSpec WITH recs <- SlotRecord, status <- result

\* Every insertion and deletion changes the record of its own slot and no
\* other: compaction, slot reuse and trimming are invisible.
ImplementsPage == Abstract!Spec
=============================================================================
