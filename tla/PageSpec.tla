------------------------------ MODULE PageSpec ------------------------------
(***************************************************************************)
(* What a data page promises (page.h, class Page), with no offsets, free   *)
(* pointer or compaction: a set of numbered slots, each empty or holding   *)
(* one record, that only its own insertion and deletion change.            *)
(***************************************************************************)
CONSTANTS Slots, Records, NoRecord

VARIABLES
  recs,   \* slot -> the record in it, or NoRecord
  status  \* what the last call returned

vars == <<recs, status>>

Init == recs = [s \in Slots |-> NoRecord] /\ status = "OK"

Insert(r) ==
  \/ status' = "NOSPACE" /\ UNCHANGED recs
  \/ \E s \in Slots :
       /\ recs[s] = NoRecord
       /\ recs' = [recs EXCEPT ![s] = r]
       /\ status' = "OK"

Delete(s) ==
  IF recs[s] = NoRecord
    THEN status' = "INVALIDSLOTNO" /\ UNCHANGED recs
    ELSE status' = "OK" /\ recs' = [recs EXCEPT ![s] = NoRecord]

Next == (\E r \in Records : Insert(r)) \/ (\E s \in Slots : Delete(s))

Spec == Init /\ [][Next]_vars
=============================================================================
