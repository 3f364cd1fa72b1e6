------------------------------ MODULE BufClock ------------------------------
(* BufMgr::allocBuf as the loop it is, one iteration after another, to be  *)
(* compared with the closed form of the sweep that BufMgr uses.            *)
EXTENDS BufMgr

\* The state of the loop: clockHand, numScanned, the reference bits, found,
\* and whether a break ended it.
LoopStart == [hand |-> clockHand, scanned |-> 0, ref |-> refbit, found |-> FALSE, broke |-> FALSE]

ScanOne(s) ==
  LET i == (s.hand + 1) % NumBufs
      t == [s EXCEPT !.hand = i, !.scanned = @ + 1]
  IN  IF i \notin valid THEN [t EXCEPT !.broke = TRUE]
      ELSE IF i \in s.ref THEN [t EXCEPT !.ref = @ \ {i}]
      ELSE IF pinCnt[i] = 0 THEN [t EXCEPT !.found = TRUE, !.broke = TRUE]
      ELSE t

\* After n iterations; the loop makes no more than 2 * NumBufs of them, and
\* none after a break.
ScanLoop[n \in 0 .. 2 * NumBufs] ==
  IF n = 0 THEN LoopStart
  ELSE IF ScanLoop[n - 1].broke THEN ScanLoop[n - 1] ELSE ScanOne(ScanLoop[n - 1])

\* "check for full buffer pool": a break on an unused frame leaves found
\* false, so an unused frame reached by the last scan would be refused.
LoopIsFull(s) == ~s.found /\ s.scanned >= 2 * NumBufs

\* The sweep the model takes in one step ends where the loop of allocBuf ends,
\* with the same reference bits, and the loop gives up only when every frame
\* is pinned, never for missing an unused one.
SweepIsLoop ==
  LET s == ScanLoop[2 * NumBufs]
  IN  /\ LoopIsFull(s) <=> \A i \in Frames : i \in valid /\ pinCnt[i] > 0
      /\ IF Exhausted THEN LoopIsFull(s) /\ s.hand = clockHand /\ s.ref = {}
         ELSE ~LoopIsFull(s) /\ s.hand = Victim /\ s.ref = RefbitAfterSweep
=============================================================================
