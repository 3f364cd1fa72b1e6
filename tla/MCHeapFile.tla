---------------------------- MODULE MCHeapFile ----------------------------
(* Three records of one byte, of which two match, and one longer than a    *)
(* page.                                                                   *)
EXTENDS HeapFile, TLC

CONSTANTS r1, r2, r3, long

MCRecords == {r1, r2, r3}
MCWithLong == {r1, r2, r3, long}
MCMatches == {r1, r2}
\* The two matching records are interchangeable.
MCSymmetry == Permutations({r1, r2})

MCLength(r) == IF r = long THEN DataSize + 1 ELSE 1

\* A record that fills a page, with no room for its slot.
MCPageful(r) == IF r = long THEN DataSize ELSE 1
=============================================================================
