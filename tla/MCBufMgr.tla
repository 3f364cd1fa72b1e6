----------------------------- MODULE MCBufMgr -----------------------------
(* Two files, one with a page that can be disposed of, three pages in all  *)
(* over two frames: every page can be evicted by the others.               *)
EXTENDS BufClock

CONSTANTS f1, f2

MCFiles == {f1, f2}
MCPages == {<<f1, 1>>, <<f1, 2>>, <<f2, 1>>}

\* No operation reads what the last call returned: states that differ in
\* nothing else have the same successors.
MCView == <<page, pinCnt, dirty, valid, refbit, pool, hashTable, clockHand,
            disk, alloc, touched>>
=============================================================================
