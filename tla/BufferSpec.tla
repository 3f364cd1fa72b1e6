----------------------------- MODULE BufferSpec -----------------------------
(***************************************************************************)
(* What the buffer manager promises its callers (buf.h, class BufMgr),     *)
(* with no frames, clock or hash table: every allocated page has one       *)
(* content, whoever looks; pins are counted per page; a page that is not   *)
(* pinned can be brought in exactly when fewer than NumBufs pages are      *)
(* pinned.                                                                 *)
(***************************************************************************)
EXTENDS Integers, FiniteSets

CONSTANTS NumBufs, Files, Pages, Contents, NoContent

VARIABLES
  content,  \* what a caller that pins the page sees
  alloc,    \* the pages the files have allocated
  pins,     \* the pins on each page
  status    \* what the last call returned

vars == <<content, alloc, pins, status>>

Pinned == {p \in Pages : pins[p] > 0}
Full == Cardinality(Pinned) = NumBufs

Init ==
  /\ content = [p \in Pages |-> NoContent]
  /\ alloc = {}
  /\ pins = [p \in Pages |-> 0]
  /\ status = "OK"

Read(p) ==
  /\ p \in alloc
  /\ IF p \in Pinned \/ ~Full
       THEN pins' = [pins EXCEPT ![p] = @ + 1] /\ status' = "OK"
       ELSE status' = "BUFFEREXCEEDED" /\ UNCHANGED pins
  /\ UNCHANGED <<content, alloc>>

\* A new page holds anything until its caller initialises it.  When every
\* frame is pinned the page stays allocated, in no caller's hands.
Alloc(p) ==
  /\ p \notin alloc
  /\ alloc' = alloc \cup {p}
  /\ \E c \in Contents : content' = [content EXCEPT ![p] = c]
  /\ IF Full
       THEN status' = "BUFFEREXCEEDED" /\ UNCHANGED pins
       ELSE status' = "OK" /\ pins' = [pins EXCEPT ![p] = 1]

Write(p, c) ==
  /\ p \in Pinned
  /\ content' = [content EXCEPT ![p] = c]
  /\ status' = "OK"
  /\ UNCHANGED <<alloc, pins>>

UnPin(p) ==
  /\ IF p \in Pinned
       THEN pins' = [pins EXCEPT ![p] = @ - 1] /\ status' = "OK"
       ELSE status' \in {"PAGENOTPINNED", "HASHNOTFOUND"} /\ UNCHANGED pins
  /\ UNCHANGED <<content, alloc>>

Flush(f) ==
  /\ status' = IF \E p \in Pinned : p[1] = f THEN "PAGEPINNED" ELSE "OK"
  /\ UNCHANGED <<content, alloc, pins>>

\* Disposing drops every pin.  The file refuses its first page, whose last
\* changes may then be gone.
Dispose(p) ==
  /\ p \in alloc
  /\ pins' = [pins EXCEPT ![p] = 0]
  /\ \/ /\ status' = "OK"
        /\ alloc' = alloc \ {p}
        /\ content' = [content EXCEPT ![p] = NoContent]
     \/ /\ status' = "BADPAGENO"
        /\ \E c \in Contents : content' = [content EXCEPT ![p] = c]
        /\ UNCHANGED alloc

\* The end of the manager and the start of the next one keep every content.
Restart ==
  /\ pins' = [p \in Pages |-> 0]
  /\ status' = "OK"
  /\ UNCHANGED <<content, alloc>>

Next ==
  \/ \E p \in Pages : Read(p) \/ Alloc(p) \/ UnPin(p) \/ Dispose(p)
  \/ \E p \in Pages, c \in Contents : Write(p, c)
  \/ \E f \in Files : Flush(f)
  \/ Restart

Spec == Init /\ [][Next]_vars
=============================================================================
