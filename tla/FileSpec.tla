------------------------------ MODULE FileSpec ------------------------------
(***************************************************************************)
(* What a file promises the buffer manager (db.h, class File), with no     *)
(* header and no free list: pages are allocated and disposed of, and a     *)
(* page keeps its content until it is written or disposed of.  A disposed  *)
(* page is given out again before the file grows.                          *)
(***************************************************************************)
EXTENDS Integers

CONSTANTS PageNos, Data, NoContent

VARIABLES
  alloc,     \* the pages in use
  size,      \* pages 1 .. size - 1 exist
  content,   \* what each page in use holds
  status     \* what the last call returned

vars == <<alloc, size, content, status>>

Init ==
  /\ alloc = {}
  /\ size = 1
  /\ content = [p \in PageNos |-> NoContent]
  /\ status = "OK"

Free == (1 .. (size - 1)) \ alloc

\* Page p changes hands or content, the others stay as they are.
Only(p) == \A q \in PageNos \ {p} : content'[q] = content[q]

Allocate(p) ==
  /\ IF Free # {} THEN p \in Free /\ size' = size ELSE p = size /\ size' = size + 1
  /\ p \notin alloc
  /\ alloc' = alloc \cup {p}
  /\ Only(p)
  /\ status' = "OK"

\* The first page of a file cannot be disposed of.
Dispose(p) ==
  /\ p \in alloc /\ p # 1
  /\ alloc' = alloc \ {p}
  /\ content' = [content EXCEPT ![p] = NoContent]
  /\ status' = "OK"
  /\ UNCHANGED size

\* A disposal that fails half-way may leave the page in use, its content gone.
Fail(p) ==
  /\ status' \in {"UNIXERR", "BADPAGENO"}
  /\ Only(p)
  /\ p \notin alloc \/ status' = "BADPAGENO" => content' = content
  /\ UNCHANGED <<alloc, size>>

Write(p, c) ==
  /\ p \in alloc
  /\ content' = [content EXCEPT ![p] = c]
  /\ status' = "OK"
  /\ UNCHANGED <<alloc, size>>

Next ==
  \E p \in PageNos : Allocate(p) \/ Dispose(p) \/ Fail(p) \/ \E c \in Data : Write(p, c)

Spec == Init /\ [][Next]_vars
=============================================================================
