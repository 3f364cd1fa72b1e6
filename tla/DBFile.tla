------------------------------- MODULE DBFile -------------------------------
(***************************************************************************)
(* One file of db.C (class File) on disk: a header page and the pages 1,   *)
(* 2, ..., of which the disposed ones form a list linked through their     *)
(* first word.  Every call reads the header, changes it and writes it      *)
(* back.  Any of its writes may fail; since the calls are sequential and   *)
(* File keeps no state of its own, a crash after a write leaves the same   *)
(* disk as a failure of the next.                                          *)
(***************************************************************************)
EXTENDS Integers

CONSTANTS
  MaxPages,   \* bound: pages a file may grow to
  Data,       \* what a page in use can hold
  Zero,       \* a zeroed page
  NoContent   \* a page that is not in use, in the refinement

ASSUME MaxPagesAssumption == MaxPages \in Nat \ {0}
ASSUME ZeroAssumption == Zero \in Data

PageNos == 1 .. MaxPages

\* A free page: zeros but for the number of the next free page.
Link(n) == <<"nextFree", n>>
NextFree(c) == c[2]

VARIABLES
  header,  \* page 0: nextFree, firstPage, numPages
  pages,   \* the other pages
  alloc,   \* the pages handed out and not disposed of
  code     \* what the last call returned

fvars == <<header, pages, alloc, code>>

\* File::create
FInit ==
  /\ header = [nextFree |-> -1, firstPage |-> -1, numPages |-> 1]
  /\ pages = [p \in PageNos |-> Zero]
  /\ alloc = {}
  /\ code = "OK"

\* A call whose I/O fails before it has written anything.
Unwritten == code' = "UNIXERR" /\ UNCHANGED <<header, pages, alloc>>

-----------------------------------------------------------------------------
(* allocatePage *)

\* Take the first page of the free list.
AllocateFree ==
  /\ header.nextFree # -1
  /\ header' = [header EXCEPT !.nextFree = NextFree(pages[header.nextFree])]
  /\ alloc' = alloc \cup {header.nextFree}
  /\ code' = "OK"
  /\ UNCHANGED pages

\* Mutant: a new page is taken although the free list has one.
ExtendAlways ==
  /\ header.numPages <= MaxPages
  /\ pages' = [pages EXCEPT ![header.numPages] = Zero]
  /\ header' = [header EXCEPT !.numPages = @ + 1,
                              !.firstPage = IF @ = -1 THEN header.numPages ELSE @]
  /\ alloc' = alloc \cup {header.numPages}
  /\ code' = "OK"

\* Extend the file: the new page is written before the header.
Extend ==
  /\ header.nextFree = -1
  /\ header.numPages <= MaxPages
  /\ pages' = [pages EXCEPT ![header.numPages] = Zero]
  /\ \/ /\ header' = [header EXCEPT !.numPages = @ + 1,
                                    !.firstPage = IF @ = -1 THEN header.numPages ELSE @]
        /\ alloc' = alloc \cup {header.numPages}
        /\ code' = "OK"
     \/ code' = "UNIXERR" /\ UNCHANGED <<header, alloc>>

AllocatePage == AllocateFree \/ Extend \/ Unwritten

-----------------------------------------------------------------------------
(* disposePage.  A page already on the free list is not recognised: the    *)
(* callers dispose only of pages they were given.                          *)

\* Mutant: the header is written first.
DisposePageHeaderFirst(p) ==
  /\ p \in alloc /\ p # header.firstPage
  /\ header' = [header EXCEPT !.nextFree = p]
  /\ alloc' = alloc \ {p}
  /\ \/ pages' = [pages EXCEPT ![p] = Link(header.nextFree)] /\ code' = "OK"
     \/ UNCHANGED pages /\ code' = "UNIXERR"

DisposePage(p) ==
  /\ p \in alloc \/ p \notin 1 .. (header.numPages - 1)
  /\ IF p < 1 \/ p = header.firstPage \/ p >= header.numPages
       THEN code' = "BADPAGENO" /\ UNCHANGED <<header, pages, alloc>>
       ELSE \/ Unwritten
            \/ /\ pages' = [pages EXCEPT ![p] = Link(header.nextFree)]
               /\ \/ /\ header' = [header EXCEPT !.nextFree = p]
                     /\ alloc' = alloc \ {p}
                     /\ code' = "OK"
                  \/ code' = "UNIXERR" /\ UNCHANGED <<header, alloc>>

\* writePage, of a page in use.
WritePage(p, c) ==
  /\ p \in alloc
  /\ \/ pages' = [pages EXCEPT ![p] = c] /\ code' = "OK" /\ UNCHANGED <<header, alloc>>
     \/ Unwritten

FNext ==
  \/ AllocatePage
  \/ \E p \in 0 .. MaxPages : DisposePage(p)
  \/ \E p \in PageNos, c \in Data : WritePage(p, c)

FSpec == FInit /\ [][FNext]_fvars
-----------------------------------------------------------------------------
(* Invariants *)

Existing == 1 .. (header.numPages - 1)

FTypeOK ==
  /\ header \in [nextFree : PageNos \cup {-1}, firstPage : PageNos \cup {-1},
                 numPages : 1 .. (MaxPages + 1)]
  /\ pages \in [PageNos -> Data \cup {Link(n) : n \in PageNos \cup {-1}}]
  /\ alloc \subseteq Existing
  /\ code \in {"OK", "BADPAGENO", "UNIXERR"}

\* The n pages s[1], ..., s[n] are the free list: the header leads to the
\* first, each to the next, the last to -1.
IsFreeList(n, s) ==
  /\ header.nextFree = IF n = 0 THEN -1 ELSE s[1]
  /\ \A i \in 1 .. n : pages[s[i]] = Link(IF i = n THEN -1 ELSE s[i + 1])
  /\ \A i, j \in 1 .. n : s[i] = s[j] => i = j

\* The free list holds the pages of the file that are not in use, each once,
\* and ends: a failure or a crash between the two writes of allocatePage or
\* disposePage never makes it lose, repeat or share a page.
FreeListExact ==
  \E n \in 0 .. MaxPages : \E s \in [1 .. n -> PageNos] :
    /\ IsFreeList(n, s)
    /\ {s[i] : i \in 1 .. n} = Existing \ alloc

\* The header names page 1 as the first page as soon as the file has a page,
\* and that page stays in use (getFirstPage leads HeapFile to its header).
FirstPageKept ==
  IF header.numPages = 1 THEN header.firstPage = -1
                         ELSE header.firstPage = 1 /\ 1 \in alloc

\* The file implements the abstract one.
FileContent == [p \in PageNos |-> IF p \in alloc THEN pages[p] ELSE NoContent]

File == INSTANCE FileSpec
          WITH size <- header.numPages, content <- FileContent, status <- code

\* allocatePage never hands out a page in use, prefers a disposed page to a new
\* one, and no call changes the content of a page it was not asked to change.
ImplementsFile == File!Spec
=============================================================================
