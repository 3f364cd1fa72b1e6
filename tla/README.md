# A TLA+ model of PrimitiveDB (minirel)

The modules in this directory model the database under `src/src`: the slotted
page, the file with its free list, the buffer manager, heap files and their scans,
the table of open files, the catalogs, the external sort, and a session of the
program from the typed command through parser and interpreter to the operators.
TLC checks them on small instances. For every value of the constants TLAPS proves
the invariants of all of them but the sort, and that page, file, pool and catalogs
implement abstract ones.

## The system

The program is sequential: one process reads a command, runs it and reads the
next. What makes it hard is that several objects share state inside one command
(scans and inserters on one file, all pinning pages of one pool), that almost
every call can fail half-way and nothing is undone, and that pages reach the disk
in an order no command controls.

| Part | Source | State | Operations that change it |
|---|---|---|---|
| Slotted page | `page.C` | data, slot array, `freePtr`, `freeSpace` | `insertRecord`, `deleteRecord` |
| File | `db.C` class `File` | header page, free list, pages | `allocatePage`, `disposePage`, `writePage` |
| Buffer manager | `buf.C`, `bufHash.C` | frames, hash table, clock hand | `readPage`, `allocPage`, `unPinPage`, `flushFile`, `disposePage` |
| Heap files | `heapfile.C` | header page, page chain; per object: current page, dirty flags, position, mark | constructors, destructors, `getRecord`, `scanNext`, `markScan`, `resetScan`, `endScan`, `deleteRecord`, `insertRecord` |
| Open files | `db.C` class `DB`, `quit.C` | open-file table, `File` objects, open counts | `openFile`, `closeFile`, `createHeapFile`, `destroyHeapFile`, exit |
| Catalogs | `catalog.C`, `create.C`, `destroy.C`, `parser/interp.C` | relcat, attrcat, one file per relation | `createRel`, `destroyRel`, queries with a temporary result |
| Parser | `parser/parse.y`, `nodes.C`, `scanhelp.C` | pools of nodes and characters, `parse_tree` | one round of `parse()` |
| Interpreter | `parser/interp.C` | four global arrays, the status of the command | one case per command |
| Operators | `select.C`, `join.C`, `insert.C`, `delete.C`, `load.C`, `print.C`, `help.C` | the tuples of the relations, the positions of the scans | a step per tuple |
| Sort | `sort.C` | the temporary file of the first run, a scan of the source file | construction, destruction; used by no command |
| Partition, join hash table | `partition.C`, `joinHT.C` | | used by no command |

`minirel` calls `parse()`, which reads a command, builds its tree and gives it to
`interp`. `interp` checks the names in the catalogs and calls an operator; the
operators open heap files, which pin pages of the pool, which reads and writes
files. `Session` has the upper half of this chain and treats a relation as a
sequence of tuples; `HeapFile`, `BufMgr`, `DBFile` and `DB` have the lower half.

## Modules

| Module | Models | Correspondence |
|---|---|---|
| `Page` | `page.C` | One action per call. `nslots` is `-slotCnt`. The bytes are there, so that compaction really moves them. |
| `PageSpec` | what a page promises | A function from slots to records. |
| `DBFile` | class `File` | One action per call; each write is a point where the call may fail. `File` caches nothing, so a crash after a write leaves the disk that a failure of the next write leaves. |
| `FileSpec` | what a file promises | A set of pages in use, each with a content. |
| `BufMgr` | `buf.C`, `bufHash.C` | One action per call, plus `Modify` for a caller that writes through its `Page*`. The hash chains are a function from pages to frames. The clock sweep is one step, in closed form. |
| `BufClock` | `allocBuf` | The sweep as the loop it is in the code, a function of the number of iterations; `SweepIsLoop` compares the two. |
| `BufferSpec` | what the manager promises | Contents and pins per page; no frames. |
| `HeapFile` | `heapfile.C` | Pages and pins as in `BufferSpec`, slots as in `PageSpec`. `due` and `seen` record what a scan owes and has returned, `repeated` the records that a `scanNext` should not have returned. |
| `DB` | class `DB`, `createHeapFile`, `destroyHeapFile`, `UT_Quit` | `File` objects are addresses, which may be reused. |
| `Catalog` | `createRel`, `destroyRel`, queries | One action per change of a catalog or a file; every one may fail. An entry lies on a page; `relDisk` and `attrDisk` are what a crash leaves, `torn` the catalogs of several pages that one has hit. |
| `RelationSpec` | what the catalogs promise | A relation has a schema or does not exist. |
| `Tuple` | `matchRec`, the conversions in `insert.C` and `select.C` | INTEGERs wrap at `Bits` bits, a FLOAT is a number of halves, a STRING a sequence of characters with NULs. A literal is what `atoi`, `atof` and its text say of it. |
| `Parser` | the grammar, `nodes.C`, `scanhelp.C` | `Syntax` has the commands, `Tree` replaces aliases, `Nodes` and `Chars` count what a command takes from the pools; a syntax error takes any number of both before it is met. |
| `Session` | `parse()`, `interp`, the operators | `Type` is one round of `parse()`; `Query`, `Insert`, `Create`, ... are the cases of `interp`; `Select`, `Outer`, `Inner` and `Delete` are steps of the scans. `top` has the highest element written of each array. Memory that was never set has any value of `Junk`. `typed` and `before` are history. |
| `Sort` | `sort.C` | Several `SortedFile`s of one source file. `generateRun` is a step per call on the temporary file, up to the one that fails. |
| `MC*` | | Constants for TLC. |
| `*Proofs` | | The theorems. |

`Catalog` and `Session` both have create, destroy and queries. In `Catalog` they are
sequences of catalog changes that may fail or be cut off; in `Session` they are
whole commands with their checks and their effect on tuples.

The pages of a catalog. `relCat` and `attrCat` are heap files that the program
opens when it starts and deletes in `UT_Quit`. A heap file keeps its header page and
the data page it stands on pinned, here the first (`heapfile.C:80-119`), so these two
are written by `UT_Quit` and never before. Every other page is written when the pool
evicts it (`Evictable`, `WriteBack`), one page at a time. A restart after a crash
finds the header of the last `UT_Quit`, and with it the pages that it leads to
(`quitPages`). As long as those are one page per catalog, a crash takes both
catalogs back to the last `UT_Quit`. If there are more, it mixes an old first page with
later ones, and the catalog is `torn`: a removal on the first page is lost and the entry
that was added to a later page is not.

`BufMgr` uses files by what `FileSpec` promises, and `HeapFile` uses the pool and
pages by what `BufferSpec` and `PageSpec` promise. The refinement theorems are what
justify this layering; they hold without I/O errors for the pool, so `HeapFile`
says nothing about I/O errors.

## Runs

| Run | Shows | Bounds |
|---|---|---|
| `buffer` | Without I/O errors, pool, hash table and disk agree; a dirty unpin is never lost; the manager implements `BufferSpec`. | 3 pages of 2 files over 2 frames, 2 contents, 2 pins per page: each page can be evicted by the others, and two callers share a page. |
| `buffer_faults` | With any read or write failing, the hash table leads to the right frame, pinned frames stay, and the sweep is the loop. | The same pages, one content. |
| `page` | Records stay compacted and intact, and the space accounted for; the page implements `PageSpec`. | 7 bytes, slots of one byte: several records, empty slots in the middle and at the end. |
| `file` | The free list is exact after any failure; the file implements `FileSpec`. | 5 pages: lists of several free pages. |
| `heap` | Pins, dirty flags, chain and counts are exact; a scan returns every record it owes, each once, and no other. | Two scans, one deleting, one inserter, 3 frames, 4 pages. |
| `heap_marks` | The same for pins, flags and repetition with marks, resets, rescans and a `HeapFile`. | One scan, one inserter, one `HeapFile`, 4 frames, 3 pages. |
| `heap_emptied` | Finding: see below. | |
| `open_files` | Table, `File` objects, open counts and directory agree whatever fails, through crashes. | 2 names, 3 addresses, 3 handles. |
| `catalog` | Without failures the catalogs agree between commands, no temporary relation is left, and create and destroy are atomic. | 2 relations and the temporary one. |
| `catalog_faults` | Whichever steps fail and whenever the program crashes, no relation is listed twice, although pages of attrcat are written one by one. Until a crash finds several pages of attrcat, it has only attributes of listed relations, each once. | 1 relation and the temporary one, an attribute name and one that is too long, 3 entries of a relation in attrcat, which has up to 2 pages. |
| `session` | Select, join, insert and delete give what they should; a refused command does no harm, no command touches another relation; arrays hold; a command that was accepted is accepted again; every command ends. | See below. |
| `sort` | Finding: see below. | Two sorts of one file, up to 2 records. |

`session` types any of about seventy commands in any order, on the relations `R(a
INTEGER, s STRING)` and `S`, which is created with an INTEGER or a FLOAT attribute or
by a query, and destroyed. `MAXATTRS` = 3, so that lists of fewer, exactly and more
elements occur. `MAXNODE` = 16 and `MAXCHAR` = 20 are enough for each command by itself
(one insert apart, which takes 17 nodes, and syntax errors that are met after 17
nodes or 21 characters) but not for two of the longer ones together; a syntax error
may also come after 9 nodes, which a second one could not take again.
`MaxTuples` = 2 tuples per relation give joins of four pairs. Integers have 5 bits
and the values are small, so no difference overflows. A query into one of the
relations it reads stops at the bound.

Fairness: `Session` assumes `WF_vars(Step)`, that the program goes on by itself while
it is in a command. `parse()` is a sequential loop that waits for nobody but the
user, and nothing is assumed of the user: `Type` has no fairness. `CommandEnds` needs
it: whatever is typed, the program comes back to the prompt, exits or aborts. It
leaves out the query that reads its own result (`select.C:156`). All other
properties are invariants, action properties or refinements of safety
specifications, and the other modules assume no fairness.

The two runs of the pool use a `VIEW` without `status`. No action reads it, so
states that differ in it alone have the same successors. `heap` and `heap_marks` use the
symmetry of the two matching records. `session` may stop: the program has exited or
aborted.

## Where code and comments disagree

`heap_emptied`: after `endScan` a scan that starts again reports the end of the
file if the first page has no records, although later pages have
(`heapfile.C:301`); `heapfile.h:85` says "return RID of next record that satisfies
the scan".

`sort`: a sort of any file that has a record fails with UNIXERR. `generateRun` creates
the temporary file, destroys it, and constructs an `InsertFileScan`, which opens a file
and creates none (`sort.C:225-234`); `sort.C:230` says "Open a heap file. This will also
create the temporary file." The comparison of records, the merge and the marks lie
behind this point, are never reached, and are not modelled.

These further configurations each end with the violation named; `MCDBFrames.cfg`
passes. They are not part of the regular runs.

| Configuration (module) | Property | Shows |
|---|---|---|
| `MCBufGhost.cfg` (`MCBufMgr`) | `BufferedIsHashed` | A read or write that fails in `readPage` leaves a valid frame that is not in the hash table (`buf.C:124`, `156`; `buf.h:34`). |
| `MCHeapStale.cfg` (`MCHeapFile`) | `PinsExact` | A `getRecord` that finds the pool full keeps the pointer to a page it unpinned (`heapfile.C:189`; `heapfile.h:45`). |
| `MCHeapPageful.cfg` (`MCHeapFile`) | `OversizeRefused` | A record of 1001 to 1004 bytes passes the length check and does not fit on an empty page (`heapfile.C:501`). |
| `MCDBQuit.cfg` (`DB`) | `FlushedWhilePoolUp` | A file that `createHeapFile` left open is flushed through the deleted buffer manager at exit (`quit.C:32`, `db.C:223`). |
| `MCDBFrames.cfg` (`DB`) | `FramesOfLiveFiles` | Passes: without I/O errors no frame names a deleted `File`. |
| `MCCatalogNames.cfg` (`MCCatalog`) | `AttrCntExact` | A name that is too long leaves a relation with fewer attributes than relcat says (`create.C:56`; `catalog.h:24`). |
| `MCCatalogCrash.cfg` (`MCCatalog`) | `ListedOnceTorn` | With two pages of relcat, a crash may lose the removal of a relation and keep the entry of its second creation (`create.C:48`). |
| `MCSessionMethods.cfg` (`MCSession`) | `JoinAlwaysExact` | Sort-merge and hash join are stubs that return OK (`join.C:161`, `178`). |
| `MCSessionOverflow.cfg` (`MCSession`) | `JoinAlwaysExact` | The comparison by subtraction overflows (`heapfile.C:416`). |
| `MCSessionSelfJoin.cfg` (`MCSession`) | `SelfJoinExact` | A relation joined with itself gives the attributes of the outer tuple twice (`join.C:136`). |
| `MCSessionDelete.cfg` (`MCSession`) | `DeleteLikeSelect` | `QU_Delete` compares by the type of the literal, select by the type of the attribute (`delete.C:35`, `select.C:85`). |
| `MCSessionMaxAttrs.cfg` (`MCSession`) | `MaxAttrsAllowed` | A relation of MAXATTRS attributes is refused; `interp.C:22` says "max. number of attrs in a relation". |
| `MCSessionIndex.cfg` (`MCSession`) | `DefaultUnreached` | buildindex and dropindex reach the assertion of the default case, which is there "so that compiler won't complain" (`interp.C:568`). |

## Proofs

All from the named assumptions on the constants in each module.

* `BufMgrProofs`. `HashInvariant`: with I/O failing or not, a hash entry names the
  valid frame that holds its page, and unused frames are clean. The invariant is
  inductive as it stands; the work is in the lemmas on the clock sweep.
  `PinnedFramesStay` follows: a victim is unused or unpinned. `SweepIsTheLoop`: the
  state of the loop of `allocBuf` after n iterations has a closed form, which
  solves the recursion; in the second round exactly the frames with cleared
  reference bits are met again.
* The same module, for `IoFaults = FALSE`. `NothingLost` strengthens the first
  invariant with `BufferedIsHashed`, `NoLostUpdate` and `BufferedIsAllocated`, which
  need each other: that two frames never hold one page (`NoSecondCopy`) is what
  makes a write back the latest content. `Refinement`: the manager implements
  `BufferSpec`.
* `StorageProofs`, the page. `PageInvariant`: the conjunction of the page's properties, with the
  lengths of used slots, is inductive; compaction needs disjointness to know which
  offsets move. `PageStaysCompact` is a part of it. `PageRefinement`: the page
  implements `PageSpec`.
* The same module, for both classes of `db.C`. `FreeListInvariant`: the free list is exact
  after every failure. `FileRefinement`: the file implements `FileSpec`.
  `OpenFilesInvariant`: with `TypeOK`, the three properties of `open_files` are
  inductive together. A close deletes the `File` when its count is zero, which needs
  `HeldIsCounted` to know that nobody holds it; the work is in counting handles.
  `OneFilePerName` and `OpenFilesStay` are parts of it.
* Heap files, for any number of scans, inserters and `HeapFile`s on one file and any
  page size. `HeapCallProofs` has the lemmas about single calls: `HeapInv`, which says how
  an object's current page, position, pin and dirty flag belong together, is kept by
  every call; `OnePlace`, that no record is in two places, goes with it. They have as a
  hypothesis that sets of numbers have a least element (`LeastNumbers`), which
  `HeapFileProofs` proves. `HeapFileProofs` has the first four theorems, `HeapScanProofs`
  the last two:
  * `ChangesAnnounced`: a page that was changed is pinned by an object that will
    unpin it dirty.
  * `RecordsCounted`: `recCnt` is the number of records. It needs `OnePlace`; the work is
    in counting the places before and after.
  * `NoRecordTwice`: `repeated` collects every record that a `scanNext` returns although
    it does not match or the scan has returned it before, whatever page and slot
    it is in, and stays empty. `SeenBehind` says that whatever a scan has returned and is
    still there lies at or before its position, in the order of pages and slots.
    Deletions that trim the slot array and insertions into a slot the scan has left
    keep it.
  * `PinsBalanced`: the pins of a page are the objects that use it. If `getRecord` or
    `resetScan` may be called, the pool must have more frames than there are objects
    (`Roomy`): both unpin before they read, and if the read finds the pool full the
    object keeps a page that it has not pinned (`MCHeapStale.cfg`).
  * `ChainHolds` and `ScanMissesNone`, for one inserter (`OneInserter`): a second one
    appends to a page that is no longer the last. `ChainHolds` names the set of pages
    on the chain by an invariant and shows that the walk of `ChainExact` visits all of
    it. `ScanMissesNone`: what a scan still owes lies ahead of it on the chain; marks
    and resets included. Scans that are started again after `endScan` are excepted
    (`Rescanners = {}`), as they do miss records (`heap_emptied`).
* `CatalogProofs`. `CatalogInvariant`, with any step failing, with crashes, and with any
  number of pages. The strengthening says what the command underway may rely on: the
  name that create is about to list is free, the attributes that destroy has still
  to remove are all there are, and those that create has still to add are new. Of the
  disk it says that the catalogs of one page are there as the last `UT_Quit` wrote them,
  when they had these properties: it is `Evictable` that leaves the first page out.
  Nothing is said of a catalog of several pages once a crash has hit it, because
  nothing holds (`MCCatalogCrash.cfg`). `NoOrphanAttributes` and `AttributesListedOnce`
  are parts of it.
* The same module, if no step fails (`Smooth`: no fault, no crash, no name that is too
  long, which `createRel` notices half-way). `CatalogsStayTogether`: the invariant
  `Intact` says at each step of a command what it has made, or left, of its relation,
  and that all others are whole or nowhere. `CreateDestroyAtomic`: the catalogs
  implement `RelationSpec`. A relation appears with `createHeapFile`, the last step of
  create, and disappears with its first attribute, the first step of destroy.
* `SessionProofs`. `SessionInvariant`, for any set of commands of the grammar and any
  sizes. The strengthening says that tree and relations belong to the command typed
  last, that other relations are as before, that a status that is not OK goes with
  relations that are unharmed, and that no scan goes on after an error.
  It needs nothing of the comparison of values. `NoArrayOverrun` and
  `CommandsKeepToTheirRelation` are parts of it. `RepeatsAreAccepted`: the pools had room
  for the command typed last, if the program goes on (`Affordable`), so they have room
  for it again, as `new_query` gives everything back.
  `InsertsAreFound`: a tuple is found by each value it was inserted with. The
  invariant `ListInv` says that relations are lists of attributes, each with a type
  and a length, and of tuples. The loop of `QU_Insert` over the attributes is a
  recursive function, for which the proof gives a closed form; then a value is
  stored as the filter that matches it, cut at the length of its attribute, and
  what lies behind the NUL of a string does not count.
* `AnswerProofs`, what the operators compute, for any relations. `AnswerInv` adds to the
  invariants of the session what a scan has done when it stands at a tuple:
  * `SelectsAreExact`: the result has the rows of the tuples that the scan has hit so far,
    in order (`SelectLoop`); at the end these are all.
  * `JoinsAreExact`: the result has, each once, the pairs that qualify among those that
    the two loops have met (`JoinLoop`). The filter of the inner scan is the value of
    the outer tuple with the operator turned round, and both sides have one type.
  * `DeletesAreExact`: the scan removes tuples from the list it goes along, and its
    place in that list is not the place in the old one. `DeleteLoop` relates
    the two (`Swept`): the doomed tuples up to some place of the old list are gone, and
    the others follow one another in both.

  That the comparison of `matchRec`, by a difference that wraps, is the comparison that
  is meant holds where the difference is an int, which the properties ask for
  (`Comparable`).
The provers cannot use the library's induction theorems. Where a proof needs
induction over numbers, it takes the least counterexample (`LeastNat`). They do not
know powers either: `PowerAssumption` of `Tuple` is arithmetic, not an assumption about
the code. `Page`, `DB` and `DBFile` name their variables and actions apart, so that one
module can extend them.

Only model-checked, because out of reach of the prover: `CommandEnds`, which is
liveness. Every other property of the passing runs is also a theorem.

## Assumptions and omissions

* The callers of the pool pin what they change and say so when they unpin;
  `ChangesAnnounced` and `PinsBalanced` show that heap files do.
* One `InsertFileScan` per file, as in every command. Two would break the chain.
* A page is disposed of once, and by nobody in this repository: `disposePage` does not
  notice a page that is on the free list already (`db.C:317`).
* `RelCatalog::removeInfo` uses a deleted scan (`catalog.C:89`). The model assumes
  the call does nothing.
* A `HeapFile` constructor that finds no frame goes on with an undefined pointer
  (`heapfile.C:96-112`); not modelled.
* A crash after a catalog of several pages has got a new page is not modelled: the page
  before it on disk may lead to one that was never written.
* An object on a heap file whose last call failed is closed and not used again (`Usable`),
  as in every command.
* `Session` knows the catalogs as names that load and destroy refuse. insert, delete and
  print accept them, and so does a query that names the temporary relation as its
  result; the properties of `Session` are about the other relations.
* Behind a short string `QU_Insert` copies bytes past the end of the literal. The model
  has their values (`Junk`), not where they come from. A number is converted in the
  buffer of the literal, which a literal shorter than 4 bytes does not fill; what that
  write hits is not modelled.
* That a scan is complete is model-checked without marks; `ScanMissesNone` proves it
  with marks.
* `Session` assumes that a scan returns each record once, in order, and that files
  and pages are there; that is what `HeapFile`, `BufMgr` and `DB` are about. The
  exception that `heap_emptied` shows needs a scan that starts again after
  `endScan`, which no operator does.
* Undefined behaviour: a join of attributes of different types compares bytes of
  the one as the other, and the model allows either result; memory that was never
  set has any value of `Junk`; a star over two tables, which gives the interpreter
  no list to read, ends the behaviour.
* `SelectExact`, `JoinExact` and `DeleteExact` are said of values whose
  differences are ints.

## Not modelled

* The automata of lex and yacc and the spelling of commands (`scan.l`, `y.tab.h`,
  `get_id`): a command is typed as a whole, and a text that is none is the command
  `error`, which may have taken nodes and characters. The primary attribute of create, which `interp` ignores.
* The limit on the width of a tuple (`create.C:39`), and the layout of a tuple beyond
  the order and lengths of its attributes.
* `joinHT.C` and `partition.C`: no command and no other class uses them; the hash
  join they are for is a stub. What they would have to be right for is not in the code.
* The sort behind the first `InsertFileScan` of `generateRun`. The destructor of a
  `SortedFile` whose constructor failed deletes pointers that were never set; the model
  ends there.
* Output: `print_error`, `echo_query`, `error.C`, the column widths of print, statistics
  and the dump functions.
* `perf_*`: hardware counters that are read and logged, with no effect on the
  database. `dbdestroy` removes a directory.

## Plan

1. Done: page, file, pool, open files, heap files, catalogs, session, with proofs, and
   sort as far as it goes.
2. An abstract heap file that `HeapFile` implements, and `Session` over that instead of
   sequences of tuples.
3. When the joins are written: partition, the join hash table, and the sort as the
   sort-merge join uses it.
