------------------------------ MODULE Catalog -------------------------------
(***************************************************************************)
(* The catalogs relcat and attrcat (catalog.C), and the commands that      *)
(* change them: create (create.C), destroy (destroy.C) and a query, which  *)
(* keeps its result in a temporary relation (interp.C).  A command is a    *)
(* sequence of steps, each of which changes one catalog or one file and    *)
(* may fail; the command then returns and undoes nothing.                  *)
(*                                                                         *)
(* An entry of a catalog lies on a page of its heap file.  The program     *)
(* holds both catalogs open from start to end, relCat and attrCat with the *)
(* header page and the first data page of their files pinned: those two    *)
(* are written when the program ends, and not before.  Every other page is *)
(* written whenever it is evicted, on its own.  createHeapFile, by         *)
(* contrast, flushes the file it makes.                                    *)
(***************************************************************************)
EXTENDS Integers, Sequences, FiniteSetsExt

CONSTANTS
  UserRels,   \* the relations that users create
  Temp,       \* "Tmp_Minirel_Result"
  Attrs,      \* attribute names
  TooLong,    \* those of MAXNAME characters or more
  AttrLists,  \* the attribute lists that create is called with
  MaxEntries, \* bound: attrcat entries of a relation, which crashes may repeat
  MaxPages,   \* bound: the data pages of each catalog
  Crashes,    \* may the program crash?
  Faults,     \* may a step fail for want of a frame or on an I/O error?
  NoSchema    \* no relation, in the refinement

Catalogs == {"rel", "attr"}

ASSUME NamesAssumption == Temp \notin UserRels /\ TooLong \subseteq Attrs
ASSUME ListsAssumption == AttrLists \subseteq Seq(Attrs) \ {<<>>}
ASSUME BoundsAssumption == MaxEntries \in Nat /\ MaxPages \in [Catalogs -> Nat \ {0}]
ASSUME NoSchemaAssumption == NoSchema \notin Seq(Attrs)
ASSUME SwitchesAssumption == Crashes \in BOOLEAN /\ Faults \in BOOLEAN

Rels == UserRels \cup {Temp}

VARIABLES
  relcat,    \* the entries of a relation in relcat, in the order of a scan
  attrcat,   \* its entries in attrcat
  pages,     \* the pages of each catalog; the last takes the insertions
  relDisk,   \* relcat as it is on disk
  attrDisk,  \* attrcat as it is on disk
  quitPages, \* the pages of each catalog when the program last ended
  file,      \* the heap file of a relation, always on disk
  open,      \* is that left open by nobody in particular?
  cmd,       \* the command in progress: its next step, its relation, the
             \* attributes it has still to do, and whether it is a query
  torn       \* history: the catalogs of several pages that a crash has hit

catalogs == <<relcat, attrcat, pages>>
disks == <<relDisk, attrDisk, quitPages>>
vars == <<catalogs, disks, file, open, cmd, torn>>

\* An entry: what it says of the relation, that is the attrCnt of a RelDesc or
\* the attrName of an AttrDesc, and the page it lies on.
Entry(S) == [desc : S, page : Nat]

\* What the entries of a relation say.
Descs(entries) == [i \in DOMAIN entries |-> entries[i].desc]
AttrCnts == [r \in Rels |-> Descs(relcat[r])]
AttrNames == [r \in Rels |-> Descs(attrcat[r])]

Idle == [pc |-> "idle", rel |-> Temp, todo |-> <<>>, query |-> FALSE]
AtRest == cmd.pc = "idle"
Goto(l) == cmd' = [cmd EXCEPT !.pc = l]
Return == cmd' = Idle

Init ==
  /\ relcat = [r \in Rels |-> <<>>]
  /\ attrcat = [r \in Rels |-> <<>>]
  /\ pages = [rel |-> 1, attr |-> 1]
  /\ relDisk = relcat
  /\ attrDisk = attrcat
  /\ quitPages = pages
  /\ file = [r \in Rels |-> "absent"]
  /\ open = [r \in Rels |-> FALSE]
  /\ cmd = Idle
  /\ torn = {}

\* A step fails, and the command returns its status.
StepFails(l) ==
  /\ Faults /\ cmd.pc = l
  /\ Return
  /\ UNCHANGED <<catalogs, disks, file, open>>

\* InsertFileScan::insertRecord puts an entry on the last page of catalog c, or
\* on a new one when that is full.
InsertPages(c) == {p \in {pages[c], pages[c] + 1} : p <= MaxPages[c]}

-----------------------------------------------------------------------------
(* createRel.  Calls that are refused at once change nothing, and are left *)
(* out: BADCATPARM, RELEXISTS, DUPLATTR, ATTRTOOLONG.                      *)

\* createRel does not look the relation up.
CreateAllowedTwice(r, as) == IsInjective(as)

\* createRel does not compare the attribute names.
CreateAllowedDup(r, as) == AttrCnts[r] = <<>>

\* The relation does not exist, and no attribute name occurs twice.
CreateAllowed(r, as) == AttrCnts[r] = <<>> /\ IsInjective(as)

StartCreate(r, as, query) ==
  /\ AtRest /\ CreateAllowed(r, as)
  /\ Len(AttrNames[r]) + Len(as) <= MaxEntries
  /\ cmd' = [pc |-> "addRel", rel |-> r, todo |-> as, query |-> query]
  /\ UNCHANGED <<catalogs, disks, file, open>>

\* RelCatalog::addInfo
AddRel ==
  /\ cmd.pc = "addRel"
  /\ \E p \in InsertPages("rel") :
       /\ relcat' = [relcat EXCEPT ![cmd.rel] =
                       Append(@, [desc |-> Len(cmd.todo), page |-> p])]
       /\ pages' = [pages EXCEPT !.rel = p]
  /\ Goto("addAttrs")
  /\ UNCHANGED <<attrcat, disks, file, open>>

\* The loop of createRel: NAMETOOLONG or AttrCatalog::addInfo.
AddAttr ==
  /\ cmd.pc = "addAttrs" /\ cmd.todo # <<>>
  /\ IF Head(cmd.todo) \in TooLong
     THEN Return /\ UNCHANGED <<attrcat, pages>>
     ELSE /\ \E p \in InsertPages("attr") :
               /\ attrcat' = [attrcat EXCEPT ![cmd.rel] =
                                Append(@, [desc |-> Head(cmd.todo), page |-> p])]
               /\ pages' = [pages EXCEPT !.attr = p]
          /\ cmd' = [cmd EXCEPT !.todo = Tail(@)]
  /\ UNCHANGED <<relcat, disks, file, open>>

\* createHeapFile: FILEEXISTS leaves the file open, unless it is part of a file
\* that cannot be opened; a failure on the way may leave part of a file, and
\* leave it open.
MakeFile ==
  /\ cmd.pc = "addAttrs" /\ cmd.todo = <<>>
  /\ \/ /\ file[cmd.rel] # "absent"
        /\ \/ open' = [open EXCEPT ![cmd.rel] = TRUE]
           \/ file[cmd.rel] = "partial" /\ UNCHANGED open
        /\ Return /\ UNCHANGED file
     \/ /\ file[cmd.rel] = "absent"
        /\ file' = [file EXCEPT ![cmd.rel] = "heap"]
        /\ (IF cmd.query THEN Goto("select") ELSE Return) /\ UNCHANGED open
     \/ /\ Faults /\ file[cmd.rel] = "absent"
        /\ file' = [file EXCEPT ![cmd.rel] = "partial"]
        /\ open' \in {open, [open EXCEPT ![cmd.rel] = TRUE]}
        /\ Return
  /\ UNCHANGED <<catalogs, disks>>

-----------------------------------------------------------------------------
(* destroyRel *)

\* getRelInfo gives dropRelation the attributes to remove; a relation without
\* attributes is RELNOTFOUND.
BeginDestroy(r) ==
  IF AttrNames[r] = <<>> THEN cmd' = Idle
  ELSE cmd' = [pc |-> "dropAttrs", rel |-> r, todo |-> AttrNames[r], query |-> FALSE]

StartDestroy(r) ==
  /\ AtRest /\ AttrNames[r] # <<>>
  /\ BeginDestroy(r)
  /\ UNCHANGED <<catalogs, disks, file, open>>

\* The entries without the first for attribute a.
RemoveFirst(entries, a) ==
  LET places == {i \in 1 .. Len(entries) : entries[i].desc = a}
  IN  IF places = {} THEN entries
      ELSE SubSeq(entries, 1, Min(places) - 1) \o SubSeq(entries, Min(places) + 1, Len(entries))

\* removeInfo also lowers attrCnt in relcat.
DropAttrCounts ==
  /\ cmd.pc = "dropAttrs" /\ cmd.todo # <<>>
  /\ attrcat' = [attrcat EXCEPT ![cmd.rel] = RemoveFirst(@, Head(cmd.todo))]
  /\ relcat' = [relcat EXCEPT ![cmd.rel][1].desc = @ - 1]
  /\ cmd' = [cmd EXCEPT !.todo = Tail(@),
                        !.pc = IF Len(cmd.todo) = 1 THEN "dropRel" ELSE @]
  /\ UNCHANGED <<pages, disks, file, open>>

\* AttrCatalog::removeInfo: the first entry of that name.
DropAttr ==
  /\ cmd.pc = "dropAttrs" /\ cmd.todo # <<>>
  /\ attrcat' = [attrcat EXCEPT ![cmd.rel] = RemoveFirst(@, Head(cmd.todo))]
  /\ cmd' = [cmd EXCEPT !.todo = Tail(@),
                        !.pc = IF Len(cmd.todo) = 1 THEN "dropRel" ELSE @]
  /\ UNCHANGED <<relcat, pages, disks, file, open>>

\* removeInfo takes the entry of relcat and destroyRel stops there.
DropRelOnly ==
  /\ cmd.pc = "dropRel"
  /\ relcat' = [relcat EXCEPT ![cmd.rel] = <<>>] /\ Return
  /\ UNCHANGED <<attrcat, pages, disks, file, open>>

\* RelCatalog::removeInfo: the first entry, if there is one.
DropRel ==
  /\ cmd.pc = "dropRel"
  /\ \/ AttrCnts[cmd.rel] = <<>> /\ Return /\ UNCHANGED relcat
     \/ /\ AttrCnts[cmd.rel] # <<>>
        /\ relcat' = [relcat EXCEPT ![cmd.rel] = Tail(@)]
        /\ Goto("dropFile")
  /\ UNCHANGED <<attrcat, pages, disks, file, open>>

\* destroyHeapFile: FILEOPEN, UNIXERR or done.
DropFile ==
  /\ cmd.pc = "dropFile"
  /\ file' = IF open[cmd.rel] THEN file ELSE [file EXCEPT ![cmd.rel] = "absent"]
  /\ Return
  /\ UNCHANGED <<catalogs, disks, open>>

-----------------------------------------------------------------------------
(* Queries, load, and the program *)

\* A query that creates its result t: attributes as of relation r.  Into the
\* temporary relation if relcat has none (else TMP_RES_EXISTS), into another
\* if attrcat has none.
Query(r, as, t) ==
  /\ AttrNames[r] # <<>> /\ Range(as) \subseteq Range(AttrNames[r])
  /\ t # Temp => AttrNames[t] = <<>>
  /\ StartCreate(t, as, TRUE)

\* QU_Select or QU_Join, whatever it returns; then the temporary relation is
\* printed and destroyed.  If its scan fails, UT_Print leaves the file open.
Select ==
  /\ cmd.pc = "select"
  /\ IF cmd.rel = Temp THEN BeginDestroy(Temp) ELSE Return
  /\ open' \in {open} \cup
       IF Faults /\ cmd.rel = Temp THEN {[open EXCEPT ![Temp] = TRUE]} ELSE {}
  /\ UNCHANGED <<catalogs, disks, file>>

\* UT_Load returns from a failed insertRecord, and UT_Print from a failed scan,
\* without closing the file.
LoadFails(r) ==
  /\ AtRest /\ Faults
  /\ AttrCnts[r] # <<>> /\ AttrNames[r] # <<>> /\ file[r] = "heap"
  /\ open' = [open EXCEPT ![r] = TRUE]
  /\ UNCHANGED <<catalogs, disks, file, cmd>>

\* The number of entries on pages up to p; entries are in the order of pages.
UpTo(entries, p) == Cardinality({i \in DOMAIN entries : entries[i].page <= p})

\* A catalog on disk once page p of it has been written.
Written(disk, cat, p) ==
  [r \in Rels |-> SubSeq(disk[r], 1, UpTo(disk[r], p - 1))
                    \o SubSeq(cat[r], UpTo(cat[r], p - 1) + 1, UpTo(cat[r], p))
                    \o SubSeq(disk[r], UpTo(disk[r], p) + 1, Len(disk[r]))]

\* Any page may be evicted.
EvictableAll(c) == 1 .. quitPages[c]

\* The pages of catalog c that nobody has pinned: not the first.  Those count
\* that the header page on disk leads to.
Evictable(c) == 2 .. quitPages[c]

\* A page is evicted, and written.  What is on disk matters after a crash only.
WriteBack ==
  /\ Crashes
  /\ \E c \in Catalogs : \E p \in Evictable(c) :
       /\ relDisk' = IF c = "rel" THEN Written(relDisk, relcat, p) ELSE relDisk
       /\ attrDisk' = IF c = "attr" THEN Written(attrDisk, attrcat, p) ELSE attrDisk
  /\ UNCHANGED <<catalogs, quitPages, file, open, cmd>>

\* UT_Quit writes both catalogs, and the program is started again.
Quit ==
  /\ AtRest
  /\ relDisk' = relcat /\ attrDisk' = attrcat /\ quitPages' = pages
  /\ open' = [r \in Rels |-> FALSE]
  /\ UNCHANGED <<catalogs, file, cmd>>

\* The program crashes, in createHeapFile with part of a file, and is started
\* again: it finds the catalogs that are on disk.  Left out is the crash after a
\* catalog of several pages has got a new one, whose predecessor on disk may
\* then lead to a page that was never written.
Crash ==
  /\ Crashes
  /\ \A c \in Catalogs : quitPages[c] \in {1, pages[c]}
  /\ relcat' = relDisk /\ attrcat' = attrDisk /\ pages' = quitPages
  /\ file' \in {file} \cup
       IF cmd.pc = "addAttrs" /\ cmd.todo = <<>> /\ file[cmd.rel] = "absent"
       THEN {[file EXCEPT ![cmd.rel] = "partial"]} ELSE {}
  /\ open' = [r \in Rels |-> FALSE]
  /\ cmd' = Idle
  /\ torn' = torn \cup {c \in Catalogs : quitPages[c] > 1}
  /\ UNCHANGED disks

\* What the program does of itself.
Step ==
  \/ \E r \in UserRels, as \in AttrLists : StartCreate(r, as, FALSE)
  \/ \E r, t \in Rels, as \in AttrLists : Query(r, as, t)
  \/ \E r \in Rels : StartDestroy(r) \/ LoadFails(r)
  \/ AddRel \/ AddAttr \/ MakeFile \/ Select
  \/ DropAttr \/ DropRel \/ DropFile
  \/ \E l \in {"addRel", "addAttrs", "dropAttrs", "dropRel", "dropFile"} : StepFails(l)
  \/ WriteBack \/ Quit

Next == (Step /\ UNCHANGED torn) \/ Crash

Spec == Init /\ [][Next]_vars

-----------------------------------------------------------------------------
(* Properties *)

\* The variables keep their types.
TypeOK ==
  /\ {relcat, relDisk} \subseteq [Rels -> Seq(Entry(Nat))]
  /\ {attrcat, attrDisk} \subseteq [Rels -> Seq(Entry(Attrs \ TooLong))]
  /\ {pages, quitPages} \subseteq [Catalogs -> Nat \ {0}]
  /\ file \in [Rels -> {"absent", "partial", "heap"}]
  /\ open \in [Rels -> BOOLEAN]
  /\ cmd \in [pc : {"idle", "addRel", "addAttrs", "select", "dropAttrs", "dropRel",
                    "dropFile"},
              rel : Rels, todo : Seq(Attrs), query : BOOLEAN]
  /\ torn \subseteq Catalogs

\* attrcat has no attributes of a relation that relcat does not list: createRel
\* adds the relation first and destroyRel removes it last, so that whichever
\* step fails leaves no attributes behind that a later create would add to.  A
\* crash finds both catalogs as the last UT_Quit wrote them, as their first
\* pages are pinned until then, unless that wrote several pages of one.
AttrsOfListed == torn = {} => \A r \in Rels : AttrNames[r] # <<>> => AttrCnts[r] # <<>>

\* relcat lists a relation once, whatever fails and whenever the program
\* crashes, and however many pages attrcat has: createRel looks the name up
\* before it adds it.  (A relcat of several pages may lose the removal of an
\* entry, on the first page, and keep the one that createRel added later.)
ListedOnce == "rel" \notin torn => \A r \in Rels : Len(AttrCnts[r]) <= 1

\* attrcat has an attribute of a relation once: createRel makes "sure there are
\* no duplicate attribute names" in its list, and no failure of an earlier
\* command, and no crash while the catalogs on disk have one page each, may
\* have left some of them behind.
AttrsOnce == torn = {} => \A r \in Rels : IsInjective(AttrNames[r])

\* The same of catalogs of any number of pages.
ListedOnceTorn == \A r \in Rels : Len(AttrCnts[r]) <= 1
AttrsOnceTorn == \A r \in Rels : IsInjective(AttrNames[r])

\* RelDesc::attrCnt is the "number of attributes" that attrcat has.
AttrCntExact ==
  AtRest => \A r \in Rels : AttrCnts[r] # <<>> => AttrCnts[r][1] = Len(AttrNames[r])

\* A relation that is listed in both catalogs and has its file.
Whole(r) == AttrCnts[r] = <<Len(AttrNames[r])>> /\ AttrNames[r] # <<>> /\ file[r] = "heap"

\* Between commands a relation is listed in both catalogs and has its file, or
\* is nowhere; the temporary one, which would keep every later query from
\* running (TMP_RES_EXISTS), is nowhere.
CatalogsAgree ==
  AtRest => \A r \in Rels :
    \/ r # Temp /\ Whole(r)
    \/ AttrCnts[r] = <<>> /\ AttrNames[r] = <<>> /\ file[r] = "absent"

\* A relation with all of its parts, as RelationSpec has it.
Schema == [r \in Rels |-> IF Whole(r) THEN AttrNames[r] ELSE NoSchema]

Relations == INSTANCE RelationSpec WITH schema <- Schema

\* Without failures create and destroy are atomic for a reader that asks for a
\* relation with all of its parts (createRel, destroyRel).
ImplementsRelations == Relations!Spec
=============================================================================
