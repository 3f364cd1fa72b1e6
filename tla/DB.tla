--------------------------------- MODULE DB ---------------------------------
(***************************************************************************)
(* The open files of db.C: class DB, its OpenFileHashTbl and the File      *)
(* objects it makes and deletes, with createHeapFile and destroyHeapFile   *)
(* on top.  A File is known by its address: the buffer pool names a page   *)
(* by (File*, pageNo), and a new File may take the address of a deleted    *)
(* one.  Handles are the HeapFile objects, each of which holds one File    *)
(* from its constructor to its destructor.                                 *)
(***************************************************************************)
EXTENDS Integers, FiniteSets

CONSTANTS
  Names,    \* file names
  Files,    \* addresses of File objects
  Handles,  \* HeapFile objects
  NoFile,   \* a null File*
  MaxOpen,  \* bound: openCnt of a file
  Faults    \* may I/O fail or the buffer pool be full?

ASSUME FilesAssumption == NoFile \notin Files
ASSUME HandlesAssumption == IsFiniteSet(Handles)
ASSUME MaxOpenAssumption == MaxOpen \in Nat \ {0}
ASSUME FaultsAssumption == Faults \in BOOLEAN

VARIABLES
  disk,      \* what the directory has under a name
  openFiles, \* the hash table: the File of each open name
  live,      \* the File objects that exist
  fileName,  \* their names
  openCnt,   \* their open counts
  holds,     \* the File that each handle has open
  cached,    \* the addresses that frames of the buffer pool name
  pinned,    \* those with a frame that nobody will unpin
  late,      \* did the last exit flush a File when the pool was gone?
  status     \* what the last call returned

table == <<openFiles, live, fileName, openCnt>>
vars == <<disk, table, holds, cached, pinned, late, status>>

Init ==
  /\ disk = [n \in Names |-> "absent"]
  /\ openFiles = [n \in Names |-> NoFile]
  /\ live = {}
  /\ fileName \in [Files -> Names]
  /\ openCnt = [o \in Files |-> 0]
  /\ holds = [h \in Handles |-> NoFile]
  /\ cached = {}
  /\ pinned = {}
  /\ late = FALSE
  /\ status = "OK"

-----------------------------------------------------------------------------
(* openFile and closeFile *)

\* openFile makes a File for a name that is not open.
OpenAnew(n, o) ==
  /\ disk[n] # "absent" /\ o \notin live
  /\ openCnt' = [openCnt EXCEPT ![o] = 1]
  /\ live' = live \cup {o}
  /\ fileName' = [fileName EXCEPT ![o] = n]
  /\ openFiles' = [openFiles EXCEPT ![n] = o]

\* A file that is open already is not counted again.
OpenUncounted(n, o) ==
  \/ /\ o = openFiles[n] /\ UNCHANGED table
  \/ openFiles[n] = NoFile /\ OpenAnew(n, o)

\* openFile succeeds and returns File o.
OpenFile(n, o) ==
  \/ /\ o = openFiles[n] /\ o # NoFile /\ openCnt[o] < MaxOpen
     /\ openCnt' = [openCnt EXCEPT ![o] = @ + 1]
     /\ UNCHANGED <<openFiles, live, fileName>>
  \/ openFiles[n] = NoFile /\ OpenAnew(n, o)

\* openFile fails: no such file, or ::open fails.
OpenFails(n) == openFiles[n] = NoFile /\ (disk[n] = "absent" \/ Faults)

\* The constructor of a HeapFile, which reads the header page.  What it does
\* with a file that createHeapFile did not finish is undefined.
Open(h, n) ==
  /\ holds[h] = NoFile /\ disk[n] # "partial"
  /\ \/ /\ \E o \in Files :
             /\ OpenFile(n, o)
             /\ holds' = [holds EXCEPT ![h] = o]
             /\ cached' = cached \cup {o}
        /\ status' = "OK"
     \/ /\ OpenFails(n)
        /\ status' = "UNIXERR"
        /\ UNCHANGED <<table, holds, cached>>
  /\ UNCHANGED <<disk, pinned, late>>

\* What flushFile leaves of the frames of o at its last close; its status is
\* ignored.  It stops at a pinned page and at a write that fails.
FramesAfterClose(o) ==
  IF o \in pinned THEN {cached}
  ELSE {cached \ {o}} \cup IF Faults THEN {cached} ELSE {}

\* The table keeps the name of a closed file.
CloseFileNotErased(o) ==
  /\ openCnt' = [openCnt EXCEPT ![o] = @ - 1]
  /\ IF openCnt[o] = 1
     THEN live' = live \ {o} /\ cached' \in FramesAfterClose(o)
     ELSE UNCHANGED <<live, cached>>
  /\ UNCHANGED <<openFiles, fileName>>

\* closeFile
CloseFile(o) ==
  /\ openCnt' = [openCnt EXCEPT ![o] = @ - 1]
  /\ IF openCnt[o] = 1
     THEN /\ live' = live \ {o}
          /\ openFiles' = [openFiles EXCEPT ![fileName[o]] = NoFile]
          /\ cached' \in FramesAfterClose(o)
     ELSE UNCHANGED <<live, openFiles, cached>>
  /\ UNCHANGED fileName

\* The destructor of a HeapFile: it has unpinned its pages.
Close(h) ==
  /\ holds[h] # NoFile
  /\ CloseFile(holds[h])
  /\ holds' = [holds EXCEPT ![h] = NoFile]
  /\ status' = "OK"
  /\ UNCHANGED <<disk, pinned, late>>

-----------------------------------------------------------------------------
(* createHeapFile and destroyHeapFile *)

\* The file is there: createHeapFile has opened it to find out.
CreateExisting(n) ==
  /\ \/ \E o \in Files : OpenFile(n, o)
     \/ OpenFails(n) /\ disk[n] # "absent" /\ UNCHANGED table
  /\ status' = "FILEEXISTS"
  /\ UNCHANGED <<disk, cached, pinned>>

\* It is created, opened, filled with a header and a data page, flushed and
\* closed, all of which succeeds.
CreateCompletes(n) ==
  /\ OpenFails(n) /\ disk[n] = "absent"
  /\ disk' = [disk EXCEPT ![n] = "heap"]
  /\ status' = "OK"
  /\ UNCHANGED <<table, cached, pinned>>

\* createFile or the second openFile fails.
CreateUnopened(n) ==
  /\ Faults /\ OpenFails(n) /\ disk[n] = "absent"
  /\ disk' \in {disk, [disk EXCEPT ![n] = "partial"]}
  /\ status' = "UNIXERR"
  /\ UNCHANGED <<table, cached, pinned>>

\* allocPage or flushFile fails: createHeapFile returns with the file open,
\* with no frame, with the header page pinned, or with both pages unpinned.
CreateAbandoned(n) ==
  /\ Faults /\ OpenFails(n) /\ disk[n] = "absent"
  /\ \E o \in Files \ live :
       /\ disk' = [disk EXCEPT ![n] = "partial"]
       /\ openFiles' = [openFiles EXCEPT ![n] = o]
       /\ live' = live \cup {o}
       /\ fileName' = [fileName EXCEPT ![o] = n]
       /\ openCnt' = [openCnt EXCEPT ![o] = 1]
       /\ \/ UNCHANGED <<cached, pinned>>
          \/ cached' = cached \cup {o} /\ pinned' \in {pinned, pinned \cup {o}}
  /\ status' = "error"

\* createHeapFile
CreateHeapFile(n) ==
  /\ CreateExisting(n) \/ CreateCompletes(n) \/ CreateUnopened(n) \/ CreateAbandoned(n)
  /\ UNCHANGED <<holds, late>>

\* destroyHeapFile without the check that the file is closed.
DestroyOpen(n) ==
  /\ disk' = [disk EXCEPT ![n] = "absent"]
  /\ status' = IF disk[n] = "absent" THEN "UNIXERR" ELSE "OK"
  /\ UNCHANGED <<table, holds, cached, pinned, late>>

\* destroyHeapFile: DB::destroyFile
DestroyHeapFile(n) ==
  /\ \/ /\ openFiles[n] # NoFile
        /\ status' = "FILEOPEN" /\ UNCHANGED disk
     \/ /\ openFiles[n] = NoFile
        /\ disk' = [disk EXCEPT ![n] = "absent"]
        /\ status' = IF disk[n] = "absent" THEN "UNIXERR" ELSE "OK"
     \/ /\ Faults /\ openFiles[n] = NoFile
        /\ status' = "UNIXERR" /\ UNCHANGED disk
  /\ UNCHANGED <<table, holds, cached, pinned, late>>

-----------------------------------------------------------------------------
(* The end of the process *)

\* Whether by exit or not, the objects go with the process and the files stay.
Gone ==
  /\ openFiles' = [n \in Names |-> NoFile]
  /\ live' = {}
  /\ openCnt' = [o \in Files |-> 0]
  /\ holds' = [h \in Handles |-> NoFile]
  /\ cached' = {}
  /\ pinned' = {}
  /\ UNCHANGED <<disk, fileName>>

\* UT_Quit deletes the catalogs and the pool and calls exit, which runs the
\* destructor of db: ~OpenFileHashTbl deletes the Files still in the table,
\* and ~File flushes through bufMgr, which points to the deleted pool.
Quit ==
  /\ \A h \in Handles : holds[h] = NoFile
  /\ Gone
  /\ late' = (live # {})
  /\ status' = "quit"

\* A crash.
Crash == Gone /\ late' = FALSE /\ status' = "crash"

Next ==
  \/ \E h \in Handles, n \in Names : Open(h, n)
  \/ \E h \in Handles : Close(h)
  \/ \E n \in Names : CreateHeapFile(n) \/ DestroyHeapFile(n)
  \/ Quit
  \/ Crash

Spec == Init /\ [][Next]_vars

-----------------------------------------------------------------------------
(* Properties *)

\* The variables keep their types.
TypeOK ==
  /\ disk \in [Names -> {"absent", "partial", "heap"}]
  /\ openFiles \in [Names -> Files \cup {NoFile}]
  /\ live \subseteq Files
  /\ fileName \in [Files -> Names]
  /\ openCnt \in [Files -> 0 .. MaxOpen]
  /\ holds \in [Handles -> Files \cup {NoFile}]
  /\ cached \subseteq Files
  /\ pinned \subseteq Files
  /\ late \in BOOLEAN
  /\ status \in {"OK", "UNIXERR", "FILEEXISTS", "FILEOPEN", "error", "quit", "crash"}

\* The table and the File objects agree: an open name leads to the one File
\* of that name, and no File is out of the table.  Were there two Files of
\* one name, the pool would hold two copies of each page.
TableExact ==
  /\ \A n \in Names : openFiles[n] # NoFile =>
       openFiles[n] \in live /\ fileName[openFiles[n]] = n
  /\ \A o \in live : openFiles[fileName[o]] = o

\* A File is deleted only when no handle has it any more: its open count is
\* at least the number of its handles.
Holders(o) == {h \in Handles : holds[h] = o}
HeldIsCounted ==
  \A o \in Files : /\ Cardinality(Holders(o)) <= openCnt[o]
                   /\ o \in live <=> openCnt[o] > 0

\* An open file exists: DB::destroyFile removes none that somebody has open.
OpenExists == \A o \in live : disk[fileName[o]] # "absent"

\* No frame of the pool names a deleted File, whose address the next File
\* may take: closeFile flushes before it deletes.
FramesOfLiveFiles == cached \subseteq live

\* ~File: a file that is left open is "closed down if open and buffer pages
\* flushed", which takes a buffer pool that still exists.
FlushedWhilePoolUp == ~late
=============================================================================
