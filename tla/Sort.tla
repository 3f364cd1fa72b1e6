-------------------------------- MODULE Sort --------------------------------
(***************************************************************************)
(* External sort (sort.C): a SortedFile splits its source file into sorted *)
(* runs, each in a temporary file, and then merges them record by record.  *)
(*                                                                         *)
(* generateRun creates the file of a run and destroys it again, to see     *)
(* that nobody else has one of that name, and then opens an InsertFileScan *)
(* on it.  That opens a file and creates none, so the first run of every   *)
(* source file that has a record fails.  A constructor ends here either    *)
(* with an error or, of an empty file, without runs; the merge, the marks  *)
(* and the comparison of records, which come behind the first run, are     *)
(* never reached and not modelled.                                         *)
(*                                                                         *)
(* Several SortedFiles on one source file share the names of their         *)
(* temporary files, of which only the first, fileName.sort.1, is ever made.*)
(***************************************************************************)
EXTENDS Naturals

CONSTANTS
  Sorts,      \* objects of class SortedFile, all on the same source file
  MaxRecords  \* bound: records of the source file

VARIABLES
  records,  \* how many records the source file has
  temp,     \* is there a file of the name of the first run?
  sort,     \* for each object: where it is, its runs, what the last call returned
  scans     \* the objects that hold a scan of the source file (hfs)

sortVars == <<records, temp, sort, scans>>

\* at: "none", a step of generateRun, of which "writing" is never reached, "open",
\* "failed" when the constructor has returned an error, "undefined" once a pointer
\* that was never set is deleted.
NoSort == [at |-> "none", runs |-> 0, status |-> "OK"]

SortInit ==
  /\ records \in 0 .. MaxRecords
  /\ temp = FALSE
  /\ sort = [x \in Sorts |-> NoSort]
  /\ scans = {}

Goto(x, l) == sort' = [sort EXCEPT ![x].at = l]
Fails(x, why) == sort' = [sort EXCEPT ![x].at = "failed", ![x].status = why]

-----------------------------------------------------------------------------
(* The constructor *)

\* A bad offset, length or type, or room for fewer than two records.
ConstructRefused(x) ==
  /\ sort[x].at = "none"
  /\ \E why \in {"BADSORTPARM", "INSUFMEM"} : Fails(x, why)
  /\ UNCHANGED <<records, temp, scans>>

\* sortFile: the scan of the source file gives the records of a first run, which
\* gets its place in runs, or none.
Construct(x) ==
  /\ sort[x].at = "none"
  /\ IF records = 0
     THEN Goto(x, "open") /\ UNCHANGED scans
     ELSE /\ sort' = [sort EXCEPT ![x].at = "createFile", ![x].runs = 1]
          /\ scans' = scans \cup {x}
  /\ UNCHANGED <<records, temp>>

\* generateRun, step by step.  An error leaves the scan of the source file open.
CreateTemp(x) ==
  /\ sort[x].at = "createFile"
  /\ IF temp THEN Fails(x, "FILEEXISTS") /\ UNCHANGED temp
     ELSE Goto(x, "destroyFile") /\ temp' = TRUE
  /\ UNCHANGED <<records, scans>>

DestroyTemp(x) ==
  /\ sort[x].at = "destroyFile"
  /\ temp' = FALSE
  /\ Goto(x, "openFile")
  /\ UNCHANGED <<records, scans>>

\* new InsertFileScan: HeapFile opens the file, if it is there.
OpenTemp(x) ==
  /\ sort[x].at = "openFile"
  /\ IF temp THEN Goto(x, "writing") ELSE Fails(x, "UNIXERR")
  /\ UNCHANGED <<records, temp, scans>>

-----------------------------------------------------------------------------
(* Operations on an object without runs, and the destructor *)

NextRecord(x) ==
  /\ sort[x].at = "open"
  /\ sort' = [sort EXCEPT ![x].status = "FILEEOF"]
  /\ UNCHANGED <<records, temp, scans>>

\* setMark and gotoMark: a loop over no runs.
Mark(x) ==
  /\ sort[x].at = "open"
  /\ sort' = [sort EXCEPT ![x].status = "OK"]
  /\ UNCHANGED <<records, temp, scans>>

\* ~SortedFile.  The failed constructor has set no inFile, and no buffer if its
\* parameters were refused.
Destroy(x) ==
  /\ \/ sort[x].at = "open" /\ sort' = [sort EXCEPT ![x] = NoSort]
     \/ sort[x].at = "failed" /\ Goto(x, "undefined")
  /\ UNCHANGED <<records, temp, scans>>

\* The program ends, and another one sorts the file.
Crash ==
  /\ sort' = [x \in Sorts |-> NoSort]
  /\ scans' = {}
  /\ UNCHANGED <<records, temp>>

\* One object at a time is in its constructor.
Constructing(x) == sort[x].at \in {"createFile", "destroyFile", "openFile"}
SortNext ==
  \/ \E x \in Sorts :
       /\ \A y \in Sorts \ {x} : ~Constructing(y)
       /\ \/ ConstructRefused(x) \/ Construct(x) \/ CreateTemp(x) \/ DestroyTemp(x) \/ OpenTemp(x)
          \/ NextRecord(x) \/ Mark(x) \/ Destroy(x)
  \/ Crash

SortSpec == SortInit /\ [][SortNext]_sortVars

-----------------------------------------------------------------------------
(* Properties *)

\* "Open a heap file. This will also create the temporary file" (generateRun): a
\* sort is refused only if it was asked for wrongly or the name is taken.
TempFileCreated == \A x \in Sorts : sort[x].status # "UNIXERR"
=============================================================================
