------------------------------ MODULE Session ------------------------------
(***************************************************************************)
(* A session of minirel: the loop of parse() that reads a command, parses  *)
(* it and interprets the tree (parse.y, interp.C), with the operators that *)
(* the tree calls (select.C, join.C, insert.C, delete.C, load.C, print.C). *)
(*                                                                         *)
(* A relation is its attributes, in order, and its tuples in the order of  *)
(* a scan; that a scan of a heap file returns each of its records once, and*)
(* that create and destroy keep catalogs and files together, is the        *)
(* business of HeapFile and Catalog.  The loops of select, join and delete *)
(* take a step for each tuple that they look at.                           *)
(***************************************************************************)
EXTENDS Parser

CONSTANTS
  RelNames,      \* names of relations
  InitRels,      \* the relations of the database at the start
  UnixFiles,     \* contents of the files that may be loaded
  Commands,      \* what the user may type
  MAXATTRS,      \* size of the arrays of the interpreter
  MAXNODE,       \* nodes of the pool
  MAXCHAR,       \* characters of the pool
  MAXSTRINGLEN,  \* characters of a string
  JoinMethod,    \* the argument of minirel
  Numbered(_, _),\* the name of an attribute that is in the result already
  MaxTuples      \* bound: tuples of a relation

ASSUME NamesAssumption == RelNames \subseteq STRING \ ({"", "Tmp_Minirel_Result"} \cup CatNames)
ASSUME InitRelsAssumption ==
  DOMAIN InitRels \subseteq RelNames /\ \A r \in DOMAIN InitRels :
    /\ InitRels[r] = [attrs |-> InitRels[r].attrs, tuples |-> InitRels[r].tuples]
    /\ InitRels[r].attrs \in Seq([name : STRING, type : Types, len : Nat]) \ {<<>>}
    /\ InitRels[r].tuples \in Seq(Range(InitRels[r].tuples))
ASSUME UnixFilesAssumption == \A recs \in UnixFiles : recs \in Seq(Range(recs))
ASSUME CommandsAssumption == Commands \subseteq Syntax(RelNames, UnixFiles)
ASSUME MAXATTRSAssumption == MAXATTRS \in Nat \ {0}
ASSUME PoolAssumption == MAXNODE \in Nat /\ MAXCHAR \in Nat
ASSUME JoinMethodAssumption == JoinMethod \in {"NL", "SM", "HJ"}

Temp == "Tmp_Minirel_Result"
Rels == RelNames \cup {Temp}
NoRel == [attrs |-> <<>>, tuples |-> <<>>]
Arrays == {"names", "qual_attrs", "attr_descrs", "ins_attrs", "attrList"}

VARIABLES
  pc,                \* where the program is
  nodeptr, charptr,  \* the next free place of the two pools
  parse_tree,        \* the tree of the last command
  rels,              \* the relations; NoRel if there is none of that name
  pos, ipos,         \* the places of the scan, or of the outer and inner scan
  top,               \* the highest index of each array that the command used
  status,            \* how the command ended
  shown,             \* the tuples that it printed
  typed, before      \* history: the last command, and the relations before it

db == <<rels, typed, before>>
scan == <<pos, ipos>>
pool == <<nodeptr, charptr, parse_tree>>
vars == <<pc, pool, scan, top, status, shown, db>>

Unused == [a \in Arrays |-> -1]

Init ==
  /\ pc = "prompt"
  /\ nodeptr = 0 /\ charptr = 0 /\ parse_tree = Null
  /\ rels = [r \in Rels |-> IF r \in DOMAIN InitRels THEN InitRels[r] ELSE NoRel]
  /\ pos = 0 /\ ipos = 0
  /\ top = Unused
  /\ status = "OK"
  /\ shown = <<>>
  /\ typed = [kind |-> "empty"] /\ before = rels

Exists(r) == rels[r].attrs # <<>>
Attrs(r) == rels[r].attrs
Tuples(r) == rels[r].tuples

-----------------------------------------------------------------------------
(* Reading a command *)

\* Mutant: the nodes of the last command are not given back.
NewQueryKeeps == [nodes |-> nodeptr, chars |-> 0]

\* new_query: where a new command starts to take nodes and characters.
NewQuery == [nodes |-> 0, chars |-> 0]

\* newnode and string_alloc end the program when a pool is used up.
NodesTaken(c) == NewQuery.nodes + Nodes(c)
CharsTaken(c) == NewQuery.chars + Chars(c)
OutOfMemory(c) == NodesTaken(c) > MAXNODE \/ CharsTaken(c) > MAXCHAR

\* Mutant: what is not a command leaves the last tree in place.
ParseTreeStays(c) == parse_tree' = IF Tree(c) = Null THEN parse_tree ELSE Tree(c)

ParseTree(c) == parse_tree' = Tree(c)

Result(c) == IF c.into = "" THEN Temp ELSE c.into

\* Bound: a command that adds tuples is typed only if its relation has room for
\* all of them.  A query that reads its own result meets the bound later.
Adds(c) ==
  CASE c.kind = "insert" -> 1
    [] c.kind = "load" /\ c.rel \notin CatNames -> Len(c.recs)
    [] c.kind = "query" /\ c.into # "" /\ Tree(c) # Null ->
         IF c.into \in {c.tables[i].rel : i \in DOMAIN c.tables} THEN 0
         ELSE IF c.where.kind = "join"
              THEN LET w == Tree(c).where IN Len(Tuples(w.attr.rel)) * Len(Tuples(w.attr2.rel))
              ELSE Len(Tuples(c.tables[1].rel))
    [] OTHER -> 0
Target(c) ==
  CASE c.kind = "query" -> Result(c)
    [] c.kind \in {"insert", "delete", "create", "destroy", "load"} -> c.rel
    [] OTHER -> ""
HasRoom(c) == Adds(c) > 0 => Len(Tuples(Target(c))) + Adds(c) <= MaxTuples

\* One round of parse(): quit ends the program, also while a command is parsed;
\* a tree that is there goes to interp.  reset_scanner gives the characters of a
\* syntax error back at once.
Type(c) ==
  /\ pc = "prompt" /\ HasRoom(c)
  /\ IF OutOfMemory(c) \/ c.kind = "quit"
     THEN pc' = "exited" /\ UNCHANGED pool
     ELSE /\ nodeptr' = NodesTaken(c)
          /\ charptr' = IF c.kind = "error" THEN 0 ELSE CharsTaken(c)
          /\ ParseTree(c)
          /\ pc' = IF parse_tree' = Null THEN "prompt" ELSE "interp"
  /\ pos' = 0 /\ ipos' = 0
  /\ top' = Unused /\ status' = "OK" /\ shown' = <<>>
  /\ typed' = c /\ before' = rels
  /\ UNCHANGED rels

-----------------------------------------------------------------------------
(* Lists become arrays *)

\* Mutant: as many attributes as the arrays have room for are accepted.
TooManyLate(n) == n > MAXATTRS

\* mk_attrnames, mk_qual_attrs, mk_attr_descrs and mk_ins_attrs stop at MAXATTRS
\* elements and then refuse the list.
TooMany(n) == n >= MAXATTRS
Taken(n) == Min({n, MAXATTRS})

\* The attributes of a query: those of the table for a star (getRelInfo), none
\* if star_node refused its tables.
List(t) ==
  IF ~t.star THEN t.list
  ELSE IF Len(t.tables) > 1 THEN <<>>
  ELSE LET r == t.tables[1].rel
       IN  [i \in 1 .. Len(Attrs(r)) |-> [rel |-> r, attr |-> Attrs(r)[i].name]]

\* The relations that the attributes may come from.
Allowed(t) ==
  CASE t.where.kind = "none" -> {List(t)[1].rel}
    [] t.where.kind = "select" -> {t.where.attr.rel}
    [] t.where.kind = "join" -> {t.where.attr.rel, t.where.attr2.rel}

MkQueryError(t) ==
  IF t.star /\ Len(t.tables) = 1 /\ ~Exists(t.tables[1].rel) THEN "E_INCOMPATIBLE"
  ELSE IF \E i \in 1 .. Taken(Len(List(t))) : List(t)[i].rel \notin Allowed(t) THEN "E_INCOMPATIBLE"
  ELSE IF TooMany(Len(List(t))) THEN "E_TOOMANYATTRS"
  ELSE "OK"

\* The highest index of an array that a list of n elements fills, and, when the
\* list is accepted, that the interpreter uses behind them: names holds the
\* relation, qual_attrs the two attributes of the join.
Filled(array, n, behind, ok) ==
  [Unused EXCEPT ![array] = IF ok THEN Taken(n) - 1 + behind ELSE Taken(n) - 1,
                 !["attrList"] = IF ok THEN Taken(n) - 1 ELSE -1]

-----------------------------------------------------------------------------
(* Queries *)

Found(a) == a.attr \in Names(Attrs(a.rel))
Desc(a) == AttrOf(Attrs(a.rel), a.attr)

\* The attributes of a new result; in a join, a name that is there already gets
\* a number (a counter in the code, the place here).
ResultAttrs(t) ==
  LET list == List(t)
      again(i) == t.where.kind = "join" /\ \E j \in 1 .. (i - 1) : list[j].attr = list[i].attr
  IN  [i \in DOMAIN list |->
         [name |-> IF again(i) THEN Numbered(list[i].attr, i) ELSE list[i].attr,
          type |-> Desc(list[i]).type, len |-> Desc(list[i]).len]]

\* A new result is created, one that exists must have the types of the list.
\* Which of two errors is reported is not told apart.
ResultError(t) ==
  LET list == List(t)  old == Attrs(Result(t))
  IN  IF old # <<>> /\ Len(list) # Len(old) THEN "ATTRTYPEMISMATCH"
      ELSE IF \E i \in DOMAIN list : ~Found(list[i]) THEN "ATTRNOTFOUND"
      ELSE IF old # <<>>
           THEN IF \A i \in DOMAIN list : SameType(Desc(list[i]), old[i]) THEN "OK" ELSE "ATTRTYPEMISMATCH"
           ELSE IF list = <<>> THEN "BADCATPARM"
           ELSE IF ~Distinct(ResultAttrs(t)) THEN "DUPLATTR" ELSE "OK"

\* QU_Select and QU_NL_Join look up the attributes of the qualification.  The
\* types of the two attributes of a join are not known to the check in
\* QU_NL_Join: interp has set both to -1.
QualError(t) == IF \A a \in WhereAttrs(t.where) : Found(a) THEN "OK" ELSE "ATTRNOTFOUND"

\* star_node gave no list and mk_attrnames reads it, or gave no list node and
\* mk_qual_attrs reads one: what happens then is undefined.
StarUndefined(t) ==
  t.star /\ ((Len(t.tables) > 1 /\ t.where.kind # "join") \/ (Len(t.tables) = 1 /\ t.where.kind = "join"))

\* QU_Join: the other two methods return OK without a result.
Loops(t) ==
  t.where.kind = "join" => JoinMethod = "NL" \/ (JoinMethod = "HJ" /\ t.where.op # "EQ")

\* interp, N_QUERY, up to the loop of the operator.  The result is created
\* before the qualification is looked at.
Query ==
  LET t == parse_tree
      mk == MkQueryError(t)
      error == IF mk = "OK" THEN ResultError(t) ELSE mk
      array == IF t.where.kind = "join" THEN "qual_attrs" ELSE "names"
      behind == IF t.where.kind = "join" THEN 2 ELSE 1
  IN  /\ pc = "interp" /\ t.kind = "query" /\ ~StarUndefined(t)
      /\ top' = Filled(array, Len(List(t)), behind, mk = "OK")
      /\ IF error # "OK"
         THEN status' = error /\ pc' = "prompt" /\ UNCHANGED rels
         ELSE /\ rels' = IF Exists(Result(t)) THEN rels
                         ELSE [rels EXCEPT ![Result(t)] = [attrs |-> ResultAttrs(t), tuples |-> <<>>]]
              /\ status' = QualError(t)
              /\ pc' = IF QualError(t) # "OK" \/ ~Loops(t) THEN "finish"
                       ELSE IF t.where.kind = "join" THEN "outer" ELSE "select"
      /\ UNCHANGED <<pool, scan, shown, typed, before>>

\* A query that is undefined, and the commands that interp does not know.
Abort ==
  LET t == parse_tree
  IN  /\ pc = "interp"
      /\ t.kind \in {"build", "drop"} \/ (t.kind = "query" /\ StarUndefined(t))
      /\ pc' = "aborted"
      /\ UNCHANGED <<pool, scan, top, status, shown, db>>

\* insertRecord of the result.  Bound: MaxTuples.
Add(r, tuple) ==
  /\ r # Temp => Len(Tuples(r)) < MaxTuples
  /\ rels' = [rels EXCEPT ![r].tuples = Append(@, tuple)]

\* ScanSelect: the filter is converted to the type of the attribute.
Selected(t, tuple) ==
  t.where.kind = "none" \/
    LET d == Desc(t.where.attr)
    IN  MatchRec(d, ValueOf(Attrs(t.where.attr.rel), tuple, d.name), t.where.op, Filter(d.type, t.where.lit))

Source(t) == List(t)[1].rel

Projection(t, tuple) ==
  [i \in DOMAIN List(t) |-> ValueOf(Attrs(Source(t)), tuple, List(t)[i].attr)]

\* ScanSelect: the next tuple of the scan.
Select ==
  LET t == parse_tree  tuples == Tuples(Source(t))
  IN  /\ pc = "select"
      /\ \/ /\ pos = Len(tuples)
            /\ pc' = "finish"
            /\ UNCHANGED <<rels, pos>>
         \/ /\ pos < Len(tuples)
            /\ pos' = pos + 1
            /\ IF Selected(t, tuples[pos + 1]) THEN Add(Result(t), Projection(t, tuples[pos + 1]))
               ELSE UNCHANGED rels
            /\ UNCHANGED pc
      /\ UNCHANGED <<pool, ipos, top, status, shown, typed, before>>

\* Mutant: the inner scan is asked with the operator of the join.
FlipNone(op) == op

\* myop: outer op inner, asked of the inner attribute.
Flip(op) ==
  CASE op = "GT" -> "LT" [] op = "GTE" -> "LTE" [] op = "LT" -> "GT"
    [] op = "LTE" -> "GTE" [] OTHER -> op

\* QU_NL_Join: what the inner scan may say of two tuples.  The filter is the
\* outer attribute as it lies in its record: if its type is another one, its
\* bytes and those behind it are read as the type of the inner attribute.
Joins(t, outer, inner) ==
  LET w == t.where  d1 == Desc(w.attr)  d2 == Desc(w.attr2)
      v1 == ValueOf(Attrs(w.attr.rel), outer, d1.name)
      v2 == ValueOf(Attrs(w.attr2.rel), inner, d2.name)
  IN  IF SameType(d1, d2) THEN {MatchRec(d2, v2, Flip(w.op), v1)} ELSE BOOLEAN

\* Every attribute of the outer relation's name comes from the outer tuple.
Combined(t, outer, inner) ==
  LET from(a) == IF a.rel = t.where.attr.rel THEN outer ELSE inner
  IN  [i \in DOMAIN List(t) |->
         ValueOf(Attrs(List(t)[i].rel), from(List(t)[i]), List(t)[i].attr)]

\* The next tuple of the outer relation, and a new scan of the inner one.
Outer ==
  /\ pc = "outer"
  /\ IF pos < Len(Tuples(parse_tree.where.attr.rel))
     THEN pos' = pos + 1 /\ ipos' = 0 /\ pc' = "inner"
     ELSE pc' = "finish" /\ UNCHANGED scan
  /\ UNCHANGED <<pool, top, status, shown, db>>

\* The next tuple of the inner relation.
Inner ==
  LET t == parse_tree
      outer == Tuples(t.where.attr.rel)[pos]
      inners == Tuples(t.where.attr2.rel)
  IN  /\ pc = "inner"
      /\ \/ /\ ipos = Len(inners)
            /\ pc' = "outer"
            /\ UNCHANGED <<rels, ipos>>
         \/ /\ ipos < Len(inners)
            /\ ipos' = ipos + 1
            /\ \E match \in Joins(t, outer, inners[ipos + 1]) :
                 IF match THEN Add(Result(t), Combined(t, outer, inners[ipos + 1]))
                 ELSE UNCHANGED rels
            /\ UNCHANGED pc
      /\ UNCHANGED <<pool, pos, top, status, shown, typed, before>>

\* The end of N_QUERY: a temporary result is printed and destroyed.
Finish ==
  /\ pc = "finish"
  /\ pc' = "prompt"
  /\ IF Result(parse_tree) = Temp
     THEN shown' = Tuples(Temp) /\ rels' = [rels EXCEPT ![Temp] = NoRel]
     ELSE UNCHANGED <<shown, rels>>
  /\ UNCHANGED <<pool, scan, top, status, typed, before>>

-----------------------------------------------------------------------------
(* Updates *)

\* mk_ins_attrs and QU_Insert, in the order of their checks.
InsertError(t) ==
  IF \E i \in 1 .. Taken(Len(t.lits)) : LitChars(t.lits[i]) > MAXSTRINGLEN + 1 THEN "E_STRINGTOOLONG"
  ELSE IF TooMany(Len(t.attrs)) THEN "E_TOOMANYATTRS"
  ELSE IF ~Exists(t.rel) THEN "RELNOTFOUND"
  ELSE IF Len(t.attrs) # Len(Attrs(t.rel)) \/ ~(Range(t.attrs) \subseteq Names(Attrs(t.rel)))
       THEN "BADCATPARM" ELSE "OK"

\* Mutant: the values are taken in the order of the attributes of the relation.
InsertedInOrder(t, i) == Stored(Attrs(t.rel)[i], t.lits[i])

\* What QU_Insert may store for the i-th attribute of the relation: the value of
\* the last place where it is named, and nothing if another is named twice.
Inserted(t, i) ==
  LET a == Attrs(t.rel)[i]
      places == {j \in DOMAIN t.attrs : t.attrs[j] = a.name}
  IN  IF places = {} THEN Unset(a) ELSE Stored(a, t.lits[Max(places)])

\* The record of the insert, value by value.
InsertedTuples(t) ==
  LET upto[n \in 0 .. Len(Attrs(t.rel))] ==
        IF n = 0 THEN {<<>>} ELSE {Append(s, v) : s \in upto[n - 1], v \in Inserted(t, n)}
  IN  upto[Len(Attrs(t.rel))]

\* Mutant: the record is inserted before the names are checked.
InsertFirst ==
  LET t == parse_tree  error == InsertError(t)
      made == error \notin {"E_STRINGTOOLONG", "E_TOOMANYATTRS"}
  IN  /\ pc = "interp" /\ t.kind = "insert"
      /\ top' = Filled("ins_attrs", Len(t.attrs), 0, made)
      /\ status' = error
      /\ IF error \in {"OK", "BADCATPARM"} THEN \E tuple \in InsertedTuples(t) : Add(t.rel, tuple)
         ELSE UNCHANGED rels
      /\ pc' = "prompt"
      /\ UNCHANGED <<pool, scan, shown, typed, before>>

Insert ==
  LET t == parse_tree  error == InsertError(t)
      made == error \notin {"E_STRINGTOOLONG", "E_TOOMANYATTRS"}
  IN  /\ pc = "interp" /\ t.kind = "insert"
      /\ top' = Filled("ins_attrs", Len(t.attrs), 0, made)
      /\ status' = error
      /\ IF error = "OK" THEN \E tuple \in InsertedTuples(t) : Add(t.rel, tuple)
         ELSE UNCHANGED rels
      /\ pc' = "prompt"
      /\ UNCHANGED <<pool, scan, shown, typed, before>>

\* interp refuses a join, QU_Delete opens the file and looks the attribute up,
\* and startScan wants an INTEGER or FLOAT to be a word long.
DeleteError(t) ==
  LET w == t.where
  IN  IF w.kind = "join" THEN "Syntax Error"
      ELSE IF ~Exists(t.rel) THEN "UNIXERR"
      ELSE IF w.kind = "none" THEN "OK"
      ELSE IF w.attr.attr \notin Names(Attrs(t.rel)) THEN "ATTRNOTFOUND"
      ELSE IF w.lit.type # "STRING" /\ AttrOf(Attrs(t.rel), w.attr.attr).len # Word
           THEN "BADSCANPARM" ELSE "OK"

BeginDelete ==
  LET t == parse_tree
  IN  /\ pc = "interp" /\ t.kind = "delete"
      /\ top' = [Unused EXCEPT !["qual_attrs"] = 0]
      /\ status' = DeleteError(t)
      /\ pc' = IF DeleteError(t) = "OK" THEN "delete" ELSE "prompt"
      /\ UNCHANGED <<pool, scan, shown, db>>

\* What the scan of QU_Delete may say of a tuple.  Literal and attribute are
\* compared as the type of the literal: if it is another one, the bytes of the
\* attribute are read as that type.
Deletes(t, tuple) ==
  LET w == t.where
      d == AttrOf(Attrs(t.rel), w.attr.attr)
  IN  IF w.kind = "none" THEN {TRUE}
      ELSE IF w.lit.type # d.type THEN BOOLEAN
      ELSE {MatchRec(d, ValueOf(Attrs(t.rel), tuple, d.name), w.op, Filter(d.type, w.lit))}

\* The tuples without the n-th: the later ones move up.
RemoveAt(tuples, n) == SubSeq(tuples, 1, n - 1) \o SubSeq(tuples, n + 1, Len(tuples))

\* Mutant: the scan goes on behind the tuple that took the place of the deleted.
DeleteSkips ==
  LET t == parse_tree  tuples == Tuples(t.rel)
  IN  /\ pc = "delete"
      /\ \/ /\ pos >= Len(tuples)
            /\ pc' = "prompt"
            /\ UNCHANGED <<rels, pos>>
         \/ /\ pos < Len(tuples)
            /\ pos' = pos + 1
            /\ \E match \in Deletes(t, tuples[pos + 1]) :
                 rels' = IF match THEN [rels EXCEPT ![t.rel].tuples = RemoveAt(@, pos + 1)] ELSE rels
            /\ UNCHANGED pc
      /\ UNCHANGED <<pool, ipos, top, status, shown, typed, before>>

\* Mutant: the scan starts again at every tuple that is kept.
DeleteRestarts ==
  LET t == parse_tree  tuples == Tuples(t.rel)
  IN  /\ pc = "delete"
      /\ \/ /\ pos = Len(tuples)
            /\ pc' = "prompt"
            /\ UNCHANGED rels
         \/ /\ pos < Len(tuples)
            /\ \E match \in Deletes(t, tuples[pos + 1]) :
                 rels' = IF match THEN [rels EXCEPT ![t.rel].tuples = RemoveAt(@, pos + 1)] ELSE rels
            /\ UNCHANGED pc
      /\ UNCHANGED <<pool, pos, ipos, top, status, shown, typed, before>>

\* The next tuple of the scan; deleted, those behind it move up.
Delete ==
  LET t == parse_tree  tuples == Tuples(t.rel)
  IN  /\ pc = "delete"
      /\ \/ /\ pos = Len(tuples)
            /\ pc' = "prompt"
            /\ UNCHANGED <<rels, pos>>
         \/ /\ pos < Len(tuples)
            /\ \E match \in Deletes(t, tuples[pos + 1]) :
                 IF match
                 THEN rels' = [rels EXCEPT ![t.rel].tuples = RemoveAt(@, pos + 1)] /\ UNCHANGED pos
                 ELSE pos' = pos + 1 /\ UNCHANGED rels
            /\ UNCHANGED pc
      /\ UNCHANGED <<pool, ipos, top, status, shown, typed, before>>

\* mk_attr_descrs and createRel.  Names that are too long are in Catalog; the
\* limit on the width of a tuple is left out.
CreateError(t) ==
  IF \E i \in 1 .. Taken(Len(t.descrs)) : t.descrs[i].len \notin 1 .. 255 THEN "E_INVFORMATSTRING"
  ELSE IF TooMany(Len(t.descrs)) THEN "E_TOOMANYATTRS"
  ELSE IF Exists(t.rel) THEN "RELEXISTS"
  ELSE IF ~Distinct(t.descrs) THEN "DUPLATTR" ELSE "OK"

Create ==
  LET t == parse_tree  error == CreateError(t)
      made == error \notin {"E_INVFORMATSTRING", "E_TOOMANYATTRS"}
  IN  /\ pc = "interp" /\ t.kind = "create"
      /\ top' = Filled("attr_descrs", Len(t.descrs), 0, made)
      /\ status' = error
      /\ rels' = IF error = "OK" THEN [rels EXCEPT ![t.rel] = [attrs |-> t.descrs, tuples |-> <<>>]]
                 ELSE rels
      /\ pc' = "prompt"
      /\ UNCHANGED <<pool, scan, shown, typed, before>>

\* destroyRel refuses the catalogs.
Destroy ==
  LET t == parse_tree
      error == IF t.rel \in CatNames THEN "BADCATPARM" ELSE IF ~Exists(t.rel) THEN "RELNOTFOUND" ELSE "OK"
  IN  /\ pc = "interp" /\ t.kind = "destroy"
      /\ status' = error
      /\ rels' = IF error = "OK" THEN [rels EXCEPT ![t.rel] = NoRel] ELSE rels
      /\ pc' = "prompt"
      /\ UNCHANGED <<pool, scan, top, shown, typed, before>>

\* UT_Load: every complete record of the Unix file; the catalogs are refused.
Load ==
  LET t == parse_tree
      error == IF t.rel \in CatNames THEN "BADCATPARM"
               ELSE IF ~t.there THEN "UNIXERR" ELSE IF ~Exists(t.rel) THEN "RELNOTFOUND" ELSE "OK"
  IN  /\ pc = "interp" /\ t.kind = "load"
      /\ status' = error
      /\ rels' = IF error = "OK" THEN [rels EXCEPT ![t.rel].tuples = @ \o t.recs] ELSE rels
      /\ pc' = "prompt"
      /\ UNCHANGED <<pool, scan, top, shown, typed, before>>

\* UT_Print
Show ==
  LET t == parse_tree
  IN  /\ pc = "interp" /\ t.kind = "print"
      /\ status' = IF Exists(t.rel) THEN "OK" ELSE "RELNOTFOUND"
      /\ shown' = Tuples(t.rel)
      /\ pc' = "prompt"
      /\ UNCHANGED <<pool, scan, top, db>>

\* help, which prints the catalogs and no tuples of a relation.
Help ==
  LET t == parse_tree
  IN  /\ pc = "interp" /\ t.kind = "help"
      /\ status' = IF t.rel = "" \/ Exists(t.rel) THEN "OK" ELSE "RELNOTFOUND"
      /\ pc' = "prompt"
      /\ UNCHANGED <<pool, scan, top, shown, db>>

Step ==
  \/ Query \/ Abort \/ Select \/ Outer \/ Inner \/ Finish
  \/ Insert \/ BeginDelete \/ Delete \/ Create \/ Destroy \/ Load \/ Show \/ Help

Next == Step \/ \E c \in Commands : Type(c)

\* The program goes on by itself until it is back at the prompt; nobody has to
\* type anything.
Spec == Init /\ [][Next]_vars /\ WF_vars(Step)

-----------------------------------------------------------------------------
(* Properties *)

\* What a comparison means: of numbers, without overflow; of strings, of the
\* characters before the NUL, as far as the attribute is long.
Text(v, n) == [k \in 1 .. n |-> IF k > Len(v) \/ (\E j \in 1 .. k : j <= Len(v) /\ v[j] = NUL) THEN NUL ELSE v[k]]
Difference(attr, v, w) ==
  IF attr.type # "STRING" THEN v - w
  ELSE LET a == Text(v, attr.len)  b == Text(w, attr.len)
           diff == {k \in 1 .. attr.len : a[k] # b[k]}
       IN  IF diff = {} THEN 0 ELSE a[Min(diff)] - b[Min(diff)]
Satisfies(attr, v, op, w) == Holds(Difference(attr, v, w), op)

\* The command was carried out and the program is at the prompt again.
Done(kind) == pc = "prompt" /\ typed.kind = kind /\ Tree(typed) # Null /\ status = "OK"

\* The value of an attribute in a tuple of a relation.
Field(rel, tuple, name) == ValueOf(rel.attrs, tuple, name)

\* The tuples that a query printed or added to its result.
Output ==
  LET r == typed.into
  IN  IF r = "" THEN shown
      ELSE SubSeq(rels[r].tuples, Len(before[r].tuples) + 1, Len(rels[r].tuples))

\* The values of a function are listed, each once; for a function on numbers, in
\* the order of those.
Listing(e, s, f) == \A i \in DOMAIN s : s[i] = f[e[i]]
Lists(s, f) == \E e \in Bijection(DOMAIN s, DOMAIN f) : Listing(e, s, f)
InOrder(s, f) ==
  \E e \in Bijection(DOMAIN s, DOMAIN f) :
    Listing(e, s, f) /\ \A i, j \in DOMAIN s : i < j => e[i] < e[j]

\* matchRec compares two values of an attribute by a difference: of two ints it
\* has to be an int; a string has the characters of the attribute, and the filter
\* as many, or a NUL.
Comparable(attr, v, w) ==
  CASE attr.type = "INTEGER" -> v \in Int /\ w \in Int /\ v - w \in Ints
    [] attr.type = "FLOAT" -> v \in Int /\ w \in Int
    [] attr.type = "STRING" -> /\ v \in [1 .. attr.len -> Nat] /\ w \in Seq(Nat)
                               /\ attr.len <= Len(w) \/ NUL \in Range(w)

\* A tuple of a relation satisfies a qualification, whose literal counts as its
\* conversion to the type of the attribute; and all values can be compared.
QualAttr(rel, w) == AttrOf(rel.attrs, w.attr.attr)
Compared(rel, w, k) == Field(rel, rel.tuples[k], w.attr.attr)
Literal(rel, w) == Filter(QualAttr(rel, w).type, w.lit)
Qualifies(rel, w, k) ==
  w.kind = "none" \/ Satisfies(QualAttr(rel, w), Compared(rel, w, k), w.op, Literal(rel, w))
AllComparable(rel, w) ==
  w.kind = "none" \/
    \A k \in DOMAIN rel.tuples : Comparable(QualAttr(rel, w), Compared(rel, w, k), Literal(rel, w))

\* The relation that a select reads, and what it takes of a tuple.
SelectFrom == IF typed.star THEN typed.tables[1].rel ELSE Relation(typed.tables, typed.list[1].rel)
SelectRel == before[SelectFrom]
SelectRow(k) ==
  IF typed.star THEN [i \in DOMAIN SelectRel.attrs |-> Field(SelectRel, SelectRel.tuples[k], SelectRel.attrs[i].name)]
  ELSE [i \in DOMAIN typed.list |-> Field(SelectRel, SelectRel.tuples[k], typed.list[i].attr)]
ReadsResult == typed.kind = "query" /\ typed.into \in {typed.tables[i].rel : i \in DOMAIN typed.tables}

\* A select prints, or adds to its result, exactly the tuples that satisfy its
\* qualification, in the order of the relation and cut down to the attributes
\* asked for (ScanSelect).  A query whose result is its own input is left out.
SelectExact ==
  (/\ Done("query") /\ typed.where.kind # "join" /\ ~ReadsResult
   /\ AllComparable(SelectRel, typed.where)) =>
    InOrder(Output, [k \in {j \in DOMAIN SelectRel.tuples : Qualifies(SelectRel, typed.where, j)} |-> SelectRow(k)])

\* The two relations of a join, its pairs of tuples and the values it compares.
OuterRel == Relation(typed.tables, typed.where.attr.rel)
InnerRel == Relation(typed.tables, typed.where.attr2.rel)
Outers == before[OuterRel]
Inners == before[InnerRel]
JoinPairs == (DOMAIN Outers.tuples) \X (DOMAIN Inners.tuples)
OuterAttr == AttrOf(Outers.attrs, typed.where.attr.attr)
InnerAttr == AttrOf(Inners.attrs, typed.where.attr2.attr)
OuterValue(p) == Field(Outers, Outers.tuples[p[1]], typed.where.attr.attr)
InnerValue(p) == Field(Inners, Inners.tuples[p[2]], typed.where.attr2.attr)
TwoRelations == OuterRel # InnerRel

\* The answer to a join: the combination of each pair of tuples that satisfies
\* the qualification, once.
JoinRow(p) ==
  LET outer(a) == IF TwoRelations THEN Relation(typed.tables, a.rel) = OuterRel
                  ELSE a.rel = typed.where.attr.rel
  IN  [i \in DOMAIN typed.list |->
         LET a == typed.list[i]
         IN  IF outer(a) THEN Field(Outers, Outers.tuples[p[1]], a.attr)
             ELSE Field(Inners, Inners.tuples[p[2]], a.attr)]
JoinAnswer ==
  Lists(Output, [p \in {q \in JoinPairs : Satisfies(OuterAttr, OuterValue(q), typed.where.op, InnerValue(q))}
                   |-> JoinRow(p)])

\* The two attributes of the join have one type, and the result is neither
\* relation.
ProperJoin ==
  /\ Done("query") /\ typed.where.kind = "join" /\ ~typed.star
  /\ SameType(OuterAttr, InnerAttr)
  /\ typed.into \notin {OuterRel, InnerRel}

\* A join of two relations by nested loops gives each qualifying pair of tuples
\* once, and each attribute from the relation it is asked of (QU_NL_Join).  The
\* filter of the inner scan is the value of the outer tuple.
JoinExact ==
  (/\ ProperJoin /\ TwoRelations /\ Loops(Tree(typed))
   /\ \A p \in JoinPairs : Comparable(OuterAttr, InnerValue(p), OuterValue(p))) => JoinAnswer

\* The same of every join method, and of values whose difference is no int.
JoinAlwaysExact == (ProperJoin /\ TwoRelations) => JoinAnswer

\* The same of a relation that is joined with itself under two aliases.
SelfJoinExact == ProperJoin => JoinAnswer

\* A delete removes the tuples that satisfy its qualification and keeps the
\* others in order, if the literal has the type of the attribute (QU_Delete).
DeletedExactly ==
  LET rel == before[typed.rel]
  IN  InOrder(rels[typed.rel].tuples,
              [k \in {j \in DOMAIN rel.tuples : ~Qualifies(rel, typed.where, j)} |-> rel.tuples[k]])
DeleteExact ==
  (/\ Done("delete") /\ AllComparable(before[typed.rel], typed.where)
   /\ typed.where.kind = "select" =>
        QualAttr(before[typed.rel], typed.where).type = typed.where.lit.type) => DeletedExactly

\* A delete removes what a select with the same qualification shows, also if the
\* literal has to be converted.
DeleteLikeSelect == (Done("delete") /\ AllComparable(before[typed.rel], typed.where)) => DeletedExactly

\* A tuple that was inserted is found by each of the values it was inserted
\* with, in whatever order they were given and whatever lies in memory behind a
\* short string (QU_Insert and matchRec).
InsertReadable ==
  Done("insert") =>
    LET rel == rels[typed.rel]
    IN  \A i \in DOMAIN typed.attrs :
          (\A j \in DOMAIN typed.attrs : j > i => typed.attrs[j] # typed.attrs[i]) =>
            LET d == AttrOf(rel.attrs, typed.attrs[i])
                last == rel.tuples[Len(rel.tuples)]
            IN  MatchRec(d, Field(rel, last, d.name), "EQ", Filter(d.type, typed.lits[i]))

\* A command changes the relation it names and no other, and what is not a
\* command changes nothing: no tree of an earlier command is interpreted again.
\* No temporary result is left at the prompt (parse, interp).
CommandScope ==
  pc = "prompt" => \A r \in Rels \ {Target(typed)} : rels[r] = before[r] /\ rels[Temp] = NoRel

\* A command that is refused changes nothing, except that a query may leave the
\* new result that it has created, empty (interp, N_QUERY).
RefusedIsHarmless ==
  (pc = "prompt" /\ status # "OK") =>
    \A r \in Rels : \/ rels[r] = before[r]
                    \/ /\ typed.kind = "query" /\ r = Result(typed)
                       /\ before[r] = NoRel /\ rels[r].tuples = <<>>

\* No element is written behind the end of an array of the interpreter,
\* whatever the length of the lists of a command: names[nattrs] and
\* qual_attrs[nattrs + 1] are written after the check of mk_attrnames and
\* mk_qual_attrs.
Size(array) == IF array = "attrList" THEN MAXATTRS ELSE MAXATTRS + 1
ArraysInBounds == \A array \in Arrays : top[array] < Size(array)

\* A command that the program took, and came back from, does not end the program
\* when it is typed again, a syntax error included: the pools are given back
\* between two commands (new_query).
RepeatAccepted == [][(pc = "prompt" /\ typed' = typed) => pc' # "exited"]_vars

\* buildindex and dropindex are commands of the grammar: interp handles every
\* tree, its default case is there "so that compiler won't complain".
DefaultUnreached == pc = "aborted" => typed.kind = "query"

\* A relation may have MAXATTRS attributes, the "max. number of attrs in a
\* relation".
MaxAttrsAllowed ==
  (pc = "prompt" /\ typed.kind = "create" /\ Len(typed.descrs) <= MAXATTRS) => status # "E_TOOMANYATTRS"

\* Every command ends: the program comes back to the prompt, or stops.  Not
\* said of a query that adds to a relation it reads (ScanSelect, QU_NL_Join):
\* its scan meets the tuples that it adds.
AtRest == pc \in {"prompt", "exited", "aborted"}
CommandEnds == ~AtRest ~> (AtRest \/ ReadsResult)
============================================================================
