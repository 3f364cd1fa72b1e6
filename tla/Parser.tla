------------------------------- MODULE Parser -------------------------------
(***************************************************************************)
(* From a command to its parse tree (parse.y, nodes.C, scanhelp.C).        *)
(*                                                                         *)
(* A command is a record with a kind; the empty name stands for a part     *)
(* that was left out.  Its parse tree is the command with every qualifier  *)
(* replaced by the name of a relation, or Null if the parser found an      *)
(* error in it.  The nodes of the tree and the strings in it come from two *)
(* pools of fixed size.                                                    *)
(***************************************************************************)
EXTENDS Tuple

Null == [kind |-> "null"]
NoWhere == [kind |-> "none"]

-----------------------------------------------------------------------------
(* The grammar *)

QualAttrs == [rel : STRING, attr : STRING]

\* A string ends with NUL, and atoi gives an int.
Literals ==
  [type : Types, atoi : Ints, atof : Int, text : {s \in Seq(Nat) : s # <<>> /\ s[Len(s)] = NUL}]
Wheres ==
  {NoWhere}
  \cup [kind : {"select"}, attr : QualAttrs, op : Operators, lit : Literals]
  \cup [kind : {"join"}, attr : QualAttrs, op : Operators, attr2 : QualAttrs]

\* RELCATNAME, ATTRCATNAME
CatNames == {"relcat", "attrcat"}

\* What the user may type about the relations of some names.  A load has the
\* records of its Unix file, if that is there; a syntax error, the nodes and
\* characters that were taken before it was met.
Syntax(names, recs) ==
  [kind : {"query"}, star : {TRUE}, list : {<<>>}, into : names \cup {""},
   tables : Seq([rel : names, alias : STRING]) \ {<<>>}, where : Wheres]
  \cup [kind : {"query"}, star : {FALSE}, list : Seq(QualAttrs) \ {<<>>}, into : names \cup {""},
        tables : Seq([rel : names, alias : STRING]) \ {<<>>}, where : Wheres]
  \cup [kind : {"insert"}, rel : names, attrs : Seq(STRING) \ {<<>>}, lits : Seq(Literals) \ {<<>>}]
  \cup [kind : {"delete"}, rel : names, where : Wheres]
  \cup [kind : {"create"}, rel : names,
        descrs : Seq([name : STRING, type : Types, len : Nat]) \ {<<>>}]
  \cup [kind : {"load"}, rel : names \cup CatNames, there : BOOLEAN, recs : recs]
  \cup [kind : {"destroy"}, rel : names \cup CatNames]
  \cup [kind : {"print", "build", "drop"}, rel : names]
  \cup [kind : {"help"}, rel : names \cup {""}]
  \cup [kind : {"error"}, nodes : Nat, chars : Nat]
  \cup [kind : {"quit", "shell", "empty"}]

-----------------------------------------------------------------------------
(* Qualifiers *)

\* find_match_in_alias: the first table that has the qualifier as name or alias.
FindMatch(tables, q) ==
  LET hits == {i \in DOMAIN tables : q \in {tables[i].rel, tables[i].alias}}
  IN  IF hits = {} THEN "" ELSE tables[Min(hits)].rel

\* The relation of a qualifier, "" if there is none.
Relation(tables, q) ==
  IF q # "" THEN FindMatch(tables, q)
  ELSE IF Len(tables) > 1 THEN "" ELSE tables[1].rel

Resolved(tables, a) == [a EXCEPT !.rel = Relation(tables, a.rel)]

\* replace_alias_in_qualattr_list, replace_alias_in_condition
ResolvedList(tables, list) == [i \in DOMAIN list |-> Resolved(tables, list[i])]
ResolvedWhere(tables, w) ==
  CASE w.kind = "none" -> w
    [] w.kind = "select" -> [w EXCEPT !.attr = Resolved(tables, @)]
    [] w.kind = "join" -> [w EXCEPT !.attr = Resolved(tables, @), !.attr2 = Resolved(tables, @)]

WhereAttrs(w) ==
  CASE w.kind = "none" -> {} [] w.kind = "select" -> {w.attr} [] w.kind = "join" -> {w.attr, w.attr2}

-----------------------------------------------------------------------------
(* Trees *)

\* query: the qualifiers are replaced; one that is unknown, or missing where
\* there are several tables, is an error.
QueryTree(c) ==
  LET t == [c EXCEPT !.list = ResolvedList(c.tables, @), !.where = ResolvedWhere(c.tables, @)]
  IN  IF \E a \in Range(t.list) \cup WhereAttrs(t.where) : a.rel = "" THEN Null ELSE t

\* merge_attr_value_list refuses lists of different lengths.
InsertTree(c) == IF Len(c.attrs) = Len(c.lits) THEN c ELSE Null

\* start: the tree of a command, Null for an error, a shell command or nothing.
Tree(c) ==
  CASE c.kind = "query" -> QueryTree(c)
    [] c.kind = "insert" -> InsertTree(c)
    [] c.kind \in {"error", "shell", "empty"} -> Null
    [] OTHER -> c

-----------------------------------------------------------------------------
(* Pools *)

WhereNodes(w) == IF w.kind = "none" THEN 0 ELSE 3

\* An element of a list takes its own node and a list node.
ListNodes(list) == 2 * Len(list)

\* newnode: a value of CHAR(n) takes one, and the command one unless its tree is
\* refused.  star_node takes none if there are several tables.
Nodes(c) ==
  CASE c.kind = "query" ->
         ListNodes(c.list) + ListNodes(c.tables) + WhereNodes(c.where)
           + (IF c.star /\ Len(c.tables) = 1 /\ Tree(c) # Null THEN 1 ELSE 0)
           + (IF Tree(c) # Null THEN 1 ELSE 0)
    [] c.kind = "insert" ->
         ListNodes(c.attrs) + ListNodes(c.lits) + (IF Tree(c) # Null THEN 1 ELSE 0)
    [] c.kind = "delete" -> 1 + WhereNodes(c.where)
    [] c.kind = "create" ->
         ListNodes(c.descrs) + Quantify(DOMAIN c.descrs, LAMBDA i : c.descrs[i].type = "STRING") + 1
    [] c.kind = "error" -> c.nodes
    [] c.kind \in {"shell", "empty", "quit"} -> 0
    [] OTHER -> 1

\* string_alloc: the space of the strings of a command.  A name counts as one
\* character, a quoted string as its own.
Named(q) == IF q = "" THEN 0 ELSE 1
LitChars(lit) == IF lit.type = "STRING" THEN Len(lit.text) ELSE 0
ListChars(list) == MapThenSumSet(LAMBDA i : Named(list[i].rel) + 1, DOMAIN list)
WhereChars(w) ==
  CASE w.kind = "none" -> 0
    [] w.kind = "select" -> Named(w.attr.rel) + 1 + LitChars(w.lit)
    [] w.kind = "join" -> Named(w.attr.rel) + 1 + Named(w.attr2.rel) + 1
Chars(c) ==
  CASE c.kind = "query" ->
         ListChars(c.list) + Named(c.into) + WhereChars(c.where)
           + MapThenSumSet(LAMBDA i : 1 + Named(c.tables[i].alias), DOMAIN c.tables)
    [] c.kind = "insert" ->
         1 + Len(c.attrs) + MapThenSumSet(LAMBDA i : LitChars(c.lits[i]), DOMAIN c.lits)
    [] c.kind = "delete" -> 1 + WhereChars(c.where)
    [] c.kind = "create" -> 1 + Len(c.descrs)
    [] c.kind \in {"load", "build"} -> 2
    [] c.kind = "error" -> c.chars
    [] c.kind \in {"shell", "empty", "quit"} -> 0
    [] OTHER -> Named(c.rel)
=============================================================================
