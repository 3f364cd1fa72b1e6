---------------------------- MODULE AnswerProofs ----------------------------
(***************************************************************************)
(* Proofs about the answers of a session, for any relations and commands:  *)
(* what a select, a join by nested loops and a delete compute.             *)
(***************************************************************************)
EXTENDS SessionProofs

\* Leaves are for Zenon, but those that cite SMT.
USE Zenon

-----------------------------------------------------------------------------
(* The loops *)

\* What the scan says of the k-th tuple of a relation.
Hit(rel, w, k) ==
  w.kind = "none" \/ MatchRec(QualAttr(rel, w), Compared(rel, w, k), w.op, Literal(rel, w))

\* The tuples that the query has added to its result so far.
Grown ==
  LET old == before[Result(typed)].tuples  new == rels[Result(typed)].tuples
  IN  [i \in 1 .. Len(new) - Len(old) |-> new[Len(old) + i]]
HasGrown == Len(before[Result(typed)].tuples) <= Len(rels[Result(typed)].tuples)

\* The loops begin at the first tuple, and each belongs to its kind of command.
Places ==
  /\ pos \in Nat /\ ipos \in Nat
  /\ pc = "interp" => pos = 0 /\ ipos = 0
  /\ pc = "select" => typed.where.kind # "join"
  /\ pc \in {"outer", "inner"} => typed.where.kind = "join"

\* What interp has found out about a select before its loop.
StarChecked == typed.star => Len(typed.tables) = 1 /\ SelectRel.attrs # <<>>
SelectChecked ==
  /\ StarChecked
  /\ typed.where.kind = "select" =>
       Relation(typed.tables, typed.where.attr.rel) = SelectFrom /\ typed.where.attr.attr \in Names(SelectRel.attrs)

\* What the first n tuples give.
Picked(n) == [k \in {j \in 1 .. n : Hit(SelectRel, typed.where, j)} |-> SelectRow(k)]

\* The result has what the first pos tuples give, in order.
Selecting == pc \in {"select", "finish"} /\ status = "OK" /\ typed.where.kind # "join" /\ ~ReadsResult
SelectBody ==
  /\ SelectChecked /\ HasGrown
  /\ pos <= Len(SelectRel.tuples) /\ (pc = "finish" => pos = Len(SelectRel.tuples))
  /\ InOrder(Grown, Picked(pos))
SelectLoop == typed.kind = "query" /\ Selecting => SelectBody

\* The tables of a query that does not read its result are what they were.
LEMMA TablesStay ==
  ASSUME SessionInv, typed.kind = "query", pc \in Live, NEW r \in TableRels(typed), r # typed.into
  PROVE  r \in RelNames /\ r \in Rels /\ r # Result(typed) /\ rels[r] = before[r]
<1>1. typed \in Commands
  BY DEF SessionInv, InCommand
<1>2. r \in RelNames /\ r # Temp
  <2>1. TableRels(typed) \subseteq RelNames
    BY <1>1, RelationIsTable
  <2> QED BY <2>1, NamesAssumption DEF Temp
<1>3. r # Result(typed) /\ Target(typed) = Result(typed)
  BY <1>1, <1>2, TargetIsRel DEF Result
<1> QED BY <1>2, <1>3 DEF SessionInv, Scope, Rels

\* A select reads the relation it was asked of, and takes of a tuple what was
\* asked.
LEMMA SelectList ==
  ASSUME SessionInv, ListInv, typed.kind = "query", pc \in Live, ~ReadsResult, StarChecked
  PROVE  /\ Source(parse_tree) = SelectFrom /\ SelectFrom \in TableRels(typed)
         /\ rels[SelectFrom] = SelectRel /\ SelectFrom \in Rels
         /\ 1 \in DOMAIN List(parse_tree)
         /\ \A k : Projection(parse_tree, SelectRel.tuples[k]) = SelectRow(k)
<1> DEFINE c == typed
           t == parse_tree
<1>1. c \in Commands /\ t = Tree(c) /\ t # Null
  BY DEF SessionInv, InCommand
<1>2. /\ t.star = c.star /\ t.tables = c.tables /\ DOMAIN t.list = DOMAIN c.list
      /\ \A i \in DOMAIN c.list : /\ t.list[i].attr = c.list[i].attr
                                  /\ t.list[i].rel = Relation(c.tables, c.list[i].rel)
                                  /\ t.list[i].rel \in TableRels(c)
  BY <1>1, TreeOfQuery, TreeOfNames
<1>4. ~c.star => 1 \in DOMAIN c.list
  <2>1. c.list \in Seq(QualAttrs) /\ (~c.star => c.list # <<>>)
    BY <1>1, CommandShape, CommandParts
  <2> QED BY <2>1, SMT
<1>5. SelectFrom \in TableRels(c)
  <2>1. CASE c.star
    BY <1>1, <2>1, RelationIsTable DEF SelectFrom
  <2>2. CASE ~c.star
    BY <1>2, <1>4, <2>2 DEF SelectFrom
  <2> QED BY <2>1, <2>2
<1>6. rels[SelectFrom] = SelectRel /\ SelectFrom \in Rels
  <2>1. SelectFrom # typed.into
    BY <1>5 DEF ReadsResult, TableRels
  <2> QED BY <1>5, <2>1, TablesStay DEF SelectRel
<1>7. DOMAIN SelectRel.attrs = 1 .. Len(SelectRel.attrs) /\ (c.star => 1 \in DOMAIN SelectRel.attrs)
  <2>1. SelectRel.attrs \in Seq(Range(SelectRel.attrs))
    BY <1>6 DEF ListInv, Listed, AttrList, SelectRel
  <2>2. c.star => SelectRel.attrs # <<>>
    BY DEF StarChecked
  <2> HIDE DEF c
  <2> QED BY <2>1, <2>2, SMT
<1>8. ASSUME c.star PROVE Source(t) = SelectFrom /\ 1 \in DOMAIN List(t) /\ \A k : Projection(t, SelectRel.tuples[k]) = SelectRow(k)
  <2>1. List(t) = [i \in 1 .. Len(SelectRel.attrs) |-> [rel |-> SelectFrom, attr |-> SelectRel.attrs[i].name]]
    <3>1. Len(t.tables) = 1 /\ t.star /\ t.tables[1].rel = SelectFrom
      BY <1>2, <1>8 DEF StarChecked, SelectFrom
    <3>2. ~(Len(t.tables) > 1)
      BY <3>1, SMT
    <3> QED BY <1>6, <3>1, <3>2 DEF List, Attrs
  <2>2. Source(t) = SelectFrom /\ 1 \in DOMAIN List(t)
    BY <1>7, <1>8, <2>1, SMTT(30) DEF Source
  <2>3. ASSUME NEW k PROVE Projection(t, SelectRel.tuples[k]) = SelectRow(k)
    <3>1. DOMAIN List(t) = DOMAIN SelectRel.attrs /\ \A i \in DOMAIN List(t) : List(t)[i].attr = SelectRel.attrs[i].name
      BY <1>7, <2>1, SMT
    <3>2. Projection(t, SelectRel.tuples[k]) =
            [i \in DOMAIN SelectRel.attrs |-> ValueOf(SelectRel.attrs, SelectRel.tuples[k], SelectRel.attrs[i].name)]
      BY <1>6, <2>2, <3>1 DEF Projection, Attrs
    <3> QED BY <1>8, <3>2 DEF SelectRow, Field
  <2> QED BY <2>2, <2>3
<1>9. ASSUME ~c.star PROVE Source(t) = SelectFrom /\ 1 \in DOMAIN List(t) /\ \A k : Projection(t, SelectRel.tuples[k]) = SelectRow(k)
  <2>1. List(t) = t.list
    BY <1>2, <1>9 DEF List
  <2>2. Source(t) = SelectFrom /\ 1 \in DOMAIN List(t)
    BY <1>2, <1>4, <1>9, <2>1 DEF Source, SelectFrom
  <2>3. ASSUME NEW k PROVE Projection(t, SelectRel.tuples[k]) = SelectRow(k)
    <3>1. Projection(t, SelectRel.tuples[k]) =
            [i \in DOMAIN c.list |-> ValueOf(SelectRel.attrs, SelectRel.tuples[k], c.list[i].attr)]
      BY <1>2, <1>6, <2>1, <2>2 DEF Projection, Attrs
    <3> QED BY <1>9, <3>1 DEF SelectRow, Field
  <2> QED BY <2>2, <2>3
<1> QED BY <1>5, <1>6, <1>8, <1>9

\* In its loop, a select says of a tuple what was asked.
LEMMA SelectReads ==
  ASSUME SessionInv, ListInv, typed.kind = "query", pc \in Live, typed.where.kind # "join", ~ReadsResult,
         SelectChecked
  PROVE  \A k : Selected(parse_tree, SelectRel.tuples[k]) <=> Hit(SelectRel, typed.where, k)
<1> DEFINE c == typed
           t == parse_tree
<1>1. c \in Commands /\ t = Tree(c) /\ t # Null
  BY DEF SessionInv, InCommand
<1>2. rels[SelectFrom] = SelectRel
  BY SelectList DEF SelectChecked
<1>3. /\ t.where.kind = c.where.kind /\ c.where.kind \in {"none", "select"}
      /\ c.where.kind = "select" =>
           /\ t.where.op = c.where.op /\ t.where.lit = c.where.lit /\ t.where.attr.attr = c.where.attr.attr
           /\ t.where.attr.rel = Relation(c.tables, c.where.attr.rel)
  <2>1. c.where \in Wheres
    BY <1>1, CommandParts
  <2>2. c.where.kind \in {"none", "select"}
    BY <2>1, WhereParts
  <2>3. c.where.kind = "select" => c.where.kind # "none"
    OBVIOUS
  <2> QED BY <1>1, <2>2, <2>3, TreeOfNames
<1>4. ASSUME NEW k PROVE Selected(t, SelectRel.tuples[k]) <=> Hit(SelectRel, c.where, k)
  <2>1. CASE c.where.kind = "none"
    BY <1>3, <2>1 DEF Selected, Hit
  <2>2. CASE c.where.kind = "select"
    <3> DEFINE d == QualAttr(SelectRel, c.where)
    <3>1. t.where.attr.rel = SelectFrom /\ c.where.attr.attr \in Names(SelectRel.attrs)
      BY <1>3, <2>2 DEF SelectChecked
    <3>2. Desc(t.where.attr) = d
      BY <1>3, <1>2, <2>2, <3>1 DEF Desc, Attrs, QualAttr
    <3>3. d.name = c.where.attr.attr
      BY <3>1, PlaceFacts DEF QualAttr
    <3>4. ValueOf(Attrs(t.where.attr.rel), SelectRel.tuples[k], d.name) = Compared(SelectRel, c.where, k)
      BY <1>2, <3>1, <3>3 DEF Attrs, Compared, Field
    <3>5. t.where.kind # "none" /\ c.where.kind # "none"
      BY <1>3, <2>2
    <3>6. Hit(SelectRel, c.where, k) <=> MatchRec(d, Compared(SelectRel, c.where, k), c.where.op, Filter(d.type, c.where.lit))
      BY <3>5 DEF Hit, Literal
    <3>7. Selected(t, SelectRel.tuples[k]) <=>
            MatchRec(d, Compared(SelectRel, c.where, k), t.where.op, Filter(d.type, t.where.lit))
      BY <3>2, <3>4, <3>5 DEF Selected
    <3> QED BY <1>3, <2>2, <3>6, <3>7
  <2> QED BY <1>3, <2>1, <2>2
<1> QED BY <1>4

\* The tuples of a relation are a list.
LEMMA TuplesListed ==
  ASSUME NEW R, Listed(R), NEW r \in Rels
  PROVE  /\ R[r].tuples \in Seq(Range(R[r].tuples)) /\ Len(R[r].tuples) \in Nat
         /\ DOMAIN R[r].tuples = 1 .. Len(R[r].tuples)
<1>1. R[r].tuples \in Seq(Range(R[r].tuples))
  BY DEF Listed
<1> QED BY <1>1, ListLength

\* A new result is empty, an old one has what it had: nothing has been added.
LEMMA QueryAddsNothing ==
  ASSUME SessionInv, ListInv, Query, pc' # "prompt"
  PROVE  HasGrown' /\ DOMAIN Grown' = {}
<1> DEFINE R == Result(typed)
<1>1. R \in Rels /\ Result(parse_tree) = R /\ rels = before /\ typed' = typed /\ before' = before
  <2>1. pc = "interp" /\ parse_tree.kind = "query"
    BY DEF Query
  <2>2. typed \in Commands /\ typed.kind = "query" /\ parse_tree = Tree(typed) /\ parse_tree # Null
    BY <2>1, KindOfTree DEF Live
  <2>3. R \in Rels /\ Result(parse_tree) = R
    BY <2>2, TargetIsRel, TreeOfQuery DEF Result
  <2> QED BY <2>1, <2>3 DEF SessionInv, Scope, Query
<1>2. rels' = rels \/ (rels[R].attrs = <<>> /\ rels' = [rels EXCEPT ![R] = [attrs |-> ResultAttrs(parse_tree), tuples |-> <<>>]])
  BY <1>1 DEF Query, Exists
<1>3. /\ DOMAIN rels = Rels /\ (rels[R].attrs = <<>> => rels[R].tuples = <<>>)
  <2>1. rels[R].attrs = <<>> => rels[R] = NoRel
    BY <1>1 DEF SessionInv, RelsOK
  <2>2. DOMAIN rels = Rels
    BY DEF SessionInv, RelsOK
  <2> QED BY <2>1, <2>2, SMT DEF NoRel
<1>4. rels'[R].tuples = rels[R].tuples
  <2>1. CASE rels' = rels
    BY <2>1
  <2>2. CASE rels[R].attrs = <<>> /\ rels' = [rels EXCEPT ![R] = [attrs |-> ResultAttrs(parse_tree), tuples |-> <<>>]]
    BY <1>1, <1>3, <2>2
  <2> QED BY <1>2, <2>1, <2>2
<1>5. Len(before[R].tuples) \in Nat
  BY <1>1, TuplesListed DEF ListInv
<1>6. rels'[Result(typed')].tuples = before'[Result(typed')].tuples /\ Len(before'[Result(typed')].tuples) \in Nat
  BY <1>1, <1>4, <1>5
<1> QED BY <1>6, SMT DEF HasGrown, Grown

\* Places in a list after its first o.
LEMMA PlacesAfter ==
  ASSUME NEW o \in Nat, NEW m \in Nat, NEW n \in Nat, n = m - o
  PROVE  /\ o + (n + 1) = m + 1 /\ n + 1 \in 1 .. n + 1
         /\ \A i \in 1 .. n : o + i \in 1 .. m /\ i \in 1 .. n + 1
BY SMT

\* One more tuple in the result.
LEMMA GrownByOne ==
  ASSUME ListInv, Result(typed) \in Rels, HasGrown, typed' = typed, before' = before, NEW v,
         rels'[Result(typed)].tuples = Append(rels[Result(typed)].tuples, v),
         NEW n, n = Len(rels[Result(typed)].tuples) - Len(before[Result(typed)].tuples)
  PROVE  /\ HasGrown' /\ n \in Nat /\ DOMAIN Grown = 1 .. n /\ DOMAIN Grown' = 1 .. n + 1
         /\ Grown'[n + 1] = v /\ \A i \in 1 .. n : Grown'[i] = Grown[i]
<1> DEFINE R == Result(typed)
           old == before[R].tuples
           new == rels[R].tuples
           more == Append(new, v)
<1>1. Len(old) \in Nat /\ new \in Seq(Range(new)) /\ Len(new) \in Nat
  BY TuplesListed DEF ListInv
<1>2. /\ Len(more) = Len(new) + 1 /\ more[Len(new) + 1] = v
      /\ \A i \in 1 .. Len(new) : more[i] = new[i]
  BY <1>1, GrownList, SMTT(30)
<1>3. n \in Nat /\ n = Len(new) - Len(old) /\ n + 1 = Len(more) - Len(old)
  BY <1>1, <1>2, SMT DEF HasGrown
<1>4. Grown = [i \in 1 .. n |-> new[Len(old) + i]]
  BY <1>3 DEF Grown
<1>5. Grown' = [i \in 1 .. n + 1 |-> more[Len(old) + i]]
  <2>1. Grown' = [i \in 1 .. Len(more) - Len(old) |-> more[Len(old) + i]]
    BY DEF Grown
  <2> QED BY <1>3, <2>1
<1>6. HasGrown'
  <2>1. Len(old) <= Len(more)
    BY <1>1, <1>2, SMT DEF HasGrown
  <2> QED BY <2>1 DEF HasGrown
<1> HIDE DEF more, old, new, R
<1>7. Grown'[n + 1] = v
  <2>1. Len(old) + (n + 1) = Len(new) + 1 /\ n + 1 \in 1 .. n + 1
    BY <1>1, <1>3, PlacesAfter
  <2>2. Grown'[n + 1] = more[Len(old) + (n + 1)]
    BY <1>5, <2>1
  <2> QED BY <1>2, <2>1, <2>2
<1>8. ASSUME NEW i \in 1 .. n PROVE Grown'[i] = Grown[i]
  <2>1. Len(old) + i \in 1 .. Len(new) /\ i \in 1 .. n + 1
    BY <1>1, <1>3, PlacesAfter
  <2> QED BY <1>2, <1>4, <1>5, <2>1
<1>9. DOMAIN Grown = 1 .. n /\ DOMAIN Grown' = 1 .. n + 1
  BY <1>4, <1>5
<1> QED BY <1>3, <1>6, <1>7, <1>8, <1>9

\* At the end of a query, what it prints or has added is what has grown.
LEMMA OutputIsGrown ==
  ASSUME SessionInv, ListInv, HasGrown, Finish
  PROVE  Output' = Grown
<1> DEFINE R == Result(typed)
           old == before[R].tuples
           new == rels[R].tuples
<1>1. /\ typed \in Commands /\ typed.kind = "query" /\ parse_tree = Tree(typed) /\ parse_tree # Null
      /\ typed' = typed /\ before' = before
  BY DEF Finish, SessionInv, InCommand, Live, Looping
<1>2. R \in Rels /\ Result(parse_tree) = R /\ typed.into \in RelNames \cup {""}
  BY <1>1, TargetIsRel, TreeOfQuery, CommandShape DEF Result
<1>3. Len(old) \in Nat /\ new \in Seq(Range(new)) /\ Len(old) <= Len(new)
  BY <1>2, TuplesListed DEF ListInv, HasGrown
<1>4. Grown = [i \in 1 .. Len(new) - Len(old) |-> new[Len(old) + i]]
  BY DEF Grown
<1>5. CASE typed.into = ""
  <2>1. R = Temp /\ Output' = shown'
    BY <1>1, <1>5 DEF Result, Output
  <2>2. shown' = new
    BY <1>2, <2>1 DEF Finish, Tuples
  <2>3. Len(old) = 0
    <3>1. before[Temp] = NoRel
      BY DEF SessionInv, Scope
    <3> QED BY <2>1, <3>1, SMT DEF NoRel
  <2> HIDE DEF old, new
  <2>4. new = [i \in 1 .. Len(new) - 0 |-> new[0 + i]]
    BY <1>3, SMT
  <2> QED BY <1>4, <2>1, <2>2, <2>3, <2>4
<1>6. CASE typed.into # ""
  <2>1. R = typed.into /\ R # Temp
    BY <1>2, <1>6, NamesAssumption DEF Result, Temp
  <2>2. rels' = rels
    BY <1>2, <2>1 DEF Finish
  <2>3. Output' = SubSeq(new, Len(old) + 1, Len(new))
    BY <1>1, <1>6, <2>1, <2>2 DEF Output
  <2> HIDE DEF old, new
  <2>4. SubSeq(new, Len(old) + 1, Len(new)) = [i \in 1 .. Len(new) - Len(old) |-> new[Len(old) + i]]
    BY <1>3, SMT
  <2> QED BY <1>4, <2>3, <2>4
<1> QED BY <1>5, <1>6

-----------------------------------------------------------------------------
(* Selects *)

\* What interp has found out when a query goes on.
LEMMA QueryAccepted ==
  ASSUME SessionInv, Query, pc' # "prompt", status' = "OK"
  PROVE  /\ typed \in Commands /\ typed.kind = "query" /\ parse_tree = Tree(typed) /\ parse_tree # Null
         /\ pc = "interp" /\ rels = before /\ typed' = typed /\ before' = before /\ pos' = pos /\ ipos' = ipos
         /\ ~StarUndefined(parse_tree)
         /\ parse_tree.star /\ Len(parse_tree.tables) = 1 => Exists(parse_tree.tables[1].rel)
         /\ \A i \in 1 .. Len(List(parse_tree)) : List(parse_tree)[i].rel \in Allowed(parse_tree)
         /\ \A a \in WhereAttrs(parse_tree.where) : Found(a)
         /\ pc' = IF ~Loops(parse_tree) THEN "finish"
                  ELSE IF parse_tree.where.kind = "join" THEN "outer" ELSE "select"
<1> DEFINE t == parse_tree
           n == Len(List(t))
<1>1. pc = "interp" /\ t.kind = "query" /\ ~StarUndefined(t)
  BY DEF Query
<1>2. typed \in Commands /\ typed.kind = "query" /\ t = Tree(typed) /\ t # Null
  BY <1>1, KindOfTree DEF Live
<1>3. rels = before /\ typed' = typed /\ before' = before /\ pos' = pos /\ ipos' = ipos
  BY <1>1 DEF SessionInv, Scope, Query, scan
<1>4. MkQueryError(t) = "OK" /\ QualError(t) = "OK"
  BY DEF Query
<1>5. pc' = IF ~Loops(t) THEN "finish" ELSE IF t.where.kind = "join" THEN "outer" ELSE "select"
  BY <1>4 DEF Query
<1>6. \A a \in WhereAttrs(t.where) : Found(a)
  <2>1. "ATTRNOTFOUND" # "OK"
    OBVIOUS
  <2> QED BY <1>4, <2>1 DEF QualError
<1>7. /\ t.star /\ Len(t.tables) = 1 => Exists(t.tables[1].rel)
      /\ ~TooMany(n) /\ \A i \in 1 .. Taken(n) : List(t)[i].rel \in Allowed(t)
  <2>1. "E_INCOMPATIBLE" # "OK" /\ "E_TOOMANYATTRS" # "OK"
    OBVIOUS
  <2> QED BY <1>4, <2>1 DEF MkQueryError
<1>8. Taken(n) = n
  <2>1. n \in Nat
    BY <1>2, ListFacts DEF SessionInv
  <2> HIDE DEF n
  <2>2. n < MAXATTRS
    BY <1>7, <2>1, MAXATTRSAssumption, SMTT(30) DEF TooMany
  <2> QED BY <2>1, <2>2, TakenFits
<1> QED BY <1>1, <1>2, <1>3, <1>5, <1>6, <1>7, <1>8

\* A select that goes on has a relation and an attribute of it.
LEMMA QueryChecksSelect ==
  ASSUME SessionInv, ListInv, Query, pc' # "prompt", status' = "OK", typed.where.kind # "join", ~ReadsResult
  PROVE  SelectChecked
<1> DEFINE c == typed
           t == parse_tree
<1>1. /\ c \in Commands /\ c.kind = "query" /\ t = Tree(c) /\ t # Null /\ rels = before /\ pc \in Live
      /\ ~StarUndefined(t) /\ (t.star /\ Len(t.tables) = 1 => Exists(t.tables[1].rel))
      /\ \A i \in 1 .. Len(List(t)) : List(t)[i].rel \in Allowed(t)
      /\ \A a \in WhereAttrs(t.where) : Found(a)
  BY QueryAccepted DEF Live
<1>2. t.star = c.star /\ t.tables = c.tables /\ t.where.kind = c.where.kind
  BY <1>1, TreeOfQuery, TreeOfNames
<1>3. StarChecked
  <2> SUFFICES ASSUME c.star PROVE Len(c.tables) = 1 /\ SelectRel.attrs # <<>>
    BY DEF StarChecked
  <2>1. ~(Len(c.tables) > 1) /\ Len(c.tables) \in Nat \ {0}
    BY <1>1, <1>2, RelationIsTable DEF StarUndefined
  <2>2. Len(c.tables) = 1
    <3> DEFINE n == Len(c.tables)
    <3>1. ~(n > 1) /\ n \in Nat \ {0}
      BY <2>1
    <3> HIDE DEF n
    <3>2. n = 1
      BY <3>1, SMT
    <3> QED BY <3>2 DEF n
  <2>3. Exists(c.tables[1].rel)
    BY <1>1, <1>2, <2>2
  <2> QED BY <1>1, <2>2, <2>3 DEF Exists, SelectRel, SelectFrom
<1>4. ASSUME c.where.kind = "select"
      PROVE  Relation(c.tables, c.where.attr.rel) = SelectFrom /\ c.where.attr.attr \in Names(SelectRel.attrs)
  <2>1. t.where.attr.attr = c.where.attr.attr /\ t.where.attr.rel = Relation(c.tables, c.where.attr.rel)
    <3>1. c.where.kind # "none"
      BY <1>4
    <3> QED BY <1>1, <3>1, TreeOfNames
  <2>2. Source(t) = SelectFrom /\ 1 \in DOMAIN List(t) /\ rels[SelectFrom] = SelectRel
    BY <1>1, <1>3, SelectList
  <2>3. DOMAIN List(t) = 1 .. Len(List(t))
    BY <1>1, ListFacts DEF SessionInv
  <2>4. Allowed(t) = {t.where.attr.rel} /\ WhereAttrs(t.where) = {t.where.attr}
    BY <1>2, <1>4 DEF Allowed, WhereAttrs
  <2>5. SelectFrom = t.where.attr.rel
    BY <1>1, <2>2, <2>3, <2>4 DEF Source
  <2>6. Found(t.where.attr)
    BY <1>1, <2>4
  <2> QED BY <2>1, <2>2, <2>5, <2>6 DEF Found, Attrs
<1> QED BY <1>3, <1>4 DEF SelectChecked

\* The loop of a select begins.
LEMMA QueryStartsSelect ==
  ASSUME SessionInv, ListInv, Places, Query
  PROVE  SelectLoop'
<1> SUFFICES ASSUME Selecting' PROVE SelectBody'
  BY DEF SelectLoop
<1>1. pc' \in {"select", "finish"} /\ pc' # "prompt" /\ status' = "OK"
  BY DEF Selecting
<1>2. /\ typed' = typed /\ before' = before /\ pos' = pos /\ pc = "interp"
      /\ pc' = IF ~Loops(parse_tree) THEN "finish"
               ELSE IF parse_tree.where.kind = "join" THEN "outer" ELSE "select"
      /\ typed \in Commands /\ typed.kind = "query" /\ parse_tree = Tree(typed) /\ parse_tree # Null
  BY <1>1, QueryAccepted
<1>3. typed.where.kind # "join" /\ ~ReadsResult
  BY <1>2 DEF Selecting, ReadsResult
<1>4. pc' = "select" /\ pos' = 0
  <2>1. parse_tree.where.kind # "join"
    BY <1>2, <1>3, TreeOfNames
  <2> QED BY <1>2, <2>1 DEF Loops, Places
<1>5. SelectChecked'
  <2>1. SelectChecked
    BY <1>1, <1>3, QueryChecksSelect
  <2> QED BY <1>2, <2>1 DEF SelectChecked, StarChecked, SelectRel, SelectFrom
<1>6. HasGrown' /\ DOMAIN Grown' = {}
  BY <1>1, QueryAddsNothing
<1>7. 0 <= Len(SelectRel'.tuples) /\ pc' # "finish"
  <2>1. SelectFrom \in Rels
    BY <1>1, <1>2, <1>3, QueryChecksSelect, SelectList DEF SelectChecked, Live
  <2>2. Len(SelectRel.tuples) \in Nat
    BY <2>1, TuplesListed DEF ListInv, SelectRel
  <2>3. SelectRel' = SelectRel
    BY <1>2 DEF SelectRel, SelectFrom
  <2> QED BY <1>4, <2>2, <2>3, SMTT(30)
<1>8. DOMAIN Picked(pos)' = {}
  <2>1. DOMAIN Picked(pos)' = {j \in 1 .. 0 : Hit(SelectRel, typed.where, j)'}
    BY <1>4 DEF Picked
  <2>2. 1 .. 0 = {}
    BY SMT
  <2> QED BY <2>1, <2>2
<1> QED BY <1>4, <1>5, <1>6, <1>7, <1>8, NothingListed DEF SelectBody

\* The next tuple of a select.
LEMMA SelectStep ==
  ASSUME SessionInv, ListInv, Places, SelectLoop, Select
  PROVE  SelectLoop'
<1> SUFFICES ASSUME Selecting' PROVE SelectBody'
  BY DEF SelectLoop
<1> DEFINE w == typed.where
           T == SelectRel.tuples
           R == Result(typed)
<1>1. pc = "select" /\ typed' = typed /\ before' = before /\ status' = status
  BY DEF Select
<1>2. /\ typed \in Commands /\ typed.kind = "query" /\ parse_tree = Tree(typed) /\ parse_tree # Null
      /\ pc \in Live
  BY <1>1, KindOfTree, KindOfStep DEF Live, Looping, Next, Step
<1>3. SelectBody /\ w.kind # "join" /\ ~ReadsResult
  BY <1>1, <1>2 DEF SelectLoop, Selecting, ReadsResult
<1>4. /\ Source(parse_tree) = SelectFrom /\ rels[SelectFrom] = SelectRel /\ SelectFrom \in Rels
      /\ \A k : Projection(parse_tree, T[k]) = SelectRow(k)
      /\ \A k : Selected(parse_tree, T[k]) <=> Hit(SelectRel, w, k)
  BY <1>2, <1>3, SelectList, SelectReads DEF SelectBody, SelectChecked
<1>5. R \in Rels /\ Result(parse_tree) = R /\ Tuples(Source(parse_tree)) = T
  BY <1>2, <1>4, TargetIsRel, TreeOfQuery DEF Result, Tuples
<1>6. SelectChecked' /\ SelectRel' = SelectRel
  BY <1>1, <1>3 DEF SelectBody, SelectChecked, StarChecked, SelectRel, SelectFrom
<1>7. \A n : [k \in {j \in 1 .. n : Hit(SelectRel, typed.where, j)'} |-> SelectRow(k)'] = Picked(n)
  BY <1>1, SMT DEF Picked, Hit, SelectRow, SelectRel, SelectFrom
<1>8. Picked(pos)' = [k \in {j \in 1 .. pos' : Hit(SelectRel, typed.where, j)'} |-> SelectRow(k)']
  BY DEF Picked
<1>9. Picked(pos)' = Picked(pos')
  BY <1>7, <1>8
<1>10. CASE pos = Len(T) /\ pc' = "finish" /\ rels' = rels /\ pos' = pos
  <2>1. Grown' = Grown /\ (HasGrown' <=> HasGrown)
    BY <1>1, <1>10 DEF Grown, HasGrown
  <2> QED BY <1>3, <1>6, <1>9, <1>10, <2>1 DEF SelectBody
<1>11. CASE /\ pos < Len(T) /\ pos' = pos + 1 /\ pc' = pc
            /\ IF Selected(parse_tree, T[pos + 1]) THEN Add(R, Projection(parse_tree, T[pos + 1])) ELSE rels' = rels
  <2> DEFINE k == pos + 1
  <2>1. /\ pos \in Nat /\ k \in Nat /\ k <= Len(T) /\ k \notin 1 .. pos /\ 1 .. k = (1 .. pos) \cup {k}
        /\ \A j \in 1 .. pos : j < k /\ j \in Int
    <3>1. pos \in Nat /\ Len(T) \in Nat /\ pos < Len(T)
      BY <1>4, <1>11, TuplesListed DEF Places, ListInv, SelectRel
    <3> HIDE DEF T
    <3> QED BY <3>1, SMT
  <2>2. pc' # "finish"
    BY <1>1, <1>11
  <2>3. CASE ~Hit(SelectRel, w, k)
    <3>1. rels' = rels
      BY <1>4, <1>11, <2>3
    <3>2. Grown' = Grown /\ (HasGrown' <=> HasGrown)
      BY <1>1, <3>1 DEF Grown, HasGrown
    <3>3. {j \in 1 .. k : Hit(SelectRel, w, j)} = {j \in 1 .. pos : Hit(SelectRel, w, j)}
      BY <2>1, <2>3
    <3>4. Picked(k) = Picked(pos)
      BY <3>3 DEF Picked
    <3> QED BY <1>3, <1>6, <1>9, <1>11, <2>1, <2>2, <3>2, <3>4 DEF SelectBody
  <2>4. CASE Hit(SelectRel, w, k)
    <3>1. rels'[R].tuples = Append(rels[R].tuples, SelectRow(k))
      BY <1>4, <1>5, <1>11, <2>4, AddEffect DEF SessionInv, ListInv
    <3> DEFINE n == Len(rels[R].tuples) - Len(before[R].tuples)
    <3>2. /\ HasGrown' /\ n \in Nat /\ DOMAIN Grown = 1 .. n /\ DOMAIN Grown' = 1 .. n + 1
          /\ Grown'[n + 1] = SelectRow(k) /\ \A i \in 1 .. n : Grown'[i] = Grown[i]
      BY <1>1, <1>3, <1>5, <3>1, GrownByOne DEF SelectBody
    <3> HIDE DEF n, k
    <3>3. DOMAIN Picked(pos) = {j \in 1 .. pos : Hit(SelectRel, w, j)} /\ DOMAIN Picked(k) = {j \in 1 .. k : Hit(SelectRel, w, j)}
      BY DEF Picked
    <3>4. DOMAIN Picked(k) = DOMAIN Picked(pos) \cup {k} /\ k \notin DOMAIN Picked(pos)
      BY <2>1, <2>4, <3>3
    <3>5. (\A j \in DOMAIN Picked(pos) : Picked(k)[j] = Picked(pos)[j]) /\ Picked(k)[k] = SelectRow(k)
      BY <2>1, <2>4, <3>3, <3>4 DEF Picked
    <3>6. k \in Int /\ DOMAIN Picked(pos) \subseteq Int /\ \A j \in DOMAIN Picked(pos) : j < k
      BY <2>1, <3>3, SMT
    <3>7. InOrder(Grown', Picked(k))
      BY <1>3, <3>2, <3>4, <3>5, <3>6, OneMoreListed DEF SelectBody
    <3> QED BY <1>6, <1>9, <1>11, <2>1, <2>2, <3>2, <3>7 DEF SelectBody, k
  <2> QED BY <2>3, <2>4
<1>12. \/ pos = Len(T) /\ pc' = "finish" /\ rels' = rels /\ pos' = pos
       \/ /\ pos < Len(T) /\ pos' = pos + 1 /\ pc' = pc
          /\ IF Selected(parse_tree, T[pos + 1]) THEN Add(R, Projection(parse_tree, T[pos + 1])) ELSE rels' = rels
  BY <1>5 DEF Select
<1> QED BY <1>10, <1>11, <1>12

\* Where a step leads.
LEMMA WhereStepsLead ==
  ASSUME [Next]_vars
  PROVE  /\ Query => pc = "interp" /\ pc' \in {"prompt", "finish", "outer", "select"}
         /\ Select => pc = "select" /\ pc' \in {"select", "finish"}
         /\ Outer => pc = "outer" /\ pc' \in {"inner", "finish"}
         /\ Inner => pc = "inner" /\ pc' \in {"inner", "outer"}
         /\ Delete => pc = "delete" /\ pc' \in {"delete", "prompt"}
         /\ BeginDelete => pc = "interp" /\ pc' \in {"delete", "prompt"}
         /\ Abort => pc' = "aborted"
         /\ Finish => pc = "finish" /\ pc' = "prompt"
         /\ Insert \/ Create \/ Destroy \/ Load \/ Show \/ Help => pc' = "prompt"
         /\ \A c \in Commands : Type(c) => pc' \in {"exited", "prompt", "interp"} /\ pos' = 0 /\ ipos' = 0
<1>1. Query => pc = "interp" /\ pc' \in {"prompt", "finish", "outer", "select"}
  BY DEF Query
<1>2. Select => pc = "select" /\ pc' \in {"select", "finish"}
  BY DEF Select
<1>3. Outer => pc = "outer" /\ pc' \in {"inner", "finish"}
  BY DEF Outer
<1>4. Inner => pc = "inner" /\ pc' \in {"inner", "outer"}
  BY DEF Inner
<1>5. Delete => pc = "delete" /\ pc' \in {"delete", "prompt"}
  BY DEF Delete
<1>6. BeginDelete => pc = "interp" /\ pc' \in {"delete", "prompt"}
  BY DEF BeginDelete
<1>7. Abort => pc' = "aborted"
  BY DEF Abort
<1>8. Finish => pc = "finish" /\ pc' = "prompt"
  BY DEF Finish
<1>9. Insert \/ Create \/ Destroy \/ Load \/ Show \/ Help => pc' = "prompt"
  BY DEF Insert, Create, Destroy, Load, Show, Help
<1>10. \A c \in Commands : Type(c) => pc' \in {"exited", "prompt", "interp"} /\ pos' = 0 /\ ipos' = 0
  BY DEF Type
<1> QED BY <1>1, <1>2, <1>3, <1>4, <1>5, <1>6, <1>7, <1>8, <1>9, <1>10

\* Each loop belongs to its kind of command.
LEMMA PlacesStep ==
  ASSUME SessionInv, ListInv, Places, [Next]_vars
  PROVE  Places'
<1>1. pos' \in Nat /\ ipos' \in Nat
  BY ListedStep DEF ListInv
<1>2. CASE UNCHANGED vars
  BY <1>1, <1>2 DEF Places, vars, scan, db
<1>3. CASE \E c \in Commands : Type(c)
  <2>1. pc' \in {"exited", "prompt", "interp"} /\ pos' = 0 /\ ipos' = 0
    BY <1>3, WhereStepsLead
  <2>2. pc' # "select" /\ pc' \notin {"outer", "inner"}
    BY <2>1
  <2> QED BY <1>1, <2>1, <2>2 DEF Places
<1>4. CASE Query
  <2>1. pc = "interp" /\ typed' = typed
    BY <1>4 DEF Query
  <2>2. parse_tree.where.kind = typed.where.kind
    BY <1>4, <2>1, KindOfTree, KindOfStep, TreeOfNames, SMTT(30) DEF Live
  <2>3. pc' \in {"prompt", "finish"} \/ (pc' = "outer" /\ typed'.where.kind = "join")
        \/ (pc' = "select" /\ typed'.where.kind # "join")
    BY <1>4, <2>1, <2>2 DEF Query
  <2>4. pc' # "interp" /\ pc' # "inner"
    BY <2>3
  <2>5. pc' = "select" => typed'.where.kind # "join"
    BY <2>3
  <2>6. pc' \in {"outer", "inner"} => typed'.where.kind = "join"
    BY <2>3
  <2> QED BY <1>1, <2>4, <2>5, <2>6 DEF Places
<1>5. CASE Select \/ Outer \/ Inner
  <2>1. typed' = typed
    BY <1>5 DEF Select, Outer, Inner, db
  <2>2. \/ typed'.where.kind # "join" /\ pc' \in {"select", "finish"}
        \/ typed'.where.kind = "join" /\ pc' \in {"outer", "inner", "finish"}
    BY <1>5, <2>1, WhereStepsLead DEF Places
  <2>3. pc' # "interp" /\ (pc' = "select" => typed'.where.kind # "join")
        /\ (pc' \in {"outer", "inner"} => typed'.where.kind = "join")
    BY <2>2
  <2> QED BY <1>1, <2>3 DEF Places
<1>6. CASE Step /\ ~Query /\ ~Select /\ ~Outer /\ ~Inner
  <2>1. pc' \in {"prompt", "delete", "aborted"}
    BY <1>6, WhereStepsLead DEF Step
  <2>2. pc' # "interp" /\ pc' # "select" /\ pc' \notin {"outer", "inner"}
    BY <2>1
  <2> QED BY <1>1, <2>2 DEF Places
<1> QED BY <1>2, <1>3, <1>4, <1>5, <1>6 DEF Next

\* A select goes on as it began.
LEMMA SelectLoopStep ==
  ASSUME SessionInv, ListInv, Places, SelectLoop, [Next]_vars
  PROVE  SelectLoop'
<1>1. CASE UNCHANGED vars
  <2>1. Picked(pos)' = Picked(pos) /\ Grown' = Grown
    BY <1>1 DEF Picked, Hit, SelectRow, SelectRel, SelectFrom, Grown, vars, scan, db
  <2> QED BY <1>1, <2>1 DEF SelectLoop, Selecting, SelectBody, SelectChecked, StarChecked, HasGrown,
             SelectRel, SelectFrom, ReadsResult, vars, scan, db
<1>2. CASE Query
  BY <1>2, QueryStartsSelect
<1>3. CASE Select
  BY <1>3, SelectStep
<1>4. CASE Outer
  <2>1. typed' = typed /\ typed.where.kind = "join"
    BY <1>4 DEF Outer, Places, db
  <2> QED BY <2>1 DEF SelectLoop, Selecting
<1>5. CASE (Step /\ ~Query /\ ~Select /\ ~Outer) \/ \E c \in Commands : Type(c)
  <2>1. pc' \in {"prompt", "delete", "aborted", "exited", "interp", "inner", "outer"}
    BY <1>5, WhereStepsLead DEF Step
  <2>2. pc' \notin {"select", "finish"}
    BY <2>1
  <2> QED BY <2>2 DEF SelectLoop, Selecting
<1> QED BY <1>1, <1>2, <1>3, <1>4, <1>5 DEF Next

\* Of values that can be compared, the scan says which ones qualify.
LEMMA HitIsRight ==
  ASSUME NEW rel, AttrList(rel.attrs), NEW w \in Wheres, w.kind # "join",
         w.kind = "select" => w.attr.attr \in Names(rel.attrs),
         AllComparable(rel, w), NEW k \in DOMAIN rel.tuples
  PROVE  Hit(rel, w, k) <=> Qualifies(rel, w, k)
<1>1. CASE w.kind = "none"
  BY <1>1 DEF Hit, Qualifies
<1>2. CASE w.kind = "select"
  <2> DEFINE d == QualAttr(rel, w)
  <2>1. w.op \in Operators /\ w.kind # "none"
    BY <1>2, WhereParts
  <2>2. d.type \in Types /\ d.len \in Nat
    <3> DEFINE p == Place(rel.attrs, w.attr.attr)
    <3>1. p \in DOMAIN rel.attrs /\ d = rel.attrs[p]
      BY <1>2, PlaceFacts DEF QualAttr
    <3> QED BY <3>1 DEF AttrList
  <2>3. Comparable(d, Compared(rel, w, k), Literal(rel, w))
    BY <2>1 DEF AllComparable
  <2>4. MatchRec(d, Compared(rel, w, k), w.op, Literal(rel, w))
          <=> Satisfies(d, Compared(rel, w, k), w.op, Literal(rel, w))
    BY <2>1, <2>2, <2>3, MatchIsRight
  <2> QED BY <2>1, <2>4 DEF Hit, Qualifies
<1> QED BY <1>1, <1>2, WhereParts

\* The end of a select.
LEMMA FinishIsExact ==
  ASSUME SessionInv, ListInv, SelectLoop, Finish
  PROVE  SelectExact'
<1> DEFINE w == typed.where
           T == SelectRel.tuples
<1>1. typed' = typed /\ before' = before /\ status' = status /\ pc = "finish"
  BY DEF Finish
<1>2. typed \in Commands /\ typed.kind = "query" /\ pc \in Live
  BY <1>1 DEF SessionInv, InCommand, Live, Looping
<1> SUFFICES ASSUME status = "OK", w.kind # "join", ~ReadsResult, AllComparable(SelectRel, w)
             PROVE  InOrder(Output', [k \in {j \in DOMAIN T : Qualifies(SelectRel, w, j)} |-> SelectRow(k)])
  <2>1. SelectRel' = SelectRel /\ \A k : SelectRow(k)' = SelectRow(k)
    BY <1>1 DEF SelectRel, SelectFrom, SelectRow
  <2> QED BY <1>1, <2>1 DEF SelectExact, Done, ReadsResult
<1>3. SelectBody /\ pos = Len(T)
  BY <1>1, <1>2 DEF SelectLoop, Selecting, SelectBody, ReadsResult
<1>4. Output' = Grown
  BY <1>3, OutputIsGrown DEF SelectBody
<1>5. AttrList(SelectRel.attrs) /\ DOMAIN T = 1 .. Len(T)
  <2>1. SelectFrom \in Rels
    BY <1>2, <1>3, SelectList DEF SelectBody, SelectChecked
  <2> QED BY <2>1, TuplesListed DEF ListInv, Listed, SelectRel
<1>6. \A j \in DOMAIN T : Hit(SelectRel, w, j) <=> Qualifies(SelectRel, w, j)
  BY <1>2, <1>3, <1>5, CommandParts, HitIsRight DEF SelectBody, SelectChecked
<1>7. {j \in DOMAIN T : Qualifies(SelectRel, w, j)} = {j \in 1 .. pos : Hit(SelectRel, w, j)}
  BY <1>3, <1>5, <1>6
<1> QED BY <1>3, <1>4, <1>7 DEF SelectBody, Picked

\* Only the end of a query brings a query to the prompt.
LEMMA OnlyFinishEnds ==
  ASSUME SessionInv, [Next]_vars, ~UNCHANGED vars, ~Finish
  PROVE  ~Done("query")'
<1>1. CASE \E c \in Commands : Type(c)
  BY <1>1, KindOfStep DEF Done
<1>2. CASE Query
  <2>1. pc' = "prompt" => status' # "OK"
    BY <1>2 DEF Query
  <2> QED BY <2>1 DEF Done
<1>3. CASE Select \/ Outer \/ Inner \/ Abort
  <2>1. pc' \in {"select", "finish", "inner", "outer", "aborted"}
    BY <1>3, WhereStepsLead
  <2>2. pc' # "prompt"
    BY <2>1
  <2> QED BY <2>2 DEF Done
<1>4. CASE Insert \/ BeginDelete \/ Delete \/ Create \/ Destroy \/ Load \/ Show \/ Help
  <2>1. typed' = typed /\ typed.kind \in {"insert", "delete", "create", "destroy", "load", "print", "help"}
    BY <1>4, KindOfStep DEF Step
  <2>2. typed'.kind # "query"
    BY <2>1
  <2> QED BY <2>2 DEF Done
<1> QED BY <1>1, <1>2, <1>3, <1>4 DEF Next, Step

\* The answer to a select stays right.
LEMMA SelectExactStep ==
  ASSUME SessionInv, ListInv, SelectLoop, SelectExact, [Next]_vars
  PROVE  SelectExact'
<1>1. CASE UNCHANGED vars
  <2>1. SelectRel' = SelectRel /\ (\A k : SelectRow(k)' = SelectRow(k)) /\ Output' = Output
    BY <1>1 DEF SelectRel, SelectFrom, SelectRow, Output, vars, db
  <2> QED BY <1>1, <2>1 DEF SelectExact, Done, ReadsResult, vars, db
<1>2. CASE Finish
  BY <1>2, FinishIsExact
<1>3. CASE ~UNCHANGED vars /\ ~Finish
  BY <1>3, OnlyFinishEnds DEF SelectExact
<1> QED BY <1>1, <1>2, <1>3

-----------------------------------------------------------------------------
(* Joins *)

\* A join of two relations, by nested loops, of attributes of one type.
JoinAsked ==
  /\ typed.kind = "query" /\ typed.where.kind = "join" /\ ~typed.star /\ Loops(Tree(typed))
  /\ SameType(OuterAttr, InnerAttr) /\ typed.into \notin {OuterRel, InnerRel} /\ TwoRelations

\* What interp has found out about a join before its loops.
JoinChecked ==
  /\ typed.where.attr.attr \in Names(Outers.attrs) /\ typed.where.attr2.attr \in Names(Inners.attrs)
  /\ \A i \in DOMAIN typed.list : Relation(typed.tables, typed.list[i].rel) \in {OuterRel, InnerRel}

\* What the inner scan says of a pair of tuples, the pairs that it has met when
\* the outer scan is at m and the inner one at n, and what those give.
JoinHit(q) == MatchRec(InnerAttr, InnerValue(q), Flip(typed.where.op), OuterValue(q))
Reached(q, m, n) == q[1] < m \/ (q[1] = m /\ q[2] <= n)
Met(m, n) == {q \in JoinPairs : Reached(q, m, n) /\ JoinHit(q)}
Paired(m, n) == [p \in Met(m, n) |-> JoinRow(p)]

\* The result has what the pairs that were met give, each once.
JoinBody ==
  /\ JoinChecked /\ HasGrown
  /\ pos <= Len(Outers.tuples) /\ ipos <= Len(Inners.tuples)
  /\ pc = "inner" => pos # 0
  /\ pc \in {"outer", "finish"} => pos = 0 \/ ipos = Len(Inners.tuples)
  /\ pc = "finish" => pos = Len(Outers.tuples)
  /\ Lists(Grown, Paired(pos, ipos))
JoinLoop == JoinAsked /\ pc \in {"outer", "inner", "finish"} /\ status = "OK" => JoinBody

\* The relations of a join are those that were asked for, as they were.
LEMMA JoinTables ==
  ASSUME SessionInv, ListInv, pc \in Live, JoinAsked
  PROVE  /\ typed \in Commands /\ parse_tree = Tree(typed) /\ parse_tree # Null
         /\ parse_tree.where.kind = "join" /\ parse_tree.where.op = typed.where.op
         /\ parse_tree.where.attr.rel = OuterRel /\ parse_tree.where.attr2.rel = InnerRel
         /\ parse_tree.where.attr.attr = typed.where.attr.attr /\ parse_tree.where.attr2.attr = typed.where.attr2.attr
         /\ OuterRel \in Rels /\ InnerRel \in Rels
         /\ rels[OuterRel] = Outers /\ rels[InnerRel] = Inners
         /\ Len(Outers.tuples) \in Nat /\ DOMAIN Outers.tuples = 1 .. Len(Outers.tuples)
         /\ Len(Inners.tuples) \in Nat /\ DOMAIN Inners.tuples = 1 .. Len(Inners.tuples)
<1>1. typed \in Commands /\ parse_tree = Tree(typed) /\ parse_tree # Null
  BY KindOfTree
<1>2. typed.kind = "query" /\ typed.where.kind = "join" /\ typed.where.kind # "none"
  BY DEF JoinAsked
<1>3. /\ parse_tree.where.kind = "join" /\ parse_tree.where.op = typed.where.op
      /\ parse_tree.where.attr.rel = OuterRel /\ parse_tree.where.attr2.rel = InnerRel
      /\ parse_tree.where.attr.attr = typed.where.attr.attr /\ parse_tree.where.attr2.attr = typed.where.attr2.attr
      /\ OuterRel \in TableRels(typed) /\ InnerRel \in TableRels(typed)
  <2> DEFINE t == parse_tree
  <2>1. t.where.kind = typed.where.kind /\ t.where.op = typed.where.op
    BY <1>1, <1>2, TreeOfNames
  <2>2. /\ t.where.attr.attr = typed.where.attr.attr
        /\ t.where.attr.rel = OuterRel /\ t.where.attr.rel \in TableRels(typed)
    BY <1>1, <1>2, TreeOfNames DEF OuterRel
  <2>3. /\ t.where.attr2.attr = typed.where.attr2.attr
        /\ t.where.attr2.rel = InnerRel /\ t.where.attr2.rel \in TableRels(typed)
    BY <1>1, <1>2, TreeOfNames DEF InnerRel
  <2> QED BY <1>2, <2>1, <2>2, <2>3
<1>4. OuterRel # typed.into /\ InnerRel # typed.into
  BY DEF JoinAsked
<1>5. /\ OuterRel \in Rels /\ InnerRel \in Rels
      /\ rels[OuterRel] = before[OuterRel] /\ rels[InnerRel] = before[InnerRel]
  BY <1>2, <1>3, <1>4, TablesStay
<1>6. /\ Len(before[OuterRel].tuples) \in Nat
      /\ DOMAIN before[OuterRel].tuples = 1 .. Len(before[OuterRel].tuples)
      /\ Len(before[InnerRel].tuples) \in Nat
      /\ DOMAIN before[InnerRel].tuples = 1 .. Len(before[InnerRel].tuples)
  <2>1. Listed(before)
    BY DEF ListInv
  <2> QED BY <1>5, <2>1, TuplesListed
<1> QED BY <1>1, <1>3, <1>5, <1>6 DEF Outers, Inners

\* In its loops, a join says of a pair what was asked, and takes of it what was
\* asked.
LEMMA JoinReads ==
  ASSUME SessionInv, ListInv, pc \in Live, JoinAsked, JoinChecked, NEW i, NEW j
  PROVE  /\ Joins(parse_tree, Outers.tuples[i], Inners.tuples[j]) = {JoinHit(<<i, j>>)}
         /\ Combined(parse_tree, Outers.tuples[i], Inners.tuples[j]) = JoinRow(<<i, j>>)
<1> DEFINE t == parse_tree
           q == <<i, j>>
           o == Outers.tuples[i]
           n == Inners.tuples[j]
<1>1. /\ typed \in Commands /\ t = Tree(typed) /\ t # Null /\ typed.kind = "query"
      /\ t.where.kind = "join" /\ t.where.op = typed.where.op
      /\ t.where.attr.rel = OuterRel /\ t.where.attr2.rel = InnerRel
      /\ t.where.attr.attr = typed.where.attr.attr /\ t.where.attr2.attr = typed.where.attr2.attr
      /\ rels[OuterRel] = Outers /\ rels[InnerRel] = Inners
  BY JoinTables DEF JoinAsked
<1>2. Desc(t.where.attr) = OuterAttr /\ Desc(t.where.attr2) = InnerAttr
  BY <1>1 DEF Desc, Attrs, OuterAttr, InnerAttr
<1>3. OuterAttr.name = typed.where.attr.attr /\ InnerAttr.name = typed.where.attr2.attr
  BY PlaceFacts DEF JoinChecked, OuterAttr, InnerAttr
<1>4. q[1] = i /\ q[2] = j
  OBVIOUS
<1>5. /\ ValueOf(Attrs(t.where.attr.rel), o, OuterAttr.name) = OuterValue(q)
      /\ ValueOf(Attrs(t.where.attr2.rel), n, InnerAttr.name) = InnerValue(q)
  BY <1>1, <1>3, <1>4 DEF Attrs, OuterValue, InnerValue, Field
<1>6. Joins(t, o, n) = {JoinHit(q)}
  <2>1. SameType(OuterAttr, InnerAttr)
    BY DEF JoinAsked
  <2>2. Joins(t, o, n) = {MatchRec(InnerAttr, InnerValue(q), Flip(t.where.op), OuterValue(q))}
    BY <1>2, <1>5, <2>1 DEF Joins
  <2> QED BY <1>1, <2>2 DEF JoinHit
<1>7. /\ List(t) = t.list /\ DOMAIN t.list = DOMAIN typed.list
      /\ \A k \in DOMAIN typed.list : /\ t.list[k].attr = typed.list[k].attr
                                      /\ t.list[k].rel = Relation(typed.tables, typed.list[k].rel)
                                      /\ t.list[k].rel \in {OuterRel, InnerRel}
  <2>1. ~t.star
    BY <1>1, TreeOfQuery DEF JoinAsked
  <2>2. /\ DOMAIN t.list = DOMAIN typed.list
        /\ \A k \in DOMAIN typed.list : /\ t.list[k].attr = typed.list[k].attr
                                        /\ t.list[k].rel = Relation(typed.tables, typed.list[k].rel)
    BY <1>1, TreeOfNames
  <2> QED BY <2>1, <2>2 DEF List, JoinChecked
<1> DEFINE one(k) == IF t.list[k].rel = OuterRel THEN Field(Outers, o, typed.list[k].attr)
                     ELSE Field(Inners, n, typed.list[k].attr)
<1>8. JoinRow(q) = [k \in DOMAIN typed.list |-> one(k)]
  BY <1>4, <1>7 DEF JoinRow, JoinAsked
<1>9. \A k \in DOMAIN typed.list :
        ValueOf(Attrs(t.list[k].rel), IF t.list[k].rel = t.where.attr.rel THEN o ELSE n, t.list[k].attr) = one(k)
  <2> SUFFICES ASSUME NEW k \in DOMAIN typed.list
               PROVE  ValueOf(Attrs(t.list[k].rel), IF t.list[k].rel = t.where.attr.rel THEN o ELSE n,
                              t.list[k].attr) = one(k)
    OBVIOUS
  <2>1. t.list[k].attr = typed.list[k].attr /\ t.where.attr.rel = OuterRel
    BY <1>1, <1>7
  <2>2. CASE t.list[k].rel = OuterRel
    BY <1>1, <2>1, <2>2 DEF Attrs, Field
  <2>3. CASE t.list[k].rel # OuterRel
    <3>1. t.list[k].rel = InnerRel
      BY <1>7, <2>3
    <3> QED BY <1>1, <2>1, <2>3, <3>1 DEF Attrs, Field
  <2> QED BY <2>2, <2>3
<1>10. Combined(t, o, n) = [k \in DOMAIN typed.list |->
         ValueOf(Attrs(t.list[k].rel), IF t.list[k].rel = t.where.attr.rel THEN o ELSE n, t.list[k].attr)]
  BY <1>7 DEF Combined
<1> HIDE DEF one
<1>11. Combined(t, o, n) = [k \in DOMAIN typed.list |-> one(k)]
  BY <1>9, <1>10
<1> QED BY <1>6, <1>8, <1>11

\* A pair of places.
LEMMA PairParts ==
  ASSUME NEW m \in Nat, NEW n \in Nat, NEW q \in (1 .. m) \X (1 .. n)
  PROVE  q[1] \in 1 .. m /\ q[2] \in 1 .. n /\ q = <<q[1], q[2]>>
BY SMT

\* How the loops go through the pairs: before the first, one pair more, from one
\* tuple of the outer relation to the next, and all.
LEMMA NoneReached ==
  ASSUME NEW m \in Nat, NEW n \in Nat, NEW q \in (1 .. m) \X (1 .. n)
  PROVE  ~Reached(q, 0, 0)
BY PairParts, SMTT(30) DEF Reached

\* The inner scan meets one more pair at each step.
LEMMA OneMoreReached ==
  ASSUME NEW m \in Nat, NEW n \in Nat, NEW q \in (1 .. m) \X (1 .. n), NEW x \in Nat, NEW y \in Nat
  PROVE  Reached(q, x, y + 1) <=> Reached(q, x, y) \/ q = <<x, y + 1>>
BY PairParts, SMT DEF Reached

\* When the inner scan has ended, the next outer tuple has met none yet.
LEMMA NextReached ==
  ASSUME NEW m \in Nat, NEW n \in Nat, NEW q \in (1 .. m) \X (1 .. n), NEW x \in Nat, NEW y \in Nat,
         x = 0 \/ y = n
  PROVE  Reached(q, x + 1, 0) <=> Reached(q, x, y)
BY PairParts, SMTT(30) DEF Reached

\* When both scans have ended, all pairs were met.
LEMMA AllReached ==
  ASSUME NEW m \in Nat, NEW n \in Nat, NEW q \in (1 .. m) \X (1 .. n), NEW y \in Nat,
         m = 0 \/ y = n
  PROVE  Reached(q, m, y)
BY PairParts, SMTT(30) DEF Reached

\* What was asked does not change while it is answered.
LEMMA JoinStays ==
  ASSUME typed' = typed, before' = before
  PROVE  /\ Outers' = Outers /\ Inners' = Inners /\ (JoinAsked' <=> JoinAsked) /\ (JoinChecked' <=> JoinChecked)
         /\ Paired(pos, ipos)' = Paired(pos', ipos')
<1>1. OuterRel' = OuterRel /\ InnerRel' = InnerRel /\ Outers' = Outers /\ Inners' = Inners
  BY DEF OuterRel, InnerRel, Outers, Inners
<1>2. OuterAttr' = OuterAttr /\ InnerAttr' = InnerAttr /\ (TwoRelations' <=> TwoRelations) /\ JoinPairs' = JoinPairs
  BY <1>1 DEF OuterAttr, InnerAttr, TwoRelations, JoinPairs
<1>3. (JoinAsked' <=> JoinAsked) /\ (JoinChecked' <=> JoinChecked)
  BY <1>1, <1>2 DEF JoinAsked, JoinChecked
<1>4. \A q : (JoinHit(q)' <=> JoinHit(q)) /\ JoinRow(q)' = JoinRow(q)
  BY <1>1, <1>2 DEF JoinHit, JoinRow, InnerValue, OuterValue
<1>5. Met(pos, ipos)' = {q \in JoinPairs : Reached(q, pos', ipos') /\ JoinHit(q)}
  <2>1. Met(pos, ipos)' = {q \in JoinPairs' : Reached(q, pos, ipos)' /\ JoinHit(q)'}
    BY DEF Met
  <2>2. \A q : Reached(q, pos, ipos)' <=> Reached(q, pos', ipos')
    BY DEF Reached
  <2> QED BY <1>2, <1>4, <2>1, <2>2
<1>6. Paired(pos, ipos)' = [p \in Met(pos, ipos)' |-> JoinRow(p)']
  BY DEF Paired
<1>7. Paired(pos, ipos)' = Paired(pos', ipos')
  BY <1>4, <1>5, <1>6 DEF Paired, Met
<1> QED BY <1>1, <1>3, <1>7

\* A join that goes on has two relations, an attribute of each, and a list of
\* attributes of the two.
LEMMA QueryChecksJoin ==
  ASSUME SessionInv, ListInv, Query, pc' # "prompt", status' = "OK", JoinAsked
  PROVE  JoinChecked
<1> DEFINE t == parse_tree
<1>1. pc \in Live /\ rels = before
      /\ (\A i \in 1 .. Len(List(t)) : List(t)[i].rel \in Allowed(t)) /\ \A a \in WhereAttrs(t.where) : Found(a)
  BY QueryAccepted DEF Live
<1>2. /\ typed \in Commands /\ t = Tree(typed) /\ t # Null /\ typed.kind = "query" /\ t.where.kind = "join"
      /\ t.where.attr.rel = OuterRel /\ t.where.attr2.rel = InnerRel
      /\ t.where.attr.attr = typed.where.attr.attr /\ t.where.attr2.attr = typed.where.attr2.attr
  BY <1>1, JoinTables DEF JoinAsked
<1>3. WhereAttrs(t.where) = {t.where.attr, t.where.attr2} /\ Allowed(t) = {OuterRel, InnerRel}
  BY <1>2 DEF WhereAttrs, Allowed
<1>4. Found(t.where.attr) /\ Found(t.where.attr2)
  BY <1>1, <1>3
<1>5. typed.where.attr.attr \in Names(Outers.attrs) /\ typed.where.attr2.attr \in Names(Inners.attrs)
  BY <1>1, <1>2, <1>4 DEF Found, Attrs, Outers, Inners
<1>6. List(t) = t.list /\ DOMAIN List(t) = 1 .. Len(List(t))
  BY <1>2, TreeOfQuery, ListFacts DEF List, JoinAsked, SessionInv
<1>7. /\ DOMAIN t.list = DOMAIN typed.list
      /\ \A k \in DOMAIN typed.list : t.list[k].rel = Relation(typed.tables, typed.list[k].rel)
  <2>1. \A k \in DOMAIN typed.list : /\ t.list[k].attr = typed.list[k].attr
                                     /\ t.list[k].rel = Relation(typed.tables, typed.list[k].rel)
                                     /\ t.list[k].rel \in TableRels(typed)
    BY <1>2, TreeOfNames, ZenonT(30)
  <2>2. DOMAIN t.list = DOMAIN typed.list
    BY <1>2, TreeOfNames
  <2> QED BY <2>1, <2>2
<1> QED BY <1>1, <1>3, <1>5, <1>6, <1>7 DEF JoinChecked

\* The loops of a join begin.
LEMMA QueryStartsJoin ==
  ASSUME SessionInv, ListInv, Places, Query
  PROVE  JoinLoop'
<1> SUFFICES ASSUME JoinAsked', pc' \in {"outer", "inner", "finish"}, status' = "OK" PROVE JoinBody'
  BY DEF JoinLoop
<1>1. pc' # "prompt"
  OBVIOUS
<1>2. /\ typed' = typed /\ before' = before /\ pos' = pos /\ ipos' = ipos /\ pc = "interp" /\ pc \in Live
      /\ pc' = IF ~Loops(parse_tree) THEN "finish"
               ELSE IF parse_tree.where.kind = "join" THEN "outer" ELSE "select"
  BY <1>1, QueryAccepted DEF Live
<1>3. /\ Outers' = Outers /\ Inners' = Inners /\ JoinAsked /\ (JoinChecked' <=> JoinChecked)
      /\ Paired(pos, ipos)' = Paired(pos', ipos')
  BY <1>2, JoinStays
<1>4. pc' = "outer" /\ pos' = 0 /\ ipos' = 0
  BY <1>2, <1>3, JoinTables DEF JoinAsked, Places
<1>5. JoinChecked'
  BY <1>1, <1>3, QueryChecksJoin
<1>6. HasGrown' /\ DOMAIN Grown' = {}
  BY <1>1, QueryAddsNothing
<1>7. /\ Len(Outers.tuples) \in Nat /\ DOMAIN Outers.tuples = 1 .. Len(Outers.tuples)
      /\ Len(Inners.tuples) \in Nat /\ DOMAIN Inners.tuples = 1 .. Len(Inners.tuples)
  BY <1>2, <1>3, JoinTables
<1>8. Met(0, 0) = {}
  <2>1. ASSUME NEW q \in JoinPairs PROVE ~Reached(q, 0, 0)
    BY <1>7, NoneReached DEF JoinPairs
  <2> QED BY <2>1 DEF Met
<1>9. Lists(Grown', Paired(0, 0))
  <2>1. DOMAIN Paired(0, 0) = {}
    BY <1>8 DEF Paired
  <2> QED BY <1>6, <2>1, NothingListed
<1>10. /\ pos' <= Len(Outers'.tuples) /\ ipos' <= Len(Inners'.tuples)
       /\ pc' # "inner" /\ pc' # "finish"
  <2>1. 0 <= Len(Outers.tuples) /\ 0 <= Len(Inners.tuples)
    BY <1>7, SMT
  <2>2. pc' # "inner" /\ pc' # "finish"
    BY <1>4
  <2> QED BY <1>3, <1>4, <2>1, <2>2
<1> QED BY <1>3, <1>4, <1>5, <1>6, <1>9, <1>10 DEF JoinBody

\* The next tuple of the outer relation: no pair with it has been met.
LEMMA OuterStep ==
  ASSUME SessionInv, ListInv, Places, JoinLoop, Outer
  PROVE  JoinLoop'
<1> SUFFICES ASSUME JoinAsked', status' = "OK" PROVE JoinBody'
  BY DEF JoinLoop
<1> DEFINE m == Len(Outers.tuples)
           n == Len(Inners.tuples)
<1>1. /\ pc = "outer" /\ typed' = typed /\ before' = before /\ rels' = rels /\ status' = status
      /\ pc \in Live
  BY DEF Outer, db, Live, Looping
<1>2. /\ Outers' = Outers /\ Inners' = Inners /\ JoinAsked /\ (JoinChecked' <=> JoinChecked)
      /\ Paired(pos, ipos)' = Paired(pos', ipos')
  BY <1>1, JoinStays
<1>3. JoinBody
  BY <1>1, <1>2 DEF JoinLoop
<1>4. /\ m \in Nat /\ DOMAIN Outers.tuples = 1 .. m /\ n \in Nat /\ DOMAIN Inners.tuples = 1 .. n
      /\ Tuples(parse_tree.where.attr.rel) = Outers.tuples
  BY <1>1, <1>2, JoinTables DEF Tuples
<1>5. pos \in Nat /\ ipos \in Nat /\ pos <= m /\ ipos <= n /\ (pos = 0 \/ ipos = n)
  BY <1>1, <1>3 DEF JoinBody, Places
<1>6. Grown' = Grown /\ (HasGrown' <=> HasGrown)
  BY <1>1 DEF Grown, HasGrown
<1>7. CASE pos < m
  <2>1. pos' = pos + 1 /\ ipos' = 0 /\ pc' = "inner"
    BY <1>4, <1>7 DEF Outer
  <2>2. Met(pos + 1, 0) = Met(pos, ipos)
    <3>1. ASSUME NEW q \in JoinPairs PROVE Reached(q, pos + 1, 0) <=> Reached(q, pos, ipos)
      <4>1. q \in (1 .. m) \X (1 .. n)
        BY <1>4 DEF JoinPairs
      <4> HIDE DEF m, n
      <4> QED BY <1>4, <1>5, <4>1, NextReached
    <3> QED BY <3>1 DEF Met
  <2>3. Paired(pos', ipos') = Paired(pos, ipos)
    BY <2>1, <2>2 DEF Paired
  <2>4. pos' <= m /\ ipos' <= n /\ pos' # 0 /\ pc' \notin {"outer", "finish"} /\ pc' # "finish"
    <3> HIDE DEF m, n
    <3> QED BY <1>4, <1>5, <1>7, <2>1, SMTT(30)
  <2> QED BY <1>2, <1>3, <1>6, <2>3, <2>4 DEF JoinBody
<1>8. CASE ~(pos < m)
  <2>1. pos' = pos /\ ipos' = ipos /\ pc' = "finish"
    BY <1>4, <1>8 DEF Outer, scan
  <2>2. pos = m
    <3> HIDE DEF m, n
    <3> QED BY <1>4, <1>5, <1>8, SMTT(30)
  <2>3. pc' # "inner"
    BY <2>1
  <2> QED BY <1>2, <1>3, <1>5, <1>6, <2>1, <2>2, <2>3 DEF JoinBody
<1> QED BY <1>7, <1>8

\* The next tuple of the inner relation: one more pair.
LEMMA InnerStep ==
  ASSUME SessionInv, ListInv, Places, JoinLoop, Inner
  PROVE  JoinLoop'
<1> SUFFICES ASSUME JoinAsked', status' = "OK" PROVE JoinBody'
  BY DEF JoinLoop
<1> DEFINE m == Len(Outers.tuples)
           n == Len(Inners.tuples)
           R == Result(typed)
           t == parse_tree
<1>1. /\ pc = "inner" /\ typed' = typed /\ before' = before /\ pos' = pos /\ status' = status
      /\ pc \in Live /\ pc # "outer" /\ pc # "finish"
  BY DEF Inner, Live, Looping
<1>2. /\ Outers' = Outers /\ Inners' = Inners /\ JoinAsked /\ (JoinChecked' <=> JoinChecked)
      /\ Paired(pos, ipos)' = Paired(pos', ipos')
  BY <1>1, JoinStays
<1>3. JoinBody /\ JoinChecked
  BY <1>1, <1>2 DEF JoinLoop, JoinBody
<1>4. /\ m \in Nat /\ DOMAIN Outers.tuples = 1 .. m /\ n \in Nat /\ DOMAIN Inners.tuples = 1 .. n
      /\ Tuples(t.where.attr.rel) = Outers.tuples /\ Tuples(t.where.attr2.rel) = Inners.tuples
      /\ R \in Rels /\ Result(t) = R
  <2>1. typed.kind = "query" /\ typed \in Commands /\ t = Tree(typed) /\ t # Null
    BY <1>1, <1>2, JoinTables DEF JoinAsked
  <2>2. R \in Rels /\ Result(t) = R
    BY <2>1, TargetIsRel, TreeOfQuery DEF Result
  <2> QED BY <1>1, <1>2, <2>2, JoinTables DEF Tuples
<1>5. pos \in Nat /\ ipos \in Nat /\ pos <= m /\ ipos <= n /\ pos # 0
  BY <1>1, <1>3 DEF JoinBody, Places
<1>6. CASE ipos = n /\ pc' = "outer" /\ rels' = rels /\ ipos' = ipos
  <2>1. Grown' = Grown /\ (HasGrown' <=> HasGrown)
    BY <1>1, <1>6 DEF Grown, HasGrown
  <2>2. pc' # "inner" /\ pc' # "finish"
    BY <1>6
  <2> QED BY <1>1, <1>2, <1>3, <1>5, <1>6, <2>1, <2>2 DEF JoinBody
<1>7. CASE /\ ipos < n /\ ipos' = ipos + 1 /\ pc' = pc
           /\ \E match \in Joins(t, Outers.tuples[pos], Inners.tuples[ipos + 1]) :
                IF match THEN Add(R, Combined(t, Outers.tuples[pos], Inners.tuples[ipos + 1])) ELSE rels' = rels
  <2> DEFINE y == ipos + 1
             k == <<pos, ipos + 1>>
  <2>1. y <= n /\ pos \in 1 .. m /\ y \in 1 .. n
    <3> HIDE DEF m, n
    <3> QED BY <1>4, <1>5, <1>7, SMTT(30)
  <2>2. k \in JoinPairs
    BY <1>4, <2>1 DEF JoinPairs
  <2>3. \A q \in JoinPairs : Reached(q, pos, y) <=> Reached(q, pos, ipos) \/ q = k
    <3> SUFFICES ASSUME NEW q \in JoinPairs PROVE Reached(q, pos, y) <=> Reached(q, pos, ipos) \/ q = k
      OBVIOUS
    <3>1. q \in (1 .. m) \X (1 .. n)
      BY <1>4 DEF JoinPairs
    <3> HIDE DEF m, n
    <3> QED BY <1>4, <1>5, <3>1, OneMoreReached
  <2>4. ~Reached(k, pos, ipos)
    <3>1. k[1] = pos /\ k[2] = ipos + 1
      OBVIOUS
    <3> QED BY <1>5, <3>1, SMTT(30) DEF Reached
  <2>5. /\ Joins(t, Outers.tuples[pos], Inners.tuples[y]) = {JoinHit(k)}
        /\ Combined(t, Outers.tuples[pos], Inners.tuples[y]) = JoinRow(k)
    BY <1>1, <1>2, <1>3, JoinReads
  <2>6. IF JoinHit(k) THEN Add(R, JoinRow(k)) ELSE rels' = rels
    BY <1>7, <2>5
  <2>7. pc' \notin {"outer", "finish"} /\ pc' # "finish"
    BY <1>1, <1>7
  <2> HIDE DEF y, k
  <2>8. Paired(pos', ipos') = Paired(pos, y)
    BY <1>1, <1>7 DEF y
  <2>9. CASE ~JoinHit(k)
    <3>1. rels' = rels
      BY <2>6, <2>9
    <3>2. Grown' = Grown /\ (HasGrown' <=> HasGrown)
      BY <1>1, <3>1 DEF Grown, HasGrown
    <3>3. Met(pos, y) = Met(pos, ipos)
      BY <2>3, <2>9 DEF Met
    <3>4. Paired(pos, y) = Paired(pos, ipos)
      BY <3>3 DEF Paired
    <3> QED BY <1>1, <1>2, <1>3, <1>5, <1>7, <2>1, <2>7, <2>8, <3>2, <3>4 DEF JoinBody, y
  <2>10. CASE JoinHit(k)
    <3>1. rels'[R].tuples = Append(rels[R].tuples, JoinRow(k))
      BY <1>4, <2>6, <2>10, AddEffect DEF SessionInv, ListInv
    <3> DEFINE g == Len(rels[R].tuples) - Len(before[R].tuples)
    <3>2. /\ HasGrown' /\ g \in Nat /\ DOMAIN Grown = 1 .. g /\ DOMAIN Grown' = 1 .. g + 1
          /\ Grown'[g + 1] = JoinRow(k) /\ \A i \in 1 .. g : Grown'[i] = Grown[i]
      BY <1>1, <1>3, <1>4, <3>1, GrownByOne DEF JoinBody
    <3> HIDE DEF g
    <3>3. Met(pos, y) = Met(pos, ipos) \cup {k} /\ k \notin Met(pos, ipos)
      BY <2>2, <2>3, <2>4, <2>10 DEF Met
    <3>4. DOMAIN Paired(pos, ipos) = Met(pos, ipos) /\ DOMAIN Paired(pos, y) = Met(pos, y)
      BY DEF Paired
    <3>5. (\A q \in Met(pos, ipos) : Paired(pos, y)[q] = Paired(pos, ipos)[q]) /\ Paired(pos, y)[k] = JoinRow(k)
      BY <3>3 DEF Paired
    <3>6. Lists(Grown', Paired(pos, y))
      BY <1>3, <3>2, <3>3, <3>4, <3>5, OneMoreListed DEF JoinBody
    <3> QED BY <1>1, <1>2, <1>3, <1>5, <1>7, <2>1, <2>7, <2>8, <3>2, <3>6 DEF JoinBody, y
  <2> QED BY <2>9, <2>10
<1>8. \/ ipos = n /\ pc' = "outer" /\ rels' = rels /\ ipos' = ipos
      \/ /\ ipos < n /\ ipos' = ipos + 1 /\ pc' = pc
         /\ \E match \in Joins(t, Outers.tuples[pos], Inners.tuples[ipos + 1]) :
              IF match THEN Add(R, Combined(t, Outers.tuples[pos], Inners.tuples[ipos + 1])) ELSE rels' = rels
  <2> DEFINE o == Tuples(t.where.attr.rel)
             i == Tuples(t.where.attr2.rel)
  <2>1. \/ ipos = Len(i) /\ pc' = "outer" /\ rels' = rels /\ ipos' = ipos
        \/ /\ ipos < Len(i) /\ ipos' = ipos + 1 /\ pc' = pc
           /\ \E match \in Joins(t, o[pos], i[ipos + 1]) :
                IF match THEN Add(Result(t), Combined(t, o[pos], i[ipos + 1])) ELSE rels' = rels
    BY DEF Inner
  <2>2. o = Outers.tuples /\ i = Inners.tuples /\ Result(t) = R
    BY <1>4
  <2> HIDE DEF o, i, R
  <2> QED BY <2>1, <2>2
<1> QED BY <1>6, <1>7, <1>8

\* A join goes on as it began.
LEMMA JoinLoopStep ==
  ASSUME SessionInv, ListInv, Places, JoinLoop, [Next]_vars
  PROVE  JoinLoop'
<1>1. CASE UNCHANGED vars
  <2>1. /\ typed' = typed /\ before' = before /\ pos' = pos /\ ipos' = ipos /\ rels' = rels
        /\ pc' = pc /\ status' = status
    BY <1>1 DEF vars, scan, db
  <2>2. /\ Outers' = Outers /\ Inners' = Inners /\ (JoinAsked' <=> JoinAsked) /\ (JoinChecked' <=> JoinChecked)
        /\ Paired(pos, ipos)' = Paired(pos, ipos)
    BY <2>1, JoinStays
  <2>3. Grown' = Grown /\ (HasGrown' <=> HasGrown)
    BY <2>1 DEF Grown, HasGrown
  <2> QED BY <2>1, <2>2, <2>3 DEF JoinLoop, JoinBody
<1>2. CASE Query
  BY <1>2, QueryStartsJoin
<1>3. CASE Outer
  BY <1>3, OuterStep
<1>4. CASE Inner
  BY <1>4, InnerStep
<1>5. CASE Select
  <2>1. typed' = typed /\ typed.where.kind # "join"
    BY <1>5 DEF Select, Places
  <2> QED BY <2>1 DEF JoinLoop, JoinAsked
<1>6. CASE (Step /\ ~Query /\ ~Select /\ ~Outer /\ ~Inner) \/ \E c \in Commands : Type(c)
  <2>1. pc' \in {"prompt", "delete", "aborted", "exited", "interp"}
    BY <1>6, WhereStepsLead DEF Step
  <2>2. pc' \notin {"outer", "inner", "finish"}
    BY <2>1
  <2> QED BY <2>2 DEF JoinLoop
<1> QED BY <1>1, <1>2, <1>3, <1>4, <1>5, <1>6 DEF Next

\* The end of a join.
LEMMA FinishIsJoined ==
  ASSUME SessionInv, ListInv, JoinLoop, Finish
  PROVE  JoinExact'
<1> DEFINE m == Len(Outers.tuples)
           n == Len(Inners.tuples)
           sat == {q \in JoinPairs : Satisfies(OuterAttr, OuterValue(q), typed.where.op, InnerValue(q))}
<1>1. typed' = typed /\ before' = before /\ status' = status /\ pc = "finish" /\ pc \in Live
  BY DEF Finish, Live, Looping
<1>2. typed \in Commands /\ typed.kind = "query"
  BY <1>1 DEF SessionInv, InCommand, Looping
<1> SUFFICES ASSUME status = "OK", JoinAsked,
                    \A p \in JoinPairs : Comparable(OuterAttr, InnerValue(p), OuterValue(p))
             PROVE  Lists(Output', [p \in sat |-> JoinRow(p)])
  <2>1. /\ OuterRel' = OuterRel /\ InnerRel' = InnerRel /\ OuterAttr' = OuterAttr /\ InnerAttr' = InnerAttr
        /\ JoinPairs' = JoinPairs /\ (TwoRelations' <=> TwoRelations)
    BY <1>1 DEF OuterRel, InnerRel, OuterAttr, InnerAttr, Outers, Inners, JoinPairs, TwoRelations
  <2>2. \A q : OuterValue(q)' = OuterValue(q) /\ InnerValue(q)' = InnerValue(q) /\ JoinRow(q)' = JoinRow(q)
    BY <1>1, <2>1 DEF OuterRel, InnerRel, Outers, Inners, OuterValue, InnerValue, JoinRow
  <2>3. SUFFICES ASSUME ProperJoin', TwoRelations', Loops(Tree(typed))',
                        (\A p \in JoinPairs : Comparable(OuterAttr, InnerValue(p), OuterValue(p)))'
                 PROVE  JoinAnswer'
    BY DEF JoinExact
  <2>4. status = "OK" /\ JoinAsked
    BY <1>1, <1>2, <2>1, <2>3 DEF ProperJoin, Done, JoinAsked
  <2>5. \A p \in JoinPairs : Comparable(OuterAttr, InnerValue(p), OuterValue(p))
    BY <2>1, <2>2, <2>3
  <2>6. Lists(Output', [p \in sat |-> JoinRow(p)])
    BY <2>4, <2>5
  <2>7. sat' = sat
    BY <1>1, <2>1, <2>2
  <2> HIDE DEF sat
  <2>8. [p \in sat' |-> JoinRow(p)'] = [p \in sat |-> JoinRow(p)]
    BY <2>2, <2>7
  <2> QED BY <2>6, <2>8 DEF JoinAnswer, sat
<1>3. JoinBody /\ JoinChecked /\ HasGrown /\ pos = m /\ (m = 0 \/ ipos = n) /\ Lists(Grown, Paired(pos, ipos))
  BY <1>1 DEF JoinLoop, JoinBody
<1>4. Output' = Grown
  BY <1>3, OutputIsGrown
<1>5. /\ m \in Nat /\ DOMAIN Outers.tuples = 1 .. m /\ n \in Nat /\ DOMAIN Inners.tuples = 1 .. n
      /\ OuterRel \in Rels
  BY <1>1, JoinTables
<1>6. \A q \in JoinPairs : Reached(q, pos, ipos)
  <2>1. JoinPairs = (1 .. m) \X (1 .. n)
    BY <1>5 DEF JoinPairs
  <2>2. ipos \in Nat
    BY DEF ListInv
  <2> HIDE DEF m, n
  <2> QED BY <1>3, <1>5, <2>1, <2>2, AllReached
<1>7. typed.where.op \in Operators
  <2>1. typed.where \in Wheres /\ typed.where.kind = "join"
    BY <1>2, CommandParts DEF JoinAsked
  <2> QED BY <2>1, WhereParts
<1>8. OuterAttr.type \in Types /\ OuterAttr.len \in Nat /\ SameType(OuterAttr, InnerAttr)
  <2>1. AttrList(Outers.attrs)
    BY <1>5 DEF ListInv, Listed, Outers
  <2> DEFINE p == Place(Outers.attrs, typed.where.attr.attr)
  <2>2. p \in DOMAIN Outers.attrs /\ OuterAttr = Outers.attrs[p]
    BY <1>3, PlaceFacts DEF JoinChecked, OuterAttr
  <2> QED BY <2>1, <2>2 DEF AttrList, JoinAsked
<1>9. \A q \in JoinPairs : JoinHit(q) <=> Satisfies(OuterAttr, OuterValue(q), typed.where.op, InnerValue(q))
  <2>1. \A q \in JoinPairs : Comparable(InnerAttr, InnerValue(q), OuterValue(q))
    BY <1>8 DEF Comparable, SameType
  <2> QED BY <1>7, <1>8, <2>1, JoinIsRight DEF JoinHit
<1>10. Met(pos, ipos) = sat
  BY <1>6, <1>9 DEF Met
<1> QED BY <1>3, <1>4, <1>10 DEF Paired

\* The answer to a join stays right.
LEMMA JoinExactStep ==
  ASSUME SessionInv, ListInv, JoinLoop, JoinExact, [Next]_vars
  PROVE  JoinExact'
<1>1. CASE UNCHANGED vars
  <2>1. typed' = typed /\ before' = before /\ pc' = pc /\ status' = status /\ rels' = rels /\ shown' = shown
    BY <1>1 DEF vars, db
  <2>2. Output' = Output
    BY <2>1 DEF Output
  <2>3. OuterRel' = OuterRel /\ InnerRel' = InnerRel /\ Outers' = Outers /\ Inners' = Inners
    BY <2>1 DEF OuterRel, InnerRel, Outers, Inners
  <2>4. /\ OuterAttr' = OuterAttr /\ InnerAttr' = InnerAttr
        /\ (TwoRelations' <=> TwoRelations) /\ JoinPairs' = JoinPairs
    BY <2>1, <2>3 DEF OuterAttr, InnerAttr, TwoRelations, JoinPairs
  <2>5. \A q : JoinRow(q)' = JoinRow(q) /\ OuterValue(q)' = OuterValue(q) /\ InnerValue(q)' = InnerValue(q)
    BY <2>1, <2>3, <2>4 DEF JoinRow, OuterValue, InnerValue
  <2>6. ProperJoin' <=> ProperJoin
    BY <2>1, <2>3, <2>4 DEF ProperJoin, Done
  <2>7. JoinAnswer' <=> JoinAnswer
    BY <2>1, <2>2, <2>4, <2>5 DEF JoinAnswer
  <2> QED BY <2>1, <2>4, <2>5, <2>6, <2>7 DEF JoinExact
<1>2. CASE Finish
  BY <1>2, FinishIsJoined
<1>3. CASE ~UNCHANGED vars /\ ~Finish
  BY <1>3, OnlyFinishEnds DEF JoinExact, ProperJoin
<1> QED BY <1>1, <1>2, <1>3

-----------------------------------------------------------------------------
(* Deletes *)

\* A delete whose literal has the type of the attribute.
DeleteAsked ==
  /\ typed.kind = "delete"
  /\ typed.where.kind = "select" => QualAttr(before[typed.rel], typed.where).type = typed.where.lit.type

\* The tuples of the relation, as it was, that a delete is to remove.
Doomed ==
  LET rel == before[typed.rel] IN {j \in DOMAIN rel.tuples : Hit(rel, typed.where, j)}

\* QU_Delete is in its loop: it has seen the old tuples up to its place.
DeleteBody ==
  LET old == before[typed.rel]  now == rels[typed.rel]
  IN  /\ typed.where.kind # "join"
      /\ typed.where.kind = "select" => typed.where.attr.attr \in Names(old.attrs)
      /\ now.attrs = old.attrs
      /\ Swept(old.tuples, now.tuples, pos, Doomed)
DeleteLoop == DeleteAsked /\ pc = "delete" => DeleteBody

\* A delete begins when its checks have passed.
LEMMA DeleteStarts ==
  ASSUME SessionInv, ListInv, Places, BeginDelete
  PROVE  DeleteLoop'
<1>1. /\ pc = "interp" /\ parse_tree.kind = "delete" /\ pos' = pos /\ rels' = rels /\ before' = before /\ typed' = typed
      /\ pc' = IF DeleteError(parse_tree) = "OK" THEN "delete" ELSE "prompt"
  BY DEF BeginDelete, scan, db
<1>2. parse_tree.kind # "query" /\ pc \in {"interp", "delete"}
  BY <1>1
<1>3. typed \in Commands /\ parse_tree = typed
  BY <1>2, AtInterp
<1> SUFFICES ASSUME pc' = "delete" PROVE DeleteBody'
  BY DEF DeleteLoop
<1>4. DeleteError(typed) = "OK"
  <2>1. DeleteError(typed) # "OK" => pc' = "prompt"
    BY <1>1, <1>3
  <2> QED BY <2>1
<1>5. rels = before /\ pos = 0
  BY <1>1 DEF SessionInv, Scope, Places
<1>6. typed.rel \in Rels
  BY <1>1, <1>3, TargetIsRel, SMTT(30)
<1>7. typed.where.kind # "join"
  BY <1>4 DEF DeleteError
<1>8. typed.where.kind = "select" => typed.where.attr.attr \in Names(Attrs(typed.rel))
  BY <1>4 DEF DeleteError
<1>9. Len(before[typed.rel].tuples) \in Nat
  BY <1>6, ListLength DEF ListInv, Listed
<1>10. Swept(before[typed.rel].tuples, before[typed.rel].tuples, 0, Doomed)
  BY <1>9, SweptAtFirst
<1>11. Doomed' = Doomed
  BY <1>1 DEF Doomed
<1> QED BY <1>1, <1>5, <1>7, <1>8, <1>10, <1>11 DEF DeleteBody, Attrs

\* What the scan of QU_Delete says of a tuple, if the literal has the type of
\* the attribute.
LEMMA DeletesHits ==
  ASSUME NEW t \in Commands, t.kind = "delete", NEW rel, Attrs(t.rel) = rel.attrs, t.where.kind # "join",
         t.where.kind = "select" => /\ t.where.attr.attr \in Names(rel.attrs)
                                    /\ QualAttr(rel, t.where).type = t.where.lit.type,
         NEW k \in DOMAIN rel.tuples
  PROVE  \A match \in Deletes(t, rel.tuples[k]) : match <=> Hit(rel, t.where, k)
<1> DEFINE w == t.where
           d == AttrOf(Attrs(t.rel), w.attr.attr)
<1>1. CASE w.kind = "none"
  BY <1>1 DEF Deletes, Hit
<1>2. CASE w.kind = "select"
  <2>1. w.kind # "none"
    BY <1>2
  <2>2. d = QualAttr(rel, w) /\ w.lit.type = d.type
    BY <1>2 DEF QualAttr
  <2>3. d.name = w.attr.attr
    BY <1>2, PlaceFacts
  <2>4. Deletes(t, rel.tuples[k]) = {MatchRec(d, ValueOf(Attrs(t.rel), rel.tuples[k], d.name), w.op, Filter(d.type, w.lit))}
    BY <2>1, <2>2 DEF Deletes
  <2>5. Deletes(t, rel.tuples[k]) = {MatchRec(QualAttr(rel, w), Compared(rel, w, k), w.op, Literal(rel, w))}
    BY <2>2, <2>3, <2>4 DEF Compared, Field, Literal
  <2> QED BY <2>1, <2>5 DEF Hit
<1>3. w.kind \in {"none", "select", "join"}
  BY CommandParts, WhereParts
<1> QED BY <1>1, <1>2, <1>3

\* QU_Delete looks at the next tuple.
LEMMA DeleteGoesOn ==
  ASSUME SessionInv, ListInv, Places, DeleteLoop, Delete
  PROVE  DeleteLoop'
<1> DEFINE r == typed.rel
           old == before[r]
           now == rels[r]
           k == pos + 1 + (Len(old.tuples) - Len(now.tuples))
<1>1. pc = "delete" /\ typed' = typed /\ before' = before /\ parse_tree' = parse_tree
  BY DEF Delete, pool
<1> SUFFICES ASSUME DeleteAsked', pc' = "delete" PROVE DeleteBody'
  BY DEF DeleteLoop
<1>2. DeleteAsked /\ DeleteBody
  BY <1>1 DEF DeleteAsked, DeleteLoop
<1>3. typed \in Commands /\ parse_tree = typed /\ typed.kind = "delete" /\ r \in Rels
  <2>1. typed \in Commands /\ parse_tree = Tree(typed) /\ parse_tree # Null /\ typed.kind = "delete"
    BY <1>1 DEF SessionInv, InCommand, Live
  <2>2. typed.kind # "query" /\ typed.kind \in {"insert", "delete", "create"}
    BY <2>1
  <2> QED BY <2>1, <2>2, TreeOfOther, TargetIsRel
<1>4. /\ old.tuples \in Seq(Range(old.tuples)) /\ Len(old.tuples) \in Nat /\ DOMAIN old.tuples = 1 .. Len(old.tuples)
      /\ now.tuples \in Seq(Range(now.tuples)) /\ Len(now.tuples) \in Nat
  BY <1>3, TuplesListed DEF ListInv
<1>5. /\ pos < Len(now.tuples)
      /\ \E match \in Deletes(typed, now.tuples[pos + 1]) :
           IF match
           THEN rels' = [rels EXCEPT ![r].tuples = RemoveAt(@, pos + 1)] /\ pos' = pos
           ELSE pos' = pos + 1 /\ rels' = rels
  <2>1. pc' # "prompt"
    OBVIOUS
  <2> QED BY <1>3, <2>1 DEF Delete, Tuples
<1>6. pos \in Nat /\ Swept(old.tuples, now.tuples, pos, Doomed) /\ now.attrs = old.attrs
  BY <1>2 DEF DeleteBody, Places
<1>7. k \in DOMAIN old.tuples /\ now.tuples[pos + 1] = old.tuples[k]
  BY <1>4, <1>5, <1>6, SweptNext
<1>8. /\ typed.where.kind # "join"
      /\ typed.where.kind = "select" => /\ typed.where.attr.attr \in Names(old.attrs)
                                        /\ QualAttr(old, typed.where).type = typed.where.lit.type
  BY <1>2 DEF DeleteBody, DeleteAsked
<1>9. \A match \in Deletes(typed, now.tuples[pos + 1]) : match <=> Hit(old, typed.where, k)
  <2>1. Attrs(typed.rel) = old.attrs
    BY <1>6 DEF Attrs
  <2>2. k \in DOMAIN old.tuples
    BY <1>7
  <2> HIDE DEF k, old, r
  <2>3. \A match \in Deletes(typed, old.tuples[k]) : match <=> Hit(old, typed.where, k)
    BY <1>3, <1>8, <2>1, <2>2, DeletesHits
  <2>4. Deletes(typed, now.tuples[pos + 1]) = Deletes(typed, old.tuples[k])
    BY <1>7
  <2> QED BY <2>3, <2>4, SMTT(30)
<1>10. Hit(old, typed.where, k) <=> k \in Doomed
  BY <1>7 DEF Doomed
<1>11. Doomed' = Doomed
  BY <1>1 DEF Doomed
<1>12. CASE k \in Doomed
  <2>1. rels' = [rels EXCEPT ![r].tuples = RemoveAt(now.tuples, pos + 1)] /\ pos' = pos
    BY <1>5, <1>9, <1>10, <1>12
  <2>2. Swept(old.tuples, RemoveAt(now.tuples, pos + 1), pos, Doomed)
    BY <1>4, <1>5, <1>6, <1>12, SweptRemoves
  <2>3. RemoveAt(now.tuples, pos + 1) \in Seq(Range(RemoveAt(now.tuples, pos + 1)))
    <3> DEFINE n == Len(now.tuples)
    <3>1. n \in Nat /\ pos < n
      BY <1>4, <1>5
    <3> HIDE DEF n
    <3>2. pos + 1 \in 1 .. n
      BY <1>6, <3>1, SMTT(30)
    <3> QED BY <1>4, <3>2, ShrunkList DEF n
  <2>4. rels'[r].tuples = RemoveAt(now.tuples, pos + 1) /\ rels'[r].attrs = now.attrs
    BY <1>3, <2>1, <2>3, ListedWithTuples DEF SessionInv, ListInv
  <2> QED BY <1>1, <1>6, <1>8, <1>11, <2>1, <2>2, <2>4 DEF DeleteBody
<1>13. CASE k \notin Doomed
  <2>1. pos' = pos + 1 /\ rels' = rels
    BY <1>5, <1>9, <1>10, <1>13
  <2>2. Swept(old.tuples, now.tuples, pos + 1, Doomed)
    BY <1>4, <1>5, <1>6, <1>13, SweptKeeps
  <2> QED BY <1>1, <1>6, <1>8, <1>11, <2>1, <2>2 DEF DeleteBody
<1> QED BY <1>12, <1>13

\* The loop of QU_Delete, whatever the step.
LEMMA DeleteLoopStep ==
  ASSUME SessionInv, ListInv, Places, DeleteLoop, [Next]_vars
  PROVE  DeleteLoop'
<1>1. CASE UNCHANGED vars
  <2>1. typed' = typed /\ before' = before /\ pc' = pc /\ rels' = rels /\ pos' = pos
    BY <1>1 DEF vars, db, scan
  <2> QED BY <2>1 DEF DeleteLoop, DeleteAsked, DeleteBody, Doomed
<1>2. CASE BeginDelete
  BY <1>2, DeleteStarts
<1>3. CASE Delete
  BY <1>3, DeleteGoesOn
<1>4. CASE \/ \E c \in Commands : Type(c)
           \/ Query \/ Select \/ Outer \/ Inner \/ Finish \/ Abort
           \/ Insert \/ Create \/ Destroy \/ Load \/ Show \/ Help
  <2>1. pc' \in {"exited", "prompt", "interp", "finish", "outer", "select", "inner", "aborted"}
    BY <1>4, WhereStepsLead
  <2>2. pc' # "delete"
    BY <2>1
  <2> QED BY <2>2 DEF DeleteLoop
<1> QED BY <1>1, <1>2, <1>3, <1>4 DEF Next, Step

\* The end of a delete.
LEMMA DeleteIsExact ==
  ASSUME SessionInv, ListInv, DeleteLoop, Delete
  PROVE  DeleteExact'
<1> DEFINE old == before[typed.rel]
           now == rels[typed.rel]
           w == typed.where
<1>1. pc = "delete" /\ typed' = typed /\ before' = before /\ parse_tree' = parse_tree
  BY DEF Delete, pool
<1> SUFFICES ASSUME pc' = "prompt", DeleteAsked, AllComparable(old, w) PROVE DeletedExactly'
  BY <1>1 DEF DeleteExact, Done, DeleteAsked
<1>2. typed \in Commands /\ parse_tree = typed /\ typed.kind = "delete" /\ typed.rel \in Rels
  <2>1. typed \in Commands /\ parse_tree = Tree(typed) /\ parse_tree # Null /\ typed.kind = "delete"
    BY <1>1 DEF SessionInv, InCommand, Live
  <2>2. typed.kind # "query" /\ typed.kind \in {"insert", "delete", "create"}
    BY <2>1
  <2> QED BY <2>1, <2>2, TreeOfOther, TargetIsRel
<1>3. pos = Len(now.tuples) /\ rels' = rels
  <2>1. pc' # pc
    BY <1>1
  <2> QED BY <1>2, <2>1 DEF Delete, Tuples
<1>4. DeleteBody
  BY <1>1 DEF DeleteLoop
<1>5. /\ Len(old.tuples) \in Nat /\ DOMAIN old.tuples = 1 .. Len(old.tuples) /\ now.tuples \in Seq(Range(now.tuples))
      /\ AttrList(old.attrs)
  BY <1>2, TuplesListed DEF ListInv, Listed
<1>6. InOrder(now.tuples, [k \in {j \in DOMAIN old.tuples : j \notin Doomed} |-> old.tuples[k]])
  BY <1>3, <1>4, <1>5, SweptAll DEF DeleteBody
<1>7. w \in Wheres
  BY <1>2, CommandParts
<1>8. \A j \in DOMAIN old.tuples : Hit(old, w, j) <=> Qualifies(old, w, j)
  BY <1>4, <1>5, <1>7, HitIsRight DEF DeleteBody
<1>9. {j \in DOMAIN old.tuples : j \notin Doomed} = {j \in DOMAIN old.tuples : ~Qualifies(old, w, j)}
  BY <1>8 DEF Doomed
<1> QED BY <1>1, <1>3, <1>6, <1>9 DEF DeletedExactly

\* The effect of a delete stays right.
LEMMA DeleteExactStep ==
  ASSUME SessionInv, ListInv, DeleteLoop, DeleteExact, [Next]_vars
  PROVE  DeleteExact'
<1>1. CASE UNCHANGED vars
  <2>1. typed' = typed /\ before' = before /\ pc' = pc /\ rels' = rels /\ status' = status
    BY <1>1 DEF vars, db
  <2> QED BY <2>1 DEF DeleteExact, Done, DeletedExactly
<1>2. CASE Delete
  BY <1>2, DeleteIsExact
<1>3. CASE BeginDelete
  <2>1. pc' = "prompt" => status' # "OK"
    BY <1>3 DEF BeginDelete
  <2> QED BY <2>1 DEF DeleteExact, Done
<1>4. CASE \E c \in Commands : Type(c)
  BY <1>4, KindOfStep DEF DeleteExact, Done
<1>5. CASE Abort
  <2>1. pc' = "aborted"
    BY <1>5, WhereStepsLead
  <2>2. pc' # "prompt"
    BY <2>1
  <2> QED BY <2>2 DEF DeleteExact, Done
<1>6. CASE Query \/ Select \/ Outer \/ Inner \/ Finish \/ Insert \/ Create \/ Destroy \/ Load \/ Show \/ Help
  <2>1. typed' = typed /\ typed.kind \in {"query", "insert", "create", "destroy", "load", "print", "help"}
    BY <1>6, KindOfStep DEF Step
  <2>2. typed'.kind # "delete"
    BY <2>1
  <2> QED BY <2>2 DEF DeleteExact, Done
<1> QED BY <1>1, <1>2, <1>3, <1>4, <1>5, <1>6 DEF Next, Step

-----------------------------------------------------------------------------
(* Theorems *)

\* What is true of the three loops between their steps.
AnswerInv == Places /\ SelectLoop /\ JoinLoop /\ DeleteLoop

\* The loops of the three operators, in whatever state.
LEMMA AnswerInvariant == Spec => []AnswerInv
<1>1. Init => AnswerInv
  <2> SUFFICES ASSUME Init PROVE AnswerInv
    OBVIOUS
  <2>1. pc = "prompt" /\ pos = 0 /\ ipos = 0
    BY DEF Init
  <2>2. pc \notin {"interp", "select", "outer", "inner", "delete", "finish"} /\ pos \in Nat /\ ipos \in Nat
    BY <2>1
  <2>3. Places
    BY <2>2 DEF Places
  <2>4. SelectLoop /\ JoinLoop /\ DeleteLoop
    BY <2>2 DEF SelectLoop, Selecting, JoinLoop, DeleteLoop
  <2> QED BY <2>3, <2>4 DEF AnswerInv
<1>2. SessionInv /\ ListInv /\ AnswerInv /\ [Next]_vars => AnswerInv'
  BY PlacesStep, SelectLoopStep, JoinLoopStep, DeleteLoopStep DEF AnswerInv
<1> QED BY <1>1, <1>2, SessionInvariants, PTL DEF Spec

\* Whatever the relations, the qualification and the attributes asked for, a
\* select prints or adds to its result exactly the tuples that qualify, in the
\* order of the relation (QU_Select and ScanSelect).
THEOREM SelectsAreExact == Spec => []SelectExact
<1>1. Init => SelectExact
  <2>1. Init => ~Done("query")
    BY SMT DEF Init, Done
  <2> QED BY <2>1 DEF SelectExact
<1>2. SessionInv /\ ListInv /\ AnswerInv /\ SelectExact /\ [Next]_vars => SelectExact'
  BY SelectExactStep DEF AnswerInv
<1> QED BY <1>1, <1>2, AnswerInvariant, SessionInvariants, PTL DEF Spec

\* Whatever the two relations, a join by nested loops of attributes of one type
\* gives each pair of tuples that qualifies once, and each attribute from the
\* relation it is asked of (QU_Join and QU_NL_Join).
THEOREM JoinsAreExact == Spec => []JoinExact
<1>1. Init => JoinExact
  <2>1. Init => ~Done("query")
    BY SMT DEF Init, Done
  <2> QED BY <2>1 DEF JoinExact, ProperJoin
<1>2. SessionInv /\ ListInv /\ AnswerInv /\ JoinExact /\ [Next]_vars => JoinExact'
  BY JoinExactStep DEF AnswerInv
<1> QED BY <1>1, <1>2, AnswerInvariant, SessionInvariants, PTL DEF Spec

\* Whatever the relation, a delete whose literal has the type of the attribute
\* removes exactly the tuples that qualify and keeps the others in order, though
\* it removes them under its own scan (QU_Delete).
THEOREM DeletesAreExact == Spec => []DeleteExact
<1>1. Init => DeleteExact
  <2>1. Init => ~Done("delete")
    BY SMT DEF Init, Done
  <2> QED BY <2>1 DEF DeleteExact
<1>2. SessionInv /\ ListInv /\ AnswerInv /\ DeleteExact /\ [Next]_vars => DeleteExact'
  BY DeleteExactStep DEF AnswerInv
<1> QED BY <1>1, <1>2, AnswerInvariant, SessionInvariants, PTL DEF Spec
=============================================================================
