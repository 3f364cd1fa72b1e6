----------------------------- MODULE MCSession -----------------------------
(***************************************************************************)
(* A relation R(a INT, s CHAR(2)), a relation S that the commands make, and*)
(* commands that meet each case of the parser and the interpreter.         *)
(***************************************************************************)
EXTENDS Session, TLC

Num(n) == [type |-> "INTEGER", atoi |-> n, atof |-> 2 * n, text |-> <<(n % 8) + 1, NUL>>]
Real(h) == [type |-> "FLOAT", atoi |-> h \div 2, atof |-> h, text |-> <<(h \div 2) + 1, 3, NUL>>]
Str(text) == [type |-> "STRING", atoi |-> 0, atof |-> 0, text |-> text \o <<NUL>>]
x == Str(<<5>>)

MCNumbered(name, i) == name \o "_" \o ToString(i)
MCInitRels ==
  [r \in {"R"} |-> [attrs |-> <<[name |-> "a", type |-> "INTEGER", len |-> 1],
                               [name |-> "s", type |-> "STRING", len |-> 2]>>,
                    tuples |-> <<>>]]

MCUnixFiles == {<<>>, <<<<1, <<5, 0>>>>, <<0, <<5, 6>>>>>>}

A(rel, attr) == [rel |-> rel, attr |-> attr]
T(rel, alias) == [rel |-> rel, alias |-> alias]
Where(a, op, lit) == [kind |-> "select", attr |-> a, op |-> op, lit |-> lit]
On(a, op, b) == [kind |-> "join", attr |-> a, op |-> op, attr2 |-> b]
Ask(list, into, tables, where) ==
  [kind |-> "query", star |-> list = <<>>, list |-> list, into |-> into, tables |-> tables, where |-> where]
Put(rel, attrs, lits) == [kind |-> "insert", rel |-> rel, attrs |-> attrs, lits |-> lits]
Del(rel, where) == [kind |-> "delete", rel |-> rel, where |-> where]
Make(rel, descrs) == [kind |-> "create", rel |-> rel, descrs |-> descrs]
Plain(kind, rel) == [kind |-> kind, rel |-> rel]
IntAttr(name) == [name |-> name, type |-> "INTEGER", len |-> 1]
Chr(name, len) == [name |-> name, type |-> "STRING", len |-> len]

Inserts ==
  {Put("R", <<"a", "s">>, <<Num(0), x>>), Put("R", <<"s", "a">>, <<x, Num(1)>>),
   Put("R", <<"a", "s">>, <<Real(1), Str(<<>>)>>), Put("R", <<"a", "a">>, <<Num(0), Num(1)>>),
   Put("R", <<"a", "z">>, <<Num(0), x>>), Put("R", <<"a", "s">>, <<Num(0)>>),
   Put("R", <<"a", "s">>, <<Num(0), Str(<<5, 5, 5>>)>>),
   Put("R", <<"a", "s", "a">>, <<Num(0), x, Num(0)>>),
   Put("R", <<"a", "s", "a", "s">>, <<Num(0), x, Num(0), x>>),
   Put("S", <<"b">>, <<Num(0)>>), Put("S", <<"b">>, <<Real(2)>>)}

Selects ==
  {Ask(<<>>, "", <<T("R", "")>>, NoWhere), Ask(<<A("", "a")>>, "S", <<T("R", "")>>, NoWhere),
   Ask(<<A("", "s")>>, "", <<T("R", "")>>, Where(A("", "a"), "LTE", Num(0))),
   Ask(<<A("x", "a"), A("R", "s")>>, "", <<T("R", "x")>>, Where(A("x", "s"), "EQ", x)),
   Ask(<<A("", "a")>>, "", <<T("R", "")>>, Where(A("", "s"), "LTE", Str(<<>>))),
   Ask(<<A("", "a")>>, "S", <<T("R", "")>>, Where(A("", "a"), "GT", Real(1))),
   Ask(<<A("", "a")>>, "S", <<T("R", "")>>, Where(A("", "z"), "EQ", Num(0))),
   Ask(<<>>, "R", <<T("R", "")>>, Where(A("", "a"), "EQ", Num(1))),
   Ask(<<>>, "S", <<T("S", "")>>, NoWhere), Ask(<<>>, "", <<T("S", "")>>, Where(A("", "b"), "GT", Num(0))),
   Ask(<<A("", "a"), A("", "a")>>, "", <<T("R", "")>>, NoWhere),
   Ask(<<A("", "a"), A("", "s"), A("", "a")>>, "", <<T("R", "")>>, NoWhere),
   Ask(<<A("R", "a"), A("S", "b")>>, "", <<T("R", ""), T("S", "")>>, NoWhere),
   Ask(<<A("", "a")>>, "", <<T("R", ""), T("S", "")>>, NoWhere),
   Ask(<<A("y", "a")>>, "", <<T("R", "x")>>, NoWhere),
   Ask(<<>>, "", <<T("R", ""), T("S", "")>>, NoWhere)}

Joined(op) == Ask(<<A("R", "a"), A("y", "b")>>, "", <<T("R", ""), T("S", "y")>>, On(A("R", "a"), op, A("S", "b")))
JoinQueries ==
  {Joined(op) : op \in {"LT", "EQ", "GTE"}} \cup
  {Ask(<<A("R", "s")>>, "", <<T("S", ""), T("R", "")>>, On(A("S", "b"), "NE", A("R", "a"))),
   Ask(<<A("x", "a"), A("y", "a")>>, "", <<T("R", "x"), T("R", "y")>>, On(A("x", "a"), "LT", A("y", "a"))),
   Ask(<<A("R", "a")>>, "S", <<T("R", ""), T("S", "")>>, On(A("R", "s"), "EQ", A("S", "b"))),
   Ask(<<A("R", "a"), A("R", "s"), A("S", "b")>>, "", <<T("R", ""), T("S", "")>>,
       On(A("R", "a"), "EQ", A("S", "b"))),
   Ask(<<>>, "", <<T("R", ""), T("S", "")>>, On(A("R", "a"), "EQ", A("S", "b"))),
   Ask(<<>>, "", <<T("R", "")>>, On(A("R", "a"), "EQ", A("R", "a")))}

Deletions ==
  {Del("R", NoWhere), Del("S", NoWhere), Del("R", Where(A("", "a"), "EQ", Num(0))),
   Del("R", Where(A("", "s"), "GTE", x)), Del("R", Where(A("", "s"), "EQ", Num(0))),
   Del("R", Where(A("", "a"), "EQ", Real(0))), Del("R", Where(A("", "z"), "EQ", Num(0))),
   Del("R", On(A("", "a"), "EQ", A("", "s")))}

Others ==
  {Make("S", <<IntAttr("b")>>), Make("S", <<[name |-> "b", type |-> "FLOAT", len |-> 1]>>),
   Make("S", <<IntAttr("b"), IntAttr("b")>>), Make("S", <<Chr("b", 0)>>),
   Make("S", <<IntAttr("b"), IntAttr("c"), Chr("d", 2)>>), Plain("destroy", "S"), Plain("print", "R"),
   Plain("print", "S"), Plain("help", ""), Plain("help", "S"), Plain("build", "R"), Plain("drop", "R"),
   [kind |-> "load", rel |-> "R", there |-> TRUE, recs |-> <<<<1, <<5, 0>>>>, <<0, <<5, 6>>>>>>],
   [kind |-> "load", rel |-> "S", there |-> FALSE, recs |-> <<>>],
   [kind |-> "load", rel |-> "relcat", there |-> TRUE, recs |-> <<>>], Plain("destroy", "attrcat")}
  \cup [kind : {"error"}, nodes : {0, 9, 17}, chars : {0, 21}]
  \cup [kind : {"shell", "empty", "quit"}]

MCCommands == Inserts \cup Selects \cup JoinQueries \cup Deletions \cup Others

\* Values whose difference is no int of two bits.
DistantCommands ==
  {Put("R", <<"a", "s">>, <<Num(-2), x>>), Make("S", <<IntAttr("b")>>), Put("S", <<"b">>, <<Num(1)>>),
   Joined("LT")}
=============================================================================
