------------------------------- MODULE Tuple -------------------------------
(***************************************************************************)
(* Attributes, values and their comparison, as the query operators use     *)
(* them (heapfile.C, insert.C, select.C, delete.C, join.C).                *)
(*                                                                         *)
(* An attribute is [name, type, len].  A tuple has a value for each        *)
(* attribute of its relation, in the order of their offsets: a number for  *)
(* an INTEGER and, in units of a half, for a FLOAT; a sequence of len      *)
(* characters for a STRING.  A character is a number, NUL is 0.  The       *)
(* literal of a command is kept as the string that value_of makes of it,   *)
(* here as what atoi, atof and strncmp get out of that string:             *)
(* [type, atoi, atof, text].                                               *)
(***************************************************************************)
EXTENDS Integers, Sequences, FiniteSetsExt

CONSTANTS
  Bits,  \* width of an int
  Junk   \* the characters that uninitialised memory may hold

ASSUME BitsAssumption == Bits \in Nat \ {0, 1}

\* Arithmetic, said here because the provers do not know powers.
ASSUME PowerAssumption == 2 ^ (Bits - 1) \in Nat \ {0} /\ 2 ^ Bits = 2 * 2 ^ (Bits - 1)

Ints == -(2 ^ (Bits - 1)) .. (2 ^ (Bits - 1) - 1)  \* the values of an int

NUL == 0
Word == 1  \* the length of an INTEGER or a FLOAT

Types == {"INTEGER", "FLOAT", "STRING"}
Operators == {"LT", "LTE", "EQ", "GTE", "GT", "NE"}

\* What an operator says of a difference.
Holds(diff, op) ==
  CASE op = "LT" -> diff < 0 [] op = "LTE" -> diff <= 0 [] op = "EQ" -> diff = 0
    [] op = "GTE" -> diff >= 0 [] op = "GT" -> diff > 0 [] op = "NE" -> diff # 0

\* A result of int arithmetic wraps around.
Wrap(v) == ((v + 2 ^ (Bits - 1)) % 2 ^ Bits) - 2 ^ (Bits - 1)

\* Mutant: all n characters count, also those behind the end of a string.
Memcmp(s, t, n) ==
  LET last == {k \in 1 .. n : k > Len(t) \/ s[k] # t[k]}
  IN  IF last = {} THEN 0 ELSE IF Min(last) > Len(t) THEN 1 ELSE s[Min(last)] - t[Min(last)]

\* strncmp: the first of n characters that differ or that end the strings; a
\* filter of fewer characters ends with NUL.
Strncmp(s, t, n) ==
  LET last == {k \in 1 .. Min({n, Len(t)}) : s[k] # t[k] \/ s[k] = NUL}
  IN  IF last = {} THEN 0 ELSE s[Min(last)] - t[Min(last)]

\* matchRec of a value and a filter, both of the type of the attribute.
MatchRec(attr, v, op, filter) ==
  Holds(CASE attr.type = "INTEGER" -> Wrap(v - filter)
          [] attr.type = "FLOAT" -> v - filter
          [] attr.type = "STRING" -> Strncmp(v, filter, attr.len), op)

\* The string of a literal as a filter for a type.
Filter(type, lit) ==
  CASE type = "INTEGER" -> lit.atoi [] type = "FLOAT" -> lit.atof [] type = "STRING" -> lit.text

\* What QU_Insert stores for a literal.  memcpy takes attrLen characters, more
\* than the string has if it is short.  A number is put back into the literal's
\* own bytes first; if those are fewer than four it passes their end, and nothing
\* that the session reads is taken to lie there.
Stored(attr, lit) ==
  IF attr.type # "STRING" THEN {Filter(attr.type, lit)}
  ELSE {[k \in 1 .. attr.len |-> IF k <= Len(lit.text) THEN lit.text[k] ELSE g[k]] :
          g \in [1 .. attr.len -> Junk]}

\* What a value of the attribute may be if nothing was stored for it.
Unset(attr) == IF attr.type = "STRING" THEN [1 .. attr.len -> Junk] ELSE Junk

-----------------------------------------------------------------------------
(* Lookup in a relation's attributes *)

Names(attrs) == {attrs[i].name : i \in DOMAIN attrs}

\* The place of an attribute, and the attribute.
Place(attrs, name) == CHOOSE i \in DOMAIN attrs : attrs[i].name = name
AttrOf(attrs, name) == attrs[Place(attrs, name)]
ValueOf(attrs, tuple, name) == tuple[Place(attrs, name)]

\* Two attributes have the same type and length.
SameType(a, b) == a.type = b.type /\ a.len = b.len

\* createRel refuses two attributes of one name.
Distinct(attrs) == \A i, j \in DOMAIN attrs : attrs[i].name = attrs[j].name => i = j
=============================================================================
