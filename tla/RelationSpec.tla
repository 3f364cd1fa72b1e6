---------------------------- MODULE RelationSpec ----------------------------
(***************************************************************************)
(* What create and destroy promise: a relation appears with its whole      *)
(* schema and disappears with all of it, in one step.                      *)
(***************************************************************************)
EXTENDS Sequences

CONSTANTS Rels, Attrs, NoSchema

VARIABLE schema  \* the attributes of each relation, in order

Init == schema = [r \in Rels |-> NoSchema]

\* Relation r changes, and no other.
Only(r) == schema' = [schema EXCEPT ![r] = schema'[r]]

Create(r) ==
  /\ schema[r] = NoSchema /\ schema'[r] # NoSchema
  /\ schema'[r] \in Seq(Attrs) \ {<<>>}
  /\ Only(r)

Destroy(r) ==
  /\ schema[r] # NoSchema
  /\ schema' = [schema EXCEPT ![r] = NoSchema]

Next == \E r \in Rels : Create(r) \/ Destroy(r)

Spec == Init /\ [][Next]_schema
=============================================================================
