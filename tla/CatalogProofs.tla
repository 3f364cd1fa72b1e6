---------------------------- MODULE CatalogProofs ---------------------------
(***************************************************************************)
(* Proofs about the catalogs, for any relations and attributes, whichever  *)
(* step of a command fails and whenever the program crashes.               *)
(***************************************************************************)
EXTENDS Catalog, SequenceTheorems, FiniteSetTheorems, TLAPS

\* What a command in progress knows: createRel that the name is free, and
\* destroyRel which attributes are still to be removed.
Underway ==
  /\ cmd.pc = "addRel" => AttrCnts[cmd.rel] = <<>>
  /\ cmd.pc = "dropAttrs" => cmd.todo # <<>> /\ cmd.todo = AttrNames[cmd.rel]
  /\ cmd.pc = "dropRel" => AttrNames[cmd.rel] = <<>>

\* What it knows besides as long as the program has not crashed: the attributes
\* that createRel has still to add are new.
Creating ==
  /\ cmd.pc = "addAttrs" => AttrCnts[cmd.rel] # <<>>
  /\ cmd.pc \in {"addRel", "addAttrs"} => IsInjective(cmd.todo)
  /\ cmd.pc = "addRel" => AttrNames[cmd.rel] = <<>>
  /\ cmd.pc = "addAttrs" =>
       \A i \in DOMAIN AttrNames[cmd.rel] : \A j \in DOMAIN cmd.todo :
         AttrNames[cmd.rel][i] # cmd.todo[j]

\* The catalogs as they are on disk: relcat, if UT_Quit wrote one page of it,
\* lists a relation once, and if it wrote one page of each they are what they
\* were then, that is consistent.
DiskInv ==
  /\ "rel" \notin torn /\ quitPages["rel"] = 1 => \A r \in Rels : Len(Descs(relDisk[r])) <= 1
  /\ torn = {} /\ quitPages["rel"] = 1 /\ quitPages["attr"] = 1 =>
       \A r \in Rels : /\ Descs(attrDisk[r]) # <<>> => Descs(relDisk[r]) # <<>>
                       /\ IsInjective(Descs(attrDisk[r]))

CatInv ==
  /\ TypeOK
  /\ ListedOnce /\ AttrsOfListed /\ AttrsOnce
  /\ DiskInv
  /\ Underway
  /\ torn = {} => Creating

-----------------------------------------------------------------------------
(* Sequences *)

\* What entries say is a sequence of its own, as long as they are.
LEMMA DescsType ==
  ASSUME NEW S, NEW s \in Seq(Entry(S))
  PROVE  /\ Descs(s) \in Seq(S) /\ Len(Descs(s)) = Len(s)
         /\ \A i \in 1 .. Len(s) : Descs(s)[i] = s[i].desc /\ s[i].desc \in S
         /\ Descs(s) = <<>> <=> s = <<>>
<1>1. Len(s) \in Nat /\ DOMAIN s = 1 .. Len(s)
  BY LenProperties
<1>2. \A i \in 1 .. Len(s) : s[i].desc \in S
  <2> TAKE i \in 1 .. Len(s)
  <2>1. s[i] \in Entry(S)
    BY ElementOfSeq
  <2> QED BY <2>1 DEF Entry
<1>3. Descs(s) = [i \in 1 .. Len(s) |-> s[i].desc]
  BY <1>1 DEF Descs
<1>4. Descs(s) \in Seq(S) /\ Len(Descs(s)) = Len(s)
  BY <1>1, <1>2, <1>3
<1>5. Descs(s) = <<>> <=> s = <<>>
  BY <1>4, EmptySeq
<1> QED BY <1>2, <1>3, <1>4, <1>5

\* An entry that is appended says one thing more.
LEMMA DescsAppend ==
  ASSUME NEW S, NEW s \in Seq(Entry(S)), NEW e \in Entry(S)
  PROVE  Append(s, e) \in Seq(Entry(S)) /\ Descs(Append(s, e)) = Append(Descs(s), e.desc)
<1> DEFINE new == Append(s, e)
           d == e.desc
<1>1. d \in S
  BY DEF Entry
<1> HIDE DEF d
<1>2. /\ new \in Seq(Entry(S)) /\ Len(new) = Len(s) + 1 /\ Len(s) \in Nat
      /\ \A i \in 1 .. Len(s) : new[i] = s[i]
      /\ new[Len(s) + 1] = e
  BY AppendProperties, LenProperties
<1> HIDE DEF new
<1>3. /\ Append(Descs(s), d) \in Seq(S) /\ Len(Append(Descs(s), d)) = Len(s) + 1
      /\ \A i \in 1 .. Len(s) : Append(Descs(s), d)[i] = Descs(s)[i]
      /\ Append(Descs(s), d)[Len(s) + 1] = d
  BY <1>1, <1>2, DescsType, AppendProperties
<1>4. /\ Descs(new) \in Seq(S) /\ Len(Descs(new)) = Len(s) + 1
      /\ \A i \in 1 .. Len(s) + 1 : Descs(new)[i] = new[i].desc
  BY <1>2, DescsType
<1>5. \A i \in 1 .. Len(s) : Descs(s)[i] = s[i].desc
  BY DescsType
<1>6. \A i \in 1 .. Len(s) + 1 : Descs(new)[i] = Append(Descs(s), d)[i]
  <2> TAKE i \in 1 .. Len(s) + 1
  <2>1. i \in 1 .. Len(s) \/ i = Len(s) + 1
    BY LenProperties
  <2> QED BY <1>2, <1>3, <1>4, <1>5, <2>1 DEF d
<1>7. Descs(new) = Append(Descs(s), d)
  BY <1>3, <1>4, <1>6, SeqEqual
<1> QED BY <1>2, <1>7 DEF new, d

\* Entries without the first say one thing less.
LEMMA DescsTail ==
  ASSUME NEW S, NEW s \in Seq(Entry(S)), s # <<>>
  PROVE  Tail(s) \in Seq(Entry(S)) /\ Descs(Tail(s)) = Tail(Descs(s))
<1>1. /\ Tail(s) \in Seq(Entry(S)) /\ Len(Tail(s)) = Len(s) - 1 /\ Len(s) \in Nat
      /\ \A i \in 1 .. Len(s) - 1 : Tail(s)[i] = s[i + 1]
  BY HeadTailProperties, LenProperties
<1>2. /\ Descs(s) \in Seq(S) /\ Descs(s) # <<>> /\ Len(Descs(s)) = Len(s)
      /\ \A i \in 1 .. Len(s) : Descs(s)[i] = s[i].desc
  BY DescsType
<1>3. /\ Tail(Descs(s)) \in Seq(S) /\ Len(Tail(Descs(s))) = Len(s) - 1
      /\ \A i \in 1 .. Len(s) - 1 : Tail(Descs(s))[i] = Descs(s)[i + 1]
  BY <1>2, HeadTailProperties
<1>4. /\ Descs(Tail(s)) \in Seq(S) /\ Len(Descs(Tail(s))) = Len(s) - 1
      /\ \A i \in 1 .. Len(s) - 1 : Descs(Tail(s))[i] = Tail(s)[i].desc
  BY <1>1, DescsType
<1>5. \A i \in 1 .. Len(s) - 1 : Descs(Tail(s))[i] = Tail(Descs(s))[i]
  <2> TAKE i \in 1 .. Len(s) - 1
  <2>1. i + 1 \in 1 .. Len(s)
    BY <1>1
  <2> QED BY <1>1, <1>2, <1>3, <1>4, <2>1
<1>6. Descs(Tail(s)) = Tail(Descs(s))
  BY <1>3, <1>4, <1>5, SeqEqual, SMTT(30)
<1> QED BY <1>1, <1>6

\* The first entry that says what the first entry says is the first entry.
LEMMA RemoveHead ==
  ASSUME NEW S, NEW s \in Seq(Entry(S)), s # <<>>
  PROVE  RemoveFirst(s, Head(Descs(s))) = Tail(s)
<1> DEFINE a == Head(Descs(s))
           I == {i \in 1 .. Len(s) : s[i].desc = a}
<1>1. Len(s) \in Nat \ {0} /\ s[1].desc = a
  <2>1. Descs(s) \in Seq(S) /\ Descs(s) # <<>> /\ Len(Descs(s)) = Len(s)
    BY DescsType
  <2>2. Len(s) \in Nat \ {0} /\ Descs(s)[1] = a
    BY <2>1, EmptySeq
  <2> QED BY <2>2, DescsType
<1>2. 1 \in I /\ \A i \in I : 1 <= i
  BY <1>1
<1>3. Min(I) = 1
  <2>1. \A x \in I : (\A y \in I : x <= y) => x = 1
    BY <1>1, <1>2
  <2> QED BY <1>2, <2>1 DEF Min
<1>4. RemoveFirst(s, a) = SubSeq(s, 1, 0) \o SubSeq(s, 2, Len(s))
  <2>1. RemoveFirst(s, a) = IF I = {} THEN s
                            ELSE SubSeq(s, 1, Min(I) - 1) \o SubSeq(s, Min(I) + 1, Len(s))
    BY DEF RemoveFirst
  <2> HIDE DEF I
  <2> QED BY <1>2, <1>3, <2>1
<1>5. SubSeq(s, 1, 0) = <<>>
  BY <1>1, SubSeqEmpty
<1>6. SubSeq(s, 2, Len(s)) = Tail(s) /\ Tail(s) \in Seq(Entry(S))
  BY TailIsSubSeq, HeadTailProperties
<1> QED BY <1>4, <1>5, <1>6, ConcatEmptySeq

\* The tail of a list without duplicates has none.
LEMMA TailInjective ==
  ASSUME NEW S, NEW s \in Seq(S), s # <<>>, IsInjective(s)
  PROVE  IsInjective(Tail(s))
<1>1. /\ Tail(s) \in Seq(S) /\ Len(Tail(s)) = Len(s) - 1 /\ Len(s) \in Nat
      /\ \A i \in 1 .. Len(Tail(s)) : Tail(s)[i] = s[i + 1]
  BY HeadTailProperties, LenProperties
<1>2. DOMAIN Tail(s) = 1 .. Len(Tail(s)) /\ DOMAIN s = 1 .. Len(s)
  BY <1>1, LenProperties
<1> QED BY <1>1, <1>2 DEF IsInjective

\* The first attribute that is still to be added, which is new, makes no
\* duplicate, and those behind it stay new.
LEMMA AddedIsNew ==
  ASSUME NEW S, NEW s \in Seq(S), NEW t \in Seq(S), t # <<>>,
         IsInjective(s), IsInjective(t),
         \A i \in DOMAIN s : \A j \in DOMAIN t : s[i] # t[j]
  PROVE  /\ IsInjective(Append(s, Head(t)))
         /\ \A i \in DOMAIN Append(s, Head(t)) : \A j \in DOMAIN Tail(t) :
              Append(s, Head(t))[i] # Tail(t)[j]
<1>1. Len(t) \in Nat \ {0} /\ t[1] = Head(t) /\ Head(t) \in S
  BY EmptySeq, HeadTailProperties
<1>2. /\ Tail(t) \in Seq(S) /\ Len(Tail(t)) = Len(t) - 1
      /\ \A i \in 1 .. Len(Tail(t)) : Tail(t)[i] = t[i + 1]
  BY HeadTailProperties
<1>3. /\ Append(s, Head(t)) \in Seq(S) /\ Len(Append(s, Head(t))) = Len(s) + 1 /\ Len(s) \in Nat
      /\ \A i \in 1 .. Len(s) + 1 : Append(s, Head(t))[i] = IF i <= Len(s) THEN s[i] ELSE Head(t)
  BY <1>1, AppendProperties, LenProperties
<1>4. /\ DOMAIN s = 1 .. Len(s) /\ DOMAIN t = 1 .. Len(t)
      /\ DOMAIN Tail(t) = 1 .. Len(Tail(t))
      /\ DOMAIN Append(s, Head(t)) = 1 .. Len(s) + 1
  BY <1>2, <1>3, LenProperties
<1>5. IsInjective(Append(s, Head(t)))
  BY <1>1, <1>3, <1>4 DEF IsInjective
<1>6. ASSUME NEW i \in 1 .. Len(s) + 1, NEW j \in 1 .. Len(Tail(t))
      PROVE  Append(s, Head(t))[i] # Tail(t)[j]
  <2>1. Tail(t)[j] = t[j + 1] /\ j + 1 \in DOMAIN t /\ j + 1 # 1 /\ 1 \in DOMAIN t
    BY <1>1, <1>2, <1>4
  <2>2. t[j + 1] # t[1]
    BY <2>1 DEF IsInjective
  <2> QED BY <1>1, <1>3, <1>4, <2>1, <2>2, SMTT(30)
<1>7. \A i \in DOMAIN Append(s, Head(t)) : \A j \in DOMAIN Tail(t) :
        Append(s, Head(t))[i] # Tail(t)[j]
  BY <1>4, <1>6
<1> QED BY <1>5, <1>7

-----------------------------------------------------------------------------
(* Steps that leave both catalogs alone *)

\* The types of the variables other than the command.
StoreType ==
  /\ relcat \in [Rels -> Seq(Entry(Nat))] /\ relDisk \in [Rels -> Seq(Entry(Nat))]
  /\ attrcat \in [Rels -> Seq(Entry(Attrs \ TooLong))]
  /\ attrDisk \in [Rels -> Seq(Entry(Attrs \ TooLong))]
  /\ pages \in [Catalogs -> Nat \ {0}] /\ quitPages \in [Catalogs -> Nat \ {0}]
  /\ file \in [Rels -> {"absent", "partial", "heap"}]
  /\ open \in [Rels -> BOOLEAN]
  /\ torn \subseteq Catalogs

\* And of what the catalogs say.
ViewType == AttrCnts \in [Rels -> Seq(Nat)] /\ AttrNames \in [Rels -> Seq(Attrs \ TooLong)]

Labels == {"idle", "addRel", "addAttrs", "select", "dropAttrs", "dropRel", "dropFile"}
CmdType == cmd \in [pc : Labels, rel : Rels, todo : Seq(Attrs), query : BOOLEAN]

\* The type invariant in two parts, the stores and the command.
LEMMA Types == TypeOK => StoreType /\ CmdType /\ ViewType
<1> SUFFICES ASSUME TypeOK PROVE StoreType /\ CmdType /\ ViewType
  OBVIOUS
<1>1. StoreType /\ CmdType
  BY Zenon DEF TypeOK, StoreType, CmdType, Labels
<1>2. /\ \A r \in Rels : Descs(relcat[r]) \in Seq(Nat)
      /\ \A r \in Rels : Descs(attrcat[r]) \in Seq(Attrs \ TooLong)
  BY <1>1, DescsType DEF StoreType
<1> QED BY <1>1, <1>2 DEF ViewType, AttrCnts, AttrNames

\* The two parts together give the type invariant.
LEMMA TypesAfter ==
  ASSUME StoreType', CmdType'
  PROVE  TypeOK'
BY Zenon DEF TypeOK, StoreType, CmdType, Labels

\* A command that has returned has a good type and knows nothing.
LEMMA IdleOK ==
  ASSUME cmd' = Idle
  PROVE  CmdType' /\ Underway' /\ Creating'
<1>1. Temp \in Rels /\ <<>> \in Seq(Attrs)
  BY EmptySeq DEF Rels
<1>2. CmdType'
  BY <1>1 DEF CmdType, Idle, Labels
<1>3. cmd'.pc = "idle"
  BY DEF Idle
<1> QED BY <1>2, <1>3 DEF Underway, Creating

\* At another label, a command of the same relation.
LEMMA GotoOK ==
  ASSUME CmdType, NEW l \in Labels, Goto(l)
  PROVE  CmdType' /\ cmd'.pc = l /\ cmd'.rel = cmd.rel /\ cmd'.todo = cmd.todo
BY DEF CmdType, Goto

\* Catalogs that stay say the same.
LEMMA ViewsStay ==
  ASSUME UNCHANGED catalogs
  PROVE  AttrCnts' = AttrCnts /\ AttrNames' = AttrNames
BY DEF catalogs, AttrCnts, AttrNames

\* What is on disk stays.
LEMMA DisksStay ==
  ASSUME CatInv, UNCHANGED <<disks, torn>>
  PROVE  DiskInv'
BY DEF CatInv, DiskInv, disks

\* The catalogs in memory stay.
LEMMA CatalogsStay ==
  ASSUME CatInv, UNCHANGED <<catalogs, torn>>,
         StoreType', CmdType', DiskInv', Underway', torn # {} \/ Creating'
  PROVE  CatInv'
<1>1. TypeOK'
  BY TypesAfter
<1>2. ListedOnce' /\ AttrsOfListed' /\ AttrsOnce'
  BY ViewsStay DEF CatInv, ListedOnce, AttrsOfListed, AttrsOnce
<1>3. (torn = {} => Creating)'
  BY DEF CatInv
<1> QED BY <1>1, <1>2, <1>3 DEF CatInv

\* The command goes on as it was.
LEMMA CommandStays ==
  ASSUME CatInv, UNCHANGED <<catalogs, cmd>>
  PROVE  CmdType' /\ Underway' /\ (torn # {} \/ Creating')
<1>1. CmdType /\ Underway
  BY Types DEF CatInv
<1>2. CmdType' /\ Underway'
  BY <1>1, ViewsStay DEF CmdType, Underway
<1>3. torn # {} \/ Creating'
  BY ViewsStay DEF CatInv, Creating
<1> QED BY <1>2, <1>3

\* A step fails.
LEMMA StepFailsKeeps ==
  ASSUME CatInv, UNCHANGED torn, NEW l, StepFails(l)
  PROVE  CatInv'
<1>1. StoreType /\ CmdType' /\ Underway' /\ Creating'
  BY IdleOK, Types DEF StepFails, Return, CatInv
<1>2. StoreType' /\ UNCHANGED catalogs /\ UNCHANGED disks
  BY <1>1, Zenon DEF StepFails, StoreType, catalogs, disks
<1> QED BY <1>1, <1>2, DisksStay, CatalogsStay

\* createRel finds the name free and no attribute twice; if the catalogs are not
\* torn there are no attributes of that name either.
LEMMA StartCreateKeeps ==
  ASSUME CatInv, UNCHANGED torn, NEW r \in Rels, NEW as \in AttrLists, NEW query \in BOOLEAN,
         StartCreate(r, as, query)
  PROVE  CatInv'
<1>1. StoreType
  BY Types DEF CatInv
<1>2. StoreType' /\ UNCHANGED catalogs /\ UNCHANGED disks
  BY <1>1, Zenon DEF StartCreate, StoreType, catalogs, disks
<1>3. /\ cmd' = [pc |-> "addRel", rel |-> r, todo |-> as, query |-> query]
      /\ AttrCnts' = AttrCnts /\ AttrNames' = AttrNames
      /\ AttrCnts[r] = <<>> /\ IsInjective(as) /\ as \in Seq(Attrs)
  BY <1>2, ViewsStay, ListsAssumption, Zenon DEF StartCreate, CreateAllowed
<1>4. CmdType'
  BY <1>3, Zenon DEF CmdType, Labels
<1>5. Underway'
  BY <1>3 DEF Underway
<1>6. torn = {} => AttrNames[r] = <<>>
  BY <1>3 DEF CatInv, AttrsOfListed
<1>7. torn = {} => Creating'
  BY <1>3, <1>6 DEF Creating
<1> QED BY <1>2, <1>4, <1>5, <1>7, DisksStay, CatalogsStay

\* destroyRel starts with the attributes that getRelInfo gives it, and so does
\* the end of a query.
LEMMA BeginDestroyOK ==
  ASSUME CatInv, NEW r \in Rels, BeginDestroy(r), UNCHANGED catalogs
  PROVE  CmdType' /\ Underway' /\ Creating'
<1>1. AttrNames[r] \in Seq(Attrs \ TooLong)
  BY Types DEF CatInv, ViewType
<1>2. AttrNames[r] \in Seq(Attrs)
  BY <1>1, SeqMonotonic
<1>3. CASE AttrNames[r] = <<>>
  BY <1>3, IdleOK DEF BeginDestroy
<1>4. CASE AttrNames[r] # <<>>
  <2>1. cmd' = [pc |-> "dropAttrs", rel |-> r, todo |-> AttrNames[r], query |-> FALSE]
    BY <1>4 DEF BeginDestroy
  <2> QED BY <1>2, <1>4, <2>1, ViewsStay DEF CmdType, Labels, Underway, Creating
<1> QED BY <1>3, <1>4

\* destroyRel reads the catalogs before it changes them.
LEMMA StartDestroyKeeps ==
  ASSUME CatInv, UNCHANGED torn, NEW r \in Rels, StartDestroy(r)
  PROVE  CatInv'
<1>1. StoreType
  BY Types DEF CatInv
<1>2. StoreType' /\ UNCHANGED catalogs /\ UNCHANGED disks
  BY <1>1, Zenon DEF StartDestroy, StoreType, catalogs, disks
<1> QED BY <1>2, BeginDestroyOK, DisksStay, CatalogsStay DEF StartDestroy

\* The query is done; its temporary result is destroyed.
LEMMA QueryDoneKeeps ==
  ASSUME CatInv, UNCHANGED torn, Select
  PROVE  CatInv'
<1>1. StoreType /\ Temp \in Rels
  BY Types DEF CatInv, Rels
<1>2. open' = open \/ open' = [open EXCEPT ![Temp] = TRUE]
  BY DEF Select
<1>3. open' \in [Rels -> BOOLEAN]
  BY <1>1, <1>2, Zenon DEF StoreType
<1>4. StoreType' /\ UNCHANGED catalogs /\ UNCHANGED disks
  BY <1>1, <1>3, Zenon DEF Select, StoreType, catalogs, disks
<1>5. CmdType' /\ Underway' /\ Creating'
  BY <1>1, <1>4, BeginDestroyOK, IdleOK DEF Select, Return
<1> QED BY <1>4, <1>5, DisksStay, CatalogsStay

\* createHeapFile, whatever becomes of it.
LEMMA MakeFileKeeps ==
  ASSUME CatInv, UNCHANGED torn, MakeFile
  PROVE  CatInv'
<1>1. StoreType /\ CmdType
  BY Types DEF CatInv
<1>2. \E v \in {"heap", "partial"} : file' \in {file, [file EXCEPT ![cmd.rel] = v]}
  BY DEF MakeFile
<1>3. file' \in [Rels -> {"absent", "partial", "heap"}]
  BY <1>1, <1>2, Zenon DEF StoreType
<1>4. open' = open \/ open' = [open EXCEPT ![cmd.rel] = TRUE]
  BY DEF MakeFile
<1>5. open' \in [Rels -> BOOLEAN]
  BY <1>1, <1>4, Zenon DEF StoreType
<1>6. StoreType' /\ UNCHANGED catalogs /\ UNCHANGED disks
  BY <1>1, <1>3, <1>5, Zenon DEF MakeFile, StoreType, catalogs, disks
<1>7. CmdType' /\ Underway' /\ Creating'
  <2>1. Return \/ Goto("select")
    BY DEF MakeFile
  <2>2. CASE Return
    BY <2>2, IdleOK DEF Return
  <2>3. CASE Goto("select")
    <3>1. CmdType' /\ cmd'.pc = "select"
      BY <1>1, <2>3, GotoOK DEF Labels
    <3> QED BY <3>1 DEF Underway, Creating
  <2> QED BY <2>1, <2>2, <2>3
<1> QED BY <1>6, <1>7, DisksStay, CatalogsStay

\* destroyHeapFile removes the file unless it is open.
LEMMA DropFileKeeps ==
  ASSUME CatInv, UNCHANGED torn, DropFile
  PROVE  CatInv'
<1>1. StoreType /\ CmdType
  BY Types DEF CatInv
<1>2. file' \in [Rels -> {"absent", "partial", "heap"}]
  BY <1>1, Zenon DEF DropFile, StoreType
<1>3. StoreType' /\ UNCHANGED catalogs /\ UNCHANGED disks
  BY <1>1, <1>2, Zenon DEF DropFile, StoreType, catalogs, disks
<1> QED BY <1>3, IdleOK, DisksStay, CatalogsStay DEF DropFile, Return

\* A load that fails leaves a file open.
LEMMA LoadFailsKeeps ==
  ASSUME CatInv, UNCHANGED torn, NEW r \in Rels, LoadFails(r)
  PROVE  CatInv'
<1>1. StoreType
  BY Types DEF CatInv
<1>2. open' \in [Rels -> BOOLEAN]
  BY <1>1, Zenon DEF LoadFails, StoreType
<1>3. StoreType' /\ UNCHANGED <<catalogs, cmd>> /\ UNCHANGED disks
  BY <1>1, <1>2, Zenon DEF LoadFails, StoreType, catalogs, disks
<1> QED BY <1>3, CommandStays, DisksStay, CatalogsStay

\* UT_Quit writes catalogs that are consistent.
LEMMA QuitKeeps ==
  ASSUME CatInv, UNCHANGED torn, Quit
  PROVE  CatInv'
<1>1. StoreType
  BY Types DEF CatInv
<1>2. /\ relDisk' = relcat /\ attrDisk' = attrcat /\ quitPages' = pages
      /\ open' = [r \in Rels |-> FALSE] /\ UNCHANGED <<catalogs, cmd, file>>
  BY DEF Quit
<1>3. StoreType'
  BY <1>1, <1>2, Zenon DEF StoreType, catalogs
<1>4. \A r \in Rels : AttrCnts[r] = Descs(relcat[r]) /\ AttrNames[r] = Descs(attrcat[r])
  BY DEF AttrCnts, AttrNames
<1>5. DiskInv'
  BY <1>2, <1>4 DEF CatInv, DiskInv, ListedOnce, AttrsOfListed, AttrsOnce
<1> QED BY <1>2, <1>3, <1>5, CommandStays, CatalogsStay

\* There are at most as many entries on pages up to p as there are entries.
LEMMA UpToType ==
  ASSUME NEW S, NEW s \in Seq(S), NEW p
  PROVE  UpTo(s, p) \in 0 .. Len(s)
<1> DEFINE I == {i \in DOMAIN s : s[i].page <= p}
<1>1. Len(s) \in Nat /\ DOMAIN s = 1 .. Len(s)
  BY LenProperties
<1>2. IsFiniteSet(1 .. Len(s)) /\ Cardinality(1 .. Len(s)) = Len(s)
  BY <1>1, FS_Interval, SMTT(30)
<1>3. I \subseteq 1 .. Len(s)
  BY <1>1
<1>4. IsFiniteSet(I) /\ Cardinality(I) <= Cardinality(1 .. Len(s))
  BY <1>2, <1>3, FS_Subset
<1>5. Cardinality(I) \in Nat
  BY <1>4, FS_CardinalityType
<1> QED BY <1>1, <1>2, <1>4, <1>5 DEF UpTo

\* A catalog on disk is one again when a page of it has been written.
LEMMA WrittenType ==
  ASSUME NEW S, NEW disk \in [Rels -> Seq(S)], NEW cat \in [Rels -> Seq(S)], NEW p \in Nat
  PROVE  Written(disk, cat, p) \in [Rels -> Seq(S)]
<1> SUFFICES ASSUME NEW r \in Rels PROVE Written(disk, cat, p)[r] \in Seq(S)
  BY Zenon DEF Written
<1> DEFINE d == disk[r]
           c == cat[r]
<1>1. d \in Seq(S) /\ c \in Seq(S) /\ Len(d) \in Nat /\ Len(c) \in Nat
  BY LenProperties
<1>2. /\ UpTo(d, p - 1) \in 0 .. Len(d) /\ UpTo(d, p) \in 0 .. Len(d)
      /\ UpTo(c, p - 1) \in 0 .. Len(c) /\ UpTo(c, p) \in 0 .. Len(c)
  BY <1>1, UpToType
<1> HIDE DEF d, c
<1>3. /\ \A i \in 1 .. Len(d) : d[i] \in S
      /\ \A i \in 1 .. Len(c) : c[i] \in S
  BY <1>1, ElementOfSeq
<1>4. SubSeq(d, 1, UpTo(d, p - 1)) \in Seq(S)
  <2>1. \A i \in 1 .. UpTo(d, p - 1) : d[i] \in S
    BY <1>1, <1>2, <1>3
  <2> QED BY <1>1, <1>2, <2>1, SubSeqProperties
<1>5. SubSeq(c, UpTo(c, p - 1) + 1, UpTo(c, p)) \in Seq(S)
  <2>1. \A i \in UpTo(c, p - 1) + 1 .. UpTo(c, p) : c[i] \in S
    BY <1>1, <1>2, <1>3
  <2> QED BY <1>1, <1>2, <2>1, SubSeqProperties
<1>6. SubSeq(d, UpTo(d, p) + 1, Len(d)) \in Seq(S)
  <2>1. \A i \in UpTo(d, p) + 1 .. Len(d) : d[i] \in S
    BY <1>1, <1>2, <1>3, SMTT(30)
  <2> QED BY <1>1, <1>2, <2>1, SubSeqProperties
<1> QED BY <1>4, <1>5, <1>6, ConcatProperties DEF Written, d, c

\* The page that is evicted is not the first: a catalog of one page is left as it
\* is on disk.
LEMMA WriteBackKeeps ==
  ASSUME CatInv, UNCHANGED torn, WriteBack
  PROVE  CatInv'
<1>1. StoreType
  BY Types DEF CatInv
<1>2. PICK c \in Catalogs : \E p \in Evictable(c) :
        /\ relDisk' = IF c = "rel" THEN Written(relDisk, relcat, p) ELSE relDisk
        /\ attrDisk' = IF c = "attr" THEN Written(attrDisk, attrcat, p) ELSE attrDisk
  BY DEF WriteBack
<1>3. PICK p \in Evictable(c) :
        /\ relDisk' = IF c = "rel" THEN Written(relDisk, relcat, p) ELSE relDisk
        /\ attrDisk' = IF c = "attr" THEN Written(attrDisk, attrcat, p) ELSE attrDisk
  BY <1>2
<1>4. UNCHANGED <<catalogs, quitPages, file, open, cmd>>
  BY DEF WriteBack
<1>5. p \in Nat /\ quitPages[c] # 1
  BY <1>1 DEF Evictable, StoreType
<1>6. /\ Written(relDisk, relcat, p) \in [Rels -> Seq(Entry(Nat))]
      /\ Written(attrDisk, attrcat, p) \in [Rels -> Seq(Entry(Attrs \ TooLong))]
  BY <1>1, <1>5, WrittenType, Zenon DEF StoreType
<1>7. relDisk' \in [Rels -> Seq(Entry(Nat))] /\ attrDisk' \in [Rels -> Seq(Entry(Attrs \ TooLong))]
  BY <1>1, <1>3, <1>6, Zenon DEF StoreType
<1>8. StoreType'
  BY <1>1, <1>4, <1>7, Zenon DEF StoreType, catalogs
<1>9. DiskInv'
  <2>1. CASE c = "rel"
    BY <1>4, <1>5, <2>1 DEF DiskInv
  <2>2. CASE c = "attr"
    BY <1>3, <1>4, <1>5, <2>2 DEF DiskInv, CatInv
  <2> QED BY <2>1, <2>2 DEF Catalogs
<1> QED BY <1>4, <1>8, <1>9, CommandStays, CatalogsStay

\* After a crash nothing is left of the command, and the catalogs are those on
\* disk: as the last UT_Quit wrote them, or torn.
LEMMA CrashKeeps ==
  ASSUME CatInv, Crash
  PROVE  CatInv'
<1>1. StoreType
  BY Types DEF CatInv
<1>2. file' = file \/ file' = [file EXCEPT ![cmd.rel] = "partial"]
  BY DEF Crash
<1>3. file' \in [Rels -> {"absent", "partial", "heap"}]
  BY <1>1, <1>2, Zenon DEF StoreType
<1>4. /\ relcat' = relDisk /\ relDisk' = relDisk /\ attrcat' = attrDisk /\ attrDisk' = attrDisk
      /\ pages' = quitPages /\ quitPages' = quitPages
      /\ torn' = torn \cup {c \in Catalogs : quitPages[c] > 1}
      /\ open' = [r \in Rels |-> FALSE] /\ cmd' = Idle
  BY DEF Crash, disks
<1>5. StoreType'
  BY <1>1, <1>3, <1>4, Zenon DEF StoreType
<1>6. CmdType' /\ Underway' /\ Creating'
  BY <1>4, IdleOK
<1>7. TypeOK'
  BY <1>5, <1>6, TypesAfter
<1>8. \A r \in Rels : AttrCnts'[r] = Descs(relDisk[r]) /\ AttrNames'[r] = Descs(attrDisk[r])
  BY <1>4 DEF AttrCnts, AttrNames
<1>9. /\ "rel" \notin torn' => "rel" \notin torn /\ quitPages["rel"] = 1
      /\ torn' = {} => torn = {} /\ quitPages["rel"] = 1 /\ quitPages["attr"] = 1
  <2>1. \A c \in Catalogs : c \notin torn' => c \notin torn /\ quitPages[c] = 1
    BY <1>1, <1>4 DEF StoreType
  <2> QED BY <1>1, <2>1, Zenon DEF Catalogs, StoreType
<1>10. ListedOnce' /\ AttrsOfListed' /\ AttrsOnce'
  BY <1>8, <1>9, Zenon DEF CatInv, DiskInv, ListedOnce, AttrsOfListed, AttrsOnce
<1>11. DiskInv'
  BY <1>4, <1>9 DEF CatInv, DiskInv
<1> QED BY <1>6, <1>7, <1>10, <1>11 DEF CatInv

-----------------------------------------------------------------------------
(* Steps that change a catalog *)

\* The last page of a catalog, or the page behind it.
LEMMA PagesType ==
  ASSUME StoreType, NEW c \in Catalogs, NEW p \in InsertPages(c)
  PROVE  p \in Nat \ {0}
BY DEF StoreType, InsertPages

\* RelCatalog::addInfo, seen through what the catalogs say.
LEMMA AddRelDoes ==
  ASSUME TypeOK, AddRel
  PROVE  /\ AttrCnts' = [AttrCnts EXCEPT ![cmd.rel] = Append(@, Len(cmd.todo))]
         /\ AttrNames' = AttrNames
         /\ relcat' \in [Rels -> Seq(Entry(Nat))] /\ attrcat' = attrcat
         /\ pages' \in [Catalogs -> Nat \ {0}]
         /\ UNCHANGED disks /\ file' = file /\ open' = open
<1>1. StoreType /\ CmdType
  BY Types
<1>2. PICK p \in InsertPages("rel") :
        /\ relcat' = [relcat EXCEPT ![cmd.rel] = Append(@, [desc |-> Len(cmd.todo), page |-> p])]
        /\ pages' = [pages EXCEPT !.rel = p]
  BY Zenon DEF AddRel
<1>3. "rel" \in Catalogs /\ p \in Nat \ {0}
  BY <1>1, PagesType DEF Catalogs
<1>4. cmd.rel \in Rels /\ cmd.todo \in Seq(Attrs) /\ Len(cmd.todo) \in Nat /\ relcat[cmd.rel] \in Seq(Entry(Nat))
  BY <1>1, LenProperties DEF CmdType, StoreType
<1> DEFINE e == [desc |-> Len(cmd.todo), page |-> p]
           new == Append(relcat[cmd.rel], e)
<1>5. e \in Entry(Nat) /\ e.desc = Len(cmd.todo)
  BY <1>3, <1>4 DEF Entry
<1>6. relcat' = [relcat EXCEPT ![cmd.rel] = new]
  BY <1>2
<1> HIDE DEF e
<1>11. new \in Seq(Entry(Nat)) /\ Descs(new) = Append(Descs(relcat[cmd.rel]), Len(cmd.todo))
  BY <1>4, <1>5, DescsAppend, Zenon
<1> HIDE DEF new
<1>7. AttrCnts' = [AttrCnts EXCEPT ![cmd.rel] = Append(@, Len(cmd.todo))]
  BY <1>1, <1>4, <1>11, <1>6, Zenon DEF AttrCnts, StoreType
<1>8. relcat' \in [Rels -> Seq(Entry(Nat))]
  BY <1>1, <1>4, <1>11, <1>6, Zenon DEF StoreType
<1>9. pages' \in [Catalogs -> Nat \ {0}]
  BY <1>1, <1>2, <1>3, Zenon DEF StoreType
<1>10. attrcat' = attrcat /\ UNCHANGED disks /\ file' = file /\ open' = open
  BY DEF AddRel
<1> QED BY <1>7, <1>8, <1>9, <1>10 DEF AttrNames

\* AttrCatalog::addInfo.
LEMMA AddAttrDoes ==
  ASSUME TypeOK, AddAttr, Head(cmd.todo) \notin TooLong
  PROVE  /\ AttrNames' = [AttrNames EXCEPT ![cmd.rel] = Append(@, Head(cmd.todo))]
         /\ AttrCnts' = AttrCnts
         /\ attrcat' \in [Rels -> Seq(Entry(Attrs \ TooLong))] /\ relcat' = relcat
         /\ pages' \in [Catalogs -> Nat \ {0}]
         /\ cmd' = [cmd EXCEPT !.todo = Tail(@)]
         /\ UNCHANGED disks /\ file' = file /\ open' = open
<1>1. StoreType /\ CmdType
  BY Types
<1>2. PICK p \in InsertPages("attr") :
        /\ attrcat' = [attrcat EXCEPT ![cmd.rel] = Append(@, [desc |-> Head(cmd.todo), page |-> p])]
        /\ pages' = [pages EXCEPT !.attr = p]
  BY Zenon DEF AddAttr
<1>3. "attr" \in Catalogs /\ p \in Nat \ {0}
  BY <1>1, PagesType DEF Catalogs
<1>4. cmd.rel \in Rels /\ attrcat[cmd.rel] \in Seq(Entry(Attrs \ TooLong)) /\ Head(cmd.todo) \in Attrs \ TooLong
  <2>1. cmd.rel \in Rels /\ cmd.todo \in Seq(Attrs) /\ cmd.todo # <<>>
    BY <1>1 DEF CmdType, AddAttr
  <2> QED BY <1>1, <2>1, HeadTailProperties, Zenon DEF StoreType
<1> DEFINE e == [desc |-> Head(cmd.todo), page |-> p]
           new == Append(attrcat[cmd.rel], e)
<1>5. e \in Entry(Attrs \ TooLong) /\ e.desc = Head(cmd.todo)
  BY <1>3, <1>4 DEF Entry
<1>6. attrcat' = [attrcat EXCEPT ![cmd.rel] = new]
  BY <1>2
<1> HIDE DEF e
<1>11. new \in Seq(Entry(Attrs \ TooLong)) /\ Descs(new) = Append(Descs(attrcat[cmd.rel]), Head(cmd.todo))
  BY <1>4, <1>5, DescsAppend, Zenon
<1> HIDE DEF new
<1>7. AttrNames' = [AttrNames EXCEPT ![cmd.rel] = Append(@, Head(cmd.todo))]
  BY <1>1, <1>4, <1>11, <1>6, Zenon DEF AttrNames, StoreType
<1>8. attrcat' \in [Rels -> Seq(Entry(Attrs \ TooLong))]
  BY <1>1, <1>4, <1>11, <1>6, Zenon DEF StoreType
<1>9. pages' \in [Catalogs -> Nat \ {0}]
  BY <1>1, <1>2, <1>3, Zenon DEF StoreType
<1>10. relcat' = relcat /\ UNCHANGED disks /\ file' = file /\ open' = open /\ cmd' = [cmd EXCEPT !.todo = Tail(@)]
  BY DEF AddAttr
<1> QED BY <1>7, <1>8, <1>9, <1>10, Zenon DEF AttrCnts

\* AttrCatalog::removeInfo, of the first attribute that getRelInfo gave.
LEMMA DropAttrDoes ==
  ASSUME TypeOK, Underway, DropAttr
  PROVE  /\ AttrNames' = [AttrNames EXCEPT ![cmd.rel] = Tail(@)]
         /\ AttrCnts' = AttrCnts
         /\ attrcat' \in [Rels -> Seq(Entry(Attrs \ TooLong))] /\ relcat' = relcat
         /\ pages' = pages /\ UNCHANGED disks /\ file' = file /\ open' = open
<1>1. StoreType /\ CmdType
  BY Types
<1> DEFINE s == attrcat[cmd.rel]
<1>2. cmd.rel \in Rels /\ s \in Seq(Entry(Attrs \ TooLong)) /\ cmd.todo # <<>> /\ cmd.todo = Descs(s)
  BY <1>1, Zenon DEF CmdType, StoreType, DropAttr, Underway, AttrNames
<1> HIDE DEF s
<1>3. s # <<>>
  BY <1>2, DescsType
<1>4. RemoveFirst(s, Head(cmd.todo)) = Tail(s)
  BY <1>2, <1>3, RemoveHead
<1>5. Tail(s) \in Seq(Entry(Attrs \ TooLong)) /\ Descs(Tail(s)) = Tail(Descs(s))
  BY <1>2, <1>3, DescsTail
<1>6. attrcat' = [attrcat EXCEPT ![cmd.rel] = Tail(s)]
  BY <1>1, <1>2, <1>4, Zenon DEF DropAttr, s, StoreType
<1>7. AttrNames' = [AttrNames EXCEPT ![cmd.rel] = Tail(@)]
  BY <1>1, <1>2, <1>5, <1>6, Zenon DEF AttrNames, StoreType, s
<1>8. attrcat' \in [Rels -> Seq(Entry(Attrs \ TooLong))]
  BY <1>1, <1>2, <1>5, <1>6, Zenon DEF StoreType
<1>9. relcat' = relcat /\ pages' = pages /\ UNCHANGED disks /\ file' = file /\ open' = open
  BY DEF DropAttr
<1> QED BY <1>7, <1>8, <1>9, Zenon DEF AttrCnts

\* RelCatalog::removeInfo, of a relation that is listed.
LEMMA DropRelDoes ==
  ASSUME TypeOK, DropRel, AttrCnts[cmd.rel] # <<>>
  PROVE  /\ AttrCnts' = [AttrCnts EXCEPT ![cmd.rel] = Tail(@)]
         /\ AttrNames' = AttrNames
         /\ relcat' \in [Rels -> Seq(Entry(Nat))] /\ attrcat' = attrcat
         /\ pages' = pages /\ UNCHANGED disks /\ file' = file /\ open' = open
<1>1. StoreType /\ CmdType
  BY Types
<1> DEFINE s == relcat[cmd.rel]
<1>2. cmd.rel \in Rels /\ s \in Seq(Entry(Nat)) /\ Descs(s) # <<>>
  BY <1>1 DEF CmdType, StoreType, AttrCnts
<1>3. relcat' = [relcat EXCEPT ![cmd.rel] = Tail(s)]
  BY DEF DropRel
<1> HIDE DEF s
<1>4. Tail(s) \in Seq(Entry(Nat)) /\ Descs(Tail(s)) = Tail(Descs(s))
  BY <1>2, DescsType, DescsTail
<1>5. AttrCnts' = [AttrCnts EXCEPT ![cmd.rel] = Tail(@)]
  BY <1>1, <1>2, <1>3, <1>4, Zenon DEF AttrCnts, StoreType, s
<1>6. relcat' \in [Rels -> Seq(Entry(Nat))]
  BY <1>1, <1>2, <1>3, <1>4, Zenon DEF StoreType
<1>7. attrcat' = attrcat /\ pages' = pages /\ UNCHANGED disks /\ file' = file /\ open' = open
  BY DEF DropRel
<1> QED BY <1>5, <1>6, <1>7 DEF AttrNames

\* RelCatalog::addInfo: the relation was not listed.
LEMMA AddRelKeeps ==
  ASSUME CatInv, UNCHANGED torn, AddRel
  PROVE  CatInv'
<1>1. StoreType /\ CmdType /\ ViewType
  BY Types DEF CatInv
<1>2. /\ AttrCnts' = [AttrCnts EXCEPT ![cmd.rel] = Append(@, Len(cmd.todo))]
      /\ AttrNames' = AttrNames
      /\ relcat' \in [Rels -> Seq(Entry(Nat))] /\ attrcat' = attrcat
      /\ pages' \in [Catalogs -> Nat \ {0}]
      /\ UNCHANGED disks /\ file' = file /\ open' = open
  BY AddRelDoes DEF CatInv
<1>3. cmd.rel \in Rels /\ cmd.todo \in Seq(Attrs) /\ Len(cmd.todo) \in Nat
  BY <1>1, LenProperties DEF CmdType
<1>4. AttrCnts[cmd.rel] = <<>> /\ cmd.pc = "addRel"
  BY DEF AddRel, CatInv, Underway
<1>5. Append(<<>>, Len(cmd.todo)) # <<>> /\ Len(Append(<<>>, Len(cmd.todo))) = 1
  BY <1>3, EmptySeq, AppendProperties
<1>6. /\ AttrCnts'[cmd.rel] # <<>> /\ Len(AttrCnts'[cmd.rel]) = 1
      /\ \A r \in Rels : r # cmd.rel => AttrCnts'[r] = AttrCnts[r]
  BY <1>1, <1>2, <1>3, <1>4, <1>5 DEF ViewType
<1>7. CmdType' /\ cmd'.pc = "addAttrs" /\ cmd'.rel = cmd.rel /\ cmd'.todo = cmd.todo
  BY <1>1, GotoOK DEF AddRel, Labels
<1>8. TypeOK'
  <2>1. StoreType'
    BY <1>1, <1>2, Zenon DEF StoreType, disks
  <2> QED BY <1>7, <2>1, TypesAfter
<1>9. ListedOnce' /\ DiskInv'
  BY <1>2, <1>3, <1>6, DisksStay DEF CatInv, ListedOnce
<1>10. AttrsOfListed' /\ AttrsOnce'
  BY <1>2, <1>6 DEF CatInv, AttrsOfListed, AttrsOnce
<1>11. Underway'
  BY <1>7 DEF Underway
<1>12. (torn = {} => Creating)'
  BY <1>2, <1>4, <1>6, <1>7 DEF CatInv, Creating
<1> QED BY <1>8, <1>9, <1>10, <1>11, <1>12 DEF CatInv

\* AttrCatalog::addInfo: the attribute is new and the relation is listed.
LEMMA AddAttrKeeps ==
  ASSUME CatInv, UNCHANGED torn, AddAttr
  PROVE  CatInv'
<1>1. StoreType /\ CmdType /\ ViewType
  BY Types DEF CatInv
<1>2. cmd.pc = "addAttrs" /\ cmd.todo # <<>> /\ UNCHANGED disks /\ file' = file /\ open' = open
  BY DEF AddAttr
<1>3. CASE Head(cmd.todo) \in TooLong
  <2>1. UNCHANGED catalogs /\ cmd' = Idle
    BY <1>3 DEF AddAttr, catalogs, Return
  <2>2. StoreType'
    BY <1>1, <1>2, <2>1, Zenon DEF StoreType, disks, catalogs
  <2> QED BY <1>2, <2>1, <2>2, IdleOK, DisksStay, CatalogsStay
<1>4. CASE Head(cmd.todo) \notin TooLong
  <2> DEFINE s == AttrNames[cmd.rel]
             t == cmd.todo
  <2>1. /\ AttrNames' = [AttrNames EXCEPT ![cmd.rel] = Append(@, Head(cmd.todo))]
        /\ AttrCnts' = AttrCnts
        /\ attrcat' \in [Rels -> Seq(Entry(Attrs \ TooLong))] /\ relcat' = relcat
        /\ pages' \in [Catalogs -> Nat \ {0}]
        /\ cmd' = [cmd EXCEPT !.todo = Tail(@)]
    BY <1>4, AddAttrDoes, Zenon DEF CatInv
  <2>2. cmd.rel \in Rels /\ t \in Seq(Attrs) /\ s \in Seq(Attrs \ TooLong) /\ s \in Seq(Attrs)
    BY <1>1, SeqMonotonic DEF CmdType, ViewType
  <2>3. Tail(t) \in Seq(Attrs)
    BY <1>2, <2>2, HeadTailProperties
  <2>5. /\ AttrNames'[cmd.rel] = Append(s, Head(t))
        /\ \A r \in Rels : r # cmd.rel => AttrNames'[r] = AttrNames[r]
    BY <1>1, <2>1, <2>2, Zenon DEF ViewType
  <2>6. CmdType' /\ cmd'.pc = "addAttrs" /\ cmd'.rel = cmd.rel /\ cmd'.todo = Tail(t)
    BY <1>1, <1>2, <2>1, <2>3, Zenon DEF CmdType
  <2>7. TypeOK'
    <3>1. StoreType'
      BY <1>1, <1>2, <2>1, ZenonT(30) DEF StoreType, disks
    <3> QED BY <2>6, <3>1, TypesAfter
  <2>8. ListedOnce' /\ DiskInv' /\ Underway'
    BY <1>2, <2>1, <2>6, DisksStay DEF CatInv, ListedOnce, Underway
  <2>9. ASSUME torn = {}
        PROVE  /\ AttrCnts[cmd.rel] # <<>> /\ IsInjective(s) /\ IsInjective(t)
               /\ IsInjective(Tail(t)) /\ IsInjective(Append(s, Head(t)))
               /\ \A i \in DOMAIN Append(s, Head(t)) : \A j \in DOMAIN Tail(t) :
                    Append(s, Head(t))[i] # Tail(t)[j]
    <3>1. AttrCnts[cmd.rel] # <<>> /\ IsInjective(t) /\ IsInjective(s)
          /\ \A i \in DOMAIN s : \A j \in DOMAIN t : s[i] # t[j]
      BY <1>2, <2>2, <2>9 DEF CatInv, Creating, AttrsOnce
    <3> QED BY <1>2, <2>2, <3>1, TailInjective, AddedIsNew, Zenon
  <2>10. AttrsOfListed' /\ AttrsOnce'
    BY <2>1, <2>2, <2>5, <2>9, Zenon DEF CatInv, AttrsOfListed, AttrsOnce
  <2>11. (torn = {} => Creating)'
    <3> SUFFICES ASSUME torn = {} PROVE Creating'
      OBVIOUS
    <3> HIDE DEF s, t
    <3>1. /\ AttrNames'[cmd'.rel] = Append(s, Head(t)) /\ cmd'.todo = Tail(t)
          /\ AttrCnts'[cmd'.rel] = AttrCnts[cmd.rel] /\ cmd'.pc = "addAttrs"
      BY <2>1, <2>5, <2>6
    <3>2. \A i \in DOMAIN AttrNames'[cmd'.rel] : \A j \in DOMAIN cmd'.todo :
            AttrNames'[cmd'.rel][i] # cmd'.todo[j]
      BY <2>9, <3>1
    <3> QED BY <2>9, <3>1, <3>2 DEF Creating
  <2> QED BY <2>7, <2>8, <2>10, <2>11 DEF CatInv
<1> QED BY <1>3, <1>4

\* AttrCatalog::removeInfo takes the attributes in the order in which getRelInfo
\* gave them.
LEMMA DropAttrKeeps ==
  ASSUME CatInv, UNCHANGED torn, DropAttr
  PROVE  CatInv'
<1> DEFINE t == cmd.todo
<1>1. StoreType /\ CmdType /\ ViewType
  BY Types DEF CatInv
<1>2. cmd.pc = "dropAttrs" /\ cmd.todo # <<>> /\ AttrNames[cmd.rel] = t
  BY DEF DropAttr, CatInv, Underway
<1>3. cmd.rel \in Rels /\ t \in Seq(Attrs \ TooLong) /\ t \in Seq(Attrs)
  BY <1>1, <1>2 DEF CmdType, ViewType
<1>4. Tail(t) \in Seq(Attrs) /\ Len(Tail(t)) = Len(t) - 1
  BY <1>2, <1>3, HeadTailProperties
<1>5. /\ AttrNames' = [AttrNames EXCEPT ![cmd.rel] = Tail(@)] /\ AttrCnts' = AttrCnts
      /\ attrcat' \in [Rels -> Seq(Entry(Attrs \ TooLong))] /\ relcat' = relcat
      /\ pages' = pages /\ UNCHANGED disks /\ file' = file /\ open' = open
  BY DropAttrDoes, Zenon DEF CatInv
<1>6. /\ AttrNames'[cmd.rel] = Tail(t)
      /\ \A r \in Rels : r # cmd.rel => AttrNames'[r] = AttrNames[r]
  BY <1>1, <1>2, <1>3, <1>5 DEF ViewType
<1>7. /\ CmdType' /\ cmd'.rel = cmd.rel /\ cmd'.todo = Tail(t)
      /\ cmd'.pc = IF Len(t) = 1 THEN "dropRel" ELSE "dropAttrs"
  BY <1>1, <1>2, <1>4, Zenon DEF DropAttr, CmdType, Labels
<1>8. Len(t) = 1 <=> Tail(t) = <<>>
  <2>1. Len(t) \in Nat /\ (Tail(t) = <<>> <=> Len(Tail(t)) = 0)
    BY <1>3, <1>4, EmptySeq, LenProperties, Zenon
  <2> QED BY <1>4, <2>1
<1>9. TypeOK'
  <2>1. StoreType'
    BY <1>1, <1>5, Zenon DEF StoreType, disks
  <2> QED BY <1>7, <2>1, TypesAfter
<1>10. ListedOnce' /\ DiskInv'
  BY <1>5, DisksStay DEF CatInv, ListedOnce
<1>11. Underway'
  BY <1>6, <1>7, <1>8, Zenon DEF Underway
<1>12. AttrsOfListed'
  BY <1>2, <1>3, <1>5, <1>6, ZenonT(30) DEF CatInv, AttrsOfListed
<1>13. AttrsOnce'
  <2>1. torn = {} => IsInjective(Tail(t))
    BY <1>2, <1>3, TailInjective DEF CatInv, AttrsOnce
  <2> QED BY <1>6, <2>1 DEF CatInv, AttrsOnce
<1>14. Creating'
  BY <1>7 DEF Creating
<1> QED BY <1>9, <1>10, <1>11, <1>12, <1>13, <1>14 DEF CatInv

\* RelCatalog::removeInfo: no attributes are left.
LEMMA DropRelKeeps ==
  ASSUME CatInv, UNCHANGED torn, DropRel
  PROVE  CatInv'
<1>1. StoreType /\ CmdType /\ ViewType
  BY Types DEF CatInv
<1>2. cmd.rel \in Rels /\ cmd.pc = "dropRel" /\ AttrNames[cmd.rel] = <<>>
  BY <1>1 DEF DropRel, CatInv, Underway, CmdType
<1>3. CASE AttrCnts[cmd.rel] = <<>>
  <2>1. Return /\ UNCHANGED catalogs /\ UNCHANGED disks /\ file' = file /\ open' = open
    BY <1>3 DEF DropRel, catalogs
  <2>2. StoreType'
    BY <1>1, <2>1, Zenon DEF StoreType, catalogs, disks
  <2> QED BY <2>1, <2>2, IdleOK, DisksStay, CatalogsStay DEF Return
<1>4. CASE AttrCnts[cmd.rel] # <<>>
  <2>1. /\ AttrCnts' = [AttrCnts EXCEPT ![cmd.rel] = Tail(@)] /\ AttrNames' = AttrNames
        /\ relcat' \in [Rels -> Seq(Entry(Nat))] /\ attrcat' = attrcat
        /\ pages' = pages /\ UNCHANGED disks /\ file' = file /\ open' = open
    BY <1>4, DropRelDoes DEF CatInv
  <2>2. AttrCnts[cmd.rel] \in Seq(Nat) /\ Len(Tail(AttrCnts[cmd.rel])) = Len(AttrCnts[cmd.rel]) - 1
        /\ Len(AttrCnts[cmd.rel]) \in Nat
    BY <1>1, <1>2, <1>4, HeadTailProperties, LenProperties DEF ViewType
  <2>3. /\ AttrCnts'[cmd.rel] = Tail(AttrCnts[cmd.rel])
        /\ \A r \in Rels : r # cmd.rel => AttrCnts'[r] = AttrCnts[r]
    BY <1>1, <1>2, <2>1 DEF ViewType
  <2>4. CmdType' /\ cmd'.pc = "dropFile"
    BY <1>1, <1>4, GotoOK DEF Labels, DropRel
  <2>5. TypeOK'
    <3>1. StoreType'
      BY <1>1, <2>1, ZenonT(30) DEF StoreType, disks
    <3> QED BY <2>4, <3>1, TypesAfter
  <2>6. ListedOnce' /\ DiskInv'
    BY <1>2, <2>1, <2>2, <2>3, DisksStay, SMTT(30) DEF CatInv, ListedOnce
  <2>7. AttrsOfListed' /\ AttrsOnce'
    BY <1>2, <2>1, <2>3 DEF CatInv, AttrsOfListed, AttrsOnce
  <2>8. Underway' /\ Creating'
    BY <2>4 DEF Underway, Creating
  <2> QED BY <2>5, <2>6, <2>7, <2>8 DEF CatInv
<1> QED BY <1>3, <1>4

-----------------------------------------------------------------------------
(* The theorem *)

\* The invariant holds in a new database.
LEMMA InitOK == Init => CatInv
<1> SUFFICES ASSUME Init PROVE CatInv
  OBVIOUS
<1>1. /\ <<>> \in Seq(Entry(Nat)) /\ <<>> \in Seq(Entry(Attrs \ TooLong)) /\ <<>> \in Seq(Attrs)
      /\ Len(<<>>) = 0
  BY EmptySeq
<1>2. TypeOK
  <2>1. pages \in [Catalogs -> Nat \ {0}]
    BY DEF Init, Catalogs
  <2>2. cmd \in [pc : {"idle", "addRel", "addAttrs", "select", "dropAttrs", "dropRel", "dropFile"},
                  rel : Rels, todo : Seq(Attrs), query : BOOLEAN]
    BY <1>1 DEF Init, Idle, Rels
  <2>3. /\ relcat \in [Rels -> Seq(Entry(Nat))] /\ attrcat \in [Rels -> Seq(Entry(Attrs \ TooLong))]
        /\ file \in [Rels -> {"absent", "partial", "heap"}] /\ open \in [Rels -> BOOLEAN]
    BY <1>1, Zenon DEF Init
  <2> QED BY <2>1, <2>2, <2>3, Zenon DEF Init, TypeOK
<1>3. Descs(<<>>) = <<>> /\ IsInjective(<<>>)
  <2>1. Descs(<<>>) = <<>>
    BY <1>1, DescsType, Zenon
  <2>2. DOMAIN <<>> = {}
    BY EmptySeq
  <2> QED BY <2>1, <2>2, Zenon DEF IsInjective
<1>4. /\ \A r \in Rels : relDisk[r] = <<>> /\ attrDisk[r] = <<>>
      /\ \A r \in Rels : AttrCnts[r] = <<>> /\ AttrNames[r] = <<>>
  BY <1>3, Zenon DEF Init, AttrCnts, AttrNames
<1>5. ListedOnce /\ AttrsOfListed /\ AttrsOnce /\ DiskInv
  <2>1. \A r \in Rels : Descs(relDisk[r]) = <<>> /\ Descs(attrDisk[r]) = <<>>
    BY <1>3, <1>4, Zenon
  <2>2. Len(<<>>) <= 1
    BY <1>1
  <2> QED BY <1>3, <1>4, <2>1, <2>2, Zenon DEF ListedOnce, AttrsOfListed, AttrsOnce, DiskInv
<1>6. Underway /\ Creating
  BY DEF Init, Idle, Underway, Creating
<1> QED BY <1>2, <1>5, <1>6 DEF CatInv

\* Every step of create, destroy and the queries keeps the invariant.
LEMMA StepKeeps ==
  ASSUME CatInv, Step, UNCHANGED torn
  PROVE  CatInv'
<1>1. ASSUME NEW r \in UserRels, NEW as \in AttrLists, StartCreate(r, as, FALSE) PROVE CatInv'
  <2>1. r \in Rels
    BY DEF Rels
  <2> QED BY <1>1, <2>1, StartCreateKeeps, Zenon
<1>2. ASSUME NEW r \in Rels, NEW t \in Rels, NEW as \in AttrLists, Query(r, as, t) PROVE CatInv'
  BY <1>2, StartCreateKeeps, Zenon DEF Query
<1>3. ASSUME NEW r \in Rels, StartDestroy(r) PROVE CatInv'
  BY <1>3, StartDestroyKeeps
<1>4. ASSUME NEW r \in Rels, LoadFails(r) PROVE CatInv'
  BY <1>4, LoadFailsKeeps
<1>5. CASE AddRel
  BY <1>5, AddRelKeeps
<1>6. CASE AddAttr
  BY <1>6, AddAttrKeeps, SMTT(30)
<1>7. CASE MakeFile
  BY <1>7, MakeFileKeeps
<1>8. CASE Select
  BY <1>8, QueryDoneKeeps
<1>9. CASE DropAttr
  BY <1>9, DropAttrKeeps
<1>10. CASE DropRel
  BY <1>10, DropRelKeeps
<1>11. CASE DropFile
  BY <1>11, DropFileKeeps
<1>12. ASSUME NEW l, StepFails(l) PROVE CatInv'
  BY <1>12, StepFailsKeeps
<1>13. CASE WriteBack
  BY <1>13, WriteBackKeeps
<1>14. CASE Quit
  BY <1>14, QuitKeeps
<1> QED BY <1>1, <1>2, <1>3, <1>4, <1>5, <1>6, <1>7, <1>8, <1>9, <1>10, <1>11, <1>12, <1>13,
           <1>14, Zenon DEF Step

\* Every step keeps the invariant, a crash included.
LEMMA CatInvKept == CatInv /\ [Next]_vars => CatInv'
<1> SUFFICES ASSUME CatInv, [Next]_vars PROVE CatInv'
  OBVIOUS
<1>1. CASE Step /\ UNCHANGED torn
  BY <1>1, StepKeeps
<1>2. CASE Crash
  BY <1>2, CrashKeeps
<1>3. CASE UNCHANGED vars
  <2>1. StoreType
    BY Types DEF CatInv
  <2>2. StoreType' /\ UNCHANGED <<catalogs, cmd>> /\ UNCHANGED <<disks, torn>>
    BY <1>3, <2>1, Zenon DEF vars, catalogs, disks, StoreType
  <2>3. UNCHANGED <<catalogs, torn>>
    BY <2>2
  <2> QED BY <2>2, <2>3, CommandStays, DisksStay, CatalogsStay
<1> QED BY <1>1, <1>2, <1>3 DEF Next

\* Whichever step of create, destroy or a query fails, and however often the
\* program crashes: relcat lists a relation once, if no crash has found several
\* pages of relcat on disk; and if none has found several pages of either
\* catalog, attrcat has only attributes of listed relations, and each of them
\* once.
THEOREM CatalogInvariant == Spec => [](ListedOnce /\ AttrsOfListed /\ AttrsOnce)
<1>1. CatInv => ListedOnce /\ AttrsOfListed /\ AttrsOnce
  BY DEF CatInv
<1> QED BY <1>1, CatInvKept, InitOK, PTL DEF Spec

\* attrcat has no attribute of a relation that relcat does not list, whichever
\* step of create or destroy failed, as the two removals and the two additions
\* are in the right order, and after a crash that found one page of each catalog
\* on disk, as that is written when the program ends and not before.
THEOREM NoOrphanAttributes == Spec => []AttrsOfListed
BY CatalogInvariant, PTL

\* Nor does it list an attribute of a relation twice, under the same failures and
\* crashes.
THEOREM AttributesListedOnce == Spec => []AttrsOnce
BY CatalogInvariant, PTL

-----------------------------------------------------------------------------
(* Commands none of whose steps fails *)

\* No step fails, the program does not crash, and createRel is given no name
\* that is too long (its NAMETOOLONG is a step that fails).
Smooth == ~Faults /\ ~Crashes /\ AttrLists \subseteq Seq(Attrs \ TooLong)

\* A relation with none of its parts.
Nowhere(r) == AttrCnts[r] = <<>> /\ AttrNames[r] = <<>> /\ file[r] = "absent"

\* What the command in progress has made, or left, of its relation.
Making ==
  LET r == cmd.rel
  IN  /\ cmd.pc \in {"addRel", "addAttrs"} =>
           /\ cmd.todo \in Seq(Attrs \ TooLong)
           /\ r = Temp => cmd.query
      /\ cmd.pc = "addRel" => Nowhere(r) /\ cmd.todo # <<>>
      /\ cmd.pc = "addAttrs" =>
           /\ AttrCnts[r] = <<Len(AttrNames[r]) + Len(cmd.todo)>> /\ file[r] = "absent"
           /\ AttrNames[r] # <<>> \/ cmd.todo # <<>>
      /\ cmd.pc = "select" => Whole(r)
      /\ cmd.pc = "dropAttrs" =>
           /\ Len(AttrCnts[r]) = 1 /\ Len(AttrNames[r]) <= AttrCnts[r][1]
           /\ file[r] = "heap"
      /\ cmd.pc = "dropRel" => Len(AttrCnts[r]) = 1 /\ file[r] = "heap"
      /\ cmd.pc = "dropFile" => AttrCnts[r] = <<>> /\ AttrNames[r] = <<>> /\ file[r] = "heap"

\* All other relations are whole or nowhere, and no file is left open.
Intact ==
  /\ \A r \in Rels : AtRest \/ r # cmd.rel => (r # Temp /\ Whole(r)) \/ Nowhere(r)
  /\ \A r \in Rels : ~open[r]
  /\ Making

\* A step changes the parts of relation q only.
OnlyOf(q) ==
  \A r \in Rels : r # q => AttrCnts'[r] = AttrCnts[r] /\ AttrNames'[r] = AttrNames[r] /\ file'[r] = file[r]

\* A command that is at work on relation q, or returns leaving it whole or
\* nowhere, leaves the others as they were.
LEMMA OthersIntact ==
  ASSUME Intact, NEW q \in Rels, AtRest \/ cmd.rel = q, OnlyOf(q),
         (~AtRest)' => cmd'.rel = q,
         AtRest' => (q # Temp /\ Whole(q)') \/ Nowhere(q)'
  PROVE  \A r \in Rels : AtRest' \/ r # cmd'.rel => (r # Temp /\ Whole(r)') \/ Nowhere(r)'
<1> SUFFICES ASSUME NEW r \in Rels, AtRest' \/ r # cmd'.rel
             PROVE  (r # Temp /\ Whole(r)') \/ Nowhere(r)'
  OBVIOUS
<1>1. CASE r = q
  BY <1>1, SMTT(30)
<1>2. CASE r # q
  <2>1. (r # Temp /\ Whole(r)) \/ Nowhere(r)
    BY <1>2 DEF Intact
  <2> QED BY <1>2, <2>1 DEF OnlyOf, Whole, Nowhere
<1> QED BY <1>1, <1>2

\* The schema of a relation depends on its own parts.
LEMMA SchemaOf == \A r \in Rels : Schema[r] = IF Whole(r) THEN AttrNames[r] ELSE NoSchema
BY DEF Schema

\* The same after a step.
LEMMA SchemaAfter == \A r \in Rels : Schema'[r] = IF Whole(r)' THEN AttrNames'[r] ELSE NoSchema
BY DEF Schema

\* The step changes the schema of q at most.
LEMMA OneSchema ==
  ASSUME NEW q \in Rels, OnlyOf(q)
  PROVE  /\ Schema' = [Schema EXCEPT ![q] = Schema'[q]]
         /\ Schema'[q] = Schema[q] => Schema' = Schema
<1>1. \A r \in Rels : r # q => Schema'[r] = Schema[r]
  BY SchemaOf, SchemaAfter, Zenon DEF OnlyOf, Whole
<1>2. DOMAIN Schema = Rels /\ DOMAIN Schema' = Rels /\ Schema = [r \in Rels |-> Schema[r]]
      /\ Schema' = [r \in Rels |-> Schema'[r]]
  BY DEF Schema
<1> HIDE DEF Schema
<1> QED BY <1>1, <1>2

\* What RelationSpec sees of a step that leaves the schema of q as it was.
LEMMA Unseen ==
  ASSUME NEW q \in Rels, OnlyOf(q), Schema'[q] = Schema[q]
  PROVE  [Relations!Next]_Schema
BY OneSchema

\* A step that leaves catalogs and files alone is not seen, whatever it does.
LEMMA StoresStay ==
  ASSUME UNCHANGED <<catalogs, file>>
  PROVE  /\ [Relations!Next]_Schema
         /\ \A q \in Rels : OnlyOf(q)
         /\ \A r \in Rels : (Whole(r)' <=> Whole(r)) /\ (Nowhere(r)' <=> Nowhere(r))
<1>1. AttrCnts' = AttrCnts /\ AttrNames' = AttrNames /\ file' = file
  BY ViewsStay
<1> QED BY <1>1, Zenon DEF Schema, OnlyOf, Whole, Nowhere

\* createRel, of its own or for a query, starts with a relation that is nowhere.
LEMMA StartCreateIntact ==
  ASSUME CatInv, Intact, Smooth, NEW r \in Rels, NEW as \in AttrLists, NEW query \in BOOLEAN,
         r = Temp => query, StartCreate(r, as, query)
  PROVE  Intact' /\ [Relations!Next]_Schema
<1>1. /\ AtRest /\ AttrCnts[r] = <<>>
      /\ cmd' = [pc |-> "addRel", rel |-> r, todo |-> as, query |-> query]
      /\ UNCHANGED <<catalogs, file>> /\ open' = open
  BY Zenon DEF StartCreate, CreateAllowed
<1>2. Nowhere(r)
  BY <1>1 DEF Intact, Whole
<1>3. as \in Seq(Attrs \ TooLong) /\ as # <<>>
  BY ListsAssumption, ZenonT(30) DEF Smooth
<1>4. Making'
  BY <1>1, <1>2, <1>3, StoresStay, Zenon DEF Making
<1>5. cmd'.rel = r /\ ~AtRest'
  BY <1>1, Zenon DEF AtRest
<1>6. \A x \in Rels : AtRest' \/ x # cmd'.rel => (x # Temp /\ Whole(x)') \/ Nowhere(x)'
  BY <1>1, <1>5, StoresStay, OthersIntact, Zenon
<1> QED BY <1>1, <1>4, <1>6, StoresStay, Zenon DEF Intact

\* RelCatalog::addInfo records as many attributes as there are still to add.
LEMMA AddRelIntact ==
  ASSUME CatInv, Intact, AddRel
  PROVE  Intact' /\ [Relations!Next]_Schema
<1>1. ViewType /\ CmdType
  BY Types, Zenon DEF CatInv
<1>2. /\ cmd.pc = "addRel" /\ cmd.rel \in Rels /\ cmd.todo \in Seq(Attrs \ TooLong) /\ cmd.todo # <<>>
      /\ Nowhere(cmd.rel) /\ (cmd.rel = Temp => cmd.query)
  BY <1>1 DEF AddRel, Intact, Making, CmdType
<1>3. /\ AttrCnts' = [AttrCnts EXCEPT ![cmd.rel] = Append(@, Len(cmd.todo))]
      /\ AttrNames' = AttrNames /\ file' = file /\ open' = open
      /\ cmd' = [cmd EXCEPT !.pc = "addAttrs"]
  BY AddRelDoes, Zenon DEF AddRel, Goto, CatInv
<1>4. /\ cmd'.pc = "addAttrs" /\ cmd'.rel = cmd.rel /\ cmd'.todo = cmd.todo /\ cmd'.query = cmd.query
  BY <1>1, <1>3 DEF CmdType
<1>5. /\ AttrCnts'[cmd.rel] = <<Len(cmd.todo)>> /\ AttrNames'[cmd.rel] = <<>> /\ file'[cmd.rel] = "absent"
      /\ OnlyOf(cmd.rel)
  BY <1>1, <1>2, <1>3, SMTT(30) DEF ViewType, Nowhere, OnlyOf
<1>6. Len(AttrNames'[cmd.rel]) + Len(cmd.todo) = Len(cmd.todo)
  BY <1>2, <1>5, LenProperties, EmptySeq, SMTT(30)
<1>7. Making'
  BY <1>2, <1>4, <1>5, <1>6, Zenon DEF Making
<1>8. \A x \in Rels : AtRest' \/ x # cmd'.rel => (x # Temp /\ Whole(x)') \/ Nowhere(x)'
  BY <1>2, <1>4, <1>5, OthersIntact, Zenon DEF AtRest
<1>9. Schema'[cmd.rel] = Schema[cmd.rel]
  BY <1>2, <1>3, SchemaOf, SchemaAfter, Zenon DEF Whole, Nowhere
<1> QED BY <1>2, <1>3, <1>5, <1>7, <1>8, <1>9, Unseen, Zenon DEF Intact

\* AttrCatalog::addInfo adds one of them; the relation has no file yet.
LEMMA AddAttrIntact ==
  ASSUME CatInv, Intact, AddAttr
  PROVE  Intact' /\ [Relations!Next]_Schema
<1>1. ViewType /\ CmdType
  BY Types DEF CatInv
<1> DEFINE s == AttrNames[cmd.rel]
           t == cmd.todo
<1>2. /\ cmd.pc = "addAttrs" /\ cmd.rel \in Rels /\ t \in Seq(Attrs \ TooLong) /\ t # <<>>
      /\ AttrCnts[cmd.rel] = <<Len(s) + Len(t)>> /\ file[cmd.rel] = "absent"
      /\ (cmd.rel = Temp => cmd.query) /\ s \in Seq(Attrs \ TooLong)
  BY <1>1, Zenon DEF AddAttr, Intact, Making, CmdType, ViewType
<1>3. Head(t) \in Attrs \ TooLong /\ Tail(t) \in Seq(Attrs \ TooLong) /\ Len(Tail(t)) = Len(t) - 1
  BY <1>2, HeadTailProperties, Zenon
<1>4. Len(Append(s, Head(t))) = Len(s) + 1 /\ Len(s) \in Nat /\ Len(t) \in Nat
      /\ Append(s, Head(t)) # <<>>
  BY <1>2, <1>3, AppendProperties, LenProperties, SMTT(30)
<1>5. /\ AttrNames' = [AttrNames EXCEPT ![cmd.rel] = Append(s, Head(t))]
      /\ cmd' = [cmd EXCEPT !.todo = Tail(t)]
      /\ AttrCnts' = AttrCnts /\ file' = file /\ open' = open
  BY <1>3, AddAttrDoes DEF CatInv
<1>6. /\ cmd'.pc = "addAttrs" /\ cmd'.rel = cmd.rel /\ cmd'.todo = Tail(t) /\ cmd'.query = cmd.query
  BY <1>1, <1>2, <1>5, Zenon DEF CmdType
<1>7. AttrNames'[cmd.rel] = Append(s, Head(t)) /\ OnlyOf(cmd.rel)
  BY <1>1, <1>2, <1>5 DEF ViewType, OnlyOf
<1> HIDE DEF s, t
<1>8. AttrCnts'[cmd.rel] = <<Len(AttrNames'[cmd.rel]) + Len(Tail(t))>>
  <2>1. Len(AttrNames'[cmd.rel]) + Len(Tail(t)) = Len(s) + Len(t)
    BY <1>3, <1>4, <1>7
  <2> QED BY <1>2, <1>5, <2>1, Zenon
<1>9. Making'
  BY <1>2, <1>3, <1>4, <1>5, <1>6, <1>7, <1>8, Zenon DEF Making
<1>10. \A x \in Rels : AtRest' \/ x # cmd'.rel => (x # Temp /\ Whole(x)') \/ Nowhere(x)'
  BY <1>2, <1>6, <1>7, OthersIntact DEF AtRest
<1>11. Schema'[cmd.rel] = Schema[cmd.rel]
  BY <1>2, <1>5, SchemaOf, SchemaAfter, Zenon DEF Whole
<1> QED BY <1>2, <1>5, <1>7, <1>9, <1>10, <1>11, Unseen, Zenon DEF Intact

\* A command that has returned is making nothing.
LEMMA IdleMaking ==
  ASSUME cmd' = Idle
  PROVE  Making' /\ AtRest'
BY DEF Idle, Making, AtRest

\* createHeapFile makes the relation whole: this is when it appears.
LEMMA MakeFileIntact ==
  ASSUME CatInv, Intact, Smooth, MakeFile
  PROVE  Intact' /\ [Relations!Next]_Schema
<1>1. StoreType /\ CmdType /\ ViewType
  BY Types DEF CatInv
<1> PICK q \in Rels : q = cmd.rel
  BY <1>1, Zenon DEF CmdType
<1> DEFINE s == AttrNames[q]
<1>2. /\ cmd.pc = "addAttrs" /\ cmd.rel = q /\ cmd.todo = <<>> /\ s # <<>>
      /\ AttrCnts[q] = <<Len(s) + Len(cmd.todo)>> /\ file[q] = "absent"
      /\ (q = Temp => cmd.query) /\ s \in Seq(Attrs \ TooLong) /\ s \in Seq(Attrs)
  BY <1>1, SeqMonotonic DEF MakeFile, Intact, Making, CmdType, ViewType
<1>3. Len(s) + Len(cmd.todo) = Len(s)
  BY <1>2, LenProperties, EmptySeq, SMTT(30)
<1>4. /\ file' = [file EXCEPT ![q] = "heap"] /\ open' = open /\ AttrCnts' = AttrCnts /\ AttrNames' = AttrNames
      /\ IF cmd.query THEN Goto("select") ELSE Return
  <2>1. UNCHANGED catalogs
    BY DEF MakeFile
  <2> QED BY <1>2, <2>1, ViewsStay, Zenon DEF MakeFile, Smooth
<1>5. /\ Whole(q)' /\ OnlyOf(q)
  <2>1. file'[q] = "heap" /\ \A r \in Rels : r # q => file'[r] = file[r]
    BY <1>1, <1>2, <1>4 DEF StoreType
  <2>2. AttrCnts'[q] = <<Len(AttrNames'[q])>> /\ AttrNames'[q] # <<>>
    BY <1>2, <1>3, <1>4
  <2>3. OnlyOf(q)
    BY <1>4, <2>1 DEF OnlyOf
  <2> QED BY <2>1, <2>2, <2>3, Zenon DEF Whole
<1>6. Making' /\ \A x \in Rels : AtRest' \/ x # cmd'.rel => (x # Temp /\ Whole(x)') \/ Nowhere(x)'
  <2>1. CASE cmd.query
    <3>1. cmd'.pc = "select" /\ cmd'.rel = q
      BY <1>1, <1>4, <2>1 DEF Goto, CmdType
    <3>2. Making'
      BY <1>5, <3>1, Zenon DEF Making
    <3> QED BY <1>2, <1>5, <3>1, <3>2, OthersIntact DEF AtRest
  <2>2. CASE ~cmd.query
    <3>1. cmd' = Idle
      BY <1>4, <2>2, Zenon DEF Return
    <3> QED BY <1>2, <1>5, <2>2, <3>1, IdleMaking, OthersIntact
  <2> QED BY <2>1, <2>2, Zenon
<1>7. Intact'
  BY <1>4, <1>6, Zenon DEF Intact
<1>8. Schema[q] = NoSchema /\ Schema'[q] = s
  BY <1>2, <1>4, <1>5, SchemaOf, SchemaAfter, Zenon DEF Whole
<1>9. Schema' = [Schema EXCEPT ![q] = Schema'[q]]
  BY <1>2, <1>5, OneSchema, Zenon
<1>10. Relations!Create(q)
  BY <1>2, <1>8, <1>9, NoSchemaAssumption, Zenon DEF Relations!Create, Relations!Only
<1> QED BY <1>2, <1>7, <1>10 DEF Relations!Next

\* destroyRel starts with a relation that is whole.
LEMMA BeginDestroyIntact ==
  ASSUME CatInv, Intact, NEW r \in Rels, AtRest \/ cmd.rel = r, Whole(r), BeginDestroy(r),
         UNCHANGED <<catalogs, file>>, open' = open
  PROVE  Intact'
<1>1. ViewType
  BY Types DEF CatInv
<1>2. cmd' = [pc |-> "dropAttrs", rel |-> r, todo |-> AttrNames[r], query |-> FALSE]
  BY DEF BeginDestroy, Whole
<1>3. Len(AttrNames[r]) \in Nat
  BY <1>1, LenProperties, Zenon DEF ViewType
<1>4. /\ Len(AttrCnts'[r]) = 1 /\ Len(AttrNames'[r]) <= AttrCnts'[r][1] /\ file'[r] = "heap"
  <2>1. AttrCnts[r] = <<Len(AttrNames[r])>> /\ file[r] = "heap"
    BY DEF Whole
  <2>2. Len(AttrCnts[r]) = 1 /\ AttrCnts[r][1] = Len(AttrNames[r])
    BY <1>3, <2>1, SMTT(30)
  <2>3. Len(AttrNames[r]) <= AttrCnts[r][1]
    BY <1>3, <2>2
  <2>4. AttrCnts' = AttrCnts /\ AttrNames' = AttrNames /\ file' = file
    BY ViewsStay, Zenon
  <2> QED BY <2>1, <2>2, <2>3, <2>4, Zenon
<1>5. Making'
  BY <1>2, <1>4, Zenon DEF Making
<1>6. cmd'.rel = r /\ ~AtRest'
  BY <1>2, Zenon DEF AtRest
<1>7. \A x \in Rels : AtRest' \/ x # cmd'.rel => (x # Temp /\ Whole(x)') \/ Nowhere(x)'
  BY <1>6, StoresStay, OthersIntact, Zenon
<1> QED BY <1>5, <1>7, SMTT(30) DEF Intact

\* destroyRel reads the catalogs; nothing is seen of it yet.
LEMMA StartDestroyIntact ==
  ASSUME CatInv, Intact, NEW r \in Rels, StartDestroy(r)
  PROVE  Intact' /\ [Relations!Next]_Schema
<1>1. Whole(r)
  BY DEF StartDestroy, Intact, Nowhere
<1>2. UNCHANGED <<catalogs, file>> /\ open' = open /\ AtRest /\ BeginDestroy(r)
  BY DEF StartDestroy
<1> QED BY <1>1, <1>2, BeginDestroyIntact, StoresStay, SMTT(30)

\* A query is done, and destroys its result if that is the temporary one.
LEMMA SelectIntact ==
  ASSUME CatInv, Intact, Smooth, Select
  PROVE  Intact' /\ [Relations!Next]_Schema
<1>1. cmd.rel \in Rels
  BY Types, Zenon DEF CatInv, CmdType
<1>2. Whole(cmd.rel) /\ UNCHANGED <<catalogs, file>> /\ open' = open
  BY Zenon DEF Select, Smooth, Intact, Making
<1>3. CASE cmd.rel = Temp
  BY <1>1, <1>2, <1>3, BeginDestroyIntact, StoresStay, Zenon DEF Select
<1>4. CASE cmd.rel # Temp
  <2>1. cmd' = Idle
    BY <1>4, Zenon DEF Select, Return
  <2>2. \A x \in Rels : AtRest' \/ x # cmd'.rel => (x # Temp /\ Whole(x)') \/ Nowhere(x)'
    BY <1>1, <1>2, <1>4, <2>1, StoresStay, IdleMaking, OthersIntact, ZenonT(30)
  <2> QED BY <1>2, <2>1, <2>2, IdleMaking, StoresStay, Zenon DEF Intact
<1> QED BY <1>3, <1>4

\* AttrCatalog::removeInfo takes one attribute: with the first one the relation
\* disappears, as AttrCnts then gives too many.
LEMMA DropAttrIntact ==
  ASSUME CatInv, Intact, DropAttr
  PROVE  Intact' /\ [Relations!Next]_Schema
<1>1. ViewType /\ CmdType
  BY Types DEF CatInv
<1> PICK q \in Rels : q = cmd.rel
  BY <1>1 DEF CmdType
<1> DEFINE s == AttrNames[q]
<1>2. /\ cmd.pc = "dropAttrs" /\ cmd.rel = q /\ cmd.todo = s /\ s # <<>> /\ s \in Seq(Attrs \ TooLong)
      /\ Len(AttrCnts[q]) = 1 /\ Len(s) <= AttrCnts[q][1] /\ file[q] = "heap" /\ AttrCnts[q] \in Seq(Nat)
  BY <1>1 DEF DropAttr, CatInv, Underway, Intact, Making, ViewType
<1>3. /\ Tail(s) \in Seq(Attrs \ TooLong) /\ Len(Tail(s)) = Len(s) - 1 /\ Len(s) \in Nat
      /\ AttrCnts[q][1] \in Nat
  <2>1. Tail(s) \in Seq(Attrs \ TooLong) /\ Len(Tail(s)) = Len(s) - 1 /\ Len(s) \in Nat
    BY <1>2, HeadTailProperties, LenProperties
  <2>2. AttrCnts[q][1] \in Nat
    BY <1>2, ElementOfSeq
  <2> QED BY <2>1, <2>2
<1>4. /\ AttrNames' = [AttrNames EXCEPT ![q] = Tail(s)]
      /\ AttrCnts' = AttrCnts /\ file' = file /\ open' = open
  BY <1>2, DropAttrDoes, Zenon DEF CatInv
<1>5. cmd'.rel = q /\ cmd'.pc = IF Len(s) = 1 THEN "dropRel" ELSE "dropAttrs"
  BY <1>1, <1>2 DEF DropAttr, CmdType
<1>6. AttrNames'[q] = Tail(s) /\ OnlyOf(q)
  BY <1>1, <1>4, SMTT(30) DEF ViewType, OnlyOf
<1> HIDE DEF s
<1>7. Len(AttrNames'[q]) <= AttrCnts'[q][1] /\ Len(AttrNames'[q]) # AttrCnts'[q][1]
  BY <1>2, <1>3, <1>4, <1>6, SMTT(30)
<1>8. Making'
  BY <1>2, <1>4, <1>5, <1>7, SMTT(30) DEF Making
<1>9. \A x \in Rels : AtRest' \/ x # cmd'.rel => (x # Temp /\ Whole(x)') \/ Nowhere(x)'
  BY <1>2, <1>5, <1>6, OthersIntact, SMTT(30) DEF AtRest
<1>10. Intact'
  BY <1>4, <1>8, <1>9, SMTT(30) DEF Intact
<1>11. Schema'[q] = NoSchema
  <2>1. ~Whole(q)'
    <3> SUFFICES ASSUME AttrCnts'[q] = <<Len(AttrNames'[q])>> PROVE FALSE
      BY DEF Whole
    <3> QED BY <1>3, <1>6, <1>7
  <2> QED BY <2>1, SchemaAfter
<1>12. [Relations!Next]_Schema
  <2>1. CASE Schema[q] = NoSchema
    BY <1>6, <1>11, <2>1, Unseen
  <2>2. CASE Schema[q] # NoSchema
    <3>1. Schema' = [Schema EXCEPT ![q] = NoSchema]
      BY <1>6, <1>11, OneSchema, SMTT(30)
    <3> QED BY <2>2, <3>1, ZenonT(30) DEF Relations!Destroy, Relations!Next
  <2> QED BY <2>1, <2>2
<1> QED BY <1>10, <1>12

\* RelCatalog::removeInfo takes the one entry of a relation without attributes.
LEMMA DropRelIntact ==
  ASSUME CatInv, Intact, DropRel
  PROVE  Intact' /\ [Relations!Next]_Schema
<1>1. ViewType /\ CmdType
  BY Types DEF CatInv
<1> PICK q \in Rels : q = cmd.rel
  BY <1>1 DEF CmdType
<1>2. /\ cmd.pc = "dropRel" /\ cmd.rel = q /\ AttrNames[q] = <<>> /\ AttrCnts[q] \in Seq(Nat)
      /\ Len(AttrCnts[q]) = 1 /\ file[q] = "heap"
  BY <1>1 DEF DropRel, CatInv, Underway, Intact, Making, ViewType
<1>3. AttrCnts[q] # <<>> /\ Tail(AttrCnts[q]) = <<>>
  <2>1. AttrCnts[q] = <<>> <=> Len(AttrCnts[q]) = 0
    BY <1>2, EmptySeq, Zenon
  <2>2. Tail(AttrCnts[q]) \in Seq(Nat) /\ Len(Tail(AttrCnts[q])) = 0
    BY <1>2, <2>1, HeadTailProperties
  <2>3. Tail(AttrCnts[q]) = <<>>
    BY <2>2, EmptySeq, Zenon
  <2> QED BY <1>2, <2>1, <2>3
<1>4. /\ AttrCnts' = [AttrCnts EXCEPT ![q] = <<>>]
      /\ AttrNames' = AttrNames /\ file' = file /\ open' = open /\ Goto("dropFile")
  <2>1. AttrCnts' = [AttrCnts EXCEPT ![q] = Tail(@)] /\ AttrNames' = AttrNames /\ file' = file /\ open' = open
    BY <1>2, <1>3, DropRelDoes DEF CatInv
  <2>2. AttrCnts' = [AttrCnts EXCEPT ![q] = <<>>]
    BY <1>3, <2>1, Zenon
  <2> QED BY <1>2, <1>3, <2>1, <2>2 DEF DropRel
<1>5. cmd'.rel = q /\ cmd'.pc = "dropFile"
  BY <1>1, <1>2, <1>4, GotoOK, SMTT(30) DEF Labels
<1>6. AttrCnts'[q] = <<>> /\ OnlyOf(q)
  BY <1>1, <1>4 DEF ViewType, OnlyOf
<1>7. Making'
  BY <1>2, <1>4, <1>5, <1>6, Zenon DEF Making
<1>8. \A x \in Rels : AtRest' \/ x # cmd'.rel => (x # Temp /\ Whole(x)') \/ Nowhere(x)'
  BY <1>2, <1>5, <1>6, OthersIntact DEF AtRest
<1>9. Schema'[q] = Schema[q]
  BY <1>2, <1>4, SchemaOf, SchemaAfter, Zenon DEF Whole
<1> QED BY <1>4, <1>6, <1>7, <1>8, <1>9, Unseen, SMTT(30) DEF Intact

\* destroyHeapFile finds the file closed, and the relation is nowhere.
LEMMA DropFileIntact ==
  ASSUME CatInv, Intact, DropFile
  PROVE  Intact' /\ [Relations!Next]_Schema
<1>1. StoreType /\ CmdType
  BY Types, SMTT(30) DEF CatInv
<1> PICK q \in Rels : q = cmd.rel
  BY <1>1 DEF CmdType
<1>2. cmd.rel = q /\ AttrCnts[q] = <<>> /\ AttrNames[q] = <<>> /\ ~open[q]
  BY DEF DropFile, Intact, Making
<1>3. /\ AttrCnts' = AttrCnts /\ AttrNames' = AttrNames /\ file' = [file EXCEPT ![q] = "absent"] /\ open' = open
      /\ cmd' = Idle
  BY <1>2, ViewsStay DEF DropFile, Return
<1>4. Nowhere(q)' /\ OnlyOf(q)
  BY <1>1, <1>2, <1>3, Zenon DEF StoreType, OnlyOf, Nowhere
<1>5. \A x \in Rels : AtRest' \/ x # cmd'.rel => (x # Temp /\ Whole(x)') \/ Nowhere(x)'
  BY <1>2, <1>3, <1>4, IdleMaking, OthersIntact, Zenon
<1>6. Schema'[q] = Schema[q]
  BY <1>2, <1>3, SchemaOf, SchemaAfter, ZenonT(30) DEF Whole
<1> QED BY <1>3, <1>4, <1>5, <1>6, IdleMaking, Unseen, Zenon DEF Intact

\* Every step of every command keeps relations intact, and is a step of
\* RelationSpec or not seen.
LEMMA StepIntact ==
  ASSUME CatInv, Intact, Smooth, [Next]_vars
  PROVE  Intact' /\ [Relations!Next]_Schema
<1>1. CASE UNCHANGED vars \/ (Quit /\ UNCHANGED torn)
  <2>1. /\ UNCHANGED <<catalogs, file>> /\ cmd' = cmd
        /\ open' = open \/ open' = [r \in Rels |-> FALSE]
    BY <1>1 DEF vars, catalogs, Quit
  <2>2. AttrCnts' = AttrCnts /\ AttrNames' = AttrNames /\ file' = file
    BY <2>1, ViewsStay
  <2>3. Making' /\ \A r \in Rels : ~open'[r]
    BY <2>1, <2>2, Zenon DEF Intact, Making, Whole, Nowhere
  <2>4. \A r \in Rels : AtRest' \/ r # cmd'.rel => (r # Temp /\ Whole(r)') \/ Nowhere(r)'
    BY <2>1, <2>2 DEF Intact, AtRest, Whole, Nowhere
  <2> QED BY <2>1, <2>3, <2>4, StoresStay, SMTT(30) DEF Intact
<1>2. ASSUME NEW r \in UserRels, NEW as \in AttrLists, StartCreate(r, as, FALSE)
      PROVE  Intact' /\ [Relations!Next]_Schema
  <2>1. r \in Rels /\ r # Temp
    BY NamesAssumption DEF Rels
  <2> QED BY <1>2, <2>1, StartCreateIntact, Zenon
<1>3. ASSUME NEW r \in Rels, NEW t \in Rels, NEW as \in AttrLists, Query(r, as, t)
      PROVE  Intact' /\ [Relations!Next]_Schema
  <2>1. StartCreate(t, as, TRUE)
    BY <1>3, ZenonT(30) DEF Query
  <2> QED BY <2>1, StartCreateIntact, Zenon
<1>4. ASSUME NEW r \in Rels, StartDestroy(r) PROVE Intact' /\ [Relations!Next]_Schema
  BY <1>4, StartDestroyIntact
<1>5. CASE AddRel
  BY <1>5, AddRelIntact
<1>6. CASE AddAttr
  BY <1>6, AddAttrIntact
<1>7. CASE MakeFile
  BY <1>7, MakeFileIntact
<1>8. CASE Select
  BY <1>8, SelectIntact, SMTT(30)
<1>9. CASE DropAttr
  BY <1>9, DropAttrIntact
<1>10. CASE DropRel
  BY <1>10, DropRelIntact
<1>11. CASE DropFile
  BY <1>11, DropFileIntact
<1>12. /\ ~Crash /\ ~WriteBack
       /\ \A r : ~LoadFails(r)
       /\ \A l : ~StepFails(l)
  BY DEF Smooth, Crash, WriteBack, LoadFails, StepFails
<1> QED BY <1>1, <1>2, <1>3, <1>4, <1>5, <1>6, <1>7, <1>8, <1>9, <1>10, <1>11, <1>12, Zenon DEF Next, Step

\* In a new database every relation is nowhere.
LEMMA InitIntact == Init => Intact /\ Relations!Init
<1> SUFFICES ASSUME Init PROVE Intact /\ Relations!Init
  OBVIOUS
<1>1. \A r \in Rels : Nowhere(r) /\ ~open[r]
  <2>1. Descs(<<>>) = <<>>
    BY EmptySeq, DescsType
  <2> QED BY <2>1, Zenon DEF Init, Nowhere, AttrCnts, AttrNames
<1>2. Making
  BY DEF Init, Idle, Making
<1>3. Relations!Init
  <2>1. \A r \in Rels : Schema[r] = NoSchema
    BY <1>1, SchemaOf DEF Nowhere, Whole
  <2> QED BY <2>1 DEF Schema, Relations!Init
<1> QED BY <1>1, <1>2, <1>3 DEF Intact

\* If no step fails and the program does not crash, then between commands each
\* relation has its entries in both catalogs, which agree on the number of its
\* attributes, and its heap file, or has none of these; and no query has left
\* its temporary relation behind.
THEOREM CatalogsStayTogether ==
  ASSUME Smooth
  PROVE  Spec => []CatalogsAgree
<1>1. CatInv /\ Intact /\ [Next]_vars => Intact'
  BY StepIntact
<1>2. Intact => CatalogsAgree
  BY DEF Intact, CatalogsAgree, Whole, Nowhere
<1> QED BY <1>1, <1>2, InitOK, InitIntact, CatInvKept, PTL DEF Spec

\* Under the same conditions create and destroy are atomic for a reader that
\* asks for a relation with all of its parts: createRel is seen when it makes
\* the file, destroyRel when it removes the first attribute.
THEOREM CreateDestroyAtomic ==
  ASSUME Smooth
  PROVE  Spec => ImplementsRelations
<1>1. CatInv /\ Intact /\ [Next]_vars => Intact' /\ [Relations!Next]_Schema
  BY StepIntact
<1>2. Init => Relations!Init
  BY InitIntact
<1> QED BY <1>1, <1>2, InitOK, InitIntact, CatInvKept, PTL DEF Spec, ImplementsRelations, Relations!Spec

=============================================================================
