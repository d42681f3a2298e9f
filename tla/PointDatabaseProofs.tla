------------------------ MODULE PointDatabaseProofs -------------------------
(***************************************************************************)
(* The database under its lock, for every set of groups, connections and   *)
(* command lines and every width of the indices: an answer is a snapshot,  *)
(* it shows what was confirmed, and only a new index can silence it.       *)
(***************************************************************************)
EXTENDS PointDatabase, Integers, SequenceTheorems, FiniteSetTheorems,
        WellFoundedInduction, TLAPS

(* The lemmas about lists of points hold whatever list the program of       *)
(* AppObjects has put together: the empty one will do.                      *)
App == INSTANCE AppObjectsProofs
           WITH Slots <- 1, MaxPoints <- 0, kind <- "binary", points <- <<>>

USE WidthAssumption, DefaultAssumption, CommandLinesAssumption, BoundAssumption

PointOf(D) == [index : Index, datum : D]

Range16(start, stop) == [code |-> "Range16", start |-> start, stop |-> stop]

WrapsAround(list) == Contiguous(list) /\ list[Len(list)].index < list[1].index

(* What AppObjects assumes of its constants.                                *)
LEMMA OneSlot == 1 \in Nat \ {0} /\ ByteSpace % 1 = 0 /\ 0 \in 0 .. IndexSpace
OBVIOUS

LEMMA ListOfPoints ==
  ASSUME NEW D, NEW list \in Seq(PointOf(D))
  PROVE  /\ Len(list) \in Nat /\ DOMAIN list = 1 .. Len(list)
         /\ \A i \in 1 .. Len(list) : /\ list[i].index \in Index
                                      /\ list[i].datum \in D
                                      /\ list[i] = [index |-> list[i].index,
                                                    datum |-> list[i].datum]
         /\ list = [i \in 1 .. Len(list) |-> [index |-> list[i].index,
                                              datum |-> list[i].datum]]
BY OneSlot, App!ListOfPoints DEF PointOf, App!PointOf, Index, App!Index

LEMMA EncodeDecode ==
  ASSUME NEW D, NEW list \in Seq(PointOf(D)), Len(list) <= IndexSpace,
         NEW sort, NEW i \in DOMAIN Encode(list)
  PROVE  Decode(sort, Encode(list)[i].qualifier, Encode(list)[i].body) =
            IF WrapsAround(list) THEN <<>> ELSE <<list>>
<1>1. App!Encode(list) = Encode(list)
  BY DEF Encode, App!Encode, Contiguous, App!Contiguous, Interleaved, App!Interleaved
<1>2. ASSUME NEW s, NEW q, NEW body PROVE App!Decode(s, q, body) = Decode(s, q, body)
  BY DEF Decode, App!Decode, ReadImplied, App!ReadImplied, IndicesFrom, App!IndicesFrom,
         Clamp, App!Clamp, Range8Count, App!Range8Count, RangeLength, App!RangeLength,
         ReadPrefixed, App!ReadPrefixed
<1>3. App!WrapsAround(list) <=> WrapsAround(list)
  BY DEF WrapsAround, App!WrapsAround, Contiguous, App!Contiguous
<1>4. list \in Seq(App!PointOf(D))  BY DEF PointOf, App!PointOf, Index, App!Index
<1>5. i \in DOMAIN App!Encode(list)  BY <1>1
<1>6. App!Decode(sort, App!Encode(list)[i].qualifier, App!Encode(list)[i].body) =
            IF App!WrapsAround(list) THEN <<>> ELSE <<list>>
  BY <1>4, <1>5, OneSlot, App!EncodeDecode, Zenon
<1> QED  BY <1>1, <1>2, <1>3, <1>6

LEMMA PointIsPointOf == Point = PointOf(Datum)
BY DEF Point, PointOf

(* A set of natural numbers with an element has a smallest one.             *)
LEMMA MinOfNaturals ==
  ASSUME NEW S \in SUBSET Nat, S # {}
  PROVE  Min(S) \in S
<1>1. PICK x \in S : \A y \in S : ~ (<<y, x>> \in OpToRel(<, Nat))
  BY NatLessThanWellFounded, WFMin
<1>2. \A y \in S : x <= y
  <2> SUFFICES ASSUME NEW y \in S PROVE ~ (y < x)
    OBVIOUS
  <2>1. x \in Nat /\ y \in Nat  OBVIOUS
  <2> QED  BY <1>1, <2>1 DEF OpToRel
<1> QED  BY <1>1, <1>2 DEF Min

-----------------------------------------------------------------------------
(* What Upsert does: a new index is a new point at the end, an index that   *)
(* is there keeps its place.                                                *)
LEMMA UpsertCases ==
  ASSUME NEW D, NEW list \in Seq(PointOf(D)), NEW p \in PointOf(D)
  PROVE  \/ /\ \A i \in 1 .. Len(list) : list[i].index # p.index
            /\ Upsert(list, p) = Append(list, p)
         \/ \E i \in 1 .. Len(list) : /\ list[i].index = p.index
                                      /\ Upsert(list, p) = [list EXCEPT ![i] = p]
<1> DEFINE I == {i \in 1 .. Len(list) : list[i].index = p.index}
           first == SelectInSeq(list, LAMBDA q : q.index = p.index)
<1>1. first = IF I # {} THEN Min(I) ELSE 0  BY DEF SelectInSeq
<1>2. Len(list) \in Nat  BY ListOfPoints
<1>3. CASE I = {}
  <2>1. first = 0  BY <1>1, <1>3
  <2> HIDE DEF first
  <2>2. Upsert(list, p) = Append(list, p)  BY <2>1 DEF Upsert, first
  <2> QED  BY <1>3, <2>2
<1>4. CASE I # {}
  <2>1. I \in SUBSET Nat  BY <1>2
  <2>2. Min(I) \in I  BY <1>4, <2>1, MinOfNaturals
  <2>3. first \in 1 .. Len(list) /\ list[first].index = p.index
    BY <1>1, <1>4, <2>2
  <2> HIDE DEF first
  <2>4. first # 0  BY <2>3
  <2>5. Upsert(list, p) = [list EXCEPT ![first] = p]
    BY <2>4 DEF Upsert, first
  <2> QED  BY <2>3, <2>5
<1> QED  BY <1>3, <1>4

(* A list of points stays one, and none is lost.                            *)
LEMMA UpsertLists ==
  ASSUME NEW D, NEW list \in Seq(PointOf(D)), NEW p \in PointOf(D)
  PROVE  /\ Upsert(list, p) \in Seq(PointOf(D))
         /\ Upsert(list, p) # <<>>
         /\ Len(Upsert(list, p)) >= Len(list)
<1>1. Len(list) \in Nat  BY ListOfPoints
<1>2. CASE Upsert(list, p) = Append(list, p)
  BY <1>1, <1>2, AppendProperties
<1>3. ASSUME NEW i \in 1 .. Len(list), Upsert(list, p) = [list EXCEPT ![i] = p]
      PROVE  /\ Upsert(list, p) \in Seq(PointOf(D))
             /\ Upsert(list, p) # <<>>
             /\ Len(Upsert(list, p)) = Len(list)
  <2>1. list # <<>>  BY <1>1
  <2> QED  BY <1>1, <1>3, <2>1
<1> QED  BY <1>1, <1>2, <1>3, UpsertCases

-----------------------------------------------------------------------------
(* The lock.                                                                *)
LEMMA StartsGuarded == Init => GuardInv
<1> SUFFICES ASSUME Init PROVE GuardInv
  OBVIOUS
<1>1. PICK options \in CommandLines : database = [g \in Group |-> PointsOf(options[g])]
  BY DEF Init
<1>2. ASSUME NEW g \in Group
      PROVE  PointsOf(options[g]) \in Seq(Point) /\ PointsOf(options[g]) # <<>>
  <2>1. options[g] \in Seq(Point)  OBVIOUS
  <2>2. [index |-> 0, datum |-> DefaultDatum] \in Point  BY DEF Point, Index
  <2>3. <<[index |-> 0, datum |-> DefaultDatum]>> \in Seq(Point)  BY <2>2
  <2> QED  BY <2>1, <2>3 DEF PointsOf
<1>3. database \in [Group -> Seq(Point)] /\ \A g \in Group : database[g] # <<>>
  BY <1>1, <1>2
<1>4. TypeOK
  <2>1. poisoned \in BOOLEAN  BY DEF Init
  <2>2. commands \in 0 .. MaxCommands  BY DEF Init
  <2>3. task \in [Tasks -> {"waiting", "copying", "panicked"}]  BY DEF Init
  <2> QED  BY <1>3, <2>1, <2>2, <2>3 DEF Init, TypeOK
<1>5. CopiesCurrent
  <2>1. \A t \in Tasks : copied[t] = <<>> /\ DOMAIN copied[t] = {}
    BY DEF Init
  <2>2. Readers = {}  BY DEF Init, Readers
  <2>3. <<>> = [g \in {} |-> database[g]]  OBVIOUS
  <2> QED  BY <2>1, <2>2, <2>3 DEF Init, CopiesCurrent
<1> QED  BY <1>3, <1>4, <1>5 DEF GuardInv, Init

LEMMA StepGuarded == GuardInv /\ [Next]_vars => GuardInv'
<1> SUFFICES ASSUME GuardInv, [Next]_vars PROVE GuardInv'
  OBVIOUS
<1> USE DEF GuardInv
<1>1. CASE ReadCommand
  <2>1. PICK g \in Group, p \in Point : command' = [group |-> g, point |-> p]
    BY <1>1 DEF ReadCommand
  <2>2. TypeOK'  BY <1>1 DEF ReadCommand, TypeOK, taskVars
  <2>3. CopiesCurrent'  BY <1>1 DEF ReadCommand, CopiesCurrent, Readers, taskVars
  <2> QED  BY <1>1, <2>1, <2>2, <2>3 DEF ReadCommand
<1>2. CASE SetPoint
  <2> DEFINE g == command.group
             p == command.point
             new == Upsert(database[g], p)
  <2>1. g \in Group /\ p \in Point  BY <1>2 DEF SetPoint
  <2>2. new \in Seq(Point) /\ new # <<>>
    BY <2>1, UpsertLists, PointIsPointOf
  <2>3. database' = [database EXCEPT ![g] = new]  BY <1>2 DEF SetPoint
  <2> HIDE DEF g, p, new
  <2>4. database' \in [Group -> Seq(Point)] /\ \A h \in Group : database'[h] # <<>>
    BY <2>1, <2>2, <2>3 DEF TypeOK
  <2>5. TypeOK'  BY <1>2, <2>4 DEF SetPoint, TypeOK, taskVars
  <2>6. CopiesCurrent'
    <3>1. Readers = {} /\ Readers' = {}  BY <1>2 DEF SetPoint, Readers, taskVars
    <3>2. \A t \in Tasks : copied'[t] = <<>>
      BY <1>2, <3>1 DEF SetPoint, CopiesCurrent, taskVars
    <3>3. copied' = [t \in Tasks |-> copied'[t]]
      BY <1>2 DEF SetPoint, CopiesCurrent, taskVars
    <3>4. <<>> = [h \in DOMAIN <<>> |-> database'[h]] /\ DOMAIN <<>> = {}  OBVIOUS
    <3> QED  BY <3>1, <3>2, <3>3, <3>4 DEF CopiesCurrent
  <2> QED  BY <1>2, <2>4, <2>5, <2>6 DEF SetPoint
<1>3. CASE Confirm
  <2>1. TypeOK'  BY <1>3 DEF Confirm, TypeOK, taskVars
  <2>2. CopiesCurrent'  BY <1>3 DEF Confirm, CopiesCurrent, Readers, taskVars
  <2> QED  BY <1>3, <2>1, <2>2 DEF Confirm
<1>4. CASE PrintPanics
  <2>1. TypeOK'  BY <1>4 DEF PrintPanics, TypeOK, taskVars
  <2>2. CopiesCurrent'  BY <1>4 DEF PrintPanics, CopiesCurrent, Readers, taskVars
  <2> QED  BY <1>4, <2>1, <2>2 DEF PrintPanics
<1>5. ASSUME NEW t \in Tasks, BeginAnswer(t)
      PROVE  GuardInv'
  <2>1. TypeOK'  BY <1>5 DEF BeginAnswer, TakeReadGuard, TypeOK
  <2>2. CopiesCurrent'
    <3>1. cli' # "printing"  BY <1>5 DEF BeginAnswer
    <3>2. poisoned' => Readers' = {}
      <4> SUFFICES ASSUME poisoned' PROVE Readers' = {}
        OBVIOUS
      <4>1. poisoned /\ task' = [task EXCEPT ![t] = "panicked"]
        BY <1>5 DEF BeginAnswer, TakeReadGuard
      <4>2. Readers = {}  BY <4>1 DEF CopiesCurrent
      <4> QED  BY <4>1, <4>2 DEF Readers, TypeOK
    <3>3. ASSUME NEW u \in Tasks, copied'[u] # <<>>
          PROVE  u \in Readers'
      <4>1. u \in Readers  BY <1>5, <3>3 DEF BeginAnswer, CopiesCurrent
      <4>2. u # t  BY <1>5, <4>1 DEF BeginAnswer, Readers
      <4>3. task'[u] = task[u]
        BY <1>5, <4>2 DEF BeginAnswer, TakeReadGuard, TypeOK
      <4> QED  BY <4>1, <4>3 DEF Readers
    <3> QED  BY <1>5, <3>1, <3>2, <3>3 DEF BeginAnswer, CopiesCurrent
  <2> QED  BY <1>5, <2>1, <2>2 DEF BeginAnswer
<1>6. ASSUME NEW t \in Tasks, CopyVector(t)
      PROVE  GuardInv'
  <2>1. TypeOK'  BY <1>6 DEF CopyVector, TypeOK
  <2>2. CopiesCurrent'
    <3>1. PICK g \in Group \ DOMAIN copied[t] :
             copied' = [copied EXCEPT ![t] =
                           [h \in DOMAIN @ \cup {g} |->
                               IF h = g THEN database[g] ELSE @[h]]]
      BY <1>6 DEF CopyVector
    <3> DEFINE more == [h \in DOMAIN copied[t] \cup {g} |->
                           IF h = g THEN database[g] ELSE copied[t][h]]
    <3>2. copied' = [copied EXCEPT ![t] = more]  BY <3>1
    <3>3. DOMAIN copied = Tasks  BY DEF CopiesCurrent
    <3>4. copied'[t] = more /\ \A u \in Tasks : u # t => copied'[u] = copied[u]
      BY <3>2, <3>3
    <3>5. /\ DOMAIN more \subseteq Group
          /\ more = [h \in DOMAIN more |-> database[h]]
      <4>1. \A h \in DOMAIN copied[t] : copied[t][h] = database[h]
        BY DEF CopiesCurrent
      <4> QED  BY <4>1 DEF CopiesCurrent
    <3>6. copied' = [u \in Tasks |-> copied'[u]]
      <4> HIDE DEF more
      <4> QED  BY <3>2, <3>3
    <3> HIDE DEF more
    <3>7. /\ database' = database /\ cli' = cli /\ poisoned' = poisoned
          /\ Readers' = Readers /\ t \in Readers
      BY <1>6 DEF CopyVector, Readers
    <3> QED  BY <3>4, <3>5, <3>6, <3>7 DEF CopiesCurrent
  <2> QED  BY <1>6, <2>1, <2>2 DEF CopyVector
<1>7. ASSUME NEW t \in Tasks, EndAnswer(t)
      PROVE  GuardInv'
  <2>1. TypeOK'  BY <1>7 DEF EndAnswer, DropReadGuard, TypeOK
  <2>2. CopiesCurrent'
    <3>1. DOMAIN copied = Tasks  BY DEF CopiesCurrent
    <3>2. copied' = [copied EXCEPT ![t] = <<>>]  BY <1>7 DEF EndAnswer
    <3>3. copied'[t] = <<>> /\ \A u \in Tasks : u # t => copied'[u] = copied[u]
      BY <3>1, <3>2
    <3>4. copied' = [u \in Tasks |-> copied'[u]]  BY <3>1, <3>2
    <3>5. Readers' = Readers \ {t}
      BY <1>7 DEF EndAnswer, DropReadGuard, Readers, TypeOK
    <3>6. database' = database /\ cli' = cli /\ poisoned' = poisoned
      BY <1>7 DEF EndAnswer
    <3>7. <<>> = [h \in DOMAIN <<>> |-> database'[h]] /\ DOMAIN <<>> = {}  OBVIOUS
    <3>8. ASSUME NEW u \in Tasks
          PROVE  /\ DOMAIN copied'[u] \subseteq Group
                 /\ copied'[u] = [g \in DOMAIN copied'[u] |-> database'[g]]
                 /\ copied'[u] # <<>> => u \in Readers'
      <4>1. CASE u = t  BY <4>1, <3>3, <3>7
      <4>2. CASE u # t  BY <4>2, <3>3, <3>5, <3>6 DEF CopiesCurrent
      <4> QED  BY <4>1, <4>2
    <3>9. cli' = "printing" \/ poisoned' => Readers' = {}
      BY <3>5, <3>6 DEF CopiesCurrent
    <3> QED  BY <3>4, <3>8, <3>9 DEF CopiesCurrent
  <2> QED  BY <1>7, <2>1, <2>2 DEF EndAnswer
<1>8. CASE UNCHANGED vars
  BY <1>8 DEF vars, taskVars, TypeOK, CopiesCurrent, Readers
<1> QED  BY <1>1, <1>2, <1>3, <1>4, <1>5, <1>6, <1>7, <1>8 DEF Next, TaskStep

(* The inductive invariant of the lock, for every command line.             *)
THEOREM Guarded == Spec => []GuardInv
BY StartsGuarded, StepGuarded, PTL DEF Spec

THEOREM TypeCorrectness == Spec => []TypeOK
<1>1. GuardInv => TypeOK  BY DEF GuardInv
<1> QED  BY <1>1, Guarded, PTL

(* Only the end of an answer empties what was copied for it.                *)
LEMMA AnswersEnd ==
  ASSUME GuardInv, [Next]_vars, NEW t \in Tasks, Answers(t)
  PROVE  EndAnswer(t)
<1>1. DOMAIN copied = Tasks /\ copied[t] # <<>> /\ copied'[t] = <<>>
  BY DEF GuardInv, CopiesCurrent, Answers
<1>2. copied' # copied  BY <1>1
<1>3. PICK u \in Tasks : CopyVector(u) \/ EndAnswer(u)
  BY <1>2 DEF Next, ReadCommand, SetPoint, Confirm, PrintPanics, TaskStep,
              BeginAnswer, vars, taskVars
<1>4. u = t
  <2> SUFFICES ASSUME u # t PROVE FALSE
    OBVIOUS
  <2>1. copied'[t] = copied[t]
    BY <1>1, <1>3 DEF CopyVector, EndAnswer
  <2> QED  BY <1>1, <2>1
<1>5. ~ CopyVector(t)
  <2> SUFFICES ASSUME CopyVector(t) PROVE FALSE
    OBVIOUS
  <2>1. PICK g \in Group \ DOMAIN copied[t] :
           copied' = [copied EXCEPT ![t] =
                         [h \in DOMAIN @ \cup {g} |->
                             IF h = g THEN database[g] ELSE @[h]]]
    BY DEF CopyVector
  <2>2. g \in DOMAIN copied'[t]  BY <1>1, <2>1
  <2> QED  BY <1>1, <2>2
<1> QED  BY <1>3, <1>4, <1>5

(* OutstationSession::integrity_objects copies vector after vector; the     *)
(* read guard of examples/common makes of them one version of the database. *)
LEMMA WholeCopy ==
  ASSUME GuardInv, [Next]_vars, NEW t \in Tasks, Answers(t)
  PROVE  copied[t] = database
<1>1. DOMAIN copied[t] = Group  BY AnswersEnd DEF EndAnswer
<1>2. copied[t] = [g \in Group |-> database[g]]
  BY <1>1 DEF GuardInv, CopiesCurrent
<1>3. database \in [Group -> Seq(Point)]  BY DEF GuardInv
<1> QED  BY <1>2, <1>3

THEOREM Snapshot == Spec => AnswerIsSnapshot
<1>1. GuardInv /\ [Next]_vars =>
         [\A t \in Tasks : Answers(t) => copied[t] = database]_vars
  BY WholeCopy
<1> QED  BY <1>1, Guarded, PTL DEF Spec, AnswerIsSnapshot

-----------------------------------------------------------------------------
(* Lists without an index twice.                                            *)
LEMMA DistinctFits ==
  ASSUME NEW D, NEW list \in Seq(PointOf(D)), Distinct(list)
  PROVE  Len(list) <= IndexSpace
<1> DEFINE n == Len(list)
           f == [i \in 1 .. n |-> list[i].index]
<1>1. n \in Nat /\ DOMAIN list = 1 .. n /\ \A i \in 1 .. n : list[i].index \in Index
  BY ListOfPoints
<1>2. f \in Injection(1 .. n, Index)
  <2>1. f \in [1 .. n -> Index]  BY <1>1
  <2>2. \A i, j \in 1 .. n : f[i] = f[j] => i = j  BY <1>1 DEF Distinct
  <2> QED  BY <2>1, <2>2 DEF Injection, IsInjective
<1>3. IsFiniteSet(Index) /\ Cardinality(Index) = IndexSpace
  <2>1. IndexSpace - 1 \in Int /\ ~ (0 > IndexSpace - 1)  OBVIOUS
  <2> QED  BY <2>1, FS_Interval DEF Index
<1>4. Cardinality(1 .. n) = n
  <2>1. 1 \in Int /\ n \in Int /\ n >= 0  BY <1>1
  <2> HIDE DEF n
  <2>2. Cardinality(1 .. n) = IF 1 > n THEN 0 ELSE n - 1 + 1  BY <2>1, FS_Interval
  <2> QED  BY <2>1, <2>2
<1> QED  BY <1>2, <1>3, <1>4, FS_Injection

LEMMA RangeOfList ==
  ASSUME NEW D, NEW list \in Seq(PointOf(D))
  PROVE  /\ Range(list) = {list[i] : i \in 1 .. Len(list)}
         /\ Range(list) \subseteq PointOf(D)
<1>1. DOMAIN list = 1 .. Len(list)  BY ListOfPoints
<1>2. \A i \in 1 .. Len(list) : list[i] \in PointOf(D)  OBVIOUS
<1> QED  BY <1>1, <1>2 DEF Range

LEMMA DistinctUpsert ==
  ASSUME NEW D, NEW list \in Seq(PointOf(D)), NEW p \in PointOf(D), Distinct(list)
  PROVE  Distinct(Upsert(list, p))
<1> DEFINE n == Len(list)
<1>1. n \in Nat /\ DOMAIN list = 1 .. n  BY ListOfPoints
<1>2. CASE /\ \A i \in 1 .. n : list[i].index # p.index
           /\ Upsert(list, p) = Append(list, p)
  <2> DEFINE new == Append(list, p)
  <2>1. /\ DOMAIN new = 1 .. n + 1 /\ new[n + 1] = p
        /\ \A i \in 1 .. n : new[i] = list[i]
    BY <1>1, AppendProperties
  <2> HIDE DEF new
  <2>2. ASSUME NEW i \in 1 .. n + 1, NEW j \in 1 .. n + 1, new[i].index = new[j].index
        PROVE  i = j
    <3>1. CASE i \in 1 .. n /\ j \in 1 .. n
      BY <3>1, <2>1, <2>2, <1>1 DEF Distinct
    <3>2. CASE i = n + 1 /\ j \in 1 .. n  BY <3>2, <2>1, <2>2, <1>2
    <3>3. CASE i \in 1 .. n /\ j = n + 1  BY <3>3, <2>1, <2>2, <1>2
    <3> QED  BY <3>1, <3>2, <3>3, <1>1
  <2>3. Distinct(new)  BY <2>1, <2>2 DEF Distinct
  <2> QED  BY <1>2, <2>3 DEF new
<1>3. ASSUME NEW k \in 1 .. n, list[k].index = p.index,
             Upsert(list, p) = [list EXCEPT ![k] = p]
      PROVE  Distinct(Upsert(list, p))
  <2> DEFINE new == [list EXCEPT ![k] = p]
  <2>1. DOMAIN new = 1 .. n /\ \A i \in 1 .. n : new[i].index = list[i].index
    BY <1>1, <1>3
  <2> HIDE DEF new
  <2>2. Distinct(new)  BY <2>1, <1>1 DEF Distinct
  <2> QED  BY <1>3, <2>2 DEF new
<1> QED  BY <1>2, <1>3, UpsertCases

(* Every point known once its index and datum are.                          *)
LEMMA LearnedPoints ==
  ASSUME NEW known, NEW p
  PROVE  PointsKnown(Learned(known, p)) =
            {q \in PointsKnown(known) : q.index # p.index}
               \cup {[index |-> p.index, datum |-> p.datum]}
<1> DEFINE new == Learned(known, p)
           left == {q \in PointsKnown(known) : q.index # p.index}
           last == [index |-> p.index, datum |-> p.datum]
<1>1. /\ DOMAIN new = DOMAIN known \cup {p.index}
      /\ new[p.index] = p.datum
      /\ \A i \in DOMAIN known : i # p.index => new[i] = known[i]
  BY DEF Learned
<1> HIDE DEF new
<1>2. PointsKnown(new) \subseteq left \cup {last}
  <2> HIDE DEF left, last
  <2> SUFFICES ASSUME NEW i \in DOMAIN new
               PROVE  [index |-> i, datum |-> new[i]] \in left \cup {last}
    BY DEF PointsKnown
  <2> USE DEF left, last
  <2>1. CASE i = p.index  BY <2>1, <1>1
  <2>2. CASE i # p.index
    <3>1. i \in DOMAIN known /\ new[i] = known[i]  BY <2>2, <1>1
    <3>2. [index |-> i, datum |-> known[i]] \in PointsKnown(known)
      BY <3>1 DEF PointsKnown
    <3> QED  BY <2>2, <3>1, <3>2
  <2> QED  BY <2>1, <2>2
<1>3. left \subseteq PointsKnown(new)
  <2> SUFFICES ASSUME NEW q \in left PROVE q \in PointsKnown(new)
    OBVIOUS
  <2>1. PICK i \in DOMAIN known : q = [index |-> i, datum |-> known[i]]
    BY DEF PointsKnown
  <2>2. i \in DOMAIN new /\ new[i] = known[i]  BY <2>1, <1>1
  <2> QED  BY <2>1, <2>2 DEF PointsKnown
<1>4. last \in PointsKnown(new)
  <2>1. p.index \in DOMAIN new  BY <1>1
  <2> QED  BY <2>1, <1>1 DEF PointsKnown
<1> QED  BY <1>2, <1>3, <1>4 DEF new

LEMMA RangeUpsert ==
  ASSUME NEW D, NEW list \in Seq(PointOf(D)), NEW p \in PointOf(D), Distinct(list),
         NEW known, Range(list) = PointsKnown(known)
  PROVE  Range(Upsert(list, p)) = PointsKnown(Learned(known, p))
<1> DEFINE n == Len(list)
           others == {q \in Range(list) : q.index # p.index}
<1>1. /\ n \in Nat /\ DOMAIN list = 1 .. n
      /\ Range(list) = {list[i] : i \in 1 .. n}
  BY ListOfPoints, RangeOfList
<1>2. p = [index |-> p.index, datum |-> p.datum]  BY DEF PointOf
<1>3. PointsKnown(Learned(known, p)) = others \cup {p}
  BY <1>2, LearnedPoints
<1>4. CASE /\ \A i \in 1 .. n : list[i].index # p.index
           /\ Upsert(list, p) = Append(list, p)
  <2> DEFINE new == Append(list, p)
  <2>1. /\ DOMAIN new = 1 .. n + 1 /\ new[n + 1] = p
        /\ \A i \in 1 .. n : new[i] = list[i]
    BY <1>1, AppendProperties
  <2> HIDE DEF new
  <2>2. Range(new) = Range(list) \cup {p}
    <3>1. 1 .. n + 1 = (1 .. n) \cup {n + 1}  BY <1>1
    <3> QED  BY <1>1, <2>1, <3>1 DEF Range
  <2>3. others = Range(list)  BY <1>1, <1>4
  <2> QED  BY <1>3, <1>4, <2>2, <2>3 DEF new
<1>5. ASSUME NEW k \in 1 .. n, list[k].index = p.index,
             Upsert(list, p) = [list EXCEPT ![k] = p]
      PROVE  Range(Upsert(list, p)) = others \cup {p}
  <2> DEFINE new == [list EXCEPT ![k] = p]
  <2>1. /\ DOMAIN new = 1 .. n /\ new[k] = p
        /\ \A i \in 1 .. n : i # k => new[i] = list[i]
    BY <1>1, <1>5
  <2> HIDE DEF new
  <2>2. \A i \in 1 .. n : i # k <=> list[i].index # p.index
    BY <1>1, <1>5 DEF Distinct
  <2>3. others = {list[i] : i \in (1 .. n) \ {k}}
    BY <1>1, <2>2
  <2>4. Range(new) = {list[i] : i \in (1 .. n) \ {k}} \cup {p}
    BY <2>1 DEF Range
  <2> QED  BY <1>5, <2>3, <2>4 DEF new
<1> QED  BY <1>3, <1>4, <1>5, UpsertCases

LEMMA KnownAtFirst ==
  ASSUME NEW D, NEW list \in Seq(PointOf(D)), Distinct(list)
  PROVE  Range(list) = PointsKnown(DatumOf(list))
<1> DEFINE n == Len(list)
           known == DatumOf(list)
           I == {p.index : p \in Range(list)}
<1>1. /\ n \in Nat /\ DOMAIN list = 1 .. n
      /\ Range(list) = {list[i] : i \in 1 .. n}
      /\ Range(list) \subseteq PointOf(D)
  BY ListOfPoints, RangeOfList
<1>2. \A p, q \in Range(list) : p.index = q.index => p = q
  BY <1>1 DEF Distinct
<1>3. DOMAIN known = I  BY DEF DatumOf
<1>4. ASSUME NEW p \in Range(list)
      PROVE  known[p.index] = p.datum
  <2>1. p.index \in I  OBVIOUS
  <2>2. known[p.index] = (CHOOSE q \in Range(list) : q.index = p.index).datum
    BY <2>1 DEF DatumOf
  <2>3. (CHOOSE q \in Range(list) : q.index = p.index) = p
    BY <1>2
  <2> QED  BY <2>2, <2>3
<1>5. ASSUME NEW p \in Range(list)
      PROVE  p = [index |-> p.index, datum |-> known[p.index]]
  <2>1. p \in PointOf(D)  BY <1>1
  <2>2. p = [index |-> p.index, datum |-> p.datum]  BY <2>1 DEF PointOf
  <2> QED  BY <2>2, <1>4
<1> HIDE DEF known
<1>6. PointsKnown(known) = {[index |-> i, datum |-> known[i]] : i \in I}
  BY <1>3 DEF PointsKnown
<1>7. Range(list) \subseteq PointsKnown(known)
  <2> SUFFICES ASSUME NEW p \in Range(list)
               PROVE  p \in {[index |-> i, datum |-> known[i]] : i \in I}
    BY <1>6
  <2>1. p.index \in I  OBVIOUS
  <2> QED  BY <2>1, <1>5
<1>8. PointsKnown(known) \subseteq Range(list)
  <2> SUFFICES ASSUME NEW i \in I
               PROVE  [index |-> i, datum |-> known[i]] \in Range(list)
    BY <1>6
  <2>1. PICK p \in Range(list) : i = p.index  OBVIOUS
  <2> QED  BY <2>1, <1>5
<1> QED  BY <1>7, <1>8 DEF known

(* Every option of a command line names another point: MCCommandLines.      *)
EveryOptionOnce ==
    \A options \in CommandLines : \A g \in Group : Distinct(options[g])

LEMMA StartsKnown == EveryOptionOnce /\ Init => KnowsDatabase
<1> SUFFICES ASSUME EveryOptionOnce, Init PROVE KnowsDatabase
  OBVIOUS
<1>1. PICK options \in CommandLines : database = [g \in Group |-> PointsOf(options[g])]
  BY DEF Init
<1>2. ASSUME NEW g \in Group
      PROVE  Distinct(database[g])
  <2>1. Distinct(options[g])  BY DEF EveryOptionOnce
  <2>2. Distinct(<<[index |-> 0, datum |-> DefaultDatum]>>)  BY DEF Distinct
  <2> QED  BY <1>1, <2>1, <2>2 DEF PointsOf
<1>3. ASSUME NEW g \in Group
      PROVE  Range(database[g]) = PointsKnown(expected[g])
  <2>1. database[g] \in Seq(PointOf(Datum))
    BY StartsGuarded, PointIsPointOf DEF GuardInv
  <2>2. expected[g] = DatumOf(database[g])  BY DEF Init
  <2> QED  BY <1>2, <2>1, <2>2, KnownAtFirst
<1>4. \A g \in Group : WillKnow(g) = expected[g]  BY DEF Init, WillKnow
<1>5. expected = [g \in Group |-> expected[g]]  BY DEF Init
<1> QED  BY <1>2, <1>3, <1>4, <1>5 DEF KnowsDatabase

LEMMA StepKnown == IInv /\ [Next]_vars => KnowsDatabase'
<1> SUFFICES ASSUME GuardInv, KnowsDatabase, [Next]_vars PROVE KnowsDatabase'
  BY DEF IInv
<1>1. CASE ReadCommand
  <2>1. \A g \in Group : WillKnow(g)' = WillKnow(g)
    BY <1>1 DEF ReadCommand, WillKnow
  <2> QED  BY <1>1, <2>1 DEF ReadCommand, KnowsDatabase
<1>2. CASE SetPoint
  <2> DEFINE g == command.group
             p == command.point
             new == Upsert(database[g], p)
  <2>1. /\ g \in Group /\ p \in PointOf(Datum) /\ g' = g /\ p' = p
        /\ database[g] \in Seq(PointOf(Datum)) /\ Distinct(database[g])
        /\ cli # "printing" /\ cli' = "printing"
        /\ expected' = expected /\ poisoned' = poisoned
    BY <1>2, PointIsPointOf DEF SetPoint, GuardInv, KnowsDatabase
  <2>2. database'[g] = new /\ \A h \in Group : h # g => database'[h] = database[h]
    BY <1>2, <2>1 DEF SetPoint, GuardInv
  <2>3. Distinct(new)  BY <2>1, DistinctUpsert
  <2>4. /\ WillKnow(g) = expected[g] /\ WillKnow(g)' = Learned(expected[g], p)
        /\ \A h \in Group : h # g => WillKnow(h)' = WillKnow(h)
    BY <2>1 DEF WillKnow
  <2>5. ~ poisoned => Range(new) = PointsKnown(Learned(expected[g], p))
    BY <2>1, <2>4, RangeUpsert DEF KnowsDatabase
  <2> HIDE DEF g, p, new
  <2>6. ASSUME NEW h \in Group
        PROVE  /\ Distinct(database'[h])
               /\ ~ poisoned' => Range(database'[h]) = PointsKnown(WillKnow(h)')
    <3>1. CASE h = g  BY <3>1, <2>1, <2>2, <2>3, <2>4, <2>5
    <3>2. CASE h # g  BY <3>2, <2>1, <2>2, <2>4 DEF KnowsDatabase
    <3> QED  BY <3>1, <3>2
  <2> QED  BY <2>1, <2>6 DEF KnowsDatabase
<1>3. CASE Confirm
  <2> DEFINE g == command.group
             p == command.point
  <2>1. /\ g \in Group /\ cli = "printing" /\ cli' = "reading"
        /\ expected' = [expected EXCEPT ![g] = Learned(expected[g], p)]
        /\ database' = database /\ poisoned' = poisoned
        /\ DOMAIN expected = Group
    BY <1>3 DEF Confirm, GuardInv, KnowsDatabase
  <2>2. \A h \in Group : WillKnow(h)' = WillKnow(h)
    BY <2>1 DEF WillKnow
  <2> HIDE DEF g, p
  <2>3. expected' = [h \in Group |-> expected'[h]]
    BY <2>1
  <2> QED  BY <2>1, <2>2, <2>3 DEF KnowsDatabase
<1>4. CASE PrintPanics
  BY <1>4 DEF PrintPanics, KnowsDatabase
<1>5. ASSUME NEW t \in Tasks, TaskStep(t)
      PROVE  KnowsDatabase'
  <2>1. UNCHANGED <<database, cli, command, poisoned, expected>>
    BY <1>5 DEF TaskStep, BeginAnswer, CopyVector, EndAnswer
  <2> QED  BY <2>1 DEF KnowsDatabase, WillKnow
<1>6. CASE UNCHANGED vars
  BY <1>6 DEF vars, KnowsDatabase, WillKnow
<1> QED  BY <1>1, <1>2, <1>3, <1>4, <1>5, <1>6 DEF Next

(* What the operator was told is in the database, and nothing else.         *)
THEOREM Invariance ==
  ASSUME EveryOptionOnce
  PROVE  Spec => []IInv
<1>1. Init => IInv  BY StartsGuarded, StartsKnown DEF IInv
<1>2. IInv /\ [Next]_vars => IInv'  BY StepGuarded, StepKnown DEF IInv
<1> QED  BY <1>1, <1>2, PTL DEF Spec

-----------------------------------------------------------------------------
LEMMA EncodesOne ==
  ASSUME NEW list, Encode(list) # <<>>
  PROVE  1 \in DOMAIN Encode(list)
<1>1. ASSUME NEW object
      PROVE  1 \in DOMAIN <<object>>
  OBVIOUS
<1>2. PICK object : Encode(list) = <<object>>  BY DEF Encode
<1> QED  BY <1>1, <1>2

(* A list a master reads is the list that was encoded.                      *)
LEMMA ShownAsTheyAre ==
  ASSUME NEW vectors \in [Group -> Seq(Point)], NEW lists \in Shown(vectors),
         \A g \in Group : vectors[g] # <<>> /\ Distinct(vectors[g])
  PROVE  DOMAIN lists = Group /\ \A g \in Group : lists[g] = vectors[g]
<1> DEFINE objects == IntegrityObjects(vectors)
<1>1. objects = [g \in Group |-> Encode(vectors[g])]
  <2>1. {g \in DOMAIN vectors : vectors[g] # <<>>} = Group  OBVIOUS
  <2> QED  BY <2>1 DEF IntegrityObjects
<1> HIDE DEF objects
<1>2. /\ lists = [g \in Group |-> DecodedObject(g, objects[g][1])[1]]
      /\ \A g \in Group : objects[g] # <<>> /\ DecodedObject(g, objects[g][1]) # <<>>
  BY <1>1 DEF Shown, objects
<1>3. ASSUME NEW g \in Group
      PROVE  lists[g] = vectors[g]
  <2> DEFINE list == vectors[g]
             kind == IF g \in BinaryGroup THEN "binary" ELSE "measured"
  <2>1. list \in Seq(PointOf(Datum)) /\ Len(list) <= IndexSpace
    BY PointIsPointOf, DistinctFits
  <2>2. 1 \in DOMAIN Encode(list)
    <3>1. Encode(list) # <<>>  BY <1>1, <1>2
    <3> HIDE DEF list
    <3> QED  BY <3>1, EncodesOne
  <2> HIDE DEF list, kind
  <2>3. Decode(kind, Encode(list)[1].qualifier, Encode(list)[1].body) =
           IF WrapsAround(list) THEN <<>> ELSE <<list>>
    BY <2>1, <2>2, EncodeDecode
  <2>4. DecodedObject(g, objects[g][1]) = IF WrapsAround(list) THEN <<>> ELSE <<list>>
    BY <1>1, <2>3 DEF DecodedObject, list, kind
  <2>5. DecodedObject(g, objects[g][1]) = <<list>>  BY <1>2, <2>4
  <2> QED  BY <1>2, <2>5 DEF list
<1> QED  BY <1>2, <1>3

(* Through lock, codec and threads: what a master gets is what the operator *)
(* was told, when no option of the command line names an index twice.       *)
THEOREM ShowsTheConfirmed ==
  ASSUME EveryOptionOnce
  PROVE  Spec => ShowsWhatWasConfirmed
<1>1. ASSUME IInv, [Next]_vars, NEW t \in Tasks, Answers(t),
             NEW lists \in Shown(copied[t])
      PROVE  /\ DOMAIN lists = Group
             /\ \A g \in Group : Range(lists[g]) = PointsKnown(expected[g])
  <2>1. copied[t] = database  BY <1>1, WholeCopy DEF IInv
  <2>2. EndAnswer(t)  BY <1>1, AnswersEnd DEF IInv
  <2>3. cli # "printing" /\ ~ poisoned
    BY <1>1, <2>2 DEF IInv, GuardInv, CopiesCurrent, EndAnswer, Readers
  <2>4. \A g \in Group : Range(database[g]) = PointsKnown(expected[g])
    BY <1>1, <2>3 DEF IInv, KnowsDatabase, WillKnow
  <2>5. DOMAIN lists = Group /\ \A g \in Group : lists[g] = database[g]
    BY <1>1, <2>1, ShownAsTheyAre DEF IInv, GuardInv, KnowsDatabase, TypeOK
  <2> QED  BY <2>4, <2>5
<1> DEFINE Ends == \A t \in Tasks : Answers(t) =>
                      \A lists \in Shown(copied[t]) :
                         /\ DOMAIN lists = Group
                         /\ \A g \in Group :
                               Range(lists[g]) = PointsKnown(expected[g])
<1>2. IInv /\ [Next]_vars => [Ends]_vars  BY <1>1
<1> QED  BY <1>2, Invariance, PTL DEF Spec, ShowsWhatWasConfirmed

-----------------------------------------------------------------------------
(* A list that reaches the other side: it fits an object, and its indices   *)
(* do not wrap.  Nothing but its indices decides.                           *)
Speaks(list) == Encode(list) # <<>> /\ ~ WrapsAround(list)

LEMMA DecodeRange16 ==
  ASSUME NEW sort, NEW start, NEW stop, NEW body
  PROVE  Decode(sort, Range16(start, stop), body) =
            IF stop < start THEN <<>>
            ELSE ReadImplied(IndicesFrom(start, RangeLength(start, stop), IndexSpace),
                             body)
BY DEF Decode, Range16

LEMMA SilentWhenItWraps ==
  ASSUME NEW D, NEW list \in Seq(PointOf(D)), Encode(list) # <<>>, NEW kind
  PROVE  Decode(kind, Encode(list)[1].qualifier, Encode(list)[1].body) = <<>>
            <=> WrapsAround(list)
<1> DEFINE n == Len(list)
           start == list[1].index
           stop == list[n].index
           plain == [j \in DOMAIN list |-> list[j].datum]
<1>0. n \in Nat /\ DOMAIN list = 1 .. n  BY ListOfPoints
<1>1. CASE Contiguous(list)
  <2>1. Encode(list) = <<[qualifier |-> Range16(start, stop), body |-> plain]>>
    BY <1>1 DEF Encode, Range16
  <2>2. n > 0 /\ 1 \in 1 .. n /\ n \in 1 .. n  BY <1>0, <1>1 DEF Contiguous
  <2>3. start \in Nat /\ stop \in Nat  BY <2>2, ListOfPoints DEF Index
  <2>4. stop = (start + (n - 1)) % IndexSpace
    BY <1>0, <1>1, <2>2 DEF Contiguous
  <2>5. stop <= start + (n - 1)
    <3> HIDE DEF n, start, stop, plain
    <3>1. start + (n - 1) \in Nat  BY <1>0, <2>2, <2>3
    <3>2. IndexSpace \in Nat /\ IndexSpace > 0  OBVIOUS
    <3> QED  BY <2>4, <3>1, <3>2, App!ModAtMost
  <2>6. Len(plain) = n  BY <1>0
  <2>7. WrapsAround(list) <=> stop < start  BY <1>1 DEF WrapsAround
  <2> HIDE DEF n, start, stop, plain
  <2>8. Decode(kind, Encode(list)[1].qualifier, Encode(list)[1].body) =
           IF stop < start THEN <<>>
           ELSE ReadImplied(IndicesFrom(start, RangeLength(start, stop), IndexSpace),
                            plain)
    BY <2>1, DecodeRange16
  <2>9. ASSUME ~ (stop < start)
        PROVE  ReadImplied(IndicesFrom(start, RangeLength(start, stop), IndexSpace),
                           plain) # <<>>
    <3> DEFINE count == RangeLength(start, stop)
               indices == IndicesFrom(start, count, IndexSpace)
    <3>1. count \in Nat /\ count <= n
      BY <1>0, <2>2, <2>3, <2>5, <2>9 DEF RangeLength
    <3> HIDE DEF count
    <3>2. Len(indices) = count  BY <3>1 DEF IndicesFrom
    <3>3. ~ (Len(plain) < Len(indices))  BY <1>0, <2>6, <3>1, <3>2
    <3> HIDE DEF indices
    <3> QED  BY <3>3 DEF ReadImplied, indices, count
  <2> QED  BY <2>7, <2>8, <2>9
<1>2. CASE ~ Contiguous(list)
  <2>1. n < ByteSpace  BY <1>2 DEF Encode
  <2>2. n <= IndexSpace  BY <1>0, <2>1
  <2>3. 1 \in DOMAIN Encode(list)  BY EncodesOne
  <2>4. ~ WrapsAround(list)  BY <1>2 DEF WrapsAround
  <2>5. Decode(kind, Encode(list)[1].qualifier, Encode(list)[1].body) = <<list>>
    BY <2>2, <2>3, <2>4, EncodeDecode
  <2> QED  BY <2>4, <2>5
<1> QED  BY <1>1, <1>2

LEMMA ShownIfAllSpeak ==
  ASSUME NEW vectors \in [Group -> Seq(Point)], \A g \in Group : vectors[g] # <<>>
  PROVE  Shown(vectors) # {} <=> \A g \in Group : Speaks(vectors[g])
<1> DEFINE objects == IntegrityObjects(vectors)
           Silent(g) == objects[g] = <<>> \/ DecodedObject(g, objects[g][1]) = <<>>
<1>1. objects = [g \in Group |-> Encode(vectors[g])]
  <2>1. {g \in DOMAIN vectors : vectors[g] # <<>>} = Group  OBVIOUS
  <2> QED  BY <2>1 DEF IntegrityObjects
<1>2. Shown(vectors) # {} <=> ~ \E g \in DOMAIN objects : Silent(g)
  BY DEF Shown
<1>3. ASSUME NEW g \in Group
      PROVE  Silent(g) <=> ~ Speaks(vectors[g])
  <2> DEFINE list == vectors[g]
             kind == IF g \in BinaryGroup THEN "binary" ELSE "measured"
  <2>1. list \in Seq(PointOf(Datum))  BY PointIsPointOf
  <2>2. objects[g] = Encode(list)  BY <1>1
  <2>3. DecodedObject(g, objects[g][1]) =
           Decode(kind, Encode(list)[1].qualifier, Encode(list)[1].body)
    BY <2>2 DEF DecodedObject
  <2> HIDE DEF list, kind, objects
  <2>4. Encode(list) # <<>> =>
           (DecodedObject(g, objects[g][1]) = <<>> <=> WrapsAround(list))
    BY <2>1, <2>3, SilentWhenItWraps
  <2>5. Silent(g) <=> ~ Speaks(list)  BY <2>2, <2>4 DEF Speaks
  <2> QED  BY <2>5 DEF list
<1>4. DOMAIN objects = Group  BY <1>1
<1> HIDE DEF Silent, objects
<1> QED  BY <1>2, <1>3, <1>4

LEMMA IndicesDecide ==
  ASSUME NEW D, NEW list \in Seq(PointOf(D)), NEW new \in Seq(PointOf(D)),
         Len(new) = Len(list),
         \A i \in 1 .. Len(list) : new[i].index = list[i].index,
         Speaks(list)
  PROVE  Speaks(new)
<1> DEFINE n == Len(list)
<1>1. n \in Nat /\ DOMAIN list = 1 .. n /\ DOMAIN new = 1 .. n
  BY ListOfPoints
<1>2. list # <<>> <=> new # <<>>  BY <1>1
<1>3. Contiguous(list) <=> Contiguous(new)
  BY <1>1, <1>2 DEF Contiguous
<1>4. WrapsAround(list) <=> WrapsAround(new)
  <2>1. ASSUME Contiguous(list)
        PROVE  1 \in 1 .. n /\ n \in 1 .. n
    BY <1>1, <2>1 DEF Contiguous
  <2> QED  BY <1>1, <1>3, <2>1 DEF WrapsAround
<1>5. Encode(new) # <<>>
  <2>1. ASSUME NEW object
        PROVE  <<object>> # <<>>
    OBVIOUS
  <2>2. Contiguous(list) \/ Len(list) < ByteSpace  BY DEF Speaks, Encode
  <2>3. PICK object : Encode(new) = <<object>>  BY <1>3, <2>2 DEF Encode
  <2> QED  BY <2>1, <2>3
<1> QED  BY <1>4, <1>5 DEF Speaks

(* upsert_binary and its siblings keep the place of an index that is there: *)
(* a change of a point never makes the answers unreadable, a new one may.   *)
THEOREM ChangesNeverSilence == Spec => OnlyNewIndicesSilence
<1> DEFINE Grows == \E g \in Group : Len(database'[g]) > Len(database[g])
<1>1. ASSUME GuardInv, SetPoint, Shown(database) # {}, ~ Grows
      PROVE  Shown(database') # {}
  <2> DEFINE g == command.group
             p == command.point
             list == database[g]
             new == Upsert(list, p)
  <2>1. /\ g \in Group /\ p \in PointOf(Datum) /\ list \in Seq(PointOf(Datum))
        /\ database \in [Group -> Seq(Point)] /\ \A h \in Group : database[h] # <<>>
    BY <1>1, PointIsPointOf DEF SetPoint, GuardInv, TypeOK
  <2>2. database'[g] = new /\ \A h \in Group : h # g => database'[h] = database[h]
    BY <1>1, <2>1 DEF SetPoint
  <2>3. new \in Seq(PointOf(Datum)) /\ new # <<>> /\ Len(list) \in Nat
    <3> HIDE DEF p, list
    <3> QED  BY <2>1, UpsertLists, ListOfPoints
  <2>4. database' \in [Group -> Seq(Point)] /\ \A h \in Group : database'[h] # <<>>
    <3>1. database' = [database EXCEPT ![g] = new]  BY <1>1 DEF SetPoint
    <3> QED  BY <2>1, <2>2, <2>3, <3>1, PointIsPointOf
  <2>5. ~ (Len(new) > Len(list))  BY <1>1, <2>1, <2>2
  <2>6. \A h \in Group : Speaks(database[h])
    BY <1>1, <2>1, ShownIfAllSpeak
  <2> HIDE DEF g, p, new, list
  <2>7. Speaks(list)  BY <2>1, <2>6 DEF list
  <2>8. PICK i \in 1 .. Len(list) : list[i].index = p.index
                                    /\ new = [list EXCEPT ![i] = p]
    <3>1. Len(Append(list, p)) = Len(list) + 1  BY <2>1, AppendProperties
    <3>2. new # Append(list, p)  BY <2>3, <2>5, <3>1
    <3> QED  BY <2>1, <3>2, UpsertCases DEF new
  <2>9. /\ Len(new) = Len(list)
        /\ \A j \in 1 .. Len(list) : new[j].index = list[j].index
    BY <2>1, <2>3, <2>8
  <2>10. Speaks(new)  BY <2>1, <2>3, <2>7, <2>9, IndicesDecide
  <2>11. \A h \in Group : Speaks(database'[h])
    BY <2>2, <2>6, <2>10
  <2> QED  BY <2>4, <2>11, ShownIfAllSpeak
<1>2. ASSUME [Next]_vars, ~ SetPoint
      PROVE  database' = database
  BY <1>2 DEF Next, ReadCommand, Confirm, PrintPanics, TaskStep, BeginAnswer,
              CopyVector, EndAnswer, vars
<1> DEFINE Silenced == Shown(database) # {} /\ Shown(database') = {}
<1>3. GuardInv /\ [Next]_vars => [Silenced => Grows]_vars
  BY <1>1, <1>2
<1> QED  BY <1>3, Guarded, PTL DEF Spec, OnlyNewIndicesSilence
=============================================================================
