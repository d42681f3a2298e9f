---------------------------- MODULE PointDatabase ----------------------------
(***************************************************************************)
(* The points of an outstation (examples/common/outstation_shared.rs and   *)
(* Database of dnp3-outstation): built from the command line, changed by   *)
(* the CLI thread, read by the task of every connection, under one RwLock. *)
(* What a master makes of an answer is decoded with ObjectCodec.           *)
(***************************************************************************)
EXTENDS ObjectCodec, SequencesExt

CONSTANTS
    None,
    Group,          \* the vectors of Database in use
    Datum,          \* flags and value of a point
    DefaultDatum,   \* those of the point a group without options gets
    CommandLines,   \* the options: a list of points for each group
    Tasks,          \* connections
    MaxCommands     \* bound: commands of the operator

Point == [index : Index, datum : Datum]

BinaryGroup == {"binary_inputs", "binary_outputs"}

ASSUME GroupAssumption ==
    Group \subseteq BinaryGroup \cup {"analog_inputs", "analog_outputs", "counters"}
ASSUME DefaultAssumption == DefaultDatum \in Datum
ASSUME CommandLinesAssumption == CommandLines \subseteq [Group -> Seq(Point)]
ASSUME BoundAssumption == MaxCommands \in Nat

VARIABLES
    database,   \* the vectors of Database
    cli,        \* what the CLI thread does
    command,    \* the group and the point of its command
    task,       \* what the task of each connection does
    copied,     \* the vectors it has copied for its answer
    poisoned,   \* a thread panicked with the write guard in its hands
    expected,   \* datum by index of the points, as configured and then
                \* confirmed by `updated ...`: a history variable
    commands    \* commands read

vars == <<database, cli, command, task, copied, poisoned, expected, commands>>
taskVars == <<task, copied>>

-----------------------------------------------------------------------------
(* Mutant: a group without options stays empty.                             *)
PointsOfOptionsOnly(options) == options

(* One group of database_from_points.                                       *)
PointsOf(options) ==
    IF options = <<>> THEN <<[index |-> 0, datum |-> DefaultDatum]>> ELSE options

(* Mutant: a point that changes goes to the end.                            *)
UpsertMoves(list, p) ==
    Append(SelectSeq(list, LAMBDA q : q.index # p.index), p)

(* The first point with the index is changed, or a new one added.           *)
Upsert(list, p) ==
    LET i == SelectInSeq(list, LAMBDA q : q.index = p.index)
    IN  IF i = 0 THEN Append(list, p) ELSE [list EXCEPT ![i] = p]

(* integrity_objects, of what has been copied.                              *)
IntegrityObjects(vectors) ==
    [g \in {g \in DOMAIN vectors : vectors[g] # <<>>} |-> Encode(vectors[g])]

DecodedObject(g, object) ==
    Decode(IF g \in BinaryGroup THEN "binary" ELSE "measured",
           object.qualifier, object.body)

(* What a master gets out of a response made from those vectors: a list for *)
(* each object, or nothing when one cannot be encoded or not be decoded.    *)
Shown(vectors) ==
    LET objects == IntegrityObjects(vectors)
    IN  IF \E g \in DOMAIN objects :
              objects[g] = <<>> \/ DecodedObject(g, objects[g][1]) = <<>>
        THEN {}
        ELSE {[g \in DOMAIN objects |-> DecodedObject(g, objects[g][1])[1]]}

-----------------------------------------------------------------------------
(* What the operator knows of a list: datum by index.                       *)
DatumOf(list) ==
    [i \in {p.index : p \in Range(list)} |->
        (CHOOSE p \in Range(list) : p.index = i).datum]

Learned(known, p) ==
    [i \in DOMAIN known \cup {p.index} |->
        IF i = p.index THEN p.datum ELSE known[i]]

PointsKnown(known) == {[index |-> i, datum |-> known[i]] : i \in DOMAIN known}

Init ==
    /\ \E options \in CommandLines :
          database = [g \in Group |-> PointsOf(options[g])]
    /\ cli = "reading" /\ command = None
    /\ task = [t \in Tasks |-> "waiting"]
    /\ copied = [t \in Tasks |-> <<>>]
    /\ poisoned = FALSE
    /\ expected = [g \in Group |-> DatumOf(database[g])]
    /\ commands = 0

(* Mutant: nobody holds a read guard, as if each vector were read under one *)
(* of its own.                                                              *)
ReadersNever == {}

(* The tasks that hold a read guard.                                        *)
Readers == {t \in Tasks : task[t] = "copying"}

-----------------------------------------------------------------------------
(* handle_cli_line: a line that sets a point.  Lines that do not parse, and *)
(* those that only show or help, change nothing.                            *)
ReadCommand ==
    /\ cli = "reading"
    /\ commands < MaxCommands
    /\ commands' = commands + 1
    /\ \E g \in Group, p \in Point : command' = [group |-> g, point |-> p]
    /\ cli' = "locking"
    /\ UNCHANGED <<database, taskVars, poisoned, expected>>

(* The write guard, and the point changed; the guard is kept for printing.  *)
SetPoint ==
    /\ cli = "locking"
    /\ Readers = {}
    /\ database' = [database EXCEPT ![command.group] = Upsert(@, command.point)]
    /\ cli' = "printing"
    /\ UNCHANGED <<command, taskVars, poisoned, expected, commands>>

(* `updated ...` printed, the guard dropped.                                *)
Confirm ==
    /\ cli = "printing"
    /\ expected' = [expected EXCEPT ![command.group] = Learned(@, command.point)]
    /\ command' = None
    /\ cli' = "reading"
    /\ UNCHANGED <<database, taskVars, poisoned, commands>>

(* println! panics when standard output is gone: the CLI thread ends, and   *)
(* with it the guard, poisoning the lock.                                   *)
PrintPanics ==
    /\ cli = "printing"
    /\ poisoned' = TRUE
    /\ cli' = "ended"
    /\ UNCHANGED <<database, command, taskVars, expected, commands>>

-----------------------------------------------------------------------------
(* Mutant: a poisoned lock is taken all the same.                           *)
PoisonIgnored(t) == task' = [task EXCEPT ![t] = "copying"]

(* `.expect("outstation database lock poisoned")`                           *)
TakeReadGuard(t) ==
    task' = [task EXCEPT ![t] = IF poisoned THEN "panicked" ELSE "copying"]

(* An integrity poll reaches the task: it takes a read guard, for which it  *)
(* waits while there is a writer, or one that waits.                        *)
BeginAnswer(t) ==
    /\ task[t] = "waiting"
    /\ cli \notin {"locking", "printing"}
    /\ TakeReadGuard(t)
    /\ UNCHANGED <<database, cli, command, copied, poisoned, expected, commands>>

CopyVector(t) ==
    /\ task[t] = "copying"
    /\ \E g \in Group \ DOMAIN copied[t] :
          copied' = [copied EXCEPT ![t] =
                        [h \in DOMAIN @ \cup {g} |->
                            IF h = g THEN database[g] ELSE @[h]]]
    /\ UNCHANGED <<database, cli, command, task, poisoned, expected, commands>>

(* Mutant: the guard is kept while the answer is on its way.                *)
DropReadGuardNever(t) == UNCHANGED task

DropReadGuard(t) == task' = [task EXCEPT ![t] = "waiting"]

(* The answer is complete, and goes out, or the error to standard error.    *)
EndAnswer(t) ==
    /\ task[t] = "copying"
    /\ DOMAIN copied[t] = Group
    /\ DropReadGuard(t)
    /\ copied' = [copied EXCEPT ![t] = <<>>]
    /\ UNCHANGED <<database, cli, command, poisoned, expected, commands>>

TaskStep(t) == BeginAnswer(t) \/ CopyVector(t) \/ EndAnswer(t)

Next ==
    \/ ReadCommand \/ SetPoint \/ Confirm \/ PrintPanics
    \/ \E t \in Tasks : TaskStep(t)

(* The threads run; whether there is another poll or command is up to       *)
(* others.                                                                  *)
Fairness ==
    /\ WF_vars(SetPoint \/ Confirm)
    /\ \A t \in Tasks : WF_vars(CopyVector(t) \/ EndAnswer(t))

Spec == Init /\ [][Next]_vars /\ Fairness

-----------------------------------------------------------------------------
(* Types; no group is ever empty, so that every poll reports all of them.   *)
TypeOK ==
    /\ \A g \in Group : database[g] \in Seq(Point) /\ database[g] # <<>>
    /\ cli \in {"reading", "locking", "printing", "ended"}
    /\ task \in [Tasks -> {"waiting", "copying", "panicked"}]
    /\ poisoned \in BOOLEAN
    /\ commands \in 0 .. MaxCommands

Answers(t) == copied[t] # <<>> /\ copied'[t] = <<>>

(* An answer is a snapshot: every vector in it is of the same version of    *)
(* the database, the one at the moment its guard is dropped, however the    *)
(* CLI thread and the other tasks run.                                      *)
AnswerIsSnapshot == [][ \A t \in Tasks : Answers(t) => copied[t] = database ]_vars

(* A master that can read the answer sees exactly the points the operator   *)
(* configured, each with the last value confirmed: none missing, none       *)
(* twice, and no value whose printing failed.                               *)
ShowsWhatWasConfirmed ==
    [][ \A t \in Tasks : Answers(t) =>
          \A lists \in Shown(copied[t]) :
             /\ DOMAIN lists = Group
             /\ \A g \in Group : Range(lists[g]) = PointsKnown(expected[g]) ]_vars

(* Only a point with a new index can make a database unreadable: changes of *)
(* the points there are never do, in a list as long as there are indices.   *)
OnlyNewIndicesSilence ==
    [][ (Shown(database) # {} /\ Shown(database') = {}) =>
          \E g \in Group : Len(database'[g]) > Len(database[g]) ]_vars

(* A command waits for the tasks that are answering, and is then done,      *)
(* however many polls there are.                                            *)
CommandsFinish == (cli = "locking") ~> (cli \in {"reading", "ended"})

-----------------------------------------------------------------------------
(* Why an answer is a snapshot: a task copies only while nobody may write,  *)
(* and what it has copied so far is what the database still holds.          *)
CopiesCurrent ==
    /\ cli = "printing" \/ poisoned => Readers = {}
    /\ copied = [t \in Tasks |-> copied[t]]
    /\ \A t \in Tasks :
          /\ DOMAIN copied[t] \subseteq Group
          /\ copied[t] = [g \in DOMAIN copied[t] |-> database[g]]
          /\ copied[t] # <<>> => t \in Readers

(* No index twice.                                                          *)
Distinct(list) ==
    \A i, j \in DOMAIN list : list[i].index = list[j].index => i = j

(* What the operator knows of a group once the command under way, if it has *)
(* changed the database already, is confirmed.                              *)
WillKnow(g) ==
    IF cli = "printing" /\ command.group = g
    THEN Learned(expected[g], command.point) ELSE expected[g]

(* And why it shows what was confirmed: a point in the list of its group    *)
(* has the last value of its index.                                         *)
KnowsDatabase ==
    /\ expected = [g \in Group |-> expected[g]]
    /\ \A g \in Group :
          /\ Distinct(database[g])
          /\ ~ poisoned => Range(database[g]) = PointsKnown(WillKnow(g))

(* The inductive invariants: for every command line, and for those that     *)
(* name no index twice.                                                     *)
GuardInv ==
    /\ TypeOK
    /\ database \in [Group -> Seq(Point)]
    /\ cli \in {"locking", "printing"} => command \in [group : Group, point : Point]
    /\ CopiesCurrent

IInv == GuardInv /\ KnowsDatabase
=============================================================================
