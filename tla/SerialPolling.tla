---------------------------- MODULE SerialPolling ----------------------------
(***************************************************************************)
(* serial_master polling serial_outstation over one line that neither side *)
(* ever gives up: there is no connection to drop, and what a poll leaves   *)
(* on the line meets the next call.  run_poll_loop restarts the link after *)
(* a failed poll, and the program ends when that fails as well.            *)
(*                                                                         *)
(* Each direction of the line is a sequence of frames and of Noise: octets *)
(* that begin no frame, because some of one were lost or damaged or were   *)
(* taken by a read that timed out.  FrameStream has the octets.            *)
(***************************************************************************)
EXTENDS PollTraffic, SequencesExt

CONSTANTS
    Stray,          \* frames of other stations on the line
    Patient,        \* the operator starts the master again on a quiet line only
    MaxUpdates,     \* bound: changes of the database
    MaxFaults,      \* bound: faults of the line and the outstation
    MaxRestarts     \* bound: times the operator starts the master again

ASSUME BoundsAssumption ==
    MaxUpdates \in Nat /\ MaxFaults \in Nat /\ MaxRestarts \in Nat
ASSUME PatientAssumption == Patient \in BOOLEAN
ASSUME StrayAssumption  ==
    \A f \in Stray : f.destination # Master /\ ~ IsLinkAck(f)

VARIABLES
    pc,         \* where the master program is
    master,     \* the MasterSession
    m2o, o2m,   \* the two directions of the line
    session,    \* the OutstationSession
    outq,       \* frames the outstation has yet to write
    db,         \* version of the outstation's points
    contents,   \* what a response would make of them
    asked,      \* db when the poll under way began
    request,    \* application sequence of that poll
    view,       \* version the master shows
    outcome,    \* of the last poll
    faults,     \* faults so far
    restarts    \* starts of the master after the first

masterVars     == <<pc, master, asked, request, view, outcome>>
outstationVars == <<session, outq, db, contents>>
vars == <<masterVars, outstationVars, m2o, o2m, faults, restarts>>

Noise == None

Startup == {"sendReset", "awaitReset", "sendTest", "awaitTest"}
Sending == {"sendReset", "sendTest", "sendPoll"}
Waiting == {"awaitReset", "awaitTest", "awaitPoll"}

Init ==
    /\ pc = "sendReset" /\ master = NewMaster
    /\ m2o = <<>> /\ o2m = <<>>
    /\ session = NewSession /\ outq = <<>>
    /\ db = 0 /\ asked = 0 /\ request = 0 /\ view = 0
    /\ contents \in Contents
    /\ outcome = "none"
    /\ faults = 0 /\ restarts = 0

Fault == faults < MaxFaults /\ faults' = faults + 1

-----------------------------------------------------------------------------
(* Mutant: a failed poll is followed by the next one, without link startup. *)
FailPollsOn ==
    IF pc \in Startup THEN pc' = "stopped" /\ UNCHANGED <<master, outcome>>
    ELSE pc' = "sleep" /\ outcome' = "failed" /\ UNCHANGED master

(* Mutant: link startup goes on waiting for its acknowledgement.            *)
FailKeepsListening ==
    IF pc \in Startup THEN UNCHANGED <<pc, master, outcome>>
    ELSE pc' = "sendReset" /\ outcome' = "failed" /\ UNCHANGED master

(* A call returns an error: a poll makes run_poll_loop reconnect, which is  *)
(* empty here, and start the link again; link startup ends the program.     *)
Fail ==
    IF pc \in Startup THEN pc' = "stopped" /\ UNCHANGED <<master, outcome>>
    ELSE pc' = "sendReset" /\ outcome' = "failed" /\ UNCHANGED master

BeginPoll ==
    /\ pc = "sleep"
    /\ pc' = "sendPoll"
    /\ master' = StartPoll(master, Style, Own).master
    /\ request' = master.aseq
    /\ asked' = db
    /\ UNCHANGED <<view, outcome, outstationVars, m2o, o2m, faults, restarts>>

FrameToSend ==
    CASE pc = "sendReset" -> ResetLinkStates(Style, Own, Master)
      [] pc = "sendTest"  -> TestLinkStates(Style, Own, Master, FALSE)
      [] pc = "sendPoll"  ->
            UnconfirmedUserData(Style, Own, Master,
                Fragment(IntegrityPoll(request), master.tseq + SeqSpace - 1)[1])

AfterSending ==
    CASE pc = "sendReset" -> "awaitReset"
      [] pc = "sendTest"  -> "awaitTest"
      [] pc = "sendPoll"  -> "awaitPoll"

Write ==
    /\ pc \in Sending
    /\ m2o' = Append(m2o, FrameToSend)
    /\ pc' = AfterSending
    /\ UNCHANGED <<master, asked, request, view, outcome, outstationVars, o2m,
                   faults, restarts>>

WriteFails ==
    /\ pc \in Sending
    /\ Fault
    /\ Fail
    /\ UNCHANGED <<asked, request, view, outstationVars, m2o, o2m, restarts>>

-----------------------------------------------------------------------------
(* expect_link_ack                                                          *)
LinkAnswer(f) ==
    /\ pc \in {"awaitReset", "awaitTest"}
    /\ IF ~ IsLinkAck(f) THEN Fail
       ELSE /\ pc' = IF pc = "awaitReset" THEN "sendTest" ELSE "sleep"
            /\ master' = IF pc = "awaitReset" THEN master ELSE NewMaster
            /\ UNCHANGED outcome
    /\ UNCHANGED view

PollAnswer(f) ==
    /\ pc = "awaitPoll"
    /\ LET received == ReceiveApplication(master, f)
       IN  CASE received.result = "error" ->
                  /\ master' = received.master
                  /\ pc' = "sendReset"
                  /\ outcome' = "failed"
                  /\ UNCHANGED view
             [] received.result = "continue" ->
                  /\ master' = received.master
                  /\ UNCHANGED <<pc, view, outcome>>
             [] received.result = "answer" ->
                  /\ master' = received.master
                  /\ view' \in {list.version : list \in received.data[1].points}
                  /\ pc' = "sleep"
                  /\ outcome' = "ok"

Read ==
    /\ pc \in Waiting
    /\ o2m # <<>> /\ Head(o2m) # Noise
    /\ LinkAnswer(Head(o2m)) \/ PollAnswer(Head(o2m))
    /\ o2m' = Tail(o2m)
    /\ UNCHANGED <<asked, request, outstationVars, m2o, faults, restarts>>

(* What a read that meets Noise may leave of a line: it takes ten octets,   *)
(* or as many as a length octet in them says, and stops anywhere.           *)
AfterNoise(line) ==
    LET rests == Suffixes(Tail(line))
    IN  rests \cup {<<Noise>> \o Tail(rest) : rest \in rests \ {<<>>}}

ReadNoise ==
    /\ pc \in Waiting
    /\ o2m # <<>> /\ Head(o2m) = Noise
    /\ Fail
    /\ o2m' \in AfterNoise(o2m)
    /\ UNCHANGED <<asked, request, view, outstationVars, m2o, faults, restarts>>

(* No frame is on its way to the master, nor ever will be.                  *)
Quiet == o2m \in {<<>>, <<Noise>>} /\ m2o \in {<<>>, <<Noise>>} /\ outq = <<>>

(* A read that times out takes what has arrived of a frame: nothing, its    *)
(* beginning, or a rest of noise.                                           *)
AfterTimeout ==
    IF Quiet THEN {<<>>}
    ELSE {o2m} \cup
         (IF o2m = <<>> THEN {}
          ELSE {<<Noise>> \o Tail(o2m)} \cup
               (IF Head(o2m) = Noise THEN {Tail(o2m)} ELSE {}))

(* The timeout of the port strikes; while an answer is still on its way     *)
(* that is a fault.                                                         *)
Timeout ==
    /\ pc \in Waiting
    /\ IF Quiet THEN UNCHANGED faults ELSE Fault
    /\ Fail
    /\ o2m' \in AfterTimeout
    /\ UNCHANGED <<asked, request, view, outstationVars, m2o, restarts>>

(* The operator starts the program again; the port has dropped what arrived *)
(* in the meantime.                                                         *)
StartAgain ==
    /\ pc = "stopped"
    /\ restarts < MaxRestarts
    /\ Patient => Quiet
    /\ restarts' = restarts + 1
    /\ pc' = "sendReset"
    /\ o2m' \in Suffixes(o2m)
    /\ UNCHANGED <<master, asked, request, view, outcome, outstationVars, m2o,
                   faults>>

-----------------------------------------------------------------------------
(* The outstation has a frame to handle, and what comes of it.              *)
ServerHasFrame == outq = <<>> /\ m2o # <<>> /\ Head(m2o) # Noise

Handled == HandleFrame(session, Head(m2o), Database(db, contents))

(* `database()` expects that nobody has panicked with the write guard.      *)
Panics == contents = "poisoned" /\ AsksForPoints(Handled.request)

(* serial_outstation reads, handles, writes the answers one by one, and     *)
(* goes on whatever fails.                                                  *)
ServerRead ==
    /\ ServerHasFrame /\ ~ Panics
    /\ session' = Handled.session
    /\ outq' = Handled.responses
    /\ m2o' = Tail(m2o)
    /\ UNCHANGED <<masterVars, db, contents, o2m, faults, restarts>>

(* The program is started again, with the points of its command line; its   *)
(* port drops what has arrived.                                             *)
NewOutstation(arrived) ==
    /\ session' = NewSession
    /\ outq' = <<>>
    /\ db' = db + 1
    /\ contents' \in Contents
    /\ m2o' \in Suffixes(arrived)

(* There is one thread that reads: when it panics the program ends.         *)
ServerPanics ==
    /\ ServerHasFrame /\ Panics
    /\ NewOutstation(Tail(m2o))
    /\ UNCHANGED <<masterVars, o2m, faults, restarts>>

ServerReadNoise ==
    /\ outq = <<>>
    /\ m2o # <<>> /\ Head(m2o) = Noise
    /\ m2o' \in AfterNoise(m2o)
    /\ UNCHANGED <<masterVars, outstationVars, o2m, faults, restarts>>

ServerWrite ==
    /\ outq # <<>>
    /\ outq' = Tail(outq)
    /\ \/ o2m' = Append(o2m, Head(outq)) /\ UNCHANGED faults
       \/ UNCHANGED o2m /\ Fault
    /\ UNCHANGED <<masterVars, session, db, contents, m2o, restarts>>

(* The outstation dies.                                                     *)
Crash ==
    /\ Fault
    /\ NewOutstation(m2o)
    /\ UNCHANGED <<masterVars, o2m, restarts>>

(* The operator changes or adds a point (handle_cli_line, under the write   *)
(* lock); a thread that has panicked reads no more commands.                *)
Update ==
    /\ contents # "poisoned"
    /\ db < MaxUpdates
    /\ db' = db + 1
    /\ contents' \in AfterCommand(contents)
    /\ UNCHANGED <<masterVars, session, outq, m2o, o2m, faults, restarts>>

(* The change is made, but nobody takes the output any more: println!       *)
(* panics before the write guard is dropped.                                *)
Poison ==
    /\ contents # "poisoned"
    /\ Fault
    /\ db' = db + 1
    /\ contents' = "poisoned"
    /\ UNCHANGED <<masterVars, session, outq, m2o, o2m, restarts>>

-----------------------------------------------------------------------------
(* The line damages or loses a frame, or carries one of another station.    *)
Disturbed(line) ==
    {ReplaceAt(line, i, Noise) : i \in DOMAIN line} \cup
    {RemoveAt(line, i) : i \in DOMAIN line}

Disturb ==
    /\ Fault
    /\ \/ m2o' \in Disturbed(m2o) /\ UNCHANGED o2m
       \/ o2m' \in Disturbed(o2m) /\ UNCHANGED m2o
       \/ \E f \in Stray : o2m' = Append(o2m, f) /\ UNCHANGED m2o
    /\ UNCHANGED <<masterVars, outstationVars, restarts>>

-----------------------------------------------------------------------------
MasterStep == BeginPoll \/ Write \/ WriteFails \/ Read \/ ReadNoise \/ Timeout

ServerStep == ServerRead \/ ServerReadNoise \/ ServerPanics \/ ServerWrite

Next ==
    \/ MasterStep \/ ServerStep
    \/ StartAgain \/ Crash \/ Update \/ Poison \/ Disturb

(* Both programs run.  Nobody need start again one that has ended.          *)
Fairness == WF_vars(MasterStep) /\ WF_vars(ServerStep)

Spec == Init /\ [][Next]_vars /\ Fairness

-----------------------------------------------------------------------------
(* Types, and the bounds of the sequence numbers.                           *)
TypeOK ==
    /\ pc \in Startup \cup {"sendPoll", "awaitPoll", "sleep", "stopped"}
    /\ master.aseq \in 0 .. AppSeqSpace - 1 /\ master.tseq \in SeqNumber
    /\ session.tseq \in SeqNumber
    /\ db \in Nat /\ asked \in 0 .. db /\ view \in 0 .. db
    /\ contents \in Contents \cup {"poisoned"}
    /\ outcome \in {"none", "ok", "failed"}
    /\ faults \in 0 .. MaxFaults /\ restarts \in 0 .. MaxRestarts

(* When run_poll_loop starts a poll, nothing an outstation owes to an       *)
(* earlier call is left: not on either direction of the line, and not with  *)
(* the outstation.  There is no other reason why integrity_poll may take    *)
(* the next fragment for its answer.                                        *)
NothingLeftOver ==
    pc = "sendPoll" =>
        /\ \A i \in DOMAIN o2m : o2m[i] \in Stray \cup {Noise}
        /\ \A i \in DOMAIN m2o : m2o[i] = Noise
        /\ outq = <<>>

(* The application data the next frame completes, in a step that does.      *)
Answer == ReceiveApplication(master, Head(o2m)).data

(* The answer integrity_poll accepts is the whole answer to the very poll   *)
(* it sent, and every part of it is of one version of the database.         *)
AnswersItsPoll ==
    [][ (pc = "awaitPoll" /\ pc' = "sleep" /\ outcome' = "ok") =>
          /\ Len(Answer) = ResponseChunks
          /\ \A i \in DOMAIN Answer :
                /\ Answer[i].sequence = request
                /\ Answer[i].points = {[version |-> view', decodable |-> TRUE]} ]_vars

Service == INSTANCE PollService WITH
    NoPoll  <- None,
    pending <- IF pc \in {"sendPoll", "awaitPoll"} THEN asked ELSE None

(* Whatever the line does, what the master shows is never older than the    *)
(* poll that fetched it, and never goes back.                               *)
ImplementsPollService == Service!Spec

(* When the faults stop, the program has ended or polling goes on for ever, *)
(* whatever the operator has done: it never hangs.  And if the points are   *)
(* readable from some time on, a program that goes on never fails again.    *)
RecoversOrStops ==
    \/ <>[](pc = "stopped")
    \/ /\ []<>(pc = "awaitPoll")
       /\ <>[](contents = "readable") => <>[](outcome = "ok")

(* `println!("polling continuously; press Ctrl+C to stop")`: there is       *)
(* always another poll.                                                     *)
PollsContinuously == []<>(pc = "awaitPoll")

-----------------------------------------------------------------------------
Ordered(answers, last, requests, lastRequest) ==
    Orderly(Stray \cup {Noise}, {Noise}, o2m, outq, m2o,
            answers, last, requests, lastRequest)

(* The poll under way has no answer yet, or one answer to it is coming in.  *)
Unanswered ==
    master.re = NewReassembler /\ Ordered({}, {}, {}, PollFrames(request))

Answered(start, v) ==
    /\ Collecting(master.re, Chunk(request, v), start, ResponseChunks)
    /\ Ordered(AnswerBody(request, start, v), AnswerEnd(request, start, v), {}, {})

(* What is on its way while the master is at each place.                    *)
Traffic ==
    /\ pc \in {"sendTest", "sleep", "sendPoll"} => Ordered({}, {}, {}, {})
    /\ pc = "sendPoll" => master.re = NewReassembler
    /\ pc = "sendReset" => Ordered(AnyAnswer(db), {}, AnyPoll, {})
    /\ pc = "awaitReset" => Ordered(AnyAnswer(db), Acks, AnyPoll, {Reset})
    /\ pc = "awaitTest" => Ordered({}, Acks, {}, {Test})
    /\ pc = "awaitPoll" =>
          \/ Unanswered
          \/ \E start \in SeqNumber, v \in Reported(asked, db) : Answered(start, v)
    /\ pc = "stopped" =>
          Ordered(AnyAnswer(db) \cup Acks, {}, AnyPoll \cup {Reset, Test}, {})

(* The inductive invariant.                                                 *)
IInv ==
    /\ TypeOK
    /\ request \in AppSequence
    /\ master = [aseq |-> master.aseq, tseq |-> master.tseq, re |-> master.re]
    /\ session \in [tseq : SeqNumber, re : {NewReassembler}]
    /\ Traffic
=============================================================================
