----------------------------- MODULE TcpPolling -----------------------------
(***************************************************************************)
(* tcp_master polling tcp_outstation: the master program and its           *)
(* MasterSession, TcpClient with its silent reconnects, one TCP connection *)
(* at a time, the outstation's task for that connection with its           *)
(* OutstationSession, and the operator who changes the shared database.    *)
(*                                                                         *)
(* A connection the client has dropped is dropped from the model too: the  *)
(* task that serves it only reads the database, and nobody hears it.       *)
(***************************************************************************)
EXTENDS PollTraffic, Integers, SequencesExt

CONSTANTS
    IdleCloses,     \* the poll interval may be longer than the read timeout of
                    \* the outstation's task
    MaxUpdates,     \* bound: changes of the database
    MaxFaults       \* bound: faults of the network and the processes

ASSUME BoundsAssumption == MaxUpdates \in Nat /\ MaxFaults \in Nat
ASSUME IdleAssumption   == IdleCloses \in BOOLEAN

VARIABLES
    pc,         \* where the master program is
    retried,    \* the call of send_frame or receive_frame has reconnected
    master,     \* the MasterSession: [aseq, tseq, re]
    connected,  \* `connection.is_some()` of the TcpClient
    link,       \* that connection, and the outstation's task serving it
    up,         \* the outstation process runs
    db,         \* version of the outstation's points
    contents,   \* what a response would make of them
    asked,      \* db when the poll under way began
    request,    \* application sequence of that poll
    view,       \* version the master shows
    outcome,    \* of the last poll
    faults      \* faults so far

vars == <<pc, retried, master, connected, link, up, db, contents, asked, request,
          view, outcome, faults>>

Startup == {"connect", "sendReset", "awaitReset", "sendTest", "awaitTest"}
Sending == {"sendReset", "sendTest", "sendPoll"}
Waiting == {"awaitReset", "awaitTest", "awaitPoll"}

(* A fresh connection.  `alive`: both ends and the path between them work;  *)
(* `c2s`, `s2c`: frames under way; `garbled`: a timeout took part of a      *)
(* frame out of the stream; `outq`: frames the task has yet to write.       *)
NewLink ==
    [alive |-> TRUE, c2s |-> <<>>, s2c |-> <<>>, garbled |-> FALSE,
     session |-> NewSession, outq |-> <<>>]

Init ==
    /\ pc = "connect"
    /\ retried = FALSE
    /\ master = NewMaster
    /\ connected = FALSE
    /\ link = NewLink
    /\ up \in BOOLEAN
    /\ db = 0
    /\ contents \in Contents
    /\ asked = 0
    /\ request = 0
    /\ view = 0
    /\ outcome = "none"
    /\ faults = 0

Fault == faults < MaxFaults /\ faults' = faults + 1

-----------------------------------------------------------------------------
(* How a call of the TcpClient ends for the program.                        *)

(* The call that returned; the next one starts with its reconnect unused.   *)
GoTo(place) == pc' = place /\ retried' = FALSE

(* Mutant: a failed poll is followed by the next one, on the same           *)
(* connection and without link startup.                                     *)
FailPollsOn ==
    IF pc \in Startup
    THEN GoTo("retry") /\ UNCHANGED <<master, connected, link, outcome>>
    ELSE /\ GoTo("sleep")
         /\ master' = [master EXCEPT !.re = NewReassembler]
         /\ outcome' = "failed"
         /\ UNCHANGED <<connected, link>>

(* A call returns an error.  During startup wait_for_link sleeps and tries  *)
(* again, on the same connection if there is one; a failed poll drops the   *)
(* connection first.                                                        *)
Fail ==
    IF pc \in Startup
    THEN GoTo("retry") /\ UNCHANGED <<master, connected, link, outcome>>
    ELSE /\ GoTo("connect")
         /\ master' = [master EXCEPT !.re = NewReassembler]
         /\ outcome' = "failed"
         /\ connected' = FALSE
         /\ link' = NewLink

(* TcpClient::connect, called by establish_link, send_frame, receive_frame  *)
(* and reconnect.                                                           *)
Connect ==
    /\ pc \in {"connect"} \cup Sending \cup Waiting
    /\ ~ connected
    /\ up
    /\ connected' = TRUE
    /\ link' = NewLink
    /\ IF pc = "connect" THEN GoTo("sendReset") ELSE UNCHANGED <<pc, retried>>
    /\ UNCHANGED <<master, up, db, contents, asked, request, view, outcome, faults>>

(* establish_link finds the connection of an earlier attempt.               *)
AlreadyConnected ==
    /\ pc = "connect"
    /\ connected
    /\ GoTo("sendReset")
    /\ UNCHANGED <<master, connected, link, up, db, contents, asked, request, view,
                   outcome, faults>>

ConnectFails ==
    /\ pc \in {"connect"} \cup Sending \cup Waiting
    /\ ~ connected
    /\ IF up THEN Fault ELSE UNCHANGED faults
    /\ Fail
    /\ UNCHANGED <<up, db, contents, asked, request, view>>

(* wait_for_link and main sleep.                                            *)
Retry ==
    /\ pc = "retry"
    /\ GoTo("connect")
    /\ UNCHANGED <<master, connected, link, up, db, contents, asked, request, view,
                   outcome, faults>>

(* integrity_poll up to its send_frame.                                     *)
BeginPoll ==
    /\ pc = "sleep"
    /\ GoTo("sendPoll")
    /\ master' = StartPoll(master, Style, Own).master
    /\ request' = master.aseq
    /\ asked' = db
    /\ UNCHANGED <<connected, link, up, db, contents, view, outcome, faults>>

-----------------------------------------------------------------------------
(* A poll under way has the numbers that BeginPoll took.                    *)
FrameToSend ==
    CASE pc = "sendReset" -> ResetLinkStates(Style, Own, Master)
      [] pc = "sendTest"  -> TestLinkStates(Style, Own, Master, FALSE)
      [] pc = "sendPoll"  ->
            UnconfirmedUserData(Style, Own, Master,
                Fragment(IntegrityPoll(request), master.tseq + SeqSpace - 1)[1])

AfterSending ==
    CASE pc = "sendReset" -> "awaitReset"
      [] pc = "sendTest"  -> "awaitTest"
      [] pc = "sendPoll"  -> "awaitPoll"

(* The write succeeds; on a connection that is dead without the client      *)
(* knowing, what it wrote goes nowhere.                                     *)
Write ==
    /\ pc \in Sending
    /\ connected
    /\ link' = IF link.alive THEN [link EXCEPT !.c2s = Append(@, FrameToSend)]
               ELSE link
    /\ GoTo(AfterSending)
    /\ UNCHANGED <<master, connected, up, db, contents, asked, request, view, outcome,
                   faults>>

(* Mutant: an error is returned without reconnecting.                       *)
ReconnectNever == Fail

(* Reconnect once, silently, and try the call again; the second error is    *)
(* returned.                                                                *)
ReconnectOnce ==
    IF retried THEN Fail
    ELSE /\ retried' = TRUE
         /\ connected' = FALSE
         /\ link' = NewLink
         /\ UNCHANGED <<pc, master, outcome>>

WriteFails ==
    /\ pc \in Sending
    /\ connected
    /\ ~ link.alive
    /\ ReconnectOnce
    /\ UNCHANGED <<up, db, contents, asked, request, view, faults>>

-----------------------------------------------------------------------------
(* expect_link_ack during startup.                                         *)
LinkAnswer(f) ==
    /\ pc \in {"awaitReset", "awaitTest"}
    /\ IF ~ IsLinkAck(f)
       THEN GoTo("retry") /\ UNCHANGED master
       ELSE IF pc = "awaitReset"
       THEN GoTo("sendTest") /\ UNCHANGED master
       ELSE GoTo("sleep") /\ master' = NewMaster
    /\ UNCHANGED <<connected, view, outcome>>

(* An answer that cannot be decoded: the poll is dropped with its           *)
(* connection.                                                              *)
RejectAnswer(f) ==
    /\ pc = "awaitPoll"
    /\ ReceiveApplication(master, f).result = "error"
    /\ GoTo("connect")
    /\ master' = [master EXCEPT !.re = NewReassembler]
    /\ outcome' = "failed"
    /\ connected' = FALSE
    /\ UNCHANGED view

ContinuePoll(f) ==
    /\ pc = "awaitPoll"
    /\ LET received == ReceiveApplication(master, f)
       IN  received.result = "continue" /\ master' = received.master
    /\ GoTo("awaitPoll")
    /\ UNCHANGED <<connected, view, outcome>>

CompletePoll(f) ==
    /\ pc = "awaitPoll"
    /\ LET received == ReceiveApplication(master, f)
       IN  /\ received.result = "answer"
           /\ master' = received.master
           /\ view' \in {list.version : list \in received.data[1].points}
    /\ outcome' = "ok"
    /\ GoTo("sleep")
    /\ UNCHANGED connected

(* A whole frame comes out of the stream.                                   *)
Read ==
    /\ pc \in Waiting
    /\ connected
    /\ ~ link.garbled
    /\ link.s2c # <<>>
    /\ LET f == Head(link.s2c)
       IN  /\ LinkAnswer(f) \/ RejectAnswer(f) \/ ContinuePoll(f) \/ CompletePoll(f)
           /\ link' = IF connected' THEN [link EXCEPT !.s2c = Tail(@)] ELSE NewLink
    /\ UNCHANGED <<up, db, contents, asked, request, faults>>

(* The rest of an acknowledgement whose beginning a timeout has taken: less *)
(* than the ten octets of a header, which the next read waits for.          *)
Leftover == link.garbled /\ Len(link.s2c) = 1

(* The stream ends, is reset, or does not make sense.                       *)
ReadFails ==
    /\ pc \in Waiting
    /\ connected
    /\ \/ link.garbled /\ Len(link.s2c) > 1
       \/ ~ link.alive /\ (link.s2c = <<>> \/ Leftover)
    /\ ReconnectOnce
    /\ UNCHANGED <<up, db, contents, asked, request, view, faults>>

(* No frame is on its way to the master, nor ever will be.                  *)
Quiet ==
    /\ link.s2c = <<>> \/ Leftover
    /\ link.alive => link.c2s = <<>> /\ link.outq = <<>>

(* What a timeout leaves of the connection: it takes what has arrived of a  *)
(* frame, nothing, a beginning, or the rest.                                *)
AfterTimeout ==
    LET taken == [link EXCEPT !.s2c = Tail(@), !.garbled = FALSE]
    IN  IF link.s2c = <<>> THEN {link}
        ELSE IF Quiet THEN {taken}
        ELSE {link, [link EXCEPT !.garbled = TRUE]}
             \cup (IF link.garbled THEN {taken} ELSE {})

(* The read timeout strikes; while an answer is still on its way that is a  *)
(* fault.  During startup the connection stays.                             *)
Timeout ==
    /\ pc \in Waiting
    /\ connected
    /\ \/ Quiet /\ UNCHANGED faults
       \/ ~ Quiet /\ link.alive /\ Fault
    /\ IF pc \in Startup
       THEN /\ GoTo("retry")
            /\ link' \in AfterTimeout
            /\ UNCHANGED <<master, connected, outcome>>
       ELSE Fail
    /\ UNCHANGED <<up, db, contents, asked, request, view>>

-----------------------------------------------------------------------------
(* What is left of a connection that breaks: some of the frames already     *)
(* sent to the master.                                                      *)
Broken ==
    {[link EXCEPT !.alive = FALSE, !.c2s = <<>>, !.outq = <<>>, !.s2c = sent] :
        sent \in Prefixes(link.s2c)}

(* The outstation's task has a frame to handle, and what comes of it.       *)
ServerHasFrame ==
    connected /\ link.alive /\ link.outq = <<>> /\ link.c2s # <<>>

Handled == HandleFrame(link.session, Head(link.c2s), Database(db, contents))

(* `database()` expects that nobody has panicked with the write guard.      *)
Panics == contents = "poisoned" /\ AsksForPoints(Handled.request)

(* The task reads a frame, handles it and writes the answers one by one.    *)
(* An error of handle_frame is logged and the task goes on.                 *)
ServerRead ==
    /\ ServerHasFrame /\ ~ Panics
    /\ link' = [link EXCEPT !.c2s = Tail(@),
                            !.session = Handled.session,
                            !.outq = Handled.responses]
    /\ UNCHANGED <<pc, retried, master, connected, up, db, contents, asked, request,
                   view, outcome, faults>>

(* The task panics, and the connection goes with it.                        *)
ServerPanics ==
    /\ ServerHasFrame /\ Panics
    /\ link' \in Broken
    /\ UNCHANGED <<pc, retried, master, connected, up, db, contents, asked, request,
                   view, outcome, faults>>

ServerWrite ==
    /\ connected /\ link.alive
    /\ link.outq # <<>>
    /\ link' = [link EXCEPT !.outq = Tail(@), !.s2c = Append(@, Head(link.outq))]
    /\ UNCHANGED <<pc, retried, master, connected, up, db, contents, asked, request,
                   view, outcome, faults>>

(* The read timeout of the task strikes between two polls, and the task     *)
(* ends the connection.  With a poll interval shorter than the timeout that *)
(* is a fault: something holds the master up.  The first poll follows link  *)
(* startup at once.                                                         *)
IdleClose ==
    /\ IF IdleCloses THEN UNCHANGED faults ELSE Fault
    /\ pc = "sleep" /\ outcome # "none"
    /\ connected /\ link.alive
    /\ link.c2s = <<>> /\ link.outq = <<>>
    /\ link' = [link EXCEPT !.alive = FALSE]
    /\ UNCHANGED <<pc, retried, master, connected, up, db, contents, asked, request,
                   view, outcome>>

(* The network loses the connection.                                        *)
Break ==
    /\ connected /\ link.alive
    /\ Fault
    /\ link' \in Broken
    /\ UNCHANGED <<pc, retried, master, connected, up, db, contents, asked, request,
                   view, outcome>>

(* The outstation process dies; it comes back with the points of its        *)
(* command line, which is one more change of the database.  Once nobody     *)
(* takes its output, printing `accepted TCP connection` ends it too.        *)
Crash ==
    /\ up
    /\ IF contents = "poisoned" THEN UNCHANGED faults ELSE Fault
    /\ up' = FALSE
    /\ db' = db + 1
    /\ contents' \in Contents
    /\ link' \in IF connected THEN Broken ELSE {link}
    /\ UNCHANGED <<pc, retried, master, connected, asked, request, view, outcome>>

Restart ==
    /\ ~ up
    /\ up' = TRUE
    /\ UNCHANGED <<pc, retried, master, connected, link, db, contents, asked, request,
                   view, outcome, faults>>

(* The operator changes or adds a point (handle_cli_line, under the write   *)
(* lock); a thread that has panicked reads no more commands.                *)
Update ==
    /\ up /\ contents # "poisoned"
    /\ db < MaxUpdates
    /\ db' = db + 1
    /\ contents' \in AfterCommand(contents)
    /\ UNCHANGED <<pc, retried, master, connected, link, up, asked, request,
                   view, outcome, faults>>

(* The change is made, but nobody takes the output any more: println!       *)
(* panics before the write guard is dropped.                                *)
Poison ==
    /\ up /\ contents # "poisoned"
    /\ Fault
    /\ db' = db + 1
    /\ contents' = "poisoned"
    /\ UNCHANGED <<pc, retried, master, connected, link, up, asked, request,
                   view, outcome>>

-----------------------------------------------------------------------------
MasterStep ==
    \/ Connect \/ AlreadyConnected \/ ConnectFails \/ Retry \/ BeginPoll
    \/ Write \/ WriteFails \/ Read \/ ReadFails \/ Timeout

ServerStep == ServerRead \/ ServerPanics \/ ServerWrite

Next ==
    \/ MasterStep \/ ServerStep
    \/ IdleClose \/ Restart \/ Break \/ Crash \/ Update \/ Poison

(* The runtime keeps polling both tasks, somebody restarts the outstation,  *)
(* and TCP does not retransmit for ever: a program that keeps using a dead  *)
(* connection is told so in the end.                                        *)
Fairness ==
    /\ WF_vars(MasterStep) /\ WF_vars(ServerStep) /\ WF_vars(Restart)
    /\ SF_vars(WriteFails \/ ReadFails)

Spec == Init /\ [][Next]_vars /\ Fairness

-----------------------------------------------------------------------------
(* Types, and what the program may rely on without looking: it never waits  *)
(* for an answer of a connection it has not tried to open, and it sleeps    *)
(* and retries only between calls.                                          *)
TypeOK ==
    /\ pc \in Startup \cup {"retry", "sendPoll", "awaitPoll", "sleep"}
    /\ retried \in BOOLEAN /\ connected \in BOOLEAN /\ up \in BOOLEAN
    /\ retried => pc \in Sending \cup Waiting
    /\ ~ connected => link = NewLink
    /\ master.aseq \in 0 .. AppSeqSpace - 1 /\ master.tseq \in SeqNumber
    /\ db \in Nat /\ asked \in 0 .. db /\ view \in 0 .. db
    /\ contents \in Contents \cup {"poisoned"}
    /\ outcome \in {"none", "ok", "failed"}
    /\ faults \in 0 .. MaxFaults

(* The application data the next frame completes, in a step that does.      *)
Answer == ReceiveApplication(master, Head(link.s2c)).data

(* integrity_poll compares no sequence number and no address.  All the same *)
(* the answer it accepts is the whole answer to the very poll it sent, and  *)
(* every part of it is of one version of the database: an answer that comes *)
(* too late dies with the connection its poll was sent on.                  *)
AnswersItsPoll ==
    [][ (pc = "awaitPoll" /\ pc' = "sleep" /\ outcome' = "ok") =>
          /\ Len(Answer) = ResponseChunks
          /\ \A i \in DOMAIN Answer :
                /\ Answer[i].sequence = request
                /\ Answer[i].points = {[version |-> view', decodable |-> TRUE]} ]_vars

Service == INSTANCE PollService WITH
    NoPoll  <- None,
    pending <- IF pc \in {"sendPoll", "awaitPoll"} THEN asked ELSE None

(* With all its reconnects, retries and restarts, what the master shows is  *)
(* never older than the poll that fetched it, and never goes back.          *)
ImplementsPollService == Service!Spec

(* When the faults stop, polling comes back by itself and goes on: there is *)
(* always another poll, whatever the operator has done, and if the points   *)
(* are readable from some time on then from some time on no poll fails.     *)
Recovers ==
    /\ []<>(pc = "awaitPoll")
    /\ <>[](contents = "readable") => <>[](outcome = "ok")

(* `println!("polling continuously; press Ctrl+C to stop")`: there is       *)
(* always another poll that shows the points.                               *)
PollsContinuously == []<>(outcome = "ok")

-----------------------------------------------------------------------------
(* Nothing but frames of link startup is on the connection.                 *)
LinkRequests == {Reset, Test}

OnlyStartup ==
    link.c2s \in Seq(LinkRequests) /\ link.outq \in Seq(Acks) /\ link.s2c \in Seq(Acks)

(* The poll under way is not answered yet; behind it there is nothing.      *)
Unanswered ==
    /\ master.re = NewReassembler
    /\ link.outq \in Seq(Acks) /\ link.s2c \in Seq(Acks)
    /\ link.c2s \in Seq(LinkRequests \cup PollFrames(request))
    /\ \A i \in DOMAIN link.c2s : i < Len(link.c2s) => link.c2s[i] \in LinkRequests

(* A reassembler has the first segments of a fragment of equal chunks.      *)
HasFirst(re, chunk, start) ==
    \/ re = NewReassembler
    \/ /\ re.buffer \in Seq({chunk}) /\ re.buffer # <<>>
       /\ re = [expected |-> (start + Len(re.buffer)) % SeqSpace, buffer |-> re.buffer]

IsAt(f, place, start, v) ==
    \/ f \in Acks
    \/ place \in 1 .. ResponseChunks /\ f = AnswerFrame(request, start, v, place)

(* The poll has been answered: frame i on the way to the master is an       *)
(* acknowledgement still, or segment offset + i of the answer, and the      *)
(* master has the segments before.                                          *)
Answered(start, v, offset) ==
    /\ HasFirst(master.re, Chunk(request, v), start)
    /\ master.re.buffer # <<>> => offset = Len(master.re.buffer)
    /\ link.c2s = <<>>
    /\ link.s2c \in Seq(Acks \cup AnswerFrames(request, start, v))
    /\ link.outq \in Seq(Acks \cup AnswerFrames(request, start, v))
    /\ \A i \in DOMAIN link.s2c : IsAt(link.s2c[i], offset + i, start, v)
    /\ \A i \in DOMAIN link.outq :
          IsAt(link.outq[i], offset + Len(link.s2c) + i, start, v)

(* What is on its way while the master is at each place.                    *)
Traffic ==
    /\ pc # "awaitPoll" => OnlyStartup
    /\ pc = "sendPoll" => master.re = NewReassembler
    /\ pc = "awaitPoll" =>
          \/ Unanswered
          \/ \E start \in SeqNumber, v \in Reported(asked, db),
                offset \in -Len(link.s2c \o link.outq) .. Len(master.re.buffer) :
                   Answered(start, v, offset)

(* The inductive invariant.                                                 *)
IInv ==
    /\ TypeOK
    /\ request \in AppSequence
    /\ master = [aseq |-> master.aseq, tseq |-> master.tseq, re |-> master.re]
    /\ link = [alive |-> link.alive, c2s |-> link.c2s, s2c |-> link.s2c,
               garbled |-> link.garbled, session |-> link.session, outq |-> link.outq]
    /\ link.session \in [tseq : SeqNumber, re : {NewReassembler}]
    /\ Traffic
=============================================================================
