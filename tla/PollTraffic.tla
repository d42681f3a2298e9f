----------------------------- MODULE PollTraffic ----------------------------
(***************************************************************************)
(* What lies between a polling master and its outstation: the frames of    *)
(* link startup, of a poll and of its answer, in the order they were sent. *)
(* The invariants of SerialPolling and TcpPolling are said with it.  Beside *)
(* it there is the database both outstation programs answer from, with     *)
(* what a response makes of it.                                            *)
(***************************************************************************)
EXTENDS MasterSession, OutstationSession

CONSTANTS
    Style,          \* direction bit of the master's frames (LinkStyle)
    Contents        \* what command lines and commands may make of the points

ASSUME MasterAssumption == Master \in Address /\ Master # Own
ASSUME StyleAssumption  == Style \in Direction

ASSUME ContentsAssumption ==
    /\ Contents # {}
    /\ Contents \subseteq {"readable", "undecodable", "unencodable"}

AppSequence == 0 .. AppSeqSpace - 1

-----------------------------------------------------------------------------
(* The points as version v of the database.  "unencodable": some list has   *)
(* more than 255 points and a gap; "undecodable": some list runs over the   *)
(* end of the indices, which is encoded as a range that no decoder takes;   *)
(* "poisoned": a thread has panicked with the write guard, and so will      *)
(* whoever asks for a guard.                                                *)
Database(v, contents) ==
    [points    |-> [version |-> v, decodable |-> contents = "readable"],
     encodable |-> contents # "unencodable"]

(* A command changes a point in place or appends one: neither closes a gap. *)
AfterCommand(contents) ==
    {new \in Contents : contents = "unencodable" => new = "unencodable"}

-----------------------------------------------------------------------------

(* What the master sends.                                                   *)
Reset == ResetLinkStates(Style, Own, Master)
Test  == TestLinkStates(Style, Own, Master, FALSE)

PollFrame(number, start) ==
    UnconfirmedUserData(Style, Own, Master, Fragment(IntegrityPoll(number), start)[1])

PollFrames(number) == {PollFrame(number, start) : start \in 0 .. 2 * SeqSpace}

(* What the outstation answers: an acknowledgement, or segment j of the     *)
(* response to a poll, numbered from `start` on, with the points v.         *)
Acks == {AckWithFcb(Master, Own, FALSE), LegacyAckWithFcb(Master, Own, FALSE)}

Chunk(number, v) ==
    [function |-> "Response", sequence |-> number, points |-> {v}]

(* Points of the versions from `first` to `latest`.                         *)
Reported(first, latest) == [version : first .. latest, decodable : BOOLEAN]

AnswerFrame(number, start, v, j) ==
    UnconfirmedUserData(AnswerDirection(Style), Master, Own,
        Segment(j = 1, j = ResponseChunks, start + (j - 1), <<Chunk(number, v)>>))

AnswerBody(number, start, v) ==
    {AnswerFrame(number, start, v, j) : j \in 1 .. ResponseChunks - 1}

AnswerEnd(number, start, v) == {AnswerFrame(number, start, v, ResponseChunks)}

AnswerFrames(number, start, v) ==
    {AnswerFrame(number, start, v, j) : j \in 1 .. ResponseChunks}

(* Frames of any poll and of any answer up to version `latest`.             *)
AnyPoll == UNION {PollFrames(number) : number \in AppSequence}

AnyAnswer(latest) ==
    UNION {AnswerBody(number, start, v) \cup AnswerEnd(number, start, v) :
              number \in AppSequence, start \in SeqNumber, v \in Reported(0, latest)}

-----------------------------------------------------------------------------
From(line, i, harmless) == \A j \in DOMAIN line : j >= i => line[j] \in harmless

(* `back` is what is on its way to the master, `ready` what the outstation  *)
(* has yet to write, `out` what is on its way to it.  Beside what is        *)
(* harmless there are answers and requests; a last answer, or a last        *)
(* request, has nothing but harmless things behind it on the whole way.     *)
Orderly(harmless, noise, back, ready, out, answers, last, requests, lastRequest) ==
    /\ back \in Seq(harmless \cup answers \cup last)
    /\ ready \in Seq(answers \cup last)
    /\ out \in Seq(noise \cup requests \cup lastRequest)
    /\ \A i \in DOMAIN back :
          \/ back[i] \in harmless \cup answers
          \/ From(back, i + 1, harmless) /\ ready = <<>> /\ From(out, 1, noise)
    /\ \A i \in DOMAIN ready :
          \/ ready[i] \in answers
          \/ i = Len(ready) /\ From(out, 1, noise)
    /\ \A i \in DOMAIN out :
          \/ out[i] \in noise \cup requests
          \/ From(out, i + 1, noise)

(* What is left of a line some of whose frames got lost or damaged.         *)
Worn(new, old, noise) ==
    \E n \in Nat : \E place \in [1 .. n -> DOMAIN old] :
        /\ new = [i \in 1 .. n |-> new[i]]
        /\ \A i, j \in 1 .. n : i < j => place[i] < place[j]
        /\ \A i \in 1 .. n : new[i] = old[place[i]] \/ new[i] \in noise

(* The reassembler of a receiver of equal chunks, `total` of them in a      *)
(* fragment numbered from `start` on: it has nothing, or some of them and   *)
(* the number of the next.  When no number of the fragment repeats beyond   *)
(* its first, these are fewer than all.                                     *)
Collecting(re, chunk, start, total) ==
    \/ re = NewReassembler
    \/ /\ re = [expected |-> (start + Len(re.buffer)) % SeqSpace,
               buffer   |-> re.buffer]
       /\ re.buffer \in Seq({chunk}) /\ re.buffer # <<>>
       /\ total <= SeqSpace + 1 => Len(re.buffer) < total
=============================================================================
