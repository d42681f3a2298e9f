----------------------------- MODULE FrameStream -----------------------------
(***************************************************************************)
(* read_frame on a serial line, octet by octet: ten octets of header, then *)
(* as many as its length octet calls for.  The reader never looks for the  *)
(* start of a frame: after an error it reads on wherever the line is.      *)
(*                                                                         *)
(* The frames sent are numbered by their source address, so that a frame   *)
(* heard says which one it was.                                            *)
(***************************************************************************)
EXTENDS LinkCodec

CONSTANTS
    Payloads,       \* payloads of the frames sent
    Glitches,       \* octets that damage puts in the place of another
    MaxSent,        \* bound: frames sent
    MaxFaults       \* bound: octets lost or damaged, and gaps inside a frame

ASSUME PayloadAssumption ==
    \A p \in Payloads : p \in Seq(Octet) /\ Len(p) <= PayloadLimit
ASSUME GlitchAssumption == Glitches \subseteq Octet
ASSUME BoundAssumption == MaxSent \in Word /\ MaxFaults \in Nat
ASSUME RecordAssumption == None # [sent |-> 0, heard |-> 0]

VARIABLES
    sent,       \* the frames written, in order
    line,       \* octets that the reader has not taken
    fixed,      \* the header read_frame holds while it waits for the rest
    heard,      \* the frames read_frame returned
    inStep,     \* how many frames had been sent and heard when the line was
                \* last found silent, None when it has been disturbed since:
                \* a history variable
    faults

vars == <<sent, line, fixed, heard, inStep, faults>>

Numbered(n, payload) ==
    LinkFrame(Control("OutstationToMaster", "UnconfirmedUserData", FALSE, FALSE),
              10, n, payload)

Encoded == [n \in 1 .. MaxSent |-> [p \in Payloads |-> EncodeFrame(Numbered(n, p))]]

Init ==
    /\ sent = <<>> /\ line = <<>> /\ fixed = <<>> /\ heard = <<>>
    /\ inStep = [sent |-> 0, heard |-> 0]
    /\ faults = 0

(* write_frame: the whole frame at once.                                    *)
Send ==
    /\ Len(sent) < MaxSent
    /\ \E p \in Payloads :
          /\ sent' = Append(sent, Numbered(Len(sent) + 1, p))
          /\ line' = line \o Encoded[Len(sent) + 1][p]
    /\ UNCHANGED <<fixed, heard, inStep, faults>>

-----------------------------------------------------------------------------
Fault ==
    /\ faults < MaxFaults
    /\ faults' = faults + 1
    /\ inStep' = None

LoseOctet ==
    /\ Fault
    /\ \E i \in DOMAIN line : line' = RemoveAt(line, i)
    /\ UNCHANGED <<sent, fixed, heard>>

DamageOctet ==
    /\ Fault
    /\ \E i \in DOMAIN line, g \in Glitches :
          /\ g # line[i]
          /\ line' = [line EXCEPT ![i] = g]
    /\ UNCHANGED <<sent, fixed, heard>>

-----------------------------------------------------------------------------
(* Octets that a header says are to come.                                   *)
RestLength(header) == EncodedPayloadLen(header[3] - MinLengthField)

Needed == IF fixed = <<>> THEN HeaderOctets ELSE RestLength(fixed)

Taken == SubSeq(line, 1, Needed)

(* The read_exact of the header: an error, a wait for the rest, or, when    *)
(* there is no rest, the frame.                                             *)
ReadHeader ==
    /\ fixed = <<>>
    /\ Len(line) >= HeaderOctets
    /\ IF PlausibleHeader(Taken) /\ RestLength(Taken) > 0
       THEN fixed' = Taken /\ UNCHANGED heard
       ELSE heard' = heard \o DecodeFrame(Taken) /\ UNCHANGED fixed
    /\ line' = SubSeq(line, Needed + 1, Len(line))
    /\ UNCHANGED <<sent, inStep, faults>>

(* The read_exact of the rest, and LinkFrame::decode.                       *)
ReadRest ==
    /\ fixed # <<>>
    /\ Len(line) >= Needed
    /\ heard' = heard \o DecodeFrame(fixed \o Taken)
    /\ fixed' = <<>>
    /\ line' = SubSeq(line, Needed + 1, Len(line))
    /\ UNCHANGED <<sent, inStep, faults>>

(* Mutant: the header is kept for the next read.                            *)
AfterTimeoutKept == fixed

AfterTimeout == <<>>

(* The port's timeout strikes when `taken` octets have been read.  What     *)
(* read_exact took is gone.  With octets still to come, the gap inside a    *)
(* frame is a fault; with none, the next frame will find the reader ready.  *)
Timeout ==
    \E taken \in 0 .. Len(line) :
        /\ taken < Needed
        /\ IF taken < Len(line) THEN Fault
           ELSE /\ inStep' = IF inStep # None THEN inStep
                             ELSE [sent |-> Len(sent), heard |-> Len(heard)]
                /\ UNCHANGED faults
        /\ fixed' = AfterTimeout
        /\ line' = SubSeq(line, taken + 1, Len(line))
        /\ UNCHANGED <<sent, heard>>

Next == Send \/ LoseOctet \/ DamageOctet \/ ReadHeader \/ ReadRest \/ Timeout

Spec == Init /\ [][Next]_vars

-----------------------------------------------------------------------------
(* Types, and what the reader may hold.                                     *)
TypeOK ==
    /\ sent \in Seq({Numbered(n, p) : n \in 1 .. MaxSent, p \in Payloads})
    /\ Len(sent) <= MaxSent
    /\ \A n \in DOMAIN sent : sent[n].source = n
    /\ line \in Seq(Octet)
    /\ fixed = <<>> \/ ( /\ fixed \in Seq(Octet)
                         /\ Len(fixed) = HeaderOctets
                         /\ SubSeq(fixed, 1, 2) = StartBytes
                         /\ fixed[3] >= MinLengthField
                         /\ RestLength(fixed) \in 1 .. EncodedPayloadLen(PayloadLimit) )
    /\ heard \in Seq(AnyFrame)
    /\ inStep = None \/ ( /\ inStep.sent \in 0 .. Len(sent)
                          /\ inStep.heard \in 0 .. Len(heard) )
    /\ faults \in 0 .. MaxFaults

(* Whatever the line does to octets, the reader invents no frame, changes   *)
(* none, and hears none twice or out of order: octets that it takes for a   *)
(* header at the wrong place never pass the CRCs.                           *)
NothingInvented ==
    /\ \A i \in DOMAIN heard :
          /\ heard[i].source \in DOMAIN sent
          /\ heard[i] = sent[heard[i].source]
    /\ \A i, j \in DOMAIN heard : i < j => heard[i].source < heard[j].source

From(n) == SubSeq(sent, n + 1, Len(sent))

OctetsOf(frames) ==
    FlattenSeq([i \in DOMAIN frames |-> Encoded[frames[i].source][frames[i].payload]])

(* After a silence of one timeout the reader is in step again, whatever was *)
(* lost before it: what it has heard since are the frames sent since, in    *)
(* order, and those it has not heard yet are on the line, whole.            *)
InStep ==
    inStep # None =>
        LET known  == SubSeq(heard, inStep.heard + 1, Len(heard))
            coming == From(inStep.sent + Len(known))
        IN  /\ known \o coming = From(inStep.sent)
            /\ fixed \o line = OctetsOf(coming)
=============================================================================
