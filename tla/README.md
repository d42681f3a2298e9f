# A verification project for the DNP3 library

The repository implements the polling core of DNP3 (IEEE 1815) in Rust: link
frames, a transport function that cuts application fragments into segments, a
subset of the application objects, a master and an outstation session, TCP and
serial transports, and four example programs that put them together. This
directory holds TLA+ modules translated from that code, configurations that
model-check them with TLC, and theorems about them whose proofs TLAPS checks.

## 1. Inventory

Paths are relative to `src/`. `crates/X` stands for `crates/X/src/lib.rs`.

| Component | State it keeps | Operations | Talks to |
|---|---|---|---|
| Core codecs, `crates/dnp3-core` | none (`Reader` has a position) | Reader, CRC-16, CRC blocks, `Timestamp48`, `Address` | called by link, app |
| Link frames, `crates/dnp3-link` | none | constructors of frames, `encode`, `decode` | TCP, serial, sessions |
| Transport function, `crates/dnp3-transport` | `Reassembler`: `expected_sequence`, `buffer` | `fragment`, `push`, `reset` | both sessions |
| Application objects, `crates/dnp3-app` | none | `AppObject` and `ApplicationFragment`: `encode`, `decode` | both sessions |
| Master session, `crates/dnp3-master` | `transport_sequence`, `app_sequence`, a reassembler | `send_application`, `receive_application`, `integrity_poll`, `reset_transport` | a `MasterChannel` (async calls) |
| Outstation session, `crates/dnp3-outstation` | `transport_sequence`, a reassembler, the shared `Database` | `handle_frame`, `run_once` | an `OutstationChannel`; the database behind an `RwLock` |
| TCP, `crates/dnp3-tcp` | `TcpClient.connection`, `shutdown` | `connect`, `reconnect`, `send_frame`, `receive_frame`, `shutdown`; a server that accepts | the programs |
| Serial, `crates/dnp3-serial` | the port; a mock pair of queues | `read_frame`, `write_frame` | the programs |
| Polling over TCP, `examples/tcp_master.rs`, `examples/tcp_outstation.rs`, `examples/common/master_shared.rs` | position in the program | `wait_for_link`, `run_link_startup`, the poll loop; one task for each accepted connection | all of the above |
| Polling over serial, `examples/serial_*.rs`, `examples/common/master_shared.rs` | position in the program | `run_link_startup`, `run_poll_loop`; the outstation's loop | all of the above |
| Point database and CLI, `examples/common/outstation_shared.rs` | `Database` | `database_from_points`, `upsert` by the CLI thread | the outstation's tasks, by the lock |

What each has to get right:

* **Core codecs, link frames.** `encode`, `decode`, `encoded_payload_len` and
  both `read_frame`s each work out where the CRC blocks end, and must agree. A
  damaged frame must not pass, wherever the damage is.
* **Transport function.** A fragment arrives whole or not at all; the end of one
  is never glued to the beginning of another; no damage leaves the receiver
  unable to receive the next fragment.
* **Application objects.** What one side encodes the other decodes to the same
  points, up to the limits of `u8` and `u16`. Nothing ends an object but what
  its header says: each must take exactly its octets, a cut-off one must not
  yield points, and padding between two must not be taken for either.
* **Outstation session.** The answer goes to the asker, under the asker's
  sequence number, in segments that continue the numbering of the last ones;
  what was collected before a link reset has no part in a request after it; no
  error on any of the many `?` paths leaves half-changed state behind.
* **Master session and the TCP programs.** `integrity_poll` compares neither
  sequence numbers nor addresses, the client reconnects behind its caller's
  back, a timeout may cut a frame in two and keeps the connection: all the
  same, the picture shown must be the outstation's, and no older than the poll,
  and polling must come back after any fault.
* **Serial transport and programs.** There is no connection to drop: what one
  poll leaves on the line meets the next. A reader that lost its place in the
  octet stream must find the next frame without ever looking for one.
* **Point database.** An answer is of one version of the database, while the
  CLI thread changes it; what it says is what the operator was told.

The behaviours that are hard to test: a timeout against a late answer; the
silent reconnect in the middle of a call; two sessions whose sequence numbers
restart at different moments; lost and repeated segments around the 6-bit wrap;
octets lost inside a frame; changes of the database between two polls or
between two segments of an answer; a panic under a lock; a crash of either
program at any moment; the limits of the integers in headers and counts.
`PROJECT.json` lists them, each at its line.

## 2. The modules

| Module | Models | Kind |
|---|---|---|
| `Segmentation` | `fragment`, `Reassembler::push`, `reset` | operators |
| `Transport` | a sending session, a lossy repeating line, a receiving session | state machine |
| `LossyChannel` | what the transport function promises | abstract specification |
| `LinkFrames` | control fields and the frames sessions exchange | operators |
| `MasterSession` | the calls of `MasterSession`, as functions | operators |
| `OutstationSession` | `handle_frame` and all it calls, as functions | operators |
| `Outstation` | one session fed any frames by any masters | state machine |
| `TcpPolling` | `tcp_master`, `TcpClient`, one connection, `tcp_outstation`'s task, the operator, crashes | state machine, composition |
| `SerialPolling` | `serial_master`, a disturbed line with other stations on it, `serial_outstation`, the operators, crashes | state machine, composition |
| `PollService` | what polling promises the operator | abstract specification |
| `CoreCodecs` | CRC-16 and CRC blocks, octet by octet | operators |
| `LinkCodec` | the octets of a link frame | operators |
| `FrameStream` | `write_frame`, `read_frame` and the octets between them | state machine |
| `ObjectCodec` | point lists, object headers, range and index arithmetic | operators |
| `AppObjects` | every list of points over narrow integers | state machine over `ObjectCodec` |
| `FragmentCodec` | the octets of application fragments and objects | operators |
| `Codecs` | a link frame and a fragment under construction, and what the other side makes of their octets | state machine over `LinkCodec` and `FragmentCodec` |
| `PointDatabase` | the database, its lock, the CLI thread, the answering tasks | state machine |
| `PollTraffic` | the database as a response sees it, and what commands make of it; beside it, for the invariants of both polling modules, the frames of startup, poll and answer and what an orderly line is | operators |
| `TransportProofs`, `OutstationProofs`, `PointDatabaseProofs`, `SerialPollingProofs`, `TcpPollingProofs`, `AppObjectsProofs` | theorems on the module they are named after; `AppObjectsProofs` also the arithmetic and the lemmas on `ObjectCodec` that `PointDatabaseProofs` and `CodecProofs` need | proofs |
| `CodecProofs` | theorems on `Codecs` and `FrameStream` | proofs |
| `PollTrafficProofs` | lemmas on sessions, lines and sequence numbers, for the proofs of both polling modules | lemmas |
| `MC*` | constants for TLC | model checking |

There is one translation of each piece of code, and every run and proof is
about that one:

* `LinkFrames` extends `Segmentation`; `MasterSession` and `OutstationSession`
  extend `LinkFrames`.
* `PollTraffic` extends `MasterSession` and `OutstationSession`, and
  `TcpPolling` and `SerialPolling` both extend it, so they differ only in what
  lies between the sessions and in what the programs do about errors. Both
  refine `PollService`.
* `Outstation` extends `OutstationSession`.
* `LinkCodec` extends `LinkFrames` and `CoreCodecs`; `FrameStream` extends
  `LinkCodec`.
* `AppObjects`, `FragmentCodec` and `PointDatabase` extend `ObjectCodec`.
* `Codecs` extends `LinkCodec` and `FragmentCodec`.

### What is abstracted

* **Octets**, above the codecs. In the sessions an application fragment is a
  sequence of *chunks*, each standing for the octets of one segment; a
  segment's payload is one chunk or none, and a damaged frame is a lost one.
  That this is sound is what `codecs` and `frame_stream` check.
* **Requests.** A chunk says of its part of a request what the code looks at:
  function, sequence, whether it brings a class object, whether it decodes.
* **The database**, outside `PointDatabase`, is a version number and its
  *contents*, what a response would make of the points:

  | `contents` | The points | What a poll meets |
  |---|---|---|
  | `"readable"` | each list can be encoded and decoded | an answer |
  | `"unencodable"` | some list has more than 255 points and a gap (`crates/dnp3-app:505`) | `response.encode()?` fails (`crates/dnp3-outstation:254`); the programs log the error and send nothing, and the poll times out |
  | `"undecodable"` | the indices of some list run over the end of the range (`crates/dnp3-app:528`) | an answer that `ApplicationFragment::decode` of the master rejects (`crates/dnp3-master:159`) |
  | `"poisoned"` | a thread has panicked while it held the write guard | `database()` panics (`crates/dnp3-outstation:128`): over TCP the task ends and its connection is closed, over serial the program ends |

  An answer's chunks carry the set of versions their points come from.
  `handle_application` clones all groups under one read lock, so the set has
  one member or, without points, none. The polling modules take this from
  `PointDatabase`: `AnswerIsSnapshot`, checked in the run `point_database` and
  proved, shows that all vectors of an answer are of one version, also while the
  CLI thread waits to write.
* **Time.** A timeout may strike whenever nothing is on its way (then it is
  certain) or as a fault while something still is (then it races the answer).
* **Flags, values and times** of points are one datum, moved octet by octet in
  `FragmentCodec` and never interpreted.

### How state and actions correspond to the code

*Transport.* `tseq` is `transport_sequence`, `re` the `Reassembler`. `Send` is
`send_application` (and the second half of `encode_response`); `Receive` and
`Duplicate` run `push` and what `receive_application` does with its result;
`ResetReceiver` is `reset_transport`, or the reset of a `ResetLinkStates`. The
line is a history `log` with a position `head`, which lets the invariants speak
of the true place of a segment.

*Outstation.* `Receive(f)` and `ReceiveLinkReset(f)` are `handle_frame` on any
frame: any header bits, user data confirmed and not, empty user data,
acknowledgements gone astray, frames for others. `OutgrowEncoding` is the
operator adding points until `checked_count` fails, after which `encodable` is
false. `epoch` (link resets so far) and `next` (the segments sent since the last
of them, modulo the sequence space, counted from the frames and not from the
session) are history. The count of an answer's segments is cast to `u8` and added in `u8` before the mask
(`crates/dnp3-outstation:256`); `CountSpace` is the number of values of that
type.

*TcpPolling.* `pc` is the place in `tcp_master`'s `main` and the calls it
awaits: every `await` where something else can happen is a step boundary.

| Action | Code |
|---|---|
| `Connect`, `AlreadyConnected`, `ConnectFails` | `TcpClient::connect`, from `establish_link` and from inside `send_frame` and `receive_frame` |
| `Write`, `WriteFails` | `send_frame`: the first attempt, `ReconnectOnce`, the second |
| `Read`, `ReadFails`, `Timeout` | `receive_frame`: a frame, an error (reconnect once), a timeout (no reconnect) |
| `LinkAnswer` | `expect_link_ack` |
| `RejectAnswer`, `ContinuePoll`, `CompletePoll` | the ways a frame goes through `receive_application` and `integrity_poll`; an answer is rejected when it has no octets or does not decode |
| `BeginPoll` | `integrity_poll` up to its first `await` |
| `Fail`, `Retry` | the error arms of `wait_for_link` and of the poll loop |
| `ServerRead`, `ServerWrite` | the task of `tcp_outstation`: one frame read and handled, errors of `handle_frame` logged; one frame written |
| `ServerPanics` | the task asks for a guard of a poisoned lock |
| `IdleClose` | the read timeout of that task, between two polls |
| `Update` | `handle_cli_line` under the write lock; the command may make the points any of `Contents`, but never an unencodable list encodable (`AfterCommand`) |
| `Poison` | the same, when its `println!` panics because nobody takes the output (`examples/common/outstation_shared.rs:367`); the CLI thread is gone with it |
| `Break`, `Crash`, `Restart` | the network and the processes |

`garbled` says that a timeout has taken the beginning of a frame out of the
stream (`read_exact` is not undone when its future is dropped). What is left of
an acknowledgement is shorter than a header, so the next read waits: it fails
when another frame follows, and a second timeout takes the rest away. A
connection the client has dropped leaves the model: its task can only read the
database and nobody hears it. `IdleClose` is a fault when the poll interval is
shorter than the read timeout, and costs nothing when `IdleCloses` says that it
is longer. Once nobody takes the output of `tcp_outstation`, its next `println!`
ends it, and so a poisoned outstation crashes without a fault. A new process
has the points of a command line, any of `Contents`.

*SerialPolling.* `pc` is the place in `run_link_startup` and `run_poll_loop`.
`m2o` and `o2m` are the two directions of the line: frames, and `Noise` for
octets that begin no frame.

| Action | Code |
|---|---|
| `BeginPoll`, `Write`, `WriteFails` | `integrity_poll`, `write_frame` |
| `Read` with `LinkAnswer` or `PollAnswer` | `read_frame`, then `expect_link_ack` or `receive_application` |
| `ReadNoise` | a `read_frame` that finds no frame: an error, after taking as much of the line as a length octet in the noise says |
| `Timeout` | the timeout of the port, which takes what has arrived of a frame |
| `Fail` | `?` in link startup ends the program; a failed poll restarts the link |
| `StartAgain` | the operator starts `serial_master` once more |
| `ServerRead`, `ServerReadNoise`, `ServerWrite` | the loop of `serial_outstation`; a failed write is logged and the next frame written |
| `Disturb` | a frame damaged or lost, or one of another station |
| `Update`, `Poison` | as over TCP |
| `Crash`, `ServerPanics` | the program ends, by itself or by the panic of its one reading thread, and is started again at once (`NewOutstation`) with the points of its command line; it may find the line in the middle of something |

*FrameStream.* `line` holds the octets written and not yet read; `ReadHeader`
and `ReadRest` are the two `read_exact`s of the serial `read_frame`, `fixed` the header
it holds between them. `LoseOctet` and `DamageOctet` disturb the line;
`Timeout` drops whatever a `read_exact` had taken. `inStep` is history: how many
frames had been sent and heard at the silence the reader has been in step
since, `None` while the line is disturbed.

*PointDatabase.* `ReadCommand`, `SetPoint`, `Confirm` are `handle_cli_line`: a
line that sets a point, the write guard and `upsert`, the `updated ...` printed
with the guard still held. `PrintPanics` is the `println!` that panics, which
poisons the lock. `BeginAnswer`, `CopyVector`, `EndAnswer` are a task in
`handle_application` and `integrity_objects`: the read guard taken, one vector
cloned, the guard dropped. `expected` is history: what the operator was told.

*Codecs.* `EncodeFrame` and `DecodeFrame` are `LinkFrame::encode` and `decode`;
`Crc16`, `EncodeCrcBlocks`, `DecodeCrcBlocks` those of `dnp3-core`. `Encode` is
`encode_binary_like` and its two siblings, `Decode` the three
`decode_*_points`, `DecodePacked` the two packed decoders; `EncodeFragment` and
`DecodeFragment` put headers, groups, variations and event times around them.
The state of `AppObjects` and of `Codecs` is the list, payload or fragment
under construction, so that every one up to the bound is visited.

## 3. Runs

| Run | Properties | Distinct states |
|---|---|---|
| `transport` | `TypeOK`, `NoSplice`, `FullInv`, `IntactDelivered`, `ImplementsLossyChannel` | 109 021 |
| `outstation` | `TypeOK`, `ResetIsolation`, `ResponsesNumbered`, `NeverDeaf`, `IInv` | 1 560, each with about a thousand frames |
| `tcp_polling` | `TypeOK`, `IInv`, `AnswersItsPoll`, `ImplementsPollService`, `Recovers` | 270 503 |
| `serial_polling` | `TypeOK`, `IInv`, `NothingLeftOver`, `AnswersItsPoll`, `ImplementsPollService`, `RecoversOrStops` | 66 109 |
| `frame_stream` | `TypeOK`, `NothingInvented`, `InStep` | 454 514 |
| `codecs` | `FramesRoundTrip`, `DamageNoticed`, `CrcIsRemainder`, `FragmentsRoundTrip`, `CutNeverInvents`, `PaddingSkipped`, `EventsReadAlike` | 13 714 |
| `app_objects` | `FaithfulOrRejected`, `RangesAgree` | 82 742 |
| `point_database` | `TypeOK`, `IInv`, `AnswerIsSnapshot`, `ShowsWhatWasConfirmed`, `OnlyNewIndicesSilence`, `CommandsFinish` | 94 465 |
| `tcp_polling_idle`, `serial_polling_continuous`, `app_objects_round_trip`, `point_database_repeat` | one violated statement each, see section 6 | |

* `IInv`, and `FullInv` of `Transport`, are the inductive invariants of section
  5, checked here on the small instance.
* `NoSplice`: whatever is lost, repeated or reset, a fragment handed up is one
  that was sent, whole. `IntactDelivered`: a fragment whose segments arrive in
  a row is handed up, whatever came before. `ImplementsLossyChannel`: the
  sessions and the line refine a channel that may lose or repeat a message and
  never brings one after a later one.
* `ResetIsolation`, `ResponsesNumbered`, `NeverDeaf` are checked in every
  reachable state against *every* next frame, so they are statements about one
  step after any history.
* `AnswersItsPoll` is the property the code has no check for. Over TCP it holds
  because a failed poll drops the connection and a new connection has a new
  session with nothing on its way. Over a serial line nothing is dropped, and
  it holds because link startup after a failed poll flushes the line: both ends
  take frames in order, so whatever is late comes before the acknowledgements,
  is taken for a failed startup, and ends the program (`NothingLeftOver`). A
  master that went straight on to the next poll would break it in both
  (mutants `FailPollsOn`). `ImplementsPollService` states the consequence for
  the operator.
* `Recovers` (TCP): there is always another poll, whatever the operator has
  done to the points, and if they are readable from some time on, then from
  some time on no poll fails. `RecoversOrStops` (serial): the same, or the
  program has ended; it never hangs. The condition is needed: while the points
  are unencodable or undecodable, or the lock is poisoned, no poll succeeds,
  without any fault of the network, and only a new command, or a new start of
  the outstation, can change that. What silences an outstation in this way is
  never a change of a point that is there (`OnlyNewIndicesSilence`).
* `NothingInvented`: a reader in the middle of a frame, after damage to any
  octet, never hears a frame that was not sent, nor one twice. `InStep`: after
  a silence of one timeout it hears every frame again, in order, and holds
  nothing but octets of the frames it has yet to hear, although it never looks
  for start bytes; it is what makes `Noise` in `SerialPolling` right.
* `DamageNoticed`: no damage to one octet or two in a row, the length octet
  included, passes. `CrcIsRemainder`: `crc16`, shift by shift, computes
  the remainder of a polynomial division by the generator of IEEE 1815, stated
  independently in `Codecs`.
* `FragmentsRoundTrip`: every object takes exactly its own octets, whatever is
  before and behind it, and only a range that wraps makes a fragment
  unreadable. `CutNeverInvents`: a fragment cut anywhere is an error or lacks
  its last objects. `PaddingSkipped`, `EventsReadAlike`: runs of four zeros
  between objects, and the times of events, change nothing. A list is sent as
  events under a count of one octet, so `EventsReadAlike` is about lists of up
  to 255 points (`HasEvents`).
* `FaithfulOrRejected`: a list decodes to itself or is rejected by one of the
  sides. `RangesAgree`: `Range8`, `Range16` and packed bodies mean the same.
* `AnswerIsSnapshot`: all vectors of an answer are of one version, the current
  one. `ShowsWhatWasConfirmed`: it shows each point configured or added, once,
  with the last value whose change was confirmed to the operator.
  `OnlyNewIndicesSilence`: a command that changes a point that is there never
  makes a database unreadable. `CommandsFinish`: polls cannot keep a command
  waiting for ever.

**Bounds.**

* Sequence spaces of 3 instead of 64 and 16: fragments of four segments and
  runs of several fragments then wrap, and a burst of two lost segments is the
  longest the numbering can tell. The proofs cover every size, and every number
  of faults, updates, commands and resets.
* Two chunks for a full answer in the polling modules make an answer of several
  segments, which a break can cut. In `outstation` it has 11, with a count of 6
  values (`CountSpace`): the cast of the count is then truncated and the sum
  overflows, as it does in the code from 256 segments on.
* Over TCP, three faults suffice for a fault during the recovery from one
  during the recovery from another. Over serial there are two, a fault during
  the recovery from another, and the master is started again once. A panic
  under the write guard is one of the faults.
* Both polling runs start from points of every kind of `Contents` and have one
  `Update` (`MaxUpdates`) beside the changes that come with a crash or a panic:
  points that are never readable, that become readable, that cease to be, and
  that are again after a restart.
* For the outstation, requests of at most two collected chunks and one link
  reset distinguish before and after; more resets repeat.
* `frame_stream`: three frames, without payload or with one that looks like the
  start of a frame, and two faults; damage turns an octet into a short length
  (5), a long one (20), the second start byte (100) or zero. CRC blocks have 2
  octets instead of 16, so that three octets of payload are two blocks.
* `codecs`: every control field, payloads of up to three octets out of 0, 100
  and 255 (one block and two, whole and not), damage 1, 128 and 255; fragments
  of up to two objects of every type, with indices at both ends of the range, a
  gap, and a wrap; up to two runs of padding.
* `app_objects`: a `u8` of 4 values, a `u16` of 7 and two packed points in an
  octet put every limit (count, byte range, index range, a body's last partly
  filled octet) within four points. Lists longer than the index space are left
  out (`BoundAssumption`): an index would have to be in them twice.
* `point_database`: a `u8` of 3 and a `u16` of 4 values, two groups, two tasks
  and two commands: a list can come to have a gap and too many points, wrap, or
  both, while two answers are under way.

**Deadlock** is checked where the system never stops: `transport`,
`outstation`, `tcp_polling`. It is off where it may: the list, payload or
fragment is complete (`app_objects`, `codecs`), all frames are read
(`frame_stream`), the serial master has ended (`serial_polling`), every task
and the CLI thread have panicked (`point_database`).

**Fairness.**

* `TcpPolling`: the tokio runtime polls both tasks, hence weak fairness of the
  master's and of the server's steps. Somebody restarts a dead outstation: weak
  fairness of `Restart`; without that nothing can recover. TCP gives up
  retransmitting: strong fairness of `WriteFails \/ ReadFails`. The last one
  matters: during link startup the master keeps its connection after a timeout,
  and only an error of the operating system makes `TcpClient` replace it.
  Without it TLC shows a master that retries on a dead connection for ever, so
  recovery from a silently lost connection takes as long as the system's
  retransmission limit, whatever `--timeout-ms` says.
* `SerialPolling`: weak fairness of both programs' steps. Nobody need start
  again a master that has ended. An outstation that has ended is started again
  in the same step, as the line does not tell when.
* `PointDatabase`: the operating system runs the threads: weak fairness of the
  CLI thread once it has a command, and of each task once it has its guard.
  There need never be another poll or command.

## 4. Assumptions

* `BurstAssumption` (`Transport`): the line loses fewer segments in a row than
  the sequence space has numbers. It is necessary: after 64 lost segments the
  next one has the number the receiver waits for, and TLC finds a splice at
  once when `MaxBurst` is `SeqSpace`. `receive_application` and `handle_frame`
  do nothing to exclude it; over TCP nothing is lost, over a serial line 64
  frames in a row would have to be.
* The line repeats only the segment it brought last, as a sender does that did
  not get its link acknowledgement.
* `CountAssumption` (`OutstationSession`): the values of a `u8` are a multiple
  of the sequence numbers, 256 of 64. That is why the overflow of
  `crates/dnp3-outstation:256` does no harm in a release build, where it wraps.
  A debug build panics when the sequence and the count of segments exceed 255
  together, from 193 segments on; the models follow the release build.
* `WidthsAssumption` (`Codecs`): a `u8` has 256 values and a `u16` 65536, as the
  octets of a header and the little-endian indices have. The modules below it
  leave both widths open.
* `ObjectsAssumption` (`Codecs`): the objects of a fragment are those an
  `AppObject` can hold and `encode` does not refuse: lists of points with
  indices in a `u16` and as many octets of flags and value as their type is sent
  with, class scans 0 to 3, a time of six octets, the integrity poll.
* `StrayAssumption` (`SerialPolling`): frames of other stations on the line are
  not for this master and are no acknowledgements. `expect_link_ack` does not
  look at addresses and would take a stranger's acknowledgement for its own.
* `Patient` (`SerialPolling`): the operator starts a serial master again only
  when the line has become quiet. It is necessary: with `Patient = FALSE`,
  three faults and three restarts TLC finds `ImplementsPollService` violated.
  The numbering restarts at 0 in every process, and the late answer to a poll
  of an earlier one is then an answer like any other. So the properties of
  `serial_polling` say nothing of a master started again on a busy line; no
  document of the repository promises anything there, and no run reports it.
* `ContentsAssumption` (`PollTraffic`): what a command line or a command makes
  of the points is readable, undecodable or unencodable. That these are all the
  ways there are is what `FaithfulOrRejected` and `FragmentsRoundTrip` say. The
  theorems hold for any choice of them.
* `EveryOptionOnce` (`PointDatabaseProofs`, and the command lines of the run
  `point_database`): no point is given twice on a command line. It is necessary
  for `ShowsWhatWasConfirmed`, see section 6, and for nothing else.
* Other stations' frames are faults and so bounded. A station that never stops
  sending to others keeps `receive_application` waiting for ever, since each
  frame restarts the timeout of the port (`crates/dnp3-master:152`).
* `FrameStream`: no payload contains the encoding of a whole frame, with its
  CRCs; a reader that starts there would take it for one. The timeout is that
  of the port and applies to each read, so one inside a frame needs a gap of
  that length between two octets. On a line that is never silent for that long
  a reader out of step may stay so for ever, and a damaged length octet makes
  it take the frames that follow for the rest of this one.
* `RwLock` lets no new reader pass a waiting writer (`BeginAnswer`), as the
  standard library's does on the platforms it has its own lock for. Its
  documentation promises no such thing, and `CommandsFinish` depends on it.

## 5. Proofs

Every safety invariant and every action property of `transport`, `outstation`,
`tcp_polling`, `serial_polling`, `app_objects` and `point_database` is a
theorem, and so are the three refinements, everything `codecs` checks, and what
`frame_stream` checks except for `NothingInvented`. TLC checks each on the
instance of section 3; the theorems hold for every value of the constants that
satisfies the `ASSUME`s of the modules: any sequence space, any integer width
below the octets and any size of a CRC block, any payload up to the limit of
the length octet, any list of objects, any number of messages, masters, tasks,
groups, faults, crashes, panics, commands, updates and resets, responses of any
length, whatever commands make of the points.
Three hypotheses are not an `ASSUME`, and
stand in the theorems that need them: `EveryOptionOnce`, `Patient`, and a limit
on the length of a response, each explained below.

| Module | Theorem | States |
|---|---|---|
| `TransportProofs` | `Invariance`, `FullInvariance` | `[]IInv`, `[]FullInv` |
| | `TypeCorrectness`, `NeverSpliced` | `[]TypeOK`, `[]NoSplice` |
| | `IntactIsDelivered` | `IntactDelivered` |
| | `Refinement` | `ImplementsLossyChannel` |
| `OutstationProofs` | `Invariance`, `TypeCorrectness` | `[]IInv`, `[]TypeOK` |
| | `ResetsIsolate`, `NumberingHasNoGap`, `NeverDeafForever` | `[]ResetIsolation`, `[]ResponsesNumbered`, `[]NeverDeaf` |
| `AppObjectsProofs` | `EncodeDecode` | what `Encode` makes of a list of up to `IndexSpace` points decodes to that list, or to nothing |
| | `Lists` | `[]PointsOK`, on which the next two rest, for lists of up to `IndexSpace` points (`BoundAssumption`) |
| | `NeverAnotherList`, `RangesReadAlike` | `[]FaithfulOrRejected`, `[]RangesAgree` |
| `PointDatabaseProofs` | `Guarded`, `TypeCorrectness` | `[]GuardInv`, `[]TypeOK` |
| | `Snapshot`, `ChangesNeverSilence` | `AnswerIsSnapshot`, `OnlyNewIndicesSilence`; like `Encode`, meant for lists of up to `IndexSpace` points |
| | `Invariance`, `ShowsTheConfirmed` | if `EveryOptionOnce`: `[]IInv`, `ShowsWhatWasConfirmed` |
| `SerialPollingProofs` | `Invariance`, `TypeCorrectness`, `StartsClean` | if `Patient`: `[]IInv`, `[]TypeOK`, `[]NothingLeftOver` |
| | `AnswersThePoll` | if `Patient` and `ResponseChunks <= SeqSpace + 1`: `AnswersItsPoll` |
| | `Refinement` | if `Patient`: `ImplementsPollService` |
| `TcpPollingProofs` | `Invariance`, `TypeCorrectness` | `[]IInv`, `[]TypeOK` |
| | `AnswersThePoll`, `Refinement` | `AnswersItsPoll`, `ImplementsPollService` |
| `CodecProofs` | `FramesRead`, `DamageSeen`, `CrcDivides` | `[]FramesRoundTrip`, `[]DamageNoticed`, `[]CrcIsRemainder` |
| | `FragmentsRead`, `PaddingHarmless` | `[]FragmentsRoundTrip`, `[]PaddingSkipped` |
| | `CutsRead`, `EventsRead` | `[]CutNeverInvents`, `[]EventsReadAlike` |
| | `ReaderTyped`, `ReaderInStep` | `[]TypeOK` and `[]InStep` of `FrameStream` |
| | `NothingInventedUndisturbed` | `NothingInvented` as long as there are no faults |

Each invariant is proved the same way: one lemma for each action or group of
actions says that it keeps the invariant, and `Invariance` puts them together.
What follows says what the invariants add to the properties, and why.

**Transport.** `NoSplice` alone is not inductive: it says nothing of what the
reassembler has collected. `IInv` adds why the next segment may be appended:

1. `tseq` is the length of the log modulo `SeqSpace`, so the number of the
   segment at place `p` is `(p - 1) % SeqSpace` (`LogOK`);
2. every segment in the log is chunk `k` of a message, and the one before it is
   chunk `k - 1` when `k > 1` (`LogOK`);
3. a non-empty buffer is the first `k` chunks of the message of the segment at
   place `seen`, and `expected_sequence` is `seen % SeqSpace` (`ReassemblyOK`);
4. at most `MaxBurst < SeqSpace` segments after `seen` have left the line.

If a segment at place `p` is not a first one and has the expected number, then
`p - 1` and `seen` agree modulo `SeqSpace`; by 4 they differ by less than that,
so they are equal (`ModEqual`), and by 2 the segment is the next chunk. If it
is the last one, the buffer becomes the whole message (`AcceptKeeps`).
`FullInv` adds that the log is in the order of the messages, and the message
last handed up has a segment up to place `seen` (`InOrder`), from which the refinement of
`LossyChannel` follows; and that while segments arrive in a row, the
reassembler holds the beginning of the message the row is in (`RunOK`), from
which `IntactDelivered` follows.

**Outstation.** `IInv` says that what is collected is of the current epoch, and
that `session.tseq = next`: `transport_sequence` has counted every segment
sent. That the latter survives an answer of any length is `CountWraps`: casting
the count to `u8` and adding in `u8` changes nothing modulo `SeqSpace`, because
`CountSpace` is a multiple of it (`CountAssumption`). The lemmas `PushKeeps`,
`EncodeResponseKeeps`, `HandleUserDataKeeps`, `HandleConfirmedKeeps` and
`HandleFrameKeeps` follow the calls of `handle_frame` from the inside out, on
the successful paths and the failing ones.

**Object codec.** `EncodeDecode` goes through the three encodings of a list: a
range (`ContiguousRange`: the indices counted up from `start` to `stop` are
those of the list unless `stop < start`), prefixed points (`PrefixedGives`),
and none. Packed bodies rest on `RowOf` and `PackedBody`: slot
`(i - 1) % Slots` of octet `(i - 1) \div Slots` is point `i`.

**Point database.** `GuardInv`: a task that has copied something holds a read
guard, what it has copied equals those vectors of the database, and while a
command holds the write guard, or the lock is poisoned, nobody holds a read
guard. `IInv` adds that no index occurs twice in a group and that a group is
what the operator was told of it, with the command now being confirmed
(`WillKnow`). This needs `EveryOptionOnce`, that no command line gives a point
twice: without it the run `point_database_repeat` violates the property, and it
is what section 6 reports. `Snapshot` and `ChangesNeverSilence` need no such
hypothesis.

**Polling over a serial line.** Nothing but link startup stands between the
answers of one call and the next, and `Traffic` says for each place of the
master's program what may be on the line. The core is `Orderly`: a last
acknowledgement, request or answer segment has nothing but harmless frames
behind it on the whole way, from the line to the outstation, through what the
outstation has yet to write, to the line to the master. When the master has
read the acknowledgement of its reset, everything older has been read or is
gone; so after both acknowledgements the line is clean, which is
`NothingLeftOver`. `Disturb` may take frames out anywhere, or change them;
`Worn` describes what is left, and order survives it. `Patient` is necessary,
see section 4.

What the points are like costs the invariant one thing only: an answer may be
of points that do not decode (`Reported`), and `ReceiveApplication` then makes
an error of its last segment. Responses that fail to encode and tasks that
panic put fewer frames on their way, which order survives as well.

An answer may lose segments, and what is left of it be accepted as whole when
the number that follows the gap is the one expected. With 64 numbers this takes
64 lost segments in a row out of one answer, with the first and the last
received; `AnswersThePoll` therefore asks for responses of at most
`SeqSpace + 1` segments, 65 in the code, some 16 KB of points. The refinement
does not need it: which points an answer has is a matter of version, and all
of its segments are of one.

**Polling over TCP.** When a poll begins, nothing but frames of link startup is
on the connection, and of these only acknowledgements reach the master
(`OnlyStartup`), because every failed call of `integrity_poll` drops the
connection (`Fail`), and an answered poll leaves nothing behind. When the
outstation has answered, frame `i` on its way is an acknowledgement or segment
`offset + i` of the answer, and the master has the segments before (`Answered`;
`offset` is negative while acknowledgements are in front). A master that reads
an acknowledgement here fails the poll, and so does one that a timeout strikes;
a connection that breaks loses the end of the stream, never a part of its
middle. So the segments a master collects are always the first ones, in order,
and the one with FIN is the last of them. No bound on the length of a response
is needed.

**Recursion.** What the CRC, the blocks and the concatenation of octets compute
is a recursive function or a fold. An induction theorem that takes a predicate
as a parameter cannot be instantiated, so `CodecProofs` states induction for a
*set* of numbers (`SetInduction`: a set that has 0, and `n + 1` with each `n`,
has all of them; from the well-foundedness of `<`). A `CHOOSE`-defined
recursive function is known only when one that satisfies its equation exists;
`RecursionExists` builds it, and the folds behind `FlattenSeq` are reduced to
it once (the `Flatten...` lemmas).

**Link frames.** `ControlRoundTrip` goes through the function codes with the
four bits above them; `BlocksRoundTrip` shows that block `i` of `n` octets
begins behind `(i - 1) * (BlockSize + 2)` octets on the wire, for encoder and
decoder alike, the last and shorter block included. `FrameRoundTrip` combines
them, and its length is what `read_frame` asks for.

**Damage.** A shift of the register can be undone, because the highest power of
`Polynomial` is set; so registers that differ go on to differ while the octets
that follow are the same. Two octets in a row that differ cannot cancel either:
the first leaves a difference in the upper half of the register (`HighBit`),
and the next octet of data reaches the lower half only (`OctetApart`,
`RegistersApart`, `CrcApart`). When the damage strikes the last octet of a block
and the first of its CRC, the CRCs differ in the second octet as well, which is
that upper half (`CrcOctetsApart`, `HighOctet`). Damage that begins in a CRC
leaves a block whose octets are intact and whose CRC is not. `HurtBlocks` and
`HurtFrame` look at each place of a frame; damage to the length octet is damage
to the header, whose CRC is checked before the length is used.

**The CRC.** `CrcDivides` relates the register to a polynomial division by an
invariant of both: after `i` octets the register is, bits mirrored, the
remainder of the message so far with the powers below 16 left open
(`RemainderOfMessage`); a shift is one step of the long division (`ReducedOnce`).

**The reader.** `ReaderTyped` has the type of what is heard from `DecodeFrame`,
which returns nothing but frames with a control field that exists and a payload
within the limit, whatever the octets. `ReaderInStep` is inductive as it
stands: while the reader is in step, what it holds and the line are the octets
of the frames to come; the first `HeaderOctets` of them are a header that says
how many are left of that frame (`HeaderFirst`), those are there as the line
holds whole frames, and `FrameRoundTrip` says what they decode to. A `Timeout`
with an empty line can strike only when no frame is to come.

**Fragments.** The four theorems share one view of the octets: a sequence of
objects, each followed by some runs of zeros (`Stream`), read from place to
place.

1. The parser calls itself at a place that depends on what the object before it
   said. Its result is a function over places, defined by `CHOOSE`; one that
   satisfies the equation exists because each place needs only places further
   on (`LooksBehind`, `ParseExists`: an object takes at least the three octets
   of its header).
2. `IsObject(w, x, bad)` says that the octets `w` are read as the object `x`,
   or, when `bad`, as none, whatever stands behind them: a header that says how
   its body is laid out, and a body that is laid out so. `ObjectFound` reads
   such an object where it stands, and finds that it is not there when the
   octets end too early.
3. Every object sent is one (`ObjectSent`), by its qualifier and kind of body:
   prefixed points, a range, or nothing. What the list becomes is
   `AppObjectsProofs`, instantiated. So is every list as events
   (`EventObject`), with a suffix behind each point.
4. A header never begins with a zero, for no object sent has the group 0, and
   so exactly the runs of zeros are skipped (`ZerosSkipped`, `AfterObject`).
5. `StreamRead` and `StreamCut` go through the objects from the last to the
   first, by `SetInduction`; a cut leaves whole objects and part of one, which is
   an error, or nothing at all when fewer than three octets are left.
6. `FragmentRead` and `FragmentCut` put control, function code and indications
   in front. That each `fragment` holds only objects of `Objects` is the
   invariant, `FragmentTyped`.

**Only model-checked**, and why:

* `Recovers`, `RecoversOrStops`, `CommandsFinish` and `PollsContinuously` are
  liveness under fairness, out of the prover's reach.
* `NothingInvented` (`FrameStream`) on a line with faults: it is not true of
  every payload and every damage. A payload may hold the octets of a whole
  frame, and a CRC may match by chance; the run shows that neither happens with
  the frames it sends. Once the reader is in step it is part of `InStep`.
* `RoundTrips`, and `ShowsWhatWasConfirmed` without `EveryOptionOnce`, do not
  hold; see section 6.

## 6. What the violated runs show

* `tcp_polling_idle`: with a poll interval longer than the outstation's read
  timeout, the outstation closes the connection between any two polls, and the
  master's next poll can lose its request to the closed one and wait for the
  answer on a new one (`crates/dnp3-tcp:171`). When that happens every time, no
  poll after the first ever succeeds, without any fault.
* `serial_polling_continuous`: link startup that fails ends `serial_master` for
  good (`examples/common/master_shared.rs:183`): one fault can be enough.
* `app_objects_round_trip`: indices 65535, 0 are encoded as a range that does
  not decode (`crates/dnp3-app:528`), against the round trip the property test
  of that crate states for any list.
* `point_database_repeat`: a point given twice on the command line is two
  points with one index; a command then changes the first of them only, and
  masters go on seeing the old value as well
  (`examples/common/outstation_shared.rs:261`).

Also seen, where no document of the repository says otherwise:

* The acknowledgement of confirmed user data is lost when handling the data
  fails (`crates/dnp3-outstation:181`). No program here sends confirmed data.
* After a link startup that timed out on TCP, a late answer to the first reset
  can count as the answer to the test
  (`examples/common/master_shared.rs:115`). The startup then ends early and the
  next poll fails on the acknowledgement left over; `Recovers` shows that it
  ends there.
* `println!` panics when standard output is gone. In the CLI thread that
  poisons the database lock, and every task that answers a poll from then on
  panics too (`examples/common/outstation_shared.rs:367`). Over TCP each such
  poll finds its connection closed; the client reconnects silently, and the
  poll times out, or fails because the outstation has ended at its next
  `println!`.
* An operator who adds a point too many silences the outstation: the error of
  `encode` (`crates/dnp3-outstation:254`) is logged there, and the master sees
  polls that time out. One who adds index 0 to a list that counts up to 65535
  makes each answer one that the master cannot decode. No command repairs the first.
* `ClassScan(Class0)` and `IntegrityPoll` are the same object on the wire: the
  first decodes to the second.

## 7. Plan

Done: all modules of section 2, and the theorems of section 5, which cover
every safety property and refinement of seven of the eight passing runs, and of
the eighth, `frame_stream`, all but `NothingInvented` on a disturbed line.

Not modelled, and why:

* `Timestamp48::from_millis`: no program makes a time stamp. Flags, values and
  time stamps are moved and never interpreted.
* Argument parsing, printing, log lines, `scripts/` and the tests: input and
  output only. A command line that does not parse changes nothing.
* Commands and panics beside those of `Contents` and `Poison`: with
  `--verbose` the tasks print as well, without a guard, and a task whose output
  is gone ends like one that panics on a poisoned lock. A poll that finds the
  lock poisoned is the same to the master.
* Panics of the master, which ends with it and keeps nothing; over TCP its
  successor begins on a new connection, as after a failed poll.
* `TcpClient::shutdown` and `OutstationSession::run_once`: no program calls
  them. The mock serial endpoint is for tests.
* `write_all` that blocks on a full socket buffer (`crates/dnp3-tcp:99`):
  streams of the model are unbounded.
* A connection that breaks in one direction only
  (`examples/tcp_outstation.rs:124`), and requests of several segments sent
  over two connections (`crates/dnp3-tcp:171`): this master's requests are one
  segment long.
