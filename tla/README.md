# A verification project for the game streamer agent

TLA+ models of the game-streaming agent and its client library, the TLC
configurations that check them on small instances, and TLAPS proofs of what
matters most for every instance. Paths are relative to `src/crates/` of the
repository.

The program streams a desktop or a game from an agent to a client over QUIC.
Video and audio travel as unreliable datagrams with forward error correction;
everything else (requests, feedback, announcements, input) on one reliable
control stream. Two things make it hard to test. A lost datagram is repaired by
parity, by a retransmission, by a re-reference inside the encoder or by a
keyframe, and the four ladders run at the same time in different tasks of two
processes. And everything around the stream is concurrent too: a session may be
stopped, a peer revoked, a connection lost or a driver gone at any step of any
thread.

## Inventory

| Component | State it keeps | Operations | Correct when | Modelled by |
|---|---|---|---|---|
| Frame reassembly `client-core/src/reassembly.rs` | pending frames, held frames, last released id, counters | `push` with `drain`, `prune_older_than`, `prune_oldest` | releases in id order across the wrap, bounded, never holds a frame without cause, never reopens a released frame, counts every frame once | `Reassembly`, `VideoStream` |
| FEC and datagrams `protocol/src/fec.rs`, `datagram.rs` | none | layout, encode, reconstruct, chunk, headers | groups partition the frame, the promised number of losses is survived, what is rebuilt is what was sent | `FecLayout`, `ErasureCode`, `WireFormat` |
| Loss-recovery ladder `client-core/src/lib.rs` (gate), `session/src/pipeline.rs`, `encode-*` | client: frozen or not, last frame, last delivered, recovery point; agent: IDR flag, request, point to announce, references | encode iteration, backlog drop, request, announce, gate | an announced point is really safe; the gate never feeds the decoder a frame with a missing reference | `LossRecovery` |
| Transport sequence, NACK, feedback `pipeline.rs`, `client-core/src/lib.rs`, `session/src/bwe_driver.rs` | send history, retransmission ring; highest sequence, requested set, batch; records pending a verdict | send, retransmit, `record_arrival`, `take_upto`, `on_feedback` | one verdict per datagram, none forgotten, a NACK asks once for what is missing | `Feedback` |
| Bandwidth estimator `session/src/bwe` | rate control, capacity memory, loss controller, filters | feedback batch, tick, probe result | spikes spare, congestion bites, a measured probe is adopted | `Bandwidth`, `LossController`, `PathMeters` |
| Probe controller `session/src/bwe/probe/control.rs` | state, tracked drop, back-off | tick, `maybe_probe` | a collapse is tracked, no probe repeated while its answer may come, probing resumes | `Probing` |
| Session control, registry `session/src/service.rs`, `state.rs` | session, ABR flag, ceiling, estimate, FEC ratio; sessions and connections | one arm per message, tick, announcement | rates within bounds, nothing leaks, nothing of an ended session steers the next | `SessionControl` |
| Pipeline threads `pipeline.rs`, `audio_pipeline.rs` | stop flag, threads, directives | start, encode, send, stop and join | stop ends, a keyframe owed is paid | `PipelineThreads` |
| Frame channel `capture-api/src/sink.rs` | depth-1 slot, condition variable, closed flag | submit, receive, close | newest frame wins, no wake-up lost for good | `FrameChannel`, `LatestFrame` |
| Client session `client-core/src/lib.rs`, `stats.rs` | tasks, channels, statistics | connect, start, receive, close | ends in every way it may end, requests cite what the gate let through | `ClientSession`, `ClientStats` |
| Pairing, peers, admin `session/src/pairing.rs`, `admin.rs`, `transport/src/peers.rs`, `pairing.rs` | window with code and attempts; peer file; live connections | begin, exchange, list, revoke | no scope beyond the authorized, guesses bounded, a revoked peer stays out and its connections are closed | `Access`, `PeerTrust`, `AdminApi` |
| Identity, framing, logs `transport/src` | identity files, log ring | load or create, frame, push | identity stays, messages arrive whole, lines in order | `PeerTrust`, `WireFormat`, `AdminApi` |
| Encoders and decoders `encode-*`, `decode-*`, `client-dev/src/decoder*.rs` | driver handles, references, owed IDR, parameter sets | open, submit, next chunk, invalidate, set rate, close | handles released on every error path, an owed IDR is paid, access units split exactly | `VideoEncoders`, `VideoDecoders` |
| Capture and sources `capture-*`, `sources`, `agent/src/factories.rs` | capture session, audio thread, resampler, generator | start, frame, stop | nothing left behind, frames have the size they say, every source meets its encoder | `LoopbackAudio`, `DesktopCapture`, `HostMedia` |
| Input `input`, `client-dev/src/*_capture.rs` | keys and modifiers down, pads plugged, clicks | inject, poll | no key stuck, the host's seat agrees with the client, every key is one key of the host | `Input`, `HostInput` |
| Client embeddings `client-ffi`, `client-dev` | handle, threads; window, toast, knob | start, stop, events | quiet after stop, one end told once, cursor maps to the picture | `ClientSession`, `DevClient` |

How they interact. The capture source publishes frames into the depth-1 slot;
the encode thread takes the newest, applies the atomics the session loop and the
sender set (`force_idr`, `recovery_request`, bitrate), and passes chunks to the
sender task over an unbounded channel. The sender chunks, stamps, paces and
records; the session loop reads control messages, joins feedback with the send
history, runs the estimator and the probes on its tick and announces recovery
points. On the client the receive task records arrivals, reassembles and forwards
frames to the gate, which is driven by whoever calls `recv_frame` or
`recv_encoded`; a control reader task stores recovery points in an atomic. All
these are separate tasks or threads: every arrow is a place where steps
interleave. The hazards, line by line, with the properties that watch them, are
in `PROJECT.json`.

## Modules

Two kinds. *State machines* have variables and one action per handler or step;
their properties are checked over all behaviours in bounds. *Function modules*
model code whose state one caller owns: a state is a record and an operation maps
it to the state after it, or to the set of outcomes where a call of the operating
system, a driver or the network may fail. The `MC` modules state facts about them
as named assumptions, which TLC evaluates when it starts a run; `Exploration`
gives the steps met within a number of operations.

| Module | What it is | Checked in |
|---|---|---|
| `Reassembly` | the reassembler, one action per path of `push` | `reassembly` |
| `OrderedDelivery` | abstract: what the receive side promises the decoder | `video_stream` |
| `VideoStream` | `Reassembly` fed by an agent with wrapping ids over a lossy network; implements `OrderedDelivery` | `video_stream` |
| `LossRecovery` | encode loop, references, sender backlog, control stream both ways, client gate | `loss`, `resume_past_point`, `announced_point` |
| `Feedback` | sender, history and ring, network, receive task, feedback join | `loss`, `reported_lost` |
| `SessionControl` | the control loop, the registry, the client's end of the control stream | `session` |
| `PipelineThreads` | source, encode thread, sender, audio thread, stop; contains `FrameChannel` | `session` |
| `FrameChannel`, `LatestFrame` | the slot with its lock and condition variable; the mailbox it implements | `session` |
| `Access` | window, exchanges, peer file, registry, revocation | `access`, `revoked_served` |
| `Probing` | the probe controller and its driver, tick by tick | `estimator` |
| `ClientSession` | the C interface, its thread, the tasks of the client | `client` |
| `Input` | keys and a controller from the user to the host's operating system | `client`, `snapshot_heals` |
| `Bandwidth` | the composition of rate control, capacity memory and loss controller | `estimator` |
| `FecLayout`, `ErasureCode`, `WireFormat` | shard layout; GF(2^8), Cauchy code, chunking and rebuilding; headers, id wrap, framing | `reassembly` |
| `VideoDecoders` | NAL split, decoder sessions | `video_stream` |
| `VideoEncoders` | the encoder back ends: NVENC, VideoToolbox, openh264 | `loss` |
| `LossController`, `PathMeters` | the parts of the estimator in detail: loss windows and hold, delay grouping and detection, delivered rate, budget and probe measurement | `estimator` |
| `ClientStats` | statistics and the de-jitter wait | `client` |
| `LoopbackAudio`, `DesktopCapture`, `HostMedia` | loopback audio; desktop capture on Windows and macOS; the factories and the test pattern | `session` |
| `PeerTrust`, `AdminApi` | messages of pairing and files over crashes; the owner's commands and the log lines | `access` |
| `HostInput`, `DevClient` | key tables, pointer and pad report; the window and the rest of the development client | `client` |
| `*Proofs` | theorems and their lemmas: `ReassemblyProofs` (`Reassembly`, `FecLayout`, `VideoStream`), `LossRecoveryProofs`, `FeedbackProofs`, `SessionControlProofs`, `PipelineProofs` (`PipelineThreads`, `FrameChannel`), `AccessProofs`, `EstimatorProofs` (`Probing`, `Bandwidth`), `ClientProofs` (`ClientSession`, `Input`) | |
| `MCReassembly`, `MCVideoStream`, `MCAccess`, `MCLoss` (`LossRecovery`, `Feedback`), `MCSession` (`PipelineThreads`, `SessionControl`), `MCEstimator` (`Probing`, `Bandwidth`), `MCClient` (`ClientSession`, `Input`) | bounds, instances and facts for TLC | |

### Correspondence with the code

*Reassembly.* `pending`, `held`, `latest`, `dropped`, `recovered` are the fields
of `Reassembler`; `released` is the value `push` returns; `opened` and
`delivered` are history. A `Pending` entry is its geometry (data count, parity
count, length, epoch) and the set of shard indices received. Whether
`reconstruct` returns `None` for a frame with enough shards depends on bytes, so
`PushUnrecoverable` is an alternative to `PushComplete`. `drain` and
`prune_older_than` are inside every path that calls them: `DrainCount` says how
many frames the loop releases before it breaks, `Surviving` which pending frames
its pruning leaves. Ids are a ring of `2 * HALF + 2`; the code has
`HALF = u32::MAX / 2`, and every comparison is written with `WrappingSub` as in
the code, except in `prune_oldest`, which compares numerically there too.

*VideoStream.* Frame `n` is a position in the agent's stream and `WireId(n)` its
wrapped id. Any shard of any frame sent may arrive at any time, again and again:
that is loss, delay, reordering, duplication and retransmission in one action.

*LossRecovery.* Each frame records which frame it references, and `decoded` says
which pictures the decoder has, so a broken chain is visible. An iteration of the
encode loop is two actions: `TakeRequest` swaps `recovery_request` and cleans the
references or forces an IDR, then `EncodeFrame` or `EncoderDrops` swaps `force_idr`,
submits and drains. In between, and at any other point, the control loop stores
requests and the sender forces an IDR. NVENC is a reference set cut by
`invalidate_refs`; VideoToolbox and openh264 refuse, which falls back to an IDR,
and code IDRs of their own accord. `EncoderDrops` uses up the directives and puts
no chunk out: VideoToolbox calls its handler with an error or without a sample
(`encode-videotoolbox/src/imp.rs:241`), openh264 skips under its rate control,
NVENC returns an empty bitstream. `late` holds the bitstreams that VideoToolbox
has not delivered when `next_chunk` gives up. Three things are assumed of the
encoders, which are external: a picture that does not come out, or not readably, is
referenced by no later one; openh264 and NVENC do not drop a
picture they are told to code as an IDR; a picture references one of those the
encoder may still use, the newest. The reassembler is replaced by what
`OrderedDelivery` promises: in order, some missing. `loose`, `answers`,
`answering`, `rejects`, `decoded`, `corrupt` are history.

*Feedback.* `Send` stamps, records and sends; `RecordArrival` is the whole of
`record_arrival`, `Join` the whole of the `PacketFeedback` arm. Time is reduced to
what the code compares: `aged` separates datagrams older than the 500 ms grace
period from the rest, and each arrival may find a 1 s NACK window or the 50 ms
batch interval over. Estimator calls are the sets `acked` and `lost`.

*SessionControl.* A pass of `serve_inner` (a branch of its `select!` with the arm
it leads to) is one action. The connection closes at any moment: a `send_msg` in a
message arm then returns by `?`, in the other branches the loop breaks and cleans
up. The client's calls send a request and read the stream inline until the reply.
The estimator's results are input (`Estimates`).

*PipelineThreads, FrameChannel.* A thread is a program counter; each access to the
lock, the condition variable, an atomic or a channel is a step. A timed wait may
time out at any moment. The three kinds of source differ in who closes the sink
and whether frames are ring textures. A mutex held across a step is held in the
model.

*Access.* The window, each exchange, each connection and the revocation advance in
steps where the code awaits or releases a lock. Reading the scope of a connection
and registering it are two such steps (`agent/src/main.rs:417`, `:428`). A save may
fail, the agent may restart, an exchange may hold the right or a wrong code.
`authorized`, `guesses` and `acked` are history, and so are `raced` and `unsaved`,
the two ways for a revoked peer to be served on: a registration after the sweep, a
removal that could not be saved.

*ClientSession.* The app's thread, the session's thread with its `select!`, the
receive and control tasks and the audio thread each advance on their own; a
callback is entered and returned from. A cancelled branch of the select loses what
its future held, which for the de-jitter is a frame. `handed`, `passed` and `cited`
are history.

*Probing, Bandwidth.* A tick or a feedback batch is one action; what the filters
come to is a free input. Time is a bounded age since an event, saturating at the
largest value compared.

*Input.* The capture of the window, the control stream in order, the `InputBatch`
arm with the pad driver's answers, and the notifications back. The driver may refuse
to answer, to plug a pad, to take a report, to let go of a pad; `phantom` says that
there is one it kept, which is in no seat any more (`input/src/windows/vigem.rs:91`).
`unseen` and `dropped` are history: the reasons for which host and user may differ.

*FecLayout.* `ParityCount` leaves out the cap on the index of the last chunk
(`protocol/src/datagram.rs:218`): no frame has 65 535 of them.

*Function modules* keep the names of the code's functions. A real number is a
fraction or a scaled integer with the code's rounding; a table (GF logarithms,
key codes) is the table of the code; an external library is symbolic (a SPAKE2
message is its code and secret) or a set of outcomes (a driver call).

## Runs

A run checks the state machine's properties over every behaviour within bounds,
and evaluates the named assumptions of its `MC` module, each a fact about a
function module over every input within the sizes given there.

Four of the runs check two state machines each that share no state: their `MC`
module extends both, and in a behaviour one of them, `part`, moves by its own
next-state relation while the other stays at one initial state. So every behaviour
of each machine is there, and none of the other's that could hide it. Where
liveness is checked, each machine's fairness is stated of its actions in its own
part (`InThreads /\ EncodeStep`), word for word as in its module otherwise.

| Run | Bounds | What it shows |
|---|---|---|
| `reassembly` | 8 ids (`HALF` 3), hold limit 1, window 2, two shapes, 4 frames opened | with every header the parser lets through: windows bounded, no frame held without cause, nothing stale, exact accounting, a frame rebuilt as soon as its groups can be, release in wrap order |
| `video_stream` | 14 ids (`HALF` 6) from 12 on, window 3, hold limit 2, 5 frames of 2+1 shards, 2 dropped by the agent | `DeliversInOrder`: the implementation of `OrderedDelivery`; `PatientRelease`: what `drain` promises about older recoverable frames |
| `loss` | ladder: all three encoders, window 2, backlog 0, 5 frames, 1 rejected frame, 2 control messages each way | an announced point is clean of what the client misses, with VideoToolbox if it is not before the frame coded clean for the request; a broken reference is handed over only after resuming on an announcement that does not fit, or after the decoder rejected a sound frame |
| | feedback: history 3, ring 1, NACK reach 3, budget 2, remembered 1, batch 2, 5 datagrams, 1 control message | one verdict at most and none forgotten; a NACK asks once and only for the missing; told lost though reported only beyond the batch's last number |
| `session` | threads: three source kinds, 4 frames, backlog 0 | a key frame owed is not forgotten; three ring textures suffice; the channel is a newest-wins mailbox; stop returns with nothing running |
| | control: rates 2 to 20, start 4, host cap 10, requests {1, 25}, estimates {3, 30}, losses {0, 18} %, 2 sessions, 2 connections, 1 recovery point, 1 message in and 2 out | rates within bounds; only a failed send leaks; replies not confused with events; a tick uses its own session's estimate; points get announced |
| `access` | 1 pin, 2 exchanges, 2 connections a pin, scopes {1, 2}, 2 attempts, 2 windows; symmetry on exchanges | no scope beyond the authorized; guesses bounded; a revoked peer's connection stays in two ways only; a revoked peer stays out |
| `estimator` | probes: demand 120, estimates {30, 100}, three causes; cluster lifetime 2 ticks, answer wait 3, drop memory 2, stagnant 3, back-off up to 2 | a collapse is tracked; no probe repeated while its answer may come; unmet demand keeps probes coming |
| | estimate: rates 1 to 4 from 2, delivered {1, 2}, probe 4, candidate 1, bound 2, step 1, discredit after 2 | a measured probe is adopted; a spike spares what the memory stands for; lasting congestion brings the estimate down |
| `client` | session: 3 frames, 1 event, 1 PCM buffer | no callback after stop; stop returns; a lost connection ends everything; requests cite what the gate let through |
| | input: both hosts, pad states {1, 2}, queue 2 | the seat agrees with the client; no key stuck but for the reasons stated; a controller at rest is mirrored unless its snapshot was refused |
| `resume_past_point`, `announced_point`, `reported_lost`, `revoked_served`, `snapshot_heals` | as above or smaller, one encoder, connection, exchange or host | violations, see Findings |

Facts evaluated with the runs:

| Run | Facts and their sizes |
|---|---|
| `reassembly` | `LayoutsSound` (frames of 1 to 7 shards, ratios 0, 250, 1000, 2000 ‰, code words of up to 7), `FieldSound` (all 256 elements), `CauchyInvertible` (parts up to 3×3), `RebuiltIsSent` (frames of 1 to 5 bytes, payload 2, every subset lost), `HeadersSurvive`, `OthersSurvive`, `WrapsOnce`, `MessagesFramed` (base 4 numbers) |
| `video_stream` | `SplitFindsUnits`, `SplitKeepsBytes`, `PicturesOfNewestSets`, `AfterAFailedSession` |
| `loss` | `NvencReleases`, `NvencPaysIdr`, `NvencConfigured`, `NvencInvalidates`, `VtNumbersInOrder`, `AnnexBFaithful`, `SwPaysIdr`, `IdrLostByVideoToolboxOnly` (every sequence of 4 to 6 calls, each driver call failing or not) |
| `session` | `ResamplesAcrossPackets`, `ReadsWithinPacket`; `CaptureCleansUp`, `CaptureEndsWithOwner`, `CapturedFramesFit`, `DisplayFoundAgain`, `CaptureLife` (ring of 2); `ListLeftByLateAnswer`, `PlanesAsInterleaved`, `StampsAbut`, `MacStreamLife`; `SourcesMeetEncoders`; `MarkerSurvives`, `PatternMoves`, `PatternLife`, `NoBurstAfterStall` (marker of 3 blocks) |
| `access` | `PairedIffCodesMatch`, `TagsBindExchange`, `AdmittedAsPaired`, `RevokedAtDispatchPairs` (codes {1, 2}, grants 1 to 3); `IdentityStays` (16 steps), `PeerStoreNeverTorn` (12 steps), `TornRecordIsNone`; `RecentLinesLast`, `PushedInOrder` (11 steps); `RepliesUnderstood`, `PairingToldOnce` (two commands, 9 steps) |
| `client` | `OffsetWithinHalfTrip`, `LatencyAcrossWrap` (clock of 16), `PercentilesAreSamples`, `RatesBetweenGaps`, `RateOfTheWindow`, `EpisodesGroupBreaks`, `HoldsEarlyFramesOnly` (windows of 3, 4 to 5 events) |
| | `KeyFacts` (the real tables; 5 key events), `PointerFacts` (5 events on a 3×2 display in halves), `PadFacts` (travel 20), `PictureFacts` (surfaces and frames 1 to 4), `HarnessFacts`, `WindowFacts` (5 events, the thread 10 steps) |
| `estimator` | `LossWeightsExist`, `LossHoldAndWindow`, `LossAbstraction` (4 batches); `DetectorSound`, `DetectorSortsBatch` (6 packets); `MetersSound`, `BusyIsNotLimited`; `ProbesMeasureTheLink`, `ProbeReportsInAnyOrder`, `ProbesForgotten` (clusters of 5) |

`LossAbstraction` ties two levels together: what `LossController` may yield is
what `Bandwidth` assumes of it.

*Why the bounds are enough.* The id rings are small enough to wrap inside a run and
large enough that the ids alive at once stay under half of the ring, which is what the
code relies on with 2^31. Windows and caps are smaller than what passes through them,
so each is full and overflows in some behaviour: the held queue, the history, the
retransmission ring, the NACK budget, the sender's backlog, the capture ring, the log
ring. In the recovery ladder five frames are enough for a loss, a request, its answer
and the loss of the answer's first frame. In `access` two exchanges and two windows
give every overlap of an exchange with another and with an expired, burned or replaced
window, and two connections a race on each side of a revocation. In the control loop a
second session shows what the first one left, a second connection what a leak does. In
the probe controller the order of the code's time constants is kept (cluster lifetime,
then answer wait, then the probing interval), not their size. Bounds without a
counterpart in the code are `MaxFrames`, `MaxRejects`, `MaxMessages`, `MaxOpened`,
`MaxDropped`, `MaxSent`, `MaxControl`, `MaxSessions`, `MaxPoints`, `MaxConns`,
`MaxIn`, `MaxOut`, `MaxWindows`, `MaxEvents`, `MaxPcm`, `MaxQueue`, and the sets
`Exchanges` and `ConnsPerPin` of `Access`: the code limits neither the connections
that pair at once nor those of a peer, so the number of exchanges in `GuessesBounded`
is the model's, for the guesses of all that got past the check before a code was
burned.

*Deadlock* is checked where the system never stops: `access`, `estimator`. In the
other runs a stream, session or connection may end, and then nothing happens any more.

## Fairness

Only what the code's schedulers give.

- `SessionControl`: weak fairness of handling a message, breaking the loop, the
  announcement and the client's reading. `select!` picks at random among what is
  ready, and the announcement's poll is one of its branches; the client reads its
  stream in a task of its own. `PointsAnnounced` needs nothing of the network.
- `PipelineThreads`: weak fairness of each thread's own step (encode thread,
  sender, audio thread, generator, the stopping task, a capture
  callback with a frame in hand). Nothing is assumed of
  frames, of the connection or of anybody calling stop: `StopsCleanly` says what
  follows once somebody does.
- `ClientSession`: weak fairness of the threads and tasks; strong fairness of the
  stop branch of the session's `select!`, which is polled again in every round and
  is ready from the stop on, so random choice takes it in the end.
- `Probing`: weak fairness of the tick, which is a timer.
- `Input`: weak fairness of injecting and of reading notifications, strong fairness
  of polling the controller, which each pass of the event loop does, whether or not
  the window has the focus (`client-dev/src/window.rs:294`).
- `Bandwidth`: none. `CongestionBites` states what a long enough congestion does as
  a condition on the behaviour.

## Proofs

What a run shows on a small instance is proved here for every value of the constants:
every invariant, action property and refinement of the passing runs; liveness stays
with TLC. A theorem rests on the named assumption about the constants in its module
(`ReassemblyAssumption` and so on: bounds are natural numbers, a set of exchanges is
finite, the bitrate floor is below the maximum, as the code's constants are); TLC
evaluates it with every run. Each section names what had to be added to the property
to make it inductive.

| Module | Theorem | Property |
|---|---|---|
| `ReassemblyProofs` | `TypeCorrect`, `WindowsBounded`, `NoIdleHold`, `NoStaleFrame`, `DropsAccounted`, `OrderedRelease`, `LossTolerated` | `TypeOK`, `Bounded`, `HeldForCause`, `NothingStale`, `Accounting`, `ReleaseInOrder`, `ToleratesLoss` |
| | `StreamDelivers`, `ReleasesPatiently` | `DeliversInOrder`, `PatientRelease` |
| | `LayoutIsEven`, `CodeWordsAlwaysFit` | facts about `FecLayout`, for frames of any size |
| `LossRecoveryProofs` | `PointsAreClean`, `BreaksAreExplained` | `RecoveryPointClean`, `BreaksOnlyWhenLoose` |
| `FeedbackProofs` | `VerdictsPartition`, `AsksOnce`, `ReportsStand` | `OneVerdict`, `NacksOnlyMissing`, `ReportedLostOnlyBeyond` |
| `SessionControlProofs` | `TargetsInBand`, `RegistryLeaks`, `EstimatesAreOwn`, `RepliesAreMatched` | `RateBounded`, `LeaksOnlyOnFailedSend`, `TicksUseOwnEstimate`, `RepliesMatch` |
| `PipelineProofs` | `LatestFrameReceived`, `KeyframeNotForgotten`, `RingNeverStarves` | `LatestFrameWins`, `KeyframeOwed`, `TextureAlwaysFree` |
| `AccessProofs` | `GrantedAsAuthorized`, `CodesBurn`, `RevocationLasts`, `RevokedAreClosed` | `ScopeAuthorized`, `GuessesBounded`, `RevokedStaysOut`, `LiveOnlyIfPaired` |
| `EstimatorProofs` | `CollapsesAreSeen`, `NoneRepeated` | `CollapseSeen`, `NoRepeatInFlight` |
| | `ProbesAdopted`, `SpikesSpared` | `ProbeAdopted`, `SpikeSpares` |
| `ClientProofs` | `NoCallbackAfterStop`, `RequestsCiteFrames` | `QuietAfterStop`, `CitesPassed` |
| | `PadsAreMirrored`, `KeysAreFollowed` | `PadsMirrored`, `KeysFollowed` |

Each module has its `TypeCorrect` besides.

### Reassembly

The properties are not inductive one by one. Accounting needs that no frame is
both pending and held, which is `NothingStale`; that needs the queue to be in
order before the insertion; the window bound needs the type of the pending map. So
`IInv` is their conjunction, and one push preserves it. Three of the four paths of
`push` end in `drain`, so its effect is proved once: `DrainLemma` takes any pending
ids and queue that form a `Chain` (distinct, ordered, none behind the last
release) and shows that what is left is again a chain, with a cause to hold its
head, every release in order and every pruned frame counted.
`DrainRestoresInv` turns this into the invariant; each path only has to establish
the chain `drain` starts from. The subtle one is the completion
(`InsertKeepsChain`): `push` inserts by scanning for the first held frame the new
one is older than, and "older" on a ring is not transitive; the proof uses only
neighbouring comparisons, as the code does, and hence needs no bound on the span
of ids.

What parity is worth is a fact about the layout. `group_layout` adds group sizes
up as it goes, a recursive function here. `StartOf` gives its closed form
(`g * floor(k / n) + min(g, k mod n)`) by looking at the least group where the two
would differ: the defining equation rules that one out. With it the data groups
and the parity shares are partitions as even as they can be (`LayoutIsEven`), the
two match group by group (`SharesMeet`, `DataShares`), and a frame missing no more
shards than the poorest group has parity can be rebuilt (`LayoutTolerates`). So
what is pending misses more (`AllShort`, kept by every path of `push`), which is
`LossTolerated`. `CodeWordsAlwaysFit` shows that `encode_parity` gets no code word
the field is too small for; it needs two full groups of data to fit in one
(`2 * MAX_GROUP_DATA < MAX_SHARDS`; the code has 32 and 255).

`StreamDelivers` is a refinement: every step of the reassembler fed by the stream
is a step of `OrderedDelivery` on frame numbers, or none. The ring hides the order
of frames, so the proof first shows that the ids alive at once span less than half
of it (`MaxFrames < HALF`): then wrapped comparison and frame order agree
(`SentOrder`), the queue, ordered neighbour by neighbour, is ordered by number
(`QueueOrder`), and what one drain releases is all that is complete up to some
frame (`Released`, `DrainDelivers`). `ReleasesPatiently` follows from the same
account of a drain, with the reason it stopped.

### Loss recovery

What an announcement promises is about frames not encoded yet. `KeptClean` says it
of the references the encoder still holds: neither they nor a frame from the
announced one on reach back into what the client misses. An invalidation makes this
true of the request as it is taken (`InvTakeRequest`), an IDR of the request that
waits for one (`BecomesClean`), and it stays true of earlier ones, because new
references are among the old (`StaysClean`). An answer says from which frame on it
is clean (`since`), and may be given before there is such a frame: after an IDR that
VideoToolbox has dropped, or when an earlier bitstream comes out first (`NextOut`).
`CleanAnswers` is about those given no earlier. `Prompt` shows that the other two
encoders give no other: nothing of theirs is late, and the IDR a request waits for
is coded before anything is announced, because a request forces it and they do not
drop it.

`BreaksAreExplained` adds the client (`GateInv`). `Gone` says of a picture that no
frame from some id on references it nor may a later one do so; like `CleanFrom` it
is about the references the encoder holds, and stays true (`GoneStays`). The
invariant is `Intact`: while the gate is not loose, every picture up to the last
frame delivered that the decoder lacks is gone from the next frame on. It needs
that references go back and never past an IDR (`RefsGoBack`), that frames reach
the gate in the order they were coded (`InOrder`), and that a gate that waits for
nothing has delivered the frame it saw last (`Follows`). `MissingAreGone` then
takes the three ways past the gate: an IDR, the next frame in line, a frozen gate
at an announcement that fits - the announced frame itself, not before the clean
one, for a request that cited the frame delivered last - where `CleanAnswers`
applies.

### Feedback

`Inv` puts every number stamped in exactly one place: history, pending, reported
received, reported lost, evicted. That a join takes a prefix of the history needs
it to be increasing (`Cut`); that a gap is news, that nothing asked for or received
is past the highest number seen; that a report stands, that what a batch told, but
for what lies past its last sample, has left history and pending.

### Session control

`TypeInv` includes the band the target of a session lies in, since the clamps of a
tick return what their names say only when their bounds are in order.
`EstimatesAreOwn` is an action property: the driver that runs is of this session,
so the estimate a tick applies is too. `RepliesAreMatched` has the invariant
`Dialogue`: a client that waits either has its request on the way and nothing
coming, or its reply first in what comes.

### Pipeline threads

`LatestFrameReceived` is a refinement: each step of the channel with its lock and
condition variable, under the threads that use it, is a step of the one-slot
mailbox or none; it needs how frames are numbered (`Numbered`). `RingNeverStarves`
needs that no two of slot, hand and encode thread hold the same texture
(`TexturesApart`, proved with it): three textures then leave one free.
`KeyframeNotForgotten` follows the directive from the sender's drop through the
encoder into the queue, for any backlog.

### Access

`ScopeAuthorized` needs that an open window and every exchange under way carry a
code that was issued and a scope that can be asked for. `LiveOnlyIfPaired` needs
that whatever is served is in the registry or closed already (`ServedIsKnown`).
`GuessesBounded` needs `GuessBudget`: while a window is open, every guess at its
code is among its attempts; once it is gone no exchange can learn the code again,
and one guess is left to each that has it.

### Probes and estimate

`CollapsesAreSeen` needs that the high-water mark is never below the estimate the
drop was last tracked at (`Marked`). `NoneRepeated` needs the age of the probe
behind a cluster that is out: at most three ticks less the ticks it has left
(`Outstanding`). The assumption is that `ResultWait` and `AlrInterval` exceed two
ticks of 250 ms; the code has 1 s and 5 s.

`ProbesAdopted` is about the order of one batch: the probe's result replaces what
the loss controller had learned before its limit is applied, so the limit cannot
be below it. `SpikesSpared` is an action property that looks back: the floor holds
only while the overuse the rate control has counted is no longer than the overuse
there was. `Pressed` says just that, and that once the count runs there is a
delivered rate to compare with.

### Client session

`QuietAfterStop` needs who has ended when (`Ended`): before the stop returns the
session's thread has joined the audio thread. `CitesPassed` needs that no frame is
gated twice: those queued increase and are all past the last one gated (`Queued`),
so what is cited, delivered last, handed over or waiting has been let through
(`Cites`).

### Input

Both properties say of a state of the host that it is excused by something still in
transit, and a message taken off the stream uses the excuse up. So the invariants
speak of every position in the stream: behind each snapshot that would plug a pad
comes a disconnection, unless the client still has the controller
(`SnapshotsFollowed`); behind each press comes a release, unless the key is still held
or its release went unseen (`PressesFollowed`). The modifier of macOS is tied to its
keys in the same way (`FlagFollows`). `OnlyStreaming` and `OnlyInjected` say in which
phase and on which host anything is down at all.

### Left to TLC

- *Liveness*, which the prover does not do: `PointsAnnounced`, `StopsCleanly`,
  `ProbingResumes`, `StopTerminates`, `LossEndsSession`, `PadSettles`,
  `CongestionBites`.
- *Induction over data*: the field arithmetic and the Cauchy code (`ErasureCode`),
  folds over histories and over bytes, and most facts of the function modules.
  `StartOf` shows how far one gets without: a closed form can be checked against a
  defining equation, a sum over a list cannot.

## Findings

Each is a run that violates what a comment of the code says, and beside it stands a
property of a passing run that says how far the code does keep it.

**`resume_past_point`.** The gate resumes at any frame at or past the announced id.
If the announced frame itself was lost, the next one references it and is decoded
on a missing picture, against the comment at `client-core/src/lib.rs:613`: "frames
from it on reference nothing we're missing". `BreaksOnlyWhenLoose` shows in which
ways only a broken reference gets through.

**`announced_point`.** The encode loop announces the first chunk that comes out
after a request (`session/src/pipeline.rs:386`). With VideoToolbox it may be one
submitted before the request, which was late; or the IDR forced for the request was
dropped, and the next chunk references what it always did. The event says "Frames
from `first_safe_frame_id` on reference nothing the client is missing"
(`protocol/src/control.rs:181`), the field "First frame id encoded with cleaned
references" (`pipeline.rs:178`), the accessor "First frame encoded after the last
recovery request was applied" (`pipeline.rs:244`), the encoder's contract "later
frames must not reference them" (`encode-api/src/lib.rs:88`). `RecoveryPointClean`:
true of every announcement not before the frame coded clean, so of every one of
NVENC and openh264.

**`reported_lost`.** `serve_inner` drains the send history up to the last sample of a
batch (`session/src/service.rs:423`), and a batch is in order of arrival. When it
ends on a reordered datagram, the later ones it reports find no record, and when
their grace period is over they are told as lost, against `session/src/bwe_driver.rs:77`
("`sent` must contain every record with seq ≤ the batch's highest seq") and `:25`
("reordering across feedback batches must not read as loss").
`ReportedLostOnlyBeyond`: these are the only ones.

**`revoked_served`.** A connection reads its scope when it is accepted and registers
for revocation later (`agent/src/main.rs:417`, `:428`). If the peer is revoked in
between, removal and sweep find nothing to close, the connection registers after
them and is served, against `session/src/admin.rs:159` ("also drop any live session
so revocation takes effect immediately") and `session/src/state.rs:20` ("so
revocation can drop them mid-session"). `LiveOnlyIfPaired`: the only other way is a
removal whose save fails; the peer is then gone from memory, the owner gets an
error, and no session is closed.

**`snapshot_heals`.** A report the driver refuses is not repeated while the
controller rests, since only changes are sent: against
`client-dev/src/gamepad_capture.rs:57` ("the wire format is self-healing, so a
dropped snapshot costs one poll interval rather than a stuck button") and
`protocol/src/input.rs:33`. The comment at `input/src/windows/vigem.rs:111` says so
itself, and retries for that reason, for a while. `PadSettles`: where the last
snapshot was taken, the pad is mirrored.

Two more disagreements are in the models without a run of their own.

- *A frame cited though nobody has decoded it.* `last_delivered_id` is stored when the
  gate lets a frame through (`client-core/src/lib.rs:637`), before the de-jitter
  wait. A branch of the select that cuts the wait off takes the frame with it, and
  the next request cites it; so does the request after a decoder has rejected a
  sound frame, and the agent keeps that frame as a reference. The comments say that
  requests "must cite a frame the decoder truly has" (`client-core/src/lib.rs:207`)
  and that "`last_good_frame_id` is the newest frame it decoded"
  (`protocol/src/control.rs:45`). `CitesPassed` is what holds; `ClientSession` has
  the first case (`passed` without `handed`), `LossRecovery` the second (`rejects`).
- *A modifier off while one of its keys is held.* On macOS the left and the right key
  share one flag, and the release of one clears it (`input/src/macos.rs:119`), against
  "modifier flags are tracked and stamped on every event (so Shift/Cmd/Ctrl combos
  [...] work and don't desync)" (`input/src/macos.rs:5`). `KeysFollowed` claims only
  the other direction, and `FlagsFollowModifiers` (in `KeyFacts`) that nothing else
  desynchronises it.

## What else the models show

Behaviours met while modelling that are in the models; a property that would
exclude one states it as its exception.

*Recovery.* `prune_oldest` compares ids numerically (`reassembly.rs:230`). A gate
that has resumed on an announcement keeps it for the next freeze.

*Encoders, decoders.* NVENC's `update_rate` stores the new rate before the driver
accepts it; a lock failing after the encode leaves the frame id unadvanced; opening
over a live session keeps the old configuration. Ids and an owed IDR survive
NVENC's close, but restart with VideoToolbox and openh264. VideoToolbox clears
`force_idr` before the driver call, so a dropped forced frame loses the directive;
a late handler of the previous session may emit after the ids restarted. After a
failed session rebuild the VideoToolbox decoder keeps the sets of the old one.

*Session control and pipeline.* A send failing in a message arm returns without
unregistering (`service.rs:334`). A manual bitrate, or one requested with adaptation
off, may exceed the host's cap. Turning adaptation off before the first tick of a
second session pins the rate at the previous session's estimate. `close` notifies
without the lock, which the 100 ms timeout makes good. The macOS source never
closes its sink. An error of `source.stop` skips the audio thread's stop and join. A
datagram too large ends the sender while the session lives. An IDR directive is
spent when the encoder drops the frame or the packetizer refuses it. The audio
thread spins once its capture has gone. `stop` blocks a worker of the runtime.

*Access.* Two clients with the right code can both pair in one window. An exchange
under way completes against an expired, burned or replaced window. A failed accept
leaves the window armed though the peer is stored. A save failing in `add` leaves
the peer in memory; one failing in `revoke` leaves it in the file, closes nothing,
and the retry answers `removed: false` without saving. Pairing again with a lower scope
does not touch a live connection. A pinned client on an agent started open streams
at the default scope whatever it was granted. `gsa pair` polls for ever when its
window was burned, replaced or consumed by another command, and may report a
pairing made with another command's code. A torn certificate file is kept; a torn
client record reads as not paired; an unreadable peer file as empty.

*Estimator and probes.* A batch answering a probe bypasses the rate control, so
relief only it brings does not clear the memory's floor. In the startup phase a
lossless batch returns before the probe's result is adopted. An expired capacity
estimate is folded back in with a fresh time. `increase` can lower the estimate by up
to 10 kb/s. An application-limited sender cannot ramp up by itself. A cluster whose
end is never told stays until the cap; the driver remembers one cluster, so the
initial second probe replaces the first. A pending second cluster is sent even while
delay grows. The re-anchoring of the recent maximum can miss a collapse.
`compute_next_timeout`, `enable(false)` and the branch at a high-loss threshold of
1.0 are never reached.

*Client session and statistics.* When the control channel has ended its select
branch is always ready, spins, and cuts every frame that waits in the de-jitter. The
embedder is not told of a session that ends by itself. A callback may come before
`gsa_session_start` returns. The best clock sample never ages.

*Capture.* After a failed `Recreate` of the Windows frame pool the size has already
changed, and later frames are described with one their texture does not have. A
stream whose `Start` fails ends silently after the audio start reported success. On
macOS the answer to a display query that has timed out leaks its list.

*Input and window.* Keys held when the session ends or the focus goes stay down on the
host. A pad the driver does not let go of stays in the game although the host and the
client have it gone. The knob keys are intercepted on press and forwarded on release.
On macOS wheel motion under a line is truncated to nothing. The window's adaptation
flag starts false whatever the session's is.

## Not modelled

- The real-valued filters of the estimator (regression slope, likelihood of the
  loss model, Bayesian rate): their results are inputs, their windows, guards and
  holds are modelled.
- TLS, certificates, QUIC and SPAKE2: external, represented by what they promise.
- GPU set-up, shaders, the macOS stream configuration, window creation: calls with
  no state the program reads back.
- Command line, configuration and `doctor`: read once, or read only.
- Generated FFI bindings and `xtask`.
- Wrap of the transport sequence after 2^32 datagrams, and eviction of old pictures
  from NVENC's reference buffer in `LossRecovery` (`VideoEncoders` has the limit on
  what it invalidates).

## Plan

1. Wrap of transport sequence numbers in `Feedback`, with what `take_upto` leaves
   behind; the proofs of `FeedbackProofs` then need the numbers alive to span less
   than half of the ring, as `SentOrder` does for frames.
2. The reference buffer's limit in `LossRecovery` (which pictures NVENC still
   holds), and `PointsAreClean` and `BreaksAreExplained` with it.
3. Facts of the function modules that hold for every input without induction: id
   wrap and the headers of `WireFormat`, the clamps of `LossController`.
