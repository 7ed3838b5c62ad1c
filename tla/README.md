# A TLA+ verification of Nearby Connections

Nearby Connections lets two devices find each other over Bluetooth, BLE or Wi-Fi, agree on
an encrypted connection, move it to a faster medium and exchange payloads. This project
models the part of `connections/implementation/` that keeps that state: the client session,
discovery, the life of one remote endpoint, its channel, the bandwidth upgrade and payloads;
and, beside it, the Fast Pair client of an accessory (`embedded/`). The model checker (TLC)
examines every interleaving of small instances; the proof system (TLAPS) proves the safety
properties for every instance.

## 1. Inventory

### Threads

| Thread | Runs | Waits for |
|---|---|---|
| API (`ServiceControllerRouter`, serial) | one routed call at a time | the result of the PCP handler or EndpointManager job it posts |
| PCP handler (serial) | jobs of `BasePcpHandler` | `RegisterEndpoint`, and the mutex of a frame processor |
| EndpointManager (serial) | register, unregister, discard | the workers it joins, a barrier (11 s at most), the mutex of a frame processor |
| reader, keep-alive | two per registered channel | frames; the reader also waits for the PCP job of a CONNECTION_RESPONSE, holding the processor's mutex |
| EncryptionRunner (client and server, serial each) | UKEY2 handshakes | the peer |
| BwuManager (serial) | upgrade jobs | the introduction acknowledgement, the last read of the old channel |
| payload executors (one per type) | the send-payload jobs | the data of the payload, the channels |
| payload status update (serial) | every payload callback of the client, removal and destruction of payloads | nothing |
| mediums | found and lost reports, as jobs of the PCP handler | nothing |
| alarms | the clearing of the cached id, delayed closes, timeouts | `ClientProxy::mutex_` |

### Components

| Component | State | Operations | Hard behaviour | Correct when |
|---|---|---|---|---|
| `ClientProxy` | session flags, `local_endpoint_id_`, high-visibility mode, cached id and its alarm, `connections_` with status bits | start/stop advertising, discovery, listening; connection callbacks; `Reset` | three threads end parts of a session; an alarm is cancelled with the mutex held | the advertised id stays the client's id; the cache lives as long as needed and then expires |
| `BasePcpHandler` | `pending_connections_`, `pending_alarms_`, discovered endpoints | request, incoming request, tie-break, handshake outcome, accept, reject, evaluate, disconnect | ties, two incarnations of one id, stale outcomes | an outcome is applied to the connection it belongs to; every connection is announced once and cleaned up |
| `EndpointManager` | `endpoints_` (workers), frame processors | register, unregister, discard, route frames, send | FIFO jobs by endpoint id, joined threads, a barrier with a timeout | one set of workers per endpoint; nothing left after removal |
| `EndpointChannelManager` | channel and encryption context per endpoint | register, replace, encrypt, unregister | channels change under readers and writers | a channel is encrypted with its own context and not too early |
| `BaseEndpointChannel` | paused, closed, crypto context | read, write, pause, resume, close | writers blocked on a paused channel | frames decrypt in sequence |
| `EncryptionRunner` | running handshakes | start server, start client | outcomes arrive late | outcome matches the channel |
| `BwuManager` | `in_progress_upgrades_`, `previous_endpoint_channels_`, `successfully_upgraded_endpoints_` | initiate, path available, introduction, LAST_WRITE, SAFE_TO_CLOSE, failure, disconnect | a two-party protocol over two channels sharing one sequence of message numbers | no loss, no reordering, an end |
| `ServiceControllerRouter` | the serial API thread | admission checks of every call | calls by endpoint id | a call has the effect its checks admit |
| `PayloadManager` | pending payloads with reference counts, per-endpoint status, the shutdown latch | send, receive, cancel, control message, disconnect, shut down | cancellation against chunks, several receivers, jobs by payload id | each transfer has one final status, success means all of it, a handle keeps the payload alive |
| P2P PCP handlers | endpoints found per medium, lost alarms | found, renamed, lost, start, stop, change of options, connection requests | reports out of order with calls, several mediums for one endpoint, requests that add entries | the client knows what is discovered and nothing else |
| Embedded Fast Pair client | pairing state, account keys in memory and stored, pending key, retroactive peers, rotation timer | GATT writes, Bluetooth events, advertisement mode, timers, restart | handshakes of two seekers, timers in the middle of a pairing | keys are the latest used, belong to the current handshake, the address stays while pairing |

The mediums, the offline-frame codec, analytics, the platform layer, the Fast Pair seeker,
Presence, the bindings and generated code are listed in `PROJECT.json` with the reason they are
left out (section 6).

Components interact by calls between serial executors (jobs posted with or without waiting),
by callbacks under locks, and through four maps keyed by endpoint id (`pending_connections_`,
`connections_`, the ECM's and the EndpointManager's `endpoints_`). The id does not say which
incarnation of a connection is meant; most hazards come from that. `PROJECT.json` lists every
hazard at its line.

## 2. Plan

1. `ClientProxy` (done): the session and the local id; proofs in `ClientProxyProofs` (done).
2. `EndpointLifecycle` (done): PCP handler, EndpointManager, ECM and the client's connections
   composed, since their correctness is about the state they share.
3. `BwuManager` (done): both ends of an upgrade, with reader and writer.
4. `PayloadManager` (done): transfers of payloads to several endpoints, and its abstract
   specification `PayloadUpdates` that it implements (done).
5. `Discovery` (done): found and lost reports per medium, the options and the lost alarms.
6. `EndpointChannel` (done): the mutexes of `BaseEndpointChannel` and the switch to encryption.
7. `FastPairProvider` (done): the accessory's side of Fast Pair.
8. Proofs (done): all safety properties of the runs, among them that `PayloadManager` implements
   `PayloadUpdates` (section 5).
9. Later: the safe-to-disconnect exchange; the id carried by connection requests; two endpoints
   on one BwuManager thread; a connection as the application sees it as an abstract specification
   of `EndpointLifecycle`.

`EndpointLifecycle` composes the PCP handler, EndpointManager, channel manager and client, since
their correctness is about the state they share; `EndpointChannel` composes two ends of a channel
with both their readers and PCP handlers; `PayloadManager` composes a sender and its receivers.

## 3. Modules and the code

### ClientProxy

One client. `requested` and `connections` are the endpoints with a pending entry and those in
`connections_`; `advertising`, `discovering`, `listening` say whether the three infos are set;
`localId`, `cacheId`, `highVis` are the fields of the same meaning, ids being numbers drawn in
order (0 is the empty string); `advId` is what `StartAdvertisingImpl` was given, and `cut` records, for the
properties, that the session ended while it ran. A `ClientProxy`
method holds `mutex_` and is one step, except that `CancelableAlarm::Cancel` may wait inside it
(`waiting`). `StartAdvertising` is two steps, because the id is fetched and the mediums started
before `StartedAdvertising` takes the mutex again, and other threads run in between. `pc` is the
API thread, which waits for the PCP thread. The end of a session (`FinishClientSession`) is
three steps for the same reason. Ids supplied by an external device provider are not modelled.

### EndpointLifecycle

One device and its endpoints. A channel number stands for one incarnation of a connection. The
four maps are `pending` (with `ukey2`, the handshake the entry holds, and `moved`, the channels
whose `unique_ptr` has left it), `conn`, `ecm` and `state`; 0 is a null pointer or a missing
entry. The PCP and EndpointManager threads are a position (`pcp`, `em`) and a queue; a job is
one step except where the code waits for another thread: a mutex (`locking`, `notify`), another
executor (`registering`, `barrier`), joined threads (`joining`, `duplicate`), and the second
lookup in `EvaluateConnectionResult` (`accepting`). Jobs carry only what the code's closures
carry; the extra field `c` of a discard job records who posted it and is read by a property only.
Dereferencing a null channel ends the program (`crashed`).

Left out: safe-to-disconnect (flag off by default), topology limits, authentication, medium
choice. Incoming connections arrive whenever the PCP thread is idle.

### BwuManager

Two devices `a` and `b` connected over `old`, and at most one socket `new`. `wire[c][d]` holds
the frames on their way to `d`; every encrypted frame carries its UKEY2 sequence number, `enc`
and `dec` are the two contexts, and decoding accepts the next number only (the UKEY2 library is
outside the repository: modelled from its use). A write that fails has spent its number.
A job of the BwuManager thread is one step except where another thread can see the middle of it:
between replacing the channel and LAST_WRITE, and during the two blocking reads. A read fails as
soon as either end is closed, even with frames unread, which is what the code's comment says of
Bluetooth sockets and is the worse case. The reader follows `EndpointChannelLoopRunnable`: after
an error it fetches the channel again and ends if it is the same medium. Frames are kinds, not
bytes; keep-alive frames appear only through `KeepAliveTimesOut`. New channels are encrypted
(`supports_disabling_encryption` off).

The constants switch three things: `LateWrites` (a writer that fetched the old channel before it
was replaced may still write on it), `Faults` (channels break, timeouts fire, clients disconnect)
and `WaitsForAck` (the responder waits for CLIENT_INTRODUCTION_ACK; FALSE stands for a peer of an
older version, whose path-available frame does not announce the acknowledgement). The refusal of a
medium for the sake of a Wi-Fi LAN connection comes before the check for an upgrade in progress
(bwu_manager.cc:675-687); that it hits an upgrade in progress counts among the faults.

### EndpointChannel

Both ends of one channel between the registration of the endpoint and the first payloads. A frame
is a type and a sequence number, 0 for one in the clear. `Write` is two steps: encoding, with both
mutexes held, and the socket, with `writer_mutex_` alone; the model makes a writer wait while
another has encoded and not written. A reader is a position in `HandleData`: reading, decoding,
waiting in `TryDecryptFrame`, waiting for the PCP handler's latch. `EvaluateConnectionResult` is two
steps, encryption and the callback. `lost` and `timedOut` record that a frame was refused or
skipped and that the 3 s of `TryDecryptFrame` ran out; only properties read them. The channel may
be closed by either end at any time.

### PayloadManager and PayloadUpdates

One sender, one executor of send-payload jobs and, for each endpoint, either a modelled receiver
or (set `Remote`) another device of which only control messages are seen. A `PendingPayload` is a
record in the sequence `payload`, with `refs` counting the tracked reference and the job's handle;
`tracked` is `pending_payloads_`. A turn of `SendPayloadLoop` is four steps (the endpoint pointers
are taken, the endpoints are checked, a chunk is read, it is written), between which the status
thread, readers and the EndpointManager run. Chunks are counted, not filled: `len` is what can be
read of a payload of size `Size`, so a file that shrank or grew is a `len` other than `Size`. A chunk that
was read and could be written to nobody is gone: the source has moved on, the offset has not (`lost`). A
resumed transfer starts at `resume`, and an offset that cannot be skipped to fails it. `Events`
names what may go wrong in an instance. `CreateIncomingPayload` refuses only a frame without type or id,
which no `CreatePayloadHeader` of a sender produces, so that error path has no step. The destructor is `dtor`: flag set, payloads canceled and
waited for, status thread stopped.

`PayloadUpdates` is what a client may rely on: the updates of a transfer are progress, then one
final status, then nothing. `UpdatesEndOnce` states that `PayloadManager`'s callbacks implement it
(`Updates == INSTANCE PayloadUpdates WITH last <- told`).

### Discovery

The PCP handler thread is the queue `jobs`; mediums and alarms append to it, and so do the
application's calls, one at a time since the router's thread waits for each. `entries` is
`discovered_endpoints_`, `foundBle` and `foundBleV2` the two maps from what a BLE scanner saw to
endpoints, `alarms` the keys in `endpoint_lost_by_medium_alarms_` and `timers` the alarms that
run. `bleV2` is the flag that selects the BLE scanner, `MacDevice` the devices with a MAC address
in the advertisement, which the BLE handlers also report over Bluetooth. The raw pointer of an alarm is
`ptr`, a set that is emptied when the endpoint is freed. The mediums (external) report what they
see while they scan, Bluetooth and the first BLE scanner per device, the others per advertisement.
RequestConnection writes to the same map: it adds an entry for a Bluetooth MAC address unless the
endpoint has one, and one for WebRTC whenever the endpoint can be reached so (`RtcDevice`). What comes of the request,
and the caller's wait for its handshake, is left to `EndpointLifecycle`. `InjectEndpoint` is not modelled; its
endpoint takes the same way through `OnEndpointFound` as a report.

### FastPairProvider

The state of `nearby_fp_client.c` with its names. A seeker has a BLE and a public address; a
secret is the seeker's fresh one or an account key, and a request decrypts only with the one it was
made with. Times are what the timeouts tell apart: `age`, `locked`, `old`. `rotation` are the rotation
timers of the platform that run and `task` the one on record. A save may fail (the client ignores its
status), and `Restart` goes back to what is stored; the clock may or may not have passed the timeouts then.
A discarded secret is the all-zero key, `None`, with which writes still decrypt.
`current`, `recent` and `saved` are history for the properties. One assumption is made of the
platform: `nearby_platform_StartTimer`, whose result the client does not check, never returns NULL, neither for
the rotation nor for the discard of a pending key. Compiled with additional data and
retroactive pairing, as the defaults are.

### Definitions named "Mutant" or "Mutation"

They are single-definition variants of the model, each a plausible slip in the code. No
specification uses them; replacing the original by one makes the property they stand for fail,
which shows that the property depends on the code.

## 4. Runs

| Run | Shows |
|---|---|
| `client_session` | 15 574 states. The advertised id is the client's own, and the cached one in high visibility, unless and only unless the session ended while the mediums were being started (`AdvertisedIdKept`); no clearing alarm lives during a high-visibility advertisement and the cache is untouched (`NoExpiryWhileAdvertising`, `CacheKept`); the mode ends with its advertisement (`HighVisEnds`); the cache expires (`CacheExpires`). |
| `endpoint_lifecycle` | 3.4 million states. Peer answers belong to their channel (`RemoteAnswerOwn`); one worker set per endpoint (`OneWorkerSet`); a connected client uses its channel's own key (`ConnectedKey`), no channel is encrypted early (`NotEncryptedEarly`); nothing is left when everything is quiet (`NothingLeft`); connections are announced to a client that has none (`AnnouncedOnce`). |
| `bwu_clean` | 69 004 states. Sequence numbers match across both channels (`InOrder`), no payload is lost (`NoDataLoss`), the old channel is closed only after LAST_WRITE was read (`LastWriteRead`), the new one carries nothing too early (`NewChannelAgreed`), and upgrades end (`UpgradeEnds`). |
| `bwu_faults` | 2.1 million states. The two safety properties that do not depend on a healthy connection survive breaks, timeouts and disconnections at any point. |
| `endpoint_channel` | 0.25 million states. With two ends that switch to encryption at different moments and three writing threads each, every frame is decoded, in order, unless `TryDecryptFrame` times out (`NoFrameRefused`), and two clients that accept are both told or the channel is closed (`BothConnect`). |
| `payload_fanout` | 1.3 million states. Two endpoints: a handle keeps its payload alive (`HandleKeepsPayload`), success means that everything was written (`SuccessMeansSent`), the client's updates are those of `PayloadUpdates` (`UpdatesEndOnce`). |
| `payload_transfer` | Sender and receiver: types (`TypeOK`), success at the receiver means all chunks (`SuccessMeansComplete`), a completed transfer is not canceled for the sender (`NotCanceledWhenReceived`), every transfer ends (`TransferEnds`). |
| `discovery` | 3.2 million states. With connection requests among the reports, the client's endpoints are those discovered (`ReportedMatchesDiscovered`), with one entry per discovering medium (`OneEntryPerMedium`); when the handler is idle nothing is kept that is gone (`GoneIsLost`) and nothing visible is missing (`VisibleReported`). |
| `fast_pair` | 1.2 million states. The keys in memory are the latest used, those in storage the latest at the last save that succeeded (`KeysLeastRecentlyUsed`), a pending key belongs to a handshake that goes on, and its discard is timed (`PendingKeyIsCurrent`), one rotation timer runs (`OneRotationTimer`), and the address stays while pairing (`AddressKeptWhilePairing`). |

Three runs end in a counterexample, each against a sentence of the repository (quoted in
`PROJECT.json` under "findings"):

| Run | Scenario |
|---|---|
| `registration_deadlock` | A reader handles the response of one endpoint (processor mutex held, waiting for a PCP job) while the PCP thread registers the processor again for another endpoint. |
| `bwu_late_write` | A payload thread fetches the old channel, the upgrade replaces it and says LAST_WRITE, the thread writes, the drain's read swallows the frame. |
| `payload_shutdown` | Two payloads are sent and the manager goes down while the second is queued. Its job finds `shutdown_` set and returns; the destructor has counted it and waits. |

More behaviours of this kind are in the models without a run of their own; `PROJECT.json` lists
them among the hazards:

- `ClientProxy`: an alarm that has started waits for the mutex its canceller holds; a client
  that re-enters high visibility during a session advertises the session's id, not the cached one
  (client_proxy.h:245 promises the latter); if the last connection goes while a high-visibility
  advertisement is being started, the session is over and its id emptied, so the client advertises
  an id that is not its own any more and caches an empty one (client_proxy.h:379 says that the
  advertised id is remembered).
- `EndpointLifecycle`: a worker's discard names the endpoint only and may remove a newer channel;
  the handshake of a channel that lost a tie is stored for the one that won; a tie lost after our
  channel was registered uses a null channel; the client forgets an endpoint after the barrier's
  timeout while a processor has not cleaned up (endpoint_manager.cc:764).
- `BwuManager`: if the old channel breaks between the replacement and SAFE_TO_CLOSE nobody resumes
  the new one; a LAST_WRITE that is read before our channel is replaced is not answered;
  SAFE_TO_CLOSE without a previous channel reads an empty map node.
- `PayloadManager`: a payload id used twice makes one job send the other's payload; a receiver
  keeps a finished payload, so a later disconnection reports a failure after the success.
- `Discovery`: a lost alarm uses a freed endpoint; a Bluetooth report does not stop the alarm of
  its endpoint; the late loss of an old info removes the endpoint with the new one; the Bluetooth scan
  started by a change of options is not stopped by `StopDiscovery` if it was not running at the start;
  the entries that a connection request adds, WebRTC each time anew, are lost by no medium, so the
  client is not told when the endpoint is gone (listeners.h:145).
- `FastPairProvider`: a failed pairing leaves its state, and the address is then not rotated; a
  pairing initiated by the provider starts no timeout; the discard timer of one pending key may
  discard the next one.

### Bounds

- `MaxIds = 3`: the id of a first session, the cached one and a later one can all differ.
  Two endpoints, so that one connection can outlive another.
- `MaxChan = 2`, one endpoint, both directions: every hazard found is between two incarnations
  of one id. `registration_deadlock` uses two incoming endpoints, since it is about two readers
  of different endpoints. An instance with one outgoing and one other incoming endpoint was
  explored to 8.4 million states without a violation; it is too large to be a run.
- `MaxTries = 2` in `bwu_clean`: both sides may start an upgrade, or one may retry. `MaxData = 2`
  lets a payload frame be on each channel. `bwu_faults` uses one try and one frame per side.
- `endpoint_channel`: one keep-alive and one payload per end, so that frames of all three
  threads meet the switch. Two payloads gave the same result in 0.8 million states.
- `payload_fanout`: two endpoints and one chunk, so that one can fail between the other's chunk and
  its end; a resume offset beyond the data. `payload_transfer`: one endpoint, two chunks, cancellation on
  both sides. A full disk at the receiver was checked with it once and takes four minutes.
  `payload_shutdown` needs two payloads, one running and one queued.
- `discovery`: one device with two ids and one change of info on three mediums, three reports, two
  starts, one change of options, one connection request, two queued jobs, so that a report can wait
  behind a call. Two requests, the second of which finds what the first added, were checked once
  (11.7 million states), and so were four reports without requests (2.5 million).
- `fast_pair`: one seeker and three account keys for two places, saves that may fail, one failed request
  before the lock, one discard timer, any number of handshakes. Two seekers with two keys for one place were checked once (1.2 million states).
- A model may stop (all ids or channels used, everything disconnected), so deadlock is not checked;
  real deadlocks are temporal properties.

### Fairness

Weak fairness of what a running thread does: the jobs of serial executors, readers with
something to read, alarms whose time has come, a wait whose condition holds, removal of an
endpoint whose workers have ended. A payload read returns (bytes and files; a stream may
block for ever, and then neither `TransferEnds` nor a cancellation reaches it). A channel that
broke is removed, since its reader or writer fails. Nothing is assumed of the application, the
peer's answers or the network. `BarrierTimeout` is part of the EndpointManager's steps since the wait is bounded.

## 5. Proofs

Each proof module extends the module it is about; every statement is proved to its leaves by TLAPS
(Z3, Zenon, LS4 for the temporal steps), for all values of the constants that satisfy the module's
named assumption. Each has an inductive invariant, a lemma per action that it is kept (`XKeeps`, `XInv`
or `XCore`), a theorem `Invariance`, and the results below as consequences. The invariants were checked
with TLC on the instances of the runs before they were proved.

| Module | Theorem | Property | Assumed of the constants |
|---|---|---|---|
| `ClientProxyProofs` | `TypeCorrect`, `NoExpiry`, `HighVisibilityEnds`, `AdvertisedId`, `CacheStability` | `TypeOK`, `NoExpiryWhileAdvertising`, `HighVisEnds`, `AdvertisedIdKept`, `CacheKept` | `MaxIds` a number |
| `EndpointLifecycleProofs` | `TypeCorrect`, `AnswersOwn`, `WorkersOne`, `KeysOwn`, `EncryptedAfterAcceptance`, `NothingRemains`, `AnnouncementsOnce` | `TypeOK`, `RemoteAnswerOwn`, `OneWorkerSet`, `ConnectedKey`, `NotEncryptedEarly`, `NothingLeft`, `AnnouncedOnce` | `MaxChan` a number; any sets of endpoints |
| `EndpointChannelProofs` | `NothingRefused` | `NoFrameRefused` | the bounds are numbers |
| `BwuManagerProofs` | `TypeCorrect`, `LastWritesRead`, `NewChannelsAgreed`, `FramesInOrder`, `NoDataLost` | `TypeOK`, `LastWriteRead`, `NewChannelAgreed`, `InOrder`, `NoDataLoss` | the bounds are numbers, the three switches Booleans; for the last two no late writes and no faults |
| `PayloadManagerProofs` | `TypeCorrect`, `HandlesKeepPayloads`, `UpdatesRefined` | `TypeOK`, `HandleKeepsPayload`, `UpdatesEndOnce` | finitely many endpoints, sizes are numbers, any `Events` |
| `PayloadSuccessProofs` | `SuccessesSent`, `SuccessesComplete`, `ReceivedNotCanceled` | `SuccessMeansSent`, `SuccessMeansComplete`, `NotCanceledWhenReceived` | the same, and no payload id is used again |
| `DiscoveryProofs` | `ToldIsDiscovered`, `OneEntry`, `NoneLeftBehind`, `SeenIsReported`, `OneDeviceSeen` | `ReportedMatchesDiscovered`, `OneEntryPerMedium`, `GoneIsLost`, `VisibleReported` | an advertisement is an id and an info; bounds are numbers; for `SeenIsReported` an id belongs to one device |
| `FastPairProofs` | `KeysAreLatest`, `PendingKeyCurrent`, `OneTimer`, `AddressKept` | `KeysLeastRecentlyUsed`, `PendingKeyIsCurrent`, `OneRotationTimer`, `AddressKeptWhilePairing` | room for a key and a timer; seekers and keys differ |

The bounds of section 4 that limit counters (`MaxIds`, `MaxChan`, `MaxData`, ...) are thus any numbers
in the theorems.

**ClientProxy.** `NoExpiryWhileAdvertising` and `HighVisEnds` are not inductive alone: what a thread
inside `Cancel()` will do next depends on why it waits. `IInv` adds `WaitingInv`: a thread waiting in
`StartedAdvertising` is in high-visibility mode, one waiting in `ExitHighVisibilityMode` is not, and no
wait and no advertisement coincide with the middle of `StartAdvertising`. `AdvertisedIdKept` is inductive
relative to `IInv`: the id is emptied only when no part of the session is left, which excludes an
advertisement but not one that is being started, hence `cut`. That the two ids differ after such a cut needs
`Drawn` (an id drawn later is a new one) and `Emptied` (the cut leaves no id behind, and the next one is drawn). `CacheKept` follows from `IInv` and a case
analysis of the steps that write the cache.

**EndpointLifecycle.** All maps are keyed by endpoint id, so each property needs that the entries of one
id belong to the same channel. `Full` follows a channel through its life. `NewInv`, `RegInv`: until it
is registered a pending channel is fresh and the PCP handler thread waits for it. `WorkerInv`: only the
channel of the EndpointState has workers. `ConnInv`, `EmInv`: the client's connection and the ECM's
channel are that one, unless a removal is under way. `HeardInv`: an answer counts only if the channel's
own reader has handed it over. `KeyInv`: as long as the pending entry lacks the key of its own
handshake, the outcome of that handshake is due *before* any answer in the PCP queue, which is why
the encryption callback, although it names the endpoint only, cannot give a connected channel the
wrong key. `CtxInv`, `LeftInv`: what has
lost its workers or its channel has a removal due, in the right place of the queue. `CallInv`: one API
call at a time. After a null channel was dereferenced the program is over and only the state it died
in counts, so the invariant is `Safe /\ (~Crashed => Full)`.

**EndpointChannel.** `Chain`: the numbers of the frames on their way to an end, in the reader's hands and
encoded but not sent, continue what was decoded, frames in the clear first. `OneAnswer`: there is one
frame with the peer's answer, so after it only KEEP_ALIVE can be in the clear, which a reader that has
become encrypted still accepts. `WriterInv`, `CryptoInv`, `ReaderInv` say how the threads get there.

**BwuManager.** There is one new socket, so each device replaces its channel once and has one LAST_WRITE.
`Turn(d, n)` lists its eight stations: not replaced yet, about to be written, on the wire, queued at
the peer, remembered in `successfully_upgraded_endpoints_`, answered on the wire, the answer queued,
draining. `TurnInv`: it is in one station at most; `LastWriteRead` says that the third and the last
exclude each other. A step moves it (`Moves`) or leaves it. `AgreedInv`: a device with its old channel
has not answered LAST_WRITE, so that its peer neither drains nor resumes the new channel, which is
paused or closed (`Barred`). `IntroInv` makes the introduction happen once; `DataInv` bounds what is
received by what was written. These three theorems hold with late writes, faults and older peers too.

`InOrder` and `NoDataLoss` need `OrderInv`: the connection is in one of three phases. `Quiet`: there is no new
socket, and the frames on the old channel are numbered without a gap. `OfferInv` and `FailFirst` say that an
offer of an upgrade is in one place and that its failure is heard before the peer's own offer, so nobody
opens the new socket for an offer that was withdrawn. `Torn`: both devices have offered the upgrade at once
and one has closed the old channel; no upgrade can follow. `Moving`: the new socket exists and stays open.
The frames on the old channel, then the peer's unencrypted DISCONNECTION, then the frames on the new one
continue what was decoded (`Chained`), and received plus unread payload frames are those written (`Exact`).
A device writes on the new channel only after the peer's SAFE_TO_CLOSE, which the peer writes after its
LAST_WRITE and so last of all (`Answered`, `Ordered`), and an end of the old channel is closed only when both
have disabled encryption. The two assumptions are needed. With late writes `NoDataLoss` fails
(`bwu_late_write`). With faults TLC finds both violated: a client that disconnects in the middle of the
upgrade writes DISCONNECTION on the new channel before LAST_WRITE on the old one, and an old channel that
breaks during the upgrade takes unread frames with it, while the new channel lives on.
`InOrder` and `NoDataLoss` count frames by their positions rather than with `SelectSeq`, whose
result for every sequence would need induction over data.

**PayloadManager.** `RefInv`: the references to a PendingPayload are the entry in `pending_payloads_` and
the handle of the running job, exactly. `EndedInv`: the endpoint of a transfer that has had its final
status has left the payload, so no handler finds it again. From these follow `HandleKeepsPayload` and,
step by step, that the callbacks implement `PayloadUpdates` (the initial states map to initial states,
and every step to a step or a stutter).

`SuccessMeansSent` needs more (`SentInv`): the sending thread runs ahead of the status thread and may
skip chunks for an endpoint whose failure is still queued. Every endpoint for which no failure is
queued has got all chunks so far, and no chunk was lost because every write of it failed
(`SendingInv`), and the last chunk in the queue completes the transfer
unless a job before it takes the endpoint away (`LastInv`). It is proved for ids that are not used
again: with the event `reuse` queued jobs of the first payload are applied to the second, and TLC
reaches a success that was never sent (hazard at `payload_manager.cc:1566`). Applications draw ids at
random.

`SuccessMeansComplete` and `NotCanceledWhenReceived` follow a transfer to the receiver (`ReceivedInv`, for each
endpoint). A frame on the wire continues the one before it, or what the receiver has stored (`FramesOf`),
and so does the frame the job will write next (`ReadyOf`): only a failed write makes the job skip a
frame for an endpoint, and a channel never recovers; once a chunk was lost no endpoint with a working
channel is left in the job (`Leaves`). A receiver that has not stored the chunk before has
dropped or canceled the payload, or has queued its end (`Spoiled`), so that a last chunk in its queue
is either complete or comes behind that end (`LastOf`). Here too a report is right only because of the order
of a queue. For the other property: a receiver that has answered CANCELED holds no payload it could
complete (`Dead`), and a sender that reports a cancellation of its own has stopped before the last frame
(`Stopped`); both states are final. The steps of the sender that touch no frame (`Passive`), those that
end or continue the job, the receiver's steps that can only lose something (`Fades`) and its reader
(`Consumes`) each have one lemma that the invariant is kept, and a short one per action.

**Discovery.** `ReportedMatchesDiscovered` holds only because StartDiscovery never runs in a session;
`CallsInv` says so of the queue, `NothingToldOutside` of the time between sessions. The calls a job
chains are lemmas about the record they hand on; the entries that RequestConnection adds have one of
their own (`AppendInv`), which needs that the endpoint is known and that a Bluetooth entry was looked for.
`OneEntryPerMedium` says nothing of WebRTC, for which nobody looks. `GoneIsLost` needs `QuietInv`: a find in the queue is of
something seen, or is followed by the loss, or is of an earlier session and is ignored (`FoundIsSeen`), and
an entry is of something seen or its loss is queued and will not be ignored (`Sourced`).
`VisibleReported` needs the converse, `VisibleInv`: what is seen has an entry or a queued find, and no loss
behind it. A loss names an id and a medium, not a device: if two devices advertised one id, losing
one would hide the other. `SeenIsReported` therefore assumes that each id has one owner (each device
draws its id at random); `OneDeviceSeen` needs no such assumption.

**FastPairProvider.** `KeysLeastRecentlyUsed` is about sequences: `AddAccountKey` applied to the first
`MaxKeys` of the history is the first `MaxKeys` of the new history (`AddAccountKeyIsLru`), given
that no key occurs twice; `KeyHistory` says it of the list in memory and of the stored one, since a
restart makes the latter the former. `PendingKeyIsCurrent` needs only the type of the count of discard timers.
`OneRotationTimer` needs `TimerOfTask`: in every
mode the handle and the running timers determine each other.

Only model-checked:

- liveness (`CacheExpires`, `UpgradeEnds`, `BothConnect`, `TransferEnds`): fairness is outside the prover's
  reach.

## 6. Not modelled

- Mediums, bandwidth-upgrade handlers, platform layer: calls into the operating system; the models
  see them as channels that connect, break and close, and scanners that report.
- Offline frames, protocol buffers, analytics: conversions and records without influence.
- Safe-to-disconnect, payload acknowledgements, auto-reconnect: off by default.
- The Fast Pair seeker and Presence: separate products that mostly forward between a scanner, a
  store and a user interface.
- Battery and ring messages of the embedded client: requests answered at once. SASS, off by default: besides
  such requests, `IndicateInUseKey` (nearby_fp_client.c:1504) moves an account key to the front without saving
  the list, so that with SASS the order in storage may be older than the last save the models know.
- Bindings and applications: they forward to the core. Generated and vendored code, most of the
  repository's lines, has no behaviour of its own to specify.
