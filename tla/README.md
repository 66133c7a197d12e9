# Verification of the iPhone camera stream

A TLA+ development kept beside the code of *connect-iphone-cam-to-windows*: an iPhone encodes
its camera as HEVC and serves it over TCP (tunnelled through USB); a Windows receiver connects
and either relays the stream to OBS or decodes it on the GPU and hands the frames to a virtual
camera. The modules below model the parts of that chain that are hard to get right; TLC checks
them on small instances, TLAPS proves the central properties for every value of the constants.

## 1. The system

| Component | Source | State it keeps | Operations |
|---|---|---|---|
| Stream sender | `ios/StreamSender.swift` | listener, connection, retry exponent, wired-path signature, packet queue, one-send-in-flight flag, key-frame gate; all on one serial queue | `start`, `stop`, `restartListening`, `send`, listener / connection / send / path callbacks, retry timer |
| Camera streamer | `ios/CameraStreamer.swift` | capture session, compression session, setup-failure flag, recovery flag, timer and attempt, forced-key-frame flag, frame number | `start`, `stop`, background / foreground, capture callback, encoder callback, session notifications, recovery |
| Wire protocol | `protocol/stream_protocol.h`, `shared/StreamHeader.swift` | none (pure) | build, parse and validate the 21-byte header; convert a sample to Annex B and find an IDR in it (`ios/CameraStreamer.swift`, `windows/receiver.cpp`) |
| Receiver | `windows/receiver.cpp` | socket, random-access gate, decoder or relay program | connect (usbmux, then TCP), read with a deadline, gate, decode or relay, reconnect |
| GPU frame ring | `windows/gpu_frame_publisher.*`, `windows/mf_virtual_camera/gpu_frame_*` | control block in shared memory, a ring of textures, each with a keyed mutex | `Initialize`, `Publish`, `Reset`, `CopyLatest`, `OpenSlot`, `OpenControlBlock` |
| DirectShow camera | `windows/virtual_camera.cpp`, `windows/frame_store.h` | latest decoded frame, `running_`, `socket_`, receiver thread | `publish`, `copyLatest`, `start`, `stop`, `run`, `FillBuffer` |
| End to end | `ios/CameraStreamer.swift`, `ios/StreamSender.swift`, `windows/receiver.cpp` | the bytes of a frame on their way from the encoder to OBS | number, convert, post, send, read, gate, relay |
| Media Foundation source | `third_party/VCamSample/VCamSampleSource/Media*.cpp`, `FrameGenerator.cpp` | stream state, event queues, allocator | `Start`, `Stop`, `Shutdown`, `RequestSample`, `SetStreamState`, `Generate` |
| Application shell | `ios/CameraViewController.swift`, `ios/AppDelegate.swift` | views and labels | user interface |
| Registration and packaging | `windows/mf_virtual_camera/controller.cpp`, scripts, CMake files | registry, installed files | install, uninstall |

How they interact. The camera streamer *calls* `send` and `restartListening` of the sender, which
post to the sender's queue; the sender *calls back* `onClientConnected`, on which the streamer
asks the encoder for a key frame. Sender and receiver exchange *messages* on one TCP connection
at a time. The receiver's publisher and the Frame Server's consumer are two *processes* that
share memory and textures. In the DirectShow filter the receiver's thread and the graph's worker
share *atomics, a socket and a mutex*.

What is hard, per component, and what correctness means there:

- **Stream sender.** Everything runs on one queue, but callbacks of connections and listeners that
  have been replaced still arrive, timers cannot be cancelled, and the path may change at any
  time. Correct: one listener and one connection live; a sender meant to run always has a listener
  or a timer; one send in flight, a bounded queue that drains while the PC reads; what a PC is sent
  starts at an IDR and stays in order.
- **Camera streamer.** Two queues, VideoToolbox's callbacks, notifications of the system, and a
  timer. Correct: a failure always has a recovery coming, no compression session leaks or is
  invalidated twice, a request for a key frame is not lost between the queues.
- **Receiver.** Any read, write or decode may fail, the phone may be silent. Correct: it never
  wedges and always reconnects, each session starts at an IDR and relays without a gap, and none of
  its exits, on as many lines, forgets what it has to free.
- **GPU frame ring.** Two processes, either of which may be killed between any two steps, and
  success codes that mean failure (`WAIT_TIMEOUT`). Correct: no texture is read and written at
  once, frames arrive, in order.
- **DirectShow camera.** `stop()` races `run()`; a copy races a publish. Correct: `stop()` returns,
  samples are whole frames that never go back, no socket leaks.
- **Wire protocol.** Two encoders kept in step by hand, integer widths, lengths at the end of a
  buffer. Correct: the receiver decodes what the phone encoded, every unit of a sample reaches its
  frame, and both sides agree on which frames are IDRs.
- **End to end.** A frame is numbered in a callback of its compression session and posted to the
  sender's queue later; another session's callback, a reset of the numbers or a new connection may
  come in between. Correct: a number tells which frame it is; what OBS gets is, byte for byte, a
  prefix of what the phone sent on that connection, from a frame it can decode on; the receiver
  never takes frame bytes for a header.
- **Media Foundation source.** The Frame Server calls from several threads, and not every method
  takes the lock. It is Microsoft's sample, changed only to ask `GpuFrameConsumer` for a frame.

## 2. Modules

| Module | Models | Kind |
|---|---|---|
| `LiveFeed` | what a PC may rely on: one viewer at a time, an ordered feed that starts at an IDR | abstract specification |
| `StreamSender` | `ios/StreamSender.swift`, one action per block that runs on the sender's queue | component; implements `LiveFeed` |
| `StreamSenderProofs` | | theorems |
| `GpuFrameRing` | publisher, consumer, control block, keyed mutexes | component |
| `GpuFrameRingProofs` | | theorems |
| `CameraStreamer` | capture session, encoder and recovery of `ios/CameraStreamer.swift` | component |
| `CameraStreamerProofs` | | theorems |
| `Receiver` | `windows/receiver.cpp`, one action per step of the session | component |
| `ReceiverProofs` | | theorems |
| `LatestFrame` | what the frame store promises `FillBuffer`: a register that is read and written at once | abstract specification |
| `DirectShowCamera` | receiver thread, `stop()`, frame store and `FillBuffer` | component; implements `LatestFrame` |
| `DirectShowCameraProofs` | | theorems |
| `StreamProtocol` | the header of `protocol/stream_protocol.h` and its Swift copy, byte by byte | pure operators |
| `StreamProtocolProofs` | | theorem |
| `AnnexB` | the encoder's buffer of NAL units, `writeAnnexB`'s conversion of it, and the two scanners for IDR pictures | pure operators |
| `AnnexBProofs` | | theorems |
| `EndToEnd` | a frame from the encoder to OBS: camera streamer, sender, TCP, receiver | composition, over `LiveFeed`, `StreamProtocol` and `AnnexB` |
| `EndToEndProofs` | | theorems |
| `MC*` | the instances TLC checks; they add at most a symmetry set or the values of constants | |

**Correspondence.** Variables carry the names of the fields they stand for, and actions those of
the functions or of the callbacks they stand for. A block that runs on a serial queue is one
action, whatever it calls: `StreamSender!Send` is the whole closure of `send`, with the queue's
bound, the gate and the start of the next send. Where there is no such queue an action is one
access of shared state: a load or store of an atomic, one half of a frame's copy, an
`AcquireSync`. `PROJECT.json` maps every definition to the lines it was written from.
A packet is its frame number and the IDR it depends on; a texture, a connection, an encoder or a
socket is a model value; formats, pixels, logging and statistics are left out. Only `EndToEnd` has
bytes: there a frame is a sequence of NAL units of two to eleven bytes, behind a real header.

**Composition.** `EndToEnd` does not repeat the sender's queue, timers and callbacks. It uses what
`StreamSender` is proved to implement: `LiveFeed`, with each posted frame shown to the viewer or
dropped. So a property of `EndToEnd` holds for every sender that implements `LiveFeed`.

What each model takes from outside: Network.framework's listener and connection states and
completions (`StreamSender`), VideoToolbox and AVCaptureSession (`CameraStreamer`), DXGI keyed
mutexes with `WAIT_TIMEOUT` and `WAIT_ABANDONED` (`GpuFrameRing`), FFmpeg's statuses and the
phone (`Receiver`), the operating system's sockets (`DirectShowCamera`), VideoToolbox's samples and
a TCP that delivers a prefix of what was sent (`EndToEnd`). Each may do all that the
code using it allows for: fail wherever a status is tested, answer late, not at all, or after it
was cancelled.

**Mutants.** A definition that is not used by any action (for instance `StopWithoutShutdown` before
`StopLoad`) is a plausible mistake in the definition after it; put in its place, it makes the
property named in `PROJECT.json` fail. They show that each property depends on the code.

## 3. What TLC checks

Passing runs:

| Run | Instance | Shows |
|---|---|---|
| `sender_packets` | 2 connections, queue of 2, 3 frames | `OneSendInFlight`, `NoStalledQueue`, `JoinAtIdr`, `OneLiveConnection`; the sender implements `LiveFeed` |
| `sender_listener` | 2 listeners, 2 paths, a timer, a posted block, fair | `TypeOK`, `OneLiveListener`, `NeverStranded`, `NeverBoundToOldPath`; `Relisten`: a listener comes again |
| `sender_drains` | 1 connection, queue of 2, 4 frames, fair | `InOrder`, `PendingDrains`: what is queued for a PC that keeps reading is sent, or its connection is given up |
| `ring_handoff` | 1 slot, 3 frames, 3 sessions, fair | `TypeOK`, `ExclusiveCopy`, `NeverOverwritten`, `DeliveredInOrder`; `DropsInvalidBlock` |
| `camera_recovery` | 2 encoders, 2 events, fair | `TypeOK`, `RecoveryComing`, `EveryEncoderTracked`, `KeyFrameComing`; `Recovers`: stream and encoder come back |
| `receiver_sessions` | both modes, 2 hosts, 4 packets a connection, any number of connections and of failing allocations, fair | `TypeOK`, `StartsAtIdr`, `RelayedWithoutGap`, `SessionLeavesNothing`, `NeverWedged`, `Reconnects` |
| `directshow` | 4 frames, 3 starts, 2 handles, release and acquire accesses, fair | `TypeOK`, `SocketIsOpen`, `JoinedThreadWakes`; the frame store implements `LatestFrame`; `StopReturnsOrOvertaken`, `Reconnects` |
| `end_to_end` | 6 kinds of sample, 2 frames of 2 compression sessions, 2 connections, 2 recoveries of the camera | `SameUnits`, `KeyMeansIdr`, `NeverDesynced`, `RelaysFeed`, `JoinsDecodable`, `NumbersTellFrames` |

Runs that are expected to find a violation; each states what a comment or a document of the
repository says, and the findings in `PROJECT.json` quote it:

| Run | Property | What the code does |
|---|---|---|
| `sender_dropped_idr` | `DeltaHasItsIdr` | an IDR that meets a full queue is dropped with the gate open; deltas that need it follow |
| `ring_arrives` | `FrameArrives` | publisher and consumer disagree by one about a frame's slot: no frame is ever delivered |
| `receiver_joins` | `DecoderJoinsAtIdr` | the gate opens before the decoder has accepted the IDR; a refusal does not close it |
| `ds_store_buffer` | `StopReturns` | release and acquire do not order `stop()`'s store before its load: the join may wait for ever |

The ring's properties are checked on one slot, on which publisher and consumer agree; what happens
on the four of the source is the finding of `ring_arrives`, and the theorem `Jamming` (section 5).

Four properties say exactly how far the code goes, and no further:

- `PendingDrains` has the hypothesis `KeepsReading` for each connection: the completion of a send in
  flight comes. The code sets no send timeout, so for a PC that stays connected and reads nothing
  it need not come, and without the hypothesis TLC finds the queue that stays full.
- `KeyFrameComing`: a request for a key frame is cleared when a frame takes it into the encoder
  (`ios/CameraStreamer.swift:289`). If the encoder's callback or `writeAnnexB` then discards that
  frame (226, 349, 365, 375, 386), nobody asks again. The history `request` keeps the two ends apart:
  "met" when a key frame was handed to the sender, "lost" by such a discard. The property says that
  a request still open is always covered, by the flag, by a frame on its way or by the first frame
  of an encoder, so that the discard of the frame that carries it is the only way to lose it.
- `StopReturnsOrOvertaken`: `stop()` returns, or it waits for ever in the join after a load that
  overtook the store before it in its own thread, `stop()`'s or the receiver's. Release and acquire
  allow that; `ds_store_buffer` is the finding, and `directshow` shows that it is the only way.
- `NumbersTellFrames`: between two recoveries no number is used twice, and on a connection those of
  one compression session increase. `protocol/stream_protocol.h:34` says more, "monotonically
  increasing", which is `NumbersIncrease` in `EndToEnd`. The code does not keep that: with it in
  `MCEndToEnd.cfg` in place of `NumbersTellFrames` TLC shows in nine states two callbacks that take
  their numbers (`ios/CameraStreamer.swift:414`) and post their frames in the other order. A
  recovery gives another trace, as it resets the numbers (503) before the restart that closes the
  connection is posted (754). The receiver only prints the number.

Some more things the models show, without a run of their own. After an `Initialize` that failed
half way `control_` is set, so the next `Publish` uses a mutex that may not have been made
(`GpuFrameRing!NullMutex`, a crash). An interruption that ends while the app is inactive counts as
a return to the foreground (`CameraStreamer!InterruptionEnds`, against the comment at
`ios/CameraStreamer.swift:23`). The decoder's `PublishBegin` waits while `FillBuffer` copies,
although `windows/frame_store.h:9` says that it never waits for DirectShow.
The sender holds back neither an empty frame nor one above 16 MiB, on which the receiver reports a
desync and ends the session: `NeverDesynced` says that nothing else makes it do so. The address of
a phone tethered over USB is looked up once (`windows/receiver.cpp:596`): `Reconnects` is for that
address, or for usbmux.

**Bounds, and why they are enough.** They are constants named `Max...`, each tested in one guard.
Two connections, listeners, encoders or sockets are what a replacement needs, and a third would
replace the second just as the second replaces the first. A queue of one or two packets with
three or four frames is filled, overflows and drains. Three sessions of the ring let a handle be
reused by a texture of another generation. Two events (failures, notifications, new clients)
let the second cross with the recovery from the first; with three and without fairness the
safety properties hold too. In `Receiver` packets are counted
per connection and connections are not counted at all, so sessions may follow each other for ever.
In `EndToEnd` the six samples are an IDR behind an SEI, the shortest IDR with a cut-off
unit behind it, one whose frame is too long for `MaxFrameSize` = 33, a CRA marked as sync, a delta,
and one that converts to nothing, with length fields of one, two and four bytes. Two frames are one
in front of which something is skipped or dropped, and two numbers to confuse; two connections and
two recoveries let each of them meet each of the other queues' steps. The theorems are for any number.
For the properties proved in section 5 the bounds do not matter, nor do the units chosen.
`CHECK_DEADLOCK FALSE` stands in the runs whose bounds let every counter run out.

**Symmetry** is used only in runs without liveness properties, on sets of model values that
no definition distinguishes.

## 4. Fairness

- `StreamSender!FairSpec`: Network.framework delivers the state of a started listener and of a
  connection, and the connection it accepted; a timer's block runs, and binding the port does not
  fail for ever. Nothing is assumed of PCs, the path or the camera. That a PC reads, so that the
  completion of a send in flight comes (with an error when the connection dies), is not in
  `FairSpec`: it is the hypothesis of `PendingDrains`, for the connections that are live.
- `CameraStreamer!FairSpec`: the session queue, the capture queue and VideoToolbox are served.
  Failures end because `MaxEvents` bounds them: `Recovers` says what happens after the last.
- `GpuFrameRing!FairSpec`: the decode loop and the Frame Server's pull go on, opening a texture
  that can be opened succeeds in the end, the Frame Server is not reset for ever.
- `Receiver!FairSpec`: its one thread runs and the clock advances; `select` carries the deadline.
- `DirectShowCamera!FairSpec`: both threads run, a store buffer drains, `recv` returns on a socket
  that was shut down. The phone may be silent for ever.

## 5. What is proved

TLAPS checks the following for every value of the constants, from the assumptions the modules
name (`...Assumption`: bounds are naturals, `None` is not a member). Each invariant is proved from
an inductive strengthening, one lemma per group of actions, and one temporal step.

| Module | Theorem | Property |
|---|---|---|
| `StreamSenderProofs` | `TypeCorrectness` | `TypeOK` |
| | `OneSend`, `NoStall` | `OneSendInFlight`, `NoStalledQueue` |
| | `OneLivePeer`, `OneListener` | `OneLiveConnection`, `OneLiveListener` |
| | `Retrying`, `Rebinding` | `NeverStranded`, `NeverBoundToOldPath` |
| | `JoiningAtIdr`, `Ordering` | `JoinAtIdr`, `InOrder` |
| | `LiveFeedRefinement` | the sender implements `LiveFeed` |
| `GpuFrameRingProofs` | `TypeCorrectness`, `Exclusion`, `NoOverwriting` | `TypeOK`, `ExclusiveCopy`, `NeverOverwritten` |
| | `DeliveryOrder` | `DeliveredInOrder` |
| | `Jamming` | `NothingDelivered` and `RingJams`, for more than one slot |
| `CameraStreamerProofs` | `TypeCorrectness`, `EncoderOwnership` | `TypeOK`, `EveryEncoderTracked` |
| | `RetryNeverLost`, `RequestLostOnlyWithItsFrame` | `RecoveryComing`, `KeyFrameComing` |
| `ReceiverProofs` | `TypeCorrectness`, `FreshIdr`, `Gapless`, `NoLeftovers` | `TypeOK`, `StartsAtIdr`, `RelayedWithoutGap`, `SessionLeavesNothing` |
| `DirectShowCameraProofs` | `TypeCorrectness`, `SocketOwnership` | `TypeOK`, `SocketIsOpen` |
| | `Register` | the frame store implements `LatestFrame` |
| | `Waking` | `JoinedThreadWakes`, with release and acquire accesses |
| `StreamProtocolProofs` | `RoundTrip` | what `stream_header_read` returns is what `StreamHeader.encode` was given, for every number of 32 and 64 bits |
| `AnnexBProofs` | `ConversionKeepsUnits` | what `writeAnnexB`'s loop makes of a buffer of units is those units, each behind a start code, whatever is cut off behind them |
| | `ScannersAgree` | what is an IDR to the phone's scanner is one to the receiver's, on every string of bytes |
| | `ScannerFindsIdr` | on Annex B the phone's scanner finds an IDR exactly if a unit is one |
| `EndToEndProofs` | `Invariance` | the inductive invariant `Inv` |
| | `SameUnitsAlways`, `KeyMeansIdrAlways` | `SameUnits`, `KeyMeansIdr` |
| | `NeverDesyncedAlways`, `RelaysFeedAlways` | `NeverDesynced`, `RelaysFeed` |
| | `JoinsDecodableAlways` | `JoinsDecodable` |
| | `NumbersTellFramesAlways` | `NumbersTellFrames`, when 32 bits count the frames |

The arguments:

- *Sender.* `ConnectionInv` relates `sendInFlight` and the queue to the completions that are still
  out, per connection: a completion of another connection finds `connection` changed and touches
  nothing. `OrderInv` keeps every sent and queued frame older than the next, and what was sent on a
  connection at or after the IDR it joined with. `ListenerInv` adds that a pending restart, a
  pending path update or the current binding accounts for the current path. Together they give
  the refinement: every step is a `Join`, a `Leave`, a `Show`, or a stutter.
- *Ring.* The holder of a slot's keyed mutex is the side whose program counter is inside its copy;
  whoever is killed there leaves the mutex lost, not free. With more than one slot, the key a
  consumer waits for is never set in the slot it looks at, so every slot stays on its consumer
  key once written: the ring jams. With one slot, `OrderInv` orders what is delivered: a session
  has one texture, textures of later sessions hold newer frames, a texture that is full again holds
  a newer frame than was delivered from it, and the consumer never goes back to a texture of an
  earlier session, since a handle it has not open is one of the session that is there now.
- *Camera.* The recovery flag is set exactly while its timer is; a failed encoder setup or a
  session that is down is covered by the flag, by a block already posted, or by work in progress
  that will look at it. Every encoder that exists is the active one or in the hands of exactly one
  queue. A request for a key frame that is open stands, or is in the hand of the capture callback,
  or in a key frame of the published encoder that is being coded or is past all that could discard
  it, or the encoder has been given no frame yet: forgetting an encoder renews the request in the
  same critical section, and only forgotten encoders are invalidated (`KeyInv`). When the frame that
  carries it is discarded, it is no longer open but lost.
- *Receiver.* The unread packets are numbered up to the last one sent; before the gate opens
  nothing was relayed, and afterwards the last packet relayed is the one before the packet in
  hand, at every point of the loop. The paths that drop a packet end the session. For
  `SessionLeavesNothing` each point of the session has its set of what is still held: the exits before
  the loop, the failures inside it and the end of the session release it on different lines, one
  action each, and only the last leads back to `main`.
- *DirectShow.* The mutex is held exactly by the side that copies; the active slot always holds
  one whole frame, older than one that is about to be published and no older than what the sample
  shows; where the receiver's thread is says which socket is open and what `socket_` holds. The
  store maps to the register with the frame of the active slot as `newest`, and with the sample, as
  it was before a copy that has begun, as `picture`: a read happens when the copy ends (the slot has
  not changed since it began), a frame is published when its slot becomes the active one. For
  `Waking`, each side's store may wait in its buffer while its load goes ahead (`overtaken` says
  whether it did). When neither load has overtaken, `running_` is false from before the load of
  `socket_` to the join, so that no thread enters `recv` in that time, and one that is there has its
  own socket in `socket_` (`StopInv`).
- *Protocol.* An integer is the sum of its bytes at their weights, by the division algorithm once
  for each byte; 64 bits are two halves of 32.
- *Conversion and scanners.* Recursive functions are first shown to satisfy their equation (a
  `CHOOSE` over the functions on an interval, from the last offset down), then reasoned about by
  induction on numbers, which here is the well-foundedness of `<` applied to the set of the numbers
  where the claim holds. The conversion: at the offset of unit *i* the rest is the rest of the
  units, by induction from the last. The scanners: in a unit that holds no `00 00 00` or `00 00 01`
  and does not end in zero no start code begins, so a scanner goes from the beginning of one unit
  to the beginning of the next; the receiver's loop, which runs one byte further, finds from every
  offset what the phone's finds from there.
- *End to end.* A frame's bytes are the conversion of its sample; the queue and the feed name
  frames that exist and fit the header's length, a feed starts with a key frame, connections that
  have a feed were accepted; the session has taken the first *n* packets of its connection, and its
  offset is the length of those, or a header more (`SessionInv`). The bytes sent so far are a prefix of all
  that will be sent, so `RoundTrip` applies to the header at the offset, and its length leads to the
  end of the frame. The first frame taken has an IDR for the phone's scanner, hence for the
  receiver's, which is why the gate skips nothing. `JoinsDecodable` then is about the sample: the
  least index of an IDR slice has no slice before it. For the numbers, the counter has passed every
  frame numbered since the last recovery, posted or in hand, so a new number is above all of those;
  a compression session has one frame in hand at most, above all it has posted (`NumberInv`); and
  what is shown is in the order of `frames`, across connections (`OrderInv`).

**What the proofs of `EndToEnd` assume** is named `SampleAssumption`: what VideoToolbox and H.265
promise of a sample and of the parameter sets. A unit is at least its header of two bytes, does not
end in zero and has no start code in it (emulation prevention sees to that), its length fits the
length field of one to four bytes, a sample's slices are of one type, and what stands behind the
last unit is no whole one. TLC evaluates it on the samples of `MCEndToEnd`. `NumbersTellFrames`
has the hypothesis `Fits32(MaxFrames)`: at sixty frames a second the number wraps after two years,
and is then used again without a recovery.

**Only model-checked:** everything under fairness (`Relisten`, `PendingDrains`, `Recovers`,
`DropsInvalidBlock`, `NeverWedged`, `Reconnects`, `StopReturnsOrOvertaken`), which is out of this prover's
reach. Every invariant, action property and refinement that a passing run checks is proved.

## 6. What is not modelled

- The Media Foundation source (`third_party/VCamSample/VCamSampleSource`). It is Microsoft's sample
  source, kept as third-party code and changed to call `GpuFrameConsumer`; a model of its state
  changes would be one of Media Foundation's event and work queues and of its allocator, which are
  not in the repository. `PROJECT.json` lists one hazard seen in it. The consumer it calls is in
  `GpuFrameRing`.
- Of the camera streamer: choice of format, frame rate and exposure, telemetry and the diagnostic
  file. Of the receiver: its statistics. Of the DirectShow filter: its registration, media types
  and the time stamps of samples. They change no state that a modelled property depends on.
- The application's views, the registration of the virtual cameras, the sample's helpers, build
  and installation scripts: no concurrency, or pure input and output.

`PROJECT.json` lists under `hazards` all that can go wrong in ways a test would hardly reach, with
the properties that cover it, or the reason why none does yet.

## 7. Plan

Done: `StreamSender` and `LiveFeed`, `GpuFrameRing`, `CameraStreamer`, `Receiver`,
`DirectShowCamera` and `LatestFrame`, `StreamProtocol` and `AnnexB`, `EndToEnd`, and the proofs of
section 5.

What could come next:

1. The session of `EndToEnd` as an implementation of `Receiver` in relay mode; the proved `SessionInv`
   is what the mapping would need.
2. `EndToEnd` over `StreamSender` itself in place of `LiveFeed`, with the queue of packets: the
   proved refinement says that nothing new can be sent, so this would only be about liveness (a
   viewer that stays connected is shown an IDR in the end).
3. `EndToEnd` for the virtual cameras: the decoder behind the gate, and the ring or the frame store
   behind the decoder.
4. The Media Foundation source, if its Frame Server side is ever replaced by code of this project.
