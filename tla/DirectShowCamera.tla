-------------------------- MODULE DirectShowCamera --------------------------
(***************************************************************************)
(* The DirectShow filter: windows/virtual_camera.cpp and the frame store   *)
(* windows/frame_store.h.                                                  *)
(*                                                                         *)
(* Two threads meet here.  The graph's worker thread calls OnThreadCreate, *)
(* then FillBuffer again and again, then OnThreadDestroy; the receiver's   *)
(* own thread, made by start() and joined by stop(), connects to the       *)
(* phone, blocks in recv, decodes and publishes.  They share the atomics   *)
(* running_ and socket_, the socket itself, and the two slots of the       *)
(* store under its mutex.                                                  *)
(*                                                                         *)
(* A frame is its number and a copy takes two steps, one for each half of  *)
(* the frame, so that a copy that is not protected shows as a torn frame.  *)
(* An access of an atomic is a step.  Both are accessed with release and   *)
(* acquire, which lets a store wait in the processor's store buffer while  *)
(* a later load of ANOTHER atomic goes ahead (x64 compiles both to plain   *)
(* moves).  Each thread has one such pair: stop() stores running_ and      *)
(* loads socket_, run() stores socket_ and then loads running_.            *)
(***************************************************************************)
EXTENDS Naturals, FiniteSets

CONSTANTS Fds,        \* the handles the operating system gives to sockets
          NoFd,       \* -1
          MaxFrames,  \* bound: frames decoded
          MaxStarts   \* bound: times the graph starts the stream

ASSUME FdAssumption == NoFd \notin Fds
ASSUME BoundAssumption == MaxFrames \in Nat /\ MaxStarts \in Nat

VARIABLES
  running,   \* running_, as the receiver's thread reads it
  buffered,  \* the atomics a store of which is still in its thread's store buffer
  overtaken, \* history: those whose store was, when its thread last did its load
  socket,    \* socket_, as stop() reads it
  thread,    \* where the receiver's thread is, "none" when there is none
  fd,        \* its local fd
  open,      \* the sockets open
  down,      \* those of them on which recv returns at once: shut down or closed by the phone
  graph,     \* where the graph's worker thread is
  target,    \* the handle stop() has loaded
  listening, \* the phone is attached and its application listens
  frame,     \* the last frame decoded, the one in rgb
  mutex,     \* who holds mutex_
  slots,     \* slots_: the two halves of each
  active,    \* active_
  hasFrame,  \* hasFrame_
  sample,    \* the two halves of the media sample FillBuffer writes
  starts     \* how often the stream was started

control == <<running, buffered, overtaken, graph, target, starts>>
conn == <<socket, fd, open, down>>
store == <<mutex, slots, active, hasFrame>>
vars == <<control, conn, store, thread, listening, frame, sample>>

Halves == {1, 2}
Frames == 0..MaxFrames
Atomics == {"running", "socket"}

ThreadStates == {"none", "loop", "connect", "connected", "session", "recv", "decode",
                 "publish", "publishing", "ending", "closing", "backoff", "ended"}
GraphStates == {"off", "filling", "copying", "stopLoad", "stopShutdown", "join"}

-----------------------------------------------------------------------------
Init ==
  /\ running = TRUE /\ buffered = {} /\ overtaken = {}
  /\ socket = NoFd /\ fd = NoFd /\ open = {} /\ down = {}
  /\ thread = "none" /\ graph = "off" /\ target = NoFd
  /\ listening \in BOOLEAN
  /\ mutex = "free" /\ active = 0 /\ hasFrame = FALSE
  /\ slots = [i \in {0, 1} |-> [h \in Halves |-> 0]]
  /\ frame = 0 /\ sample = [h \in Halves |-> 0]
  /\ starts = 0

-----------------------------------------------------------------------------
(* The graph's worker thread: OnThreadCreate, FillBuffer and OnThreadDestroy. *)

(* OnThreadCreate, start: nothing when the receiver's thread is still joinable. *)
Start ==
  /\ graph = "off" /\ starts < MaxStarts
  /\ graph' = "filling" /\ starts' = starts + 1
  /\ IF thread = "none"
     THEN running' = TRUE /\ thread' = "loop"
     ELSE UNCHANGED <<running, thread>>
  /\ UNCHANGED <<buffered, overtaken, target, conn, store, listening, frame, sample>>

(* FillBuffer without a frame in the store: the sample is black. *)
FillBlack ==
  /\ graph = "filling" /\ mutex = "free" /\ ~hasFrame
  /\ sample' = [h \in Halves |-> 0]
  /\ UNCHANGED <<control, conn, store, thread, listening, frame>>

(* FillBuffer, copyLatest: lock, then the first half of the active slot... *)
FillBegin ==
  /\ graph = "filling" /\ mutex = "free" /\ hasFrame
  /\ mutex' = "graph" /\ graph' = "copying"
  /\ sample' = [sample EXCEPT ![1] = slots[active][1]]
  /\ UNCHANGED <<running, buffered, overtaken, target, starts, conn, slots, active, hasFrame,
                 thread, listening, frame>>

(* ...the second half, and unlock. *)
FillEnd ==
  /\ graph = "copying"
  /\ mutex' = "free" /\ graph' = "filling"
  /\ sample' = [sample EXCEPT ![2] = slots[active][2]]
  /\ UNCHANGED <<running, buffered, overtaken, target, starts, conn, slots, active, hasFrame,
                 thread, listening, frame>>

(* OnThreadDestroy, stop: running_ = false goes to the processor's store buffer... *)
StopStore ==
  /\ graph = "filling"
  /\ graph' = "stopLoad"
  /\ buffered' = buffered \cup {"running"}
  /\ UNCHANGED <<running, overtaken, target, starts, conn, store, thread, listening, frame, sample>>

(* ...and reaches memory some time later... *)
DrainStore ==
  /\ "running" \in buffered
  /\ running' = FALSE /\ buffered' = buffered \ {"running"}
  /\ UNCHANGED <<overtaken, graph, target, starts, conn, store, thread, listening, frame, sample>>

(* Which stores the load that follows the store of atomic a has now overtaken. *)
Overtaking(a) == IF a \in buffered THEN overtaken \cup {a} ELSE overtaken \ {a}

(* Mutant: the socket is left alone. *)
StopWithoutShutdown ==
  /\ graph = "stopLoad"
  /\ overtaken' = Overtaking("running")
  /\ target' = socket /\ graph' = "join"
  /\ UNCHANGED <<running, buffered, starts, conn, store, thread, listening, frame, sample>>

(* ...socket_ is loaded, after that or before... *)
StopLoad ==
  /\ graph = "stopLoad"
  /\ overtaken' = Overtaking("running")
  /\ target' = socket
  /\ graph' = IF socket = NoFd THEN "join" ELSE "stopShutdown"
  /\ UNCHANGED <<running, buffered, starts, conn, store, thread, listening, frame, sample>>

(* ...and the socket, unless it was closed meanwhile, is shut down; a system call, *)
(* before which the store buffer has drained.                                      *)
StopShutdown ==
  /\ graph = "stopShutdown" /\ "running" \notin buffered
  /\ down' = down \cup ({target} \cap open)
  /\ graph' = "join"
  /\ UNCHANGED <<running, buffered, overtaken, target, starts, socket, fd, open, store, thread,
                 listening, frame, sample>>

(* The join returns when the receiver's thread has ended. *)
Join ==
  /\ graph = "join" /\ "running" \notin buffered /\ thread = "ended"
  /\ thread' = "none" /\ graph' = "off"
  /\ UNCHANGED <<running, buffered, overtaken, target, starts, conn, store, listening, frame,
                 sample>>

-----------------------------------------------------------------------------
(* The receiver's thread: run, connectDevice, receiveSession, readExact, publish. *)

(* run: the loop ends when running_ is false. *)
CheckRunning ==
  /\ thread = "loop"
  /\ thread' = IF running THEN "connect" ELSE "ended"
  /\ UNCHANGED <<control, conn, store, listening, frame, sample>>

(* connectDevice finds the phone and the phone accepts... *)
Connect ==
  /\ thread = "connect" /\ listening
  /\ \E f \in Fds \ open :
       /\ fd' = f /\ open' = open \cup {f}
  /\ thread' = "connected"
  /\ UNCHANGED <<control, socket, down, store, listening, frame, sample>>

(* ...or there is no phone, or nothing listens on it. *)
ConnectFails ==
  /\ thread = "connect" /\ ~listening
  /\ thread' = "backoff"
  /\ UNCHANGED <<control, conn, store, listening, frame, sample>>

(* run: the socket goes to socket_, for stop() to shut down; the store waits... *)
PublishSocket ==
  /\ thread = "connected"
  /\ buffered' = buffered \cup {"socket"}
  /\ thread' = "session"
  /\ UNCHANGED <<running, overtaken, graph, target, starts, conn, store, listening, frame,
                 sample>>

(* ...and reaches memory some time later. *)
DrainSocket ==
  /\ "socket" \in buffered
  /\ socket' = fd /\ buffered' = buffered \ {"socket"}
  /\ UNCHANGED <<running, overtaken, graph, target, starts, fd, open, down, store, thread,
                 listening, frame, sample>>

(* Mutant: readExact does not look at running_. *)
RecvUnchecked ==
  /\ thread = "session"
  /\ overtaken' = Overtaking("socket")
  /\ thread' \in {"recv", "ending"}
  /\ UNCHANGED <<running, buffered, graph, target, starts, conn, store, listening, frame,
                 sample>>

(* receiveSession and readExact look at running_ before every recv; a decoder that *)
(* cannot be opened ends the session before the first.                             *)
CheckBeforeRecv ==
  /\ thread = "session"
  /\ overtaken' = Overtaking("socket")
  /\ thread' \in IF running THEN {"recv", "ending"} ELSE {"ending"}
  /\ UNCHANGED <<running, buffered, graph, target, starts, conn, store, listening, frame,
                 sample>>

(* recv returns a part of a packet, a packet the decoder takes, or one whose header *)
(* is refused.                                                                      *)
RecvData ==
  /\ thread = "recv" /\ fd \notin down
  /\ thread' \in {"session", "decode", "ending"}
  /\ UNCHANGED <<control, conn, store, listening, frame, sample>>

(* recv returns no more on a socket that was shut down or that the phone closed. *)
RecvEnds ==
  /\ thread = "recv" /\ fd \in down
  /\ thread' = "ending"
  /\ UNCHANGED <<control, conn, store, listening, frame, sample>>

(* avcodec_receive_frame yields the next frame, while running_... *)
DecodeFrame ==
  /\ thread = "decode" /\ running /\ frame < MaxFrames
  /\ frame' = frame + 1
  /\ thread' = "publish"
  /\ UNCHANGED <<control, conn, store, listening, sample>>

(* ...or has no more to give; a scaler that cannot be made ends the session. *)
DecodeEnds ==
  /\ thread = "decode"
  /\ thread' \in {"session", "ending"}
  /\ UNCHANGED <<control, conn, store, listening, frame, sample>>

(* Mutant: publish does not take the mutex. *)
PublishUnlocked ==
  /\ thread = "publish"
  /\ slots' = [slots EXCEPT ![1 - active][1] = frame]
  /\ thread' = "publishing"
  /\ UNCHANGED <<control, conn, mutex, active, hasFrame, listening, frame, sample>>

(* Mutant: the next slot is not taken modulo two. *)
PublishPastTheSlots ==
  /\ thread = "publishing"
  /\ mutex' = "free" /\ slots' = [slots EXCEPT ![1 - active][2] = frame]
  /\ active' = active + 1 /\ hasFrame' = TRUE /\ thread' = "decode"
  /\ UNCHANGED <<control, conn, listening, frame, sample>>

(* publish: lock, then the first half of the slot that is not active... *)
PublishBegin ==
  /\ thread = "publish" /\ mutex = "free"
  /\ mutex' = "receiver"
  /\ slots' = [slots EXCEPT ![1 - active][1] = frame]
  /\ thread' = "publishing"
  /\ UNCHANGED <<control, conn, active, hasFrame, listening, frame, sample>>

(* ...the second half, the slot becomes the active one, and unlock; then the decoder *)
(* is asked again.                                                                   *)
PublishEnd ==
  /\ thread = "publishing"
  /\ mutex' = "free"
  /\ slots' = [slots EXCEPT ![1 - active][2] = frame]
  /\ active' = 1 - active /\ hasFrame' = TRUE
  /\ thread' = "decode"
  /\ UNCHANGED <<control, conn, listening, frame, sample>>

(* Mutant: the socket is closed while socket_ still names it. *)
WithdrawLate ==
  /\ thread = "ending" /\ "socket" \notin buffered
  /\ open' = open \ {fd} /\ down' = down \ {fd}
  /\ thread' = "closing"
  /\ UNCHANGED <<control, socket, fd, store, listening, frame, sample>>

(* run, after the session: socket_ = -1, behind the store before it; closesocket, a      *)
(* system call, finds both in memory...                                                  *)
Withdraw ==
  /\ thread = "ending" /\ "socket" \notin buffered
  /\ socket' = NoFd
  /\ thread' = "closing"
  /\ UNCHANGED <<control, fd, open, down, store, listening, frame, sample>>

(* ...and closesocket. *)
Close ==
  /\ thread = "closing"
  /\ open' = open \ {fd} /\ down' = down \ {fd}
  /\ fd' = NoFd
  /\ thread' = "backoff"
  /\ UNCHANGED <<control, socket, store, listening, frame, sample>>

(* Mutant: a session that ends is the last. *)
BackoffGivesUp ==
  /\ thread = "backoff"
  /\ thread' = "ended"
  /\ UNCHANGED <<control, conn, store, listening, frame, sample>>

(* run: the second's pause before the next attempt. *)
Backoff ==
  /\ thread = "backoff"
  /\ thread' = "loop"
  /\ UNCHANGED <<control, conn, store, listening, frame, sample>>

-----------------------------------------------------------------------------
(* The phone. *)

PhoneComesOrGoes ==
  /\ listening' = ~listening
  /\ UNCHANGED <<control, conn, store, thread, frame, sample>>

PhoneCloses ==
  /\ open # {}
  /\ \E f \in open : down' = down \cup {f}
  /\ UNCHANGED <<control, socket, fd, open, store, thread, listening, frame, sample>>

-----------------------------------------------------------------------------
GraphStep == FillEnd \/ DrainStore \/ StopLoad \/ StopShutdown \/ Join

(* Every step the receiver's thread takes without waiting for the phone. *)
ReceiverStep ==
  \/ CheckRunning \/ Connect \/ ConnectFails \/ PublishSocket \/ CheckBeforeRecv \/ RecvEnds
  \/ DecodeFrame \/ DecodeEnds \/ PublishBegin \/ PublishEnd \/ Withdraw \/ Close \/ Backoff

Next ==
  \/ Start \/ FillBlack \/ FillBegin \/ StopStore
  \/ GraphStep
  \/ ReceiverStep \/ DrainSocket \/ RecvData
  \/ PhoneComesOrGoes \/ PhoneCloses

Spec == Init /\ [][Next]_vars

(* Both threads are scheduled, the store buffers drain, and recv returns on a socket that *)
(* was shut down.  Nothing is assumed of the phone, which may stay silent for ever, nor *)
(* of the graph, which may never stop the stream.                                       *)
FairSpec ==
  /\ Spec
  /\ WF_vars(FillEnd) /\ WF_vars(DrainStore) /\ WF_vars(StopLoad) /\ WF_vars(StopShutdown)
  /\ WF_vars(Join) /\ WF_vars(ReceiverStep) /\ WF_vars(DrainSocket)

-----------------------------------------------------------------------------
(* The properties. *)

TypeOK ==
  /\ running \in BOOLEAN /\ buffered \subseteq Atomics /\ overtaken \subseteq Atomics
  /\ thread \in ThreadStates /\ graph \in GraphStates
  /\ socket \in Fds \cup {NoFd} /\ fd \in Fds \cup {NoFd} /\ target \in Fds \cup {NoFd}
  /\ open \subseteq Fds /\ down \subseteq open
  /\ listening \in BOOLEAN /\ frame \in Frames /\ starts \in 0..MaxStarts
  /\ mutex \in {"free", "graph", "receiver"}
  /\ slots \in [{0, 1} -> [Halves -> Frames]] /\ active \in {0, 1} /\ hasFrame \in BOOLEAN
  /\ sample \in [Halves -> Frames]

(* frame_store.h:10 "DirectShow only ever sees a complete frame": the store is a register,   *)
(* LatestFrame.  Whatever the decoder publishes while FillBuffer copies, a sample that is    *)
(* finished is the newest frame of the moment its copy ends, both halves of it, and black    *)
(* only before the first; across sessions and restarts of the stream none older follows.     *)
(* A sample being written is not the reader's yet.                                           *)
Store == INSTANCE LatestFrame WITH
  Parts   <- Halves,
  newest  <- slots[active][1],
  picture <- IF graph = "copying" THEN [h \in Halves |-> sample[2]] ELSE sample
ImplementsLatestFrame == Store!Spec

(* The handle stop() finds in socket_ was never that of a closed socket when it was loaded, *)
(* and when stop() has returned no socket is left open behind it: what the order of the     *)
(* four statements around receiveSession is for.                                            *)
SocketIsOpen ==
  /\ socket # NoFd => socket \in open
  /\ thread \in {"none", "ended"} => open = {}

(* virtual_camera.cpp:64 "unblocks recv so destruction cannot hang": the thread stop() joins *)
(* is never in a recv that nobody will wake.  It has passed its look at running_ before      *)
(* stop() cleared it, so stop() has found its socket, and not that of an earlier session     *)
(* under the same handle, in socket_.  The one exception is a load that overtook the store   *)
(* before it in its own thread, which release and acquire do not exclude.                    *)
JoinedThreadWakes ==
  graph = "join" /\ thread = "recv" /\ overtaken = {} => fd \in down

(* virtual_camera.cpp:64 "unblocks recv so destruction cannot hang": stop() returns, even *)
(* when the phone never sends another byte.                                               *)
StopReturns == graph = "stopLoad" ~> graph = "off"

(* What does hold with the accesses the code has: every stop() returns, however silent the *)
(* phone is, unless one waits for ever in the join to which a load that overtook its own   *)
(* thread's store has led.                                                                 *)
StopReturnsOrOvertaken ==
  \/ graph = "stopLoad" ~> graph = "off"
  \/ <>[](graph = "join" /\ overtaken # {})

(* virtual_camera.cpp:134 "A device disconnect or bad packet is recoverable": while the *)
(* stream stays started and the phone stays there, the receiver is connected again and  *)
(* again however often a session ends.                                                  *)
Reconnects ==
  <>[](graph \in {"filling", "copying"} /\ listening) => []<>(socket # NoFd)

=============================================================================
