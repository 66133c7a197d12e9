----------------------------- MODULE StreamSender -----------------------------
(***************************************************************************)
(* The phone's TCP sender, ios/StreamSender.swift.                         *)
(*                                                                         *)
(* All of its state is touched only by blocks that run on one serial       *)
(* dispatch queue, so every block is one atomic action here.  What is      *)
(* concurrent is everything that posts those blocks: the camera (frames,   *)
(* start, stop, restartListening), Network.framework (listener, connection *)
(* and send callbacks), the path monitor and the retry timers.  A callback *)
(* that has been posted but has not run yet is kept in a mailbox, and the  *)
(* model lets mailboxes of different origins be served in any order; the   *)
(* callbacks of one object keep theirs.                                    *)
(*                                                                         *)
(* Left out: the telemetry counters (sentFrameCount, droppedFrameCount),   *)
(* status texts and the length of the retry delay.                         *)
(***************************************************************************)
EXTENDS Naturals, Sequences

CONSTANTS
  Listeners,         \* identities an NWListener object can have
  Connections,       \* identities an NWConnection object can have
  Paths,             \* wired-path signatures NWPathMonitor can report
  None,              \* Swift's nil
  MaxQueuedPackets,  \* capacity of pendingPackets (8 in the source)
  MaxFrames,         \* bound: frames the encoder hands over
  MaxTimers,         \* bound: retry timers pending at once
  MaxBacklog         \* bound: path updates and restart blocks posted, not run

ASSUME ConstantsAssumption ==
  /\ None \notin Listeners \cup Connections \cup Paths
  /\ MaxQueuedPackets \in Nat \ {0}
  /\ MaxFrames \in Nat
  /\ MaxTimers \in Nat
  /\ MaxBacklog \in Nat

VARIABLES
  \* The stored properties of the Swift class.
  desiredRunning, listener, listenerRetryAttempt, wiredPathSignature,
  connection, connectionReady, waitingForKeyFrame, sendInFlight,
  pendingPackets,
  \* Network.framework and the dispatch queue, as the sender sees them.
  lsnPhase,          \* life cycle of each listener object
  lsnPath,           \* the wired path a listener was created on
  lsnEvents,         \* listener state callbacks posted and not yet run
  incoming,          \* <<l, c>>: l's newConnectionHandler(c) has not run yet
  connPhase,         \* life cycle of each connection object
  connEvents,        \* connection state callbacks posted and not yet run
  outstanding,       \* send completions that have not run yet, by connection
  wire,              \* packets given to connection.send, by connection
  usbPath,           \* the wired path as it is now
  pathUpdates,       \* path updates posted and not yet handled
  restartBlocks,     \* number of restartListening blocks posted, not yet run
  retryTimers,       \* number of scheduleRestart timers pending
  \* The encoder: number of the next frame and of the last IDR.
  nextFrame, lastIdr

listenerVars   == <<listener, lsnPhase, lsnPath, listenerRetryAttempt, retryTimers>>
pathVars       == <<wiredPathSignature, usbPath, pathUpdates>>
listening      == <<desiredRunning, listenerVars, lsnEvents, pathVars, restartBlocks>>
connectionVars == <<connection, connectionReady, sendInFlight, pendingPackets>>
packetVars     == <<waitingForKeyFrame, outstanding, wire, nextFrame, lastIdr>>
streaming      == <<connectionVars, packetVars, incoming, connPhase, connEvents>>
vars           == <<listening, streaming>>

-----------------------------------------------------------------------------
(* Packets.  frame is the position in the encoder's output and idr that of *)
(* the IDR picture the frame depends on: a packet is an IDR when they      *)
(* agree.  Before the first IDR, deltas depend on picture 0, never sent.   *)

Packet == [frame : 1..MaxFrames, idr : 0..MaxFrames]
IsIdr(p) == p.idr = p.frame

(* Life cycles.  A cancelled or failed object is "gone"; a listener object *)
(* with no callback left is free to stand for the next one created.        *)

LsnPhases  == {"starting", "ready", "gone"}
ConnPhases == {"unborn", "arrived", "preparing", "ready", "gone"}
EventTypes == {"ready", "failed", "cancelled"}
LiveLsn    == {"starting", "ready"}
LiveConn   == {"preparing", "ready"}

(* What is run for an object is run in the order it was posted in.          *)
Earlier(event) == CASE event = "ready"     -> {}
                    [] event = "failed"    -> {"ready"}
                    [] event = "cancelled" -> {"ready", "failed"}
Deliverable(events, x, event) ==
  /\ <<x, event>> \in events
  /\ \A e \in Earlier(event) : <<x, e>> \notin events

(* cancel() on an object, or on nil: the object is gone at once and its    *)
(* .cancelled callback is posted.                                          *)
Cancel(phase, x) == [y \in DOMAIN phase |-> IF y = x THEN "gone" ELSE phase[y]]
Cancelling(x)    == {<<y, "cancelled">> : y \in {x} \ {None}}

(* NWListener(...) makes a new object: one no callback can still name.     *)
FreshListener(l) ==
  /\ lsnPhase[l] = "gone"
  /\ \A e \in lsnEvents : e[1] # l
  /\ \A i \in incoming : i[1] # l

-----------------------------------------------------------------------------
Init ==
  /\ desiredRunning = FALSE
  /\ listener = None
  /\ listenerRetryAttempt = 0
  /\ wiredPathSignature = None
  /\ connection = None
  /\ connectionReady = FALSE
  /\ waitingForKeyFrame = TRUE
  /\ sendInFlight = FALSE
  /\ pendingPackets = <<>>
  /\ lsnPhase = [l \in Listeners |-> "gone"]
  /\ usbPath \in Paths
  /\ lsnPath = [l \in Listeners |-> usbPath]
  /\ lsnEvents = {}
  /\ incoming = {}
  /\ connPhase = [c \in Connections |-> "unborn"]
  /\ connEvents = {}
  /\ outstanding = [c \in Connections |-> 0]
  /\ wire = [c \in Connections |-> <<>>]
  /\ pathUpdates = <<usbPath>>
  /\ restartBlocks = 0
  /\ retryTimers = 0
  /\ nextFrame = 1
  /\ lastIdr = 0

-----------------------------------------------------------------------------
(* The listener.                                                           *)

(* Mutant: the exponent of the retry delay is not capped.                  *)
ScheduleRestartUncapped(timers, attempt) ==
  IF desiredRunning' /\ listener' = None
  THEN /\ timers < MaxTimers
       /\ retryTimers' = timers + 1
       /\ listenerRetryAttempt' = attempt + 1
  ELSE /\ retryTimers' = timers
       /\ listenerRetryAttempt' = attempt

ScheduleRestart(timers, attempt) ==
  IF desiredRunning' /\ listener' = None
  THEN /\ timers < MaxTimers
       /\ retryTimers' = timers + 1
       /\ listenerRetryAttempt' = IF attempt < 5 THEN attempt + 1 ELSE 5
  ELSE /\ retryTimers' = timers
       /\ listenerRetryAttempt' = attempt

(* startOnQueue with listener = current, the listener objects in phase,    *)
(* and the given retry state; it is called after desiredRunning is set.    *)
ListenerExists(current, phase, timers, attempt) ==
  /\ current # None
  /\ listener' = current
  /\ lsnPhase' = phase
  /\ retryTimers' = timers
  /\ listenerRetryAttempt' = attempt
  /\ UNCHANGED lsnPath

ListenerCreated(current, phase, timers, attempt) ==
  /\ current = None
  /\ \E l \in Listeners :
       /\ FreshListener(l)
       /\ listener' = l
       /\ lsnPhase' = [phase EXCEPT ![l] = "starting"]
       /\ lsnPath' = [lsnPath EXCEPT ![l] = usbPath]
  /\ retryTimers' = timers
  /\ listenerRetryAttempt' = attempt

(* Mutant: a throwing creation is only logged.                             *)
CreationThrowsUnretried(current, phase, timers, attempt) ==
  /\ current = None
  /\ listener' = None
  /\ lsnPhase' = phase
  /\ retryTimers' = timers
  /\ listenerRetryAttempt' = attempt
  /\ UNCHANGED lsnPath

CreationThrows(current, phase, timers, attempt) ==
  /\ current = None
  /\ listener' = None
  /\ lsnPhase' = phase
  /\ ScheduleRestart(timers, attempt)
  /\ UNCHANGED lsnPath

StartOnQueue(current, phase, timers, attempt) ==
  \/ ListenerExists(current, phase, timers, attempt)
  \/ ListenerCreated(current, phase, timers, attempt)
  \/ CreationThrows(current, phase, timers, attempt)

Start ==
  /\ desiredRunning' = TRUE
  /\ StartOnQueue(listener, lsnPhase, retryTimers, listenerRetryAttempt)
  /\ UNCHANGED <<lsnEvents, pathVars, restartBlocks, streaming>>

RetryTimer ==
  /\ retryTimers > 0
  /\ \/ /\ desiredRunning
        /\ UNCHANGED desiredRunning
        /\ StartOnQueue(listener, lsnPhase, retryTimers - 1, listenerRetryAttempt)
     \/ /\ ~desiredRunning
        /\ retryTimers' = retryTimers - 1
        /\ UNCHANGED <<desiredRunning, listener, lsnPhase, lsnPath, listenerRetryAttempt>>
  /\ UNCHANGED <<lsnEvents, pathVars, restartBlocks, streaming>>

(* The four assignments that forget the current connection.                *)
ForgetConnection ==
  /\ connection' = None
  /\ connectionReady' = FALSE
  /\ sendInFlight' = FALSE
  /\ pendingPackets' = <<>>

(* Mutant: the connection is forgotten but not cancelled.                  *)
ForgetWithoutCancel ==
  /\ UNCHANGED <<connPhase, connEvents>>
  /\ ForgetConnection

CloseConnection ==
  /\ connPhase' = Cancel(connPhase, connection)
  /\ connEvents' = connEvents \cup Cancelling(connection)
  /\ ForgetConnection

(* restartListening is called by the camera's recovery and by path updates: *)
(* the call posts a block, RestartListening is the block.                   *)
Backlog == Len(pathUpdates) + restartBlocks

PostRestart ==
  /\ Backlog < MaxBacklog
  /\ restartBlocks' = restartBlocks + 1
  /\ UNCHANGED <<desiredRunning, listenerVars, lsnEvents, pathVars, streaming>>

RestartListening ==
  /\ restartBlocks > 0
  /\ restartBlocks' = restartBlocks - 1
  /\ \/ /\ ~desiredRunning
        /\ UNCHANGED <<listenerVars, lsnEvents, connectionVars, connPhase, connEvents, desiredRunning>>
     \/ /\ desiredRunning
        /\ UNCHANGED desiredRunning
        /\ CloseConnection
        /\ lsnEvents' = lsnEvents \cup Cancelling(listener)
        /\ StartOnQueue(None, Cancel(lsnPhase, listener), retryTimers, 0)
  /\ UNCHANGED <<pathVars, packetVars, incoming>>

(* Mutant: stop forgets the listener without cancelling it.                *)
StopWithoutCancel ==
  /\ desiredRunning' = FALSE
  /\ listenerRetryAttempt' = 0
  /\ CloseConnection
  /\ listener' = None
  /\ UNCHANGED <<lsnPhase, lsnEvents, lsnPath, retryTimers, pathVars, restartBlocks,
                 packetVars, incoming>>

Stop ==
  /\ desiredRunning' = FALSE
  /\ listenerRetryAttempt' = 0
  /\ CloseConnection
  /\ listener' = None
  /\ lsnPhase' = Cancel(lsnPhase, listener)
  /\ lsnEvents' = lsnEvents \cup Cancelling(listener)
  /\ UNCHANGED <<lsnPath, retryTimers, pathVars, restartBlocks, packetVars, incoming>>

(* The system's side of a listener.                                        *)
ListenerReady(l) ==
  /\ lsnPhase[l] = "starting"
  /\ lsnPhase' = [lsnPhase EXCEPT ![l] = "ready"]
  /\ lsnEvents' = lsnEvents \cup {<<l, "ready">>}
  /\ UNCHANGED <<desiredRunning, listener, lsnPath, listenerRetryAttempt, retryTimers,
                 pathVars, restartBlocks, streaming>>

ListenerEnds(l, event) ==
  /\ lsnPhase[l] \in LiveLsn
  /\ lsnPhase' = [lsnPhase EXCEPT ![l] = "gone"]
  /\ lsnEvents' = lsnEvents \cup {<<l, event>>}
  /\ UNCHANGED <<desiredRunning, listener, lsnPath, listenerRetryAttempt, retryTimers,
                 pathVars, restartBlocks, streaming>>

(* stateUpdateHandler of listener l.                                       *)
IsCurrentListener(l) == listener = l

StaleListenerUpdate(l, event) ==
  /\ ~IsCurrentListener(l)
  /\ lsnEvents' = lsnEvents \ {<<l, event>>}
  /\ UNCHANGED <<listenerVars, connectionVars, connPhase, connEvents>>

ListenerBecameReady(l) ==
  /\ IsCurrentListener(l)
  /\ listenerRetryAttempt' = 0
  /\ lsnEvents' = lsnEvents \ {<<l, "ready">>}
  /\ UNCHANGED <<listener, lsnPhase, lsnPath, retryTimers,
                 connectionVars, connPhase, connEvents>>

ListenerFailed(l) ==
  /\ IsCurrentListener(l)
  /\ CloseConnection
  /\ listener' = None
  /\ lsnPhase' = Cancel(lsnPhase, l)
  /\ lsnEvents' = (lsnEvents \ {<<l, "failed">>}) \cup Cancelling(l)
  /\ ScheduleRestart(retryTimers, listenerRetryAttempt)
  /\ UNCHANGED lsnPath

(* Mutant: a cancelled listener is taken for a deliberate stop.            *)
ListenerCancelledForGood(l) ==
  /\ IsCurrentListener(l)
  /\ listener' = None
  /\ lsnEvents' = lsnEvents \ {<<l, "cancelled">>}
  /\ UNCHANGED <<lsnPhase, lsnPath, retryTimers, listenerRetryAttempt,
                 connectionVars, connPhase, connEvents>>

ListenerCancelled(l) ==
  /\ IsCurrentListener(l)
  /\ listener' = None
  /\ lsnEvents' = lsnEvents \ {<<l, "cancelled">>}
  /\ ScheduleRestart(retryTimers, listenerRetryAttempt)
  /\ UNCHANGED <<lsnPhase, lsnPath, connectionVars, connPhase, connEvents>>

ListenerUpdate(l) ==
  /\ UNCHANGED desiredRunning
  /\ \/ Deliverable(lsnEvents, l, "ready") /\ ListenerBecameReady(l)
     \/ Deliverable(lsnEvents, l, "failed") /\ ListenerFailed(l)
     \/ Deliverable(lsnEvents, l, "cancelled") /\ ListenerCancelled(l)
     \/ \E event \in EventTypes :
          Deliverable(lsnEvents, l, event) /\ StaleListenerUpdate(l, event)
  /\ UNCHANGED <<pathVars, restartBlocks, packetVars, incoming>>

-----------------------------------------------------------------------------
(* The wired path.                                                         *)

PathChange(p) ==
  /\ Backlog < MaxBacklog
  /\ usbPath' = p
  /\ pathUpdates' = Append(pathUpdates, p)
  /\ UNCHANGED <<desiredRunning, listenerVars, lsnEvents, wiredPathSignature,
                 restartBlocks, streaming>>

(* Mutant: a path change does not disturb a PC that is connected.          *)
MustRebindIfIdle(signature) ==
  /\ wiredPathSignature # None
  /\ wiredPathSignature # signature
  /\ desiredRunning
  /\ connection = None

MustRebind(signature) ==
  /\ wiredPathSignature # None
  /\ wiredPathSignature # signature
  /\ desiredRunning

HandlePathUpdate ==
  /\ pathUpdates # <<>>
  /\ pathUpdates' = Tail(pathUpdates)
  /\ wiredPathSignature' = Head(pathUpdates)
  /\ restartBlocks' = IF MustRebind(Head(pathUpdates)) THEN restartBlocks + 1 ELSE restartBlocks
  /\ UNCHANGED <<desiredRunning, listenerVars, lsnEvents, usbPath, streaming>>

-----------------------------------------------------------------------------
(* A connection.                                                           *)

ClientArrives(l, c) ==
  /\ lsnPhase[l] = "ready"
  /\ connPhase[c] = "unborn"
  /\ connPhase' = [connPhase EXCEPT ![c] = "arrived"]
  /\ incoming' = incoming \cup {<<l, c>>}
  /\ UNCHANGED <<listening, connectionVars, packetVars, connEvents>>

(* Mutant: the queue of the replaced connection is kept.                   *)
NewConnectionKeepsQueue(l, c) ==
  /\ <<l, c>> \in incoming
  /\ incoming' = incoming \ {<<l, c>>}
  /\ connPhase' = [Cancel(connPhase, connection) EXCEPT ![c] = "preparing"]
  /\ connEvents' = connEvents \cup Cancelling(connection)
  /\ connection' = c
  /\ connectionReady' = FALSE
  /\ sendInFlight' = FALSE
  /\ waitingForKeyFrame' = TRUE
  /\ UNCHANGED <<pendingPackets, listening, outstanding, wire, nextFrame, lastIdr>>

(* newConnectionHandler of listener l, which asks neither whether l is     *)
(* still the listener nor whether the sender is still meant to run.        *)
NewConnection(l, c) ==
  /\ <<l, c>> \in incoming
  /\ incoming' = incoming \ {<<l, c>>}
  /\ connPhase' = [Cancel(connPhase, connection) EXCEPT ![c] = "preparing"]
  /\ connEvents' = connEvents \cup Cancelling(connection)
  /\ connection' = c
  /\ connectionReady' = FALSE
  /\ sendInFlight' = FALSE
  /\ pendingPackets' = <<>>
  /\ waitingForKeyFrame' = TRUE
  /\ UNCHANGED <<listening, outstanding, wire, nextFrame, lastIdr>>

(* The system's side of a connection.                                      *)
ConnReady(c) ==
  /\ connPhase[c] = "preparing"
  /\ connPhase' = [connPhase EXCEPT ![c] = "ready"]
  /\ connEvents' = connEvents \cup {<<c, "ready">>}
  /\ UNCHANGED <<listening, connectionVars, packetVars, incoming>>

ConnEnds(c, event) ==
  /\ connPhase[c] \in LiveConn
  /\ connPhase' = [connPhase EXCEPT ![c] = "gone"]
  /\ connEvents' = connEvents \cup {<<c, event>>}
  /\ UNCHANGED <<listening, connectionVars, packetVars, incoming>>

(* Mutant: the handlers do not ask whose callback it is.                   *)
WhoeverCalled(c) == TRUE

(* The block stateUpdateHandler of connection c posts.                     *)
IsCurrent(c) == connection = c

StaleConnectionUpdate(c) ==
  /\ ~IsCurrent(c)
  /\ UNCHANGED <<connectionVars, waitingForKeyFrame>>

ConnectionBecameReady(c) ==
  /\ IsCurrent(c)
  /\ connectionReady' = TRUE
  /\ waitingForKeyFrame' = TRUE
  /\ UNCHANGED <<connection, sendInFlight, pendingPackets>>

ConnectionEnded(c) ==
  /\ IsCurrent(c)
  /\ ForgetConnection
  /\ UNCHANGED waitingForKeyFrame

ConnectionUpdate(c) ==
  /\ \E event \in EventTypes :
       /\ Deliverable(connEvents, c, event)
       /\ connEvents' = connEvents \ {<<c, event>>}
       /\ \/ StaleConnectionUpdate(c)
          \/ event = "ready" /\ ConnectionBecameReady(c)
          \/ event # "ready" /\ ConnectionEnded(c)
  /\ UNCHANGED <<listening, outstanding, wire, nextFrame, lastIdr, incoming, connPhase>>

-----------------------------------------------------------------------------
(* Packets.                                                                *)

(* pumpSend with the given queue, sendInFlight and completions to come.    *)
PumpSend(c, queue, inFlight, completions) ==
  \/ /\ ~inFlight /\ queue # <<>>
     /\ pendingPackets' = Tail(queue)
     /\ sendInFlight' = TRUE
     /\ wire' = [wire EXCEPT ![c] = Append(@, Head(queue))]
     /\ outstanding' = [completions EXCEPT ![c] = @ + 1]
  \/ /\ inFlight \/ queue = <<>>
     /\ pendingPackets' = queue
     /\ sendInFlight' = inFlight
     /\ outstanding' = completions
     /\ UNCHANGED wire

(* Mutant: no gate before the first IDR. *)
AdmitsUngated(isKeyframe) ==
  /\ connection # None
  /\ connectionReady
  /\ Len(pendingPackets) < MaxQueuedPackets

(* The early returns of the block send posts.                              *)
Admits(isKeyframe) ==
  /\ connection # None
  /\ connectionReady
  /\ ~waitingForKeyFrame \/ isKeyframe
  /\ Len(pendingPackets) < MaxQueuedPackets

NextPacket(isKeyframe) ==
  [frame |-> nextFrame, idr |-> IF isKeyframe THEN nextFrame ELSE lastIdr]

(* Mutant: an IDR overtakes the deltas that wait.                          *)
AdmitKeyFirst(isKeyframe) ==
  LET p == NextPacket(isKeyframe) IN
  /\ Admits(isKeyframe)
  /\ waitingForKeyFrame' = (waitingForKeyFrame /\ ~isKeyframe)
  /\ PumpSend(connection,
              IF isKeyframe THEN <<p>> \o pendingPackets ELSE Append(pendingPackets, p),
              sendInFlight, outstanding)

AdmitPacket(isKeyframe) ==
  /\ Admits(isKeyframe)
  /\ waitingForKeyFrame' = (waitingForKeyFrame /\ ~isKeyframe)
  /\ PumpSend(connection, Append(pendingPackets, NextPacket(isKeyframe)), sendInFlight, outstanding)

Send(isKeyframe) ==
  /\ nextFrame <= MaxFrames
  /\ nextFrame' = nextFrame + 1
  /\ lastIdr' = NextPacket(isKeyframe).idr
  /\ \/ AdmitPacket(isKeyframe)
     \/ /\ ~Admits(isKeyframe)
        /\ UNCHANGED <<waitingForKeyFrame, pendingPackets, sendInFlight, wire, outstanding>>
  /\ UNCHANGED <<listening, connection, connectionReady, incoming, connPhase, connEvents>>

(* The block the completion of a send on c posts.                          *)
StaleCompletion(c) ==
  /\ ~IsCurrent(c)
  /\ outstanding' = [outstanding EXCEPT ![c] = @ - 1]
  /\ UNCHANGED <<connectionVars, wire, connPhase, connEvents>>

(* Mutant: a failed send is reported and otherwise ignored.                *)
SendFailedIgnored(c) ==
  /\ IsCurrent(c)
  /\ outstanding' = [outstanding EXCEPT ![c] = @ - 1]
  /\ sendInFlight' = FALSE
  /\ UNCHANGED <<connection, connectionReady, pendingPackets, connPhase, connEvents, wire>>

SendFailed(c) ==
  /\ IsCurrent(c)
  /\ outstanding' = [outstanding EXCEPT ![c] = @ - 1]
  /\ ForgetConnection
  /\ connPhase' = Cancel(connPhase, c)
  /\ connEvents' = connEvents \cup Cancelling(c)
  /\ UNCHANGED wire

(* Mutant: the completion clears the flag and leaves the queue alone.      *)
SendSucceededUnpumped(c) ==
  /\ IsCurrent(c)
  /\ outstanding' = [outstanding EXCEPT ![c] = @ - 1]
  /\ sendInFlight' = FALSE
  /\ UNCHANGED <<connection, connectionReady, pendingPackets, connPhase, connEvents, wire>>

SendSucceeded(c) ==
  /\ IsCurrent(c)
  /\ PumpSend(c, pendingPackets, FALSE, [outstanding EXCEPT ![c] = @ - 1])
  /\ UNCHANGED <<connection, connectionReady, connPhase, connEvents>>

ContentProcessed(c) ==
  /\ outstanding[c] > 0
  /\ StaleCompletion(c) \/ SendFailed(c) \/ SendSucceeded(c)
  /\ UNCHANGED <<listening, waitingForKeyFrame, nextFrame, lastIdr, incoming>>

-----------------------------------------------------------------------------
ListenerNext(l) ==
  \/ ListenerReady(l)
  \/ \E event \in {"failed", "cancelled"} : ListenerEnds(l, event)
  \/ ListenerUpdate(l)
  \/ \E c \in Connections : ClientArrives(l, c) \/ NewConnection(l, c)

ConnectionNext(c) ==
  \/ ConnReady(c)
  \/ \E event \in {"failed", "cancelled"} : ConnEnds(c, event)
  \/ ConnectionUpdate(c)
  \/ ContentProcessed(c)

Next ==
  \/ Start
  \/ Stop
  \/ PostRestart
  \/ RestartListening
  \/ RetryTimer
  \/ HandlePathUpdate
  \/ \E p \in Paths : PathChange(p)
  \/ \E isKeyframe \in BOOLEAN : Send(isKeyframe)
  \/ \E l \in Listeners : ListenerNext(l)
  \/ \E c \in Connections : ConnectionNext(c)

Spec == Init /\ [][Next]_vars

-----------------------------------------------------------------------------
(* Fairness.  A dispatch queue runs what was posted to it and a retry timer  *)
(* fires.  Nothing is assumed of the PCs: send sets no timeout, and the      *)
(* completion of a send to a PC that stays connected and reads nothing does  *)
(* not come.  The last conjunct is an assumption about the phone: the port   *)
(* is not refused every time, so sooner or later a timer leaves a listener   *)
(* behind.                                                                   *)

Fairness ==
  /\ \A l \in Listeners : WF_vars(ListenerUpdate(l))
  /\ \A l \in Listeners, c \in Connections : WF_vars(NewConnection(l, c))
  /\ \A c \in Connections : WF_vars(ConnectionUpdate(c))
  /\ WF_vars(RetryTimer /\ listener' # None)

FairSpec == Spec /\ Fairness

-----------------------------------------------------------------------------
(* Properties.                                                             *)

(* Every variable keeps to its domain; the retry delay's exponent stays    *)
(* within 0..5 and the packet queue within maxQueuedPackets.               *)
TypeOK ==
  /\ desiredRunning \in BOOLEAN
  /\ listener \in Listeners \cup {None}
  /\ listenerRetryAttempt \in 0..5
  /\ wiredPathSignature \in Paths \cup {None}
  /\ connection \in Connections \cup {None}
  /\ connectionReady \in BOOLEAN
  /\ waitingForKeyFrame \in BOOLEAN
  /\ sendInFlight \in BOOLEAN
  /\ pendingPackets \in Seq(Packet)
  /\ Len(pendingPackets) <= MaxQueuedPackets
  /\ lsnPhase \in [Listeners -> LsnPhases]
  /\ lsnPath \in [Listeners -> Paths]
  /\ lsnEvents \subseteq Listeners \X EventTypes
  /\ incoming \subseteq Listeners \X Connections
  /\ connPhase \in [Connections -> ConnPhases]
  /\ connEvents \subseteq Connections \X EventTypes
  /\ outstanding \in [Connections -> Nat]
  /\ wire \in [Connections -> Seq(Packet)]
  /\ usbPath \in Paths
  /\ pathUpdates \in Seq(Paths)
  /\ restartBlocks \in Nat
  /\ retryTimers \in 0..MaxTimers
  /\ nextFrame \in 1..(MaxFrames + 1)
  /\ lastIdr \in 0..MaxFrames

(* sendInFlight tells the truth about the current connection: the sends it *)
(* has in Network.framework are one when the flag is set and none when it  *)
(* is clear.  A completion of a replaced connection must not clear the     *)
(* flag of its successor (the identity guard of the completion block).     *)
OneSendInFlight ==
  connection # None => outstanding[connection] = IF sendInFlight THEN 1 ELSE 0

(* Packets never wait behind nothing: a queue that is not empty has a send *)
(* in flight whose completion will pump it (send and the completion block  *)
(* both end in pumpSend).                                                  *)
NoStalledQueue ==
  connection # None /\ ~sendInFlight => pendingPackets = <<>>

(* What a PC receives starts at an IDR picture and never refers back to    *)
(* one from before it joined, whatever frames came while its connection    *)
(* was being set up (waitingForKeyFrame in send and newConnectionHandler). *)
JoinAtIdr ==
  \A c \in Connections : \A i \in 1..Len(wire[c]) : wire[c][i].idr >= wire[c][1].frame

(* On a connection packets go out in the order they were encoded, none     *)
(* twice, and what is queued comes after all that was sent, through drops, *)
(* replacements and failed sends.                                          *)
Increasing(s) == \A i, j \in 1..Len(s) : i < j => s[i].frame < s[j].frame
InOrder ==
  \A c \in Connections :
    Increasing(IF c = connection THEN wire[c] \o pendingPackets ELSE wire[c])

(* A rebind, a failure or a stop leaves no old listener holding the port:  *)
(* a listener the class no longer points to is closed.                     *)
OneLiveListener ==
  \A l \in Listeners : lsnPhase[l] \in LiveLsn => l = listener

(* A new PC replaces and closes the previous one, and no connection goes   *)
(* on after it was forgotten.                                              *)
OneLiveConnection ==
  \A c \in Connections : connPhase[c] \in LiveConn => c = connection

(* While the sender is meant to run it listens or a retry is scheduled:    *)
(* no sequence of failures, cancellations and throwing creations leaves it *)
(* without both (scheduleRestart, the handlers that call it).              *)
NeverStranded ==
  desiredRunning /\ listener = None => retryTimers > 0

(* Once the path updates and restart blocks posted so far have run, the    *)
(* listener is one created on the wired path as it is now, including a     *)
(* listener created between a path change and its callback.                *)
NeverBoundToOldPath ==
  listener # None /\ pathUpdates = <<>> /\ restartBlocks = 0 => lsnPath[listener] = usbPath

(* The sender implements LiveFeed: the connection is the viewer, and what  *)
(* was handed to connection.send is what that viewer was shown.            *)
Feed == INSTANCE LiveFeed WITH
  Viewers <- Connections, NoViewer <- None, Packets <- Packet,
  viewer <- connection, feed <- wire
ImplementsLiveFeed == Feed!Spec

(* A sender meant to run gets its listener back after any failure.         *)
Relisten == desiredRunning /\ listener = None ~> listener # None \/ ~desiredRunning

(* While it is connected the PC goes on reading, so that Network.framework *)
(* completes its sends, with or without an error.                          *)
KeepsReading(c) == WF_vars(connPhase[c] \in LiveConn /\ ContentProcessed(c))

(* A packet queued for a PC that goes on reading is handed to the network  *)
(* unless its connection is given up: completions keep the queue moving,   *)
(* and a connection that fails with packets queued and a send that never   *)
(* completes is given up (pumpSend and its completion, the handlers of     *)
(* .failed and .cancelled).                                                *)
PendingDrains ==
  \A c \in Connections : KeepsReading(c) =>
    \A n \in 1..MaxFrames :
      (connection = c /\ \E i \in 1..Len(pendingPackets) : pendingPackets[i].frame = n)
        ~> (connection # c \/ \E i \in 1..Len(wire[c]) : wire[c][i].frame = n)

(* A delta picture is sent only to a PC that was sent the IDR picture it   *)
(* depends on, which is what the comment in send promises: "Do not admit   *)
(* delta frames until this IDR was actually retained."                     *)
DeltaHasItsIdr ==
  \A c \in Connections : \A i \in 1..Len(wire[c]) :
    \E j \in 1..i : wire[c][j].frame = wire[c][i].idr
===============================================================================
