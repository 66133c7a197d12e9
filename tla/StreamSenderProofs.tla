-------------------------- MODULE StreamSenderProofs --------------------------
(* Theorems about StreamSender and their proofs.                           *)
EXTENDS StreamSender, SequenceTheorems, TLAPS

-----------------------------------------------------------------------------
(* What a step can do to the connection, whatever action takes it.         *)

ConnectionUntouched == UNCHANGED streaming

ConnectionClosed ==
  /\ CloseConnection
  /\ UNCHANGED <<packetVars, incoming>>

(* Every step is one of the few kinds of step the connection's invariants  *)
(* can tell apart.                                                         *)
LEMMA ConnectionSteps ==
  ASSUME Next
  PROVE  \/ ConnectionUntouched
         \/ ConnectionClosed
         \/ \E isKeyframe \in BOOLEAN : Send(isKeyframe)
         \/ \E l \in Listeners, c \in Connections : ClientArrives(l, c) \/ NewConnection(l, c)
         \/ \E c \in Connections :
              \/ ConnReady(c)
              \/ \E event \in {"failed", "cancelled"} : ConnEnds(c, event)
              \/ ConnectionUpdate(c)
              \/ ContentProcessed(c)
<1> USE DEF ConnectionUntouched, ConnectionClosed, listening, streaming, listenerVars, pathVars, packetVars
<1>1. CASE Start
  BY <1>1 DEF Start
<1>2. CASE Stop
  BY <1>2 DEF Stop
<1>3. CASE PostRestart
  BY <1>3 DEF PostRestart
<1>4. CASE RestartListening
  BY <1>4 DEF RestartListening
<1>5. CASE RetryTimer
  BY <1>5 DEF RetryTimer
<1>6. CASE HandlePathUpdate
  BY <1>6 DEF HandlePathUpdate
<1>7. CASE \E p \in Paths : PathChange(p)
  BY <1>7 DEF PathChange
<1>8. CASE \E l \in Listeners : ListenerNext(l)
  <2>1. PICK l \in Listeners : ListenerNext(l)
    BY <1>8
  <2>2. CASE ListenerReady(l)
    BY <2>2 DEF ListenerReady
  <2>3. CASE \E event \in {"failed", "cancelled"} : ListenerEnds(l, event)
    BY <2>3 DEF ListenerEnds
  <2>4. CASE ListenerUpdate(l)
    BY <2>4 DEF ListenerUpdate, ListenerBecameReady, ListenerFailed, ListenerCancelled,
                StaleListenerUpdate
  <2> QED
    BY <2>1, <2>2, <2>3, <2>4 DEF ListenerNext
<1> QED
  BY <1>1, <1>2, <1>3, <1>4, <1>5, <1>6, <1>7, <1>8 DEF Next, ConnectionNext

-----------------------------------------------------------------------------
(* Type correctness.                                                       *)

(* The part of TypeOK a connection step can disturb.                       *)
ConnectionTypes ==
  /\ connection \in Connections \cup {None}
  /\ connectionReady \in BOOLEAN
  /\ waitingForKeyFrame \in BOOLEAN
  /\ sendInFlight \in BOOLEAN
  /\ pendingPackets \in Seq(Packet)
  /\ Len(pendingPackets) <= MaxQueuedPackets
  /\ incoming \subseteq Listeners \X Connections
  /\ connPhase \in [Connections -> ConnPhases]
  /\ connEvents \subseteq Connections \X EventTypes
  /\ outstanding \in [Connections -> Nat]
  /\ wire \in [Connections -> Seq(Packet)]
  /\ nextFrame \in 1..(MaxFrames + 1)
  /\ lastIdr \in 0..MaxFrames
  /\ lastIdr < nextFrame

LEMMA CancelConnectionType ==
  ASSUME ConnectionTypes, NEW x
  PROVE  Cancel(connPhase, x) \in [Connections -> ConnPhases]
BY DEF Cancel, ConnectionTypes, ConnPhases

LEMMA CancellingType ==
  ASSUME ConnectionTypes, NEW x \in Connections \cup {None}
  PROVE  Cancelling(x) \subseteq Connections \X EventTypes
BY DEF Cancelling, EventTypes

LEMMA ForgetConnectionType ==
  ASSUME ForgetConnection
  PROVE  /\ connection' \in Connections \cup {None}
         /\ connectionReady' \in BOOLEAN
         /\ sendInFlight' \in BOOLEAN
         /\ pendingPackets' \in Seq(Packet)
         /\ Len(pendingPackets') <= MaxQueuedPackets
<1>1. pendingPackets' = <<>>
  BY DEF ForgetConnection
<1>2. /\ pendingPackets' \in Seq(Packet)
      /\ Len(pendingPackets') = 0
  BY <1>1
<1>3. 0 <= MaxQueuedPackets
  BY ConstantsAssumption
<1> QED
  BY <1>2, <1>3 DEF ForgetConnection

LEMMA PacketFields ==
  ASSUME ConnectionTypes
  PROVE  /\ \A p \in Packet : p.frame \in Nat /\ p.idr \in Nat
         /\ \A c \in Connections : \A i \in 1..Len(wire[c]) : wire[c][i] \in Packet
         /\ \A j \in 1..Len(pendingPackets) : pendingPackets[j] \in Packet
         /\ nextFrame \in Nat
         /\ lastIdr \in Nat
<1>1. \A p \in Packet : p.frame \in Nat /\ p.idr \in Nat
  BY ConstantsAssumption DEF Packet
<1> QED
  BY <1>1, ConstantsAssumption DEF ConnectionTypes

LEMMA NextPacketType ==
  ASSUME ConnectionTypes, nextFrame <= MaxFrames, NEW isKeyframe \in BOOLEAN
  PROVE  NextPacket(isKeyframe) \in Packet
BY ConstantsAssumption DEF ConnectionTypes, NextPacket, Packet

LEMMA PumpSendType ==
  ASSUME ConnectionTypes, NEW c \in Connections, NEW queue \in Seq(Packet),
         NEW inFlight \in BOOLEAN, NEW completions \in [Connections -> Nat],
         inFlight => Len(queue) <= MaxQueuedPackets,
         Len(queue) <= MaxQueuedPackets + 1,
         PumpSend(c, queue, inFlight, completions)
  PROVE  /\ pendingPackets' \in Seq(Packet)
         /\ Len(pendingPackets') <= MaxQueuedPackets
         /\ sendInFlight' \in BOOLEAN
         /\ outstanding' \in [Connections -> Nat]
         /\ wire' \in [Connections -> Seq(Packet)]
<1>1. CASE ~inFlight /\ queue # <<>>
  <2>1. /\ pendingPackets' = Tail(queue)
        /\ sendInFlight' = TRUE
        /\ wire' = [wire EXCEPT ![c] = Append(@, Head(queue))]
        /\ outstanding' = [completions EXCEPT ![c] = @ + 1]
    BY <1>1 DEF PumpSend
  <2>2. /\ Tail(queue) \in Seq(Packet)
        /\ Len(Tail(queue)) <= MaxQueuedPackets
        /\ Head(queue) \in Packet
    BY <1>1, ConstantsAssumption
  <2>3. wire' \in [Connections -> Seq(Packet)]
    <3>1. wire \in [Connections -> Seq(Packet)]
      BY DEF ConnectionTypes
    <3>2. Append(wire[c], Head(queue)) \in Seq(Packet)
      BY <2>2, <3>1
    <3> QED
      BY <2>1, <3>1, <3>2
  <2>4. outstanding' \in [Connections -> Nat]
    BY <2>1
  <2>5. sendInFlight' \in BOOLEAN
    BY <2>1, Zenon
  <2>6. pendingPackets' \in Seq(Packet) /\ Len(pendingPackets') <= MaxQueuedPackets
    BY <2>1, <2>2
  <2> QED
    BY <2>3, <2>4, <2>5, <2>6
<1>2. CASE inFlight \/ queue = <<>>
  BY <1>2, ConstantsAssumption DEF PumpSend, ConnectionTypes
<1> QED
  BY <1>1, <1>2

LEMMA ConnectionTypesStep ==
  ASSUME ConnectionTypes, [Next]_vars
  PROVE  ConnectionTypes'
<1> USE DEF listening, streaming, connectionVars, packetVars
<1>0. CASE UNCHANGED vars
  BY <1>0 DEF vars, ConnectionTypes
<1>1. CASE ConnectionUntouched
  BY <1>1 DEF ConnectionUntouched, ConnectionTypes
<1>2. CASE ConnectionClosed
  <2>1. connPhase' \in [Connections -> ConnPhases]
    BY <1>2, CancelConnectionType DEF ConnectionClosed, CloseConnection
  <2>2. connEvents' \subseteq Connections \X EventTypes
    BY <1>2, CancellingType DEF ConnectionClosed, CloseConnection, ConnectionTypes
  <2> QED
    BY <1>2, <2>1, <2>2, ForgetConnectionType
    DEF ConnectionClosed, CloseConnection, ConnectionTypes
<1>3. ASSUME NEW isKeyframe \in BOOLEAN, Send(isKeyframe)
      PROVE  ConnectionTypes'
  <2>1. /\ nextFrame' \in 1..(MaxFrames + 1)
        /\ lastIdr' \in 0..MaxFrames
        /\ lastIdr' < nextFrame'
    BY <1>3, ConstantsAssumption DEF Send, NextPacket, ConnectionTypes
  <2>2. CASE AdmitPacket(isKeyframe)
    <3> DEFINE queue == Append(pendingPackets, NextPacket(isKeyframe))
    <3>1. /\ queue \in Seq(Packet)
          /\ Len(queue) <= MaxQueuedPackets
          /\ Len(queue) <= MaxQueuedPackets + 1
          /\ connection \in Connections
      BY <1>3, <2>2, NextPacketType, ConstantsAssumption
      DEF Send, AdmitPacket, Admits, ConnectionTypes
    <3>2. PumpSend(connection, queue, sendInFlight, outstanding)
      BY <2>2 DEF AdmitPacket
    <3>3. /\ pendingPackets' \in Seq(Packet)
          /\ Len(pendingPackets') <= MaxQueuedPackets
          /\ sendInFlight' \in BOOLEAN
          /\ outstanding' \in [Connections -> Nat]
          /\ wire' \in [Connections -> Seq(Packet)]
      <4> HIDE DEF queue
      <4> QED
        BY <3>1, <3>2, PumpSendType DEF ConnectionTypes
    <3> QED
      BY <1>3, <2>1, <2>2, <3>3 DEF Send, AdmitPacket, ConnectionTypes
  <2>3. CASE ~Admits(isKeyframe) /\ UNCHANGED <<waitingForKeyFrame, pendingPackets, sendInFlight, wire, outstanding>>
    BY <1>3, <2>1, <2>3 DEF Send, ConnectionTypes
  <2> QED
    BY <1>3, <2>2, <2>3 DEF Send
<1>4. ASSUME NEW l \in Listeners, NEW c \in Connections, ClientArrives(l, c)
      PROVE  ConnectionTypes'
  BY <1>4 DEF ClientArrives, ConnectionTypes, ConnPhases
<1>5. ASSUME NEW l \in Listeners, NEW c \in Connections, NewConnection(l, c)
      PROVE  ConnectionTypes'
  <2>1. connPhase' \in [Connections -> ConnPhases]
    BY <1>5, CancelConnectionType DEF NewConnection, ConnPhases
  <2>2. connEvents' \subseteq Connections \X EventTypes
    BY <1>5, CancellingType DEF NewConnection, ConnectionTypes
  <2>3. /\ pendingPackets' \in Seq(Packet)
        /\ Len(pendingPackets') <= MaxQueuedPackets
    BY <1>5, ConstantsAssumption DEF NewConnection
  <2> QED
    BY <1>5, <2>1, <2>2, <2>3 DEF NewConnection, ConnectionTypes
<1>6. ASSUME NEW c \in Connections, ConnReady(c)
      PROVE  ConnectionTypes'
  BY <1>6 DEF ConnReady, ConnectionTypes, ConnPhases, EventTypes
<1>7. ASSUME NEW c \in Connections, NEW event \in {"failed", "cancelled"}, ConnEnds(c, event)
      PROVE  ConnectionTypes'
  BY <1>7 DEF ConnEnds, ConnectionTypes, ConnPhases, EventTypes
<1>8. ASSUME NEW c \in Connections, ConnectionUpdate(c)
      PROVE  ConnectionTypes'
  <2>1. CASE ConnectionEnded(c)
    BY <1>8, <2>1, ForgetConnectionType DEF ConnectionUpdate, ConnectionEnded, ConnectionTypes
  <2>2. CASE StaleConnectionUpdate(c) \/ ConnectionBecameReady(c)
    BY <1>8, <2>2
    DEF ConnectionUpdate, StaleConnectionUpdate, ConnectionBecameReady, ConnectionTypes
  <2> QED
    BY <1>8, <2>1, <2>2 DEF ConnectionUpdate
<1>9. ASSUME NEW c \in Connections, ContentProcessed(c)
      PROVE  ConnectionTypes'
  <2> DEFINE completions == [outstanding EXCEPT ![c] = @ - 1]
  <2>1. completions \in [Connections -> Nat]
    BY <1>9 DEF ContentProcessed, ConnectionTypes
  <2>2. CASE StaleCompletion(c)
    BY <1>9, <2>1, <2>2 DEF ContentProcessed, StaleCompletion, ConnectionTypes
  <2>3. CASE SendFailed(c)
    <3>1. connPhase' \in [Connections -> ConnPhases]
      BY <2>3, CancelConnectionType DEF SendFailed
    <3>2. connEvents' \subseteq Connections \X EventTypes
      BY <2>3, CancellingType DEF SendFailed, ConnectionTypes
    <3> QED
      BY <1>9, <2>1, <2>3, <3>1, <3>2, ForgetConnectionType
      DEF ContentProcessed, SendFailed, ConnectionTypes
  <2>4. CASE SendSucceeded(c)
    <3>1. PumpSend(c, pendingPackets, FALSE, completions)
      BY <2>4 DEF SendSucceeded
    <3>2. /\ pendingPackets' \in Seq(Packet)
          /\ Len(pendingPackets') <= MaxQueuedPackets
          /\ sendInFlight' \in BOOLEAN
          /\ outstanding' \in [Connections -> Nat]
          /\ wire' \in [Connections -> Seq(Packet)]
      <4> HIDE DEF completions
      <4>1. /\ pendingPackets \in Seq(Packet)
            /\ Len(pendingPackets) <= MaxQueuedPackets + 1
        BY ConstantsAssumption DEF ConnectionTypes
      <4> QED
        BY <2>1, <3>1, <4>1, PumpSendType
    <3> QED
      BY <1>9, <2>4, <3>2 DEF ContentProcessed, SendSucceeded, ConnectionTypes
  <2> QED
    BY <1>9, <2>2, <2>3, <2>4 DEF ContentProcessed
<1> QED
  BY <1>0, <1>1, <1>2, <1>3, <1>4, <1>5, <1>6, <1>7, <1>8, <1>9, ConnectionSteps

-----------------------------------------------------------------------------
(* The connection: what makes OneSendInFlight, NoStalledQueue and          *)
(* OneLiveConnection inductive.                                            *)

(* The flags agree with what was handed to the network.                    *)
FlagsMatchWire ==
  /\ connection = None => ~connectionReady /\ ~sendInFlight /\ pendingPackets = <<>>
  /\ connection # None =>
       /\ waitingForKeyFrame <=> wire[connection] = <<>>
       /\ ~connectionReady => wire[connection] = <<>>
       /\ sendInFlight => wire[connection] # <<>>

(* A connection becomes ready once, and its callbacks tell of the state it *)
(* is in or was in before.                                                 *)
ReadyOnce ==
  /\ connection # None =>
       /\ connPhase[connection] \in {"preparing", "ready", "gone"}
       /\ connPhase[connection] = "preparing" => ~connectionReady
       /\ <<connection, "ready">> \in connEvents => ~connectionReady
  /\ \A e \in connEvents : connPhase[e[1]] \in IF e[2] = "ready" THEN {"ready", "gone"} ELSE {"gone"}

(* A connection whose handler has not run was never used, and one listener *)
(* announces it.                                                           *)
IncomingUnused ==
  /\ \A c \in Connections :
       connPhase[c] \in {"unborn", "arrived"} => outstanding[c] = 0 /\ wire[c] = <<>>
  /\ \A i \in incoming : connPhase[i[2]] = "arrived"
  /\ \A i, j \in incoming : i[2] = j[2] => i = j

ConnectionInv ==
  /\ FlagsMatchWire
  /\ ReadyOnce
  /\ IncomingUnused
  /\ OneSendInFlight
  /\ NoStalledQueue
  /\ OneLiveConnection

LEMMA ConnectionClosedInv ==
  ASSUME ConnectionTypes, ConnectionInv, ConnectionClosed
  PROVE  ConnectionInv'
<1> USE DEF listening, streaming, packetVars
<1>1. /\ connection' = None
      /\ ~connectionReady'
      /\ ~sendInFlight'
      /\ pendingPackets' = <<>>
      /\ connPhase' = Cancel(connPhase, connection)
      /\ connEvents' = connEvents \cup Cancelling(connection)
      /\ UNCHANGED <<incoming, outstanding, wire>>
  BY DEF ConnectionClosed, CloseConnection, ForgetConnection
<1>2. \A c \in Connections : connPhase'[c] = IF c = connection THEN "gone" ELSE connPhase[c]
  BY <1>1 DEF Cancel, ConnectionTypes
<1>3. FlagsMatchWire'
  BY <1>1 DEF FlagsMatchWire
<1>4. ReadyOnce'
  BY <1>1, <1>2 DEF ReadyOnce, ConnectionInv, ConnectionTypes, Cancelling
<1>5. connection # None => connPhase[connection] \notin {"unborn", "arrived"}
  BY DEF ConnectionInv, ReadyOnce
<1>6. IncomingUnused'
  <2>1. \A c \in Connections : connPhase'[c] \in {"unborn", "arrived"} => connPhase'[c] = connPhase[c]
    BY <1>2
  <2>2. \A i \in incoming : connPhase'[i[2]] = "arrived"
    <3> TAKE i \in incoming
    <3>1. i[2] \in Connections /\ connPhase[i[2]] = "arrived"
      BY DEF ConnectionTypes, ConnectionInv, IncomingUnused
    <3>2. i[2] # connection
      BY <1>5, <3>1, ConstantsAssumption
    <3> QED
      BY <1>2, <3>1, <3>2
  <2> QED
    BY <1>1, <2>1, <2>2 DEF IncomingUnused, ConnectionInv
<1>7. OneLiveConnection'
  BY <1>2 DEF OneLiveConnection, ConnectionInv, LiveConn
<1> QED
  BY <1>1, <1>3, <1>4, <1>6, <1>7 DEF ConnectionInv, OneSendInFlight, NoStalledQueue

LEMMA NewConnectionInv ==
  ASSUME ConnectionTypes, ConnectionInv,
         NEW l \in Listeners, NEW c \in Connections, NewConnection(l, c)
  PROVE  ConnectionInv'
<1>1. /\ <<l, c>> \in incoming
      /\ incoming' = incoming \ {<<l, c>>}
      /\ connPhase' = [Cancel(connPhase, connection) EXCEPT ![c] = "preparing"]
      /\ connEvents' = connEvents \cup Cancelling(connection)
      /\ connection' = c
      /\ ~connectionReady'
      /\ ~sendInFlight'
      /\ pendingPackets' = <<>>
      /\ waitingForKeyFrame' = TRUE
      /\ UNCHANGED <<outstanding, wire>>
  BY DEF NewConnection
<1>2. /\ connPhase[c] = "arrived"
      /\ outstanding[c] = 0
      /\ wire[c] = <<>>
  BY <1>1 DEF ConnectionInv, IncomingUnused
<1>3. connection # c
  BY <1>2, ConstantsAssumption DEF ConnectionInv, ReadyOnce
<1>4. \A d \in Connections :
        connPhase'[d] = IF d = c THEN "preparing" ELSE IF d = connection THEN "gone" ELSE connPhase[d]
  BY <1>1 DEF Cancel, ConnectionTypes
<1>5. FlagsMatchWire'
  BY <1>1, <1>2, ConstantsAssumption DEF FlagsMatchWire
<1>6. \A e \in connEvents' :
        /\ e[1] # c
        /\ connPhase'[e[1]] \in IF e[2] = "ready" THEN {"ready", "gone"} ELSE {"gone"}
  BY <1>1, <1>2, <1>3, <1>4 DEF ConnectionInv, ReadyOnce, ConnectionTypes, Cancelling
<1>7. ReadyOnce'
  BY <1>1, <1>4, <1>6 DEF ReadyOnce
<1>8. IncomingUnused'
  <2>1. connection # None => connPhase[connection] \notin {"unborn", "arrived"}
    BY DEF ConnectionInv, ReadyOnce
  <2>2. \A i \in incoming' : i[2] # c
    BY <1>1 DEF ConnectionInv, IncomingUnused
  <2>3. \A d \in Connections : connPhase'[d] \in {"unborn", "arrived"} => connPhase'[d] = connPhase[d]
    BY <1>4
  <2>4. \A i \in incoming' : connPhase'[i[2]] = "arrived"
    <3> TAKE i \in incoming'
    <3>1. i[2] \in Connections /\ connPhase[i[2]] = "arrived"
      BY <1>1 DEF ConnectionTypes, ConnectionInv, IncomingUnused
    <3>2. i[2] # connection
      BY <2>1, <3>1, ConstantsAssumption
    <3> QED
      BY <1>4, <2>2, <3>1, <3>2
  <2> QED
    BY <1>1, <2>3, <2>4 DEF ConnectionInv, IncomingUnused
<1>9. OneLiveConnection'
  BY <1>1, <1>4 DEF OneLiveConnection, ConnectionInv, LiveConn
<1> QED
  BY <1>1, <1>2, <1>5, <1>7, <1>8, <1>9 DEF ConnectionInv, OneSendInFlight, NoStalledQueue

LEMMA ConnectionUpdateInv ==
  ASSUME ConnectionTypes, ConnectionInv, NEW c \in Connections, ConnectionUpdate(c)
  PROVE  ConnectionInv'
<1> USE DEF listening, streaming, connectionVars, packetVars
<1>1. PICK event \in EventTypes :
        /\ Deliverable(connEvents, c, event)
        /\ connEvents' = connEvents \ {<<c, event>>}
        /\ \/ StaleConnectionUpdate(c)
           \/ event = "ready" /\ ConnectionBecameReady(c)
           \/ event # "ready" /\ ConnectionEnded(c)
  BY DEF ConnectionUpdate
<1>2. UNCHANGED <<incoming, connPhase, outstanding, wire>>
  BY DEF ConnectionUpdate
<1>3. \A e \in connEvents' :
        connPhase'[e[1]] \in IF e[2] = "ready" THEN {"ready", "gone"} ELSE {"gone"}
  BY <1>1, <1>2 DEF ConnectionInv, ReadyOnce
<1>4. IncomingUnused'
  BY <1>2 DEF ConnectionInv, IncomingUnused
<1>5. CASE StaleConnectionUpdate(c)
  BY <1>1, <1>2, <1>3, <1>4, <1>5
  DEF StaleConnectionUpdate, ConnectionInv, FlagsMatchWire, ReadyOnce, OneSendInFlight,
      NoStalledQueue, OneLiveConnection
<1>6. CASE event = "ready" /\ ConnectionBecameReady(c)
  <2>1. <<c, "ready">> \in connEvents /\ connection = c /\ ~connectionReady /\ c # None
    BY <1>1, <1>6, ConstantsAssumption
    DEF Deliverable, ConnectionBecameReady, IsCurrent, ConnectionInv, ReadyOnce
  <2>2. wire[c] = <<>> /\ connPhase[c] \in {"ready", "gone"}
    BY <2>1 DEF ConnectionInv, FlagsMatchWire, ReadyOnce
  <2> QED
    BY <1>1, <1>2, <1>3, <1>4, <1>6, <2>1, <2>2
    DEF ConnectionBecameReady, ConnectionInv, FlagsMatchWire, ReadyOnce, OneSendInFlight,
        NoStalledQueue, OneLiveConnection
<1>7. CASE event # "ready" /\ ConnectionEnded(c)
  <2>1. connPhase[c] = "gone"
    BY <1>1, <1>7 DEF Deliverable, ConnectionInv, ReadyOnce
  <2> QED
    BY <1>1, <1>2, <1>3, <1>4, <1>7, <2>1
    DEF ConnectionEnded, ForgetConnection, IsCurrent, ConnectionInv, FlagsMatchWire,
        ReadyOnce, OneSendInFlight, NoStalledQueue, OneLiveConnection, LiveConn
<1> QED
  BY <1>1, <1>5, <1>6, <1>7

LEMMA SendInv ==
  ASSUME ConnectionTypes, ConnectionInv, NEW isKeyframe \in BOOLEAN, Send(isKeyframe)
  PROVE  ConnectionInv'
<1>1. UNCHANGED <<connection, connectionReady, connPhase, connEvents, incoming>>
  BY DEF Send
<1>2. OneLiveConnection' /\ ReadyOnce'
  BY <1>1 DEF ConnectionInv, OneLiveConnection, ReadyOnce
<1>3. CASE AdmitPacket(isKeyframe)
  <2> DEFINE p == NextPacket(isKeyframe)
  <2>1. /\ connection \in Connections /\ connection # None
        /\ connectionReady
        /\ ~waitingForKeyFrame \/ isKeyframe
        /\ waitingForKeyFrame' = (waitingForKeyFrame /\ ~isKeyframe)
        /\ PumpSend(connection, Append(pendingPackets, p), sendInFlight, outstanding)
    BY <1>3 DEF AdmitPacket, Admits, ConnectionTypes
  <2>2. waitingForKeyFrame' = FALSE
    BY <2>1
  <2>3. connPhase[connection] \notin {"unborn", "arrived"}
    BY <2>1 DEF ConnectionInv, ReadyOnce
  <2> HIDE DEF p
  <2>4. CASE sendInFlight
    <3>1. UNCHANGED <<wire, outstanding, sendInFlight>>
      BY <2>1, <2>4 DEF PumpSend
    <3>2. wire[connection] # <<>>
      BY <2>1, <2>4 DEF ConnectionInv, FlagsMatchWire
    <3> QED
      BY <1>1, <1>2, <2>1, <2>2, <2>4, <3>1, <3>2
      DEF ConnectionInv, FlagsMatchWire, IncomingUnused, OneSendInFlight, NoStalledQueue
  <2>5. CASE ~sendInFlight
    <3>1. pendingPackets = <<>> /\ outstanding[connection] = 0
      BY <2>1, <2>5 DEF ConnectionInv, NoStalledQueue, OneSendInFlight
    <3>2. /\ Append(pendingPackets, p) = <<p>>
          /\ Head(<<p>>) = p
          /\ Tail(<<p>>) = <<>>
          /\ <<p>> # <<>>
      BY <3>1
    <3>3. /\ pendingPackets' = <<>>
          /\ sendInFlight' = TRUE
          /\ wire' = [wire EXCEPT ![connection] = Append(@, p)]
          /\ outstanding' = [outstanding EXCEPT ![connection] = @ + 1]
      BY <2>1, <2>5, <3>2 DEF PumpSend
    <3>4. wire'[connection] # <<>> /\ outstanding'[connection] = 1
      <4>1. wire[connection] \in Seq(Packet) /\ p \in Packet
        BY <2>1, NextPacketType DEF ConnectionTypes, Send, p
      <4>2. Append(wire[connection], p) # <<>>
        BY <4>1
      <4> QED
        BY <2>1, <3>1, <3>3, <4>2 DEF ConnectionTypes
    <3>5. IncomingUnused'
      BY <1>1, <2>3, <3>3 DEF ConnectionInv, IncomingUnused, ConnectionTypes
    <3> QED
      BY <1>1, <1>2, <2>1, <2>2, <3>3, <3>4, <3>5
      DEF ConnectionInv, FlagsMatchWire, OneSendInFlight, NoStalledQueue
  <2> QED
    BY <2>4, <2>5 DEF ConnectionTypes
<1>4. CASE ~Admits(isKeyframe) /\ UNCHANGED <<waitingForKeyFrame, pendingPackets, sendInFlight, wire, outstanding>>
  BY <1>1, <1>2, <1>4
  DEF ConnectionInv, FlagsMatchWire, IncomingUnused, OneSendInFlight, NoStalledQueue
<1> QED
  BY <1>3, <1>4 DEF Send

LEMMA ContentProcessedInv ==
  ASSUME ConnectionTypes, ConnectionInv, NEW c \in Connections, ContentProcessed(c)
  PROVE  ConnectionInv'
<1> USE DEF listening, streaming, connectionVars, packetVars
<1>1. outstanding[c] > 0 /\ UNCHANGED <<incoming, waitingForKeyFrame>>
  BY DEF ContentProcessed
<1>2. connPhase[c] \notin {"unborn", "arrived"}
  BY <1>1 DEF ConnectionInv, IncomingUnused
<1>3. CASE StaleCompletion(c)
  <2>1. /\ outstanding' = [outstanding EXCEPT ![c] = @ - 1]
        /\ connection # c
        /\ UNCHANGED <<connectionVars, wire, connPhase, connEvents>>
    BY <1>3 DEF StaleCompletion, IsCurrent
  <2>2. IncomingUnused'
    BY <1>1, <1>2, <2>1 DEF ConnectionInv, IncomingUnused, ConnectionTypes
  <2>3. OneSendInFlight'
    BY <2>1 DEF ConnectionInv, OneSendInFlight, ConnectionTypes
  <2> QED
    BY <1>1, <2>1, <2>2, <2>3
    DEF ConnectionInv, FlagsMatchWire, ReadyOnce, NoStalledQueue, OneLiveConnection
<1>4. CASE SendFailed(c)
  <2>1. /\ connection = c
        /\ connection' = None
        /\ ~connectionReady'
        /\ ~sendInFlight'
        /\ pendingPackets' = <<>>
        /\ outstanding' = [outstanding EXCEPT ![c] = @ - 1]
        /\ connPhase' = Cancel(connPhase, c)
        /\ connEvents' = connEvents \cup Cancelling(c)
        /\ UNCHANGED wire
    BY <1>4 DEF SendFailed, IsCurrent, ForgetConnection
  <2>2. \A d \in Connections : connPhase'[d] = IF d = c THEN "gone" ELSE connPhase[d]
    BY <2>1 DEF Cancel, ConnectionTypes
  <2>3. FlagsMatchWire'
    BY <2>1 DEF FlagsMatchWire
  <2>4. ReadyOnce'
    BY <2>1, <2>2 DEF ConnectionInv, ReadyOnce, ConnectionTypes, Cancelling
  <2>5. IncomingUnused'
    <3>1. \A i \in incoming : i[2] # c /\ i[2] \in Connections
      BY <1>2 DEF ConnectionInv, IncomingUnused, ConnectionTypes
    <3>2. \A d \in Connections : d # c => outstanding'[d] = outstanding[d]
      BY <2>1 DEF ConnectionTypes
    <3> QED
      BY <1>1, <2>1, <2>2, <3>1, <3>2 DEF ConnectionInv, IncomingUnused
  <2>6. OneLiveConnection'
    BY <2>1, <2>2 DEF ConnectionInv, OneLiveConnection, LiveConn
  <2> QED
    BY <2>1, <2>3, <2>4, <2>5, <2>6 DEF ConnectionInv, OneSendInFlight, NoStalledQueue
<1>5. CASE SendSucceeded(c)
  <2> DEFINE completions == [outstanding EXCEPT ![c] = @ - 1]
  <2>1. /\ connection = c /\ c # None
        /\ UNCHANGED <<connection, connectionReady, connPhase, connEvents>>
        /\ PumpSend(c, pendingPackets, FALSE, completions)
    BY <1>5, ConstantsAssumption DEF SendSucceeded, IsCurrent
  <2>2. sendInFlight /\ outstanding[c] = 1
    BY <1>1, <2>1 DEF ConnectionInv, OneSendInFlight
  <2>3. completions[c] = 0 /\ completions \in [Connections -> Nat]
    BY <2>2 DEF ConnectionTypes
  <2>4. wire[c] # <<>>
    BY <2>1, <2>2 DEF ConnectionInv, FlagsMatchWire
  <2>5. \A d \in Connections : d # c => completions[d] = outstanding[d]
    BY DEF ConnectionTypes
  <2> HIDE DEF completions
  <2>6. CASE pendingPackets = <<>>
    <3>1. /\ pendingPackets' = <<>>
          /\ sendInFlight' = FALSE
          /\ outstanding' = completions
          /\ UNCHANGED wire
      BY <2>1, <2>6 DEF PumpSend
    <3>2. IncomingUnused'
      BY <1>1, <1>2, <2>1, <2>5, <3>1 DEF ConnectionInv, IncomingUnused
    <3> QED
      BY <1>1, <2>1, <2>3, <2>4, <3>1, <3>2
      DEF ConnectionInv, FlagsMatchWire, ReadyOnce, OneSendInFlight, NoStalledQueue,
          OneLiveConnection
  <2>7. CASE pendingPackets # <<>>
    <3>1. /\ sendInFlight' = TRUE
          /\ wire' = [wire EXCEPT ![c] = Append(@, Head(pendingPackets))]
          /\ outstanding' = [completions EXCEPT ![c] = @ + 1]
      BY <2>1, <2>7 DEF PumpSend
    <3>2. outstanding'[c] = 1 /\ \A d \in Connections : d # c => outstanding'[d] = outstanding[d] /\ wire'[d] = wire[d]
      BY <2>3, <2>5, <3>1 DEF ConnectionTypes
    <3>3. wire'[c] # <<>>
      <4>1. wire[c] \in Seq(Packet) /\ Head(pendingPackets) \in Packet
        BY <2>7 DEF ConnectionTypes
      <4>2. Append(wire[c], Head(pendingPackets)) # <<>>
        BY <4>1
      <4> QED
        BY <3>1, <4>2 DEF ConnectionTypes
    <3>4. IncomingUnused'
      BY <1>1, <1>2, <2>1, <3>2 DEF ConnectionInv, IncomingUnused
    <3> QED
      BY <1>1, <2>1, <2>4, <3>1, <3>2, <3>3, <3>4
      DEF ConnectionInv, FlagsMatchWire, ReadyOnce, OneSendInFlight, NoStalledQueue,
          OneLiveConnection
  <2> QED
    BY <2>6, <2>7
<1> QED
  BY <1>3, <1>4, <1>5 DEF ContentProcessed

LEMMA ConnectionInvStep ==
  ASSUME ConnectionTypes, ConnectionInv, [Next]_vars
  PROVE  ConnectionInv'
<1> USE DEF listening, streaming, connectionVars, packetVars
<1>1. CASE UNCHANGED vars \/ ConnectionUntouched
  BY <1>1
  DEF vars, ConnectionUntouched, ConnectionInv, FlagsMatchWire, ReadyOnce, IncomingUnused,
      OneSendInFlight, NoStalledQueue, OneLiveConnection
<1>2. ASSUME NEW l \in Listeners, NEW c \in Connections, ClientArrives(l, c)
      PROVE  ConnectionInv'
  <2>1. /\ connPhase[c] = "unborn"
        /\ connPhase' = [connPhase EXCEPT ![c] = "arrived"]
        /\ incoming' = incoming \cup {<<l, c>>}
        /\ UNCHANGED <<connectionVars, waitingForKeyFrame, connEvents, outstanding, wire>>
    BY <1>2 DEF ClientArrives
  <2>2. \A d \in Connections : connPhase'[d] = IF d = c THEN "arrived" ELSE connPhase[d]
    BY <2>1 DEF ConnectionTypes
  <2>3. ReadyOnce'
    <3>1. \A e \in connEvents : e[1] \in Connections /\ e[1] # c
      BY <2>1 DEF ConnectionInv, ReadyOnce, ConnectionTypes
    <3>2. connection # None => connection \in Connections /\ connection # c
      BY <2>1 DEF ConnectionInv, ReadyOnce, ConnectionTypes
    <3> QED
      BY <2>1, <2>2, <3>1, <3>2 DEF ConnectionInv, ReadyOnce
  <2>4. IncomingUnused'
    <3>1. \A i \in incoming : i[2] \in Connections /\ i[2] # c
      BY <2>1 DEF ConnectionInv, IncomingUnused, ConnectionTypes
    <3> QED
      BY <2>1, <2>2, <3>1 DEF ConnectionInv, IncomingUnused
  <2>5. OneLiveConnection'
    BY <2>1, <2>2 DEF ConnectionInv, OneLiveConnection, LiveConn
  <2> QED
    BY <2>1, <2>3, <2>4, <2>5 DEF ConnectionInv, FlagsMatchWire, OneSendInFlight, NoStalledQueue
<1>3. ASSUME NEW c \in Connections, ConnReady(c)
      PROVE  ConnectionInv'
  BY <1>3
  DEF ConnReady, ConnectionTypes, ConnectionInv, FlagsMatchWire, ReadyOnce, IncomingUnused,
      OneSendInFlight, NoStalledQueue, OneLiveConnection, LiveConn
<1>4. ASSUME NEW c \in Connections, NEW event \in {"failed", "cancelled"}, ConnEnds(c, event)
      PROVE  ConnectionInv'
  BY <1>4
  DEF ConnEnds, ConnectionTypes, ConnectionInv, FlagsMatchWire, ReadyOnce, IncomingUnused,
      OneSendInFlight, NoStalledQueue, OneLiveConnection, LiveConn
<1> QED
  BY <1>1, <1>2, <1>3, <1>4, ConnectionSteps, ConnectionClosedInv, NewConnectionInv,
     ConnectionUpdateInv, SendInv, ContentProcessedInv

-----------------------------------------------------------------------------
(* The order of packets.                                                   *)

FramesInOrder ==
  /\ \A c \in Connections : Increasing(wire[c])
  /\ Increasing(pendingPackets)
  /\ \A c \in Connections : \A i \in 1..Len(wire[c]) :
       /\ wire[c][i].frame < nextFrame
       /\ \A j \in 1..Len(pendingPackets) : wire[c][i].frame < pendingPackets[j].frame
  /\ \A j \in 1..Len(pendingPackets) : pendingPackets[j].frame < nextFrame

SinceJoin ==
  /\ JoinAtIdr
  /\ connection # None /\ wire[connection] # <<>> =>
       /\ lastIdr >= wire[connection][1].frame
       /\ \A j \in 1..Len(pendingPackets) : pendingPackets[j].idr >= wire[connection][1].frame

OrderInv == FramesInOrder /\ SinceJoin

(* A step that hands nothing to the network, queues nothing and keeps the  *)
(* connection or drops it with its queue, leaves the order alone.          *)
LEMMA OrderKept ==
  ASSUME ConnectionTypes, OrderInv,
         UNCHANGED wire,
         nextFrame' >= nextFrame /\ nextFrame' \in Nat,
         \/ UNCHANGED <<connection, pendingPackets>>
         \/ connection' = None /\ pendingPackets' = <<>>
         \/ connection' # None /\ wire[connection'] = <<>> /\ pendingPackets' = <<>>,
         connection' = connection /\ connection # None /\ wire[connection] # <<>> => lastIdr' >= lastIdr,
         lastIdr' \in Nat
  PROVE  OrderInv'
<1>1. FramesInOrder'
  <2>1. /\ \A c \in Connections : \A i \in 1..Len(wire[c]) : wire[c][i] \in Packet
        /\ \A j \in 1..Len(pendingPackets) : pendingPackets[j] \in Packet
        /\ nextFrame \in Nat
    BY DEF ConnectionTypes
  <2>2. CASE pendingPackets' = <<>>
    <3>1. 1..Len(pendingPackets') = {}
      BY <2>2
    <3>2. Increasing(pendingPackets')
      BY <3>1 DEF Increasing
    <3>3. \A c \in Connections : Increasing(wire'[c])
      BY DEF OrderInv, FramesInOrder
    <3>4. ASSUME NEW c \in Connections, NEW i \in 1..Len(wire[c])
          PROVE  wire[c][i].frame < nextFrame'
      <4>1. wire[c][i].frame \in Nat /\ nextFrame \in Nat
        BY PacketFields
      <4>2. wire[c][i].frame < nextFrame
        BY DEF OrderInv, FramesInOrder
      <4> QED
        BY <4>1, <4>2
    <3> QED
      BY <3>1, <3>2, <3>3, <3>4 DEF FramesInOrder
  <2>3. CASE UNCHANGED pendingPackets
    BY <2>1, <2>3 DEF OrderInv, FramesInOrder, Increasing, Packet
  <2> QED
    BY <2>2, <2>3
<1>2. SinceJoin'
  <2>1. JoinAtIdr'
    BY DEF OrderInv, SinceJoin, JoinAtIdr
  <2>2. CASE connection' = connection /\ connection # None /\ wire[connection] # <<>>
    <3>1. wire[connection][1] \in Packet
      BY <2>2 DEF ConnectionTypes
    <3>2. wire[connection][1].frame \in Nat
      BY <3>1 DEF Packet
    <3> QED
      BY <2>1, <2>2, <3>2 DEF OrderInv, SinceJoin, ConnectionTypes
  <2>3. CASE ~(connection' = connection /\ connection # None /\ wire[connection] # <<>>)
    BY <2>1, <2>3 DEF OrderInv, SinceJoin
  <2> QED
    BY <2>2, <2>3
<1> QED
  BY <1>1, <1>2 DEF OrderInv

(* The packet a step hands to the network, if it does, is one LiveFeed may *)
(* show: newer than every packet before it and decodable from the join on. *)
Sends(p) ==
  /\ connection # None
  /\ p \in Packet
  /\ \A c \in Connections : \A i \in 1..Len(wire[c]) : wire[c][i].frame < p.frame
  /\ IF wire[connection] = <<>> THEN IsIdr(p) ELSE p.idr >= wire[connection][1].frame
  /\ wire' = [wire EXCEPT ![connection] = Append(@, p)]
  /\ UNCHANGED connection

LEMMA OrderAfterSend ==
  ASSUME ConnectionTypes, OrderInv, NEW p, Sends(p),
         nextFrame' \in Nat, nextFrame' >= nextFrame, p.frame < nextFrame',
         lastIdr' >= IF wire[connection] = <<>> THEN p.frame ELSE wire[connection][1].frame,
         pendingPackets' \in Seq(Packet),
         Increasing(pendingPackets'),
         \A j \in 1..Len(pendingPackets') :
           /\ p.frame < pendingPackets'[j].frame
           /\ pendingPackets'[j].frame < nextFrame'
           /\ pendingPackets'[j].idr >=
                IF wire[connection] = <<>> THEN p.frame ELSE wire[connection][1].frame
  PROVE  OrderInv'
<1> DEFINE w == wire[connection]
<1>1. /\ connection \in Connections /\ connection # None /\ connection' = connection
      /\ p \in Packet
      /\ p.frame \in Nat /\ p.idr \in Nat
      /\ w \in Seq(Packet)
      /\ Len(w) \in Nat
      /\ wire'[connection] = Append(w, p)
      /\ \A c \in Connections : c # connection => wire'[c] = wire[c]
  <2>1. /\ connection \in Connections /\ connection # None /\ connection' = connection
        /\ p \in Packet
        /\ wire' = [wire EXCEPT ![connection] = Append(@, p)]
    BY DEF Sends, ConnectionTypes
  <2>2. wire \in [Connections -> Seq(Packet)]
    BY DEF ConnectionTypes
  <2> QED
    BY <2>1, <2>2, PacketFields
<1>2. /\ Len(Append(w, p)) = Len(w) + 1
      /\ \A i \in 1..Len(w) : Append(w, p)[i] = w[i]
      /\ Append(w, p)[Len(w) + 1] = p
  BY <1>1
<1>3. \A c \in Connections : \A i \in 1..Len(wire[c]) :
        wire[c][i].frame \in Nat /\ wire[c][i].idr \in Nat /\ wire[c][i].frame < p.frame
  BY PacketFields DEF Sends
<1>4. \A c \in Connections : \A i \in 1..Len(wire'[c]) :
        \/ wire'[c][i] = p
        \/ i \in 1..Len(wire[c]) /\ wire'[c][i] = wire[c][i]
  <2> TAKE c \in Connections
  <2> TAKE i \in 1..Len(wire'[c])
  <2>1. CASE c # connection
    BY <1>1, <2>1
  <2>2. CASE c = connection
    <3>1. i \in 1..Len(w) \/ i = Len(w) + 1
      BY <1>1, <1>2, <2>2
    <3> QED
      BY <1>1, <1>2, <2>2, <3>1
  <2> QED
    BY <2>1, <2>2
<1>5. Increasing(wire'[connection])
  <2> SUFFICES ASSUME NEW i \in 1..Len(w) + 1, NEW j \in 1..Len(w) + 1, i < j
               PROVE  Append(w, p)[i].frame < Append(w, p)[j].frame
    BY <1>1, <1>2 DEF Increasing
  <2>1. i \in 1..Len(w)
    BY <1>1
  <2>2. CASE j \in 1..Len(w)
    BY <1>1, <1>2, <2>1, <2>2 DEF OrderInv, FramesInOrder, Increasing
  <2>3. CASE j = Len(w) + 1
    BY <1>1, <1>2, <1>3, <2>1, <2>3
  <2> QED
    BY <1>1, <2>2, <2>3
<1>6. \A c \in Connections : \A i \in 1..Len(wire'[c]) : wire'[c][i].frame <= p.frame
  <2> TAKE c \in Connections
  <2> TAKE i \in 1..Len(wire'[c])
  <2>1. CASE wire'[c][i] = p
    BY <1>1, <2>1
  <2>2. CASE i \in 1..Len(wire[c]) /\ wire'[c][i] = wire[c][i]
    BY <1>1, <1>3, <2>2
  <2> QED
    BY <1>4, <2>1, <2>2
<1>7. FramesInOrder'
  <2>1. \A c \in Connections : Increasing(wire'[c])
    BY <1>1, <1>5 DEF OrderInv, FramesInOrder
  <2>2. \A c \in Connections : \A i \in 1..Len(wire'[c]) : wire'[c][i].frame \in Nat
    BY <1>1, <1>3, <1>4
  <2>3. \A j \in 1..Len(pendingPackets') : pendingPackets'[j].frame \in Nat
    <3>1. \A j \in 1..Len(pendingPackets') : pendingPackets'[j] \in Packet
      OBVIOUS
    <3> QED
      BY <3>1, PacketFields
  <2>4. ASSUME NEW c \in Connections, NEW i \in 1..Len(wire'[c])
        PROVE  /\ wire'[c][i].frame < nextFrame'
               /\ \A j \in 1..Len(pendingPackets') : wire'[c][i].frame < pendingPackets'[j].frame
    <3>1. wire'[c][i].frame \in Nat /\ wire'[c][i].frame <= p.frame
      BY <1>6, <2>2
    <3>2. p.frame \in Nat /\ p.frame < nextFrame' /\ nextFrame' \in Nat
      BY <1>1
    <3>3. ASSUME NEW j \in 1..Len(pendingPackets')
          PROVE  wire'[c][i].frame < pendingPackets'[j].frame
      <4>1. pendingPackets'[j].frame \in Nat /\ p.frame < pendingPackets'[j].frame
        BY <2>3
      <4> QED
        BY <3>1, <3>2, <4>1
    <3> QED
      BY <3>1, <3>2, <3>3
  <2>5. \A j \in 1..Len(pendingPackets') : pendingPackets'[j].frame < nextFrame'
    OBVIOUS
  <2> QED
    BY <2>1, <2>4, <2>5 DEF FramesInOrder
<1>8. SinceJoin'
  <2> DEFINE first == wire'[connection][1]
  <2>1. CASE w = <<>>
    <3>1. first = p /\ p.idr = p.frame /\ Len(w) = 0
      BY <1>1, <1>2, <2>1 DEF Sends, IsIdr
    <3>2. \A i \in 1..Len(wire'[connection]) : wire'[connection][i] = p
      BY <1>1, <1>2, <3>1
    <3>3. JoinAtIdr'
      BY <1>1, <3>1, <3>2 DEF OrderInv, SinceJoin, JoinAtIdr
    <3> QED
      BY <1>1, <2>1, <3>1, <3>3 DEF SinceJoin
  <2>2. CASE w # <<>>
    <3>1. first = w[1] /\ 1 \in 1..Len(w)
      BY <1>1, <1>2, <2>2
    <3>2. p.idr >= w[1].frame
      BY <2>2 DEF Sends
    <3>3. \A i \in 1..Len(wire'[connection]) : wire'[connection][i].idr >= first.frame
      BY <1>1, <1>4, <3>1, <3>2 DEF OrderInv, SinceJoin, JoinAtIdr
    <3>4. JoinAtIdr'
      BY <1>1, <3>3 DEF OrderInv, SinceJoin, JoinAtIdr
    <3>5. w[1].frame \in Nat
      BY <1>1, <1>3, <3>1
    <3> QED
      BY <1>1, <2>2, <3>1, <3>2, <3>4, <3>5 DEF SinceJoin
  <2> QED
    BY <2>1, <2>2
<1> QED
  BY <1>7, <1>8 DEF OrderInv

(* send: the packet is queued behind the one in flight, or goes out.       *)
LEMMA AdmitPacketOrder ==
  ASSUME ConnectionTypes, ConnectionInv, OrderInv,
         NEW isKeyframe \in BOOLEAN, Send(isKeyframe), AdmitPacket(isKeyframe)
  PROVE  /\ OrderInv'
         /\ UNCHANGED wire \/ Sends(NextPacket(isKeyframe))
<1> DEFINE p == NextPacket(isKeyframe)
<1>1. /\ connection \in Connections /\ connection # None /\ connection' = connection
      /\ connectionReady
      /\ waitingForKeyFrame => isKeyframe
      /\ PumpSend(connection, Append(pendingPackets, p), sendInFlight, outstanding)
      /\ nextFrame \in Nat /\ nextFrame' = nextFrame + 1
      /\ lastIdr \in Nat /\ lastIdr' = p.idr
      /\ p \in Packet /\ p.frame = nextFrame /\ p.idr \in Nat
      /\ p.idr = IF isKeyframe THEN nextFrame ELSE lastIdr
  BY NextPacketType DEF Send, AdmitPacket, Admits, ConnectionTypes, NextPacket, Packet
<1>2. /\ \A c \in Connections : \A i \in 1..Len(wire[c]) :
           wire[c][i].frame \in Nat /\ wire[c][i].frame < nextFrame
      /\ \A j \in 1..Len(pendingPackets) :
           pendingPackets[j].frame \in Nat /\ pendingPackets[j].frame < nextFrame
  BY PacketFields DEF OrderInv, FramesInOrder
<1>3. IF wire[connection] = <<>> THEN IsIdr(p) ELSE p.idr >= wire[connection][1].frame
  <2>1. CASE wire[connection] = <<>>
    BY <1>1, <2>1 DEF ConnectionInv, FlagsMatchWire, IsIdr
  <2>2. CASE wire[connection] # <<>>
    <3>1. 1 \in 1..Len(wire[connection])
      BY <1>1, <2>2 DEF ConnectionTypes
    <3>2. wire[connection][1].frame \in Nat /\ wire[connection][1].frame < nextFrame
      BY <1>1, <1>2, <3>1
    <3> QED
      BY <1>1, <2>2, <3>2 DEF OrderInv, SinceJoin
  <2> QED
    BY <2>1, <2>2
<1> HIDE DEF p
<1>4. CASE sendInFlight
  <2>1. /\ pendingPackets' = Append(pendingPackets, p)
        /\ UNCHANGED wire
    BY <1>1, <1>4 DEF PumpSend
  <2>2. /\ pendingPackets \in Seq(Packet)
        /\ Len(pendingPackets') = Len(pendingPackets) + 1
        /\ \A j \in 1..Len(pendingPackets) : pendingPackets'[j] = pendingPackets[j]
        /\ pendingPackets'[Len(pendingPackets) + 1] = p
    BY <1>1, <2>1 DEF ConnectionTypes
  <2>3. wire[connection] # <<>>
    BY <1>1, <1>4 DEF ConnectionInv, FlagsMatchWire
  <2>4. \A j \in 1..Len(pendingPackets') : j \in 1..Len(pendingPackets) \/ j = Len(pendingPackets) + 1
    BY <2>2
  <2>5. Increasing(pendingPackets')
    BY <1>1, <1>2, <2>2, <2>4 DEF OrderInv, FramesInOrder, Increasing
  <2>6. FramesInOrder'
    <3>1. \A c \in Connections : Increasing(wire'[c])
      BY <2>1 DEF OrderInv, FramesInOrder
    <3>2. \A j \in 1..Len(pendingPackets') : pendingPackets'[j].frame < nextFrame'
      BY <1>1, <1>2, <2>2, <2>4
    <3>3. ASSUME NEW c \in Connections, NEW i \in 1..Len(wire[c])
          PROVE  /\ wire[c][i].frame < nextFrame'
                 /\ \A j \in 1..Len(pendingPackets') : wire[c][i].frame < pendingPackets'[j].frame
      <4>1. wire[c][i].frame \in Nat /\ wire[c][i].frame < nextFrame
        BY <1>2
      <4>2. \A j \in 1..Len(pendingPackets) : wire[c][i].frame < pendingPackets[j].frame
        BY DEF OrderInv, FramesInOrder
      <4>3. wire[c][i].frame < nextFrame'
        BY <1>1, <4>1
      <4>4. ASSUME NEW j \in 1..Len(pendingPackets')
            PROVE  wire[c][i].frame < pendingPackets'[j].frame
        <5>1. CASE j \in 1..Len(pendingPackets)
          BY <2>2, <4>2, <5>1
        <5>2. CASE j = Len(pendingPackets) + 1
          BY <1>1, <2>2, <4>1, <5>2
        <5> QED
          BY <2>4, <5>1, <5>2
      <4> QED
        BY <4>3, <4>4
    <3> QED
      BY <2>1, <2>5, <3>1, <3>2, <3>3 DEF FramesInOrder
  <2>7. SinceJoin'
    <3>1. JoinAtIdr'
      BY <2>1 DEF OrderInv, SinceJoin, JoinAtIdr
    <3>2. p.idr >= wire[connection][1].frame
      BY <1>3, <2>3
    <3>3. \A j \in 1..Len(pendingPackets') : pendingPackets'[j].idr >= wire[connection][1].frame
      BY <1>1, <2>2, <2>3, <2>4, <3>2 DEF OrderInv, SinceJoin
    <3> QED
      BY <1>1, <2>1, <3>1, <3>2, <3>3 DEF SinceJoin
  <2> QED
    BY <2>1, <2>6, <2>7 DEF OrderInv
<1>5. CASE ~sendInFlight
  <2>1. pendingPackets = <<>>
    BY <1>1, <1>5 DEF ConnectionInv, NoStalledQueue
  <2>2. /\ Append(pendingPackets, p) = <<p>>
        /\ Head(<<p>>) = p
        /\ Tail(<<p>>) = <<>>
        /\ <<p>> # <<>>
    BY <2>1
  <2>3. /\ pendingPackets' = <<>>
        /\ wire' = [wire EXCEPT ![connection] = Append(@, p)]
    BY <1>1, <1>5, <2>2 DEF PumpSend
  <2>4. Sends(p)
    BY <1>1, <1>2, <1>3, <2>3 DEF Sends
  <2>5. /\ pendingPackets' \in Seq(Packet)
        /\ 1..Len(pendingPackets') = {}
        /\ Increasing(pendingPackets')
    BY <2>3 DEF Increasing
  <2>6. /\ nextFrame' \in Nat /\ nextFrame' >= nextFrame /\ p.frame < nextFrame'
        /\ lastIdr' >= IF wire[connection] = <<>> THEN p.frame ELSE wire[connection][1].frame
    BY <1>1, <1>3 DEF IsIdr
  <2>7. OrderInv'
    BY <2>4, <2>5, <2>6, OrderAfterSend
  <2> QED
    BY <2>4, <2>7 DEF p
<1> QED
  BY <1>4, <1>5 DEF ConnectionTypes

(* The completion of a send hands over the head of the queue, if any.      *)
LEMMA SendSucceededOrder ==
  ASSUME ConnectionTypes, ConnectionInv, OrderInv,
         NEW c \in Connections, ContentProcessed(c), SendSucceeded(c)
  PROVE  /\ OrderInv'
         /\ UNCHANGED wire \/ Sends(Head(pendingPackets))
<1> USE DEF listening, streaming, packetVars
<1>1. /\ connection = c /\ c # None /\ connection' = connection
      /\ outstanding[c] > 0
      /\ PumpSend(c, pendingPackets, FALSE, [outstanding EXCEPT ![c] = @ - 1])
      /\ UNCHANGED <<nextFrame, lastIdr>>
      /\ nextFrame \in Nat /\ lastIdr \in Nat
  <2>1. c # None /\ nextFrame \in Nat /\ lastIdr \in Nat
    BY PacketFields, ConstantsAssumption
  <2> QED
    BY <2>1 DEF ContentProcessed, SendSucceeded, IsCurrent
<1>2. CASE pendingPackets = <<>>
  <2>1. UNCHANGED <<wire, pendingPackets>>
    BY <1>1, <1>2 DEF PumpSend
  <2> QED
    BY <1>1, <2>1, OrderKept
<1>3. CASE pendingPackets # <<>>
  <2> DEFINE p == Head(pendingPackets)
  <2>1. /\ pendingPackets' = Tail(pendingPackets)
        /\ wire' = [wire EXCEPT ![c] = Append(@, p)]
    BY <1>1, <1>3 DEF PumpSend
  <2>2. /\ pendingPackets \in Seq(Packet)
        /\ 1 \in 1..Len(pendingPackets)
        /\ p = pendingPackets[1]
        /\ p \in Packet
        /\ p.frame \in Nat /\ p.idr \in Nat
    <3>1. /\ pendingPackets \in Seq(Packet)
          /\ 1 \in 1..Len(pendingPackets)
          /\ p = pendingPackets[1]
      BY <1>3 DEF ConnectionTypes
    <3> QED
      BY <3>1, PacketFields
  <2>3. /\ pendingPackets' \in Seq(Packet)
        /\ Len(pendingPackets') = Len(pendingPackets) - 1
        /\ \A j \in 1..Len(pendingPackets') : j + 1 \in 1..Len(pendingPackets) /\ pendingPackets'[j] = pendingPackets[j + 1]
    BY <1>3, <2>1, <2>2
  <2>4. sendInFlight
    BY <1>1 DEF ConnectionInv, OneSendInFlight
  <2>5. wire[connection] # <<>>
    BY <1>1, <2>4 DEF ConnectionInv, FlagsMatchWire
  <2>6. p.idr >= wire[connection][1].frame
    BY <1>1, <2>2, <2>5 DEF OrderInv, SinceJoin
  <2>7. \A d \in Connections : \A i \in 1..Len(wire[d]) : wire[d][i].frame < p.frame
    BY <2>2 DEF OrderInv, FramesInOrder
  <2>8. Sends(p)
    BY <1>1, <2>1, <2>2, <2>5, <2>6, <2>7 DEF Sends
  <2>9. Increasing(pendingPackets')
    <3> SUFFICES ASSUME NEW i \in 1..Len(pendingPackets'), NEW j \in 1..Len(pendingPackets'), i < j
                 PROVE  pendingPackets'[i].frame < pendingPackets'[j].frame
      BY DEF Increasing
    <3>1. i + 1 < j + 1
      OBVIOUS
    <3>2. pendingPackets[i + 1].frame < pendingPackets[j + 1].frame
      BY <2>3, <3>1 DEF OrderInv, FramesInOrder, Increasing
    <3> QED
      BY <2>3, <3>2
  <2>10. \A j \in 1..Len(pendingPackets') :
           /\ p.frame < pendingPackets'[j].frame
           /\ pendingPackets'[j].frame < nextFrame'
           /\ pendingPackets'[j].idr >= wire[connection][1].frame
    <3> TAKE j \in 1..Len(pendingPackets')
    <3>1. /\ j + 1 \in 1..Len(pendingPackets) /\ 1 < j + 1
          /\ pendingPackets'[j] = pendingPackets[j + 1]
      BY <2>2, <2>3
    <3>2. pendingPackets[1].frame < pendingPackets[j + 1].frame
      BY <2>2, <3>1 DEF OrderInv, FramesInOrder, Increasing
    <3>3. pendingPackets[j + 1].frame < nextFrame
      BY <3>1 DEF OrderInv, FramesInOrder
    <3>4. pendingPackets[j + 1].idr >= wire[connection][1].frame
      BY <1>1, <2>5, <3>1 DEF OrderInv, SinceJoin
    <3> QED
      BY <1>1, <2>2, <3>1, <3>2, <3>3, <3>4
  <2>11. lastIdr' >= wire[connection][1].frame
    BY <1>1, <2>5 DEF OrderInv, SinceJoin
  <2>12. p.frame < nextFrame'
    BY <1>1, <2>2 DEF OrderInv, FramesInOrder
  <2> HIDE DEF p
  <2>13. OrderInv'
    <3>1. /\ nextFrame' \in Nat /\ nextFrame' >= nextFrame
          /\ lastIdr' >= IF wire[connection] = <<>> THEN p.frame ELSE wire[connection][1].frame
      BY <1>1, <2>5, <2>11
    <3>2. \A j \in 1..Len(pendingPackets') :
            /\ p.frame < pendingPackets'[j].frame
            /\ pendingPackets'[j].frame < nextFrame'
            /\ pendingPackets'[j].idr >=
                 IF wire[connection] = <<>> THEN p.frame ELSE wire[connection][1].frame
      BY <2>5, <2>10
    <3> QED
      BY <2>3, <2>8, <2>9, <2>12, <3>1, <3>2, OrderAfterSend
  <2> QED
    BY <2>8, <2>13 DEF p
<1> QED
  BY <1>2, <1>3

LEMMA OrderInvStep ==
  ASSUME ConnectionTypes, ConnectionInv, OrderInv, [Next]_vars
  PROVE  /\ OrderInv'
         /\ UNCHANGED wire \/ \E p \in Packet : Sends(p)
<1> USE DEF listening, streaming, connectionVars, packetVars
<1>0. lastIdr \in Nat /\ nextFrame \in Nat
  BY PacketFields
<1>1. CASE UNCHANGED vars \/ ConnectionUntouched
  BY <1>0, <1>1, OrderKept DEF vars, ConnectionUntouched
<1>2. CASE ConnectionClosed
  BY <1>0, <1>2, OrderKept, ConstantsAssumption
  DEF ConnectionClosed, CloseConnection, ForgetConnection
<1>3. ASSUME NEW l \in Listeners, NEW c \in Connections, ClientArrives(l, c)
      PROVE  OrderInv' /\ UNCHANGED wire
  BY <1>0, <1>3, OrderKept DEF ClientArrives
<1>4. ASSUME NEW l \in Listeners, NEW c \in Connections, NewConnection(l, c)
      PROVE  OrderInv' /\ UNCHANGED wire
  <2>1. /\ connection' = c /\ pendingPackets' = <<>>
        /\ UNCHANGED <<wire, nextFrame, lastIdr>>
        /\ <<l, c>> \in incoming
    BY <1>4 DEF NewConnection
  <2>2. wire[c] = <<>> /\ c # None
    BY <2>1, ConstantsAssumption DEF ConnectionInv, IncomingUnused
  <2> QED
    BY <1>0, <2>1, <2>2, OrderKept
<1>5. ASSUME NEW isKeyframe \in BOOLEAN, Send(isKeyframe)
      PROVE  OrderInv' /\ (UNCHANGED wire \/ \E p \in Packet : Sends(p))
  <2>1. CASE AdmitPacket(isKeyframe)
    BY <1>5, <2>1, AdmitPacketOrder DEF Sends
  <2>2. CASE ~Admits(isKeyframe) /\ UNCHANGED <<waitingForKeyFrame, pendingPackets, sendInFlight, wire, outstanding>>
    <3>1. /\ UNCHANGED <<connection, pendingPackets, wire>>
          /\ nextFrame' \in Nat /\ nextFrame' >= nextFrame
          /\ lastIdr' \in Nat /\ lastIdr' >= lastIdr
      BY <1>0, <1>5, <2>2 DEF Send, NextPacket, ConnectionTypes
    <3> QED
      BY <1>0, <3>1, OrderKept
  <2> QED
    BY <1>5, <2>1, <2>2 DEF Send
<1>6. ASSUME NEW c \in Connections, ContentProcessed(c)
      PROVE  OrderInv' /\ (UNCHANGED wire \/ \E p \in Packet : Sends(p))
  <2>1. CASE SendSucceeded(c)
    BY <1>6, <2>1, SendSucceededOrder DEF Sends
  <2>2. CASE StaleCompletion(c) \/ SendFailed(c)
    BY <1>0, <1>6, <2>2, OrderKept
    DEF ContentProcessed, StaleCompletion, SendFailed, ForgetConnection
  <2> QED
    BY <1>6, <2>1, <2>2 DEF ContentProcessed
<1>7. ASSUME NEW c \in Connections, ConnectionUpdate(c)
      PROVE  OrderInv' /\ UNCHANGED wire
  BY <1>0, <1>7, OrderKept
  DEF ConnectionUpdate, StaleConnectionUpdate, ConnectionBecameReady, ConnectionEnded,
      ForgetConnection
<1>8. ASSUME NEW c \in Connections,
             ConnReady(c) \/ \E event \in {"failed", "cancelled"} : ConnEnds(c, event)
      PROVE  OrderInv' /\ UNCHANGED wire
  BY <1>0, <1>8, OrderKept DEF ConnReady, ConnEnds
<1> QED
  BY <1>1, <1>2, <1>3, <1>4, <1>5, <1>6, <1>7, <1>8, ConnectionSteps
  DEF vars, ConnectionUntouched, ConnectionClosed

-----------------------------------------------------------------------------
(* The listener.                                                           *)

(* The updates still to be handled end in the path as it is now.           *)
UpdatesReachPath ==
  IF pathUpdates = <<>> THEN wiredPathSignature = usbPath
                        ELSE pathUpdates[Len(pathUpdates)] = usbPath

(* A listener's path is the one last handled, one still to be handled, or  *)
(* a restart is on its way.                                                *)
RebindComing ==
  listener # None =>
    \/ restartBlocks > 0
    \/ lsnPath[listener] = wiredPathSignature
    \/ \E i \in 1..Len(pathUpdates) : lsnPath[listener] = pathUpdates[i]

(* Callbacks that tell of an end are about ended listeners, and the end of *)
(* the current one is still to be told.                                    *)
EndsAnnounced ==
  /\ \A e \in lsnEvents : e[2] # "ready" => lsnPhase[e[1]] = "gone"
  /\ listener # None /\ lsnPhase[listener] = "gone" =>
       \E e \in lsnEvents : e[1] = listener /\ e[2] # "ready"

ListenerInv ==
  /\ OneLiveListener
  /\ EndsAnnounced
  /\ listener # None => desiredRunning
  /\ NeverStranded
  /\ UpdatesReachPath
  /\ RebindComing

ListenerTypes ==
  /\ desiredRunning \in BOOLEAN
  /\ listener \in Listeners \cup {None}
  /\ listenerRetryAttempt \in 0..5
  /\ wiredPathSignature \in Paths \cup {None}
  /\ lsnPhase \in [Listeners -> LsnPhases]
  /\ lsnPath \in [Listeners -> Paths]
  /\ lsnEvents \subseteq Listeners \X EventTypes
  /\ usbPath \in Paths
  /\ pathUpdates \in Seq(Paths)
  /\ restartBlocks \in Nat
  /\ retryTimers \in 0..MaxTimers

LEMMA CancelListenerType ==
  ASSUME ListenerTypes, NEW x
  PROVE  Cancel(lsnPhase, x) \in [Listeners -> LsnPhases]
BY DEF Cancel, ListenerTypes, LsnPhases

LEMMA CancellingListenerType ==
  ASSUME NEW x \in Listeners \cup {None}
  PROVE  Cancelling(x) \subseteq Listeners \X EventTypes
BY DEF Cancelling, EventTypes

(* scheduleRestart after the listener was given up: a timer is pending.    *)
LEMMA ScheduleRestartEffect ==
  ASSUME NEW timers \in 0..MaxTimers, NEW attempt \in 0..5,
         listener' = None, desiredRunning' = TRUE,
         ScheduleRestart(timers, attempt)
  PROVE  /\ retryTimers' \in 0..MaxTimers
         /\ retryTimers' > 0
         /\ listenerRetryAttempt' \in 0..5
BY ConstantsAssumption DEF ScheduleRestart

(* startOnQueue leaves a listener or a timer, and a listener it creates is *)
(* on the path as it is now.                                               *)
LEMMA StartOnQueueEffect ==
  ASSUME ListenerTypes,
         NEW current \in Listeners \cup {None}, NEW phase \in [Listeners -> LsnPhases],
         NEW timers \in 0..MaxTimers, NEW attempt \in 0..5,
         \A l \in Listeners : phase[l] \in LiveLsn => l = current,
         lsnEvents' \subseteq Listeners \X EventTypes,
         \A e \in lsnEvents' : ~FreshListener(e[1]) /\ (e[2] # "ready" => phase[e[1]] = "gone"),
         current # None /\ phase[current] = "gone" =>
           \E e \in lsnEvents' : e[1] = current /\ e[2] # "ready",
         desiredRunning' = TRUE,
         StartOnQueue(current, phase, timers, attempt)
  PROVE  /\ listener' \in Listeners \cup {None}
         /\ lsnPhase' \in [Listeners -> LsnPhases]
         /\ lsnPath' \in [Listeners -> Paths]
         /\ retryTimers' \in 0..MaxTimers
         /\ listenerRetryAttempt' \in 0..5
         /\ OneLiveListener'
         /\ EndsAnnounced'
         /\ listener' = None => retryTimers' > 0
         /\ listener' # None => \/ lsnPath'[listener'] = usbPath
                                \/ listener' = current /\ UNCHANGED lsnPath
<1>1. CASE ListenerExists(current, phase, timers, attempt)
  BY <1>1, ConstantsAssumption DEF ListenerExists, ListenerTypes, OneLiveListener, EndsAnnounced
<1>2. CASE ListenerCreated(current, phase, timers, attempt)
  <2>1. PICK l \in Listeners :
          /\ FreshListener(l)
          /\ listener' = l
          /\ lsnPhase' = [phase EXCEPT ![l] = "starting"]
          /\ lsnPath' = [lsnPath EXCEPT ![l] = usbPath]
    BY <1>2 DEF ListenerCreated
  <2>2. /\ current = None
        /\ retryTimers' = timers
        /\ listenerRetryAttempt' = attempt
    BY <1>2 DEF ListenerCreated
  <2>3. lsnPhase' \in [Listeners -> LsnPhases] /\ lsnPath' \in [Listeners -> Paths]
    BY <2>1 DEF ListenerTypes, LsnPhases
  <2>4. OneLiveListener'
    BY <2>1, <2>2, ConstantsAssumption DEF OneLiveListener
  <2>5. l # None /\ lsnPath'[l] = usbPath
    BY <2>1, ConstantsAssumption DEF ListenerTypes
  <2>6. EndsAnnounced'
    <3>1. lsnPhase'[l] = "starting"
      BY <2>1
    <3>2. ASSUME NEW e \in lsnEvents', e[2] # "ready"
          PROVE  lsnPhase'[e[1]] = "gone"
      <4>1. e[1] # l /\ e[1] \in Listeners /\ phase[e[1]] = "gone"
        BY <2>1, <3>2
      <4> QED
        BY <2>1, <4>1
    <3> QED
      BY <2>1, <3>1, <3>2 DEF EndsAnnounced
  <2> QED
    BY <2>1, <2>2, <2>3, <2>4, <2>5, <2>6
<1>3. CASE CreationThrows(current, phase, timers, attempt)
  <2>1. /\ current = None
        /\ listener' = None
        /\ lsnPhase' = phase
        /\ UNCHANGED lsnPath
        /\ ScheduleRestart(timers, attempt)
    BY <1>3 DEF CreationThrows
  <2> QED
    BY <2>1, ScheduleRestartEffect DEF ListenerTypes, OneLiveListener, EndsAnnounced
<1> QED
  BY <1>1, <1>2, <1>3 DEF StartOnQueue

(* A listener on the path as it is now needs no restart.                   *)
LEMMA OnCurrentPath ==
  ASSUME ListenerTypes, UpdatesReachPath, NEW path, path = usbPath
  PROVE  \/ path = wiredPathSignature
         \/ \E i \in 1..Len(pathUpdates) : path = pathUpdates[i]
<1>1. CASE pathUpdates = <<>>
  BY <1>1 DEF UpdatesReachPath
<1>2. CASE pathUpdates # <<>>
  <2>1. Len(pathUpdates) \in 1..Len(pathUpdates)
    BY <1>2 DEF ListenerTypes
  <2> QED
    BY <1>2, <2>1 DEF UpdatesReachPath
<1> QED
  BY <1>1, <1>2

LEMMA ListenerStep ==
  ASSUME ListenerTypes, ListenerInv, [Next]_vars
  PROVE  ListenerTypes' /\ ListenerInv'
<1> USE DEF listening, listenerVars, pathVars
<1>a. /\ \A l \in Listeners : lsnPhase[l] \in LiveLsn => l = listener
      /\ listener # None => desiredRunning
  BY DEF ListenerInv, OneLiveListener
<1>c. \A e \in lsnEvents :
        /\ e[1] \in Listeners
        /\ ~FreshListener(e[1])
        /\ e[2] # "ready" => lsnPhase[e[1]] = "gone"
  BY DEF ListenerTypes, ListenerInv, EndsAnnounced, FreshListener
<1>d. listener # None /\ lsnPhase[listener] = "gone" =>
        \E e \in lsnEvents : e[1] = listener /\ e[2] # "ready"
  BY DEF ListenerInv, EndsAnnounced
<1>b. \A l \in Listeners : Cancel(lsnPhase, listener)[l] \in LiveLsn => l = None
  BY <1>a DEF Cancel, ListenerTypes, LiveLsn
<1>0. CASE UNCHANGED vars
  BY <1>0
  DEF vars, ListenerTypes, ListenerInv, OneLiveListener, EndsAnnounced, NeverStranded, UpdatesReachPath,
      RebindComing
<1>1. CASE UNCHANGED <<desiredRunning, listenerVars, lsnEvents, pathVars, restartBlocks>>
  BY <1>1
  DEF ListenerTypes, ListenerInv, OneLiveListener, EndsAnnounced, NeverStranded, UpdatesReachPath, RebindComing
<1>2. CASE Start
  <2>1. /\ desiredRunning' = TRUE
        /\ StartOnQueue(listener, lsnPhase, retryTimers, listenerRetryAttempt)
        /\ UNCHANGED <<lsnEvents, pathVars, restartBlocks>>
    BY <1>2 DEF Start
  <2>2. /\ listener \in Listeners \cup {None}
        /\ lsnPhase \in [Listeners -> LsnPhases]
        /\ retryTimers \in 0..MaxTimers /\ listenerRetryAttempt \in 0..5
    BY DEF ListenerTypes
  <2>3. /\ listener' \in Listeners \cup {None}
        /\ lsnPhase' \in [Listeners -> LsnPhases]
        /\ lsnPath' \in [Listeners -> Paths]
        /\ retryTimers' \in 0..MaxTimers /\ listenerRetryAttempt' \in 0..5
        /\ OneLiveListener' /\ EndsAnnounced'
        /\ listener' = None => retryTimers' > 0
        /\ listener' # None => lsnPath'[listener'] = usbPath \/ (listener' = listener /\ UNCHANGED lsnPath)
    <3>1. lsnEvents' = lsnEvents /\ lsnEvents \subseteq Listeners \X EventTypes
      BY <2>1 DEF ListenerTypes
    <3>2. \A e \in lsnEvents' : ~FreshListener(e[1]) /\ (e[2] # "ready" => lsnPhase[e[1]] = "gone")
      BY <1>c, <3>1
    <3>3. listener # None /\ lsnPhase[listener] = "gone" =>
            \E e \in lsnEvents' : e[1] = listener /\ e[2] # "ready"
      BY <1>d, <3>1
    <3> QED
      BY <1>a, <2>1, <2>2, <3>1, <3>2, <3>3, StartOnQueueEffect
  <2>4. ListenerTypes'
    BY <2>1, <2>3 DEF ListenerTypes
  <2>5. RebindComing'
    BY <2>1, <2>3, OnCurrentPath DEF ListenerInv, RebindComing
  <2> QED
    BY <2>1, <2>3, <2>4, <2>5 DEF ListenerInv, NeverStranded, UpdatesReachPath
<1>3. CASE Stop
  <2>1. /\ listener' = None /\ desiredRunning' = FALSE
        /\ listenerRetryAttempt' = 0
        /\ lsnPhase' = Cancel(lsnPhase, listener)
        /\ lsnEvents' = lsnEvents \cup Cancelling(listener)
        /\ UNCHANGED <<lsnPath, retryTimers, pathVars, restartBlocks>>
    BY <1>3 DEF Stop
  <2>2. ListenerTypes'
    <3>1. lsnPhase' \in [Listeners -> LsnPhases]
      BY <2>1, CancelListenerType
    <3>2. lsnEvents' \subseteq Listeners \X EventTypes
      BY <2>1, CancellingListenerType DEF ListenerTypes
    <3>3. desiredRunning' \in BOOLEAN
      BY <2>1, Zenon
    <3>4. listener' \in Listeners \cup {None}
      BY <2>1
    <3>5. listenerRetryAttempt' \in 0..5
      BY <2>1
    <3> QED
      BY <2>1, <3>1, <3>2, <3>3, <3>4, <3>5 DEF ListenerTypes
  <2>3. EndsAnnounced'
    BY <1>c, <2>1 DEF EndsAnnounced, Cancel, Cancelling, ListenerTypes
  <2> QED
    BY <1>b, <2>1, <2>2, <2>3
    DEF ListenerInv, OneLiveListener, NeverStranded, UpdatesReachPath, RebindComing
<1>4. CASE PostRestart
  BY <1>4
  DEF PostRestart, ListenerTypes, ListenerInv, OneLiveListener, EndsAnnounced, NeverStranded,
      UpdatesReachPath, RebindComing
<1>5. CASE RestartListening
  <2>1. /\ restartBlocks > 0 /\ restartBlocks' = restartBlocks - 1
        /\ UNCHANGED <<pathVars, desiredRunning>>
    BY <1>5 DEF RestartListening
  <2>2. CASE ~desiredRunning
    <3>1. UNCHANGED <<listenerVars, lsnEvents>> /\ listener = None
      BY <1>5, <1>a, <2>2 DEF RestartListening
    <3> QED
      BY <2>1, <2>2, <3>1
      DEF ListenerTypes, ListenerInv, OneLiveListener, EndsAnnounced, NeverStranded, UpdatesReachPath, RebindComing
  <2>3. CASE desiredRunning
    <3>1. /\ lsnEvents' = lsnEvents \cup Cancelling(listener)
          /\ StartOnQueue(None, Cancel(lsnPhase, listener), retryTimers, 0)
      BY <1>5, <2>3 DEF RestartListening
    <3>2. /\ Cancel(lsnPhase, listener) \in [Listeners -> LsnPhases]
          /\ retryTimers \in 0..MaxTimers /\ 0 \in 0..5
          /\ None \in Listeners \cup {None}
          /\ desiredRunning' = TRUE
      BY <2>1, <2>3, CancelListenerType DEF ListenerTypes
    <3>3. /\ listener' \in Listeners \cup {None}
          /\ lsnPhase' \in [Listeners -> LsnPhases]
          /\ lsnPath' \in [Listeners -> Paths]
          /\ retryTimers' \in 0..MaxTimers /\ listenerRetryAttempt' \in 0..5
          /\ OneLiveListener' /\ EndsAnnounced'
          /\ listener' = None => retryTimers' > 0
          /\ listener' # None => lsnPath'[listener'] = usbPath \/ listener' = None
      <4>1. lsnEvents' \subseteq Listeners \X EventTypes
        BY <3>1, CancellingListenerType DEF ListenerTypes
      <4>2. ASSUME NEW e \in lsnEvents'
            PROVE  /\ ~FreshListener(e[1])
                   /\ e[2] # "ready" => Cancel(lsnPhase, listener)[e[1]] = "gone"
        <5>1. CASE e \in lsnEvents
          BY <1>c, <5>1 DEF Cancel, ListenerTypes
        <5>2. CASE e \in Cancelling(listener)
          <6>1. e[1] = listener /\ listener \in Listeners /\ listener # None
            BY <5>2 DEF Cancelling, ListenerTypes
          <6> QED
            BY <1>d, <6>1 DEF FreshListener, Cancel, ListenerTypes
        <5> QED
          BY <3>1, <5>1, <5>2
      <4> QED
        BY <1>b, <3>1, <3>2, <4>1, <4>2, StartOnQueueEffect
    <3>4. ListenerTypes'
      BY <2>1, <3>1, <3>3, CancellingListenerType DEF ListenerTypes
    <3>5. RebindComing'
      BY <2>1, <3>3, OnCurrentPath DEF ListenerInv, RebindComing
    <3> QED
      BY <2>1, <3>2, <3>3, <3>4, <3>5 DEF ListenerInv, NeverStranded, UpdatesReachPath
  <2> QED
    BY <2>2, <2>3 DEF ListenerTypes
<1>6. CASE RetryTimer
  <2>1. /\ retryTimers > 0
        /\ retryTimers - 1 \in 0..MaxTimers
        /\ UNCHANGED <<desiredRunning, lsnEvents, pathVars, restartBlocks>>
    BY <1>6, ConstantsAssumption DEF RetryTimer, ListenerTypes
  <2>2. CASE ~desiredRunning
    <3>1. retryTimers' = retryTimers - 1 /\ UNCHANGED <<listener, lsnPhase, lsnPath, listenerRetryAttempt>>
      BY <1>6, <2>2 DEF RetryTimer
    <3> QED
      BY <2>1, <2>2, <3>1
      DEF ListenerTypes, ListenerInv, OneLiveListener, EndsAnnounced, NeverStranded, UpdatesReachPath, RebindComing
  <2>3. CASE desiredRunning
    <3>1. /\ StartOnQueue(listener, lsnPhase, retryTimers - 1, listenerRetryAttempt)
          /\ desiredRunning' = TRUE
      BY <1>6, <2>1, <2>3 DEF RetryTimer
    <3>2. /\ listener \in Listeners \cup {None}
          /\ lsnPhase \in [Listeners -> LsnPhases]
          /\ listenerRetryAttempt \in 0..5
      BY DEF ListenerTypes
    <3>3. /\ listener' \in Listeners \cup {None}
          /\ lsnPhase' \in [Listeners -> LsnPhases]
          /\ lsnPath' \in [Listeners -> Paths]
          /\ retryTimers' \in 0..MaxTimers /\ listenerRetryAttempt' \in 0..5
          /\ OneLiveListener' /\ EndsAnnounced'
          /\ listener' = None => retryTimers' > 0
          /\ listener' # None => lsnPath'[listener'] = usbPath \/ (listener' = listener /\ UNCHANGED lsnPath)
      <4>1. lsnEvents' = lsnEvents /\ lsnEvents \subseteq Listeners \X EventTypes
        BY <2>1 DEF ListenerTypes
      <4>2. \A e \in lsnEvents' : ~FreshListener(e[1]) /\ (e[2] # "ready" => lsnPhase[e[1]] = "gone")
        BY <1>c, <4>1
      <4>3. listener # None /\ lsnPhase[listener] = "gone" =>
              \E e \in lsnEvents' : e[1] = listener /\ e[2] # "ready"
        BY <1>d, <4>1
      <4> QED
        BY <1>a, <2>1, <3>1, <3>2, <4>1, <4>2, <4>3, StartOnQueueEffect
    <3>4. ListenerTypes'
      BY <2>1, <3>3 DEF ListenerTypes
    <3>5. RebindComing'
      BY <2>1, <3>3, OnCurrentPath DEF ListenerInv, RebindComing
    <3> QED
      BY <2>1, <3>1, <3>3, <3>4, <3>5 DEF ListenerInv, NeverStranded, UpdatesReachPath
  <2> QED
    BY <2>2, <2>3 DEF ListenerTypes
<1>7. CASE HandlePathUpdate
  <2> DEFINE p == Head(pathUpdates)
  <2>1. /\ pathUpdates # <<>>
        /\ pathUpdates' = Tail(pathUpdates)
        /\ wiredPathSignature' = p
        /\ restartBlocks' = IF MustRebind(p) THEN restartBlocks + 1 ELSE restartBlocks
        /\ UNCHANGED <<desiredRunning, listenerVars, lsnEvents, usbPath>>
    BY <1>7 DEF HandlePathUpdate
  <2>2. /\ pathUpdates \in Seq(Paths)
        /\ p = pathUpdates[1] /\ p \in Paths
        /\ Tail(pathUpdates) \in Seq(Paths)
        /\ Len(Tail(pathUpdates)) = Len(pathUpdates) - 1
        /\ Len(pathUpdates) \in Nat \ {0}
        /\ \A i \in 1..Len(Tail(pathUpdates)) : Tail(pathUpdates)[i] = pathUpdates[i + 1]
    BY <2>1 DEF ListenerTypes
  <2> HIDE DEF p
  <2>3. ListenerTypes'
    BY <2>1, <2>2 DEF ListenerTypes
  <2>4. UpdatesReachPath'
    <3>1. CASE Len(pathUpdates) = 1
      <4>1. Tail(pathUpdates) = <<>>
        <5>1. Len(Tail(pathUpdates)) = 0
          BY <2>2, <3>1
        <5> QED
          BY <2>2, <5>1, EmptySeq
      <4> QED
        BY <2>1, <2>2, <3>1, <4>1 DEF ListenerInv, UpdatesReachPath
    <3>2. CASE Len(pathUpdates) # 1
      <4>1. /\ Tail(pathUpdates) # <<>>
            /\ Len(Tail(pathUpdates)) \in 1..Len(Tail(pathUpdates))
        <5>1. Len(Tail(pathUpdates)) \in Nat \ {0}
          BY <2>2, <3>2
        <5> QED
          BY <2>2, <5>1, EmptySeq
      <4> QED
        BY <2>1, <2>2, <4>1 DEF ListenerInv, UpdatesReachPath
    <3> QED
      BY <3>1, <3>2
  <2>5. RebindComing'
    <3> SUFFICES ASSUME listener # None, restartBlocks' = 0
                 PROVE  \/ lsnPath[listener] = p
                        \/ \E i \in 1..Len(Tail(pathUpdates)) : lsnPath[listener] = Tail(pathUpdates)[i]
      BY <2>1, <2>3 DEF RebindComing, ListenerTypes
    <3>1. restartBlocks = 0 /\ ~MustRebind(p)
      BY <2>1 DEF ListenerTypes
    <3>2. lsnPath[listener] \in Paths
      BY DEF ListenerTypes
    <3>3. CASE lsnPath[listener] = wiredPathSignature
      BY <1>a, <3>1, <3>2, <3>3, ConstantsAssumption DEF MustRebind
    <3>4. CASE \E i \in 1..Len(pathUpdates) : lsnPath[listener] = pathUpdates[i]
      <4>1. PICK i \in 1..Len(pathUpdates) : lsnPath[listener] = pathUpdates[i]
        BY <3>4
      <4>2. CASE i = 1
        BY <2>2, <4>1, <4>2
      <4>3. CASE i # 1
        <5>1. /\ i - 1 \in 1..Len(Tail(pathUpdates))
              /\ Tail(pathUpdates)[i - 1] = pathUpdates[i]
          BY <2>2, <4>3
        <5> QED
          BY <4>1, <5>1
      <4> QED
        BY <4>2, <4>3
    <3> QED
      BY <3>1, <3>3, <3>4 DEF ListenerInv, RebindComing
  <2> QED
    BY <2>1, <2>3, <2>4, <2>5 DEF ListenerInv, OneLiveListener, EndsAnnounced, NeverStranded
<1>8. ASSUME NEW p \in Paths, PathChange(p)
      PROVE  ListenerTypes' /\ ListenerInv'
  <2>1. /\ usbPath' = p
        /\ pathUpdates' = Append(pathUpdates, p)
        /\ UNCHANGED <<desiredRunning, listenerVars, lsnEvents, wiredPathSignature, restartBlocks>>
    BY <1>8 DEF PathChange
  <2>2. /\ pathUpdates \in Seq(Paths)
        /\ pathUpdates' \in Seq(Paths) /\ pathUpdates' # <<>>
        /\ Len(pathUpdates') = Len(pathUpdates) + 1
        /\ pathUpdates'[Len(pathUpdates) + 1] = p
        /\ \A i \in 1..Len(pathUpdates) : i \in 1..Len(pathUpdates') /\ pathUpdates'[i] = pathUpdates[i]
    BY <2>1 DEF ListenerTypes
  <2>3. ListenerTypes'
    BY <2>1, <2>2 DEF ListenerTypes
  <2>4. UpdatesReachPath'
    BY <2>1, <2>2 DEF UpdatesReachPath
  <2>5. RebindComing'
    BY <2>1, <2>2 DEF ListenerInv, RebindComing
  <2> QED
    BY <2>1, <2>3, <2>4, <2>5 DEF ListenerInv, OneLiveListener, EndsAnnounced, NeverStranded
<1>9. ASSUME NEW l \in Listeners, ListenerReady(l) \/ \E event \in {"failed", "cancelled"} : ListenerEnds(l, event)
      PROVE  ListenerTypes' /\ ListenerInv'
  <2>1. /\ lsnPhase[l] \in LiveLsn
        /\ \/ /\ lsnPhase' = [lsnPhase EXCEPT ![l] = "ready"]
              /\ lsnEvents' = lsnEvents \cup {<<l, "ready">>}
           \/ /\ lsnPhase' = [lsnPhase EXCEPT ![l] = "gone"]
              /\ \E event \in {"failed", "cancelled"} : lsnEvents' = lsnEvents \cup {<<l, event>>}
        /\ UNCHANGED <<desiredRunning, listener, lsnPath, listenerRetryAttempt, retryTimers,
                       pathVars, restartBlocks>>
    BY <1>9 DEF ListenerReady, ListenerEnds, LiveLsn
  <2>2. ListenerTypes'
    BY <2>1 DEF ListenerTypes, LsnPhases, EventTypes
  <2>3. OneLiveListener'
    BY <1>a, <2>1 DEF OneLiveListener, ListenerTypes
  <2>4. EndsAnnounced'
    <3>1. \A e \in lsnEvents : e[2] # "ready" => e[1] # l
      BY <1>c, <2>1 DEF LiveLsn
    <3>2. l = listener
      BY <1>a, <2>1
    <3>3. \A e \in lsnEvents : e[2] # "ready" => lsnPhase'[e[1]] = "gone"
      BY <1>c, <2>1, <3>1 DEF ListenerTypes
    <3>4. CASE lsnPhase' = [lsnPhase EXCEPT ![l] = "ready"] /\ lsnEvents' = lsnEvents \cup {<<l, "ready">>}
      BY <2>1, <3>2, <3>3, <3>4 DEF EndsAnnounced, ListenerTypes
    <3>5. ASSUME NEW event \in {"failed", "cancelled"},
                 lsnPhase' = [lsnPhase EXCEPT ![l] = "gone"],
                 lsnEvents' = lsnEvents \cup {<<l, event>>}
          PROVE  EndsAnnounced'
      <4>1. <<l, event>> \in lsnEvents' /\ <<l, event>>[1] = l /\ <<l, event>>[2] # "ready"
        BY <3>5
      <4>2. lsnPhase'[l] = "gone"
        BY <3>5 DEF ListenerTypes
      <4> QED
        BY <2>1, <3>2, <3>3, <3>5, <4>1, <4>2 DEF EndsAnnounced
    <3> QED
      BY <2>1, <3>4, <3>5
  <2> QED
    BY <2>1, <2>2, <2>3, <2>4 DEF ListenerInv, NeverStranded, UpdatesReachPath, RebindComing
<1>10. ASSUME NEW l \in Listeners, ListenerUpdate(l)
       PROVE  ListenerTypes' /\ ListenerInv'
  <2>1. UNCHANGED <<desiredRunning, pathVars, restartBlocks>>
    BY <1>10 DEF ListenerUpdate
  <2>2. CASE ListenerBecameReady(l)
    <3>1. /\ listenerRetryAttempt' = 0
          /\ lsnEvents' = lsnEvents \ {<<l, "ready">>}
          /\ UNCHANGED <<listener, lsnPhase, lsnPath, retryTimers>>
      BY <2>2 DEF ListenerBecameReady
    <3>2. EndsAnnounced'
      BY <1>c, <1>d, <3>1 DEF EndsAnnounced
    <3> QED
      BY <2>1, <3>1, <3>2
      DEF ListenerTypes, ListenerInv, OneLiveListener, NeverStranded, UpdatesReachPath, RebindComing
  <2>3. CASE \/ Deliverable(lsnEvents, l, "failed") /\ ListenerFailed(l)
             \/ Deliverable(lsnEvents, l, "cancelled") /\ ListenerCancelled(l)
    <3>1. /\ listener = l /\ lsnPhase[l] = "gone"
          /\ listener' = None
          /\ lsnPhase' = Cancel(lsnPhase, l) \/ UNCHANGED lsnPhase
          /\ lsnEvents' \subseteq lsnEvents \cup Cancelling(l)
          /\ ScheduleRestart(retryTimers, listenerRetryAttempt)
          /\ UNCHANGED lsnPath
      BY <1>c, <2>3 DEF Deliverable, ListenerFailed, ListenerCancelled, IsCurrentListener
    <3>2. lsnPhase' = lsnPhase
      BY <3>1 DEF Cancel, ListenerTypes
    <3>3. l # None /\ desiredRunning' = TRUE
      BY <1>a, <2>1, <3>1, ConstantsAssumption DEF ListenerTypes
    <3>4. /\ retryTimers' \in 0..MaxTimers /\ retryTimers' > 0
          /\ listenerRetryAttempt' \in 0..5
      BY <3>1, <3>3, ScheduleRestartEffect DEF ListenerTypes
    <3>5. ListenerTypes'
      BY <2>1, <3>1, <3>2, <3>4, CancellingListenerType DEF ListenerTypes
    <3>6. EndsAnnounced'
      <4>1. \A e \in Cancelling(l) : e[1] = l
        BY DEF Cancelling
      <4> QED
        BY <1>c, <3>1, <3>2, <4>1 DEF EndsAnnounced
    <3>7. OneLiveListener'
      BY <1>a, <3>1, <3>2 DEF OneLiveListener, LiveLsn
    <3> QED
      BY <2>1, <3>1, <3>4, <3>5, <3>6, <3>7
      DEF ListenerInv, NeverStranded, UpdatesReachPath, RebindComing
  <2>4. CASE \E event \in EventTypes : StaleListenerUpdate(l, event)
    <3>1. /\ listener # l
          /\ \E event \in EventTypes : lsnEvents' = lsnEvents \ {<<l, event>>}
          /\ UNCHANGED listenerVars
      BY <2>4 DEF StaleListenerUpdate, IsCurrentListener
    <3>2. EndsAnnounced'
      BY <1>c, <1>d, <3>1 DEF EndsAnnounced
    <3> QED
      BY <2>1, <3>1, <3>2
      DEF ListenerTypes, ListenerInv, OneLiveListener, NeverStranded, UpdatesReachPath, RebindComing
  <2> QED
    BY <1>10, <2>2, <2>3, <2>4 DEF ListenerUpdate
<1>11. ASSUME NEW l \in Listeners, NEW c \in Connections, ClientArrives(l, c) \/ NewConnection(l, c)
       PROVE  UNCHANGED <<desiredRunning, listenerVars, lsnEvents, pathVars, restartBlocks>>
  BY <1>11 DEF ClientArrives, NewConnection
<1>12. ASSUME NEW c \in Connections, ConnectionNext(c)
       PROVE  UNCHANGED <<desiredRunning, listenerVars, lsnEvents, pathVars, restartBlocks>>
  BY <1>12 DEF ConnectionNext, ConnReady, ConnEnds, ConnectionUpdate, ContentProcessed
<1>13. ASSUME NEW isKeyframe \in BOOLEAN, Send(isKeyframe)
       PROVE  UNCHANGED <<desiredRunning, listenerVars, lsnEvents, pathVars, restartBlocks>>
  BY <1>13 DEF Send
<1> QED
  BY <1>0, <1>1, <1>2, <1>3, <1>4, <1>5, <1>6, <1>7, <1>8, <1>9, <1>10, <1>11, <1>12, <1>13
  DEF Next, ListenerNext

-----------------------------------------------------------------------------
(* The inductive invariant, and the theorems.                              *)

SenderInv ==
  /\ ConnectionTypes
  /\ ListenerTypes
  /\ ConnectionInv
  /\ OrderInv
  /\ ListenerInv

LEMMA InitInv ==
  ASSUME Init
  PROVE  SenderInv
<1> USE DEF Init
<1>1. ConnectionTypes
  <2>1. <<>> \in Seq(Packet) /\ Len(<<>>) = 0
    BY EmptySeq
  <2>2. wire \in [Connections -> Seq(Packet)] /\ connPhase \in [Connections -> ConnPhases]
    BY <2>1 DEF ConnPhases
  <2>3. /\ nextFrame \in 1..(MaxFrames + 1)
        /\ lastIdr \in 0..MaxFrames
        /\ lastIdr < nextFrame
        /\ Len(pendingPackets) <= MaxQueuedPackets
    BY <2>1, ConstantsAssumption
  <2> QED
    BY <2>1, <2>2, <2>3 DEF ConnectionTypes
<1>2. ListenerTypes
  <2>1. pathUpdates \in Seq(Paths)
    OBVIOUS
  <2>2. retryTimers \in 0..MaxTimers /\ listenerRetryAttempt \in 0..5 /\ restartBlocks \in Nat
    BY ConstantsAssumption
  <2>3. lsnPhase \in [Listeners -> LsnPhases] /\ lsnPath \in [Listeners -> Paths]
    BY DEF LsnPhases
  <2>4. desiredRunning \in BOOLEAN
    BY Zenon
  <2>5. lsnEvents \subseteq Listeners \X EventTypes /\ wiredPathSignature \in Paths \cup {None}
    OBVIOUS
  <2> QED
    BY <2>1, <2>2, <2>3, <2>4, <2>5 DEF ListenerTypes
<1>3. ConnectionInv
  BY DEF ConnectionInv, FlagsMatchWire, ReadyOnce, IncomingUnused, OneSendInFlight,
         NoStalledQueue, OneLiveConnection, LiveConn
<1>4. OrderInv
  <2>1. \A c \in Connections : 1..Len(wire[c]) = {}
    OBVIOUS
  <2>2. 1..Len(pendingPackets) = {}
    OBVIOUS
  <2> QED
    BY <2>1, <2>2 DEF OrderInv, FramesInOrder, SinceJoin, JoinAtIdr, Increasing
<1>5. ListenerInv
  <2>1. pathUpdates # <<>> /\ pathUpdates[Len(pathUpdates)] = usbPath
    OBVIOUS
  <2> QED
    BY <2>1
    DEF ListenerInv, OneLiveListener, LiveLsn, EndsAnnounced, NeverStranded, UpdatesReachPath,
        RebindComing
<1> QED
  BY <1>1, <1>2, <1>3, <1>4, <1>5 DEF SenderInv

LEMMA SenderInvStep ==
  ASSUME SenderInv, [Next]_vars
  PROVE  SenderInv'
BY ConnectionTypesStep, ConnectionInvStep, OrderInvStep, ListenerStep DEF SenderInv

THEOREM SenderInvariant == Spec => []SenderInv
<1>1. Init => SenderInv
  BY InitInv
<1>2. SenderInv /\ [Next]_vars => SenderInv'
  BY SenderInvStep
<1> QED
  BY <1>1, <1>2, PTL DEF Spec

(* Type correctness, with the retry exponent within 0..5 and the packet    *)
(* queue within maxQueuedPackets.                                          *)
THEOREM TypeCorrectness == Spec => []TypeOK
<1>1. SenderInv => TypeOK
  BY DEF SenderInv, ConnectionTypes, ListenerTypes, TypeOK
<1> QED
  BY <1>1, SenderInvariant, PTL

(* sendInFlight agrees with the network: one send at most on the current   *)
(* connection, and none while the flag is down.                            *)
THEOREM OneSend == Spec => []OneSendInFlight
<1>1. SenderInv => OneSendInFlight
  BY DEF SenderInv, ConnectionInv
<1> QED
  BY <1>1, SenderInvariant, PTL

(* No packet waits without a send whose completion will take it out.       *)
THEOREM NoStall == Spec => []NoStalledQueue
<1>1. SenderInv => NoStalledQueue
  BY DEF SenderInv, ConnectionInv
<1> QED
  BY <1>1, SenderInvariant, PTL

(* A connection the sender forgot is closed.                               *)
THEOREM OneLivePeer == Spec => []OneLiveConnection
<1>1. SenderInv => OneLiveConnection
  BY DEF SenderInv, ConnectionInv
<1> QED
  BY <1>1, SenderInvariant, PTL

(* A listener the sender forgot is closed.                                 *)
THEOREM OneListener == Spec => []OneLiveListener
<1>1. SenderInv => OneLiveListener
  BY DEF SenderInv, ListenerInv
<1> QED
  BY <1>1, SenderInvariant, PTL

(* A sender meant to run listens or has a retry timer.                     *)
THEOREM Retrying == Spec => []NeverStranded
<1>1. SenderInv => NeverStranded
  BY DEF SenderInv, ListenerInv
<1> QED
  BY <1>1, SenderInvariant, PTL

(* A quiet sender listens on the wired path as it is now.                  *)
THEOREM Rebinding == Spec => []NeverBoundToOldPath
<1>1. SenderInv => NeverBoundToOldPath
  <2> SUFFICES ASSUME SenderInv, listener # None, pathUpdates = <<>>, restartBlocks = 0
               PROVE  lsnPath[listener] = usbPath
    BY DEF NeverBoundToOldPath
  <2>1. wiredPathSignature = usbPath
    BY DEF SenderInv, ListenerInv, UpdatesReachPath
  <2>2. 1..Len(pathUpdates) = {}
    OBVIOUS
  <2> QED
    BY <2>1, <2>2 DEF SenderInv, ListenerInv, RebindComing
<1> QED
  BY <1>1, SenderInvariant, PTL

(* Each PC's stream starts at an IDR picture and refers to nothing older.  *)
THEOREM JoiningAtIdr == Spec => []JoinAtIdr
<1>1. SenderInv => JoinAtIdr
  BY DEF SenderInv, OrderInv, SinceJoin
<1> QED
  BY <1>1, SenderInvariant, PTL

(* Packets leave in the order they were encoded, none twice.               *)
THEOREM Ordering == Spec => []InOrder
<1>1. ASSUME SenderInv, NEW c \in Connections
      PROVE  Increasing(wire[c] \o pendingPackets)
  <2> DEFINE w == wire[c]
             q == pendingPackets
  <2>1. /\ w \in Seq(Packet) /\ q \in Seq(Packet)
        /\ Increasing(w) /\ Increasing(q)
        /\ \A i \in 1..Len(w) : \A j \in 1..Len(q) : w[i].frame < q[j].frame
    BY <1>1 DEF SenderInv, ConnectionTypes, OrderInv, FramesInOrder
  <2> HIDE DEF w, q
  <2> SUFFICES ASSUME NEW i \in 1..Len(w \o q), NEW j \in 1..Len(w \o q), i < j
               PROVE  (w \o q)[i].frame < (w \o q)[j].frame
    BY DEF Increasing, w, q
  <2>2. /\ Len(w) \in Nat /\ Len(q) \in Nat /\ Len(w \o q) = Len(w) + Len(q)
        /\ \A n \in 1..Len(w \o q) : (w \o q)[n] = IF n <= Len(w) THEN w[n] ELSE q[n - Len(w)]
    BY <2>1
  <2>3. CASE j <= Len(w)
    <3>1. i \in 1..Len(w) /\ j \in 1..Len(w)
      BY <2>2, <2>3
    <3> QED
      BY <2>1, <2>2, <2>3, <3>1 DEF Increasing
  <2>4. CASE i > Len(w)
    <3>1. i - Len(w) \in 1..Len(q) /\ j - Len(w) \in 1..Len(q) /\ i - Len(w) < j - Len(w)
      BY <2>2, <2>4
    <3>2. (w \o q)[i] = q[i - Len(w)] /\ (w \o q)[j] = q[j - Len(w)]
      BY <2>2, <2>4
    <3> QED
      BY <2>1, <3>1, <3>2 DEF Increasing
  <2>5. CASE i <= Len(w) /\ j > Len(w)
    <3>1. i \in 1..Len(w) /\ j - Len(w) \in 1..Len(q)
      BY <2>2, <2>5
    <3>2. (w \o q)[i] = w[i] /\ (w \o q)[j] = q[j - Len(w)]
      BY <2>2, <2>5
    <3> QED
      BY <2>1, <3>1, <3>2
  <2> QED
    BY <2>2, <2>3, <2>4, <2>5
<1>2. SenderInv => InOrder
  BY <1>1 DEF SenderInv, InOrder, OrderInv, FramesInOrder
<1> QED
  BY <1>2, SenderInvariant, PTL

-----------------------------------------------------------------------------
(* The sender implements LiveFeed.                                         *)

LEMMA SendsIsShow ==
  ASSUME NEW p \in Packet, Sends(p)
  PROVE  Feed!Next
<1>1. Feed!Show(p)
  BY DEF Sends, Feed!Show, Feed!Newest, Feed!Decodable, Feed!IsIdr, IsIdr
<1> QED
  BY <1>1 DEF Feed!Next

(* A step that touches no wire keeps the viewer, drops it, or takes one    *)
(* that was never served.                                                  *)
LEMMA ConnectionChange ==
  ASSUME SenderInv, [Next]_vars
  PROVE  \/ UNCHANGED connection
         \/ connection' = None
         \/ \E c \in Connections : connection' = c /\ wire[c] = <<>> /\ c # connection
<1> USE DEF listening, streaming, connectionVars, packetVars
<1>1. CASE UNCHANGED vars
  BY <1>1 DEF vars
<1>2. CASE ConnectionUntouched \/ ConnectionClosed
  BY <1>2 DEF ConnectionUntouched, ConnectionClosed, CloseConnection, ForgetConnection
<1>3. ASSUME NEW l \in Listeners, NEW c \in Connections, ClientArrives(l, c) \/ NewConnection(l, c)
      PROVE  \/ UNCHANGED connection
             \/ connection' = c /\ wire[c] = <<>> /\ c # connection
  <2>1. CASE ClientArrives(l, c)
    BY <2>1 DEF ClientArrives
  <2>2. CASE NewConnection(l, c)
    <3>1. connPhase[c] = "arrived" /\ connection' = c
      BY <2>2 DEF NewConnection, SenderInv, ConnectionInv, IncomingUnused
    <3> QED
      BY <3>1, ConstantsAssumption DEF SenderInv, ConnectionInv, IncomingUnused, ReadyOnce
  <2> QED
    BY <1>3, <2>1, <2>2
<1>4. ASSUME NEW isKeyframe \in BOOLEAN, Send(isKeyframe)
      PROVE  UNCHANGED connection
  BY <1>4 DEF Send
<1>5. ASSUME NEW c \in Connections,
             \/ ConnReady(c)
             \/ \E event \in {"failed", "cancelled"} : ConnEnds(c, event)
             \/ ConnectionUpdate(c)
             \/ ContentProcessed(c)
      PROVE  UNCHANGED connection \/ connection' = None
  BY <1>5
  DEF ConnReady, ConnEnds, ConnectionUpdate, StaleConnectionUpdate, ConnectionBecameReady,
      ConnectionEnded, ContentProcessed, StaleCompletion, SendFailed, SendSucceeded,
      ForgetConnection
<1> QED
  BY <1>1, <1>2, <1>3, <1>4, <1>5, ConnectionSteps

THEOREM LiveFeedRefinement == Spec => ImplementsLiveFeed
<1>1. Init => Feed!Init
  BY DEF Init, Feed!Init
<1>2. SenderInv /\ [Next]_vars => [Feed!Next]_(Feed!vars)
  <2> SUFFICES ASSUME SenderInv, [Next]_vars
               PROVE  [Feed!Next]_(Feed!vars)
    OBVIOUS
  <2>1. UNCHANGED wire \/ \E p \in Packet : Sends(p)
    BY OrderInvStep DEF SenderInv
  <2>2. CASE \E p \in Packet : Sends(p)
    BY <2>2, SendsIsShow
  <2>3. CASE UNCHANGED wire
    <3>1. CASE UNCHANGED connection
      BY <2>3, <3>1 DEF Feed!vars
    <3>2. CASE connection' = None
      BY <2>3, <3>2 DEF Feed!Next, Feed!Leave
    <3>3. CASE \E c \in Connections : connection' = c /\ wire[c] = <<>> /\ c # connection
      BY <2>3, <3>3 DEF Feed!Next, Feed!Join
    <3> QED
      BY <3>1, <3>2, <3>3, ConnectionChange
  <2> QED
    BY <2>1, <2>2, <2>3
<1> QED
  BY <1>1, <1>2, SenderInvariant, PTL DEF Spec, ImplementsLiveFeed, Feed!Spec
===============================================================================
