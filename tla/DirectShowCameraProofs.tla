----------------------- MODULE DirectShowCameraProofs -----------------------
(***************************************************************************)
(* What DirectShowCamera promises, for any handles, any number of frames   *)
(* and restarts, with the release and acquire accesses the code has: its   *)
(* type, that socket_ names an open socket, that the frame store           *)
(* implements the register LatestFrame, and that stop() joins no thread it *)
(* has not woken, but for a load that overtook its thread's store.         *)
(***************************************************************************)
EXTENDS DirectShowCamera, TLAPS

-----------------------------------------------------------------------------
(* The invariant. *)

Disconnected == {"none", "loop", "connect", "backoff", "ended"}
InSession == {"session", "recv", "decode", "publish", "publishing", "ending"}

(* Where the receiver's thread is says which sockets are open and what socket_ says. *)
SocketInv ==
  /\ thread \in Disconnected => socket = NoFd /\ open = {}
  /\ thread = "connected" => socket = NoFd /\ fd \in Fds /\ open = {fd}
  /\ thread \in InSession => /\ fd \in Fds /\ open = {fd}
                            /\ socket = IF "socket" \in buffered THEN NoFd ELSE fd
  /\ "socket" \in buffered => thread \in InSession
  /\ thread = "closing" => socket = NoFd /\ fd \in Fds /\ open = {fd}

(* The mutex is held exactly by the side that is copying. *)
MutexInv ==
  /\ mutex = "graph" <=> graph = "copying"
  /\ mutex = "receiver" <=> thread = "publishing"

(* The active slot holds one whole frame, no newer than the last decoded, which it does *)
(* not hold before that is published, and no older than what the sample shows.          *)
SlotInv ==
  /\ slots[active][1] = slots[active][2]
  /\ slots[active][1] <= frame
  /\ thread \in {"publish", "publishing"} => slots[active][1] < frame
  /\ ~hasFrame => slots[active][1] = 0
  /\ thread = "publishing" => slots[1 - active][1] = frame

SampleInv ==
  /\ sample[1] <= slots[active][1]
  /\ sample[2] <= sample[1]
  /\ graph # "copying" => sample[1] = sample[2]
  /\ graph = "copying" => sample[1] = slots[active][1]

IInv == TypeOK /\ SocketInv /\ MutexInv /\ SlotInv /\ SampleInv

-----------------------------------------------------------------------------
(* The invariant holds at first and is kept by every step. *)

LEMMA InitIInv == Init => IInv
<1> SUFFICES ASSUME Init PROVE IInv
  OBVIOUS
<1> USE BoundAssumption DEF Init
<1>1. TypeOK
  <2>1. /\ running \in BOOLEAN /\ listening \in BOOLEAN /\ hasFrame \in BOOLEAN
        /\ buffered \subseteq Atomics /\ overtaken \subseteq Atomics
    BY Zenon
  <2>2. /\ thread \in ThreadStates /\ graph \in GraphStates
        /\ socket \in Fds \cup {NoFd} /\ fd \in Fds \cup {NoFd} /\ target \in Fds \cup {NoFd}
        /\ open \subseteq Fds /\ down \subseteq open
        /\ mutex \in {"free", "graph", "receiver"} /\ active \in {0, 1}
    BY DEF ThreadStates, GraphStates
  <2>3. /\ frame \in Frames /\ starts \in 0..MaxStarts
        /\ slots \in [{0, 1} -> [Halves -> Frames]] /\ sample \in [Halves -> Frames]
    BY DEF Frames, Halves
  <2> QED BY <2>1, <2>2, <2>3 DEF TypeOK
<1>2. SocketInv /\ MutexInv
  BY DEF SocketInv, MutexInv, Disconnected, InSession
<1>3. SlotInv /\ SampleInv
  BY DEF SlotInv, SampleInv, Halves
<1> QED BY <1>1, <1>2, <1>3 DEF IInv

(* The steps of the graph's worker thread. *)
LEMMA GraphKeepsIInv ==
  ASSUME IInv, Start \/ FillBlack \/ FillBegin \/ StopStore \/ GraphStep
  PROVE  IInv'
<1> USE FdAssumption, BoundAssumption
       DEF IInv, TypeOK, ThreadStates, GraphStates, control, conn, store
<1>1. CASE Start
  <2>1. TypeOK'
    <3>1. running' \in BOOLEAN
      BY <1>1, Zenon DEF Start
    <3>2. thread' \in ThreadStates /\ graph' \in GraphStates /\ starts' \in 0..MaxStarts
      BY <1>1 DEF Start
    <3> QED BY <1>1, <3>1, <3>2 DEF Start
  <2>2. SocketInv' BY <1>1 DEF Start, SocketInv, Disconnected, InSession
  <2>3. MutexInv' BY <1>1 DEF Start, MutexInv
  <2>4. SlotInv' /\ SampleInv' BY <1>1 DEF Start, SlotInv, SampleInv
  <2> QED BY <2>1, <2>2, <2>3, <2>4
<1>2. CASE FillBlack
  <2>1. TypeOK' BY <1>2 DEF FillBlack, Frames, Halves
  <2>2. SocketInv' /\ MutexInv' /\ SlotInv' BY <1>2 DEF FillBlack, SocketInv, MutexInv, SlotInv
  <2>3. SampleInv' BY <1>2 DEF FillBlack, SampleInv, SlotInv, Halves
  <2> QED BY <2>1, <2>2, <2>3
<1>3. CASE FillBegin
  <2>0. slots[active] \in [Halves -> Frames] /\ slots[active][1] \in Frames
    BY DEF Halves
  <2>1. TypeOK' BY <1>3, <2>0 DEF FillBegin, Halves
  <2>2. SocketInv' /\ MutexInv' /\ SlotInv' BY <1>3 DEF FillBegin, SocketInv, MutexInv, SlotInv
  <2>3. sample'[1] = slots[active][1] /\ sample'[2] = sample[2]
    BY <1>3 DEF FillBegin, Halves
  <2>4. SampleInv' BY <1>3, <2>0, <2>3 DEF FillBegin, SampleInv, Halves, Frames
  <2> QED BY <2>1, <2>2, <2>4
<1>4. CASE FillEnd
  <2>0. slots[active] \in [Halves -> Frames] /\ slots[active][2] \in Frames
    BY DEF Halves
  <2>1. TypeOK' BY <1>4, <2>0 DEF FillEnd, Halves
  <2>2. SocketInv' /\ MutexInv' /\ SlotInv' BY <1>4 DEF FillEnd, SocketInv, MutexInv, SlotInv
  <2>3. sample'[2] = slots[active][2] /\ sample'[1] = sample[1]
    BY <1>4 DEF FillEnd, Halves
  <2>4. SampleInv' BY <1>4, <2>0, <2>3 DEF FillEnd, SampleInv, SlotInv, Halves, Frames
  <2> QED BY <2>1, <2>2, <2>4
<1>5. CASE StopStore \/ DrainStore \/ StopLoad \/ StopShutdown
  <2>1. TypeOK'
    <3>1. running' \in BOOLEAN
      BY <1>5, Zenon DEF StopStore, DrainStore, StopLoad, StopShutdown
    <3>4. buffered' \subseteq Atomics /\ overtaken' \subseteq Atomics
      BY <1>5 DEF StopStore, DrainStore, StopLoad, StopShutdown, Overtaking, Atomics
    <3>2. graph' \in GraphStates /\ target' \in Fds \cup {NoFd} /\ down' \subseteq open
      BY <1>5 DEF StopStore, DrainStore, StopLoad, StopShutdown
    <3>3. UNCHANGED <<thread, socket, fd, open, listening, frame, starts, store, sample>>
      BY <1>5 DEF StopStore, DrainStore, StopLoad, StopShutdown
    <3> QED BY <3>1, <3>2, <3>3, <3>4
  <2>2. SocketInv' /\ MutexInv'
    BY <1>5 DEF StopStore, DrainStore, StopLoad, StopShutdown, SocketInv, MutexInv
  <2>3. SlotInv' /\ SampleInv'
    BY <1>5 DEF StopStore, DrainStore, StopLoad, StopShutdown, SlotInv, SampleInv
  <2> QED BY <2>1, <2>2, <2>3
<1>6. CASE Join
  <2>1. TypeOK' BY <1>6 DEF Join
  <2>2. SocketInv' BY <1>6 DEF Join, SocketInv, Disconnected, InSession
  <2>3. MutexInv' /\ SlotInv' /\ SampleInv' BY <1>6 DEF Join, MutexInv, SlotInv, SampleInv
  <2> QED BY <2>1, <2>2, <2>3
<1> QED BY <1>1, <1>2, <1>3, <1>4, <1>5, <1>6 DEF GraphStep

(* The steps of the receiver's thread that touch only its connection, and the phone's. *)
LEMMA ConnectionKeepsIInv ==
  ASSUME IInv,
         \/ CheckRunning \/ Connect \/ ConnectFails \/ PublishSocket \/ CheckBeforeRecv
         \/ DrainSocket \/ RecvData \/ RecvEnds \/ DecodeEnds \/ Withdraw \/ Close \/ Backoff
         \/ PhoneComesOrGoes \/ PhoneCloses
  PROVE  IInv'
<1> USE FdAssumption DEF IInv
<1> USE DEF CheckRunning, Connect, ConnectFails, PublishSocket, CheckBeforeRecv, RecvData,
            RecvEnds, DecodeEnds, Withdraw, Close, Backoff, PhoneComesOrGoes, PhoneCloses,
            DrainSocket, control, conn, store
<1>1. TypeOK'
  <2>1. listening' \in BOOLEAN
    BY Zenon DEF TypeOK
  <2>2. thread' \in ThreadStates
    BY DEF TypeOK, ThreadStates
  <2>3. /\ socket' \in Fds \cup {NoFd} /\ fd' \in Fds \cup {NoFd}
        /\ open' \subseteq Fds /\ down' \subseteq open'
    BY DEF TypeOK
  <2>4. UNCHANGED <<running, graph, target, starts, store, frame, sample>>
    OBVIOUS
  <2>5. buffered' \subseteq Atomics /\ overtaken' \subseteq Atomics
    BY DEF TypeOK, Atomics, Overtaking
  <2> QED BY <2>1, <2>2, <2>3, <2>4, <2>5 DEF TypeOK
<1>2. SocketInv' BY DEF SocketInv, Disconnected, InSession
<1>3. MutexInv' /\ SlotInv' /\ SampleInv' BY DEF MutexInv, SlotInv, SampleInv
<1> QED BY <1>1, <1>2, <1>3

(* The steps of the receiver's thread that bring a frame into the store. *)
LEMMA PublishKeepsIInv ==
  ASSUME IInv, DecodeFrame \/ PublishBegin \/ PublishEnd
  PROVE  IInv'
<1> USE BoundAssumption DEF IInv, TypeOK, ThreadStates, GraphStates, control, conn, store
<1>0. /\ 1 - active \in {0, 1} /\ 1 - active # active
      /\ \A i \in {0, 1} : slots[i] \in [Halves -> Frames]
      /\ \A i \in {0, 1}, h \in Halves : slots[i][h] \in Frames
  OBVIOUS
<1>1. CASE DecodeFrame
  <2>1. TypeOK' BY <1>1 DEF DecodeFrame, Frames
  <2>2. SocketInv' /\ MutexInv'
    BY <1>1 DEF DecodeFrame, SocketInv, MutexInv, Disconnected, InSession
  <2>3. slots[active][1] <= frame + 1 /\ slots[active][1] < frame + 1
    BY <1>0 DEF SlotInv, Frames, Halves
  <2>4. SlotInv' /\ SampleInv'
    BY <1>1, <2>3 DEF DecodeFrame, SlotInv, SampleInv
  <2> QED BY <2>1, <2>2, <2>4
<1>2. CASE PublishBegin
  <2>1. TypeOK' BY <1>0, <1>2 DEF PublishBegin, Halves
  <2>2. SocketInv' /\ MutexInv'
    BY <1>2 DEF PublishBegin, SocketInv, MutexInv, Disconnected, InSession
  <2>3. slots'[active] = slots[active] /\ slots'[1 - active][1] = frame
    BY <1>0, <1>2 DEF PublishBegin, Halves
  <2>4. SlotInv' /\ SampleInv'
    BY <1>2, <2>3 DEF PublishBegin, SlotInv, SampleInv
  <2> QED BY <2>1, <2>2, <2>4
<1>3. CASE PublishEnd
  <2>1. TypeOK' BY <1>0, <1>3 DEF PublishEnd, Halves
  <2>2. SocketInv' /\ MutexInv'
    BY <1>3 DEF PublishEnd, SocketInv, MutexInv, Disconnected, InSession
  <2>3. slots'[active'][1] = slots[1 - active][1] /\ slots'[active'][2] = frame
    BY <1>0, <1>3 DEF PublishEnd, Halves
  <2>4. slots'[active'][1] = frame
    BY <1>3, <2>3 DEF PublishEnd, SlotInv
  <2>5. frame \in Nat /\ sample[1] \in Nat /\ slots[active][1] \in Nat
    BY <1>0 DEF Frames, Halves
  <2>6. SlotInv'
    BY <1>3, <2>3, <2>4, <2>5 DEF PublishEnd, SlotInv
  <2>7. graph # "copying"
    BY <1>3 DEF PublishEnd, MutexInv
  <2>8. SampleInv'
    BY <1>3, <2>4, <2>5, <2>7 DEF PublishEnd, SampleInv, SlotInv
  <2> QED BY <2>1, <2>2, <2>6, <2>8
<1> QED BY <1>1, <1>2, <1>3

LEMMA NextIInv == IInv /\ [Next]_vars => IInv'
<1> SUFFICES ASSUME IInv, [Next]_vars PROVE IInv'
  OBVIOUS
<1>1. CASE Start \/ FillBlack \/ FillBegin \/ StopStore \/ GraphStep
  BY <1>1, GraphKeepsIInv
<1>2. CASE ReceiverStep \/ DrainSocket \/ RecvData \/ PhoneComesOrGoes \/ PhoneCloses
  BY <1>2, ConnectionKeepsIInv, PublishKeepsIInv DEF ReceiverStep
<1>3. CASE UNCHANGED vars
  BY <1>3 DEF vars, control, conn, store, IInv, TypeOK, SocketInv, MutexInv, SlotInv,
              SampleInv
<1> QED BY <1>1, <1>2, <1>3 DEF Next

LEMMA Invariance == Spec => []IInv
BY InitIInv, NextIInv, PTL DEF Spec

-----------------------------------------------------------------------------
(* The theorems. *)

(* Every variable of the filter keeps its type. *)
THEOREM TypeCorrectness == Spec => []TypeOK
<1>1. IInv => TypeOK
  BY DEF IInv
<1> QED BY <1>1, Invariance, PTL

(* socket_ names an open socket or none, and the receiver's thread closes what it opened. *)
THEOREM SocketOwnership == Spec => []SocketIsOpen
<1>1. IInv => SocketIsOpen
  BY DEF IInv, TypeOK, ThreadStates, SocketInv, SocketIsOpen, Disconnected, InSession
<1> QED BY <1>1, Invariance, PTL

(* The order of the two pairs of accesses.  When the load of socket_ has stayed behind the *)
(* store of running_, no thread enters recv after it; one that is there, and whose own load *)
(* has stayed behind its store, has been found.                                             *)
StopInv ==
  /\ "running" \in buffered => graph = "stopLoad" \/ "running" \in overtaken
  /\ graph = "stopLoad" => "running" \in buffered \/ ~running
  /\ graph \in {"stopShutdown", "join"} => ~running \/ "running" \in overtaken
  /\ thread = "recv" /\ "socket" \in buffered => "socket" \in overtaken
  /\ graph = "stopShutdown" /\ thread = "recv" /\ overtaken = {} => target = fd
  /\ JoinedThreadWakes

LEMMA StopStep ==
  ASSUME IInv, StopInv, [Next]_vars
  PROVE  StopInv'
<1> USE DEF StopInv, JoinedThreadWakes, control, conn
<1>1. CASE Start \/ FillBlack \/ FillBegin \/ FillEnd
  BY <1>1 DEF Start, FillBlack, FillBegin, FillEnd
<1>2. CASE StopStore BY <1>2 DEF StopStore
<1>3. CASE DrainStore BY <1>3 DEF DrainStore
<1>4. CASE StopLoad
  <2>1. /\ graph = "stopLoad" /\ overtaken' = Overtaking("running")
        /\ target' = socket /\ graph' = IF socket = NoFd THEN "join" ELSE "stopShutdown"
        /\ UNCHANGED <<running, buffered, thread, fd, down>>
    BY <1>4 DEF StopLoad
  <2>2. thread = "recv" /\ "socket" \notin buffered => socket = fd /\ socket # NoFd
    BY FdAssumption DEF IInv, SocketInv, InSession
  <2>3. /\ "running" \in overtaken' <=> "running" \in buffered
        /\ "socket" \in overtaken' <=> "socket" \in overtaken
    BY <2>1 DEF Overtaking
  <2> QED BY <2>1, <2>2, <2>3
<1>5. CASE StopShutdown
  <2>1. /\ graph = "stopShutdown" /\ graph' = "join" /\ "running" \notin buffered
        /\ down' = down \cup ({target} \cap open)
        /\ UNCHANGED <<running, buffered, overtaken, thread, fd>>
    BY <1>5 DEF StopShutdown
  <2>2. thread = "recv" => open = {fd} BY DEF IInv, SocketInv, InSession
  <2> QED BY <2>1, <2>2
<1>6. CASE Join BY <1>6 DEF Join
<1>7. CASE CheckBeforeRecv
  <2>1. /\ thread' \in IF running THEN {"recv", "ending"} ELSE {"ending"}
        /\ overtaken' = Overtaking("socket")
        /\ UNCHANGED <<running, buffered, graph, target, fd, down>>
    BY <1>7 DEF CheckBeforeRecv
  <2>2. /\ "socket" \in overtaken' <=> "socket" \in buffered
        /\ "running" \in overtaken' <=> "running" \in overtaken
    BY <2>1 DEF Overtaking
  <2> QED BY <2>1, <2>2
<1>8. CASE PublishSocket
  <2>1. /\ thread' = "session" /\ buffered' = buffered \cup {"socket"}
        /\ UNCHANGED <<running, overtaken, graph>>
    BY <1>8 DEF PublishSocket
  <2> QED BY <2>1
<1>9. CASE \/ CheckRunning \/ Connect \/ ConnectFails \/ RecvData \/ RecvEnds
           \/ DecodeFrame \/ DecodeEnds \/ PublishBegin \/ PublishEnd \/ Withdraw \/ Close
           \/ Backoff
  <2>1. thread' # "recv" /\ UNCHANGED control
    BY <1>9 DEF CheckRunning, Connect, ConnectFails, RecvData, RecvEnds,
       DecodeFrame, DecodeEnds, PublishBegin, PublishEnd, Withdraw, Close, Backoff
  <2> QED BY <2>1
<1>10. CASE DrainSocket BY <1>10 DEF DrainSocket
<1>11. CASE PhoneComesOrGoes BY <1>11 DEF PhoneComesOrGoes
<1>12. CASE PhoneCloses
  <2>1. UNCHANGED <<control, fd, thread>> /\ down \subseteq down' BY <1>12 DEF PhoneCloses
  <2> QED BY <2>1
<1>13. CASE UNCHANGED vars BY <1>13 DEF vars
<1> QED BY <1>1, <1>2, <1>3, <1>4, <1>5, <1>6, <1>7, <1>8, <1>9, <1>10, <1>11, <1>12, <1>13
        DEF Next, GraphStep, ReceiverStep

(* With the accesses the code has, stop() joins no thread that sits in recv on a socket still *)
(* up, however it meets a session that ends, begins or takes the same handle, unless a load   *)
(* overtook the store before it in its thread (virtual_camera.cpp:61-66, 125-133).            *)
THEOREM Waking == Spec => []JoinedThreadWakes
<1>1. Init => StopInv BY DEF Init, StopInv, JoinedThreadWakes
<1>2. IInv /\ StopInv /\ [Next]_vars => StopInv' BY StopStep
<1>3. StopInv => JoinedThreadWakes BY DEF StopInv
<1> QED BY <1>1, <1>2, <1>3, Invariance, PTL DEF Spec

LEMMA StoreTypes ==
  ASSUME IInv
  PROVE  /\ sample \in [Halves -> Frames] /\ sample[1] \in Nat /\ sample[2] \in Nat
         /\ frame \in Nat /\ slots[active][1] \in Nat
         /\ slots[active][1] = slots[active][2]
         /\ 1 - active \in {0, 1} /\ 1 - active # active
BY DEF IInv, TypeOK, SlotInv, Halves, Frames

LEMMA Image ==
  ASSUME NEW s \in [Halves -> Frames], NEW n, s[1] = n, s[2] = n
  PROVE  s = Store!PictureOf(n)
BY DEF Store!PictureOf, Halves

(* Each step of the store is one of the register's, or none: a read happens when its copy *)
(* ends, and a frame is published when its slot becomes the active one.                   *)
LEMMA RegisterStep ==
  ASSUME IInv, [Next]_vars
  PROVE  [Store!Next]_(Store!vars)
<1> DEFINE newest == slots[active][1]
           picture == IF graph = "copying" THEN [h \in Halves |-> sample[2]] ELSE sample
<1>0. /\ sample \in [Halves -> Frames] /\ sample[1] \in Nat /\ sample[2] \in Nat
      /\ frame \in Nat /\ newest \in Nat /\ slots[active][2] = newest
      /\ 1 - active \in {0, 1} /\ 1 - active # active
      /\ sample' \in [Halves -> Frames]
  BY StoreTypes, NextIInv DEF IInv, TypeOK
<1>1. CASE FillBlack
  <2>1. newest = 0 BY <1>1 DEF FillBlack, IInv, SlotInv
  <2>2. /\ graph # "copying" /\ graph' = graph /\ UNCHANGED <<slots, active>>
        /\ sample' = [h \in Halves |-> 0]
    BY <1>1 DEF FillBlack, control, store
  <2>3. newest' = newest /\ picture' = Store!PictureOf(newest)
    BY <2>1, <2>2 DEF Store!PictureOf
  <2> QED BY <2>3 DEF Store!Next, Store!Read
<1>2. CASE FillBegin
  <2>1. /\ graph = "filling" /\ graph' = "copying" /\ UNCHANGED <<slots, active>>
        /\ sample' = [sample EXCEPT ![1] = slots[active][1]]
    BY <1>2 DEF FillBegin
  <2>2. sample[1] = sample[2] BY <2>1 DEF IInv, SampleInv
  <2>3. sample'[2] = sample[2] BY <1>0, <2>1 DEF Halves
  <2>4. sample = [h \in Halves |-> sample[2]] BY <1>0, <2>2 DEF Halves
  <2>5. newest' = newest /\ picture' = picture BY <2>1, <2>3, <2>4
  <2> QED BY <2>5 DEF Store!vars
<1>3. CASE FillEnd
  <2>1. /\ graph = "copying" /\ graph' = "filling" /\ UNCHANGED <<slots, active>>
        /\ sample' = [sample EXCEPT ![2] = slots[active][2]]
    BY <1>3 DEF FillEnd
  <2>2. sample[1] = newest BY <2>1 DEF IInv, SampleInv
  <2>3. sample'[1] = newest /\ sample'[2] = newest BY <1>0, <2>1, <2>2 DEF Halves
  <2>4. sample' = Store!PictureOf(newest) BY <1>0, <2>3, Image
  <2>5. newest' = newest /\ picture' = Store!PictureOf(newest) BY <2>1, <2>4
  <2> QED BY <2>5 DEF Store!Next, Store!Read
<1>4. CASE PublishBegin
  <2>1. /\ graph' = graph /\ sample' = sample /\ active' = active
        /\ slots' = [slots EXCEPT ![1 - active][1] = frame]
    BY <1>4 DEF PublishBegin, control
  <2>2. slots'[active] = slots[active] BY <1>0, <2>1 DEF IInv, TypeOK
  <2>3. newest' = newest /\ picture' = picture BY <2>1, <2>2
  <2> QED BY <2>3 DEF Store!vars
<1>5. CASE PublishEnd
  <2>1. /\ graph' = graph /\ sample' = sample /\ active' = 1 - active /\ thread = "publishing"
        /\ slots' = [slots EXCEPT ![1 - active][2] = frame]
    BY <1>5 DEF PublishEnd, control
  <2>2. slots'[1 - active][1] = slots[1 - active][1] BY <1>0, <2>1 DEF IInv, TypeOK, Halves
  <2>3. slots[1 - active][1] = frame /\ newest < frame BY <2>1 DEF IInv, SlotInv
  <2>4. newest' = frame /\ picture' = picture BY <2>1, <2>2, <2>3
  <2>5. newest' \in Nat /\ newest' > newest BY <1>0, <2>3, <2>4
  <2> QED BY <2>4, <2>5 DEF Store!Next, Store!Publish
<1>6. ASSUME UNCHANGED <<slots, active, sample>>, (graph' = "copying") <=> (graph = "copying")
      PROVE  UNCHANGED Store!vars
  BY <1>6 DEF Store!vars
<1>7. \/ FillBlack \/ FillBegin \/ FillEnd \/ PublishBegin \/ PublishEnd
      \/ UNCHANGED <<slots, active, sample>> /\ ((graph' = "copying") <=> (graph = "copying"))
  <2>1. CASE Start \/ StopStore \/ DrainStore \/ StopLoad \/ StopShutdown \/ Join
    BY <2>1 DEF Start, StopStore, DrainStore, StopLoad, StopShutdown, Join, store, control
  <2>2. CASE \/ CheckRunning \/ Connect \/ ConnectFails \/ PublishSocket \/ CheckBeforeRecv
             \/ DrainSocket \/ RecvData \/ RecvEnds \/ DecodeEnds \/ Withdraw \/ Close \/ Backoff
             \/ PhoneComesOrGoes \/ PhoneCloses \/ DecodeFrame
    BY <2>2 DEF CheckRunning, Connect, ConnectFails, PublishSocket, CheckBeforeRecv, RecvData,
       RecvEnds, DecodeEnds, Withdraw, Close, Backoff, PhoneComesOrGoes, PhoneCloses,
       DecodeFrame, DrainSocket, store, control
  <2>3. CASE UNCHANGED vars BY <2>3 DEF vars, store, control
  <2> QED BY <2>1, <2>2, <2>3 DEF Next, GraphStep, ReceiverStep
<1> QED BY <1>1, <1>2, <1>3, <1>4, <1>5, <1>6, <1>7

(* Under any interleaving of decoder and graph, across sessions and restarts, a finished    *)
(* sample is the newest frame of the moment its copy ended, whole: the two slots, their      *)
(* mutex and hasFrame_ make a register that reads and writes at once (frame_store.h:9-10).   *)
THEOREM Register == Spec => ImplementsLatestFrame
<1>1. Init => Store!Init
  BY DEF Init, Store!Init, Store!PictureOf, Halves
<1>2. IInv /\ [Next]_vars => [Store!Next]_(Store!vars) BY RegisterStep
<1> QED BY <1>1, <1>2, Invariance, PTL DEF Spec, ImplementsLatestFrame, Store!Spec

=============================================================================
