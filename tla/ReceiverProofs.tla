--------------------------- MODULE ReceiverProofs ---------------------------
(***************************************************************************)
(* What Receiver promises for connections of any length and any number of  *)
(* unread packets: its type, that a relayed session is one run of packets  *)
(* that starts at an IDR, and that nothing of a session outlives it,       *)
(* whichever of its exits it takes.                                        *)
(***************************************************************************)
EXTENDS Receiver, TLAPS

-----------------------------------------------------------------------------
(* The invariant. *)

Last == taken[Len(taken)]

(* The unread packets are the last that were sent, in order. *)
WireInv ==
  /\ \A i \in 1..Len(wire) : wire[i].n + Len(wire) = sent + i
  /\ pc = "body" => wire # <<>> /\ packet = wire[1]
  /\ pc \in {"gate", "consume", "makeRoom"} => packet \in Readable /\ packet.n + Len(wire) = sent

(* What a relaying session knows of the packets it has read: before the gate has opened   *)
(* nothing was taken; since then the packet before the next one to read, or before the one *)
(* in hand, was.                                                                           *)
ProgramInv ==
  /\ waiting => taken = <<>>
  /\ relayMode => pc \notin {"makeRoom", "drain"}
  /\ pc = "allocate" => waiting
  /\ relayMode /\ pc \in {"allocate", "header", "body", "gate", "consume", "unref"} =>
       consumer = "relay"
  /\ relayMode /\ ~waiting /\ pc \in {"unref", "header", "body"} =>
       taken # <<>> /\ Last.n + Len(wire) = sent
  /\ relayMode /\ ~waiting /\ pc = "gate" => taken # <<>> /\ Last.n + 1 = packet.n
  /\ pc \in {"consume", "makeRoom"} => ~waiting
  /\ relayMode /\ pc = "consume" =>
       IF taken = <<>> THEN packet.kind = "idr" ELSE Last.n + 1 = packet.n

(* Which resources may exist at which points: the socket from connecting to main's        *)
(* closesocket, a decoder until it is freed, after the loop or where the allocation fails, *)
(* a relay until the function returns, the buffers from their allocation to the end of the *)
(* loop, and a payload only from a header to the next.                                     *)
ResourceInv ==
  /\ pc \in {"connect", "fallback", "sleep"} => ~connected
  /\ pc \in {"connect", "fallback", "open", "close", "sleep"} => consumer = "none"
  /\ pc = "return" => consumer # "decoder"
  /\ pc \in {"connect", "fallback", "open", "allocate", "return", "close", "sleep"} => buffers = {}
  /\ pc = "header" => "payload" \notin buffers

IInv ==
  /\ TypeOK /\ WireInv /\ ProgramInv
  /\ StartsAtIdr /\ RelayedWithoutGap

(* Every action but those that read a packet or give it to the consumer. *)
Connecting ==
  ConnectUsb \/ UsbFails \/ ConnectNet \/ NetFails \/ Sleep \/ OpenConsumer \/ RelayOpenFails
Ending ==
  \/ AllocationFails \/ RefuseHeader \/ HeaderMissing \/ BodyMissing \/ RelayFails
  \/ Release \/ Return \/ Close
Passing ==
  \/ AllocateBuffers \/ SkipDelta \/ Admit
  \/ Discard \/ DecodeFails \/ DecoderFull \/ DecodeAgainFails \/ Drain \/ UnrefPacket

-----------------------------------------------------------------------------
(* The invariant holds at first and is kept by every step. *)

LEMMA PacketFacts ==
  /\ \A p \in Packets : p.n \in Nat
  /\ \A p \in Readable : p \in Packets /\ p.n \in Nat
BY BoundAssumption DEF Packets, Readable, Kinds

LEMMA InitIInv == Init => IInv
<1> SUFFICES ASSUME Init PROVE IInv
  OBVIOUS
<1>1. TypeOK
  <2>1. relayMode \in BOOLEAN /\ connected \in BOOLEAN /\ closed \in BOOLEAN
        /\ waiting \in BOOLEAN /\ undrained \in BOOLEAN
    BY ModeAssumption, Zenon DEF Init
  <2>2. sent \in 0..MaxPackets /\ host \in Hosts /\ phone \subseteq Transports
    BY BoundAssumption, HostAssumption DEF Init, UsbNetworkHost, Transports
  <2> QED BY <2>1, <2>2 DEF Init, TypeOK, Points
<1>2. WireInv /\ ProgramInv /\ StartsAtIdr /\ RelayedWithoutGap
  BY DEF Init, WireInv, ProgramInv, StartsAtIdr, RelayedWithoutGap
<1> QED BY <1>1, <1>2 DEF IInv

LEMMA ConnectingKeepsIInv == ASSUME IInv, Connecting PROVE IInv'
<1> USE DEF IInv, TypeOK, Connecting, ConnectUsb, UsbFails, ConnectNet, NetFails, Sleep, OpenConsumer,
            Consumers, RelayOpenFails, Opened, Connected, session, tcp, options
<1>1. TypeOK'
  <2>1. connected' \in BOOLEAN /\ closed' \in BOOLEAN /\ waiting' \in BOOLEAN
        /\ undrained' \in BOOLEAN
    BY Zenon
  <2>2. pc' \in Points /\ consumer' \in {"none", "relay", "decoder"}
    BY DEF Points
  <2>3. sent' \in 0..MaxPackets
    BY BoundAssumption
  <2>4. wire' \in Seq(Packets) /\ taken' \in Seq(Readable)
    <3>1. (wire' = <<>> \/ wire' = wire) /\ (taken' = <<>> \/ taken' = taken)
      OBVIOUS
    <3>2. <<>> \in Seq(Packets) /\ <<>> \in Seq(Readable)
      OBVIOUS
    <3> QED BY <3>1, <3>2
  <2>5. UNCHANGED <<relayMode, host, phone, packet, buffers>>
    OBVIOUS
  <2> QED BY <2>1, <2>2, <2>3, <2>4, <2>5
<1>2. WireInv' BY DEF WireInv
<1>3. ProgramInv' BY DEF ProgramInv
<1>4. StartsAtIdr' /\ RelayedWithoutGap' BY DEF StartsAtIdr, RelayedWithoutGap
<1> QED BY <1>1, <1>2, <1>3, <1>4

LEMMA EndingKeepsIInv == ASSUME IInv, Ending PROVE IInv'
<1> USE DEF IInv, TypeOK, Ending, AllocationFails, RefuseHeader, HeaderMissing, BodyMissing,
            RelayFails, Release, Return, Close, Unref, FreeDecoder,
            session, tcp, options
<1>1. TypeOK'
  <2>1. connected' \in BOOLEAN
    BY Zenon
  <2>2. wire' \in Seq(Packets)
    <3>1. wire' = <<>> \/ wire' = wire
      OBVIOUS
    <3>2. wire \in Seq(Packets) /\ <<>> \in Seq(Packets)
      OBVIOUS
    <3> QED BY <3>1, <3>2, Zenon
  <2>3. pc' \in Points /\ consumer' \in {"none", "relay", "decoder"} /\ buffers' \subseteq Buffers
    BY DEF Points
  <2>4. UNCHANGED <<relayMode, host, phone, sent, closed, packet, waiting, undrained, taken>>
    OBVIOUS
  <2> QED BY <2>1, <2>2, <2>3, <2>4
<1>2. WireInv' BY DEF WireInv
<1>3. ProgramInv' BY DEF ProgramInv, Last
<1>4. StartsAtIdr' /\ RelayedWithoutGap' BY DEF StartsAtIdr, RelayedWithoutGap
<1> QED BY <1>1, <1>2, <1>3, <1>4

LEMMA PassingKeepsIInv == ASSUME IInv, Passing PROVE IInv'
<1> USE DEF IInv
<1>1. /\ UNCHANGED <<relayMode, host, phone, connected, sent, wire, closed, packet, consumer, taken>>
      /\ pc' \in {"header", "consume", "makeRoom", "unref"}
      /\ buffers' \in {buffers, buffers \ {"payload"}, {"packet", "frame"}}
  BY DEF Passing, AllocateBuffers, SkipDelta, Admit, Discard, DecodeFails, DecoderFull,
         DecodeAgainFails, Drain, UnrefPacket, Unref, session, tcp, options
<1>2. TypeOK'
  <2>1. waiting' \in BOOLEAN /\ undrained' \in BOOLEAN
    BY Zenon DEF TypeOK, Passing, AllocateBuffers, SkipDelta, Admit, Discard, DecodeFails,
                 DecoderFull, DecodeAgainFails, Drain, UnrefPacket, Unref, session
  <2>2. buffers' \subseteq Buffers
    BY <1>1 DEF TypeOK, Buffers
  <2> QED BY <1>1, <2>1, <2>2 DEF TypeOK, Points
<1>3. pc' \in {"consume", "makeRoom"} => pc \in {"gate", "consume", "makeRoom"} /\ ~waiting'
  BY DEF Passing, AllocateBuffers, SkipDelta, Admit, Discard, DecodeFails, DecoderFull,
         DecodeAgainFails, Drain, UnrefPacket, Unref, session, ProgramInv
<1>4. WireInv' BY <1>1, <1>3 DEF WireInv
<1>5. StartsAtIdr' /\ RelayedWithoutGap' BY <1>1 DEF StartsAtIdr, RelayedWithoutGap
<1>6. ProgramInv'
  <2>1. CASE SkipDelta
    BY <1>1, <2>1 DEF SkipDelta, Unref, ProgramInv, Last
  <2>2. CASE Admit
    BY <1>1, <2>2 DEF Admit, ProgramInv, Last
  <2>3. CASE Discard \/ DecodeFails \/ DecoderFull \/ DecodeAgainFails \/ Drain
    <3>1. ~relayMode /\ waiting' = waiting
      BY <2>3 DEF Discard, DecodeFails, DecoderFull, DecodeAgainFails, Drain, session, ProgramInv
    <3> QED BY <1>1, <1>3, <3>1 DEF ProgramInv
  <2>4. CASE AllocateBuffers
    BY <1>1, <2>4 DEF AllocateBuffers, ProgramInv, Last
  <2>5. CASE UnrefPacket
    BY <1>1, <2>5 DEF UnrefPacket, Unref, ProgramInv, Last
  <2> QED BY <2>1, <2>2, <2>3, <2>4, <2>5 DEF Passing
<1> QED BY <1>2, <1>4, <1>5, <1>6

LEMMA ReadingKeepsIInv == ASSUME IInv, ReadHeader \/ ReadBody PROVE IInv'
<1> USE DEF IInv, session, tcp, options
<1>1. CASE ReadHeader
  <2> USE <1>1 DEF ReadHeader
  <2>1. wire # <<>> /\ wire \in Seq(Packets) /\ Head(wire) = wire[1] /\ Head(wire) \in Packets
    BY DEF TypeOK
  <2>2. packet' \in Readable
    BY <2>1 DEF Packets, Readable
  <2>3. TypeOK' BY <2>2 DEF TypeOK, Points, Buffers
  <2>4. WireInv' BY <2>1 DEF WireInv
  <2>5. ProgramInv' BY DEF ProgramInv, Last
  <2>6. StartsAtIdr' /\ RelayedWithoutGap' BY DEF StartsAtIdr, RelayedWithoutGap
  <2> QED BY <2>3, <2>4, <2>5, <2>6
<1>2. CASE ReadBody
  <2> USE <1>2 DEF ReadBody
  <2>1. /\ wire # <<>> /\ wire \in Seq(Packets) /\ packet = wire[1]
        /\ sent \in Nat /\ Len(wire) \in Nat /\ Len(wire) >= 1
        /\ packet \in Readable /\ packet.n \in Nat
        /\ packet.n + Len(wire) = sent + 1
    <3>1. wire # <<>> /\ wire \in Seq(Packets) /\ packet = wire[1] /\ Len(wire) >= 1 /\ sent \in Nat
      BY DEF TypeOK, WireInv
    <3>2. wire[1].n + Len(wire) = sent + 1 /\ wire[1] \in Packets
      BY <3>1 DEF WireInv
    <3>3. packet \in Readable
      BY <3>1, <3>2 DEF TypeOK, Packets, NoPacket
    <3> QED BY <3>1, <3>2, <3>3 DEF Readable
  <2>2. /\ wire' = Tail(wire) /\ wire' \in Seq(Packets) /\ Len(wire') + 1 = Len(wire)
        /\ Len(wire') \in Nat
        /\ \A i \in 1..Len(wire') : wire'[i] = wire[i + 1]
    BY <2>1
  <2>3. TypeOK' BY <2>2 DEF TypeOK, Points
  <2>4. WireInv'
    <3>1. ASSUME NEW i \in 1..Len(wire') PROVE wire'[i].n + Len(wire') = sent + i
      <4>1. i \in Nat /\ i + 1 \in 1..Len(wire)
        BY <2>1, <2>2
      <4>0. wire[i + 1] \in Packets /\ wire[i + 1].n \in Nat
        BY <2>1, <4>1, PacketFacts
      <4>2. wire[i + 1].n + Len(wire) = sent + (i + 1)
        BY <4>1 DEF WireInv
      <4>3. wire'[i] = wire[i + 1]
        BY <2>2
      <4>4. wire'[i].n = wire[i + 1].n
        BY <4>3
      <4> HIDE <1>2 DEF ReadBody, IInv
      <4> QED BY <2>1, <2>2, <4>0, <4>1, <4>2, <4>4
    <3>2. packet.n + Len(wire') = sent
      BY <2>1, <2>2
    <3> QED BY <2>1, <3>1, <3>2 DEF WireInv
  <2>5. relayMode /\ ~waiting => taken # <<>> /\ Last.n + Len(wire) = sent /\ Last \in Readable
    BY DEF ProgramInv, TypeOK, Last
  <2>6. relayMode /\ ~waiting => taken # <<>> /\ Last.n + 1 = packet.n
    BY <2>1, <2>5 DEF Readable
  <2>7. ProgramInv' BY <2>6 DEF ProgramInv, Last
  <2>8. StartsAtIdr' /\ RelayedWithoutGap' BY DEF StartsAtIdr, RelayedWithoutGap
  <2> QED BY <2>3, <2>4, <2>7, <2>8
<1> QED BY <1>1, <1>2

LEMMA TakingKeepsIInv == ASSUME IInv, Relay \/ Decode \/ DecodeAgain PROVE IInv'
<1> USE DEF IInv, session, tcp, options
<1>1. CASE Relay
  <2> USE <1>1 DEF Relay
  <2>1. taken \in Seq(Readable) /\ packet \in Readable /\ Len(taken) \in Nat
        /\ packet.n + Len(wire) = sent
    BY DEF TypeOK, WireInv
  <2>2. /\ taken' \in Seq(Readable) /\ Len(taken') = Len(taken) + 1
        /\ \A i \in 1..Len(taken) : taken'[i] = taken[i]
        /\ taken'[Len(taken) + 1] = packet /\ taken' # <<>>
    BY <2>1
  <2>3. TypeOK' BY <2>2 DEF TypeOK, Points
  <2>4. WireInv' BY DEF WireInv
  <2>5. ~waiting
    BY DEF ProgramInv
  <2>6. Last' = packet
    BY <2>2 DEF Last
  <2>7. ProgramInv'
    BY <2>1, <2>2, <2>5, <2>6 DEF ProgramInv
  <2>8. StartsAtIdr'
    <3>1. CASE taken = <<>>
      <4>1. relayMode => packet.kind = "idr"
        BY <3>1 DEF ProgramInv
      <4>2. taken'[1] = packet
        BY <2>2, <3>1
      <4> QED BY <4>1, <4>2 DEF StartsAtIdr
    <3>2. CASE taken # <<>>
      <4>1. 1 \in 1..Len(taken)
        BY <2>1, <3>2
      <4> QED BY <2>2, <3>2, <4>1 DEF StartsAtIdr
    <3> QED BY <3>1, <3>2
  <2>9. RelayedWithoutGap'
    <3> SUFFICES ASSUME relayMode, NEW i \in 1..Len(taken)
                 PROVE  taken'[i + 1].n = taken'[i].n + 1
      BY <2>1, <2>2 DEF RelayedWithoutGap
    <3>1. CASE i < Len(taken)
      <4>1. i \in 1..(Len(taken) - 1) /\ i + 1 \in 1..Len(taken)
        BY <2>1, <3>1
      <4> QED BY <2>2, <4>1 DEF RelayedWithoutGap
    <3>2. CASE i = Len(taken)
      <4>1. Last.n + 1 = packet.n
        BY <2>1, <3>2 DEF ProgramInv
      <4>2. taken'[i + 1] = packet /\ taken'[i] = Last
        BY <2>2, <3>2 DEF Last
      <4> QED BY <4>1, <4>2
    <3> QED BY <2>1, <3>1, <3>2
  <2> QED BY <2>3, <2>4, <2>7, <2>8, <2>9
<1>2. CASE Decode \/ DecodeAgain
  <2> USE <1>2 DEF Decode, DecodeAgain, Accepted
  <2>1. ~relayMode
    BY DEF ProgramInv
  <2>2. packet \in Readable /\ taken \in Seq(Readable)
    BY DEF TypeOK, WireInv
  <2>3. taken' \in Seq(Readable)
    BY <2>2
  <2>4. undrained' \in BOOLEAN
    BY Zenon DEF TypeOK
  <2>5. TypeOK' BY <2>3, <2>4 DEF TypeOK, Points
  <2>6. WireInv' BY DEF WireInv
  <2>7. ~waiting'
    BY <1>2 DEF ProgramInv, TypeOK
  <2>8. ProgramInv' BY <2>1, <2>7 DEF ProgramInv
  <2>9. StartsAtIdr' /\ RelayedWithoutGap' BY <2>1 DEF StartsAtIdr, RelayedWithoutGap
  <2> QED BY <2>5, <2>6, <2>8, <2>9
<1> QED BY <1>1, <1>2

LEMMA PhoneKeepsIInv == ASSUME IInv, PhoneStep PROVE IInv'
<1> USE DEF IInv, session, tcp, options
<1>1. CASE PhoneMoves \/ PhoneCloses
  <2> USE <1>1 DEF PhoneMoves, PhoneCloses
  <2>1. phone' \subseteq Transports /\ sent' = sent /\ wire' = wire
    BY DEF TypeOK
  <2>2. closed' \in BOOLEAN
    BY Zenon DEF TypeOK
  <2>3. TypeOK' BY <2>1, <2>2 DEF TypeOK
  <2>4. WireInv' /\ ProgramInv' BY DEF WireInv, ProgramInv, Last
  <2>5. StartsAtIdr' /\ RelayedWithoutGap' BY DEF StartsAtIdr, RelayedWithoutGap
  <2> QED BY <2>3, <2>4, <2>5
<1>2. CASE PhoneSends
  <2> USE <1>2 DEF PhoneSends
  <2>1. PICK k \in Kinds : wire' = Append(wire, [n |-> sent + 1, kind |-> k])
    OBVIOUS
  <2> DEFINE new == [n |-> sent + 1, kind |-> k]
  <2>2. new \in Packets /\ new.n = sent + 1 /\ sent \in Nat /\ wire \in Seq(Packets)
        /\ Len(wire) \in Nat
    BY BoundAssumption DEF Packets, TypeOK
  <2>3. /\ wire' \in Seq(Packets) /\ Len(wire') = Len(wire) + 1
        /\ \A i \in 1..Len(wire) : wire'[i] = wire[i]
        /\ wire'[Len(wire) + 1] = new /\ wire' # <<>>
    BY <2>1, <2>2
  <2> HIDE DEF new
  <2>4. sent' = sent + 1 /\ sent' \in 0..MaxPackets
    BY <2>2, BoundAssumption DEF TypeOK
  <2>5. TypeOK' BY <2>3, <2>4 DEF TypeOK
  <2>6. WireInv'
    <3>1. ASSUME NEW i \in 1..Len(wire') PROVE wire'[i].n + Len(wire') = sent' + i
      <4>1. CASE i \in 1..Len(wire)
        <5>1. wire[i] \in Packets /\ wire[i].n \in Nat
          BY <2>2, <4>1, PacketFacts
        <5>2. wire[i].n + Len(wire) = sent + i
          BY <4>1 DEF WireInv
        <5>3. wire'[i] = wire[i] /\ i \in Nat
          BY <2>3, <4>1
        <5>4. wire'[i].n = wire[i].n
          BY <5>3
        <5>5. Len(wire') = Len(wire) + 1 /\ Len(wire) \in Nat /\ sent \in Nat /\ sent' = sent + 1
          BY <2>2, <2>3, <2>4
        <5> HIDE <1>2 DEF PhoneSends, IInv
        <5> QED BY <5>1, <5>2, <5>3, <5>4, <5>5
      <4>2. CASE i = Len(wire) + 1
        BY <2>2, <2>3, <2>4, <4>2
      <4> QED BY <2>2, <2>3, <4>1, <4>2
    <3>2. pc' = "body" => wire' # <<>> /\ packet' = wire'[1]
      <4> SUFFICES ASSUME pc = "body" PROVE packet = wire'[1]
        BY <2>3
      <4>1. wire # <<>> /\ packet = wire[1] /\ 1 \in 1..Len(wire)
        BY <2>2 DEF WireInv
      <4> QED BY <2>3, <4>1
    <3>3. pc' \in {"gate", "consume", "makeRoom"} => packet' \in Readable /\ packet'.n + Len(wire') = sent'
      <4> SUFFICES ASSUME pc \in {"gate", "consume", "makeRoom"}
                   PROVE  packet \in Readable /\ packet.n + Len(wire') = sent'
        OBVIOUS
      <4>1. packet \in Readable /\ packet.n \in Nat /\ packet.n + Len(wire) = sent
        BY DEF WireInv, Readable
      <4>2. Len(wire') = Len(wire) + 1 /\ Len(wire) \in Nat /\ sent \in Nat /\ sent' = sent + 1
        BY <2>2, <2>3, <2>4
      <4> HIDE <1>2 DEF PhoneSends, IInv
      <4> QED BY <4>1, <4>2
    <3> HIDE <1>2 DEF PhoneSends, IInv
    <3> QED BY <3>1, <3>2, <3>3, Zenon DEF WireInv
  <2>7. ProgramInv'
    <3>1. ASSUME relayMode, ~waiting, pc \in {"unref", "header", "body"}
          PROVE  taken # <<>> /\ Last.n + Len(wire') = sent'
      <4>1. taken # <<>> /\ Last.n + Len(wire) = sent
        BY <3>1 DEF ProgramInv
      <4>2. Last \in Readable /\ Last.n \in Nat
        <5>1. taken \in Seq(Readable) /\ Len(taken) \in 1..Len(taken)
          BY <4>1 DEF TypeOK
        <5> QED BY <5>1, PacketFacts DEF Last
      <4>3. Len(wire') = Len(wire) + 1 /\ Len(wire) \in Nat /\ sent \in Nat /\ sent' = sent + 1
        BY <2>2, <2>3, <2>4
      <4> HIDE <1>2 DEF PhoneSends, IInv
      <4> QED BY <4>1, <4>2, <4>3
    <3>2. ProgramInv /\ UNCHANGED <<relayMode, host, pc, packet, waiting, consumer, taken>>
      OBVIOUS
    <3> HIDE <1>2 DEF PhoneSends, IInv
    <3>3. Last' = Last
      BY <3>2 DEF Last
    <3>4. relayMode /\ ~waiting /\ pc = "gate" => taken # <<>> /\ Last.n + 1 = packet.n
      BY <3>2 DEF ProgramInv
    <3>5. relayMode /\ pc = "consume" =>
            IF taken = <<>> THEN packet.kind = "idr" ELSE Last.n + 1 = packet.n
      BY <3>2 DEF ProgramInv
    <3>6. /\ waiting => taken = <<>>
          /\ relayMode => pc \notin {"makeRoom", "drain"}
          /\ pc = "allocate" => waiting
          /\ relayMode /\ pc \in {"allocate", "header", "body", "gate", "consume", "unref"} =>
               consumer = "relay"
          /\ pc \in {"consume", "makeRoom"} => ~waiting
      BY <3>2 DEF ProgramInv
    <3> QED BY <3>1, <3>2, <3>3, <3>4, <3>5, <3>6, Zenon DEF ProgramInv
  <2>8. StartsAtIdr' /\ RelayedWithoutGap' BY DEF StartsAtIdr, RelayedWithoutGap
  <2> QED BY <2>5, <2>6, <2>7, <2>8
<1> QED BY <1>1, <1>2 DEF PhoneStep

LEMMA NextIInv == IInv /\ [Next]_vars => IInv'
<1> SUFFICES ASSUME IInv, [Next]_vars PROVE IInv'
  OBVIOUS
<1>1. CASE UNCHANGED vars
  BY <1>1 DEF vars, options, tcp, session, IInv, TypeOK, WireInv, ProgramInv, StartsAtIdr,
              RelayedWithoutGap, Last
<1>2. CASE PhoneStep
  BY <1>2, PhoneKeepsIInv
<1>3. CASE ReceiverStep
  BY <1>3, ConnectingKeepsIInv, EndingKeepsIInv, PassingKeepsIInv, ReadingKeepsIInv,
     TakingKeepsIInv, Zenon DEF ReceiverStep, Connecting, Ending, Passing
<1> QED BY <1>1, <1>2, <1>3 DEF Next

LEMMA Invariance == Spec => []IInv
BY InitIInv, NextIInv, PTL DEF Spec

(* No step of the thread leaves a resource behind at a point where it may not exist. *)
LEMMA ResourceStep == IInv /\ ResourceInv /\ [Next]_vars => ResourceInv'
<1> SUFFICES ASSUME IInv, ResourceInv, [Next]_vars PROVE ResourceInv'
  OBVIOUS
<1> USE DEF ResourceInv, session, tcp, options
<1>0. consumer \in {"none", "relay", "decoder"}
  BY DEF IInv, TypeOK
<1>1. CASE UNCHANGED vars
  BY <1>1 DEF vars
<1>2. CASE PhoneStep
  BY <1>2 DEF PhoneStep, PhoneMoves, PhoneSends, PhoneCloses
<1>3. CASE Connecting
  BY <1>3 DEF Connecting, ConnectUsb, UsbFails, ConnectNet, NetFails, Sleep, OpenConsumer,
              RelayOpenFails, Opened, Connected
<1>4. CASE Ending
  BY <1>0, <1>4 DEF Ending, AllocationFails, RefuseHeader, HeaderMissing, BodyMissing, RelayFails,
              Release, Return, Close, Unref, FreeDecoder
<1>5. CASE Passing
  BY <1>5 DEF Passing, AllocateBuffers, SkipDelta, Admit, Discard, DecodeFails, DecoderFull,
              DecodeAgainFails, Drain, UnrefPacket, Unref
<1>6. CASE ReadHeader \/ ReadBody \/ Relay \/ Decode \/ DecodeAgain
  BY <1>6 DEF ReadHeader, ReadBody, Relay, Decode, DecodeAgain, Accepted
<1> QED
  BY <1>1, <1>2, <1>3, <1>4, <1>5, <1>6, Zenon DEF Next, ReceiverStep, Connecting, Ending, Passing

-----------------------------------------------------------------------------
(* The theorems. *)

(* Every variable of the receiver keeps its type; no unusable packet passes the header check. *)
THEOREM TypeCorrectness == Spec => []TypeOK
<1>1. IInv => TypeOK
  BY DEF IInv
<1> QED BY <1>1, Invariance, PTL

(* The MPEG-TS program of a session starts at an IDR. *)
THEOREM FreshIdr == Spec => []StartsAtIdr
<1>1. IInv => StartsAtIdr
  BY DEF IInv
<1> QED BY <1>1, Invariance, PTL

(* The MPEG-TS program of a session has no gap. *)
THEOREM Gapless == Spec => []RelayedWithoutGap
<1>1. IInv => RelayedWithoutGap
  BY DEF IInv
<1> QED BY <1>1, Invariance, PTL

(* Every exit of a session frees what it holds there: whether the relay does not open, an    *)
(* allocation fails, or the loop is left at a header, in a frame or at a write, the socket,  *)
(* the consumer and the buffers are gone before the next attempt, and no payload is still    *)
(* held when the next is allocated (receiver.cpp:442-451, 472-541, 561-564, 608).            *)
THEOREM NoLeftovers == Spec => []SessionLeavesNothing
<1>1. Init => ResourceInv
  BY DEF Init, ResourceInv
<1>2. ResourceInv => SessionLeavesNothing
  BY DEF ResourceInv, SessionLeavesNothing
<1> QED BY <1>1, <1>2, Invariance, ResourceStep, PTL DEF Spec

=============================================================================
