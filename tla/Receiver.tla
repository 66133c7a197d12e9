------------------------------ MODULE Receiver ------------------------------
(***************************************************************************)
(* windows/receiver.cpp: one thread that for ever connects to the phone,   *)
(* serves the session and sleeps a second.  A session reads packets,       *)
(* drops them until the first IDR, and gives the rest to its consumer: the *)
(* MPEG-TS relay to OBS, or FFmpeg's decoder in front of the GPU ring.     *)
(*                                                                         *)
(* The phone and the network are the environment: the phone is reachable   *)
(* over usbmux, at an address of the tethered network, both or neither,    *)
(* and may come back at another address; on a connection it sends packets  *)
(* of any kind, or falls silent, or closes.                                *)
(* A packet is its number on the connection and its kind.  FFmpeg may      *)
(* fail wherever the code asks it for a status.                            *)
(***************************************************************************)
EXTENDS Naturals, Sequences

CONSTANTS RelayModes,  \* the values of obsUdpRelay to consider
          Hosts,       \* addresses of the tethered network
          NamedHosts,  \* those an argument or IPHONE_CAMERA_HOST may name
          DefaultHost, \* 172.20.10.1
          MaxPackets,  \* bound: packets the phone sends on a connection
          MaxUnread    \* bound: packets sent and not yet read

ASSUME ModeAssumption == RelayModes \subseteq BOOLEAN
ASSUME HostAssumption == NamedHosts \subseteq Hosts /\ DefaultHost \in Hosts /\ "usb" \notin Hosts
ASSUME BoundAssumption == MaxPackets \in Nat /\ MaxUnread \in Nat

VARIABLES
  relayMode,  \* obsUdpRelay: relay to OBS, or decode for the GPU ring
  host,       \* usbNetworkHost, looked up once, when the program starts
  phone,      \* the transports over which the phone can be reached
  connected,  \* the session's socket is open
  sent,       \* packets the phone has sent on this connection
  wire,       \* those of them not yet read
  closed,     \* the phone has closed the connection
  pc,         \* the point the program has reached
  packet,     \* packet: the last one whose header was accepted
  waiting,    \* waitingForRandomAccess
  consumer,   \* "relay", "decoder", or "none" when there is neither
  buffers,    \* of the packet, its payload and the decoded frame, those allocated
  undrained,  \* the decoder still holds output, a drain of which failed
  taken       \* what the consumer of the last session has accepted

tcp == <<phone, connected, sent, wire, closed>>
session == <<waiting, consumer, buffers, undrained, taken>>
options == <<relayMode, host>>
vars == <<options, tcp, pc, packet, session>>

Transports == {"usb"} \cup Hosts

(* "unusable": the header is invalid, or names a codec other than HEVC. *)
Kinds == {"idr", "delta", "unusable"}
Packets == [n : 1..MaxPackets, kind : Kinds]
Readable == [n : 1..MaxPackets, kind : Kinds \ {"unusable"}]
NoPacket == [n |-> 0, kind |-> "none"]

Buffers == {"packet", "payload", "frame"}

Points == {"connect", "fallback", "open", "allocate", "header", "body", "gate", "consume",
           "makeRoom", "drain", "unref", "release", "return", "close", "sleep"}

-----------------------------------------------------------------------------
(* main, up to its loop. *)

(* The host that was named, else a gateway behind an adapter of Apple's, else the default. *)
UsbNetworkHost(gateways) == NamedHosts \cup IF gateways = {} THEN {DefaultHost} ELSE gateways

Init ==
  /\ relayMode \in RelayModes
  /\ \E gateways \in SUBSET Hosts :
       /\ phone \in SUBSET ({"usb"} \cup gateways \cup NamedHosts)
       /\ host \in UsbNetworkHost(gateways)
  /\ connected = FALSE /\ sent = 0 /\ wire = <<>> /\ closed = FALSE
  /\ pc = "connect" /\ packet = NoPacket
  /\ waiting = TRUE /\ consumer = "none" /\ buffers = {} /\ undrained = FALSE
  /\ taken = <<>>

-----------------------------------------------------------------------------
(* connect_to_device. *)

Connected(transport) ==
  /\ transport \in phone
  /\ connected' = TRUE /\ sent' = 0 /\ wire' = <<>> /\ closed' = FALSE
  /\ pc' = "open"
  /\ UNCHANGED <<options, phone, packet, session>>

(* usbmuxd_connect to the first device attached by USB... *)
ConnectUsb == pc = "connect" /\ Connected("usb")

UsbOnly ==
  /\ pc = "connect" /\ "usb" \notin phone
  /\ pc' = "sleep"
  /\ UNCHANGED <<options, tcp, packet, session>>

(* ...without one, or when it refuses, the tethered network is tried... *)
UsbFails ==
  /\ pc = "connect" /\ "usb" \notin phone
  /\ pc' = "fallback"
  /\ UNCHANGED <<options, tcp, packet, session>>

(* ...with connect_tcp, bound to the adapter that has the host for its gateway, *)
ConnectNet == pc = "fallback" /\ Connected(host)

(* which closes every candidate that does not answer within two seconds. *)
NetFails ==
  /\ pc = "fallback" /\ host \notin phone
  /\ pc' = "sleep"
  /\ UNCHANGED <<options, tcp, packet, session>>

(* A second before the next attempt. *)
Sleep ==
  /\ pc = "sleep"
  /\ pc' = "connect"
  /\ UNCHANGED <<options, tcp, packet, session>>

-----------------------------------------------------------------------------
(* receive_session. *)

(* A relay program, or the decoder, which there may be none. *)
Consumers == IF relayMode THEN {"relay"} ELSE {"decoder", "none"}

Opened(to) ==
  /\ pc = "open"
  /\ waiting' = TRUE /\ undrained' = FALSE /\ taken' = <<>>
  /\ pc' = to
  /\ UNCHANGED <<options, tcp, packet, buffers>>

(* A session without a decoder goes on and consumes nothing... *)
OpenConsumer == consumer' \in Consumers /\ Opened("allocate")

(* ...one whose relay fails to open returns, with the relay half open. *)
RelayOpenFails == relayMode /\ consumer' = "relay" /\ Opened("return")

(* av_packet_alloc and av_frame_alloc. *)
AllocateBuffers ==
  /\ pc = "allocate"
  /\ buffers' = {"packet", "frame"}
  /\ pc' = "header"
  /\ UNCHANGED <<options, tcp, packet, waiting, consumer, undrained, taken>>

FreeDecoder == consumer' = IF consumer = "decoder" THEN "none" ELSE consumer

KeepsDecoder ==
  /\ pc = "allocate"
  /\ UNCHANGED consumer
  /\ pc' = "return"
  /\ UNCHANGED <<options, tcp, packet, waiting, buffers, undrained, taken>>

(* One of the two fails: the other and the decoder are freed, and the session returns. *)
AllocationFails ==
  /\ pc = "allocate"
  /\ FreeDecoder
  /\ pc' = "return"
  /\ UNCHANGED <<options, tcp, packet, waiting, buffers, undrained, taken>>

ReadHeaderUnchecked ==
  /\ pc = "header" /\ wire # <<>>
  /\ packet' = Head(wire)
  /\ buffers' = buffers \cup {"payload"}
  /\ pc' = "body"
  /\ UNCHANGED <<options, tcp, waiting, consumer, undrained, taken>>

(* read_exact of a header, which is accepted: av_new_packet makes room for its frame... *)
ReadHeader ==
  /\ pc = "header" /\ wire # <<>> /\ Head(wire).kind # "unusable"
  /\ packet' = Head(wire)
  /\ buffers' = buffers \cup {"payload"}
  /\ pc' = "body"
  /\ UNCHANGED <<options, tcp, waiting, consumer, undrained, taken>>

(* ...or refused, or there is no room... *)
RefuseHeader ==
  /\ pc = "header" /\ wire # <<>>
  /\ pc' = "release"
  /\ UNCHANGED <<options, tcp, packet, session>>

HeaderWaitsForEver ==
  /\ pc = "header" /\ wire = <<>> /\ closed
  /\ pc' = "release"
  /\ UNCHANGED <<options, tcp, packet, session>>

(* ...or does not come: the connection is closed, or five seconds have passed. *)
HeaderMissing ==
  /\ pc = "header" /\ wire = <<>>
  /\ pc' = "release"
  /\ UNCHANGED <<options, tcp, packet, session>>

(* av_packet_unref, on four lines. *)
Unref(to) ==
  /\ buffers' = buffers \ {"payload"}
  /\ pc' = to
  /\ UNCHANGED <<options, tcp, packet, waiting, consumer, undrained, taken>>

(* read_exact of the frame... *)
ReadBody ==
  /\ pc = "body"
  /\ wire' = Tail(wire)
  /\ pc' = "gate"
  /\ UNCHANGED <<options, phone, connected, sent, closed, packet, session>>

(* ...which may be cut off, or take more than five seconds. *)
BodyMissing == pc = "body" /\ Unref("release")

(* A delta frame before the session's first IDR is dropped... *)
SkipDelta == pc = "gate" /\ waiting /\ packet.kind # "idr" /\ Unref("header")

AdmitAnything ==
  /\ pc = "gate"
  /\ waiting' = FALSE /\ undrained' = IF waiting THEN FALSE ELSE undrained
  /\ pc' = "consume"
  /\ UNCHANGED <<options, tcp, packet, consumer, buffers, taken>>

(* ...that IDR opens the gate, with the decoder flushed, and it stays open. *)
Admit ==
  /\ pc = "gate" /\ (waiting => packet.kind = "idr")
  /\ waiting' = FALSE /\ undrained' = IF waiting THEN FALSE ELSE undrained
  /\ pc' = "consume"
  /\ UNCHANGED <<options, tcp, packet, consumer, buffers, taken>>

(* ObsUdpRelay::Write... *)
Relay ==
  /\ pc = "consume" /\ consumer = "relay"
  /\ taken' = Append(taken, packet)
  /\ pc' = "unref"
  /\ UNCHANGED <<options, tcp, packet, waiting, consumer, buffers, undrained>>

GoesOnWithoutIt ==
  /\ pc = "consume" /\ consumer = "relay"
  /\ pc' = IF taken = <<>> THEN "release" ELSE "unref"
  /\ UNCHANGED <<options, tcp, packet, session>>

(* ...whose failure ends the session. *)
RelayFails == pc = "consume" /\ consumer = "relay" /\ Unref("release")

(* Without a decoder the packet is only counted. *)
Discard ==
  /\ pc = "consume" /\ consumer = "none"
  /\ pc' = "unref"
  /\ UNCHANGED <<options, tcp, packet, session>>

Accepted ==
  /\ taken' = Append(taken, packet)
  /\ pc' = "drain"
  /\ UNCHANGED <<options, tcp, packet, waiting, consumer, buffers>>

(* avcodec_send_packet takes the packet... *)
Decode == pc = "consume" /\ consumer = "decoder" /\ Accepted /\ UNCHANGED undrained

(* ...or refuses it, which is only reported... *)
DecodeFails ==
  /\ pc = "consume" /\ consumer = "decoder"
  /\ pc' = "unref"
  /\ UNCHANGED <<options, tcp, packet, session>>

(* ...or is full, since a drain before failed, and must be drained first; then... *)
DecoderFull ==
  /\ pc = "consume" /\ consumer = "decoder" /\ undrained
  /\ pc' = "makeRoom"
  /\ UNCHANGED <<options, tcp, packet, session>>

(* ...the packet is sent once more... *)
DecodeAgain == pc = "makeRoom" /\ undrained' = FALSE /\ Accepted

(* ...and is lost when it is refused or when the drain fails again. *)
DecodeAgainFails ==
  /\ pc = "makeRoom"
  /\ undrained' \in BOOLEAN
  /\ pc' = "unref"
  /\ UNCHANGED <<options, tcp, packet, waiting, consumer, buffers, taken>>

(* drain_decoder: the frames go to the ring until there are no more, or an error. *)
Drain ==
  /\ pc = "drain"
  /\ undrained' \in BOOLEAN
  /\ pc' = "unref"
  /\ UNCHANGED <<options, tcp, packet, waiting, consumer, buffers, taken>>

(* The end of the loop's body. *)
UnrefPacket == pc = "unref" /\ Unref("header")

(* After the loop: the packet, with any payload, the frame and the decoder are freed. *)
Release ==
  /\ pc = "release"
  /\ buffers' = {} /\ FreeDecoder
  /\ pc' = "return"
  /\ UNCHANGED <<options, tcp, packet, waiting, undrained, taken>>

(* The session returns, which destroys the relay... *)
Return ==
  /\ pc = "return"
  /\ consumer' = IF consumer = "relay" THEN "none" ELSE consumer
  /\ pc' = "close"
  /\ UNCHANGED <<options, tcp, packet, waiting, buffers, undrained, taken>>

(* ...and main closes the socket: what was not read is lost. *)
Close ==
  /\ pc = "close"
  /\ connected' = FALSE /\ wire' = <<>>
  /\ pc' = "sleep"
  /\ UNCHANGED <<options, phone, sent, closed, packet, session>>

-----------------------------------------------------------------------------
(* The phone. *)

PhoneMoves ==
  /\ \E p \in SUBSET Transports \ {phone} : phone' = p
  /\ UNCHANGED <<options, connected, sent, wire, closed, pc, packet, session>>

PhoneSends ==
  /\ connected /\ ~closed /\ sent < MaxPackets /\ Len(wire) < MaxUnread
  /\ \E k \in Kinds : wire' = Append(wire, [n |-> sent + 1, kind |-> k])
  /\ sent' = sent + 1
  /\ UNCHANGED <<options, phone, connected, closed, pc, packet, session>>

PhoneCloses ==
  /\ connected /\ ~closed
  /\ closed' = TRUE
  /\ UNCHANGED <<options, phone, connected, sent, wire, pc, packet, session>>

-----------------------------------------------------------------------------
ReceiverStep ==
  \/ ConnectUsb \/ UsbFails \/ ConnectNet \/ NetFails \/ Sleep
  \/ OpenConsumer \/ RelayOpenFails \/ AllocateBuffers \/ AllocationFails
  \/ ReadHeader \/ RefuseHeader \/ HeaderMissing \/ ReadBody \/ BodyMissing
  \/ SkipDelta \/ Admit
  \/ Relay \/ RelayFails \/ Discard
  \/ Decode \/ DecodeFails \/ DecoderFull \/ DecodeAgain \/ DecodeAgainFails \/ Drain
  \/ UnrefPacket \/ Release \/ Return \/ Close

PhoneStep == PhoneMoves \/ PhoneSends \/ PhoneCloses

Next == ReceiverStep \/ PhoneStep

Spec == Init /\ [][Next]_vars

(* The program's thread runs and its clock advances: a read ends after five seconds, a *)
(* connection attempt after two.  Nothing is assumed of the phone.                     *)
FairSpec == Spec /\ WF_vars(ReceiverStep)

-----------------------------------------------------------------------------
(* The properties. *)

TypeOK ==
  /\ relayMode \in BOOLEAN /\ host \in Hosts /\ phone \subseteq Transports
  /\ connected \in BOOLEAN /\ closed \in BOOLEAN
  /\ sent \in 0..MaxPackets /\ wire \in Seq(Packets)
  /\ pc \in Points /\ packet \in Readable \cup {NoPacket}
  /\ waiting \in BOOLEAN /\ undrained \in BOOLEAN
  /\ consumer \in {"none", "relay", "decoder"} /\ buffers \subseteq Buffers
  /\ taken \in Seq(Readable)

(* OBS-SETUP.md:19 "starts a new MPEG-TS program with a fresh HEVC IDR": whatever packet *)
(* a connection starts with, the first one a session relays is an IDR.                    *)
StartsAtIdr == relayMode /\ taken # <<>> => taken[1].kind = "idr"

(* What a session relays, one MPEG-TS program, is one run of consecutive packets of its *)
(* own connection with none lost inside it, whatever reads, writes and connections fail: *)
(* OBS never sees a delta frame whose predecessor the receiver dropped.                  *)
RelayedWithoutGap ==
  relayMode => \A i \in 1..(Len(taken) - 1) : taken[i + 1].n = taken[i].n + 1

(* Whichever way a session ends (no relay, no buffers, a header refused or missing, a frame *)
(* cut off, a write refused), its socket, its consumer and its buffers, which go on different *)
(* lines, are gone before the next attempt; and av_new_packet, which overwrites what the     *)
(* packet points to, never meets a payload that was not given back.                          *)
SessionLeavesNothing ==
  /\ pc \in {"connect", "fallback", "sleep"} => ~connected /\ consumer = "none" /\ buffers = {}
  /\ pc = "header" => "payload" \notin buffers

(* receiver.cpp:376 "Require IDR (NAL 19/20) [...]: only IDR guarantees a decoder joining *)
(* mid-stream needs no earlier reference picture": the first packet the decoder accepts   *)
(* in a session is an IDR.                                                                *)
DecoderJoinsAtIdr == taken # <<>> => taken[1].kind = "idr"

(* A session cannot wedge the program: from every point it goes on to another packet or *)
(* to another attempt to connect.                                                       *)
NeverWedged == pc \notin {"connect", "gate"} ~> pc \in {"connect", "gate"}

(* receiver.cpp:576 "Keep running across app restarts, lock/unlock recovery, and USB   *)
(* reconnects": while usbmux or the host looked up at the start stays, the phone is    *)
(* connected again and again, whatever other address it has had in between.            *)
Reconnects ==
  <>[]("usb" \in phone) \/ <>[](host \in phone) => []<>connected

=============================================================================
