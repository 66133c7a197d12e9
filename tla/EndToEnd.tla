------------------------------- MODULE EndToEnd -------------------------------
(***************************************************************************)
(* The way of a frame from the encoder to OBS: numbered, converted and     *)
(* posted by ios/CameraStreamer.swift, served by the sender, carried as    *)
(* bytes by TCP, read and gated by windows/receiver.cpp in relay mode.     *)
(*                                                                         *)
(* The sender is what StreamSender is proved to implement, LiveFeed: its   *)
(* queue runs the blocks posted to it in order, and a frame's block shows  *)
(* the frame to the viewer or drops it.  On a connection the receiver      *)
(* reads some prefix of the bytes sent, and its session ends at any time.  *)
(*                                                                         *)
(* The callbacks of several compression sessions and the session queue run *)
(* at once: a frame is numbered and posted in two steps, and so is a       *)
(* recovery, which resets the numbers and then posts the listener's        *)
(* restart.                                                                *)
(***************************************************************************)
EXTENDS AnnexB, StreamProtocol, FiniteSets

CONSTANTS
  Encoders,        \* compression sessions, as many as may call back at once
  Samples,         \* the encoded samples to consider
  ParameterSets,   \* VPS, SPS and PPS of the format description
  MaxFrames,       \* bound: frames numbered
  MaxConnections,  \* bound: sessions of the receiver
  MaxRecoveries    \* bound: recoveries of the camera

ASSUME EndToEndAssumption ==
  MaxFrames \in Nat /\ MaxConnections \in Nat /\ MaxRecoveries \in Nat

VARIABLES
  encodedFrameNumber,
  inHand,      \* the frames numbered and not posted yet, one of a compression session
  frames,      \* history: the frames posted so far
  resetting,   \* recoverSession is between resetTelemetry and restartListening
  recoveries,
  posted,      \* the blocks on the sender's queue: a frame's position, or Restart
  viewer,      \* the connection being served, or NoViewer
  feed,        \* what was sent on each connection
  accepted,    \* the last connection the phone's listener has handed over
  opened,      \* the receiver's last connection, that of its session
  pc,          \* where the session is
  at,          \* bytes of the connection read so far
  header,      \* the header that was accepted, or NoHeader
  waiting,     \* waitingForRandomAccess
  taken        \* frames given to the relay by this session

encoder  == <<encodedFrameNumber, inHand, frames>>
recovery == <<resetting, recoveries>>
phone    == <<posted, viewer, feed, accepted>>
receiver == <<opened, pc, at, header, waiting, taken>>
vars     == <<encoder, recovery, phone, receiver>>

Connections == 1..MaxConnections
NoViewer == 0
Restart == 0
NoHeader == [size |-> 0]

Feed == INSTANCE LiveFeed WITH
  Viewers <- Connections, Packets <- [frame : 1..MaxFrames, idr : 0..MaxFrames]

Init ==
  /\ encodedFrameNumber = 0 /\ inHand = {} /\ frames = <<>>
  /\ resetting = FALSE /\ recoveries = 0
  /\ posted = <<>> /\ accepted = 0 /\ Feed!Init
  /\ opened = 0 /\ pc = "closed" /\ at = 0 /\ header = NoHeader
  /\ waiting = TRUE /\ taken = <<>>

-----------------------------------------------------------------------------
(* writeAnnexB. *)

(* VideoToolbox's side: the units of a sample in a buffer, and perhaps the beginning of *)
(* one more.                                                                            *)
DataOf(s) == LengthPrefixed(s.units, s.width) \o s.cutOff

(* A sample is one picture: its slices are of one type. *)
IsSample(s) ==
  /\ s.sync \in BOOLEAN /\ s.width \in 1..4
  /\ s.units \in Seq(Seq(Bytes)) /\ s.cutOff \in Seq(Bytes)
  /\ \A i \in 1..Len(s.units) : IsUnit(s.units[i]) /\ FitsField(Len(s.units[i]), s.width)
  /\ IsCutOff(s.cutOff, s.width)
  /\ \A i, j \in 1..Len(s.units) :
       IsSlice(s.units[i]) /\ IsSlice(s.units[j]) =>
         NalType(s.units[i][1]) = NalType(s.units[j][1])

ASSUME SampleAssumption ==
  /\ \A s \in Samples : IsSample(s)
  /\ ParameterSets \in Seq(Seq(Bytes))
  /\ \A i \in 1..Len(ParameterSets) : IsUnit(ParameterSets[i]) /\ IsParameterSet(ParameterSets[i])

(* Mutant: the parameter sets come with the first frame only. *)
WithSetsOnce(s) ==
  (IF frames = <<>> THEN Framed(ParameterSets) ELSE <<>>) \o Convert(DataOf(s), s.width)

(* The parameter sets in front of a frame marked as sync, then the units. *)
WriteAnnexB(s) ==
  (IF s.sync THEN Framed(ParameterSets) ELSE <<>>) \o Convert(DataOf(s), s.width)

(* Mutant: the mark of the sample is believed. *)
BelievesMark(s) == s.sync
IsKeyframe(s) == s.sync /\ ContainsHEVCRandomAccessPicture(WriteAnnexB(s))

(* &+= 1, in 32 bits. *)
Counted(n) == IF Fits32(n + 1) THEN n + 1 ELSE 0

(* A frame as it leaves writeAnnexB; its compression session and the recoveries before it *)
(* are history.                                                                           *)
Frame(n, e, s) ==
  [number |-> n, sample |-> s, bytes |-> WriteAnnexB(s), key |-> IsKeyframe(s),
   session |-> e, epoch |-> recoveries]

(* Mutant: the number is read and not counted up. *)
NumberNotCounted(e, s) ==
  /\ \A f \in inHand : f.session # e
  /\ Len(frames) + Cardinality(inHand) < MaxFrames
  /\ DataOf(s) # <<>>
  /\ inHand' = inHand \cup {Frame(Counted(encodedFrameNumber), e, s)}
  /\ UNCHANGED <<encodedFrameNumber, frames, recovery, phone, receiver>>

(* The callback of a compression session converts its frame and takes a number for it; a   *)
(* session's next callback comes when this one has returned, another session's may come now. *)
NextEncodedFrameNumber(e, s) ==
  /\ \A f \in inHand : f.session # e
  /\ Len(frames) + Cardinality(inHand) < MaxFrames
  /\ DataOf(s) # <<>>
  /\ encodedFrameNumber' = Counted(encodedFrameNumber)
  /\ inHand' = inHand \cup {Frame(encodedFrameNumber', e, s)}
  /\ UNCHANGED <<frames, recovery, phone, receiver>>

(* sender.send, and the callback returns. *)
PostFrame ==
  /\ \E f \in inHand :
       /\ inHand' = inHand \ {f}
       /\ frames' = Append(frames, f)
       /\ posted' = IF Fits32(Len(f.bytes)) THEN Append(posted, Len(frames')) ELSE posted
  /\ UNCHANGED <<encodedFrameNumber, recovery, viewer, feed, accepted, receiver>>

-----------------------------------------------------------------------------
(* recoverSession. *)

ResetTelemetry ==
  /\ ~resetting /\ recoveries < MaxRecoveries
  /\ resetting' = TRUE /\ recoveries' = recoveries + 1
  /\ encodedFrameNumber' = 0
  /\ UNCHANGED <<inHand, frames, phone, receiver>>

RestartListening ==
  /\ resetting
  /\ resetting' = FALSE
  /\ posted' = Append(posted, Restart)
  /\ UNCHANGED <<encoder, recoveries, viewer, feed, accepted, receiver>>

-----------------------------------------------------------------------------
(* The sender's queue and its listener. *)

Runs(block) == posted # <<>> /\ Head(posted) = block /\ posted' = Tail(posted)

(* The last IDR up to frame k, or 0. *)
IdrOf(k) ==
  LET idrs == {i \in 1..k : frames[i].key}
  IN  IF idrs = {} THEN 0 ELSE Max(idrs)

Send(k) ==
  /\ Runs(k)
  /\ Feed!Show([frame |-> k, idr |-> IdrOf(k)])
  /\ UNCHANGED <<encoder, recovery, accepted, receiver>>

(* Nobody is served, the gate is closed, or the queue of packets is full. *)
DropFrame(k) ==
  /\ Runs(k)
  /\ UNCHANGED <<encoder, recovery, viewer, feed, accepted, receiver>>

RunRestart ==
  /\ Runs(Restart)
  /\ Feed!Leave
  /\ UNCHANGED <<encoder, recovery, accepted, receiver>>

(* newConnectionHandler. *)
NewConnection(c) ==
  /\ c \in (accepted + 1)..opened
  /\ accepted' = c
  /\ Feed!Join(c)
  /\ UNCHANGED <<encoder, recovery, posted, receiver>>

(* The connection fails or is cancelled. *)
ConnectionEnds ==
  /\ viewer # NoViewer
  /\ Feed!Leave
  /\ UNCHANGED <<encoder, recovery, posted, accepted, receiver>>

-----------------------------------------------------------------------------
(* receive_session. *)

HeaderOf(f) ==
  [number |-> f.number, timestamp |-> 0, codec |-> Hevc, size |-> Len(f.bytes)]

FrameAt(c, i) == frames[feed[c][i].frame]

Packet(f) == Encode(HeaderOf(f)) \o f.bytes

(* The bytes of the first n packets sent on c. *)
Bytestream(c, n) == FlattenSeq([i \in 1..n |-> Packet(FrameAt(c, i))])

Sent == Bytestream(opened, Len(feed[opened]))
Arrived(n) == Len(Sent) >= at + n
Following(n) == SubSeq(Sent, at + 1, at + n)

Connect ==
  /\ pc = "closed" /\ opened < MaxConnections
  /\ opened' = opened + 1
  /\ pc' = "header" /\ at' = 0 /\ header' = NoHeader
  /\ waiting' = TRUE /\ taken' = <<>>
  /\ UNCHANGED <<encoder, recovery, phone>>

AcceptedHeader(h) == HeaderIsValid(h) /\ h.codec = Hevc

ReadHeader ==
  /\ pc = "header" /\ Arrived(HeaderSize)
  /\ LET b == Following(HeaderSize)
         h == HeaderRead(b)
     IN  IF MagicMatch(b) /\ AcceptedHeader(h)
         THEN header' = h /\ pc' = "frame"
         ELSE header' = NoHeader /\ pc' = "refused"
  /\ at' = at + HeaderSize
  /\ UNCHANGED <<encoder, recovery, phone, opened, waiting, taken>>

ReadFrame ==
  /\ pc = "frame" /\ Arrived(header.size)
  /\ at' = at + header.size
  /\ LET frame == Following(header.size)
         skip  == waiting /\ ~ContainsHevcIdr(frame)
     IN  /\ waiting' = skip
         /\ taken' = IF skip THEN taken ELSE Append(taken, frame)
  /\ pc' = "header" /\ header' = NoHeader
  /\ UNCHANGED <<encoder, recovery, phone, opened>>

(* The header was refused, or the connection, the clock or the relay ends the session. *)
SessionEnds ==
  /\ pc # "closed"
  /\ pc' = "closed"
  /\ UNCHANGED <<encoder, recovery, phone, opened, at, header, waiting, taken>>

-----------------------------------------------------------------------------
Next ==
  \/ \E e \in Encoders, s \in Samples : NextEncodedFrameNumber(e, s)
  \/ PostFrame \/ ResetTelemetry \/ RestartListening
  \/ \E k \in 1..MaxFrames : Send(k) \/ DropFrame(k)
  \/ RunRestart \/ ConnectionEnds
  \/ \E c \in Connections : NewConnection(c)
  \/ Connect \/ ReadHeader \/ ReadFrame \/ SessionEnds

Spec == Init /\ [][Next]_vars

-----------------------------------------------------------------------------
(* The properties. *)

(* Every unit of a sample, whatever its length, reaches the frame behind a start code, in *)
(* order, and a cut-off one leaves nothing of itself (writeAnnexB's loop).                 *)
SameUnits ==
  \A k \in 1..Len(frames) : LET s == frames[k].sample IN
    frames[k].bytes = Framed((IF s.sync THEN ParameterSets ELSE <<>>) \o s.units)

(* The sender's gate is told of every IDR picture, and of nothing else: an IDR taken for *)
(* a delta would leave a PC without a picture, a CRA or a delta taken for an IDR would   *)
(* start it on one it cannot decode (CameraStreamer.swift:403-406).                      *)
KeyMeansIdr ==
  \A k \in 1..Len(frames) : frames[k].key <=> frames[k].sample.sync /\ HasIdr(frames[k].sample.units)

(* The receiver is always at a packet of the sender's: it takes the size it waits for from *)
(* the header the phone wrote, and what it refuses as a desync is only ever an empty frame *)
(* or one above the limit, which the sender does not hold back.                            *)
NeverDesynced ==
  /\ pc = "header" =>
       \E n \in 0..Len(feed[opened]) : at = Len(Bytestream(opened, n))
  /\ pc = "frame" =>
       \E n \in 1..Len(feed[opened]) : /\ at = Len(Bytestream(opened, n - 1)) + HeaderSize
                                       /\ header = HeaderOf(FrameAt(opened, n))
  /\ pc = "refused" =>
       \E n \in 1..Len(feed[opened]) : /\ at = Len(Bytestream(opened, n - 1)) + HeaderSize
                                       /\ Len(FrameAt(opened, n).bytes) \notin 1..MaxFrameSize

(* What OBS is given is, byte for byte, a prefix of what the phone sent on the connection: *)
(* the receiver's own gate never has to skip a frame, since the phone has waited for an    *)
(* IDR the receiver's scanner recognises too.                                              *)
RelaysFeed ==
  \A i \in 1..Len(taken) : i <= Len(feed[opened]) /\ taken[i] = FrameAt(opened, i).bytes

(* OBS joins at a frame it can decode by itself: the parameter sets, and an IDR picture    *)
(* with no other picture in front of it.                                                   *)
JoinsDecodable ==
  taken # <<>> =>
    \E k \in 1..Len(frames) : LET units == frames[k].sample.units IN
      /\ taken[1] = Framed(ParameterSets \o units)
      /\ \E i \in 1..Len(units) : /\ IsIdrType(NalType(units[i][1]))
                                  /\ \A j \in 1..(i - 1) : ~IsSlice(units[j])

(* What a PC can take from the numbers of the headers: between two recoveries no number is *)
(* used twice, and on a connection those of one compression session increase, although a  *)
(* number is taken before its frame is posted and reset before the connection is closed.  *)
NumbersTellFrames ==
  /\ \A j, k \in 1..Len(frames) :
       j # k /\ frames[j].epoch = frames[k].epoch => frames[j].number # frames[k].number
  /\ \A c \in Connections : \A i, j \in 1..Len(feed[c]) :
       LET f == FrameAt(c, i)  g == FrameAt(c, j) IN
         i < j /\ f.session = g.session /\ f.epoch = g.epoch => f.number < g.number

(* stream_protocol.h:34 "monotonically increasing". *)
NumbersIncrease ==
  \A c \in Connections : \A i \in 1..(Len(feed[c]) - 1) :
    FrameAt(c, i).number < FrameAt(c, i + 1).number

===============================================================================
