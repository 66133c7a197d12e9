--------------------------- MODULE EndToEndProofs ---------------------------
(***************************************************************************)
(* What EndToEnd promises, for every number of frames, connections and     *)
(* recoveries, every limit on a frame's size and all samples that are well *)
(* formed: frames keep the encoder's units, the phone's gate is told of    *)
(* IDR pictures only, the receiver never loses its place in the bytes, OBS *)
(* is given the phone's frames and joins at one it can decode, and between *)
(* two recoveries a number tells which frame it is.                        *)
(***************************************************************************)
EXTENDS EndToEnd, AnnexBProofs, StreamProtocolProofs, FiniteSetTheorems

-----------------------------------------------------------------------------
(* Samples. *)

LEMMA SeqOfMore ==
  ASSUME NEW S, NEW T, S \subseteq T, NEW s \in Seq(S)
  PROVE  s \in Seq(T)
<1>1. Len(s) \in Nat /\ s \in [1..Len(s) -> S] BY LenProperties
<1>2. s \in [1..Len(s) -> T] BY <1>1
<1> QED BY <1>1, <1>2, FunctionIsSeq

LEMMA UnitsType ==
  ASSUME NEW u \in Seq(Seq(Bytes))
  PROVE  u \in Seq(Seq(Nat))
<1>1. \A s \in Seq(Bytes) : s \in Seq(Nat)
  <2>1. Bytes \subseteq Nat BY DEF Bytes
  <2> QED BY <2>1, SeqOfMore
<1>2. Seq(Bytes) \subseteq Seq(Nat) BY <1>1
<1> QED BY <1>2, SeqOfMore

LEMMA SampleType ==
  ASSUME NEW s \in Samples
  PROVE  /\ s.sync \in BOOLEAN /\ s.width \in 1..4
         /\ s.units \in Seq(Seq(Nat)) /\ s.cutOff \in Seq(Nat)
         /\ \A i \in 1..Len(s.units) :
              /\ IsUnit(s.units[i]) /\ Len(s.units[i]) # 0
              /\ FitsField(Len(s.units[i]), s.width)
         /\ IsCutOff(s.cutOff, s.width)
<1>1. IsSample(s) BY SampleAssumption
<1>2. s.units \in Seq(Seq(Nat)) BY <1>1, UnitsType DEF IsSample
<1>3. s.cutOff \in Seq(Nat)
  <2>1. Bytes \subseteq Nat BY DEF Bytes
  <2>2. s.cutOff \in Seq(Bytes) BY <1>1 DEF IsSample
  <2> QED BY <2>1, <2>2, SeqOfMore
<1>4. \A u : IsUnit(u) => Len(u) # 0 BY DEF IsUnit
<1> QED BY <1>1, <1>2, <1>3, <1>4 DEF IsSample

LEMMA SetsType ==
  /\ ParameterSets \in Seq(Seq(Nat))
  /\ \A i \in 1..Len(ParameterSets) : IsUnit(ParameterSets[i]) /\ IsParameterSet(ParameterSets[i])
BY SampleAssumption, UnitsType

(* The units that a sample's frame is made of. *)
UnitsOf(s) == (IF s.sync THEN ParameterSets ELSE <<>>) \o s.units

LEMMA FrameBytes ==
  ASSUME NEW s \in Samples
  PROVE  /\ UnitsOf(s) \in Seq(Seq(Nat))
         /\ WriteAnnexB(s) = Framed(UnitsOf(s))
         /\ WriteAnnexB(s) \in Seq(Nat)
<1> DEFINE sets == IF s.sync THEN ParameterSets ELSE <<>>
<1>1. /\ s.units \in Seq(Seq(Nat)) /\ s.width \in 1..4 /\ s.cutOff \in Seq(Nat)
      /\ IsCutOff(s.cutOff, s.width)
      /\ \A i \in 1..Len(s.units) : Len(s.units[i]) # 0 /\ FitsField(Len(s.units[i]), s.width)
  BY SampleType
<1>2. Convert(DataOf(s), s.width) = Framed(s.units)
  BY <1>1, ConversionKeepsUnits DEF DataOf
<1>3. sets \in Seq(Seq(Nat)) BY SetsType
<1>4. (IF s.sync THEN Framed(ParameterSets) ELSE <<>>) = Framed(sets)
  <2>1. Framed(<<>>) = <<>>
    <3>1. Framings(<<>>) \in [1..0 -> Seq(Nat)] BY DEF Framings
    <3>2. FlattenSeq(Framings(<<>>)) = <<>> BY <3>1, FlattenNone
    <3> QED BY <3>2 DEF Framed, Framings
  <2> QED BY <2>1
<1>5. /\ sets \o s.units \in Seq(Seq(Nat))
      /\ Framed(sets \o s.units) = Framed(sets) \o Framed(s.units)
  <2> HIDE DEF sets
  <2> QED BY <1>1, <1>3, FramedConcat
<1>6. WriteAnnexB(s) = Framed(UnitsOf(s)) BY <1>2, <1>4, <1>5 DEF WriteAnnexB, UnitsOf
<1>7. UnitsOf(s) \in Seq(Seq(Nat)) BY <1>5 DEF UnitsOf
<1> QED BY <1>6, <1>7, FramedType

(* A frame is taken for a keyframe exactly when its sample is marked and has an IDR: no     *)
(* parameter set is one, and the scanner finds what there is.                               *)
LEMMA KeyframeIsIdr ==
  ASSUME NEW s \in Samples
  PROVE  IsKeyframe(s) <=> s.sync /\ HasIdr(s.units)
<1> SUFFICES ASSUME s.sync
             PROVE  ContainsHEVCRandomAccessPicture(WriteAnnexB(s)) <=> HasIdr(s.units)
  BY DEF IsKeyframe
<1> DEFINE p == ParameterSets
           u == s.units
           c == p \o u
           m == Len(p)
           n == Len(u)
<1>1. /\ p \in Seq(Seq(Nat)) /\ u \in Seq(Seq(Nat))
      /\ \A i \in 1..m : IsUnit(p[i]) /\ IsParameterSet(p[i])
      /\ \A i \in 1..n : IsUnit(u[i])
  BY SampleType, SetsType
<1>2. /\ c \in Seq(Seq(Nat)) /\ m \in Nat /\ n \in Nat /\ Len(c) = m + n
      /\ \A j \in 1..m : c[j] = p[j]
      /\ \A j \in 1..n : c[m + j] = u[j]
  <2> HIDE DEF p, u
  <2> QED BY <1>1, ConcatParts
<1>3. WriteAnnexB(s) = Framed(c) BY FrameBytes DEF UnitsOf
<1> HIDE DEF p, u, c, m, n
<1>4. \A j \in 1..(m + n) : j \in 1..m \/ (j - m \in 1..n /\ m + (j - m) = j) BY <1>2
<1>5. \A j \in 1..Len(c) : IsUnit(c[j])
  <2> SUFFICES ASSUME NEW j \in 1..(m + n) PROVE IsUnit(c[j]) BY <1>2
  <2>1. CASE j \in 1..m BY <1>1, <1>2, <2>1
  <2>2. CASE j - m \in 1..n /\ m + (j - m) = j
    <3>1. c[j] = u[j - m] BY <1>2, <2>2
    <3> QED BY <1>1, <2>2, <3>1
  <2> QED BY <1>4, <2>1, <2>2
<1>6. ContainsHEVCRandomAccessPicture(Framed(c)) <=> HasIdr(c)
  BY <1>2, <1>5, ScannerFindsIdr
<1>7. HasIdr(c) <=> \E i \in 1..n : IsIdrType(NalType(u[i][1]))
  <2>1. ASSUME NEW i \in 1..n, IsIdrType(NalType(u[i][1])) PROVE HasIdr(c)
    <3>1. m + i \in 1..(m + n) /\ c[m + i] = u[i] BY <1>2
    <3>2. m + i \in 1..Len(c) /\ IsIdrType(NalType(c[m + i][1])) BY <1>2, <2>1, <3>1
    <3> QED BY <3>2 DEF HasIdr
  <2>2. ASSUME NEW j \in 1..(m + n), IsIdrType(NalType(c[j][1]))
        PROVE  \E i \in 1..n : IsIdrType(NalType(u[i][1]))
    <3>1. CASE j \in 1..m
      <4>1. c[j] = p[j] /\ IsParameterSet(p[j]) BY <1>1, <1>2, <3>1
      <4>2. NalType(p[j][1]) \in 32..34 /\ NalType(p[j][1]) \in 19..20
        BY <2>2, <4>1 DEF IsParameterSet, IsIdrType
      <4>3. FALSE
        <5> DEFINE t == NalType(p[j][1])
        <5>1. t \in 32..34 /\ t \in 19..20 BY <4>2
        <5> HIDE DEF t
        <5> QED BY <5>1
      <4> QED BY <4>3
    <3>2. CASE j - m \in 1..n /\ m + (j - m) = j
      <4>1. c[j] = u[j - m] BY <1>2, <3>2
      <4> QED BY <2>2, <3>2, <4>1
    <3> QED BY <1>4, <3>1, <3>2
  <2>3. Len(c) = m + n BY <1>2
  <2> QED BY <2>1, <2>2, <2>3 DEF HasIdr
<1> QED BY <1>3, <1>6, <1>7 DEF u, n, HasIdr

-----------------------------------------------------------------------------
(* The encoder's side. *)

Records ==
  [number : Nat, sample : Samples, bytes : Seq(Nat), key : BOOLEAN,
   session : Encoders, epoch : Nat]

FrameIsRight(f) ==
  /\ Fits32(f.number)
  /\ f.bytes = WriteAnnexB(f.sample) /\ f.key = IsKeyframe(f.sample)

EncoderInv ==
  /\ encodedFrameNumber \in Nat /\ recoveries \in Nat
  /\ frames \in Seq(Records) /\ Len(frames) <= MaxFrames
  /\ IsFiniteSet(inHand) /\ Len(frames) + Cardinality(inHand) <= MaxFrames
  /\ \A f \in inHand : f \in Records /\ FrameIsRight(f)
  /\ \A k \in 1..Len(frames) : FrameIsRight(frames[k])

FramesGrow ==
  /\ Len(frames) <= Len(frames')
  /\ \A k \in 1..Len(frames) : frames'[k] = frames[k]

LEMMA Appending ==
  ASSUME NEW S, NEW s \in Seq(S), NEW x \in S
  PROVE  /\ Append(s, x) \in Seq(S) /\ Len(s) \in Nat /\ Len(Append(s, x)) = Len(s) + 1
         /\ \A i \in 1..Len(s) : Append(s, x)[i] = s[i]
         /\ Append(s, x)[Len(s) + 1] = x
         /\ \A i \in 1..(Len(s) + 1) : i \in 1..Len(s) \/ i = Len(s) + 1
<1> DEFINE t == Append(s, x)
           n == Len(s)
<1>1. n \in Nat BY LenProperties
<1>2. /\ t \in Seq(S) /\ Len(t) = n + 1
      /\ \A i \in 1..n : t[i] = s[i]
      /\ t[n + 1] = x
  BY AppendProperties
<1> HIDE DEF n
<1>3. \A i \in 1..(n + 1) : i \in 1..n \/ i = n + 1 BY <1>1
<1> QED BY <1>1, <1>2, <1>3 DEF n

LEMMA Tailing ==
  ASSUME NEW S, NEW s \in Seq(S), s # <<>>
  PROVE  /\ Tail(s) \in Seq(S) /\ Len(s) \in Nat /\ 1 \in 1..Len(s) /\ Head(s) = s[1]
         /\ \A i \in 1..Len(Tail(s)) : i + 1 \in 1..Len(s) /\ Tail(s)[i] = s[i + 1]
<1> DEFINE t == Tail(s)
           n == Len(s)
           m == Len(t)
<1>1. t \in Seq(S) /\ m = n - 1 /\ n \in Nat /\ n # 0 /\ Head(s) = s[1]
      /\ \A i \in 1..m : t[i] = s[i + 1]
  BY HeadTailProperties, EmptySeq, LenProperties
<1> HIDE DEF n, m
<1>2. 1 \in 1..n /\ \A i \in 1..m : i + 1 \in 1..n BY <1>1
<1> QED BY <1>1, <1>2 DEF n, m

LEMMA CountedFits ==
  ASSUME NEW n \in Nat
  PROVE  Counted(n) \in Nat /\ Fits32(Counted(n))
<1>1. Fits32(0) BY SMT DEF Fits32
<1> QED BY <1>1 DEF Counted

LEMMA RecordType ==
  ASSUME NEW s \in Samples, NEW n \in Nat, NEW e \in Encoders, recoveries \in Nat
  PROVE  Frame(n, e, s) \in Records
<1>1. IsKeyframe(s) \in BOOLEAN BY Zenon DEF IsKeyframe
<1>2. WriteAnnexB(s) \in Seq(Nat) BY FrameBytes
<1> QED BY <1>1, <1>2 DEF Records, Frame

LEMMA EncoderInit == Init => EncoderInv
<1> SUFFICES ASSUME Init PROVE EncoderInv OBVIOUS
<1>1. encodedFrameNumber = 0 /\ frames = <<>> /\ inHand = {} /\ recoveries = 0 BY DEF Init
<1>2. frames \in Seq(Records) /\ Len(frames) = 0 BY <1>1
<1>3. MaxFrames \in Nat BY EndToEndAssumption
<1>4. IsFiniteSet(inHand) /\ Cardinality(inHand) = 0 BY <1>1, FS_EmptySet
<1> QED BY <1>1, <1>2, <1>3, <1>4 DEF EncoderInv

(* A callback's frame is none of those in hand: no other callback of its session runs. *)
LEMMA Numbering ==
  ASSUME EncoderInv, NEW e \in Encoders, NEW s \in Samples, NextEncodedFrameNumber(e, s)
  PROVE  LET n == Counted(encodedFrameNumber)
             x == Frame(n, e, s)
         IN  /\ encodedFrameNumber' = n /\ n \in Nat /\ Fits32(n) /\ x \in Records
             /\ x.number = n /\ x.session = e /\ x.epoch = recoveries
             /\ inHand' = inHand \cup {x} /\ IsFiniteSet(inHand')
             /\ Cardinality(inHand) \in Nat /\ Cardinality(inHand') = Cardinality(inHand) + 1
             /\ Len(frames) + Cardinality(inHand) < MaxFrames
             /\ \A f \in inHand : f.session # e
             /\ frames' = frames /\ recoveries' = recoveries
<1> DEFINE n == Counted(encodedFrameNumber)
           x == Frame(n, e, s)
<1>1. /\ encodedFrameNumber' = n /\ inHand' = inHand \cup {x}
      /\ \A f \in inHand : f.session # e
      /\ Len(frames) + Cardinality(inHand) < MaxFrames
      /\ frames' = frames /\ recoveries' = recoveries
  <2>1. encodedFrameNumber' = n BY DEF NextEncodedFrameNumber
  <2> QED BY <2>1 DEF NextEncodedFrameNumber, recovery
<1>2. n \in Nat /\ Fits32(n) BY CountedFits DEF EncoderInv
<1>3. x \in Records BY <1>2, RecordType DEF EncoderInv
<1>4. x.number = n /\ x.session = e /\ x.epoch = recoveries BY DEF Frame
<1> HIDE DEF x, n
<1>5. x \notin inHand BY <1>1, <1>4
<1>6. /\ IsFiniteSet(inHand') /\ Cardinality(inHand) \in Nat
      /\ Cardinality(inHand') = Cardinality(inHand) + 1
  BY <1>1, <1>5, FS_AddElement, FS_CardinalityType DEF EncoderInv
<1> QED BY <1>1, <1>2, <1>3, <1>4, <1>6 DEF x, n

(* Posting moves one frame from those in hand to the end of those posted. *)
Posts(f) ==
  /\ f \in inHand /\ f \in Records /\ FrameIsRight(f)
  /\ inHand' = inHand \ {f} /\ IsFiniteSet(inHand')
  /\ Cardinality(inHand) \in Nat /\ Cardinality(inHand') = Cardinality(inHand) - 1
  /\ Len(frames) \in Nat /\ frames' \in Seq(Records) /\ Len(frames') = Len(frames) + 1
  /\ \A i \in 1..Len(frames) : frames'[i] = frames[i]
  /\ frames'[Len(frames) + 1] = f
  /\ \A i \in 1..(Len(frames) + 1) : i \in 1..Len(frames) \/ i = Len(frames) + 1
  /\ posted' = IF Fits32(Len(f.bytes)) THEN Append(posted, Len(frames) + 1) ELSE posted
  /\ encodedFrameNumber' = encodedFrameNumber /\ recoveries' = recoveries

LEMMA Posting ==
  ASSUME EncoderInv, PostFrame
  PROVE  \E f : Posts(f)
<1>1. PICK f \in inHand :
        /\ inHand' = inHand \ {f} /\ frames' = Append(frames, f)
        /\ posted' = IF Fits32(Len(f.bytes)) THEN Append(posted, Len(frames')) ELSE posted
  BY DEF PostFrame
<1>2. f \in Records /\ FrameIsRight(f) /\ frames \in Seq(Records) BY DEF EncoderInv
<1>3. /\ Len(frames) \in Nat /\ frames' \in Seq(Records) /\ Len(frames') = Len(frames) + 1
      /\ \A i \in 1..Len(frames) : frames'[i] = frames[i]
      /\ frames'[Len(frames) + 1] = f
      /\ \A i \in 1..(Len(frames) + 1) : i \in 1..Len(frames) \/ i = Len(frames) + 1
  BY <1>1, <1>2, Appending
<1>4. /\ IsFiniteSet(inHand') /\ Cardinality(inHand) \in Nat
      /\ Cardinality(inHand') = Cardinality(inHand) - 1
  BY <1>1, FS_RemoveElement, FS_CardinalityType DEF EncoderInv
<1>5. encodedFrameNumber' = encodedFrameNumber /\ recoveries' = recoveries
  BY DEF PostFrame, recovery
<1>6. posted' = IF Fits32(Len(f.bytes)) THEN Append(posted, Len(frames) + 1) ELSE posted
  BY <1>1, <1>3
<1> QED BY <1>1, <1>2, <1>3, <1>4, <1>5, <1>6 DEF Posts

LEMMA EncoderStep ==
  ASSUME EncoderInv, [Next]_vars
  PROVE  EncoderInv' /\ FramesGrow
<1> USE DEF EncoderInv
<1>0. Len(frames) \in Nat /\ Cardinality(inHand) \in Nat /\ MaxFrames \in Nat
  BY LenProperties, FS_CardinalityType, EndToEndAssumption
<1>1. ASSUME NEW e \in Encoders, NEW s \in Samples, NextEncodedFrameNumber(e, s)
      PROVE  EncoderInv' /\ FramesGrow
  <2> DEFINE n == Counted(encodedFrameNumber)
             x == Frame(n, e, s)
  <2>1. /\ encodedFrameNumber' = n /\ n \in Nat /\ Fits32(n) /\ x \in Records /\ x.number = n
        /\ inHand' = inHand \cup {x} /\ IsFiniteSet(inHand')
        /\ Cardinality(inHand') = Cardinality(inHand) + 1
        /\ Len(frames) + Cardinality(inHand) < MaxFrames
        /\ frames' = frames /\ recoveries' = recoveries
    BY <1>1, Numbering
  <2>2. FrameIsRight(x) BY <2>1 DEF FrameIsRight, Frame
  <2> HIDE DEF x, n
  <2>3. Len(frames') + Cardinality(inHand') <= MaxFrames BY <1>0, <2>1
  <2>4. \A f \in inHand' : f \in Records /\ FrameIsRight(f) BY <2>1, <2>2
  <2>5. FramesGrow BY <1>0, <2>1 DEF FramesGrow
  <2>6. EncoderInv' BY <2>1, <2>3, <2>4 DEF FrameIsRight
  <2> QED BY <2>5, <2>6
<1>2. ASSUME UNCHANGED <<frames, inHand>>, encodedFrameNumber' \in Nat, recoveries' \in Nat
      PROVE  EncoderInv' /\ FramesGrow
  <2>1. FramesGrow BY <1>0, <1>2 DEF FramesGrow
  <2>2. EncoderInv' BY <1>2 DEF FrameIsRight
  <2> QED BY <2>1, <2>2
<1>3. CASE PostFrame
  <2>1. PICK f : Posts(f) BY <1>3, Posting
  <2>2. \A i \in 1..Len(frames') : FrameIsRight(frames'[i]) BY <2>1 DEF Posts
  <2>3. Len(frames') <= MaxFrames /\ Len(frames') + Cardinality(inHand') <= MaxFrames
    <3>1. Cardinality(inHand') \in Nat BY <2>1, FS_CardinalityType DEF Posts
    <3> QED BY <1>0, <2>1, <3>1 DEF Posts
  <2>4. FramesGrow BY <1>0, <2>1 DEF FramesGrow, Posts
  <2>5. \A g \in inHand' : g \in Records /\ FrameIsRight(g) BY <2>1 DEF Posts
  <2>6. EncoderInv' BY <2>1, <2>2, <2>3, <2>5 DEF Posts, FrameIsRight
  <2> QED BY <2>4, <2>6
<1>4. CASE ResetTelemetry BY <1>2, <1>4 DEF ResetTelemetry
<1>5. CASE UNCHANGED <<encoder, recoveries>> BY <1>2, <1>5 DEF encoder
<1>6. ASSUME NEW k \in 1..MaxFrames, Send(k) \/ DropFrame(k)
      PROVE  UNCHANGED <<encoder, recoveries>>
  BY <1>6 DEF Send, DropFrame, recovery
<1>7. ASSUME NEW c \in Connections, NewConnection(c) PROVE UNCHANGED <<encoder, recoveries>>
  BY <1>7 DEF NewConnection, recovery
<1>8. CASE UNCHANGED vars BY <1>5, <1>8 DEF vars, recovery
<1>9. CASE RestartListening \/ RunRestart \/ ConnectionEnds
  BY <1>5, <1>9 DEF RestartListening, RunRestart, ConnectionEnds, recovery
<1>10. CASE Connect \/ ReadHeader \/ ReadFrame \/ SessionEnds
  BY <1>5, <1>10 DEF Connect, ReadHeader, ReadFrame, SessionEnds, recovery
<1> QED BY <1>1, <1>3, <1>4, <1>5, <1>6, <1>7, <1>8, <1>9, <1>10 DEF Next

-----------------------------------------------------------------------------
(* The sender's queue and the feed. *)

(* The frames that the sender's queue may hold: those whose length fits the header. *)
Showable == {k \in 1..Len(frames) : Fits32(Len(frames[k].bytes))}

PostedInv ==
  /\ posted \in Seq(Nat)
  /\ \A i \in 1..Len(posted) : posted[i] = Restart \/ posted[i] \in Showable

ListenerInv ==
  /\ opened \in 0..MaxConnections /\ accepted \in 0..opened
  /\ viewer = NoViewer \/ viewer = accepted

Packets == [frame : 1..MaxFrames, idr : 0..MaxFrames]

FeedInv ==
  /\ feed \in [Connections -> Seq(Packets)]
  /\ \A c \in Connections :
       /\ \A i \in 1..Len(feed[c]) : feed[c][i].frame \in Showable
       /\ feed[c] # <<>> => FrameAt(c, 1).key /\ c <= accepted

FeedGrows ==
  \A c \in Connections :
    /\ Len(feed[c]) <= Len(feed'[c])
    /\ \A i \in 1..Len(feed[c]) : feed'[c][i] = feed[c][i]

LEMMA GreatestNumber ==
  ASSUME NEW k \in Nat, NEW T \in SUBSET (1..k), T # {}
  PROVE  Max(T) \in T /\ \A j \in T : j <= Max(T)
<1> DEFINE D == {n \in Nat : k - n \in T}
<1>1. D # {}
  <2>1. PICK j \in T : TRUE OBVIOUS
  <2>2. k - j \in Nat /\ k - (k - j) = j OBVIOUS
  <2> QED BY <2>1, <2>2
<1>2. PICK n \in D : \A m \in D : n <= m
  <2>1. D \in SUBSET Nat OBVIOUS
  <2> HIDE DEF D
  <2> QED BY <1>1, <2>1, LeastNumber
<1>3. k - n \in T OBVIOUS
<1>4. ASSUME NEW j \in T PROVE k - n >= j
  <2>1. k - j \in Nat /\ k - (k - j) = j OBVIOUS
  <2>2. n <= k - j BY <1>2, <2>1
  <2> QED BY <2>1, <2>2
<1>5. \E x \in T : \A y \in T : x >= y BY <1>3, <1>4
<1>6. Max(T) \in T /\ \A j \in T : Max(T) >= j BY <1>5 DEF Max
<1> DEFINE x == Max(T)
<1>7. x \in T /\ \A j \in T : x >= j BY <1>6
<1> HIDE DEF x, D
<1>8. \A j \in T : j \in Nat OBVIOUS
<1>9. \A j \in T : j <= x BY <1>7, <1>8
<1> QED BY <1>7, <1>9 DEF x

(* The frame a packet depends on is an IDR, and the last one up to it. *)
LEMMA IdrIsKey ==
  ASSUME NEW k \in Nat
  PROVE  IdrOf(k) \in 0..k /\ (IdrOf(k) # 0 => frames[IdrOf(k)].key)
<1> DEFINE T == {i \in 1..k : frames[i].key}
<1>1. CASE T = {} BY <1>1 DEF IdrOf
<1>2. CASE T # {}
  <2>1. T \in SUBSET (1..k) OBVIOUS
  <2>2. IdrOf(k) = Max(T) BY <1>2 DEF IdrOf
  <2>3. Max(T) \in T
    <3> HIDE DEF T
    <3> QED BY <1>2, <2>1, GreatestNumber
  <2> QED BY <2>2, <2>3
<1> QED BY <1>1, <1>2

LEMMA StillShowable ==
  ASSUME EncoderInv, FramesGrow, EncoderInv', NEW k \in Showable
  PROVE  k \in Showable' /\ frames'[k] = frames[k] /\ k \in 1..Len(frames) /\ k \in 1..MaxFrames
<1>1. Len(frames) \in Nat /\ Len(frames') \in Nat /\ Len(frames) <= MaxFrames /\ MaxFrames \in Nat
  BY LenProperties, EndToEndAssumption DEF EncoderInv
<1>2. k \in 1..Len(frames) /\ Fits32(Len(frames[k].bytes)) BY DEF Showable
<1>3. frames'[k] = frames[k] /\ Len(frames) <= Len(frames') BY <1>2 DEF FramesGrow
<1>4. k \in 1..Len(frames') /\ k \in 1..MaxFrames BY <1>1, <1>2, <1>3
<1> QED BY <1>2, <1>3, <1>4 DEF Showable

LEMMA PostedStep ==
  ASSUME EncoderInv, PostedInv, [Next]_vars, FramesGrow, EncoderInv'
  PROVE  PostedInv'
<1>0. posted \in Seq(Nat) /\ Len(frames) \in Nat
      /\ \A i \in 1..Len(posted) : posted[i] = Restart \/ posted[i] \in Showable
  BY LenProperties DEF EncoderInv, PostedInv
<1>1. \A k \in Showable : k \in Showable' BY StillShowable
<1>2. ASSUME posted' = posted PROVE PostedInv' BY <1>0, <1>1, <1>2 DEF PostedInv, Restart
<1>3. ASSUME NEW n \in Nat, n = Restart \/ n \in Showable', posted' = Append(posted, n)
      PROVE  PostedInv'
  <2>1. /\ posted' \in Seq(Nat) /\ Len(posted') = Len(posted) + 1
        /\ \A i \in 1..Len(posted) : posted'[i] = posted[i]
        /\ posted'[Len(posted) + 1] = n
        /\ \A i \in 1..(Len(posted) + 1) : i \in 1..Len(posted) \/ i = Len(posted) + 1
    BY <1>0, <1>3, Appending
  <2>2. \A i \in 1..Len(posted') : posted'[i] = Restart \/ posted'[i] \in Showable'
    <3> SUFFICES ASSUME NEW i \in 1..Len(posted') PROVE posted'[i] = Restart \/ posted'[i] \in Showable'
      OBVIOUS
    <3>1. CASE i \in 1..Len(posted) BY <1>0, <1>1, <2>1, <3>1
    <3>2. CASE i = Len(posted) + 1 BY <1>3, <2>1, <3>2
    <3> QED BY <2>1, <3>1, <3>2
  <2> QED BY <2>1, <2>2 DEF PostedInv, Restart
<1>4. ASSUME posted # <<>>, posted' = Tail(posted) PROVE PostedInv'
  <2>1. /\ posted' \in Seq(Nat)
        /\ \A i \in 1..Len(posted') : i + 1 \in 1..Len(posted) /\ posted'[i] = posted[i + 1]
    BY <1>0, <1>4, Tailing
  <2>2. \A i \in 1..Len(posted') : posted'[i] = Restart \/ posted'[i] \in Showable'
    BY <1>0, <1>1, <2>1
  <2> QED BY <2>1, <2>2 DEF PostedInv, Restart
<1>5. ASSUME NEW e \in Encoders, NEW s \in Samples, NextEncodedFrameNumber(e, s) PROVE posted' = posted
  BY <1>5 DEF NextEncodedFrameNumber, phone
<1>6. CASE PostFrame
  <2>1. PICK f : Posts(f) BY <1>6, Posting
  <2>2. CASE ~Fits32(Len(f.bytes)) BY <1>2, <2>1, <2>2 DEF Posts
  <2>3. CASE Fits32(Len(f.bytes))
    <3> DEFINE n == Len(frames) + 1
    <3>1. n \in 1..Len(frames') /\ frames'[n] = f /\ n \in Nat BY <1>0, <2>1 DEF Posts
    <3>2. n \in Showable' BY <2>3, <3>1 DEF Showable
    <3>3. posted' = Append(posted, n) BY <2>1, <2>3 DEF Posts
    <3> HIDE DEF n
    <3> QED BY <1>3, <3>1, <3>2, <3>3
  <2> QED BY <2>2, <2>3
<1>7. CASE ResetTelemetry BY <1>2, <1>7 DEF ResetTelemetry, phone
<1>8. CASE RestartListening
  <2>1. posted' = Append(posted, 0) BY <1>8 DEF RestartListening, Restart
  <2> QED BY <1>3, <2>1 DEF Restart
<1>9. ASSUME NEW k \in 1..MaxFrames, Send(k) \/ DropFrame(k) PROVE PostedInv'
  BY <1>4, <1>9 DEF Send, DropFrame, Runs
<1>10. CASE RunRestart BY <1>4, <1>10 DEF RunRestart, Runs
<1>11. ASSUME NEW c \in Connections, NewConnection(c) PROVE posted' = posted
  BY <1>11 DEF NewConnection
<1>12. CASE UNCHANGED vars BY <1>2, <1>12 DEF vars, phone
<1>13. CASE ConnectionEnds BY <1>2, <1>13 DEF ConnectionEnds
<1>14. CASE Connect \/ ReadHeader \/ ReadFrame \/ SessionEnds
  BY <1>2, <1>14 DEF Connect, ReadHeader, ReadFrame, SessionEnds, phone
<1> QED BY <1>2, <1>5, <1>6, <1>7, <1>8, <1>9, <1>10, <1>11, <1>12, <1>13, <1>14 DEF Next

LEMMA ListenerStep ==
  ASSUME ListenerInv, [Next]_vars
  PROVE  ListenerInv'
<1> USE EndToEndAssumption DEF ListenerInv, NoViewer
<1>1. ASSUME opened' = opened, accepted' = accepted, viewer' = viewer \/ viewer' = 0
      PROVE  ListenerInv'
  BY <1>1
<1>2. ASSUME NEW e \in Encoders, NEW s \in Samples, NextEncodedFrameNumber(e, s) PROVE ListenerInv'
  BY <1>1, <1>2 DEF NextEncodedFrameNumber, phone, receiver
<1>3. CASE PostFrame BY <1>1, <1>3 DEF PostFrame, receiver
<1>4. CASE ResetTelemetry BY <1>1, <1>4 DEF ResetTelemetry, phone, receiver
<1>5. CASE RestartListening BY <1>1, <1>5 DEF RestartListening, receiver
<1>6. ASSUME NEW k \in 1..MaxFrames, Send(k) \/ DropFrame(k) PROVE ListenerInv'
  BY <1>1, <1>6 DEF Send, DropFrame, receiver, Feed!Show
<1>7. CASE RunRestart BY <1>1, <1>7 DEF RunRestart, receiver, Feed!Leave
<1>8. CASE ConnectionEnds BY <1>1, <1>8 DEF ConnectionEnds, receiver, Feed!Leave
<1>9. ASSUME NEW c \in Connections, NewConnection(c) PROVE ListenerInv'
  <2>1. c \in (accepted + 1)..opened /\ accepted' = c /\ viewer' = c /\ opened' = opened
    BY <1>9 DEF NewConnection, receiver, Feed!Join
  <2> QED BY <2>1
<1>10. CASE Connect BY <1>10 DEF Connect, phone
<1>11. CASE ReadHeader \/ ReadFrame \/ SessionEnds
  BY <1>1, <1>11 DEF ReadHeader, ReadFrame, SessionEnds, phone
<1>12. CASE UNCHANGED vars BY <1>1, <1>12 DEF vars, phone, receiver
<1> QED BY <1>2, <1>3, <1>4, <1>5, <1>6, <1>7, <1>8, <1>9, <1>10, <1>11, <1>12 DEF Next

(* Every step leaves the feed as it is, or appends a frame to that of the viewer. *)
Shows(k, c) ==
  /\ k \in Showable /\ c \in Connections /\ c = accepted
  /\ feed' = [feed EXCEPT ![c] = Append(@, [frame |-> k, idr |-> IdrOf(k)])]
  /\ feed[c] = <<>> => IdrOf(k) = k
  /\ \A d \in Connections : \A i \in 1..Len(feed[d]) : feed[d][i].frame < k
  /\ UNCHANGED <<frames, accepted>>

LEMMA FeedChange ==
  ASSUME PostedInv, ListenerInv, [Next]_vars
  PROVE  feed' = feed \/ \E k, c : Shows(k, c)
<1>1. ASSUME NEW e \in Encoders, NEW s \in Samples, NextEncodedFrameNumber(e, s) PROVE feed' = feed
  BY <1>1 DEF NextEncodedFrameNumber, phone
<1>2. CASE PostFrame BY <1>2 DEF PostFrame
<1>3. CASE ResetTelemetry BY <1>3 DEF ResetTelemetry, phone
<1>4. CASE RestartListening BY <1>4 DEF RestartListening
<1>5. ASSUME NEW k \in 1..MaxFrames, DropFrame(k) PROVE feed' = feed BY <1>5 DEF DropFrame
<1>6. ASSUME NEW k \in 1..MaxFrames, Send(k) PROVE Shows(k, viewer)
  <2> DEFINE p == [frame |-> k, idr |-> IdrOf(k)]
  <2>1. /\ posted # <<>> /\ Head(posted) = k /\ frames' = frames /\ accepted' = accepted
        /\ viewer # NoViewer /\ feed' = [feed EXCEPT ![viewer] = Append(@, p)]
        /\ Feed!Newest(p) /\ Feed!Decodable(p, feed[viewer])
    BY <1>6 DEF Send, Runs, encoder, Feed!Show
  <2>2. k \in Showable
    <3>1. 1 \in 1..Len(posted) /\ posted[1] = k BY <2>1, Tailing DEF PostedInv
    <3>2. k # 0 OBVIOUS
    <3> QED BY <3>1, <3>2 DEF PostedInv, Restart
  <2>3. viewer \in Connections /\ viewer = accepted
    BY <2>1, EndToEndAssumption DEF ListenerInv, NoViewer, Connections
  <2>4. p.frame = k /\ p.idr = IdrOf(k) OBVIOUS
  <2>5. feed[viewer] = <<>> => IdrOf(k) = k
    BY <2>1, <2>4 DEF Feed!Decodable, Feed!IsIdr
  <2>6. \A d \in Connections : \A i \in 1..Len(feed[d]) : feed[d][i].frame < k
    BY <2>1, <2>4 DEF Feed!Newest
  <2> QED BY <2>1, <2>2, <2>3, <2>5, <2>6 DEF Shows
<1>7. CASE RunRestart BY <1>7 DEF RunRestart, Feed!Leave
<1>8. CASE ConnectionEnds BY <1>8 DEF ConnectionEnds, Feed!Leave
<1>9. ASSUME NEW c \in Connections, NewConnection(c) PROVE feed' = feed
  BY <1>9 DEF NewConnection, Feed!Join
<1>10. CASE Connect \/ ReadHeader \/ ReadFrame \/ SessionEnds
  BY <1>10 DEF Connect, ReadHeader, ReadFrame, SessionEnds, phone
<1>11. CASE UNCHANGED vars BY <1>11 DEF vars, phone
<1> QED BY <1>1, <1>2, <1>3, <1>4, <1>5, <1>6, <1>7, <1>8, <1>9, <1>10, <1>11 DEF Next

(* The connections the phone has accepted only get more. *)
LEMMA AcceptedGrows ==
  ASSUME ListenerInv, [Next]_vars
  PROVE  accepted \in Nat /\ accepted' \in Nat /\ accepted <= accepted'
<1>0. accepted \in 0..opened /\ opened \in 0..MaxConnections /\ MaxConnections \in Nat
  BY EndToEndAssumption DEF ListenerInv
<1>1. CASE accepted' = accepted BY <1>0, <1>1
<1>2. ASSUME NEW c \in Connections, NewConnection(c)
      PROVE  accepted' \in Nat /\ accepted <= accepted'
  <2>1. c \in (accepted + 1)..opened /\ accepted' = c BY <1>2 DEF NewConnection
  <2> QED BY <1>0, <2>1
<1>3. ASSUME NEW e \in Encoders, NEW s \in Samples, NextEncodedFrameNumber(e, s) PROVE accepted' = accepted
  BY <1>3 DEF NextEncodedFrameNumber, phone
<1>4. ASSUME NEW k \in 1..MaxFrames, Send(k) \/ DropFrame(k) PROVE accepted' = accepted
  BY <1>4 DEF Send, DropFrame
<1>5. CASE PostFrame \/ ResetTelemetry \/ RestartListening \/ RunRestart \/ ConnectionEnds
  BY <1>1, <1>5 DEF PostFrame, ResetTelemetry, RestartListening, RunRestart, ConnectionEnds, phone
<1>6. CASE Connect \/ ReadHeader \/ ReadFrame \/ SessionEnds
  BY <1>1, <1>6 DEF Connect, ReadHeader, ReadFrame, SessionEnds, phone
<1>7. CASE UNCHANGED vars BY <1>1, <1>7 DEF vars, phone
<1> QED BY <1>0, <1>1, <1>2, <1>3, <1>4, <1>5, <1>6, <1>7 DEF Next

LEMMA Shown ==
  ASSUME EncoderInv, FeedInv, NEW k, NEW c, Shows(k, c)
  PROVE  LET p == [frame |-> k, idr |-> IdrOf(k)]  n == Len(feed[c]) IN
         /\ p \in Packets /\ k \in 1..Len(frames)
         /\ feed' \in [Connections -> Seq(Packets)] /\ c \in Connections /\ n \in Nat
         /\ \A d \in Connections : d # c => feed'[d] = feed[d]
         /\ Len(feed'[c]) = n + 1 /\ feed'[c][n + 1] = p
         /\ \A i \in 1..n : feed'[c][i] = feed[c][i]
         /\ \A i \in 1..(n + 1) : i \in 1..n \/ i = n + 1
<1> DEFINE p == [frame |-> k, idr |-> IdrOf(k)]
           s == feed[c]
           t == Append(s, p)
<1>1. /\ k \in 1..Len(frames) /\ c \in Connections /\ feed \in [Connections -> Seq(Packets)]
      /\ feed' = [feed EXCEPT ![c] = t]
  BY DEF Shows, Showable, FeedInv
<1>2. Len(frames) \in Nat /\ Len(frames) <= MaxFrames /\ MaxFrames \in Nat
  BY LenProperties, EndToEndAssumption DEF EncoderInv
<1>3. k \in Nat /\ k \in 1..MaxFrames /\ \A i \in 0..k : i \in 0..MaxFrames BY <1>1, <1>2
<1>4. IdrOf(k) \in 0..MaxFrames BY <1>3, IdrIsKey
<1>5. p \in Packets BY <1>3, <1>4 DEF Packets
<1>6. s \in Seq(Packets) BY <1>1
<1> HIDE DEF p, s
<1>7. /\ t \in Seq(Packets) /\ Len(s) \in Nat /\ Len(t) = Len(s) + 1
      /\ \A i \in 1..Len(s) : t[i] = s[i]
      /\ t[Len(s) + 1] = p
      /\ \A i \in 1..(Len(s) + 1) : i \in 1..Len(s) \/ i = Len(s) + 1
  BY <1>5, <1>6, Appending
<1> HIDE DEF t
<1>8. /\ feed' \in [Connections -> Seq(Packets)] /\ feed'[c] = t
      /\ \A d \in Connections : d # c => feed'[d] = feed[d]
  BY <1>1, <1>7
<1> QED BY <1>1, <1>5, <1>7, <1>8 DEF p, s

LEMMA FeedStep ==
  ASSUME EncoderInv, PostedInv, ListenerInv, FeedInv, [Next]_vars, EncoderInv', FramesGrow
  PROVE  FeedInv' /\ FeedGrows
<1>0. \A k \in Showable : k \in Showable' /\ frames'[k] = frames[k] BY StillShowable
<1>1. /\ feed \in [Connections -> Seq(Packets)]
      /\ \A c \in Connections : \A i \in 1..Len(feed[c]) : feed[c][i].frame \in Showable
      /\ \A c \in Connections :
           feed[c] # <<>> => frames[feed[c][1].frame].key /\ c <= accepted
      /\ \A c \in Connections : Len(feed[c]) \in Nat /\ (feed[c] # <<>> => 1 \in 1..Len(feed[c]))
  <2>1. ASSUME NEW c \in Connections
        PROVE  Len(feed[c]) \in Nat /\ (feed[c] # <<>> => 1 \in 1..Len(feed[c]))
    <3> DEFINE s == feed[c]
               n == Len(s)
    <3>1. s \in Seq(Packets) BY DEF FeedInv
    <3> HIDE DEF s
    <3>2. n \in Nat /\ (s # <<>> => n # 0) BY <3>1, LenProperties, EmptySeq
    <3> HIDE DEF n
    <3>3. s # <<>> => 1 \in 1..n BY <3>2
    <3> QED BY <3>2, <3>3 DEF s, n
  <2> QED BY <2>1 DEF FeedInv, FrameAt
<1>2. accepted \in Nat /\ accepted' \in Nat /\ accepted <= accepted' /\ Connections \subseteq Nat
  BY AcceptedGrows DEF Connections
<1>3. CASE feed' = feed
  <2>1. FeedGrows BY <1>1, <1>3 DEF FeedGrows
  <2>2. ASSUME NEW c \in Connections, feed[c] # <<>>
        PROVE  frames'[feed[c][1].frame].key /\ c <= accepted'
    <3>1. feed[c][1].frame \in Showable BY <1>1, <2>2
    <3> QED BY <1>0, <1>1, <1>2, <2>2, <3>1
  <2>3. \A c \in Connections : \A i \in 1..Len(feed[c]) : feed[c][i].frame \in Showable'
    BY <1>0, <1>1
  <2> QED BY <1>1, <1>3, <2>1, <2>2, <2>3 DEF FeedInv, FrameAt
<1>4. ASSUME NEW k, NEW c, Shows(k, c) PROVE FeedInv' /\ FeedGrows
  <2> DEFINE p == [frame |-> k, idr |-> IdrOf(k)]
             n == Len(feed[c])
  <2>1. /\ p \in Packets /\ k \in 1..Len(frames)
        /\ feed' \in [Connections -> Seq(Packets)] /\ c \in Connections /\ n \in Nat
        /\ \A d \in Connections : d # c => feed'[d] = feed[d]
        /\ Len(feed'[c]) = n + 1 /\ feed'[c][n + 1] = p
        /\ \A i \in 1..n : feed'[c][i] = feed[c][i]
        /\ \A i \in 1..(n + 1) : i \in 1..n \/ i = n + 1
    BY <1>4, Shown
  <2>2. /\ k \in Showable /\ c = accepted /\ frames' = frames /\ accepted' = accepted
        /\ feed[c] = <<>> => IdrOf(k) = k
    BY <1>4 DEF Shows
  <2>3. FeedGrows
    <3> SUFFICES ASSUME NEW d \in Connections
                 PROVE  /\ Len(feed[d]) <= Len(feed'[d])
                        /\ \A i \in 1..Len(feed[d]) : feed'[d][i] = feed[d][i]
      BY DEF FeedGrows
    <3>1. CASE d # c BY <1>1, <2>1, <3>1
    <3>2. CASE d = c
      <4>1. n <= n + 1 BY <2>1
      <4> QED BY <2>1, <3>2, <4>1
    <3> QED BY <3>1, <3>2
  <2>4. ASSUME NEW d \in Connections, NEW i \in 1..Len(feed'[d])
        PROVE  feed'[d][i].frame \in Showable'
    <3>1. CASE d # c BY <1>0, <1>1, <2>1, <2>4, <3>1
    <3>2. CASE d = c /\ i \in 1..n
      <4>1. feed'[c][i] = feed[c][i] BY <2>1, <3>2
      <4>2. feed[c][i].frame \in Showable BY <1>1, <3>2
      <4> QED BY <1>0, <3>2, <4>1, <4>2
    <3>3. CASE d = c /\ i = n + 1
      <4>1. feed'[c][i].frame = k BY <2>1, <3>3
      <4> QED BY <1>0, <2>2, <3>3, <4>1
    <3> QED BY <2>1, <3>1, <3>2, <3>3
  <2>5. ASSUME NEW d \in Connections, feed'[d] # <<>>
        PROVE  frames'[feed'[d][1].frame].key /\ d <= accepted'
    <3>1. CASE d # c BY <1>1, <2>1, <2>2, <2>5, <3>1
    <3>2. CASE d = c /\ feed[c] # <<>>
      <4>1. 1 \in 1..n BY <1>1, <3>2
      <4>2. feed'[c][1] = feed[c][1] BY <2>1, <4>1
      <4> QED BY <1>1, <2>1, <2>2, <3>2, <4>2
    <3>3. CASE d = c /\ feed[c] = <<>>
      <4>1. n = 0 BY <3>3
      <4>2. feed'[c][1] = p BY <2>1, <4>1
      <4>3. feed'[c][1].frame = k BY <4>2
      <4>4. k \in Nat /\ k # 0 BY <2>1
      <4>5. frames[k].key
        <5>1. IdrOf(k) = k BY <2>2, <3>3
        <5> QED BY <4>4, <5>1, IdrIsKey
      <4>6. d <= accepted' BY <1>2, <2>2, <3>3
      <4> QED BY <2>2, <3>3, <4>3, <4>5, <4>6
    <3> QED BY <3>1, <3>2, <3>3
  <2> HIDE DEF p, n
  <2> QED BY <2>1, <2>3, <2>4, <2>5 DEF FeedInv, FrameAt
<1> QED BY <1>3, <1>4, FeedChange

-----------------------------------------------------------------------------
(* The bytes of a connection. *)

LEMMA EncodeType ==
  ASSUME NEW h \in Headers
  PROVE  Encode(h) \in Seq(Nat) /\ Len(Encode(h)) = HeaderSize
<1> DEFINE e == Encode(h)
           hi == High(h.timestamp)
<1>1. h.number \in Nat /\ h.timestamp \in Nat /\ h.codec \in Bytes /\ h.size \in Nat
  BY DEF Headers, Fits32, Fits64
<1>2. hi \in Nat /\ Magic \in Nat BY <1>1, LowWord DEF Magic
<1> HIDE DEF hi
<1>3. \A n \in Nat : \A i \in 1..4 : Bytes32(n)[i] \in Nat
  <2> TAKE n \in Nat
  <2>1. Bytes32(n) \in [1..4 -> Bytes] BY LowWord
  <2> HIDE DEF Bytes32
  <2> QED BY <2>1 DEF Bytes
<1> DEFINE w(i) == CASE i \in 1..4   -> Bytes32(Magic)[i]
                     [] i \in 5..8   -> Bytes32(h.number)[i - 4]
                     [] i \in 9..12  -> Bytes32(h.timestamp)[i - 8]
                     [] i \in 13..16 -> Bytes32(hi)[i - 12]
                     [] i = 17       -> h.codec
                     [] i \in 18..21 -> Bytes32(h.size)[i - 17]
<1>4. e = [i \in 1..HeaderSize |-> w(i)] BY DEF Encode, HeaderWrite, hi
<1>5. ASSUME NEW i \in 1..HeaderSize PROVE w(i) \in Nat
  <2>0. i \in Nat /\ i >= 1 /\ i <= 21 BY DEF HeaderSize
  <2>2. CASE i \in 1..4
    <3>1. w(i) = Bytes32(Magic)[i] BY <2>2
    <3> QED BY <1>2, <1>3, <2>2, <3>1
  <2>3. CASE i \in 5..8
    <3>1. w(i) = Bytes32(h.number)[i - 4] /\ i - 4 \in 1..4 BY <2>3
    <3> QED BY <1>1, <1>3, <3>1
  <2>4. CASE i \in 9..12
    <3>1. w(i) = Bytes32(h.timestamp)[i - 8] /\ i - 8 \in 1..4 BY <2>4
    <3> QED BY <1>1, <1>3, <3>1
  <2>5. CASE i \in 13..16
    <3>1. w(i) = Bytes32(hi)[i - 12] /\ i - 12 \in 1..4 BY <2>5
    <3> QED BY <1>2, <1>3, <3>1
  <2>6. CASE i = 17
    <3>1. w(i) = h.codec BY <2>6
    <3>2. h.codec \in Nat BY <1>1 DEF Bytes
    <3> QED BY <3>1, <3>2
  <2>7. CASE i \in 18..21
    <3>1. w(i) = Bytes32(h.size)[i - 17] /\ i - 17 \in 1..4 BY <2>7
    <3> QED BY <1>1, <1>3, <3>1
  <2> QED BY <2>0, <2>2, <2>3, <2>4, <2>5, <2>6, <2>7
<1> HIDE DEF e, w
<1>6. e \in [1..HeaderSize -> Nat] BY <1>4, <1>5
<1>7. HeaderSize \in Nat BY DEF HeaderSize
<1>8. e \in Seq(Nat) /\ Len(e) = HeaderSize BY <1>6, <1>7, FunctionIsSeq
<1> QED BY <1>8 DEF e

(* A packet is its header and the frame's bytes, and its header is one the protocol has. *)
LEMMA PacketType ==
  ASSUME EncoderInv, NEW k \in Showable
  PROVE  LET f == frames[k] IN
         /\ f \in Records /\ FrameIsRight(f) /\ f.bytes \in Seq(Nat) /\ Len(f.bytes) \in Nat
         /\ HeaderOf(f) \in Headers
         /\ Packet(f) \in Seq(Nat) /\ Len(Packet(f)) = HeaderSize + Len(f.bytes)
         /\ \A j \in 1..HeaderSize : Packet(f)[j] = Encode(HeaderOf(f))[j]
         /\ \A j \in 1..Len(f.bytes) : Packet(f)[HeaderSize + j] = f.bytes[j]
<1> DEFINE f == frames[k]
           b == f.bytes
           h == HeaderOf(f)
           e == Encode(h)
<1>1. k \in 1..Len(frames) /\ Fits32(Len(b)) BY DEF Showable
<1>2. f \in Records /\ FrameIsRight(f) /\ Fits32(f.number) BY <1>1 DEF EncoderInv, FrameIsRight
<1>3. b \in Seq(Nat) BY <1>2 DEF Records
<1>4. Fits64(0) BY SMT DEF Fits64, Fits32, High
<1>5. h \in Headers
  <2>0. \A x : Fits32(x) => x \in Nat BY DEF Fits32
  <2>1. Fits32(Len(b)) /\ Len(b) \in Nat /\ Fits32(f.number) /\ f.number \in Nat
    BY <1>1, <1>2, <2>0
  <2>2. Hevc \in Bytes BY DEF Hevc, Bytes
  <2> HIDE DEF f
  <2> QED BY <1>4, <2>1, <2>2 DEF HeaderOf, Headers
<1> HIDE DEF h
<1>6. e \in Seq(Nat) /\ Len(e) = HeaderSize BY <1>5, EncodeType
<1> HIDE DEF e, b
<1>7. e \o b \in Seq(Nat) BY <1>3, <1>6, ConcatProperties
<1>8. /\ Len(e \o b) = HeaderSize + Len(b)
      /\ \A j \in 1..HeaderSize : (e \o b)[j] = e[j]
      /\ \A j \in 1..Len(b) : (e \o b)[HeaderSize + j] = b[j]
  <2>1. Joined(e, b) BY <1>3, <1>6, ConcatJoined
  <2> QED BY <1>6, <2>1 DEF Joined
<1>9. Packet(f) = e \o b BY DEF Packet, e, h, b
<1>10. Len(b) \in Nat BY <1>3, LenProperties
<1> HIDE DEF f
<1> QED BY <1>2, <1>3, <1>5, <1>7, <1>8, <1>9, <1>10 DEF b, e, h, f

PacketsOf(c, n) == [i \in 1..n |-> Packet(FrameAt(c, i))]

LEMMA StreamType ==
  ASSUME EncoderInv, FeedInv, NEW c \in Connections, NEW n \in Nat, n <= Len(feed[c])
  PROVE  /\ PacketsOf(c, n) \in [1..n -> Seq(Nat)] /\ Bytestream(c, n) = FlattenSeq(PacketsOf(c, n))
         /\ Bytestream(c, n) \in Seq(Nat) /\ Len(Bytestream(c, n)) \in Nat
<1>1. Len(feed[c]) \in Nat BY LenProperties DEF FeedInv
<1>2. \A i \in 1..n : i \in 1..Len(feed[c]) BY <1>1
<1>3. \A i \in 1..n : Packet(FrameAt(c, i)) \in Seq(Nat)
  <2> TAKE i \in 1..n
  <2>1. feed[c][i].frame \in Showable BY <1>2 DEF FeedInv
  <2> QED BY <2>1, PacketType DEF FrameAt
<1>4. PacketsOf(c, n) \in [1..n -> Seq(Nat)] BY <1>3 DEF PacketsOf
<1>5. Bytestream(c, n) = FlattenSeq(PacketsOf(c, n)) BY DEF Bytestream, PacketsOf
<1>6. Bytestream(c, n) \in Seq(Nat) BY <1>4, <1>5, FlattenType
<1> QED BY <1>4, <1>5, <1>6, LenProperties

(* Where the next packet stands, and what is read there. *)
LEMMA OnStream ==
  ASSUME EncoderInv, FeedInv, NEW c \in Connections, NEW n \in Nat, n < Len(feed[c])
  PROVE  LET S == Bytestream(c, Len(feed[c]))
             o == Len(Bytestream(c, n))
             f == FrameAt(c, n + 1)
             m == Len(f.bytes)
         IN  /\ o \in Nat /\ m \in Nat
             /\ SubSeq(S, o + 1, o + HeaderSize) = Encode(HeaderOf(f))
             /\ SubSeq(S, (o + HeaderSize) + 1, (o + HeaderSize) + m) = f.bytes
             /\ Len(Bytestream(c, n + 1)) = (o + HeaderSize) + m
<1> DEFINE N == Len(feed[c])
           g == PacketsOf(c, N)
           S == Bytestream(c, N)
           o == Len(Bytestream(c, n))
           f == FrameAt(c, n + 1)
           b == f.bytes
           m == Len(b)
           e == Encode(HeaderOf(f))
           L == Len(S)
<1>1. N \in Nat /\ n + 1 \in 1..N /\ n + 1 \in Nat /\ n + 1 <= N /\ n <= N
  <2>1. N \in Nat BY LenProperties DEF FeedInv
  <2> QED BY <2>1
<1>2. feed[c][n + 1].frame \in Showable BY <1>1 DEF FeedInv
<1>3. /\ b \in Seq(Nat) /\ m \in Nat /\ HeaderOf(f) \in Headers /\ Len(Packet(f)) = HeaderSize + m
      /\ \A j \in 1..HeaderSize : Packet(f)[j] = e[j]
      /\ \A j \in 1..m : Packet(f)[HeaderSize + j] = b[j]
  BY <1>2, PacketType DEF FrameAt
<1>4. e \in Seq(Nat) /\ Len(e) = HeaderSize BY <1>3, EncodeType
<1>5. g \in [1..N -> Seq(Nat)] /\ S = FlattenSeq(g) /\ S \in Seq(Nat) /\ L \in Nat
  <2>1. N \in Nat /\ N <= Len(feed[c]) BY <1>1
  <2> HIDE DEF N
  <2> QED BY <2>1, StreamType
<1>6. /\ Bytestream(c, n) = FlattenSeq(PacketsOf(c, n))
      /\ Bytestream(c, n + 1) = FlattenSeq(PacketsOf(c, n + 1))
  BY DEF Bytestream, PacketsOf
<1>7. Leading(g, n) = PacketsOf(c, n) /\ Leading(g, n + 1) = PacketsOf(c, n + 1)
      /\ g[n + 1] = Packet(f)
  <2>1. \A i \in 1..n : i \in 1..N BY <1>1
  <2>2. \A i \in 1..(n + 1) : i \in 1..N BY <1>1
  <2> HIDE DEF N
  <2> QED BY <1>1, <2>1, <2>2 DEF Leading, PacketsOf
<1>8. (n + 1) - 1 = n /\ ((n + 1) + 1) - 1 = n + 1 OBVIOUS
<1>9. o = Offset(g, n + 1) /\ Len(Bytestream(c, n + 1)) = Offset(g, (n + 1) + 1)
  BY <1>6, <1>7, <1>8 DEF Offset
<1> HIDE DEF N, g, S, o, f, b, m, e, L
<1>10. /\ o \in Nat /\ Offset(g, (n + 1) + 1) = o + Len(g[n + 1])
       /\ Offset(g, (n + 1) + 1) <= Len(FlattenSeq(g)) /\ IsPlaced(g, n + 1)
  <2>1. /\ Offset(g, n + 1) \in Nat
        /\ Offset(g, (n + 1) + 1) = Offset(g, n + 1) + Len(g[n + 1])
        /\ Offset(g, (n + 1) + 1) <= Len(FlattenSeq(g))
        /\ IsPlaced(g, n + 1)
    BY <1>1, <1>5, Placement, Zenon
  <2> QED BY <1>9, <2>1
<1>11. o + (HeaderSize + m) <= L BY <1>3, <1>5, <1>7, <1>10 DEF L
<1>12. \A j \in 1..(HeaderSize + m) : S[o + j] = Packet(f)[j]
  BY <1>3, <1>5, <1>7, <1>9, <1>10 DEF IsPlaced
<1>13. SubSeq(S, o + 1, o + HeaderSize) = e
  <2>1. \A j \in 1..HeaderSize : j \in 1..(HeaderSize + m) BY <1>3 DEF HeaderSize
  <2>2. \A j \in 1..Len(e) : S[o + j] = e[j] BY <1>3, <1>4, <1>12, <2>1
  <2>3. o + Len(e) <= Len(S) BY <1>3, <1>4, <1>5, <1>10, <1>11 DEF L, HeaderSize
  <2>4. SubSeq(S, o + 1, o + Len(e)) = e BY <1>4, <1>5, <1>10, <2>2, <2>3, SubSeqIs
  <2> QED BY <1>4, <2>4
<1> DEFINE q == o + HeaderSize
<1>14. SubSeq(S, q + 1, q + m) = b
  <2>1. \A j \in 1..m : /\ HeaderSize + j \in 1..(HeaderSize + m)
                        /\ o + (HeaderSize + j) = q + j
    BY <1>3, <1>10 DEF HeaderSize
  <2>2. q \in Nat /\ q + m <= L BY <1>3, <1>5, <1>10, <1>11 DEF HeaderSize
  <2> HIDE DEF q
  <2>3. \A j \in 1..m : S[q + j] = b[j]
    <3> SUFFICES ASSUME NEW j \in 1..m PROVE S[q + j] = b[j] OBVIOUS
    <3>1. S[o + (HeaderSize + j)] = Packet(f)[HeaderSize + j] BY <1>12, <2>1
    <3> QED BY <1>3, <2>1, <3>1
  <2>4. q + Len(b) <= Len(S) /\ \A j \in 1..Len(b) : S[q + j] = b[j] BY <2>2, <2>3 DEF m, L
  <2>5. SubSeq(S, q + 1, q + Len(b)) = b BY <1>3, <1>5, <2>2, <2>4, SubSeqIs
  <2> QED BY <2>5 DEF m
<1>15. Len(Bytestream(c, n + 1)) = q + m
  <2>1. Len(Bytestream(c, n + 1)) = o + (HeaderSize + m) BY <1>3, <1>7, <1>9, <1>10
  <2>2. o \in Nat /\ m \in Nat /\ HeaderSize \in Nat BY <1>3, <1>10 DEF HeaderSize
  <2>3. o + (HeaderSize + m) = q + m BY <2>2
  <2> QED BY <2>1, <2>3
<1> QED BY <1>3, <1>10, <1>13, <1>14, <1>15 DEF N, S, o, f, b, m, e

-----------------------------------------------------------------------------
(* The receiver's session. *)

(* The session of connection c has given n frames to the relay, and stands behind the n-th *)
(* packet or behind the header of the next.                                                *)
IsAt(c, n) ==
  /\ n <= Len(feed[c])
  /\ \A i \in 1..n : taken[i] = FrameAt(c, i).bytes
  /\ pc = "header" => at = Len(Bytestream(c, n))
  /\ pc \in {"frame", "refused"} => n < Len(feed[c]) /\ at = Len(Bytestream(c, n)) + HeaderSize
  /\ pc = "frame" => header = HeaderOf(FrameAt(c, n + 1))
  /\ pc = "refused" => Len(FrameAt(c, n + 1).bytes) \notin 1..MaxFrameSize

SessionInv ==
  /\ pc \in {"closed", "header", "frame", "refused"}
  /\ opened = 0 => pc = "closed" /\ taken = <<>>
  /\ taken \in Seq(Seq(Nat)) /\ (waiting <=> taken = <<>>)
  /\ \A c \in Connections : \A n \in Nat : c = opened /\ n = Len(taken) => IsAt(c, n)

LEMMA Stable ==
  ASSUME EncoderInv, FeedInv, FramesGrow, FeedGrows, EncoderInv', FeedInv', NEW c \in Connections
  PROVE  /\ Len(feed[c]) \in Nat /\ Len(feed'[c]) \in Nat /\ Len(feed[c]) <= Len(feed'[c])
         /\ \A i \in 1..Len(feed[c]) : FrameAt(c, i)' = FrameAt(c, i)
         /\ \A n \in Nat : n <= Len(feed[c]) => Bytestream(c, n)' = Bytestream(c, n)
<1>1. Len(feed[c]) \in Nat /\ Len(feed'[c]) \in Nat BY LenProperties DEF FeedInv
<1>2. Len(feed[c]) <= Len(feed'[c]) BY DEF FeedGrows
<1>3. \A i \in 1..Len(feed[c]) : FrameAt(c, i)' = FrameAt(c, i)
  <2> SUFFICES ASSUME NEW i \in 1..Len(feed[c]) PROVE frames'[feed'[c][i].frame] = frames[feed[c][i].frame]
    BY DEF FrameAt
  <2>1. feed[c][i].frame \in Showable /\ feed'[c][i] = feed[c][i] BY DEF FeedInv, FeedGrows
  <2> QED BY <2>1, StillShowable
<1>4. ASSUME NEW n \in Nat, n <= Len(feed[c]) PROVE Bytestream(c, n)' = Bytestream(c, n)
  <2>1. \A i \in 1..n : i \in 1..Len(feed[c]) BY <1>1, <1>4
  <2>2. \A i \in 1..n : FrameAt(c, i)' = FrameAt(c, i) BY <1>3, <2>1
  <2>3. \A i \in 1..n : Packet(FrameAt(c, i)') = Packet(FrameAt(c, i)) BY <2>2
  <2>4. [i \in 1..n |-> Packet(FrameAt(c, i)')] = [i \in 1..n |-> Packet(FrameAt(c, i))]
    BY <2>3
  <2>5. /\ Bytestream(c, n)' = FlattenSeq([i \in 1..n |-> Packet(FrameAt(c, i)')])
        /\ Bytestream(c, n) = FlattenSeq([i \in 1..n |-> Packet(FrameAt(c, i))])
    BY DEF Bytestream, Packet, HeaderOf
  <2> QED BY <2>4, <2>5
<1> QED BY <1>1, <1>2, <1>3, <1>4

(* The header that is read is the next frame's. *)
LEMMA NextHeader ==
  ASSUME EncoderInv, FeedInv, NEW c \in Connections, c = opened, NEW n \in Nat, IsAt(c, n),
         pc = "header", Arrived(HeaderSize)
  PROVE  LET b == Following(HeaderSize)  h == HeaderOf(FrameAt(c, n + 1)) IN
         /\ n < Len(feed[c]) /\ at = Len(Bytestream(c, n))
         /\ MagicMatch(b) /\ HeaderRead(b) = h
         /\ AcceptedHeader(h) <=> Len(FrameAt(c, n + 1).bytes) \in 1..MaxFrameSize
<1> DEFINE N == Len(feed[c])
           f == FrameAt(c, n + 1)
           h == HeaderOf(f)
           m == Len(f.bytes)
<1>1. N \in Nat BY LenProperties DEF FeedInv
<1>2. at = Len(Bytestream(c, n)) /\ n <= N BY DEF IsAt
<1>3. Len(Bytestream(c, n)) \in Nat BY <1>2, StreamType
<1>4. n < N
  <2>1. Len(Bytestream(c, N)) >= at + HeaderSize BY DEF Arrived, Sent
  <2>2. n = N => FALSE BY <1>2, <1>3, <2>1 DEF HeaderSize
  <2> QED BY <1>1, <1>2, <2>2
<1>5. /\ SubSeq(Bytestream(c, N), at + 1, at + HeaderSize) = Encode(h) /\ m \in Nat
  BY <1>2, <1>4, OnStream
<1>6. Following(HeaderSize) = Encode(h) BY <1>5 DEF Following, Sent
<1>7. h \in Headers
  <2>1. n + 1 \in 1..N BY <1>1, <1>4
  <2>2. feed[c][n + 1].frame \in Showable BY <2>1 DEF FeedInv
  <2> QED BY <2>2, PacketType DEF FrameAt
<1>8. h.codec = Hevc /\ h.size = m BY DEF HeaderOf
<1> HIDE DEF N, f, h, m
<1>9. AcceptedHeader(h) <=> m \in 1..MaxFrameSize
  BY <1>5, <1>8, FrameSizeAssumption DEF AcceptedHeader, HeaderIsValid
<1>10. MagicMatch(Encode(h)) /\ HeaderRead(Encode(h)) = h BY <1>7, RoundTrip
<1> QED BY <1>2, <1>4, <1>6, <1>9, <1>10 DEF N, f, h, m

(* What is read behind it is the frame, and the first frame is one to start with. *)
LEMMA NextFrame ==
  ASSUME EncoderInv, FeedInv, NEW c \in Connections, c = opened, NEW n \in Nat, IsAt(c, n),
         pc = "frame"
  PROVE  LET f == FrameAt(c, n + 1)  m == header.size IN
         /\ n < Len(feed[c]) /\ m = Len(f.bytes) /\ f.bytes \in Seq(Nat)
         /\ Following(m) = f.bytes
         /\ at + m = Len(Bytestream(c, n + 1))
         /\ n = 0 => ContainsHevcIdr(f.bytes)
<1> DEFINE f == FrameAt(c, n + 1)
           o == Len(Bytestream(c, n))
           N == Len(feed[c])
<1>1. /\ n < N /\ at = o + HeaderSize /\ header = HeaderOf(f) BY DEF IsAt
<1>2. header.size = Len(f.bytes) BY <1>1 DEF HeaderOf
<1>3. /\ SubSeq(Bytestream(c, N), (o + HeaderSize) + 1, (o + HeaderSize) + Len(f.bytes)) = f.bytes
      /\ Len(Bytestream(c, n + 1)) = (o + HeaderSize) + Len(f.bytes)
  BY <1>1, OnStream
<1>4. Following(header.size) = f.bytes BY <1>1, <1>2, <1>3 DEF Following, Sent
<1>5. n + 1 \in 1..N
  <2>1. N \in Nat BY LenProperties DEF FeedInv
  <2> QED BY <1>1, <2>1
<1>6. feed[c][n + 1].frame \in Showable BY <1>5 DEF FeedInv
<1>7. f.bytes \in Seq(Nat) /\ FrameIsRight(f) BY <1>6, PacketType DEF FrameAt
<1>8. ASSUME n = 0 PROVE ContainsHevcIdr(f.bytes)
  <2>1. feed[c] # <<>> BY <1>5, <1>8
  <2>2. f.key BY <1>8, <2>1 DEF FeedInv
  <2>3. ContainsHEVCRandomAccessPicture(f.bytes) BY <1>7, <2>2 DEF FrameIsRight, IsKeyframe
  <2> QED BY <1>7, <2>3, ScannersAgree
<1> QED BY <1>1, <1>2, <1>3, <1>4, <1>7, <1>8

LEMMA SessionStep ==
  ASSUME EncoderInv, ListenerInv, FeedInv, SessionInv, [Next]_vars,
         FramesGrow, FeedGrows, EncoderInv', FeedInv'
  PROVE  SessionInv'
<1>0. /\ opened \in Nat /\ opened <= MaxConnections /\ MaxConnections \in Nat
      /\ opened # 0 => opened \in Connections
      /\ pc \in {"closed", "header", "frame", "refused"}
      /\ opened = 0 => pc = "closed" /\ taken = <<>>
      /\ taken \in Seq(Seq(Nat)) /\ Len(taken) \in Nat /\ (taken = <<>> <=> Len(taken) = 0)
      /\ waiting <=> taken = <<>>
  BY EndToEndAssumption, LenProperties, EmptySeq DEF ListenerInv, SessionInv, Connections
<1>1. \A c \in Connections : c = opened => IsAt(c, Len(taken)) BY <1>0 DEF SessionInv
<1>2. ASSUME NEW c \in Connections, NEW n \in Nat, IsAt(c, n)
      PROVE  /\ n <= Len(feed[c]) /\ n <= Len(feed'[c])
             /\ n < Len(feed[c]) => n < Len(feed'[c])
             /\ \A i \in 1..n : FrameAt(c, i)' = FrameAt(c, i)
             /\ n < Len(feed[c]) => FrameAt(c, n + 1)' = FrameAt(c, n + 1)
             /\ Bytestream(c, n)' = Bytestream(c, n)
  <2> DEFINE x == Len(feed[c])
             y == Len(feed'[c])
  <2>1. /\ x \in Nat /\ y \in Nat /\ x <= y
        /\ \A i \in 1..x : FrameAt(c, i)' = FrameAt(c, i)
        /\ \A m \in Nat : m <= x => Bytestream(c, m)' = Bytestream(c, m)
    BY Stable
  <2>2. n <= x BY <1>2 DEF IsAt
  <2> HIDE DEF x, y
  <2>3. n <= y /\ (n < x => n < y) BY <2>1, <2>2
  <2>4. (\A i \in 1..n : i \in 1..x) /\ (n < x => n + 1 \in 1..x) BY <2>1, <2>2
  <2> QED BY <2>1, <2>2, <2>3, <2>4 DEF x, y
<1>3. ASSUME UNCHANGED receiver PROVE SessionInv'
  <2>1. UNCHANGED <<opened, pc, at, header, waiting, taken>> BY <1>3 DEF receiver
  <2>2. ASSUME NEW c \in Connections, NEW n \in Nat, c = opened, n = Len(taken)
        PROVE  IsAt(c, n)'
    <3>1. IsAt(c, n) BY <1>1, <2>2
    <3> QED BY <1>2, <2>1, <3>1 DEF IsAt
  <2> QED BY <1>0, <2>1, <2>2 DEF SessionInv
<1>4. ASSUME NEW e \in Encoders, NEW s \in Samples, NextEncodedFrameNumber(e, s) PROVE SessionInv'
  BY <1>3, <1>4 DEF NextEncodedFrameNumber
<1>5. ASSUME NEW k \in 1..MaxFrames, Send(k) \/ DropFrame(k) PROVE SessionInv'
  BY <1>3, <1>5 DEF Send, DropFrame
<1>6. ASSUME NEW c \in Connections, NewConnection(c) PROVE SessionInv'
  BY <1>3, <1>6 DEF NewConnection
<1>7. CASE PostFrame \/ ResetTelemetry \/ RestartListening \/ RunRestart \/ ConnectionEnds
  BY <1>3, <1>7 DEF PostFrame, ResetTelemetry, RestartListening, RunRestart, ConnectionEnds
<1>8. CASE UNCHANGED vars BY <1>3, <1>8 DEF vars
<1>9. CASE Connect
  <2>1. /\ opened' = opened + 1 /\ pc' = "header" /\ at' = 0 /\ waiting' = TRUE /\ taken' = <<>>
    BY <1>9 DEF Connect
  <2>2. Len(taken') = 0 /\ taken' \in Seq(Seq(Nat)) BY <2>1
  <2>3. ASSUME NEW c \in Connections, NEW n \in Nat, c = opened', n = Len(taken')
        PROVE  IsAt(c, n)'
    <3>1. n = 0 BY <2>2, <2>3
    <3>2. Len(feed[c]) \in Nat /\ 0 <= Len(feed[c]) BY LenProperties DEF FeedInv
    <3>3. Bytestream(c, 0)' = Bytestream(c, 0) /\ 0 <= Len(feed'[c])
      <4>1. /\ Len(feed'[c]) \in Nat
            /\ \A m \in Nat : m <= Len(feed[c]) => Bytestream(c, m)' = Bytestream(c, m)
        BY Stable
      <4>2. 0 \in Nat OBVIOUS
      <4> QED BY <3>2, <4>1, <4>2
    <3>4. Len(Bytestream(c, 0)) = 0
      <4>1. PacketsOf(c, 0) \in [1..0 -> Seq(Nat)] BY DEF PacketsOf
      <4>2. FlattenSeq(PacketsOf(c, 0)) = <<>> BY <4>1, FlattenNone
      <4> QED BY <4>2, EmptySeq DEF Bytestream, PacketsOf
    <3> QED BY <2>1, <3>1, <3>3, <3>4 DEF IsAt
  <2>4. opened' # 0 BY <1>0, <2>1
  <2> QED BY <2>1, <2>2, <2>3, <2>4 DEF SessionInv
<1>10. CASE ReadHeader
  <2> DEFINE b == Following(HeaderSize)
  <2>1. /\ pc = "header" /\ Arrived(HeaderSize) /\ at' = at + HeaderSize
        /\ UNCHANGED <<opened, waiting, taken>>
        /\ IF MagicMatch(b) /\ AcceptedHeader(HeaderRead(b))
           THEN header' = HeaderRead(b) /\ pc' = "frame"
           ELSE header' = NoHeader /\ pc' = "refused"
    BY <1>10 DEF ReadHeader
  <2>2. opened \in Connections BY <1>0, <2>1
  <2>3. ASSUME NEW c \in Connections, NEW n \in Nat, c = opened, n = Len(taken)
        PROVE  IsAt(c, n)'
    <3>1. IsAt(c, n) BY <1>1, <2>3
    <3> DEFINE h == HeaderOf(FrameAt(c, n + 1))
    <3>2. /\ n < Len(feed[c]) /\ at = Len(Bytestream(c, n))
          /\ MagicMatch(b) /\ HeaderRead(b) = h
          /\ AcceptedHeader(h) <=> Len(FrameAt(c, n + 1).bytes) \in 1..MaxFrameSize
      BY <2>1, <2>3, <3>1, NextHeader
    <3>3. /\ n <= Len(feed'[c]) /\ n < Len(feed'[c])
          /\ \A i \in 1..n : FrameAt(c, i)' = FrameAt(c, i)
          /\ FrameAt(c, n + 1)' = FrameAt(c, n + 1)
          /\ Bytestream(c, n)' = Bytestream(c, n)
      BY <1>2, <3>1, <3>2
    <3>4. h' = h BY <3>3 DEF HeaderOf
    <3>5. \A i \in 1..n : taken'[i] = FrameAt(c, i)'.bytes BY <2>1, <3>1, <3>3 DEF IsAt
    <3>6. at' = Len(Bytestream(c, n)') + HeaderSize BY <2>1, <3>2, <3>3
    <3>7. CASE AcceptedHeader(h)
      <4>1. header' = h /\ pc' = "frame" BY <2>1, <3>2, <3>7
      <4> QED BY <3>3, <3>4, <3>5, <3>6, <4>1 DEF IsAt
    <3>8. CASE ~AcceptedHeader(h)
      <4>1. pc' = "refused" BY <2>1, <3>2, <3>8
      <4>2. Len(FrameAt(c, n + 1)'.bytes) \notin 1..MaxFrameSize BY <3>2, <3>3, <3>8
      <4> QED BY <3>3, <3>5, <3>6, <4>1, <4>2 DEF IsAt
    <3> QED BY <3>7, <3>8
  <2>4. pc' \in {"frame", "refused"} BY <2>1
  <2>5. opened # 0 BY <1>0, <2>1
  <2> HIDE DEF b
  <2> QED BY <1>0, <2>1, <2>3, <2>4, <2>5 DEF SessionInv
<1>11. CASE ReadFrame
  <2> DEFINE f == Following(header.size)
             skip == waiting /\ ~ContainsHevcIdr(f)
  <2>1. /\ pc = "frame" /\ at' = at + header.size /\ pc' = "header" /\ opened' = opened
        /\ waiting' = skip /\ taken' = IF skip THEN taken ELSE Append(taken, f)
    BY <1>11 DEF ReadFrame
  <2>2. PICK c \in Connections : c = opened BY <1>0, <2>1
  <2>3. PICK n \in Nat : n = Len(taken) BY <1>0
  <2>4. IsAt(c, n) BY <1>1, <2>2, <2>3
  <2>5. /\ n < Len(feed[c]) /\ f = FrameAt(c, n + 1).bytes /\ f \in Seq(Nat)
        /\ at + header.size = Len(Bytestream(c, n + 1))
        /\ n = 0 => ContainsHevcIdr(f)
    <3>1. /\ n < Len(feed[c]) /\ header.size = Len(FrameAt(c, n + 1).bytes)
          /\ FrameAt(c, n + 1).bytes \in Seq(Nat)
          /\ Following(header.size) = FrameAt(c, n + 1).bytes
          /\ at + header.size = Len(Bytestream(c, n + 1))
          /\ n = 0 => ContainsHevcIdr(FrameAt(c, n + 1).bytes)
      BY <2>1, <2>2, <2>4, NextFrame
    <3> QED BY <3>1
  <2> HIDE DEF f
  <2>6. ~skip BY <1>0, <2>3, <2>5
  <2>7. /\ taken' \in Seq(Seq(Nat)) /\ Len(taken') = n + 1
        /\ \A i \in 1..n : taken'[i] = taken[i]
        /\ taken'[n + 1] = f
        /\ \A i \in 1..(n + 1) : i \in 1..n \/ i = n + 1
    <3>1. taken' = Append(taken, f) BY <2>1, <2>6
    <3> QED BY <1>0, <2>3, <2>5, <3>1, Appending
  <2>8. /\ n + 1 <= Len(feed'[c]) /\ n + 1 \in Nat
        /\ \A i \in 1..(n + 1) : FrameAt(c, i)' = FrameAt(c, i)
        /\ Bytestream(c, n + 1)' = Bytestream(c, n + 1)
    <3> DEFINE x == Len(feed[c])
               y == Len(feed'[c])
    <3>1. /\ x \in Nat /\ y \in Nat /\ x <= y
          /\ \A i \in 1..x : FrameAt(c, i)' = FrameAt(c, i)
          /\ \A m \in Nat : m <= x => Bytestream(c, m)' = Bytestream(c, m)
      BY Stable
    <3>2. n < x BY <2>5
    <3> HIDE DEF x, y
    <3>3. n + 1 <= x /\ n + 1 <= y /\ n + 1 \in Nat /\ \A i \in 1..(n + 1) : i \in 1..x
      BY <3>1, <3>2
    <3> QED BY <3>1, <3>3 DEF y
  <2>9. \A i \in 1..(n + 1) : taken'[i] = FrameAt(c, i)'.bytes
    <3> SUFFICES ASSUME NEW i \in 1..(n + 1) PROVE taken'[i] = FrameAt(c, i)'.bytes OBVIOUS
    <3>1. CASE i \in 1..n
      <4>1. taken'[i] = taken[i] BY <2>7, <3>1
      <4>2. taken[i] = FrameAt(c, i).bytes BY <2>4, <3>1 DEF IsAt
      <4> QED BY <2>8, <4>1, <4>2
    <3>2. CASE i = n + 1 BY <2>5, <2>7, <2>8, <3>2
    <3> QED BY <2>7, <3>1, <3>2
  <2>10. at' = Len(Bytestream(c, n + 1)') BY <2>1, <2>5, <2>8
  <2>11. IsAt(c, n + 1)' BY <2>1, <2>8, <2>9, <2>10 DEF IsAt
  <2>12. \A d \in Connections : \A m \in Nat : d = opened' /\ m = Len(taken') => IsAt(d, m)'
    BY <2>1, <2>2, <2>7, <2>11
  <2>13. opened' # 0 BY <1>0, <2>1
  <2>14. taken' # <<>>
    <3>1. Len(taken') # 0 BY <2>7
    <3> QED BY <3>1
  <2>15. ~waiting' BY <2>1, <2>6
  <2> HIDE DEF skip
  <2> QED BY <2>1, <2>7, <2>12, <2>13, <2>14, <2>15 DEF SessionInv
<1>12. CASE SessionEnds
  <2>1. pc' = "closed" /\ UNCHANGED <<opened, at, header, waiting, taken>>
    BY <1>12 DEF SessionEnds
  <2>2. ASSUME NEW c \in Connections, NEW n \in Nat, c = opened, n = Len(taken)
        PROVE  IsAt(c, n)'
    <3>1. IsAt(c, n) BY <1>1, <2>2
    <3> QED BY <1>2, <2>1, <3>1 DEF IsAt
  <2> QED BY <1>0, <2>1, <2>2 DEF SessionInv
<1> QED BY <1>4, <1>5, <1>6, <1>7, <1>8, <1>9, <1>10, <1>11, <1>12 DEF Next

-----------------------------------------------------------------------------
(* The inductive invariant, and what it says. *)

Inv == EncoderInv /\ PostedInv /\ ListenerInv /\ FeedInv /\ SessionInv

LEMMA InvInit == Init => Inv
<1> SUFFICES ASSUME Init PROVE Inv OBVIOUS
<1>1. EncoderInv BY EncoderInit
<1>2. PostedInv
  <2>1. posted = <<>> BY DEF Init
  <2>2. posted \in Seq(Nat) /\ Len(posted) = 0 BY <2>1
  <2>3. 1..Len(posted) = {} BY <2>2
  <2> QED BY <2>2, <2>3 DEF PostedInv
<1>3. ListenerInv BY EndToEndAssumption DEF Init, ListenerInv, Feed!Init
<1>4. FeedInv
  <2>1. feed = [c \in Connections |-> <<>>] BY DEF Init, Feed!Init
  <2>2. feed \in [Connections -> Seq(Packets)] BY <2>1
  <2>3. \A c \in Connections : feed[c] = <<>> /\ 1..Len(feed[c]) = {} BY <2>1
  <2> QED BY <2>2, <2>3 DEF FeedInv
<1>5. SessionInv
  <2>1. opened = 0 /\ pc = "closed" /\ waiting = TRUE /\ taken = <<>> BY DEF Init
  <2>2. \A c \in Connections : c # 0 BY DEF Connections
  <2>3. taken \in Seq(Seq(Nat)) BY <2>1
  <2> QED BY <2>1, <2>2, <2>3 DEF SessionInv
<1> QED BY <1>1, <1>2, <1>3, <1>4, <1>5 DEF Inv

LEMMA InvStep == Inv /\ [Next]_vars => Inv'
<1> SUFFICES ASSUME Inv, [Next]_vars PROVE Inv' OBVIOUS
<1>1. EncoderInv' /\ FramesGrow BY EncoderStep DEF Inv
<1>2. PostedInv' BY <1>1, PostedStep DEF Inv
<1>3. ListenerInv' BY ListenerStep DEF Inv
<1>4. FeedInv' /\ FeedGrows BY <1>1, FeedStep DEF Inv
<1>5. SessionInv' BY <1>1, <1>4, SessionStep DEF Inv
<1> QED BY <1>1, <1>2, <1>3, <1>4, <1>5 DEF Inv

(* The frames, the feed and the session keep to their types and to each other. *)
THEOREM Invariance == Spec => []Inv
<1> QED BY InvInit, InvStep, PTL DEF Spec

LEMMA RightFrames ==
  ASSUME Inv, NEW k \in 1..Len(frames)
  PROVE  /\ frames[k] \in Records /\ frames[k].sample \in Samples
         /\ frames[k].bytes = WriteAnnexB(frames[k].sample)
         /\ frames[k].key = IsKeyframe(frames[k].sample)
<1>1. frames[k] \in Records /\ FrameIsRight(frames[k]) BY DEF Inv, EncoderInv
<1>2. frames[k].sample \in Samples BY <1>1 DEF Records
<1> QED BY <1>1, <1>2 DEF FrameIsRight

(* Every unit of every sample, of any length and behind a length field of any width,      *)
(* reaches the frame, in order and behind a start code, and what is cut off leaves nothing *)
(* of itself (CameraStreamer.swift:497-545).                                              *)
THEOREM SameUnitsAlways == Spec => []SameUnits
<1>1. Inv => SameUnits
  <2> SUFFICES ASSUME Inv, NEW k \in 1..Len(frames)
               PROVE  frames[k].bytes = Framed((IF frames[k].sample.sync THEN ParameterSets ELSE <<>>)
                                               \o frames[k].sample.units)
    BY DEF SameUnits
  <2>1. frames[k].sample \in Samples /\ frames[k].bytes = WriteAnnexB(frames[k].sample)
    BY RightFrames
  <2> QED BY <2>1, FrameBytes DEF UnitsOf
<1> QED BY <1>1, Invariance, PTL

(* The sender's gate is told of every marked IDR picture and of nothing else, whatever the *)
(* bytes of the units are (CameraStreamer.swift:403-406).                                 *)
THEOREM KeyMeansIdrAlways == Spec => []KeyMeansIdr
<1>1. Inv => KeyMeansIdr
  <2> SUFFICES ASSUME Inv, NEW k \in 1..Len(frames)
               PROVE  frames[k].key <=> frames[k].sample.sync /\ HasIdr(frames[k].sample.units)
    BY DEF KeyMeansIdr
  <2>1. frames[k].sample \in Samples /\ frames[k].key = IsKeyframe(frames[k].sample)
    BY RightFrames
  <2> QED BY <2>1, KeyframeIsIdr
<1> QED BY <1>1, Invariance, PTL

LEMMA SessionPlace ==
  ASSUME Inv, pc # "closed" \/ taken # <<>>
  PROVE  opened \in Connections /\ Len(taken) \in Nat /\ IsAt(opened, Len(taken))
         /\ Len(feed[opened]) \in Nat
<1>1. opened \in Connections BY EndToEndAssumption DEF Inv, SessionInv, ListenerInv, Connections
<1>2. Len(taken) \in Nat BY LenProperties DEF Inv, SessionInv
<1>3. Len(feed[opened]) \in Nat BY <1>1, LenProperties DEF Inv, FeedInv
<1> QED BY <1>1, <1>2, <1>3 DEF Inv, SessionInv

(* In whatever pieces and with whatever contents frames arrive, the receiver is at a packet *)
(* of the sender's, and refuses none but an empty frame or one above the limit             *)
(* (receiver.cpp, receive_session).                                                        *)
THEOREM NeverDesyncedAlways == Spec => []NeverDesynced
<1>1. Inv => NeverDesynced
  <2> SUFFICES ASSUME Inv PROVE NeverDesynced OBVIOUS
  <2> DEFINE n == Len(taken)
             N == Len(feed[opened])
  <2>1. ASSUME pc = "header" PROVE \E m \in 0..N : at = Len(Bytestream(opened, m))
    <3>1. n \in Nat /\ N \in Nat /\ n <= N /\ at = Len(Bytestream(opened, n))
      BY <2>1, SessionPlace DEF IsAt
    <3> HIDE DEF n, N
    <3>2. n \in 0..N BY <3>1
    <3> QED BY <3>1, <3>2
  <2>2. ASSUME pc \in {"frame", "refused"}
        PROVE  n + 1 \in 1..N /\ at = Len(Bytestream(opened, (n + 1) - 1)) + HeaderSize
    <3>1. n \in Nat /\ N \in Nat /\ n < N /\ at = Len(Bytestream(opened, n)) + HeaderSize
      BY <2>2, SessionPlace DEF IsAt
    <3> HIDE DEF n, N
    <3>2. n + 1 \in 1..N /\ (n + 1) - 1 = n BY <3>1
    <3> QED BY <3>1, <3>2
  <2>3. pc = "frame" => header = HeaderOf(FrameAt(opened, n + 1)) BY SessionPlace DEF IsAt
  <2>4. pc = "refused" => Len(FrameAt(opened, n + 1).bytes) \notin 1..MaxFrameSize
    BY SessionPlace DEF IsAt
  <2> HIDE DEF n, N
  <2>5. ASSUME pc = "frame"
        PROVE  \E m \in 1..N : /\ at = Len(Bytestream(opened, m - 1)) + HeaderSize
                               /\ header = HeaderOf(FrameAt(opened, m))
    BY <2>2, <2>3, <2>5
  <2>6. ASSUME pc = "refused"
        PROVE  \E m \in 1..N : /\ at = Len(Bytestream(opened, m - 1)) + HeaderSize
                               /\ Len(FrameAt(opened, m).bytes) \notin 1..MaxFrameSize
    BY <2>2, <2>4, <2>6
  <2> QED BY <2>1, <2>5, <2>6 DEF NeverDesynced, N
<1> QED BY <1>1, Invariance, PTL

(* OBS is given the phone's frames, whole and in order from the first: the receiver's gate  *)
(* skips none, since its scanner takes for an IDR whatever the phone's did.                 *)
THEOREM RelaysFeedAlways == Spec => []RelaysFeed
<1>1. Inv => RelaysFeed
  <2> SUFFICES ASSUME Inv, NEW i \in 1..Len(taken)
               PROVE  i <= Len(feed[opened]) /\ taken[i] = FrameAt(opened, i).bytes
    BY DEF RelaysFeed
  <2> DEFINE n == Len(taken)
             N == Len(feed[opened])
  <2>1. taken # <<>>
    <3>1. taken = <<>> => 1..Len(taken) = {} OBVIOUS
    <3> QED BY <3>1
  <2>2. n \in Nat /\ N \in Nat /\ n <= N /\ taken[i] = FrameAt(opened, i).bytes
    BY <2>1, SessionPlace DEF IsAt
  <2>3. i \in 1..n OBVIOUS
  <2> HIDE DEF n, N
  <2>4. i <= N BY <2>2, <2>3
  <2> QED BY <2>2, <2>4 DEF N
<1> QED BY <1>1, Invariance, PTL

(* What OBS joins at is parameter sets and an IDR picture with no other picture in front of *)
(* it: the first slice of a sample that has an IDR is one.                                  *)
THEOREM JoinsDecodableAlways == Spec => []JoinsDecodable
<1>1. Inv => JoinsDecodable
  <2> SUFFICES ASSUME Inv, taken # <<>>
               PROVE  \E k \in 1..Len(frames) : LET units == frames[k].sample.units IN
                        /\ taken[1] = Framed(ParameterSets \o units)
                        /\ \E i \in 1..Len(units) : /\ IsIdrType(NalType(units[i][1]))
                                                    /\ \A j \in 1..(i - 1) : ~IsSlice(units[j])
    BY DEF JoinsDecodable
  <2> DEFINE N == Len(feed[opened])
             n == Len(taken)
             k == feed[opened][1].frame
             s == frames[k].sample
             units == s.units
             T == {i \in 1..Len(units) : IsIdrType(NalType(units[i][1]))}
  <2>1. 1 \in 1..n /\ 1 \in 1..N /\ opened \in Connections /\ taken[1] = frames[k].bytes
    <3>1. opened \in Connections /\ n \in Nat /\ N \in Nat /\ n <= N
          /\ \A i \in 1..n : taken[i] = FrameAt(opened, i).bytes
      BY SessionPlace DEF IsAt
    <3>2. n # 0 BY EmptySeq DEF Inv, SessionInv
    <3> HIDE DEF n, N
    <3>3. 1 \in 1..n /\ 1 \in 1..N BY <3>1, <3>2
    <3> QED BY <3>1, <3>3 DEF FrameAt
  <2>2. k \in 1..Len(frames) /\ frames[k].key
    <3>1. feed[opened] # <<>> BY <2>1
    <3>2. k \in Showable /\ FrameAt(opened, 1).key BY <2>1, <3>1 DEF Inv, FeedInv
    <3> QED BY <3>2 DEF Showable, FrameAt
  <2>3. s \in Samples /\ frames[k].bytes = WriteAnnexB(s) /\ frames[k].key = IsKeyframe(s)
    BY <2>2, RightFrames
  <2>4. s.sync /\ HasIdr(units) BY <2>2, <2>3, KeyframeIsIdr
  <2>5. taken[1] = Framed(ParameterSets \o units) BY <2>1, <2>3, <2>4, FrameBytes DEF UnitsOf
  <2>6. PICK i \in T : \A j \in T : i <= j
    <3>1. T # {} BY <2>4 DEF HasIdr
    <3>2. T \in SUBSET Nat OBVIOUS
    <3> HIDE DEF T
    <3> QED BY <3>1, <3>2, LeastNumber
  <2>7. i \in 1..Len(units) /\ IsIdrType(NalType(units[i][1])) BY <2>6
  <2>8. ASSUME NEW j \in 1..(i - 1) PROVE ~IsSlice(units[j])
    <3>1. j \in 1..Len(units) /\ ~(i <= j)
      <4> DEFINE L == Len(units)
      <4>1. L \in Nat BY <2>3, SampleType, LenProperties
      <4>2. i \in 1..L BY <2>7
      <4> HIDE DEF L
      <4>3. j \in 1..L /\ ~(i <= j) BY <4>1, <4>2
      <4> QED BY <4>3 DEF L
    <3>2. ~IsIdrType(NalType(units[j][1])) BY <2>6, <3>1
    <3>3. IsSlice(units[i])
      <4> DEFINE t == NalType(units[i][1])
      <4>1. t \in 19..20 BY <2>7 DEF IsIdrType
      <4> HIDE DEF t
      <4>2. t < 32 BY <4>1
      <4> QED BY <4>2 DEF IsSlice, t
    <3>4. IsSample(s) BY <2>3, SampleAssumption
    <3>5. IsSlice(units[j]) => NalType(units[j][1]) = NalType(units[i][1])
      BY <2>7, <3>1, <3>3, <3>4 DEF IsSample
    <3> HIDE DEF units
    <3> QED BY <2>7, <3>2, <3>5
  <2> HIDE DEF T
  <2> QED BY <2>2, <2>5, <2>7, <2>8
<1> QED BY <1>1, Invariance, PTL

-----------------------------------------------------------------------------
(* The numbers. *)

(* Frames are shown in the order they were encoded in, connection after connection. *)
OrderInv ==
  \A c, d \in Connections : \A i \in 1..Len(feed[c]), j \in 1..Len(feed[d]) :
    c < d \/ (c = d /\ i < j) => feed[c][i].frame < feed[d][j].frame

LEMMA OrderStep ==
  ASSUME Inv, OrderInv, [Next]_vars
  PROVE  OrderInv'
<1>1. CASE feed' = feed BY <1>1 DEF OrderInv
<1>2. ASSUME NEW k, NEW c, Shows(k, c) PROVE OrderInv'
  <2> DEFINE n == Len(feed[c])
  <2>1. /\ k \in 1..Len(frames) /\ c \in Connections /\ n \in Nat
        /\ feed' \in [Connections -> Seq(Packets)]
        /\ \A d \in Connections : d # c => feed'[d] = feed[d]
        /\ Len(feed'[c]) = n + 1 /\ feed'[c][n + 1].frame = k
        /\ \A i \in 1..n : feed'[c][i] = feed[c][i]
        /\ \A i \in 1..(n + 1) : i \in 1..n \/ i = n + 1
    <3> DEFINE p == [frame |-> k, idr |-> IdrOf(k)]
    <3>1. /\ k \in 1..Len(frames) /\ c \in Connections /\ n \in Nat
          /\ feed' \in [Connections -> Seq(Packets)]
          /\ \A d \in Connections : d # c => feed'[d] = feed[d]
          /\ Len(feed'[c]) = n + 1 /\ feed'[c][n + 1] = p
          /\ \A i \in 1..n : feed'[c][i] = feed[c][i]
          /\ \A i \in 1..(n + 1) : i \in 1..n \/ i = n + 1
      BY <1>2, Shown DEF Inv
    <3>2. p.frame = k OBVIOUS
    <3> HIDE DEF p, n
    <3> QED BY <3>1, <3>2
  <2>2. /\ c = accepted /\ accepted \in Nat
        /\ \A d \in Connections : \A i \in 1..Len(feed[d]) : feed[d][i].frame < k
        /\ \A d \in Connections : feed[d] # <<>> => d <= accepted
    BY <1>2, AcceptedGrows DEF Shows, Inv, FeedInv
  <2>3. ASSUME NEW d \in Connections, NEW i \in 1..Len(feed'[d])
        PROVE  \/ i \in 1..Len(feed[d]) /\ feed'[d][i] = feed[d][i]
               \/ d = c /\ i = n + 1 /\ feed'[d][i].frame = k
    BY <2>1
  <2>4. SUFFICES ASSUME NEW d \in Connections, NEW e \in Connections,
                        NEW i \in 1..Len(feed'[d]), NEW j \in 1..Len(feed'[e]),
                        d < e \/ (d = e /\ i < j)
                 PROVE  feed'[d][i].frame < feed'[e][j].frame
    BY DEF OrderInv
  <2>5. d \in Nat /\ e \in Nat /\ i \in Nat /\ j \in Nat BY DEF Connections
  <2>6. CASE j \in 1..Len(feed[e]) /\ feed'[e][j] = feed[e][j]
    <3>1. CASE i \in 1..Len(feed[d]) /\ feed'[d][i] = feed[d][i]
      <4>1. feed[d][i].frame < feed[e][j].frame BY <2>4, <2>6, <3>1 DEF OrderInv
      <4> QED BY <2>6, <3>1, <4>1
    <3>2. CASE d = c /\ i = n + 1
      <4>1. feed[e] # <<>> BY <2>6
      <4>2. e <= accepted BY <2>2, <4>1
      <4>3. d = e /\ i < j BY <2>2, <2>4, <2>5, <3>2, <4>2
      <4>4. j \in 1..n BY <2>6, <3>2, <4>3
      <4> HIDE DEF n
      <4> QED BY <2>1, <3>2, <4>3, <4>4
    <3> QED BY <2>3, <3>1, <3>2
  <2>7. CASE e = c /\ j = n + 1 /\ feed'[e][j].frame = k
    <3>1. CASE i \in 1..Len(feed[d]) /\ feed'[d][i] = feed[d][i] BY <2>2, <2>7, <3>1
    <3>2. CASE d = c /\ i = n + 1
      <4> HIDE DEF n
      <4> QED BY <2>1, <2>4, <2>5, <2>7, <3>2
    <3> QED BY <2>3, <3>1, <3>2
  <2> QED BY <2>3, <2>6, <2>7
<1>3. feed' = feed \/ \E k, c : Shows(k, c) BY FeedChange DEF Inv
<1> QED BY <1>1, <1>2, <1>3

-----------------------------------------------------------------------------
(* Numbers. *)

Differ(f, g) == f.epoch = g.epoch => f.number # g.number
Before(f, g) == f.session = g.session /\ f.epoch = g.epoch => f.number < g.number

(* A counter at n in epoch r has passed frame f. *)
Passed(f, n, r) == f.epoch <= r /\ (f.epoch = r => f.number <= n)

NumberInv ==
  /\ encodedFrameNumber <= Len(frames) + Cardinality(inHand)
  /\ \A f \in inHand : Passed(f, encodedFrameNumber, recoveries)
  /\ \A k \in 1..Len(frames) : Passed(frames[k], encodedFrameNumber, recoveries)
  /\ \A f, g \in inHand : f # g => f.session # g.session /\ Differ(f, g)
  /\ \A f \in inHand : \A k \in 1..Len(frames) : Differ(frames[k], f) /\ Before(frames[k], f)
  /\ \A j, k \in 1..Len(frames) :
       j < k => Differ(frames[j], frames[k]) /\ Before(frames[j], frames[k])

LEMMA NumberStep ==
  ASSUME Fits32(MaxFrames), Inv, NumberInv, [Next]_vars
  PROVE  NumberInv'
<1>1. /\ EncoderInv /\ Len(frames) \in Nat /\ Cardinality(inHand) \in Nat /\ MaxFrames \in Nat
      /\ encodedFrameNumber \in Nat /\ recoveries \in Nat
      /\ Len(frames) + Cardinality(inHand) <= MaxFrames
      /\ \A f \in inHand : f \in Records
      /\ \A k \in 1..Len(frames) : frames[k] \in Records
  BY LenProperties, ElementOfSeq, FS_CardinalityType, EndToEndAssumption DEF Inv, EncoderInv
<1>2. \A f \in Records : f.number \in Nat /\ f.epoch \in Nat BY DEF Records
<1>3. CASE UNCHANGED <<encoder, recoveries>>
  BY <1>3 DEF NumberInv, encoder, Passed, Differ, Before
<1>4. ASSUME NEW e \in Encoders, NEW s \in Samples, NextEncodedFrameNumber(e, s)
      PROVE  NumberInv'
  <2> DEFINE n == Counted(encodedFrameNumber)
             x == Frame(n, e, s)
  <2>1. /\ encodedFrameNumber' = n /\ n \in Nat /\ x \in Records
        /\ x.number = n /\ x.session = e /\ x.epoch = recoveries
        /\ inHand' = inHand \cup {x} /\ Cardinality(inHand') = Cardinality(inHand) + 1
        /\ Len(frames) + Cardinality(inHand) < MaxFrames
        /\ \A f \in inHand : f.session # e
        /\ frames' = frames /\ recoveries' = recoveries
    BY <1>1, <1>4, Numbering
  <2>2. n = encodedFrameNumber + 1
    <3>1. encodedFrameNumber + 1 \in Nat /\ encodedFrameNumber + 1 <= MaxFrames
      BY <1>1, <2>1 DEF NumberInv
    <3>2. Fits32(encodedFrameNumber + 1) BY <1>1, <3>1 DEF Fits32
    <3> QED BY <3>2 DEF Counted
  <2> HIDE DEF x, n
  <2>3. ASSUME NEW f \in Records, Passed(f, encodedFrameNumber, recoveries)
        PROVE  /\ Passed(f, encodedFrameNumber', recoveries')
               /\ Differ(f, x) /\ Before(f, x) /\ Differ(x, f)
    <3>1. f.number \in Nat BY <1>2
    <3>2. f.epoch = recoveries => f.number < n BY <1>1, <2>2, <2>3, <3>1 DEF Passed
    <3>3. Passed(f, encodedFrameNumber', recoveries') BY <1>1, <2>1, <2>2, <2>3, <3>1 DEF Passed
    <3> QED BY <2>1, <3>1, <3>2, <3>3 DEF Differ, Before
  <2>4. Passed(x, encodedFrameNumber', recoveries') BY <1>1, <2>1 DEF Passed
  <2>5. encodedFrameNumber' <= Len(frames') + Cardinality(inHand')
    BY <1>1, <2>1, <2>2 DEF NumberInv
  <2>6. /\ \A f \in inHand' : Passed(f, encodedFrameNumber', recoveries')
        /\ \A k \in 1..Len(frames') : Passed(frames'[k], encodedFrameNumber', recoveries')
    BY <1>1, <2>1, <2>3, <2>4 DEF NumberInv
  <2>7. ASSUME NEW f \in inHand', NEW g \in inHand', f # g
        PROVE  f.session # g.session /\ Differ(f, g)
    <3>1. CASE f \in inHand /\ g \in inHand BY <2>7, <3>1 DEF NumberInv
    <3>2. CASE f \in inHand /\ g = x BY <1>1, <2>1, <2>3, <3>2 DEF NumberInv
    <3>3. CASE f = x /\ g \in inHand BY <1>1, <2>1, <2>3, <3>3 DEF NumberInv
    <3> QED BY <2>1, <2>7, <3>1, <3>2, <3>3
  <2>8. ASSUME NEW f \in inHand', NEW k \in 1..Len(frames')
        PROVE  Differ(frames'[k], f) /\ Before(frames'[k], f)
    <3>1. CASE f \in inHand BY <2>1, <3>1 DEF NumberInv
    <3>2. CASE f = x
      <4>1. k \in 1..Len(frames) /\ frames'[k] = frames[k] BY <2>1
      <4>2. frames[k] \in Records /\ Passed(frames[k], encodedFrameNumber, recoveries)
        BY <1>1, <4>1 DEF NumberInv
      <4> QED BY <2>3, <3>2, <4>1, <4>2
    <3> QED BY <2>1, <3>1, <3>2
  <2>9. \A j, k \in 1..Len(frames') :
          j < k => Differ(frames'[j], frames'[k]) /\ Before(frames'[j], frames'[k])
    BY <2>1 DEF NumberInv
  <2> QED BY <2>5, <2>6, <2>7, <2>8, <2>9 DEF NumberInv, Passed, Differ, Before
<1>5. CASE PostFrame
  <2>1. PICK f : Posts(f) BY <1>1, <1>5, Posting
  <2>2. /\ f \in inHand /\ inHand' = inHand \ {f}
        /\ Len(frames') = Len(frames) + 1 /\ Cardinality(inHand') = Cardinality(inHand) - 1
        /\ \A i \in 1..Len(frames) : frames'[i] = frames[i]
        /\ frames'[Len(frames) + 1] = f
        /\ \A i \in 1..Len(frames') : i \in 1..Len(frames) \/ i = Len(frames) + 1
        /\ encodedFrameNumber' = encodedFrameNumber /\ recoveries' = recoveries
    BY <2>1 DEF Posts
  <2>3. encodedFrameNumber' <= Len(frames') + Cardinality(inHand')
    BY <1>1, <2>2 DEF NumberInv
  <2>4. \A g : Passed(g, encodedFrameNumber, recoveries)
               => Passed(g, encodedFrameNumber', recoveries')
    BY <2>2
  <2>5. /\ \A g \in inHand' : Passed(g, encodedFrameNumber', recoveries')
        /\ \A k \in 1..Len(frames') : Passed(frames'[k], encodedFrameNumber', recoveries')
    BY <2>2, <2>4 DEF NumberInv
  <2>6. \A g, h \in inHand' : g # h => g.session # h.session /\ Differ(g, h)
    BY <2>2 DEF NumberInv
  <2>7. ASSUME NEW g \in inHand', NEW k \in 1..Len(frames')
        PROVE  Differ(frames'[k], g) /\ Before(frames'[k], g)
    <3>1. g \in inHand /\ g # f BY <2>2
    <3>2. CASE k \in 1..Len(frames) BY <2>2, <3>1, <3>2 DEF NumberInv
    <3>3. CASE k = Len(frames) + 1
      <4>1. f.session # g.session /\ Differ(f, g) BY <2>2, <3>1 DEF NumberInv
      <4> QED BY <2>2, <3>3, <4>1 DEF Before
    <3> QED BY <2>2, <3>2, <3>3
  <2>8. ASSUME NEW j \in 1..Len(frames'), NEW k \in 1..Len(frames'), j < k
        PROVE  Differ(frames'[j], frames'[k]) /\ Before(frames'[j], frames'[k])
    <3>1. j \in 1..Len(frames) BY <1>1, <2>2, <2>8
    <3>2. CASE k \in 1..Len(frames) BY <2>2, <2>8, <3>1, <3>2 DEF NumberInv
    <3>3. CASE k = Len(frames) + 1 BY <2>2, <3>1, <3>3 DEF NumberInv
    <3> QED BY <2>2, <3>2, <3>3
  <2> QED BY <2>3, <2>5, <2>6, <2>7, <2>8 DEF NumberInv, Passed, Differ, Before
<1>6. CASE ResetTelemetry
  <2>1. /\ encodedFrameNumber' = 0 /\ recoveries' = recoveries + 1
        /\ UNCHANGED <<inHand, frames>>
    BY <1>6 DEF ResetTelemetry
  <2>2. ASSUME NEW f \in Records, Passed(f, encodedFrameNumber, recoveries)
        PROVE  Passed(f, encodedFrameNumber', recoveries')
    <3>1. f.epoch \in Nat /\ f.epoch <= recoveries BY <1>2, <2>2 DEF Passed
    <3>2. f.epoch <= recoveries + 1 /\ f.epoch # recoveries + 1 BY <1>1, <3>1
    <3> QED BY <2>1, <3>2 DEF Passed
  <2>3. encodedFrameNumber' <= Len(frames') + Cardinality(inHand') BY <1>1, <2>1
  <2>4. /\ \A f \in inHand' : Passed(f, encodedFrameNumber', recoveries')
        /\ \A k \in 1..Len(frames') : Passed(frames'[k], encodedFrameNumber', recoveries')
    BY <1>1, <2>1, <2>2 DEF NumberInv
  <2> QED BY <2>1, <2>3, <2>4 DEF NumberInv, Passed, Differ, Before
<1>7. ASSUME NEW k \in 1..MaxFrames, Send(k) \/ DropFrame(k)
      PROVE  UNCHANGED <<encoder, recoveries>>
  BY <1>7 DEF Send, DropFrame, recovery
<1>8. ASSUME NEW c \in Connections, NewConnection(c) PROVE UNCHANGED <<encoder, recoveries>>
  BY <1>8 DEF NewConnection, recovery
<1>9. CASE RestartListening \/ RunRestart \/ ConnectionEnds
  BY <1>3, <1>9 DEF RestartListening, RunRestart, ConnectionEnds, recovery
<1>10. CASE Connect \/ ReadHeader \/ ReadFrame \/ SessionEnds
  BY <1>3, <1>10 DEF Connect, ReadHeader, ReadFrame, SessionEnds, recovery
<1>11. CASE UNCHANGED vars BY <1>3, <1>11 DEF vars, recovery
<1> QED BY <1>3, <1>4, <1>5, <1>6, <1>7, <1>8, <1>9, <1>10, <1>11 DEF Next

(* Whatever callbacks of whatever compression sessions overlap, and wherever a recovery    *)
(* falls between a frame's numbering and its posting: within an epoch a number is one       *)
(* frame's, and a viewer sees those of one session increase, as long as 32 bits count the   *)
(* frames (CameraStreamer.swift:414, 503, 542-548).                                         *)
THEOREM NumbersTellFramesAlways ==
  ASSUME Fits32(MaxFrames)
  PROVE  Spec => []NumbersTellFrames
<1> DEFINE I == Inv /\ OrderInv /\ NumberInv
<1>1. Init => I
  <2> SUFFICES ASSUME Init PROVE I OBVIOUS
  <2>1. Inv BY InvInit
  <2>2. OrderInv
    <3>1. feed = [c \in Connections |-> <<>>] BY DEF Init, Feed!Init
    <3>2. \A c \in Connections : 1..Len(feed[c]) = {} BY <3>1
    <3> QED BY <3>2 DEF OrderInv
  <2>3. NumberInv
    <3>1. encodedFrameNumber = 0 /\ frames = <<>> /\ inHand = {} BY DEF Init
    <3>2. Len(frames) = 0 /\ Cardinality(inHand) = 0 BY <3>1, FS_EmptySet
    <3>3. 1..Len(frames) = {} BY <3>2
    <3> QED BY <3>1, <3>2, <3>3 DEF NumberInv
  <2> QED BY <2>1, <2>2, <2>3
<1>2. I /\ [Next]_vars => I' BY InvStep, OrderStep, NumberStep
<1>3. I => NumbersTellFrames
  <2> SUFFICES ASSUME I PROVE NumbersTellFrames OBVIOUS
  <2>1. Len(frames) \in Nat BY LenProperties DEF Inv, EncoderInv
  <2>2. \A j, k \in 1..Len(frames) : j < k => Before(frames[j], frames[k]) BY DEF NumberInv
  <2>3. ASSUME NEW j \in 1..Len(frames), NEW k \in 1..Len(frames), j # k
        PROVE  Differ(frames[j], frames[k])
    <3>1. CASE j < k BY <3>1 DEF NumberInv
    <3>2. CASE k < j
      <4>1. Differ(frames[k], frames[j]) BY <3>2 DEF NumberInv
      <4> QED BY <4>1 DEF Differ
    <3> QED BY <2>1, <2>3, <3>1, <3>2
  <2>4. ASSUME NEW c \in Connections, NEW i \in 1..Len(feed[c]), NEW j \in 1..Len(feed[c]), i < j
        PROVE  Before(FrameAt(c, i), FrameAt(c, j))
    <3>1. feed[c][i].frame < feed[c][j].frame BY <2>4 DEF OrderInv
    <3>2. feed[c][i].frame \in 1..Len(frames) /\ feed[c][j].frame \in 1..Len(frames)
      BY DEF Inv, FeedInv, Showable
    <3> QED BY <2>2, <3>1, <3>2 DEF FrameAt
  <2> QED BY <2>3, <2>4 DEF NumbersTellFrames, Differ, Before
<1> QED BY <1>1, <1>2, <1>3, PTL DEF Spec
===============================================================================
