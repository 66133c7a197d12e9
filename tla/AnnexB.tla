-------------------------------- MODULE AnnexB --------------------------------
(***************************************************************************)
(* The byte stream of HEVC: the encoder's length-prefixed NAL units made   *)
(* into Annex B on the phone (ios/CameraStreamer.swift, writeAnnexB), and  *)
(* the two scanners that look for an IDR picture in it, the phone's        *)
(* (containsHEVCRandomAccessPicture) and the receiver's                    *)
(* (windows/receiver.cpp, contains_hevc_idr).  A NAL unit is a sequence of *)
(* bytes; its type is in bits 1..6 of the first.                           *)
(***************************************************************************)
EXTENDS Naturals, SequencesExt

StartCode == <<0, 0, 0, 1>>

NalType(byte) == (byte \div 2) % 64
IsIdrType(type) == type \in 19..20

(* A unit of H.265 has a header of two bytes, does not end in zero, and holds nothing that *)
(* could be taken for the beginning of a start code.                                       *)
IsUnit(unit) ==
  /\ unit \in Seq(0..255) /\ Len(unit) >= 2 /\ unit[Len(unit)] # 0
  /\ \A i \in 1..(Len(unit) - 2) : ~(unit[i] = 0 /\ unit[i + 1] = 0 /\ unit[i + 2] \in 0..1)

IsSlice(unit) == NalType(unit[1]) < 32
IsParameterSet(unit) == NalType(unit[1]) \in 32..34
HasIdr(units) == \E i \in 1..Len(units) : IsIdrType(NalType(units[i][1]))

-----------------------------------------------------------------------------
(* The encoder's buffer: each unit behind its length in w bytes, in network order. *)

Weight == <<1, 256, 65536, 16777216>>
FitsField(n, w) == n \div Weight[w] < 256
LengthField(n, w) == [i \in 1..w |-> (n \div Weight[w - i + 1]) % 256]

LengthPrefixed(units, w) ==
  FlattenSeq([i \in 1..Len(units) |-> LengthField(Len(units[i]), w) \o units[i]])

-----------------------------------------------------------------------------
(* writeAnnexB. *)

(* The length field of w bytes behind the first `at' bytes, in network order. *)
NalLength(data, at, w) ==
  LET value[i \in 0..w] == IF i = 0 THEN 0 ELSE 256 * value[i - 1] + data[at + i]
  IN  value[w]

(* What is left of a unit that is cut off, or has no bytes. *)
IsCutOff(data, w) ==
  Len(data) < w \/ LET n == NalLength(data, 0, w) IN n = 0 \/ w + n > Len(data)

(* Mutant: the unit that ends the buffer is taken for one that is cut off. *)
ConvertOffByOne(data, w) ==
  LET rest[at \in 0..Len(data)] ==
        IF at + w > Len(data) THEN <<>>
        ELSE LET first == at + w
                 length == NalLength(data, at, w)
             IN  IF length = 0 \/ first + length >= Len(data) THEN <<>>
                 ELSE StartCode \o SubSeq(data, first + 1, first + length) \o rest[first + length]
  IN  rest[0]

(* The units up to the first whose length is zero or reaches past the end. *)
Convert(data, w) ==
  LET rest[at \in 0..Len(data)] ==
        IF at + w > Len(data) THEN <<>>
        ELSE LET first == at + w
                 length == NalLength(data, at, w)
             IN  IF length = 0 \/ first + length > Len(data) THEN <<>>
                 ELSE StartCode \o SubSeq(data, first + 1, first + length) \o rest[first + length]
  IN  rest[0]

(* Units, each behind a start code: Annex B. *)
Framed(units) == FlattenSeq([i \in 1..Len(units) |-> StartCode \o units[i]])

-----------------------------------------------------------------------------
(* The scanners; offsets are counted from 0 as in the code. *)

(* b holds `bytes' from offset i on. *)
Holds(b, i, bytes) == SubSeq(b, i + 1, i + Len(bytes)) = bytes

(* Length of the start code at offset i, or 0. *)
StartCodeLength(b, i) ==
  IF Holds(b, i, <<0, 0, 1>>) THEN 3 ELSE IF Holds(b, i, <<0, 0, 0, 1>>) THEN 4 ELSE 0

ContainsHEVCRandomAccessPicture(b) ==
  LET found[i \in 0..Len(b)] ==
        /\ i + 5 < Len(b)
        /\ LET k == StartCodeLength(b, i) IN
             IF k = 0 THEN found[i + 1]
             ELSE IsIdrType(NalType(b[i + k + 1])) \/ found[i + k + 1]
  IN  found[0]

(* Mutant: only the type IDR_W_RADL is known. *)
KnowsOneType(b) ==
  LET found[i \in 0..Len(b)] ==
        /\ i + 4 < Len(b)
        /\ LET k == StartCodeLength(b, i) IN
             IF k = 0 \/ (k = 4 /\ i + 5 >= Len(b)) THEN found[i + 1]
             ELSE NalType(b[i + k + 1]) = 19 \/ found[i + k + 1]
  IN  found[0]

ContainsHevcIdr(b) ==
  LET found[i \in 0..Len(b)] ==
        /\ i + 4 < Len(b)
        /\ LET k == StartCodeLength(b, i) IN
             IF k = 0 \/ (k = 4 /\ i + 5 >= Len(b)) THEN found[i + 1]
             ELSE IsIdrType(NalType(b[i + k + 1])) \/ found[i + k + 1]
  IN  found[0]

===============================================================================
