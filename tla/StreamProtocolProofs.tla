------------------------- MODULE StreamProtocolProofs -------------------------
(***************************************************************************)
(* Every header the phone can write is read back as it was written, for    *)
(* all integers of 32 and 64 bits.                                         *)
(***************************************************************************)
EXTENDS StreamProtocol, TLAPS

-----------------------------------------------------------------------------
(* Integers. *)

LEMMA LowByte ==
  ASSUME NEW n \in Nat
  PROVE  /\ n \div 256 \in Nat /\ n % 256 \in Bytes
         /\ n = 256 * (n \div 256) + (n % 256)
         /\ n < 256 => n % 256 = n
  BY SMT DEF Bytes

LEMMA Shifts ==
  ASSUME NEW n \in Nat
  PROVE  /\ n \div 65536 = (n \div 256) \div 256
         /\ n \div 16777216 = (n \div 65536) \div 256
  BY SMT

(* Four bytes hold what a number is below 2^32... *)
LEMMA LowWord ==
  ASSUME NEW n \in Nat
  PROVE  /\ Bytes32(n) \in [1..4 -> Bytes] /\ Len(Bytes32(n)) = 4
         /\ High(n) \in Nat
         /\ n = Value32(Bytes32(n), 1) + 65536 * (65536 * (High(n)))
<1> DEFINE b == n \div 256
           c == n \div 65536
           d == n \div 16777216
           e == c \div 65536
<1>1. b \in Nat /\ c \in Nat /\ d \in Nat /\ e \in Nat BY SMT
<1>2. n = 256 * b + (n % 256) /\ n % 256 \in Bytes BY LowByte
<1>3. b = 256 * c + (b % 256) /\ b % 256 \in Bytes
  <2>1. c = b \div 256 BY Shifts
  <2> QED BY <2>1, <1>1, LowByte
<1>4. c = 256 * d + (c % 256) /\ c % 256 \in Bytes
  <2>1. d = c \div 256 BY Shifts
  <2> QED BY <2>1, <1>1, LowByte
<1>5. d = 256 * e + (d % 256) /\ d % 256 \in Bytes
  <2>1. d = c \div 256 BY Shifts
  <2>2. e = (c \div 256) \div 256 BY <1>1, Shifts
  <2> QED BY <2>1, <2>2, <1>1, LowByte
<1>6. Bytes32(n) = <<n % 256, b % 256, c % 256, d % 256>> BY DEF Bytes32
<1> DEFINE r0 == n % 256  r1 == b % 256  r2 == c % 256  r3 == d % 256
<1> HIDE DEF b, c, d, e, r0, r1, r2, r3
<1>7. r0 \in Nat /\ r1 \in Nat /\ r2 \in Nat /\ r3 \in Nat
  BY <1>2, <1>3, <1>4, <1>5 DEF Bytes, r0, r1, r2, r3
<1>8. n = 256 * b + r0 /\ b = 256 * c + r1 /\ c = 256 * d + r2 /\ d = 256 * e + r3
  BY <1>2, <1>3, <1>4, <1>5 DEF r0, r1, r2, r3
<1>9. n = (r0 + 256 * (r1 + 256 * (r2 + 256 * r3))) + 65536 * (65536 * e)
  BY <1>1, <1>7, <1>8
<1>10. Value32(Bytes32(n), 1) = r0 + 256 * (r1 + 256 * (r2 + 256 * r3))
  BY <1>6 DEF Value32, r0, r1, r2, r3
<1>11. Bytes32(n) \in [1..4 -> Bytes] /\ Len(Bytes32(n)) = 4
  BY <1>2, <1>3, <1>4, <1>5, <1>6
<1>12. High(n) = e BY DEF High, e, c
<1> QED BY <1>1, <1>9, <1>10, <1>11, <1>12

(* ...which is all of it when it fits. *)
LEMMA Word ==
  ASSUME NEW n, Fits32(n)
  PROVE  n \in Nat /\ Value32(Bytes32(n), 1) = n
<1>1. n \in Nat /\ High(n) = 0 BY SMT DEF Fits32, High
<1>2. n = Value32(Bytes32(n), 1) + (65536 * (65536 * 0)) BY <1>1, LowWord
<1> DEFINE w == Bytes32(n)
<1>3. \A i \in 1..4 : w[i] \in Nat
  <2>1. w \in [1..4 -> Bytes] BY <1>1, LowWord
  <2> QED BY <2>1 DEF Bytes
<1> HIDE DEF w
<1>4. w[1] \in Nat /\ w[1 + 1] \in Nat /\ w[1 + 2] \in Nat /\ w[1 + 3] \in Nat
  BY <1>3
<1>5. Value32(w, 1) \in Nat BY <1>4 DEF Value32
<1> QED BY <1>1, <1>2, <1>5 DEF w

LEMMA MagicFits == Fits32(Magic)
  BY SMT DEF Fits32, Magic

LEMMA HighWord ==
  ASSUME NEW n, Fits64(n)
  PROVE  n \in Nat /\ Fits32(High(n))
  BY DEF Fits64

-----------------------------------------------------------------------------
(* The header. *)

(* The layout: where each byte of a header comes from. *)
LEMMA Layout ==
  ASSUME NEW h \in Headers, NEW i \in 1..4
  PROVE  /\ Encode(h)[i] = Bytes32(Magic)[i]
         /\ Encode(h)[4 + i] = Bytes32(h.number)[i]
         /\ Encode(h)[8 + i] = Bytes32(h.timestamp)[i]
         /\ Encode(h)[12 + i] = Bytes32(High(h.timestamp))[i]
         /\ Encode(h)[17] = h.codec
         /\ Encode(h)[17 + i] = Bytes32(h.size)[i]
BY DEF Encode, HeaderWrite, HeaderSize

(* Whatever the phone writes is what the receiver reads. *)
THEOREM RoundTrip ==
  ASSUME NEW h \in Headers
  PROVE  MagicMatch(Encode(h)) /\ HeaderRead(Encode(h)) = h
<1> DEFINE b == Encode(h)
           hi == High(h.timestamp)
<1>1. /\ Fits32(h.number) /\ Fits64(h.timestamp) /\ h.codec \in Bytes /\ Fits32(h.size)
      /\ h = [number |-> h.number, timestamp |-> h.timestamp, codec |-> h.codec, size |-> h.size]
  BY DEF Headers
<1>2. \A i \in 1..4 : /\ b[i] = Bytes32(Magic)[i]
                      /\ b[4 + i] = Bytes32(h.number)[i]
                      /\ b[8 + i] = Bytes32(h.timestamp)[i]
                      /\ b[12 + i] = Bytes32(hi)[i]
                      /\ b[17 + i] = Bytes32(h.size)[i]
  BY Layout
<1>3. b[17] = h.codec BY Layout
<1> HIDE DEF b, hi
<1>4. MagicMatch(b) BY <1>2, Word, MagicFits DEF MagicMatch, Value32
<1>5. Value32(b, 5) = h.number
  <2>1. Value32(b, 5) = Value32(Bytes32(h.number), 1) BY <1>2 DEF Value32
  <2> QED BY <2>1, <1>1, Word
<1>6. Value32(b, 18) = h.size
  <2>1. Value32(b, 18) = Value32(Bytes32(h.size), 1) BY <1>2 DEF Value32
  <2> QED BY <2>1, <1>1, Word
<1>7. Value64(b, 9) = h.timestamp
  <2>1. Value32(b, 9) = Value32(Bytes32(h.timestamp), 1) BY <1>2 DEF Value32
  <2>2. Value32(b, 9 + 4) = Value32(Bytes32(hi), 1) BY <1>2 DEF Value32
  <2>3. Fits32(hi) /\ h.timestamp \in Nat BY <1>1, HighWord DEF hi
  <2>4. Value32(b, 9 + 4) = hi BY <2>2, <2>3, Word
  <2>5. h.timestamp = Value32(Bytes32(h.timestamp), 1) + 65536 * (65536 * hi)
    BY <2>3, LowWord DEF hi
  <2> QED BY <2>1, <2>4, <2>5 DEF Value64
<1> QED BY <1>1, <1>3, <1>4, <1>5, <1>6, <1>7 DEF HeaderRead, b
===============================================================================
