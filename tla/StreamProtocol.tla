---------------------------- MODULE StreamProtocol ----------------------------
(***************************************************************************)
(* The header in front of every frame (protocol/stream_protocol.h, and its *)
(* copy for the phone in shared/StreamHeader.swift): 21 bytes, every       *)
(* integer little-endian.  A byte is a number in 0..255, a shift by eight  *)
(* bits is a division by 256 and an OR of shifted bytes is a sum.          *)
(***************************************************************************)
EXTENDS Naturals, Sequences

CONSTANT MaxFrameSize   \* STREAM_MAX_FRAME_SIZE: 16 MiB in the source

ASSUME FrameSizeAssumption == MaxFrameSize \in Nat

Bytes == 0..255
HeaderSize == 21
Magic == 1229996877     \* 0x4950434D, "IPCM"
Hevc == 0
H264 == 1

-----------------------------------------------------------------------------
(* Writing. *)

High(n) == (n \div 65536) \div 65536
Fits32(n) == n \in Nat /\ n \div 65536 < 65536
Fits64(n) == n \in Nat /\ Fits32(High(n))

(* Mutant: the integers are written in network order. *)
NetworkOrder32(n) ==
  <<(n \div 16777216) % 256, (n \div 65536) % 256, (n \div 256) % 256, n % 256>>

Bytes32(n) ==
  <<n % 256, (n \div 256) % 256, (n \div 65536) % 256, (n \div 16777216) % 256>>

Headers == [number : {n \in Nat : Fits32(n)}, timestamp : {n \in Nat : Fits64(n)},
            codec : Bytes, size : {n \in Nat : Fits32(n)}]

(* Each field at its offset; the frame's size stands behind the codec's one byte. *)
HeaderWrite(number, timestamp, codec, size) ==
  [i \in 1..HeaderSize |->
     CASE i \in 1..4   -> Bytes32(Magic)[i]
       [] i \in 5..8   -> Bytes32(number)[i - 4]
       [] i \in 9..12  -> Bytes32(timestamp)[i - 8]
       [] i \in 13..16 -> Bytes32(High(timestamp))[i - 12]
       [] i = 17       -> codec
       [] i \in 18..21 -> Bytes32(size)[i - 17]]

Encode(h) == HeaderWrite(h.number, h.timestamp, h.codec, h.size)

-----------------------------------------------------------------------------
(* Reading. *)

Value32(b, at) == b[at] + 256 * (b[at + 1] + 256 * (b[at + 2] + 256 * b[at + 3]))
Value64(b, at) == Value32(b, at) + 65536 * (65536 * Value32(b, at + 4))

MagicMatch(b) == Value32(b, 1) = Magic

HeaderRead(b) ==
  [number |-> Value32(b, 5), timestamp |-> Value64(b, 9), codec |-> b[17],
   size |-> Value32(b, 18)]

HeaderIsValid(h) == h.codec \in {Hevc, H264} /\ h.size > 0 /\ h.size <= MaxFrameSize

===============================================================================
