----------------------------- MODULE LatestFrame -----------------------------
(***************************************************************************)
(* What windows/frame_store.h promises DirectShow, with no mutex, slot or  *)
(* half of a copy in sight: a register that a decoder writes and a reader  *)
(* reads.  A read takes the whole of the newest frame, so that a picture   *)
(* is of one frame, and none older follows it.                             *)
(***************************************************************************)
EXTENDS Naturals

CONSTANT Parts   \* the parts of a picture

VARIABLES
  newest,    \* the last frame published, 0 before the first
  picture    \* what the reader read last: the frame each part of it is of

vars == <<newest, picture>>

PictureOf(frame) == [p \in Parts |-> frame]

Init == newest = 0 /\ picture = PictureOf(0)

Publish == newest' \in Nat /\ newest' > newest /\ UNCHANGED picture

Read == picture' = PictureOf(newest) /\ UNCHANGED newest

Next == Publish \/ Read

Spec == Init /\ [][Next]_vars
===============================================================================
