------------------------------- MODULE LiveFeed -------------------------------
(***************************************************************************)
(* What the phone promises the PC, with no listener, queue or callback in  *)
(* sight: at most one viewer at a time; a viewer that is replaced or leaves *)
(* is never served again; what a viewer is shown starts at an IDR picture, *)
(* depends on nothing older, and is newer than all that was shown before,  *)
(* to anybody.                                                             *)
(***************************************************************************)
EXTENDS Naturals, Sequences

CONSTANTS Viewers, NoViewer, Packets

VARIABLES
  viewer,   \* the viewer being served, or NoViewer
  feed      \* the packets each viewer has been shown

vars == <<viewer, feed>>

(* A packet names its frame and the IDR frame it depends on.               *)
IsIdr(p) == p.idr = p.frame

Init ==
  /\ viewer = NoViewer
  /\ feed = [v \in Viewers |-> <<>>]

Join(v) ==
  /\ v # viewer
  /\ feed[v] = <<>>
  /\ viewer' = v
  /\ UNCHANGED feed

Leave ==
  /\ viewer' = NoViewer
  /\ UNCHANGED feed

Newest(p) == \A v \in Viewers : \A i \in 1..Len(feed[v]) : feed[v][i].frame < p.frame

Decodable(p, shown) ==
  IF shown = <<>> THEN IsIdr(p) ELSE p.idr >= shown[1].frame

Show(p) ==
  /\ viewer # NoViewer
  /\ Newest(p)
  /\ Decodable(p, feed[viewer])
  /\ feed' = [feed EXCEPT ![viewer] = Append(@, p)]
  /\ UNCHANGED viewer

Next ==
  \/ \E v \in Viewers : Join(v)
  \/ Leave
  \/ \E p \in Packets : Show(p)

Spec == Init /\ [][Next]_vars
===============================================================================
