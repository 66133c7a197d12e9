--------------------------- MODULE MCStreamSender ---------------------------
(* Small instances of StreamSender for TLC.                                *)
EXTENDS StreamSender, TLC

ListenerSymmetry   == Permutations(Listeners)
ConnectionSymmetry == Permutations(Connections)
PeerSymmetry       == ListenerSymmetry \cup ConnectionSymmetry
===============================================================================
