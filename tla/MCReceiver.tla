----------------------------- MODULE MCReceiver -----------------------------
(* Receiver for TLC. *)
EXTENDS Receiver

BothModes == {TRUE, FALSE}
TwoHosts == {"h1", "h2"}

=============================================================================
