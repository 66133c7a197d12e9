---------------------------- MODULE MCDirectShow ----------------------------
(* DirectShowCamera for TLC: constants are given in the .cfg files.        *)
EXTENDS DirectShowCamera

=============================================================================
