----------------------------- MODULE MCUrbQueue -----------------------------
(* The URB queue for TLC: a ring of Size slots, two distinct URBs, the two   *)
(* threads of the connection and one thread from outside that closes.       *)
EXTENDS UrbQueue

=============================================================================
