---------------------------- MODULE MCHandshake -----------------------------
(***************************************************************************)
(* Instances of Handshake for TLC.  Channel objects are interchangeable.   *)
(***************************************************************************)
EXTENDS Handshake, TLC

Symmetry == Permutations(ClientChannels) \cup Permutations(ServerChannels)

=============================================================================
