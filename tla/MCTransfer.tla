----------------------------- MODULE MCTransfer -----------------------------
(***************************************************************************)
(* Instances of Transfer for TLC.  The goroutines in WriteTo are           *)
(* interchangeable.                                                        *)
(***************************************************************************)
EXTENDS Transfer, TLC

WriterSymmetry == Permutations(Writers)

=============================================================================
