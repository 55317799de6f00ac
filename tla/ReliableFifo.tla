---------------------------- MODULE ReliableFifo ----------------------------
(***************************************************************************)
(* What a TRU channel promises to the two applications at its ends, in one *)
(* direction: the packets the writer's side numbered 0, 1, 2, ... reach    *)
(* the reader in this order, each once, and none before it was written.    *)
(***************************************************************************)
EXTENDS Naturals, Sequences

VARIABLES
    accepted,     \* how many packets the writing side has numbered
    delivered     \* the packets given to the reading application, in order

fifoVars == <<accepted, delivered>>

FifoInit == accepted = 0 /\ delivered = << >>

Accept ==
    /\ accepted' = accepted + 1
    /\ UNCHANGED delivered

Deliver ==
    /\ Len(delivered) < accepted
    /\ delivered' = Append(delivered, Len(delivered))
    /\ UNCHANGED accepted

FifoNext == Accept \/ Deliver

FifoSpec == FifoInit /\ [][FifoNext]_fifoVars

=============================================================================
