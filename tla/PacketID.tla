------------------------------ MODULE PacketID ------------------------------
(***************************************************************************)
(* Packet identifiers of a TRU channel.                                    *)
(*                                                                         *)
(* A data packet carries an id below packetIDLimit.  The sender numbers    *)
(* its packets with newID, the receiver follows with newExpectedID, and    *)
(* both counters wrap to 0 at the limit.  The receiver decides whether a   *)
(* packet is old, expected or early from the signed modular distance       *)
(* between the two ids.                                                    *)
(***************************************************************************)
EXTENDS Integers

CONSTANT PacketIDLimit    \* number of ids: 0x100000 in the code

ASSUME PacketIDLimitAssumption == PacketIDLimit \in Nat \ {0}

IDs == 0 .. PacketIDLimit - 1

\* The counter after newID() and newExpectedID(): one more, 0 at the limit.
NextID(id) == IF id + 1 >= PacketIDLimit THEN 0 ELSE id + 1

\* modSubU, the closure in distance(): (a - b) modulo the limit, unsigned.
ModSubU(a, b) ==
    ((a % PacketIDLimit) + PacketIDLimit - (b % PacketIDLimit)) % PacketIDLimit

\* A comparison that forgets that ids wrap (a mistake, for comparison).
PlainDistance(expectedID, id) == id - expectedID

\* Negative: the id is behind the expected one; positive: it is ahead.
Distance(expectedID, id) ==
    LET diff == ModSubU(id, expectedID)
    IN  IF expectedID = id THEN 0
        ELSE IF diff < PacketIDLimit \div 2 THEN diff ELSE diff - PacketIDLimit

=============================================================================
