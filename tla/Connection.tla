----------------------------- MODULE Connection -----------------------------
(***************************************************************************)
(* What a net.Conn promises to the application that reads from it: the     *)
(* messages that its peer wrote, one after the other, each whole and with  *)
(* io.EOF at its end, from one that came after the Conn was opened on; and *)
(* when it is closed, the rest of the message at hand and no other.        *)
(***************************************************************************)
EXTENDS Naturals, Sequences

CONSTANTS
    Conns,    \* connections
    Lengths   \* lengths of messages

VARIABLES
    sent,     \* lengths of the messages of the peer, as they come
    state,    \* "none", "open" or "closed"
    taken,    \* the number of the last message that Read has begun with, or 0
    inside,   \* io.EOF of this message is still to come
    read      \* what Read returned, up to each io.EOF

connectionVars == <<sent, state, taken, inside, read>>

\* A byte is the number of its message and its place there.
Data(c, m) == [i \in 1 .. sent[c][m] |-> <<m, i>>]

\* What Read returned of the message at hand.
AtHand(c) == read[c][Len(read[c])]

ConnectionInit ==
    /\ sent = [c \in Conns |-> << >>]
    /\ state = [c \in Conns |-> "none"]
    /\ taken = [c \in Conns |-> 0]
    /\ inside = [c \in Conns |-> FALSE]
    /\ read = [c \in Conns |-> << << >> >>]

Arrive(c, n) ==
    /\ sent' = [sent EXCEPT ![c] = Append(@, n)]
    /\ UNCHANGED <<state, taken, inside, read>>

Open(c) ==
    /\ state[c] = "none"
    /\ state' = [state EXCEPT ![c] = "open"]
    /\ UNCHANGED <<sent, taken, inside, read>>

Close(c) ==
    /\ state[c] = "open"
    /\ state' = [state EXCEPT ![c] = "closed"]
    /\ UNCHANGED <<sent, taken, inside, read>>

\* Read has returned the first k bytes of message m.
Returned(c, m, k) == read' = [read EXCEPT ![c][Len(read[c])] = SubSeq(Data(c, m), 1, k)]

\* The first message may be any; then none is left out.
Begin(c, m) ==
    /\ state[c] = "open" /\ ~inside[c]
    /\ m > taken[c] /\ (taken[c] > 0 => m = taken[c] + 1)
    /\ \E k \in 0 .. sent[c][m] : Returned(c, m, k)
    /\ taken' = [taken EXCEPT ![c] = m]
    /\ inside' = [inside EXCEPT ![c] = TRUE]
    /\ UNCHANGED <<sent, state>>

GoOn(c) ==
    /\ inside[c]
    /\ \E k \in Len(AtHand(c)) + 1 .. sent[c][taken[c]] : Returned(c, taken[c], k)
    /\ UNCHANGED <<sent, state, taken, inside>>

End(c) ==
    /\ inside[c] /\ AtHand(c) = Data(c, taken[c])
    /\ inside' = [inside EXCEPT ![c] = FALSE]
    /\ read' = [read EXCEPT ![c] = Append(@, << >>)]
    /\ UNCHANGED <<sent, state, taken>>

ConnectionNext ==
    \E c \in Conns :
        \/ \E n \in Lengths : Arrive(c, n)
        \/ Open(c) \/ Close(c)
        \/ \E m \in 1 .. Len(sent[c]) : Begin(c, m)
        \/ GoOn(c) \/ End(c)

ConnectionSpec == ConnectionInit /\ [][ConnectionNext]_connectionVars

=============================================================================
