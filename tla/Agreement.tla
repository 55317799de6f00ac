----------------------------- MODULE Agreement ------------------------------
(***************************************************************************)
(* What a call of Connect promises to the applications of both ends: it is *)
(* decided once, by an error or by a channel; the channel is one that was  *)
(* made for this call and no other, at the request of the server, which    *)
(* has a channel of its own for the call and has taken a session key from  *)
(* it.  What comes late changes no decision.                               *)
(***************************************************************************)

CONSTANTS
    Calls,        \* calls of Connect
    ClientEnds,   \* channels of the client
    ServerEnds,   \* channels of the server
    None          \* no call, no channel

VARIABLES
    state,    \* of each call: "idle", "waiting", "decided" or "over"
    result,   \* the channel that the call returns, None for an error
    offered,  \* the call each of the server's channels was made for
    made,     \* the call each of the client's channels was made for
    agreed    \* calls in which the server took a session key

agreementVars == <<state, result, offered, made, agreed>>

AgreementInit ==
    /\ state = [a \in Calls |-> "idle"]
    /\ result = [a \in Calls |-> None]
    /\ offered = [s \in ServerEnds |-> None]
    /\ made = [c \in ClientEnds |-> None]
    /\ agreed = {}

Call(a) ==
    /\ state[a] = "idle"
    /\ state' = [state EXCEPT ![a] = "waiting"]
    /\ UNCHANGED <<result, offered, made, agreed>>

\* The server makes a channel for a call, even if the call is over.
Offer(a, s) ==
    /\ state[a] # "idle"
    /\ offered[s] = None
    /\ offered' = [offered EXCEPT ![s] = a]
    /\ UNCHANGED <<state, result, made, agreed>>

\* The client makes one once the server has.
Make(a, c) ==
    /\ state[a] \in {"waiting", "decided"}
    /\ \E s \in ServerEnds : offered[s] = a
    /\ made[c] = None
    /\ made' = [made EXCEPT ![c] = a]
    /\ UNCHANGED <<state, result, offered, agreed>>

\* The server takes the session key that came with it.
Agree(a) ==
    /\ \E c \in ClientEnds : made[c] = a
    /\ agreed' = agreed \cup {a}
    /\ UNCHANGED <<state, result, offered, made>>

Decide(a, ch) ==
    /\ state[a] = "waiting"
    /\ state' = [state EXCEPT ![a] = "decided"]
    /\ result' = [result EXCEPT ![a] = ch]
    /\ UNCHANGED <<offered, made, agreed>>

Connected(a) == a \in agreed /\ \E c \in ClientEnds : made[c] = a /\ Decide(a, c)

Failed(a) == Decide(a, None)

Return(a) ==
    /\ state[a] = "decided"
    /\ state' = [state EXCEPT ![a] = "over"]
    /\ UNCHANGED <<result, offered, made, agreed>>

AgreementNext ==
    \E a \in Calls :
        \/ Call(a) \/ Agree(a) \/ Connected(a) \/ Failed(a) \/ Return(a)
        \/ \E s \in ServerEnds : Offer(a, s)
        \/ \E c \in ClientEnds : Make(a, c)

AgreementSpec == AgreementInit /\ [][AgreementNext]_agreementVars

=============================================================================
