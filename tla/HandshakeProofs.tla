--------------------------- MODULE HandshakeProofs --------------------------
(***************************************************************************)
(* What holds of connecting for any number of calls, channels and repeated *)
(* datagrams, however late: the types, that the maps hold live channels,   *)
(* and that Connect keeps what Agreement promises.                         *)
(*                                                                         *)
(* MappedIsLive is inductive.  The refinement rests on what the datagrams  *)
(* on the way say of the ends (Evidence), a done packet of a served client *)
(* answer, and that of a channel made for the call; and on each channel    *)
(* being made for one call (CallInv).                                      *)
(***************************************************************************)
EXTENDS Session, TLAPS

LEMMA RestSmaller == ASSUME NEW d PROVE Rest(d) \subseteq net
  BY DEF Rest

\* The variables keep their types, whatever is called and arrives: Connect,
\* wait, serve, destroy.
THEOREM TypeCorrect == Spec => []TypeOK
<1>1. Init => TypeOK
  <2> SUFFICES ASSUME Init PROVE TypeOK
    OBVIOUS
  <2>1. /\ cstate \in [ClientChannels -> States] /\ sstate \in [ServerChannels -> States]
        /\ cclosing \in [ClientChannels -> Endings] /\ sclosing \in [ServerChannels -> Endings]
    BY DEF Init, States, Endings
  <2>2. net \subseteq Datagrams /\ confirmed \subseteq Attempts
    BY DEF Init
  <2> QED BY <2>1, <2>2 DEF Init, TypeOK
<1>2. TypeOK /\ [Next]_vars => TypeOK'
  <2> SUFFICES ASSUME TypeOK, [Next]_vars PROVE TypeOK'
    OBVIOUS
  <2> USE DEF TypeOK, Endings, States, vars, clientVars, connectVars, channelVars, listenVars,
             serverVars
  <2>1. ASSUME NEW a \in Attempts, ConnectNext(a) PROVE TypeOK'
    <3>1. CASE Connect(a)
      BY <3>1 DEF Connect, Connecting, Datagrams
    <3>2. CASE Wait(a)
      BY <3>2 DEF Wait
    <3>3. CASE Timeout(a)
      BY <3>3 DEF Timeout
    <3>4. CASE CloseWch(a)
      BY <3>4 DEF CloseWch
    <3>5. CASE Return(a)
      BY <3>5 DEF Return
    <3> QED BY <2>1, <3>1, <3>2, <3>3, <3>4, <3>5 DEF ConnectNext
  <2>2. ASSUME NEW a \in Attempts, ServeDone(a) PROVE TypeOK'
    BY <2>2, RestSmaller DEF ServeDone
  <2>3. ASSUME NEW a \in Attempts, NEW c \in ClientChannels, ServeServerAnswer(a, c)
        PROVE  TypeOK'
    <3>1. ClientAnswer(a, c) \in Datagrams
      BY DEF ClientAnswer, Datagrams
    <3> QED BY <2>3, <3>1, RestSmaller DEF ServeServerAnswer
  <2>4. ASSUME NEW d \in net, ServeWrong(d) PROVE TypeOK'
    BY <2>4, RestSmaller
       DEF ServeWrong, ConnectError, DestroyClient
  <2>5. ASSUME SendOnClosed PROVE TypeOK'
    BY <2>5 DEF SendOnClosed
  <2>6. ASSUME NEW c \in ClientChannels, BeginEndClient(c) \/ EndClient(c) \/ DeleteClient(c)
        PROVE  TypeOK'
    BY <2>6 DEF BeginEndClient, EndClient, DeleteClient
  <2>7. ASSUME NEW a \in Attempts, NEW s \in ServerChannels, ServeConnect(a, s) PROVE TypeOK'
    <3>1. ServerAnswer(a) \in Datagrams
      BY DEF ServerAnswer, Datagrams
    <3> QED BY <2>7, <3>1, RestSmaller
               DEF ServeConnect
  <2>8. ASSUME NEW a \in Attempts, NEW key \in ClientChannels, ServeClientAnswer(a, key)
        PROVE  TypeOK'
    <3>1. ConnectDone(a) \in Datagrams
      BY DEF ConnectDone, Datagrams
    <3> QED BY <2>8, <3>1, RestSmaller
               DEF ServeClientAnswer
  <2>9. ASSUME NEW s \in ServerChannels, BeginEndServer(s) \/ EndServer(s) \/ DeleteServer(s)
        PROVE  TypeOK'
    BY <2>9 DEF BeginEndServer, EndServer, DeleteServer
  <2>10. CASE UNCHANGED vars
    BY <2>10
  <2> QED BY <2>1, <2>2, <2>3, <2>4, <2>5, <2>6, <2>7, <2>8, <2>9, <2>10
             DEF Next, ClientNext, ServerNext
<1> QED BY <1>1, <1>2, PTL DEF Spec

-----------------------------------------------------------------------------
\* The maps hold no destroyed channel, but for one that is being deleted: serve,
\* newChannel and destroy, for any number of channels.
THEOREM Mapped == Spec => []MappedIsLive
<1>1. Init => MappedIsLive
  BY DEF Init, MappedIsLive
<1>2. TypeOK /\ MappedIsLive /\ [Next]_vars => MappedIsLive'
  <2> SUFFICES ASSUME TypeOK, MappedIsLive, [Next]_vars PROVE MappedIsLive'
    OBVIOUS
  <2> USE HandshakeAssumption
      DEF TypeOK, Endings, States, MappedIsLive, vars, clientVars, connectVars,
          channelVars, listenVars, serverVars
  <2>1. ASSUME NEW a \in Attempts, ConnectNext(a) PROVE MappedIsLive'
    BY <2>1 DEF ConnectNext, Connect, Wait, Timeout, CloseWch, Return
  <2>2. ASSUME NEW a \in Attempts, ServeDone(a) PROVE MappedIsLive'
    BY <2>2 DEF ServeDone
  <2>3. ASSUME NEW a \in Attempts, NEW c \in ClientChannels, ServeServerAnswer(a, c)
        PROVE  MappedIsLive'
    BY <2>3 DEF ServeServerAnswer
  <2>4. ASSUME NEW d \in net, ServeWrong(d) PROVE MappedIsLive'
    BY <2>4 DEF ServeWrong, ConnectError, DestroyClient
  <2>5. ASSUME SendOnClosed PROVE MappedIsLive'
    BY <2>5 DEF SendOnClosed
  <2>6. ASSUME NEW c \in ClientChannels, BeginEndClient(c) \/ EndClient(c) \/ DeleteClient(c)
        PROVE  MappedIsLive'
    BY <2>6 DEF BeginEndClient, EndClient, DeleteClient
  <2>7. ASSUME NEW a \in Attempts, NEW s \in ServerChannels, ServeConnect(a, s)
        PROVE  MappedIsLive'
    BY <2>7 DEF ServeConnect
  <2>8. ASSUME NEW a \in Attempts, NEW key \in ClientChannels, ServeClientAnswer(a, key)
        PROVE  MappedIsLive'
    BY <2>8 DEF ServeClientAnswer
  <2>9. ASSUME NEW s \in ServerChannels, BeginEndServer(s) \/ EndServer(s) \/ DeleteServer(s)
        PROVE  MappedIsLive'
    BY <2>9 DEF BeginEndServer, EndServer, DeleteServer
  <2>10. CASE UNCHANGED vars
    BY <2>10
  <2> QED BY <2>1, <2>2, <2>3, <2>4, <2>5, <2>6, <2>7, <2>8, <2>9, <2>10
             DEF Next, ClientNext, ServerNext
<1> QED BY <1>1, <1>2, TypeCorrect, PTL DEF Spec

-----------------------------------------------------------------------------
\* The channel of a call that got the server's answer was made for it.
MadeForCall ==
    \A a \in Attempts, c \in ClientChannels :
        cdch[a] = c \/ result[a] = c => cattempt[c] = a /\ cstate[c] # "unused"

\* A client answer is evidence of a channel, and a done packet of a client
\* answer that was served.
Evidence ==
    /\ \A a \in Attempts, key \in ClientChannels :
          ClientAnswer(a, key) \in net => cdch[a] # NoChannel
    /\ \A a \in Attempts : ConnectDone(a) \in net => a \in confirmed
    /\ \A a \in confirmed : cdch[a] # NoChannel
    /\ \A a \in Attempts : result[a] # NoChannel => a \in confirmed
    /\ lpc = "send" => la \in confirmed

IInv == TypeOK /\ MadeForCall /\ Evidence

LEMMA Invariance == Spec => []IInv
<1>1. Init => MadeForCall /\ Evidence
  BY HandshakeAssumption DEF Init, MadeForCall, Evidence
<1>2. IInv /\ TypeOK' /\ [Next]_vars => MadeForCall' /\ Evidence'
  <2> SUFFICES ASSUME IInv, TypeOK', [Next]_vars PROVE MadeForCall' /\ Evidence'
    OBVIOUS
  <2> USE HandshakeAssumption
      DEF IInv, TypeOK, States, MadeForCall, Evidence, vars, clientVars, connectVars,
          channelVars, listenVars, serverVars
  <2>1. ASSUME NEW a \in Attempts, ConnectNext(a) PROVE MadeForCall' /\ Evidence'
    <3>1. CASE Connect(a)
      BY <3>1 DEF Connect, Connecting, ClientAnswer, ConnectDone
    <3>2. CASE Wait(a)
      BY <3>2 DEF Wait
    <3>3. CASE Timeout(a) \/ CloseWch(a)
      BY <3>3 DEF Timeout, CloseWch
    <3>4. CASE Return(a)
      BY <3>4 DEF Return
    <3> QED BY <2>1, <3>1, <3>2, <3>3, <3>4 DEF ConnectNext
  <2>2. ASSUME NEW a \in Attempts, ServeDone(a) PROVE MadeForCall' /\ Evidence'
    BY <2>2, RestSmaller DEF ServeDone
  <2>3. ASSUME NEW a \in Attempts, NEW c \in ClientChannels, ServeServerAnswer(a, c)
        PROVE  MadeForCall' /\ Evidence'
    <3> USE <2>3 DEF ServeServerAnswer
    <3>1. MadeForCall'
      OBVIOUS
    <3>2. net' \subseteq net \cup {ClientAnswer(a, c)}
      BY RestSmaller
    <3>3. \A b \in Attempts : ClientAnswer(a, c) # ConnectDone(b)
      BY DEF ClientAnswer, ConnectDone
    <3>4. \A b \in Attempts, k \in ClientChannels : ClientAnswer(a, c) = ClientAnswer(b, k) => a = b
      BY DEF ClientAnswer
    <3> QED BY <3>1, <3>2, <3>3, <3>4
  <2>4. ASSUME NEW d \in net, ServeWrong(d) PROVE MadeForCall' /\ Evidence'
    BY <2>4, RestSmaller
       DEF ServeWrong, ConnectError, DestroyClient
  <2>5. ASSUME SendOnClosed PROVE MadeForCall' /\ Evidence'
    BY <2>5 DEF SendOnClosed
  <2>6. ASSUME NEW c \in ClientChannels, BeginEndClient(c) \/ EndClient(c) \/ DeleteClient(c)
        PROVE  MadeForCall' /\ Evidence'
    BY <2>6 DEF BeginEndClient, EndClient, DeleteClient
  <2>7. ASSUME NEW a \in Attempts, NEW s \in ServerChannels, ServeConnect(a, s)
        PROVE  MadeForCall' /\ Evidence'
    BY <2>7, RestSmaller
       DEF ServeConnect, ServerAnswer, ClientAnswer, ConnectDone
  <2>8. ASSUME NEW a \in Attempts, NEW key \in ClientChannels, ServeClientAnswer(a, key)
        PROVE  MadeForCall' /\ Evidence'
    BY <2>8, RestSmaller
       DEF ServeClientAnswer, ClientAnswer, ConnectDone
  <2>9. ASSUME NEW s \in ServerChannels, BeginEndServer(s) \/ EndServer(s) \/ DeleteServer(s)
        PROVE  MadeForCall' /\ Evidence'
    BY <2>9 DEF BeginEndServer, EndServer, DeleteServer
  <2>10. CASE UNCHANGED vars
    BY <2>10
  <2> QED BY <2>1, <2>2, <2>3, <2>4, <2>5, <2>6, <2>7, <2>8, <2>9, <2>10
             DEF Next, ClientNext, ServerNext
<1> QED BY <1>1, <1>2, TypeCorrect, PTL DEF Spec, IInv

-----------------------------------------------------------------------------
(***************************************************************************)
(* Handshake implements Agreement.                                         *)
(***************************************************************************)

\* A channel is made for a call once, an answer is that of a channel the server
\* made, and a call has no result before it is decided.
CallInv ==
    /\ \A c \in ClientChannels : cstate[c] = "unused" => cattempt[c] = NoChannel
    /\ \A s \in ServerChannels : sstate[s] = "unused" => sattempt[s] = NoChannel
    /\ \A a \in Attempts :
          /\ Connecting(a) \in net => pc[a] # "idle"
          /\ ServerAnswer(a) \in net => \E s \in ServerChannels : sattempt[s] = a
          /\ pc[a] \in {"idle", "waiting"} => result[a] = NoChannel

AInv == IInv /\ CallInv

\* A datagram that is not the answer to a call, nor its first packet.
LEMMA OtherDatagrams ==
    ASSUME NEW a \in Attempts, NEW b \in Attempts, NEW k
    PROVE  /\ Connecting(a) # ServerAnswer(b) /\ ClientAnswer(a, k) # ServerAnswer(b)
           /\ ConnectDone(a) # ServerAnswer(b) /\ ClientAnswer(a, k) # Connecting(b)
           /\ ConnectDone(a) # Connecting(b)
           /\ Connecting(a) = Connecting(b) => a = b
           /\ ServerAnswer(a) = ServerAnswer(b) => a = b
  BY DEF Connecting, ServerAnswer, ClientAnswer, ConnectDone

LEMMA AgreementInitial == Init => Promise!AgreementInit
<1> SUFFICES ASSUME Init PROVE Promise!AgreementInit
  OBVIOUS
<1>1. [a \in Attempts |-> State(a)] = [a \in Attempts |-> "idle"]
  BY DEF Init, State
<1> QED BY <1>1 DEF Init, Promise!AgreementInit

\* A call goes from one state to another, and the others stay where they are.
LEMMA StateMoves ==
    ASSUME TypeOK, NEW a \in Attempts,
           NEW st \in {"idle", "waiting", "leaving", "closed", "returned"},
           pc' = [pc EXCEPT ![a] = st]
    PROVE  [b \in Attempts |-> State(b)]'
               = [[b \in Attempts |-> State(b)] EXCEPT ![a] = State(a)']
<1>1. \A b \in Attempts : b # a => State(b)' = State(b)
  BY DEF State, TypeOK
<1> QED BY <1>1

\* What the goroutine that called Connect does.
LEMMA CallsAgree ==
    ASSUME AInv, NEW a \in Attempts, ConnectNext(a)
    PROVE  CallInv' /\ [Promise!AgreementNext]_(Promise!agreementVars)
<1> DEFINE states == [b \in Attempts |-> State(b)]
<1>1. TypeOK /\ CallInv /\ MadeForCall /\ Evidence /\ a # NoChannel
  BY HandshakeAssumption DEF AInv, IInv
<1>2. states[a] = State(a)
  OBVIOUS
<1>3. CASE Connect(a)
  <2>1. states' = [states EXCEPT ![a] = "waiting"] /\ states[a] = "idle"
    BY <1>1, <1>2, <1>3, StateMoves DEF Connect, State, TypeOK
  <2>2. UNCHANGED <<result, sattempt, cattempt, confirmed>>
    BY <1>3 DEF Connect, channelVars, serverVars
  <2>3. CallInv'
    BY <1>1, <1>3, OtherDatagrams DEF Connect, CallInv, channelVars, serverVars, TypeOK
  <2> QED BY <2>1, <2>2, <2>3 DEF Promise!AgreementNext, Promise!Call
<1>4. CASE Wait(a)
  <2>1. states' = [states EXCEPT ![a] = "decided"] /\ states[a] = "waiting"
    BY <1>1, <1>2, <1>4, StateMoves DEF Wait, State, TypeOK
  <2>2. result' = [result EXCEPT ![a] = cdch[a]]
        /\ UNCHANGED <<sattempt, cattempt, confirmed>>
    BY <1>4 DEF Wait, channelVars, serverVars
  <2>3. a \in confirmed /\ cdch[a] \in ClientChannels /\ cattempt[cdch[a]] = a
    BY <1>1, <1>4 DEF Wait, Evidence, MadeForCall, TypeOK
  <2>4. CallInv'
    BY <1>1, <1>4 DEF Wait, CallInv, channelVars, serverVars, TypeOK
  <2>5. Promise!Connected(a)
    BY <2>1, <2>2, <2>3 DEF Promise!Connected, Promise!Decide
  <2> QED BY <2>4, <2>5 DEF Promise!AgreementNext
<1>5. CASE Timeout(a)
  <2>1. states' = [states EXCEPT ![a] = "decided"] /\ states[a] = "waiting"
    BY <1>1, <1>2, <1>5, StateMoves DEF Timeout, State, TypeOK
  <2>2. UNCHANGED <<result, sattempt, cattempt, confirmed>> /\ result[a] = NoChannel
    BY <1>1, <1>5 DEF Timeout, CallInv, channelVars, serverVars
  <2>3. result' = [result EXCEPT ![a] = NoChannel]
    BY <1>1, <2>2 DEF TypeOK
  <2>4. CallInv'
    BY <1>1, <1>5 DEF Timeout, CallInv, channelVars, serverVars, TypeOK
  <2> QED BY <2>1, <2>2, <2>3, <2>4 DEF Promise!AgreementNext, Promise!Failed, Promise!Decide
<1>6. CASE CloseWch(a)
  <2>1. states' = [states EXCEPT ![a] = "decided"] /\ states[a] = "decided"
    BY <1>1, <1>2, <1>6, StateMoves DEF CloseWch, State, TypeOK
  <2>2. states' = states
    BY <2>1
  <2>3. UNCHANGED <<result, sattempt, cattempt, confirmed>>
    BY <1>6 DEF CloseWch, channelVars, serverVars
  <2>4. CallInv'
    BY <1>1, <1>6 DEF CloseWch, CallInv, channelVars, serverVars, TypeOK
  <2> QED BY <2>2, <2>3, <2>4 DEF Promise!agreementVars
<1>7. CASE Return(a)
  <2>1. states' = [states EXCEPT ![a] = "over"] /\ states[a] = "decided"
    BY <1>1, <1>2, <1>7, StateMoves DEF Return, State, TypeOK
  <2>2. UNCHANGED <<result, sattempt, cattempt, confirmed>>
    BY <1>7 DEF Return, channelVars, serverVars
  <2>3. CallInv'
    BY <1>1, <1>7 DEF Return, CallInv, channelVars, serverVars, TypeOK
  <2> QED BY <2>1, <2>2, <2>3 DEF Promise!AgreementNext, Promise!Return
<1> QED BY <1>3, <1>4, <1>5, <1>6, <1>7 DEF ConnectNext

\* A step that takes a datagram away, if any, makes no channel and decides no
\* call.
LEMMA NothingAgreed ==
    ASSUME AInv, net' \subseteq net \cup {ConnectDone(a) : a \in Attempts},
           UNCHANGED <<pc, result, sattempt, cattempt, confirmed>>,
           \A c \in ClientChannels : cstate'[c] = "unused" => cstate[c] = "unused",
           \A s \in ServerChannels : sstate'[s] = "unused" => sstate[s] = "unused"
    PROVE  CallInv' /\ UNCHANGED Promise!agreementVars
<1>1. [a \in Attempts |-> State(a)]' = [a \in Attempts |-> State(a)]
  BY DEF State
<1>2. ASSUME NEW a \in Attempts
      PROVE  /\ Connecting(a) \in net' => Connecting(a) \in net
             /\ ServerAnswer(a) \in net' => ServerAnswer(a) \in net
  BY OtherDatagrams
<1>3. CallInv'
  BY <1>2 DEF AInv, CallInv
<1> QED BY <1>1, <1>3 DEF Promise!agreementVars

\* The steps of both listen goroutines, and of those that destroy channels.
LEMMA ServedAgree ==
    ASSUME AInv, ClientNext \/ ServerNext \/ UNCHANGED vars
    PROVE  CallInv' /\ [Promise!AgreementNext]_(Promise!agreementVars)
<1> DEFINE states == [b \in Attempts |-> State(b)]
<1> USE DEF connectVars, channelVars, listenVars, clientVars, serverVars
<1>0. TypeOK /\ CallInv /\ MadeForCall /\ Evidence /\ NoChannel \notin Attempts
  BY HandshakeAssumption DEF AInv, IInv
<1>1. ASSUME NEW a \in Attempts, ServeDone(a)
      PROVE  CallInv' /\ [Promise!AgreementNext]_(Promise!agreementVars)
  BY <1>1, NothingAgreed, RestSmaller DEF ServeDone
<1>2. ASSUME NEW a \in Attempts, NEW c \in ClientChannels, ServeServerAnswer(a, c)
      PROVE  CallInv' /\ [Promise!AgreementNext]_(Promise!agreementVars)
  <2>1. /\ cattempt' = [cattempt EXCEPT ![c] = a] /\ cattempt[c] = NoChannel
        /\ UNCHANGED <<pc, result, sattempt, confirmed>>
    BY <1>0, <1>2 DEF ServeServerAnswer, CallInv
  <2>2. states' = states /\ states[a] \in {"waiting", "decided"}
    BY <1>2, <2>1 DEF State, ServeServerAnswer, Connects
  <2>3. \E s \in ServerChannels : sattempt[s] = a
    BY <1>0, <1>2 DEF ServeServerAnswer, CallInv
  <2>4. CallInv'
    <3>1. net' \subseteq net \cup {ClientAnswer(a, c)}
      BY <1>2, RestSmaller DEF ServeServerAnswer
    <3>2. ASSUME NEW b \in Attempts
          PROVE  /\ Connecting(b) \in net' => Connecting(b) \in net
                 /\ ServerAnswer(b) \in net' => ServerAnswer(b) \in net
      BY <3>1, OtherDatagrams
    <3>3. \A d \in ClientChannels : cstate'[d] = "unused" => d # c /\ cstate[d] = "unused"
      BY <1>0, <1>2 DEF ServeServerAnswer, TypeOK
    <3> QED BY <1>0, <1>2, <2>1, <3>2, <3>3 DEF ServeServerAnswer, CallInv, TypeOK
  <2> QED BY <2>1, <2>2, <2>3, <2>4 DEF Promise!AgreementNext, Promise!Make
<1>3. ASSUME NEW d \in net, ServeWrong(d)
      PROVE  CallInv' /\ [Promise!AgreementNext]_(Promise!agreementVars)
  <2>1. \A c \in ClientChannels : cstate'[c] = "unused" => cstate[c] = "unused"
    BY <1>0, <1>3 DEF ServeWrong, ConnectError, DestroyClient, TypeOK
  <2> QED BY <1>3, <2>1, NothingAgreed, RestSmaller DEF ServeWrong
<1>4. CASE SendOnClosed
  BY <1>4, NothingAgreed DEF SendOnClosed
<1>5. ASSUME NEW c \in ClientChannels, BeginEndClient(c) \/ EndClient(c) \/ DeleteClient(c)
      PROVE  CallInv' /\ [Promise!AgreementNext]_(Promise!agreementVars)
  <2>1. \A d \in ClientChannels : cstate'[d] = "unused" => cstate[d] = "unused"
    BY <1>0, <1>5 DEF BeginEndClient, EndClient, DeleteClient, TypeOK
  <2>2. UNCHANGED <<pc, result, sattempt, sstate, cattempt, confirmed, net>>
    BY <1>5 DEF BeginEndClient, EndClient, DeleteClient
  <2> QED BY <2>1, <2>2, NothingAgreed
<1>6. ASSUME NEW a \in Attempts, NEW s \in ServerChannels, ServeConnect(a, s)
      PROVE  CallInv' /\ [Promise!AgreementNext]_(Promise!agreementVars)
  <2>1. /\ sattempt' = [sattempt EXCEPT ![s] = a] /\ sattempt[s] = NoChannel
        /\ UNCHANGED <<pc, result, cattempt, confirmed>>
    BY <1>0, <1>6 DEF ServeConnect, CallInv
  <2>2. states' = states /\ states[a] # "idle"
    BY <1>0, <1>6, <2>1 DEF State, ServeConnect, CallInv
  <2>3. CallInv'
    <3>1. net' \subseteq net \cup {ServerAnswer(a)}
      BY <1>6, RestSmaller DEF ServeConnect
    <3>2. ASSUME NEW b \in Attempts
          PROVE  /\ Connecting(b) \in net' => Connecting(b) \in net
                 /\ ServerAnswer(b) \in net' => ServerAnswer(b) \in net \/ b = a
      BY <3>1, OtherDatagrams
    <3>3. \A t \in ServerChannels : sstate'[t] = "unused" => t # s /\ sstate[t] = "unused"
      BY <1>0, <1>6 DEF ServeConnect, TypeOK
    <3>4. \A b \in Attempts : (\E t \in ServerChannels : sattempt[t] = b) \/ b = a
                                  => \E t \in ServerChannels : sattempt'[t] = b
      BY <1>0, <2>1 DEF TypeOK
    <3>5. UNCHANGED <<cstate, pc, result, cattempt>>
      BY <1>6 DEF ServeConnect
    <3>6. \A t \in ServerChannels : sstate'[t] = "unused" => sattempt'[t] = NoChannel
      BY <1>0, <2>1, <3>3 DEF CallInv, TypeOK
    <3> QED BY <1>0, <3>2, <3>4, <3>5, <3>6 DEF CallInv
  <2> QED BY <2>1, <2>2, <2>3 DEF Promise!AgreementNext, Promise!Offer
<1>7. ASSUME NEW a \in Attempts, NEW key \in ClientChannels, ServeClientAnswer(a, key)
      PROVE  CallInv' /\ [Promise!AgreementNext]_(Promise!agreementVars)
  <2>1. /\ confirmed' = confirmed \cup {a}
        /\ UNCHANGED <<pc, result, sattempt, cattempt, sstate, cstate>>
    BY <1>7 DEF ServeClientAnswer
  <2>2. states' = states
    BY <2>1 DEF State
  <2>3. \E c \in ClientChannels : cattempt[c] = a
    BY <1>0, <1>7 DEF ServeClientAnswer, Evidence, MadeForCall, TypeOK
  <2>4. CallInv'
    <3>1. net' \subseteq net \cup {ConnectDone(a)}
      BY <1>7, RestSmaller DEF ServeClientAnswer
    <3>2. ASSUME NEW b \in Attempts
          PROVE  /\ Connecting(b) \in net' => Connecting(b) \in net
                 /\ ServerAnswer(b) \in net' => ServerAnswer(b) \in net
      BY <3>1, OtherDatagrams
    <3> QED BY <1>0, <2>1, <3>2 DEF CallInv
  <2> QED BY <2>1, <2>2, <2>3, <2>4 DEF Promise!AgreementNext, Promise!Agree
<1>8. ASSUME NEW s \in ServerChannels, BeginEndServer(s) \/ EndServer(s) \/ DeleteServer(s)
      PROVE  CallInv' /\ [Promise!AgreementNext]_(Promise!agreementVars)
  <2>1. \A t \in ServerChannels : sstate'[t] = "unused" => sstate[t] = "unused"
    BY <1>0, <1>8 DEF BeginEndServer, EndServer, DeleteServer, TypeOK
  <2>2. UNCHANGED <<pc, result, sattempt, cstate, cattempt, confirmed, net>>
    BY <1>8 DEF BeginEndServer, EndServer, DeleteServer
  <2> QED BY <2>1, <2>2, NothingAgreed
<1>9. CASE UNCHANGED vars
  BY <1>9, NothingAgreed DEF vars
<1> QED BY <1>1, <1>2, <1>3, <1>4, <1>5, <1>6, <1>7, <1>8, <1>9 DEF ClientNext, ServerNext

\* What Connect returns was made for that very call, at the request of the
\* server, who took a session key from it, and no call is decided twice, with
\* calls that overlap, and datagrams repeated and late: Connect, wait, serve.
THEOREM AgreementRefinement == Spec => ImplementsAgreement
<1>1. Init => CallInv
  BY HandshakeAssumption DEF Init, CallInv
<1>2. IInv /\ CallInv /\ [Next]_vars =>
          CallInv' /\ [Promise!AgreementNext]_(Promise!agreementVars)
  <2> SUFFICES ASSUME AInv, [Next]_vars
               PROVE  CallInv' /\ [Promise!AgreementNext]_(Promise!agreementVars)
    BY DEF AInv
  <2> QED BY CallsAgree, ServedAgree DEF Next
<1> QED BY <1>1, <1>2, AgreementInitial, Invariance, PTL
        DEF Spec, ImplementsAgreement, Promise!AgreementSpec

-----------------------------------------------------------------------------
\* The key that packetKey makes for data that is xored is as long as the data,
\* so that none of it is left as it is, and for AES it is 32 bytes long.
THEOREM KeyCovers ==
    ASSUME NEW n \in Nat
    PROVE  /\ Xor(n) => HashLen(PacketKey(n)) >= n
           /\ ~Xor(n) => HashLen(PacketKey(n)) = 32
  BY DEF Xor, XorMax, HashLen, PacketKey

\* The receiver, who sees only the length of the encrypted data, chooses the
\* cipher and the hash that the sender chose by the length of the data: what was
\* encrypted with the receiver's key is opened (encryptPacketData,
\* decryptPacketData).
THEOREM SameChoices ==
    ASSUME NEW key, NEW none, NEW n \in Nat
    PROVE  Decrypt(key, key, none, n) = "opened"
<1>1. CipherLen(n) \in Nat /\ Xor(CipherLen(n)) = Xor(n)
  BY DEF CipherLen, Xor, XorMax, Overhead
<1>2. PacketKey(CipherLen(n)) = PacketKey(n)
  BY DEF CipherLen, PacketKey, Xor, XorMax, Overhead
<1> QED BY <1>1, <1>2 DEF Decrypt

\* A key of any length is encrypted in blocks that fit in OAEP, all but the last
\* of them full, which add up to the key, and decrypt finds as many blocks as
\* encrypt made (encrypt, decrypt).
THEOREM BlocksJoin ==
    ASSUME NEW n \in Nat \ {0}
    PROVE  LET last == Blocks(n, RSASplit)
           IN  /\ \A i \in 1 .. last : BlockLen(n, i) \in 1 .. OAEPMax
               /\ \A i \in 1 .. last - 1 : BlockLen(n, i) = RSASplit
               /\ (last - 1) * RSASplit + BlockLen(n, last) = n
               /\ Blocks(EncryptedLen(n), RSABlock) = last
<1> DEFINE last == Blocks(n, RSASplit)
<1>1. last \in Nat /\ (last - 1) * 62 < n /\ n <= last * 62
  BY DEF Blocks, RSASplit
<1>2. Blocks(EncryptedLen(n), RSABlock) = last
  BY <1>1 DEF EncryptedLen, Blocks, RSABlock, RSASplit
<1> HIDE DEF last
<1>3. \A i \in 1 .. last : BlockLen(n, i) \in 1 .. OAEPMax
  BY <1>1 DEF BlockLen, OAEPMax, RSABlock, RSASplit
<1>4. \A i \in 1 .. last - 1 : BlockLen(n, i) = RSASplit
  BY <1>1 DEF BlockLen, RSASplit
<1>5. (last - 1) * RSASplit + BlockLen(n, last) = n
  BY <1>1 DEF BlockLen, RSASplit
<1> QED BY <1>2, <1>3, <1>4, <1>5 DEF last

-----------------------------------------------------------------------------
(***************************************************************************)
(* A client that makes one call of Connect at a time, on a network that    *)
(* repeats no datagram and brings none of them to the server once the call *)
(* is over: what both ends then hold is of the same call.                  *)
(***************************************************************************)
Solo == ~Overlap /\ ~Duplicates /\ Late \subseteq {"answer", "done"}

\* A client channel that is alive, or that a goroutine is destroying.
There(c) == cstate[c] = "live" \/ cclosing[c] # "no"

\* One call goes on, one channel is there, and it is that of the call.
ClientSolo ==
    /\ \A a, b \in Connects : a = b
    /\ \A c, d \in ClientChannels : There(c) /\ There(d) => c = d
    /\ \A a \in Connects, c \in ClientChannels : There(c) => cattempt[c] = a
    /\ \A c \in ClientChannels :
          /\ There(c) => cattempt[c] # NoChannel
          /\ cattempt[c] # NoChannel => cdch[cattempt[c]] = c
          /\ cstate[c] = "unused" => cattempt[c] = NoChannel
          /\ cclosing[c] = "deleting" => cstate[c] = "destroyed"

\* A call has one datagram on the way, until the server is done.
CallSolo(a) ==
    /\ pc[a] = "idle" => /\ cdch[a] = NoChannel /\ (\A d \in net : d.a # a)
                         /\ \A s \in ServerChannels : sattempt[s] # a
    /\ Connecting(a) \in net =>
          /\ a \in Connects /\ ServerAnswer(a) \notin net /\ cdch[a] = NoChannel
          /\ \A s \in ServerChannels : sattempt[s] # a
    /\ ServerAnswer(a) \in net => cdch[a] = NoChannel
    /\ \A k \in ClientChannels : ClientAnswer(a, k) \in net => a \in Connects /\ cdch[a] = k
    /\ ServerAnswer(a) \in net \/ cdch[a] # NoChannel =>
          \E s \in ServerChannels : sattempt[s] = a

NetSolo == \A a \in Attempts : CallSolo(a)

\* The server's channel in the map is that of the call, and a key that a channel
\* has was made for the channel's call.
ServerSolo ==
    /\ \A s \in ServerChannels :
          /\ sclosing[s] # "no" => sstate[s] # "unused"
          /\ sstate[s] = "unused" => sattempt[s] = NoChannel /\ skey[s] = NoChannel
          /\ sstate[s] # "unused" => sattempt[s] # NoChannel
          /\ skey[s] # NoChannel => cattempt[skey[s]] = sattempt[s]
          /\ sattempt[s] \in Connects /\ smap # NoChannel => smap = s
    /\ smap # NoChannel => \A c \in ClientChannels :
          cattempt[c] = sattempt[smap] /\ sattempt[smap] \in confirmed => skey[smap] = c
    /\ cmap # NoChannel /\ smap # NoChannel => sattempt[smap] = cattempt[cmap]

SoloInv == ClientSolo /\ NetSolo /\ ServerSolo /\ NoOrphan

LEMMA SoloInit == Init => SoloInv
<1> SUFFICES ASSUME Init PROVE SoloInv
  OBVIOUS
<1>1. Connects = {} /\ \A c \in ClientChannels : ~There(c)
  BY DEF Init, Connects, There
<1>2. ClientSolo /\ NoOrphan
  BY <1>1, HandshakeAssumption DEF Init, ClientSolo, NoOrphan, There
<1>3. NetSolo
  <2>1. \A s \in ServerChannels, a \in Attempts : sattempt[s] = NoChannel
    BY DEF Init
  <2> QED BY <2>1, HandshakeAssumption DEF Init, NetSolo, CallSolo
<1>4. ServerSolo
  BY <1>1, HandshakeAssumption DEF Init, ServerSolo
<1> QED BY <1>2, <1>3, <1>4 DEF SoloInv

LEMMA DatagramsDiffer ==
    /\ \A a, b \in Attempts :
          /\ Connecting(a) # ServerAnswer(b) /\ Connecting(a) # ConnectDone(b)
          /\ ServerAnswer(a) # ConnectDone(b)
          /\ Connecting(a) = Connecting(b) => a = b
          /\ ServerAnswer(a) = ServerAnswer(b) => a = b
    /\ \A a \in Attempts :
          /\ Connecting(a).a = a /\ ServerAnswer(a).a = a /\ ConnectDone(a).a = a
          /\ Connecting(a).type = "connect" /\ ServerAnswer(a).type = "answer"
          /\ ConnectDone(a).type = "done"
    /\ \A a, b \in Attempts, k \in ClientChannels :
          /\ Connecting(a) # ClientAnswer(b, k) /\ ServerAnswer(a) # ClientAnswer(b, k)
          /\ ConnectDone(a) # ClientAnswer(b, k)
    /\ \A a \in Attempts, k \in ClientChannels :
          ClientAnswer(a, k).a = a /\ ClientAnswer(a, k).type = "clientAnswer"
    /\ \A a, b \in Attempts, k, l \in ClientChannels :
          ClientAnswer(a, k) = ClientAnswer(b, l) => a = b /\ k = l
  BY DEF Connecting, ServerAnswer, ClientAnswer, ConnectDone

LEMMA CallKept ==
    ASSUME NEW b \in Attempts, CallSolo(b), UNCHANGED <<cdch, sattempt>>, pc'[b] = pc[b],
           \A d \in net' : d.a = b => d \in net
    PROVE  CallSolo(b)'
<1>1. /\ Connecting(b) \in net' => Connecting(b) \in net
      /\ ServerAnswer(b) \in net' => ServerAnswer(b) \in net
      /\ \A k \in ClientChannels : ClientAnswer(b, k) \in net' => ClientAnswer(b, k) \in net
  BY DatagramsDiffer
<1>2. b \in Connects' <=> b \in Connects
  BY DEF Connects
<1> QED BY <1>1, <1>2 DEF CallSolo

LEMMA SoloClientStep ==
    ASSUME Solo, IInv, MappedIsLive, SoloInv, TypeOK', MadeForCall',
           (\E a \in Attempts : ConnectNext(a)) \/ ClientNext
    PROVE  SoloInv'
<1> USE HandshakeAssumption, DatagramsDiffer
    DEF Solo, IInv, TypeOK, States, Endings, SoloInv, There, Connects, vars, clientVars,
        connectVars, channelVars, listenVars, serverVars
<1>1. ASSUME NEW a \in Attempts, Connect(a) PROVE SoloInv'
  <2> USE <1>1 DEF Connect
  <2>1. ClientSolo'
    BY DEF ClientSolo
  <2>2. NetSolo'
    <3> SUFFICES ASSUME NEW b \in Attempts PROVE CallSolo(b)'
      BY DEF NetSolo
    <3>1. /\ net' = net \cup {Connecting(a)} /\ pc[a] = "idle"
          /\ pc'[a] = "waiting" /\ (b # a => pc'[b] = pc[b])
          /\ UNCHANGED <<cdch, sattempt>>
      OBVIOUS
    <3>2. CASE b = a
      <4>1. /\ ServerAnswer(a) \notin net' /\ cdch'[a] = NoChannel /\ pc'[a] # "idle"
            /\ \A k \in ClientChannels : ClientAnswer(a, k) \notin net'
            /\ \A s \in ServerChannels : sattempt'[s] # a
        BY <3>1 DEF NetSolo, CallSolo
      <4>2. a \in Connects'
        BY <3>1
      <4> QED BY ONLY <3>2, <4>1, <4>2 DEF CallSolo
    <3>3. CASE b # a
      BY <3>1, <3>3, CallKept DEF NetSolo
    <3> QED BY <3>2, <3>3
  <2>3. ServerSolo' /\ NoOrphan'
    BY DEF ServerSolo, NoOrphan, NetSolo, CallSolo
  <2> QED BY <2>1, <2>2, <2>3
<1>2. ASSUME NEW a \in Attempts, Wait(a) \/ Timeout(a) \/ CloseWch(a) PROVE SoloInv'
  <2> USE <1>2 DEF Wait, Timeout, CloseWch
  <2>1. Connects' = Connects /\ UNCHANGED <<cdch, channelVars, serverVars, net>>
    OBVIOUS
  <2>2. \A b \in Attempts : pc'[b] = "idle" => pc[b] = "idle"
    OBVIOUS
  <2> QED BY ONLY SoloInv, <2>1, <2>2
          DEF SoloInv, ClientSolo, NetSolo, CallSolo, ServerSolo, NoOrphan, There, channelVars, serverVars
<1>3. ASSUME NEW a \in Attempts, Return(a) PROVE SoloInv'
  <2> USE <1>3 DEF Return
  <2>1. ClientSolo'
    BY DEF ClientSolo
  <2>2. NetSolo'
    <3> SUFFICES ASSUME NEW b \in Attempts PROVE CallSolo(b)'
      BY DEF NetSolo
    <3>1. /\ net' \subseteq net
          /\ pc'[a] = "returned" /\ (b # a => pc'[b] = pc[b])
          /\ UNCHANGED <<cdch, sattempt>>
      OBVIOUS
    <3>2. \A d \in net' : d.a = a => d.type \in {"answer", "done"}
      BY ONLY <1>3, Solo DEF Return, Solo
    <3>3. CASE b = a
      <4>1. /\ Connecting(a) \notin net' /\ pc'[a] # "idle"
            /\ \A k \in ClientChannels : ClientAnswer(a, k) \notin net'
        BY ONLY <3>1, <3>2, DatagramsDiffer
      <4> QED BY ONLY <3>1, <3>3, <4>1, NetSolo DEF NetSolo, CallSolo
    <3>4. CASE b # a
      BY <3>1, <3>4, CallKept DEF NetSolo
    <3> QED BY <3>3, <3>4
  <2>3. ServerSolo' /\ NoOrphan'
    BY DEF ServerSolo, NoOrphan
  <2> QED BY <2>1, <2>2, <2>3
<1>4. ASSUME NEW a \in Attempts, ServeDone(a) PROVE SoloInv'
  <2> USE <1>4 DEF ServeDone, Rest
  <2>1. ClientSolo'
    BY DEF ClientSolo
  <2>2. NetSolo'
    BY DEF NetSolo, CallSolo
  <2>3. ServerSolo' /\ NoOrphan'
    BY DEF ServerSolo, NoOrphan
  <2> QED BY <2>1, <2>2, <2>3
<1>5. ASSUME NEW a \in Attempts, NEW c \in ClientChannels, ServeServerAnswer(a, c)
      PROVE  SoloInv'
  <2> USE <1>5 DEF ServeServerAnswer, Rest
  <2>1. cdch[a] = NoChannel /\ \A d \in ClientChannels : ~There(d)
    BY DEF ClientSolo, NetSolo, CallSolo
  <2>2. ClientSolo'
    <3>1. /\ Connects' = Connects /\ a \in Connects
          /\ \A d \in ClientChannels : There(d)' => d = c
          /\ cattempt' = [cattempt EXCEPT ![c] = a] /\ cdch' = [cdch EXCEPT ![a] = c]
          /\ cstate' = [cstate EXCEPT ![c] = "live"] /\ UNCHANGED cclosing
      BY <2>1
    <3>2. \A d \in ClientChannels : cattempt[d] # a
      BY ONLY <2>1, SoloInv, HandshakeAssumption DEF SoloInv, ClientSolo
    <3>3. cclosing[c] = "no"
      BY <2>1
    <3> HIDE <1>5 DEF There
    <3> QED BY <3>1, <3>2, <3>3 DEF ClientSolo
  <2>3. NetSolo'
    BY <2>1 DEF NetSolo, CallSolo
  <2>4. ServerSolo'
    BY <2>1 DEF ServerSolo, NetSolo, CallSolo, ClientSolo, Evidence
  <2>5. NoOrphan'
    BY <2>1 DEF NoOrphan
  <2> QED BY <2>2, <2>3, <2>4, <2>5
<1>6. ASSUME NEW d \in net, ServeWrong(d) PROVE SoloInv'
  <2> USE <1>6 DEF ServeWrong, ConnectError, DestroyClient, Rest
  <2>1. ClientSolo'
    BY DEF ClientSolo, MappedIsLive
  <2>2. NetSolo'
    BY DEF NetSolo, CallSolo
  <2>3. ServerSolo' /\ NoOrphan'
    BY DEF ServerSolo, NoOrphan
  <2> QED BY <2>1, <2>2, <2>3
<1>7. CASE SendOnClosed
  BY ONLY <1>7, SoloInv
     DEF SendOnClosed, SoloInv, ClientSolo, NetSolo, CallSolo, ServerSolo, NoOrphan, There, Connects,
         connectVars, channelVars, serverVars
<1>8. ASSUME NEW c \in ClientChannels, BeginEndClient(c) \/ EndClient(c) \/ DeleteClient(c)
      PROVE  SoloInv'
  <2> USE <1>8 DEF BeginEndClient, EndClient, DeleteClient
  <2>1. ClientSolo'
    <3>1. UNCHANGED <<connectVars, cattempt>> /\ Connects' = Connects
      OBVIOUS
    <3>2. \A d \in ClientChannels : There(d)' => There(d)
      OBVIOUS
    <3>3. \A d \in ClientChannels :
             /\ cstate'[d] = "unused" => cstate[d] = "unused"
             /\ cclosing'[d] = "deleting" => cstate'[d] = "destroyed"
      BY DEF ClientSolo
    <3> QED BY ONLY <3>1, <3>2, <3>3, SoloInv DEF SoloInv, ClientSolo, connectVars
  <2>2. NetSolo'
    BY DEF NetSolo, CallSolo
  <2>3. ServerSolo'
    BY DEF ServerSolo
  <2>4. NoOrphan'
    BY DEF NoOrphan, ClientSolo
  <2> QED BY <2>1, <2>2, <2>3, <2>4
<1> QED BY <1>1, <1>2, <1>3, <1>4, <1>5, <1>6, <1>7, <1>8 DEF ConnectNext, ClientNext

LEMMA SoloServerStep ==
    ASSUME Solo, IInv, MappedIsLive, SoloInv, TypeOK', ServerNext
    PROVE  SoloInv'
<1> USE HandshakeAssumption, DatagramsDiffer
    DEF Solo, IInv, TypeOK, States, Endings, SoloInv, There, Connects, vars, clientVars,
        connectVars, channelVars, listenVars, serverVars
<1>1. ASSUME NEW a \in Attempts, NEW s \in ServerChannels, ServeConnect(a, s) PROVE SoloInv'
  <2> USE <1>1 DEF ServeConnect, Rest
  <2>1. /\ a \in Connects /\ cdch[a] = NoChannel /\ ServerAnswer(a) \notin net
        /\ \A t \in ServerChannels : sattempt[t] # a
    BY DEF NetSolo, CallSolo
  <2>2. cmap = NoChannel
    <3>1. \A c \in ClientChannels : There(c) => cdch[a] = c
      BY ONLY <2>1, SoloInv DEF SoloInv, ClientSolo
    <3> QED BY ONLY <2>1, <3>1, MappedIsLive, HandshakeAssumption, IInv
            DEF MappedIsLive, There, IInv, TypeOK
  <2>3. ClientSolo' /\ NoOrphan'
    BY DEF ClientSolo, NoOrphan
  <2>4. NetSolo'
    <3> SUFFICES ASSUME NEW b \in Attempts PROVE CallSolo(b)'
      BY DEF NetSolo
    <3>1. CASE b = a
      <4>1. /\ Connecting(a) \notin net' /\ cdch'[a] = NoChannel /\ pc'[a] # "idle"
            /\ sattempt'[s] = a
        BY <2>1
      <4>2. \A k \in ClientChannels : ClientAnswer(a, k) \notin net'
        BY <2>1 DEF NetSolo, CallSolo
      <4> QED BY ONLY <3>1, <4>1, <4>2 DEF CallSolo
    <3>2. CASE b # a
      <4>1. /\ Connecting(b) \in net' <=> Connecting(b) \in net
            /\ ServerAnswer(b) \in net' <=> ServerAnswer(b) \in net
            /\ \A k \in ClientChannels : ClientAnswer(b, k) \in net' <=> ClientAnswer(b, k) \in net
            /\ \A d \in net' : d.a = b => d \in net
        BY <3>2
      <4>2. /\ pc' = pc /\ cdch' = cdch
            /\ \A t \in ServerChannels : sattempt'[t] = b <=> t # s /\ sattempt[t] = b
        BY <3>2
      <4>3. sattempt[s] = NoChannel /\ b # NoChannel
        BY DEF ServerSolo
      <4> QED BY <4>1, <4>2, <4>3 DEF NetSolo, CallSolo
    <3> QED BY <3>1, <3>2
  <2>5. ServerSolo'
    <3>1. a \notin confirmed
      BY <2>1 DEF Evidence
    <3>2. sattempt[s] = NoChannel /\ skey[s] = NoChannel /\ smap' = s /\ cmap' = NoChannel
      BY <2>2 DEF ServerSolo
    <3>3. /\ sattempt' = [sattempt EXCEPT ![s] = a] /\ sstate'[s] = "live"
          /\ \A t \in ServerChannels : sstate'[t] = "unused" <=> t # s /\ sstate[t] = "unused"
          /\ UNCHANGED <<sclosing, skey, cattempt, confirmed, pc>>
      BY DEF ServerSolo, MappedIsLive
    <3>4. \A t \in ServerChannels : sattempt[t] \in Connects => sattempt[t] = a
      BY ONLY <2>1, SoloInv DEF SoloInv, ClientSolo
    <3> QED BY <2>1, <3>1, <3>2, <3>3, <3>4 DEF ServerSolo
  <2> QED BY <2>3, <2>4, <2>5
<1>2. ASSUME NEW a \in Attempts, NEW key \in ClientChannels, ServeClientAnswer(a, key)
      PROVE  SoloInv'
  <2> USE <1>2 DEF ServeClientAnswer, Rest
  <2>1. a \in Connects /\ cdch[a] = key /\ cattempt[key] = a
    BY DEF NetSolo, CallSolo, MadeForCall
  <2>2. sattempt[smap] = a
    BY <2>1, SMTT(15) DEF NetSolo, CallSolo, ServerSolo
  <2>3. ClientSolo' /\ NoOrphan'
    BY DEF ClientSolo, NoOrphan
  <2>4. NetSolo'
    BY DEF NetSolo, CallSolo
  <2>5. ServerSolo'
    <3>1. \A c \in ClientChannels : cattempt[c] = a => c = key
      BY <2>1 DEF ClientSolo
    <3>2. /\ skey' = [skey EXCEPT ![smap] = key] /\ smap' = smap /\ confirmed' = confirmed \cup {a}
          /\ UNCHANGED <<sattempt, sstate, sclosing, cattempt, cmap, pc>>
      OBVIOUS
    <3>3. smap \in ServerChannels /\ sstate[smap] # "unused"
      BY DEF ServerSolo, MappedIsLive
    <3> QED BY <2>1, <2>2, <3>1, <3>2, <3>3 DEF ServerSolo
  <2> QED BY <2>3, <2>4, <2>5
<1>3. ASSUME NEW s \in ServerChannels, BeginEndServer(s) \/ EndServer(s) \/ DeleteServer(s)
      PROVE  SoloInv'
  <2> USE <1>3 DEF BeginEndServer, EndServer, DeleteServer
  <2>1. ClientSolo' /\ NoOrphan'
    BY DEF ClientSolo, NoOrphan
  <2>2. NetSolo'
    BY DEF NetSolo, CallSolo
  <2>3. ServerSolo'
    BY DEF ServerSolo
  <2> QED BY <2>1, <2>2, <2>3
<1> QED BY <1>1, <1>2, <1>3 DEF ServerNext

\* The steps of both ends, put together.
LEMMA SoloInvariance == ASSUME Solo PROVE Spec => []SoloInv
<1>1. IInv /\ MappedIsLive /\ SoloInv /\ TypeOK' /\ IInv' /\ [Next]_vars => SoloInv'
  <2> SUFFICES ASSUME IInv, MappedIsLive, SoloInv, TypeOK', IInv', [Next]_vars
               PROVE  SoloInv'
    OBVIOUS
  <2>1. CASE (\E a \in Attempts : ConnectNext(a)) \/ ClientNext
    BY <2>1, SoloClientStep DEF IInv
  <2>2. CASE ServerNext
    BY <2>2, SoloServerStep
  <2>3. CASE UNCHANGED vars
    BY <2>3 DEF SoloInv, ClientSolo, NetSolo, CallSolo, ServerSolo, NoOrphan, There, Connects, vars,
                clientVars, connectVars, channelVars, listenVars, serverVars
  <2> QED BY <2>1, <2>2, <2>3 DEF Next
<1> QED BY <1>1, SoloInit, TypeCorrect, Mapped, Invariance, PTL DEF Spec

\* A live client channel is in the map, if calls of Connect come one after the
\* other and datagrams once (newChannel, destroy).
THEOREM LiveIsMapped == ASSUME Solo PROVE Spec => []NoOrphan
<1>1. SoloInv => NoOrphan
  BY DEF SoloInv
<1> QED BY <1>1, SoloInvariance, PTL

\* Under the same conditions the two channels in the maps have one session key
\* once Connect has returned: serve of both answers.
THEOREM KeysTheSame == ASSUME Solo PROVE Spec => []KeysAgree
<1>1. IInv /\ SoloInv => KeysAgree
  <2> SUFFICES ASSUME IInv, SoloInv, NEW a \in Attempts, NEW c \in ClientChannels,
                      c = result[a], cmap = c, smap # NoChannel
               PROVE  skey[smap] = c
    BY HandshakeAssumption DEF KeysAgree, IInv, TypeOK
  <2>1. cattempt[c] = a /\ a \in confirmed
    BY HandshakeAssumption DEF IInv, MadeForCall, Evidence
  <2> QED BY <2>1, HandshakeAssumption DEF SoloInv, ServerSolo
<1> QED BY <1>1, Invariance, SoloInvariance, PTL

-----------------------------------------------------------------------------
(***************************************************************************)
(* The data around the handshake.                                          *)
(***************************************************************************)
LEMMA SessionIsHandshake == SessionSpec => Spec
<1>1. SessionInit => Init
  BY DEF SessionInit
<1>2. [SessionNext]_sessionVars => [Next]_vars
  BY DEF SessionNext, sessionVars, ClientWriteTo, ServerWriteTo, Write, ServeDataClient,
         ServeDataServer, Serve
<1> QED BY <1>1, <1>2, PTL DEF SessionSpec, Spec

\* The lengths, packets and what is read keep their types (writeTo, serve).
THEOREM SessionTypeCorrect == SessionSpec => []SessionTypeOK
<1> USE DEF SessionTypeOK, Packets, Channels
<1>1. SessionInit => SessionTypeOK
  BY DEF SessionInit
<1>2. TypeOK /\ SessionTypeOK /\ [SessionNext]_sessionVars => SessionTypeOK'
  <2> SUFFICES ASSUME TypeOK, SessionTypeOK, [SessionNext]_sessionVars PROVE SessionTypeOK'
    OBVIOUS
  <2>1. CASE Next /\ UNCHANGED dataVars
    BY <2>1 DEF dataVars
  <2>2. ASSUME NEW c \in ClientChannels, ClientWriteTo(c) PROVE SessionTypeOK'
    BY <2>2 DEF ClientWriteTo, Write
  <2>3. ASSUME NEW s \in ServerChannels, ServerWriteTo(s) PROVE SessionTypeOK'
    <3>1. skey[s] \in ClientChannels \cup {NoChannel}
      BY DEF TypeOK
    <3> QED BY <2>3, <3>1 DEF ServerWriteTo, Write
  <2>4. ASSUME NEW p \in data, ServeDataClient(p) \/ ServeDataServer(p) PROVE SessionTypeOK'
    <3> DEFINE Reads == SUBSET [packet : Packets, what : {"opened", "garbled"}]
    <3>1. PICK ch \in Channels, what \in {"opened", "garbled"} :
             read' = [read EXCEPT ![ch] = {[packet |-> p, what |-> what]}]
      BY <2>4 DEF ServeDataClient, ServeDataServer, Serve, TypeOK
    <3>2. {[packet |-> p, what |-> what]} \in Reads
      OBVIOUS
    <3>3. read \in [Channels -> Reads]
      OBVIOUS
    <3> HIDE DEF Reads
    <3>4. read' \in [Channels -> Reads]
      BY <3>1, <3>2, <3>3
    <3>5. UNCHANGED <<len, data>>
      BY <2>4 DEF ServeDataClient, ServeDataServer, Serve
    <3> QED BY <3>4, <3>5 DEF Reads
  <2>5. CASE UNCHANGED sessionVars
    BY <2>5 DEF sessionVars, dataVars
  <2> QED BY <2>1, <2>2, <2>3, <2>4, <2>5 DEF SessionNext
<1> QED BY <1>1, <1>2, SessionIsHandshake, TypeCorrect, PTL DEF SessionSpec

\* A packet is evidence of the channel that wrote it: of a confirmed call if the
\* client's, and with a key of the same call, or none, if the server's.
DataInv ==
    /\ \A p \in data :
          /\ p.from \in ClientChannels => p.key = p.from /\ cattempt[p.from] \in confirmed
          /\ p.from \in ServerChannels =>
                /\ sattempt[p.from] # NoChannel
                /\ p.key # NoChannel => cattempt[p.key] = sattempt[p.from]
    /\ \A c \in ClientChannels : \A r \in read[c] : r.packet \in data /\ cattempt[c] # NoChannel
    /\ \A s \in ServerChannels : \A r \in read[s] : r.packet \in data /\ sattempt[s] # NoChannel

\* A channel keeps the call it was made for, and a call stays confirmed.
LEMMA CallsStay ==
    ASSUME IInv, SoloInv, [Next]_vars
    PROVE  /\ \A c \in ClientChannels : cattempt[c] # NoChannel => cattempt'[c] = cattempt[c]
           /\ \A s \in ServerChannels : sattempt[s] # NoChannel => sattempt'[s] = sattempt[s]
           /\ confirmed \subseteq confirmed'
<1> USE DEF IInv, TypeOK, vars, clientVars, connectVars, channelVars, listenVars, serverVars
<1>1. CASE \E a \in Attempts : ConnectNext(a)
  BY <1>1 DEF ConnectNext, Connect, Wait, Timeout, CloseWch, Return
<1>2. CASE ClientNext
  BY <1>2 DEF ClientNext, ServeDone, ServeServerAnswer, ServeWrong, SendOnClosed,
              BeginEndClient, EndClient, DeleteClient, SoloInv, ClientSolo
<1>3. CASE ServerNext
  BY <1>3 DEF ServerNext, ServeConnect, ServeClientAnswer, BeginEndServer, EndServer,
              DeleteServer, SoloInv, ServerSolo
<1>4. CASE UNCHANGED vars
  BY <1>4
<1> QED BY <1>1, <1>2, <1>3, <1>4 DEF Next

LEMMA DataStep ==
    ASSUME SessionTypeOK, IInv, MappedIsLive, SoloInv, DataInv, OpenedIfSameCall,
           SessionTypeOK', IInv', [SessionNext]_sessionVars
    PROVE  DataInv' /\ OpenedIfSameCall'
<1> USE HandshakeAssumption, SessionAssumption DEF SessionTypeOK, Packets, Channels
<1>1. CASE Next /\ UNCHANGED dataVars
  <2>1. UNCHANGED <<len, data, read>>
    BY <1>1 DEF dataVars
  <2>2. /\ \A c \in ClientChannels : cattempt[c] # NoChannel => cattempt'[c] = cattempt[c]
        /\ \A s \in ServerChannels : sattempt[s] # NoChannel => sattempt'[s] = sattempt[s]
        /\ confirmed \subseteq confirmed'
    BY <1>1, CallsStay
  <2>3. confirmed \subseteq Attempts
    BY DEF IInv, TypeOK
  <2>4. DataInv'
    BY <2>1, <2>2, <2>3 DEF DataInv
  <2>5. OpenedIfSameCall'
    BY <2>1, <2>2, <2>3 DEF DataInv, OpenedIfSameCall, SameCall
  <2> QED BY <2>4, <2>5
<1>2. ASSUME NEW c \in ClientChannels, ClientWriteTo(c) PROVE DataInv' /\ OpenedIfSameCall'
  <2>1. cattempt[c] \in confirmed
    BY <1>2 DEF ClientWriteTo, IInv, TypeOK, MadeForCall, Evidence
  <2>2. data' = data \cup {[from |-> c, key |-> c]} /\ UNCHANGED <<vars, len, read>>
    BY <1>2 DEF ClientWriteTo, Write
  <2> QED BY <2>1, <2>2
          DEF DataInv, OpenedIfSameCall, SameCall, vars, clientVars, channelVars, serverVars
<1>3. ASSUME NEW s \in ServerChannels, ServerWriteTo(s) PROVE DataInv' /\ OpenedIfSameCall'
  <2>1. /\ sattempt[s] # NoChannel
        /\ skey[s] # NoChannel => cattempt[skey[s]] = sattempt[s]
    BY <1>3 DEF ServerWriteTo, SoloInv, ServerSolo
  <2>2. data' = data \cup {[from |-> s, key |-> skey[s]]} /\ UNCHANGED <<vars, len, read>>
    BY <1>3 DEF ServerWriteTo, Write
  <2> QED BY <2>1, <2>2
          DEF DataInv, OpenedIfSameCall, SameCall, vars, clientVars, channelVars, serverVars
<1>4. ASSUME NEW p \in data, ServeDataClient(p) PROVE DataInv' /\ OpenedIfSameCall'
  <2>1. PICK what \in {"opened", "garbled"} :
           /\ what = Decrypt(p.key, cmap, NoChannel, len)
           /\ read' = [read EXCEPT ![cmap] = {[packet |-> p, what |-> what]}]
           /\ UNCHANGED <<vars, len, data>>
    BY <1>4 DEF ServeDataClient, Serve
  <2>2. /\ cmap \in ClientChannels /\ p.from \in ServerChannels
        /\ cattempt[cmap] # NoChannel
    BY <1>4 DEF ServeDataClient, IInv, TypeOK, SoloInv, ClientSolo, MappedIsLive, There
  <2>3. ASSUME sattempt[p.from] = cattempt[cmap]
        PROVE  what = "opened" \/ (p.key = NoChannel /\ Xor(len))
    <3>1. CASE p.key = NoChannel
      BY <2>1, <2>2, <3>1 DEF Decrypt
    <3>2. CASE p.key # NoChannel
      <4>1. p.key \in ClientChannels /\ cattempt[p.key] = cattempt[cmap]
        BY <2>2, <2>3, <3>2 DEF DataInv
      <4>2. p.key = cmap
        BY <2>2, <4>1 DEF SoloInv, ClientSolo
      <4>3. len \in Nat
        OBVIOUS
      <4> QED BY <2>1, <4>2, <4>3, SameChoices
    <3> QED BY <3>1, <3>2
  <2>4. DataInv'
    BY <2>1, <2>2 DEF DataInv, vars, clientVars, channelVars, serverVars
  <2>5. OpenedIfSameCall'
    BY <2>1, <2>2, <2>3
       DEF OpenedIfSameCall, SameCall, vars, clientVars, channelVars, serverVars
  <2> QED BY <2>4, <2>5
<1>5. ASSUME NEW p \in data, ServeDataServer(p) PROVE DataInv' /\ OpenedIfSameCall'
  <2>1. PICK what \in {"opened", "garbled"} :
           /\ what = Decrypt(p.key, skey[smap], NoChannel, len)
           /\ read' = [read EXCEPT ![smap] = {[packet |-> p, what |-> what]}]
           /\ UNCHANGED <<vars, len, data>>
    BY <1>5 DEF ServeDataServer, Serve
  <2>2. /\ smap \in ServerChannels /\ p.from \in ClientChannels
        /\ sattempt[smap] # NoChannel /\ p.key = p.from
    BY <1>5 DEF ServeDataServer, IInv, TypeOK, SoloInv, ServerSolo, MappedIsLive, DataInv
  <2>3. ASSUME cattempt[p.from] = sattempt[smap]
        PROVE  what = "opened"
    <3>1. skey[smap] = p.from
      BY <2>2, <2>3 DEF DataInv, SoloInv, ServerSolo
    <3>2. len \in Nat
      OBVIOUS
    <3> QED BY <2>1, <2>2, <3>1, <3>2, SameChoices
  <2>4. DataInv'
    BY <2>1, <2>2 DEF DataInv, vars, clientVars, channelVars, serverVars
  <2>5. OpenedIfSameCall'
    BY <2>1, <2>2, <2>3
       DEF OpenedIfSameCall, SameCall, vars, clientVars, channelVars, serverVars
  <2> QED BY <2>4, <2>5
<1>6. CASE UNCHANGED sessionVars
  BY <1>6 DEF sessionVars, dataVars, DataInv, OpenedIfSameCall, SameCall, vars, clientVars,
              channelVars, serverVars
<1> QED BY <1>1, <1>2, <1>3, <1>4, <1>5, <1>6 DEF SessionNext

\* Data of any length are opened by the channel of the same call, but for what
\* the server sent before it had the key, for any number of calls that come one
\* after the other: connect.serve, writeTo, encryptPacketData, decryptPacketData.
THEOREM Opened == ASSUME Solo PROVE SessionSpec => []OpenedIfSameCall
<1>1. SessionInit => DataInv /\ OpenedIfSameCall
  BY DEF SessionInit, DataInv, OpenedIfSameCall, Channels
<1> QED BY <1>1, DataStep, SessionIsHandshake, SessionTypeCorrect, Invariance, Mapped,
           SoloInvariance, PTL DEF SessionSpec
=============================================================================
