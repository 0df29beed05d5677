------------------------------ MODULE DMRProofs ------------------------------
(***************************************************************************)
(* Proofs about DMRSession, for any number of command goroutines, masters  *)
(* and passwords, and for any order in which packets arrive; and about     *)
(* LocalMaster and DMRLogin, for any deadlines of which the client's is    *)
(* the shorter, any number of losses, and either client.                   *)
(***************************************************************************)
EXTENDS DMRSession, DMRLogin, FiniteSetTheorems, TLAPS

-----------------------------------------------------------------------------
(* A session and its threads: DMRSession                                   *)

(* A thread that goes to a label of its own keeps the program counters     *)
(* well typed.                                                             *)
LEMMA GoType ==
  ASSUME ThreadType, NEW t \in Threads, NEW l \in LabelsOf(t), Go(t, l)
  PROVE  /\ pc' \in [Threads -> Labels]
         /\ \A u \in Threads : pc'[u] \in LabelsOf(u)
<1>1. l \in Labels
  BY DEF LabelsOf, Labels
<1>2. QED
  BY <1>1 DEF ThreadType, Go

(* A thread that moves on and forgets keeps the thread state well typed.   *)
LEMMA ForgetType ==
  ASSUME ThreadType, NEW t \in Threads, NEW l \in LabelsOf(t), Go(t, l),
         Forget(t)
  PROVE  ThreadType'
<1>1. Nothing \in Seen
  BY DEF Nothing, Seen, AuthStages
<1>2. seen' \in [Threads -> Seen]
  BY <1>1 DEF Forget, ThreadType
<1>3. QED
  BY <1>2, GoType DEF ThreadType

(* The same for a thread that ends its operation.                          *)
LEMMA FinishType ==
  ASSUME ThreadType, NEW t \in Threads, Finish(t)
  PROVE  ThreadType'
<1>1. "idle" \in LabelsOf(t)
  BY DEF LabelsOf
<1>2. QED
  BY <1>1, ForgetType DEF Finish

(* The same for a thread that moves on and keeps what it has read.         *)
LEMMA MoveType ==
  ASSUME ThreadType, NEW t \in Threads, NEW l \in LabelsOf(t), Go(t, l),
         UNCHANGED seen
  PROVE  ThreadType'
BY GoType DEF ThreadType

(* Which labels which thread may take.                                     *)
LEMMA Roles ==
  /\ \A t \in Workers : t \in Threads /\ LoginLabels \subseteq LabelsOf(t)
  /\ \A t \in Commands \cup {Listener} :
       t \in Threads /\ DisconnectLabels \subseteq LabelsOf(t)
  /\ Listener \in Threads /\ AnswerLabels \subseteq LabelsOf(Listener)
  /\ Commands \subseteq Workers
  /\ Ticker \in Workers /\ "ping" \in LabelsOf(Ticker)
  /\ Supervisor \in Workers /\ "configure" \in LabelsOf(Supervisor)
  /\ \A t \in Threads : "idle" \in LabelsOf(t)
BY ThreadAssumption DEF Workers, Threads, LabelsOf

(* No step takes a field out of its type or a thread out of its own code.  *)
THEOREM TypeCorrect == Spec => []TypeOK
<1>1. Init => TypeOK
  <2>1. Init => SessionType
    BY DEF Init, SessionType, AuthStages
  <2>2. Init => ThreadType
    BY DEF Init, ThreadType, LabelsOf, Labels, Nothing, Seen, AuthStages
  <2> QED
    BY <2>1, <2>2 DEF TypeOK
<1>2. TypeOK /\ [Next]_vars => TypeOK'
  <2> SUFFICES ASSUME TypeOK, [Next]_vars PROVE TypeOK'
    OBVIOUS
  <2> USE DEF TypeOK
  <2>1. ASSUME NEW c \in Commands, Command(c) PROVE TypeOK'
    <3>1. SessionType'
      BY <2>1, DataAssumption DEF Command, ConnectCommand, DisconnectCommand,
                                  session, SessionType
    <3>2. ThreadType'
      <4>1. /\ \/ Go(c, "begin")
               \/ Go(c, "disconnect")
            /\ UNCHANGED seen
        BY <2>1 DEF Command, ConnectCommand, DisconnectCommand
      <4>2. c \in Threads /\ {"begin", "disconnect"} \subseteq LabelsOf(c)
        BY Roles DEF LoginLabels, DisconnectLabels
      <4> QED
        BY <4>1, <4>2, MoveType
    <3> QED
      BY <3>1, <3>2
  <2>2. ASSUME NEW t \in Workers, BeginStep(t) PROVE TypeOK'
    <3>0. t \in Threads /\ {"resolve", "sendLogin"} \subseteq LabelsOf(t)
      BY Roles DEF LoginLabels
    <3>1. CASE BeginRead(t)
      <4>1. SessionType'
        BY <3>1 DEF BeginRead, session, SessionType
      <4>2. seen' \in [Threads -> Seen]
        BY <3>0, <3>1 DEF BeginRead, SessionType, ThreadType, Seen
      <4> QED
        BY <3>0, <3>1, <4>1, <4>2, GoType DEF BeginRead, ThreadType
    <3>2. CASE BeginFail(t)
      BY <3>0, <3>2, FinishType DEF BeginFail, SessionType, AuthStages
    <3>3. CASE BeginAbandon(t)
      BY <3>0, <3>3, FinishType DEF BeginAbandon, SessionType, session
    <3>4. CASE BeginCommit(t)
      <4>1. seen[t].password \in Passwords \cup {None}
        BY <3>0 DEF ThreadType, Seen
      <4>2. SessionType'
        BY <3>4, <4>1 DEF BeginCommit, LoginPassword, SessionType, AuthStages,
                          WaitingStages
      <4> QED
        BY <3>0, <3>4, <4>2, ForgetType DEF BeginCommit
    <3>5. CASE SendLogin(t)
      BY <3>0, <3>5, FinishType DEF SendLogin, WritePacket, SessionType
    <3> QED
      BY <2>2, <3>1, <3>2, <3>3, <3>4, <3>5 DEF BeginStep
  <2>3. ASSUME NEW t \in Commands \cup {Listener}, DisconnectStep(t)
        PROVE  TypeOK'
    <3>0. t \in Threads /\ {"logout", "clear"} \subseteq LabelsOf(t)
      BY Roles DEF DisconnectLabels
    <3>1. CASE DisconnectRead(t)
      BY <3>0, <3>1, MoveType DEF DisconnectRead, SessionType, session
    <3>2. CASE SendLogout(t)
      BY <3>0, <3>2, MoveType DEF SendLogout, WritePacket, SessionType
    <3>3. CASE DisconnectClear(t)
      BY <3>0, <3>3, FinishType DEF DisconnectClear, SessionType, AuthStages
    <3> QED
      BY <2>3, <3>1, <3>2, <3>3 DEF DisconnectStep
  <2>4. CASE ConfigureRead
    BY <2>4, Roles, MoveType DEF ConfigureRead, SessionType, session, Workers
  <2>5. CASE ConfigureWrite
    <3>1. SessionType'
      BY <2>5, DataAssumption DEF ConfigureWrite, SessionType
    <3>2. Supervisor \in Threads /\ "begin" \in LabelsOf(Supervisor)
      BY Roles DEF LoginLabels, Workers
    <3> QED
      BY <2>5, <3>1, <3>2, MoveType DEF ConfigureWrite
  <2>6. CASE Listen
    <3>0. /\ Listener \in Threads
          /\ {"accepted", "rejected", "disconnect"} \subseteq LabelsOf(Listener)
      BY Roles DEF AnswerLabels, DisconnectLabels
    <3>1. ASSUME NEW salted \in BOOLEAN, ReceiveAck(salted) PROVE TypeOK'
      <4>1. SessionType'
        BY <3>1 DEF ReceiveAck, SessionType
      <4>2. CASE UNCHANGED <<seen, pc>>
        BY <4>1, <4>2 DEF ThreadType
      <4>3. CASE /\ seen' = [seen EXCEPT ![Listener] =
                              [@ EXCEPT !.stage = authStage,
                                        !.options = options /\
                                          authStage = "WaitingConfig"]]
                 /\ Go(Listener, "accepted")
        <5>1. seen' \in [Threads -> Seen]
          BY <3>0, <4>3 DEF SessionType, ThreadType, Seen
        <5> QED
          BY <3>0, <4>1, <4>3, <5>1, GoType DEF ThreadType
      <4> QED
        BY <3>1, <4>2, <4>3 DEF ReceiveAck
    <3>2. CASE ReceiveNak
      BY <3>0, <3>2, MoveType DEF ReceiveNak, SessionType, session
    <3>3. CASE ReceivePong
      BY <3>3 DEF ReceivePong, SessionType, ThreadType
    <3>4. CASE ReceiveClose
      BY <3>0, <3>4, MoveType DEF ReceiveClose, SessionType, session
    <3> QED
      BY <2>6, <3>1, <3>2, <3>3, <3>4 DEF Listen
  <2>7. CASE Answer
    <3>0. /\ Listener \in Threads
          /\ {"sendKey", "sendConfig", "sendOptions"} \subseteq LabelsOf(Listener)
      BY Roles DEF AnswerLabels
    <3>1. ASSUME NEW from, NEW to \in AuthStages,
                 NEW next \in {"sendKey", "sendConfig", "sendOptions"},
                 Advance(from, to, next)
          PROVE  TypeOK'
      BY <3>0, <3>1, ForgetType DEF Advance, SessionType
    <3>2. CASE AckLogin \/ AckKey \/ AckConfig
      BY <3>1, <3>2 DEF AckLogin, AckKey, AckConfig, AuthStages, WaitingStages
    <3>3. CASE MarkConnected
      BY <3>0, <3>3, FinishType DEF MarkConnected, SessionType, AuthStages
    <3>4. CASE SendKey \/ SendConfig \/ SendOptions
      BY <3>0, <3>4, FinishType DEF SendKey, SendConfig, SendOptions,
         SendReply, WritePacket, SessionType
    <3>5. CASE Reject
      BY <3>0, <3>5, FinishType DEF Reject, SessionType, AuthStages
    <3> QED
      BY <2>7, <3>2, <3>3, <3>4, <3>5 DEF Answer
  <2>8. CASE TickLogin \/ TickPing \/ PingMaster
    <3>1. Ticker \in Threads /\ {"begin", "ping"} \subseteq LabelsOf(Ticker)
      BY Roles DEF LoginLabels, Workers
    <3> QED
      BY <2>8, <3>1, MoveType, FinishType
      DEF TickLogin, TickPing, PingMaster, WritePacket, SessionType, session
  <2>9. CASE Time
    BY <2>9 DEF Time, NetworkAges, ControlAges, RejectionAges, SessionType,
                ThreadType
  <2>10. CASE UNCHANGED vars
    BY <2>10 DEF vars, session, SessionType, ThreadType
  <2> QED
    BY <2>1, <2>2, <2>3, <2>4, <2>5, <2>6, <2>7, <2>8, <2>9, <2>10 DEF Next
<1>3. QED
  BY <1>1, <1>2, PTL DEF Spec

-----------------------------------------------------------------------------
(***************************************************************************)
(* LinkedOrLoggingIn is inductive by itself, given the types: a step that  *)
(* would unsettle a linked session either starts a login (node_state, the  *)
(* supervisor, the ticker), or clears LinkActive, or abandons a login      *)
(* whose target is no longer the session's, and that one was no witness.   *)
(***************************************************************************)

(* A step that keeps the session's link, target and remote address, does   *)
(* not take it to authDisconnected, and takes no thread out of a login,    *)
(* keeps the invariant.                                                    *)
LEMMA CalmStep ==
  ASSUME LinkedOrLoggingIn,
         UNCHANGED <<link, target, remote>>,
         authStage # "Disconnected" => authStage' # "Disconnected",
         \A t \in Workers : LoggingIn(t) => LoggingIn(t)'
  PROVE  LinkedOrLoggingIn'
BY DEF LinkedOrLoggingIn

(* A thread that is in no login for the target and moves leaves the logins *)
(* of the others alone.                                                    *)
LEMMA OthersLogIn ==
  ASSUME ThreadType, NEW t \in Threads, NEW l, Go(t, l),
         ~LoggingIn(t), UNCHANGED target,
         \A u \in Threads \ {t} : seen'[u] = seen[u]
  PROVE  \A u \in Workers : LoggingIn(u) => LoggingIn(u)'
BY DEF ThreadType, Go, LoggingIn, At, Workers

(* A linked session is talking to the master it names or a login for that  *)
(* master is under way, whatever threads and packets do.                   *)
THEOREM NeverStuck == Spec => []LinkedOrLoggingIn
<1>1. Init => LinkedOrLoggingIn
  BY DEF Init, LinkedOrLoggingIn
<1>2. TypeOK /\ LinkedOrLoggingIn /\ [Next]_vars => LinkedOrLoggingIn'
  <2> SUFFICES ASSUME TypeOK, LinkedOrLoggingIn, [Next]_vars
               PROVE  LinkedOrLoggingIn'
    OBVIOUS
  <2> USE DEF TypeOK
  <2>0. \A t \in Threads, l \in Labels : Go(t, l) => pc'[t] = l
    BY DEF ThreadType, Go
  <2>a. {"begin", "resolve"} \subseteq Labels
    BY DEF Labels, LoginLabels
  <2>1. ASSUME NEW c \in Commands, Command(c) PROVE LinkedOrLoggingIn'
    <3>0. c \in Workers /\ c \in Threads
      BY Roles
    <3>1. CASE Go(c, "begin")
      BY <2>0, <2>a, <3>0, <3>1 DEF LinkedOrLoggingIn, LoggingIn, At
    <3>2. CASE DisconnectCommand(c)
      BY <3>0, <3>2, OthersLogIn, CalmStep
      DEF DisconnectCommand, session, LoggingIn, At
    <3> QED
      BY <2>1, <3>1, <3>2 DEF Command, ConnectCommand
  <2>2. ASSUME NEW t \in Workers, BeginStep(t) PROVE LinkedOrLoggingIn'
    <3>0. t \in Threads
      BY DEF Workers
    <3>1. CASE BeginRead(t)
      <4>1. seen'[t].target = target
        BY <3>0, <3>1 DEF BeginRead, ThreadType, Seen
      <4>2. LoggingIn(t)'
        BY <2>0, <2>a, <3>0, <3>1, <4>1 DEF BeginRead, LoggingIn, At, session
      <4> QED
        BY <4>2 DEF LinkedOrLoggingIn
    <3>2. CASE BeginFail(t)
      BY <3>2 DEF BeginFail, LinkedOrLoggingIn
    <3>3. CASE BeginAbandon(t)
      <4>1. link => ~LoggingIn(t)
        BY <3>3 DEF BeginAbandon, LoggingIn, At
      <4>2. \A u \in Threads \ {t} : seen'[u] = seen[u]
        BY <3>3 DEF BeginAbandon, Finish, Forget, ThreadType
      <4>3. link => \A u \in Workers : LoggingIn(u) => LoggingIn(u)'
        BY <3>0, <3>3, <4>1, <4>2, OthersLogIn
        DEF BeginAbandon, Finish, Forget, session
      <4> QED
        BY <3>3, <4>3 DEF BeginAbandon, session, LinkedOrLoggingIn
    <3>4. CASE BeginCommit(t)
      BY <3>4 DEF BeginCommit, LinkedOrLoggingIn
    <3>5. CASE SendLogin(t)
      <4>1. ~LoggingIn(t)
        BY <3>5 DEF SendLogin, LoggingIn, At
      <4>2. \A u \in Threads \ {t} : seen'[u] = seen[u]
        BY <3>5 DEF SendLogin, Finish, Forget, ThreadType
      <4> QED
        BY <3>0, <3>5, <4>1, <4>2, OthersLogIn, CalmStep
        DEF SendLogin, Finish, Forget, WritePacket
    <3> QED
      BY <2>2, <3>1, <3>2, <3>3, <3>4, <3>5 DEF BeginStep
  <2>3. ASSUME NEW t \in Commands \cup {Listener}, DisconnectStep(t)
        PROVE  LinkedOrLoggingIn'
    <3>0. t \in Threads
      BY Roles
    <3>1. CASE DisconnectRead(t)
      BY <3>0, <3>1, OthersLogIn, CalmStep
      DEF DisconnectRead, session, LoggingIn, At
    <3>2. CASE SendLogout(t)
      BY <3>0, <3>2, OthersLogIn, CalmStep
      DEF SendLogout, WritePacket, LoggingIn, At
    <3>3. CASE DisconnectClear(t)
      BY <3>3 DEF DisconnectClear, LinkedOrLoggingIn
    <3> QED
      BY <2>3, <3>1, <3>2, <3>3 DEF DisconnectStep
  <2>4. CASE ConfigureRead
    BY <2>4, Roles, OthersLogIn, CalmStep
    DEF ConfigureRead, session, LoggingIn, At, Workers
  <2>5. CASE ConfigureWrite
    BY <2>0, <2>a, <2>5, Roles
    DEF ConfigureWrite, LinkedOrLoggingIn, LoggingIn, At, Workers
  <2>6. CASE Listen \/ Answer
    <3>1. \/ link' = FALSE
          \/ /\ UNCHANGED <<link, target, remote>>
             /\ authStage # "Disconnected" => authStage' # "Disconnected"
      BY <2>6 DEF Listen, Answer, ReceiveAck, ReceiveNak, ReceivePong,
                  ReceiveClose, AckLogin, AckKey, AckConfig, Advance,
                  MarkConnected, SendKey, SendConfig, SendOptions, SendReply,
                  WritePacket, Reject, session
    <3>2. /\ UNCHANGED target
          /\ \A u \in Workers : pc'[u] = pc[u] /\ seen'[u] = seen[u]
      BY <2>6 DEF Listen, Answer, ReceiveAck, ReceiveNak, ReceivePong,
                  ReceiveClose, AckLogin, AckKey, AckConfig, Advance,
                  MarkConnected, SendKey, SendConfig, SendOptions, SendReply,
                  WritePacket, Reject, session, Workers, ThreadType, Go, Finish,
                  Forget
    <3>3. \A u \in Workers : LoggingIn(u) => LoggingIn(u)'
      BY <3>2 DEF LoggingIn, At
    <3> QED
      BY <3>1, <3>3, CalmStep DEF LinkedOrLoggingIn
  <2>7. CASE TickLogin
    BY <2>0, <2>a, <2>7, Roles DEF TickLogin, LinkedOrLoggingIn, LoggingIn, At,
                                   Workers
  <2>8. CASE TickPing \/ PingMaster
    <3>1. Ticker \in Threads /\ ~LoggingIn(Ticker)
      BY <2>8, Roles DEF TickPing, PingMaster, LoggingIn, At, Workers
    <3>2. \A u \in Threads \ {Ticker} : seen'[u] = seen[u]
      BY <2>8 DEF TickPing, PingMaster, Finish, Forget, ThreadType
    <3> QED
      BY <2>8, <3>1, <3>2, OthersLogIn, CalmStep
      DEF TickPing, PingMaster, Finish, Forget, WritePacket, session
  <2>9. CASE Time \/ UNCHANGED vars
    BY <2>9, CalmStep DEF Time, NetworkAges, ControlAges, RejectionAges, vars,
                          session, LoggingIn, At
  <2> QED
    BY <2>1, <2>2, <2>3, <2>4, <2>5, <2>6, <2>7, <2>8, <2>9 DEF Next
<1>3. QED
  BY <1>1, <1>2, TypeCorrect, PTL DEF Spec

-----------------------------------------------------------------------------
(* RejectionStands needs to know that the listener, the only thread that   *)
(* advances a handshake, is not holding an older acknowledgement when the  *)
(* rejection is recorded: it handles one packet at a time.                 *)
RejectionInv ==
  /\ RejectionStands
  /\ refused => pc[Listener] # "accepted"

(* After MSTNAK nothing but a new login takes the session out of           *)
(* authDisconnected or links it.                                           *)
THEOREM RejectionFinal == Spec => []RejectionStands
<1>1. Init => RejectionInv
  BY DEF Init, RejectionInv, RejectionStands
<1>2. TypeOK /\ RejectionInv /\ [Next]_vars => RejectionInv'
  <2> SUFFICES ASSUME TypeOK, RejectionInv, [Next]_vars
               PROVE  RejectionInv'
    OBVIOUS
  <2> USE DEF TypeOK, RejectionInv, RejectionStands
  <2>0. Listener \in Threads /\ Listener \notin Workers
    BY DEF Threads, Workers
  <2>1. ASSUME NEW c \in Commands, Command(c) PROVE RejectionInv'
    <3>1. pc'[Listener] = pc[Listener]
      BY <2>0, <2>1, Roles DEF Command, ConnectCommand, DisconnectCommand,
                               Go, ThreadType
    <3> QED
      BY <2>1, <3>1 DEF Command, ConnectCommand, DisconnectCommand, session
  <2>2. ASSUME NEW t \in Workers, BeginStep(t) PROVE RejectionInv'
    <3>1. pc'[Listener] = pc[Listener]
      BY <2>0, <2>2 DEF BeginStep, BeginRead, BeginFail, BeginAbandon,
                        BeginCommit, SendLogin, Go, Finish, Forget, ThreadType
    <3> QED
      BY <2>2, <3>1 DEF BeginStep, BeginRead, BeginFail, BeginAbandon,
                        BeginCommit, SendLogin, WritePacket, session
  <2>3. ASSUME NEW t \in Commands \cup {Listener}, DisconnectStep(t)
        PROVE  RejectionInv'
    <3>1. pc'[Listener] \in {pc[Listener], "idle", "logout", "clear"}
      BY <2>0, <2>3 DEF DisconnectStep, DisconnectRead, SendLogout,
                        DisconnectClear, Go, Finish, Forget, ThreadType
    <3> QED
      BY <2>3, <3>1 DEF DisconnectStep, DisconnectRead, SendLogout,
                        DisconnectClear, WritePacket, session
  <2>4. CASE ConfigureRead \/ ConfigureWrite
    <3>1. pc'[Listener] = pc[Listener]
      BY <2>0, <2>4, Roles DEF ConfigureRead, ConfigureWrite, Go, ThreadType
    <3> QED
      BY <2>4, <3>1 DEF ConfigureRead, ConfigureWrite, session
  <2>5. CASE Listen
    <3>1. ASSUME NEW salted \in BOOLEAN, ReceiveAck(salted)
          PROVE  RejectionInv'
      <4>1. refused => UNCHANGED pc
        BY <3>1 DEF ReceiveAck, WaitingStages
      <4> QED
        BY <3>1, <4>1 DEF ReceiveAck
    <3>2. CASE ReceiveNak \/ ReceiveClose
      BY <2>0, <3>2 DEF ReceiveNak, ReceiveClose, Go, ThreadType, session
    <3>3. CASE ReceivePong
      BY <3>3 DEF ReceivePong
    <3> QED
      BY <2>5, <3>1, <3>2, <3>3 DEF Listen
  <2>6. CASE Answer
    <3>1. CASE AckLogin \/ AckKey \/ AckConfig \/ MarkConnected
      BY <2>0, <3>1 DEF AckLogin, AckKey, AckConfig, MarkConnected, Advance,
                        At, Go, Finish, Forget, ThreadType
    <3>2. CASE SendKey \/ SendConfig \/ SendOptions \/ Reject
      BY <2>0, <3>2 DEF SendKey, SendConfig, SendOptions, SendReply,
                        WritePacket, Reject, Go, Finish, Forget, ThreadType
    <3> QED
      BY <2>6, <3>1, <3>2 DEF Answer
  <2>7. CASE TickLogin \/ TickPing \/ PingMaster
    <3>1. pc'[Listener] = pc[Listener]
      BY <2>0, <2>7, Roles DEF TickLogin, TickPing, PingMaster, Go, Finish,
                               Forget, ThreadType
    <3> QED
      BY <2>7, <3>1 DEF TickLogin, TickPing, PingMaster, WritePacket, session
  <2>8. CASE Time \/ UNCHANGED vars
    BY <2>8 DEF Time, NetworkAges, ControlAges, RejectionAges, vars, session
  <2> QED
    BY <2>1, <2>2, <2>3, <2>4, <2>5, <2>6, <2>7, <2>8 DEF Next
<1>3. RejectionInv => RejectionStands
  BY DEF RejectionInv
<1> QED
  BY <1>1, <1>2, <1>3, TypeCorrect, PTL DEF Spec

-----------------------------------------------------------------------------
(* A login across the network: LocalMaster and DMRLogin                    *)
(* The master alone                                                        *)

Kept(id) == Live(id) /\ clients[id].stage = "Running" => id \in DOMAIN clients'

\* Making room keeps the live ones.
LEMMA PrunedKeepsLive ==
  ASSUME NEW id, Live(id)
  PROVE  id \in DOMAIN Pruned
BY DEF Pruned, LiveOnes, Only, Live

LEMMA StatusKeeps == Status => \A id \in DOMAIN clients : Kept(id)
BY DEF Status, LiveOnes, Only, Kept, Live

LEMMA AgeKeeps == Age => \A id \in DOMAIN clients : Kept(id)
BY DEF Age, Kept

LEMMA LoginKeeps ==
  ASSUME NEW me, NEW addr, NEW salt, NEW reply, Login(me, addr, salt, reply)
  PROVE  \A id \in DOMAIN clients : Kept(id)
<1> SUFFICES ASSUME NEW id \in DOMAIN clients, Live(id)
             PROVE  id \in DOMAIN clients'
  BY DEF Kept
<1>1. id \in DOMAIN Pruned
  BY PrunedKeepsLive
<1>2. CASE UNCHANGED clients
  BY <1>2
<1>3. CASE clients' = Pruned
  BY <1>1, <1>3
<1>4. CASE clients' = Set(Pruned, me, [stage |-> "WaitingKey", addr |-> addr,
                                       salt |-> salt, age |-> 0])
  BY <1>1, <1>4 DEF Set
<1> QED
  BY <1>2, <1>3, <1>4 DEF Login

LEMMA PacketKeeps ==
  ASSUME NEW me, NEW addr, NEW key, NEW reply,
         \/ Key(me, addr, key, reply) \/ Config(me, addr, reply)
         \/ Options(me, addr, reply) \/ Ping(me, addr, reply) \/ Close(reply)
  PROVE  \A id \in DOMAIN clients : Kept(id)
<1>1. CASE DOMAIN clients' = DOMAIN clients
  BY <1>1 DEF Kept
<1>2. CASE Known(me, addr) /\ clients[me].stage = "WaitingKey" /\ clients' = Without(me)
  BY <1>2 DEF Without, Only, Kept
<1>3. \A st : Enter(me, st) => DOMAIN clients' = DOMAIN clients
  BY DEF Enter
<1> QED
  BY <1>1, <1>2, <1>3 DEF Key, Config, Options, Ping, Close

LEMMA MasterKeeps == MasterNext => \A id \in DOMAIN clients : Kept(id)
<1> SUFFICES ASSUME MasterNext PROVE \A id \in DOMAIN clients : Kept(id)
  OBVIOUS
<1>1. CASE \E id \in Ids, addr \in Addresses : Frame(id, addr)
  BY <1>1 DEF Frame, Kept
<1>2. CASE \E id \in Ids : FrameSeen(id)
  BY <1>2 DEF FrameSeen, Kept
<1> QED
  BY <1>1, <1>2, LoginKeeps, PacketKeeps, StatusKeeps, AgeKeeps DEF MasterNext

LEMMA StepKeeps ==
  [LoginNext]_loginVars => \A id \in DOMAIN clients : Kept(id)
<1> SUFFICES ASSUME [LoginNext]_loginVars PROVE \A id \in DOMAIN clients : Kept(id)
  OBVIOUS
<1>1. CASE UNCHANGED clients
  BY <1>1 DEF Kept
<1>2. ASSUME NEW p \in net, Serve(p)
      PROVE  \A id \in DOMAIN clients : Kept(id)
  BY <1>2, LoginKeeps, PacketKeeps DEF Serve
<1>3. ASSUME NEW p \in net, Deliver(p), ~Serve(p)
      PROVE  UNCHANGED clients
  BY <1>3 DEF Deliver, LoginAcked, KeyAcked, ConfigAcked, LastAcked, AckOf, Nak, Refused,
              Pong, Heard, masterVars
<1>4. CASE \E p \in net : Lose(p)
  BY <1>1, <1>4 DEF Lose, masterVars
<1>5. CASE StartOver \/ Connect \/ Leave \/ Retry \/ MasterSilent \/ Reconnect \/ SendPing
  BY <1>1, <1>5 DEF StartOver, Connect, Leave, Retry, MasterSilent, Reconnect,
                    SendPing, Begin, masterVars
<1>6. CASE Tick \/ MasterStatus \/ Crowd
  BY <1>6, StatusKeeps, AgeKeeps, MasterKeeps DEF Tick, MasterStatus, Crowd
<1>7. CASE UNCHANGED loginVars
  BY <1>1, <1>7 DEF loginVars, masterVars
<1> QED
  BY <1>1, <1>2, <1>3, <1>4, <1>5, <1>6, <1>7 DEF LoginNext

\* The master never drops a linked client that it has heard of lately, whatever
\* its clients send and whenever the status page is looked at, for any size of
\* its table.
THEOREM LiveClientsKept == LoginSpec => LinkedIsKept
<1>1. [LoginNext]_loginVars =>
        [\A id \in DOMAIN clients :
           Live(id) /\ clients[id].stage = "Running" => id \in DOMAIN clients']_masterVars
  BY StepKeeps DEF Kept
<1> QED
  BY <1>1, PTL DEF LoginSpec, LinkedIsKept

-----------------------------------------------------------------------------
(* The client and the master.  What RightKeyAccepted and Agreement rest on: *)
(* the two talk in turns, so that at most one packet is under way, and it   *)
(* tells how far the other has got; and a client that is linked was heard   *)
(* of by the master no longer ago than the client heard of the master.      *)

Entry == [stage : Stages, addr : {Here}, salt : Salts, age : 0 .. StaleTicks + 1]

Table ==
  /\ framing = {}
  /\ DOMAIN clients \subseteq {Me}
  /\ Me \in DOMAIN clients => clients[Me] \in Entry

Peer ==
  /\ party \in {"session", "dvxcode"}
  /\ stage \in Waiting \cup {"Running", "Rejected", "Off"}
  /\ netAge \in 0 .. NetworkTicks + 1
  /\ quiet \in {0, 1}
  /\ right \in BOOLEAN

\* The master has the client at that stage, and heard of it in this interval.
Serves(st) == Me \in DOMAIN clients /\ clients[Me].stage = st /\ clients[Me].age = 0

\* The packet under way while a client logs in or is linked.
Turn(p) ==
  \/ /\ stage = "WaitingLogin"
     /\ \/ p = ToMaster("RPTL", WrongKey)
        \/ p = ToPeer("RPTACK", clients[Me].salt) /\ Serves("WaitingKey")
  \/ /\ stage = "WaitingAuthorisation"
     /\ \/ /\ p = ToMaster("RPTK", IF right THEN clients[Me].salt ELSE WrongKey)
           /\ Serves("WaitingKey")
        \/ p = ToPeer("RPTACK", WrongKey) /\ Serves("WaitingConfig")
        \/ p = ToPeer("MSTNAK", WrongKey) /\ ~right
  \/ /\ stage = "WaitingConfig"
     /\ \/ p = ToMaster("RPTC", WrongKey) /\ Serves("WaitingConfig")
        \/ p = ToPeer("RPTACK", WrongKey) /\ Serves("Running")
  \/ /\ stage = "WaitingOptions" /\ Serves("Running")
     /\ p \in {ToMaster("RPTO", WrongKey), ToPeer("RPTACK", WrongKey)}
  \/ /\ stage = "Running"
     /\ \/ p = ToMaster("RPTPING", WrongKey)
        \/ p = ToPeer("MSTPONG", WrongKey) /\ Serves("Running")

Linked ==
  /\ Me \in DOMAIN clients /\ clients[Me].stage = "Running"
  /\ clients[Me].age <= netAge
  /\ netAge > NetworkTicks => quiet = 1

Dialogue ==
  /\ quiet = 1 /\ stage # "Off" => net = {}
  /\ stage = "Rejected" => net = {} /\ ~right
  /\ stage # "Off" => \A p \in net : net = {p} /\ Turn(p)
  /\ stage = "Running" => Linked

LoginInv ==
  \/ party = "crowd" /\ stage = "Off" /\ net = {}
  \/ Table /\ Peer /\ Dialogue

\* The client is alone in the table, which has room for two.
LEMMA RoomForMe ==
  ASSUME Table
  PROVE  Pruned = clients /\ ~(Cardinality(DOMAIN Pruned) >= Capacity)
<1>1. DOMAIN clients = {} \/ DOMAIN clients = {Me}
  BY DEF Table
<1>2. Cardinality(DOMAIN clients) \in {0, 1}
  BY <1>1, FS_EmptySet, FS_Singleton
<1>3. ~(Cardinality(DOMAIN clients) >= Capacity)
  BY <1>2, DeadlineAssumption, MasterAssumption
<1> QED
  BY <1>3 DEF Pruned

LEMMA LoginStep ==
  ASSUME Table, NEW salt \in Salts, NEW reply, Login(Me, Here, salt, reply), Control
  PROVE  Table' /\ reply = "RPTACK" /\ Serves("WaitingKey")' /\ clients'[Me].salt = salt
<1>1. /\ reply = "RPTACK"
      /\ clients' = [i \in DOMAIN clients \cup {Me} |->
                       IF i = Me THEN [stage |-> "WaitingKey", addr |-> Here,
                                       salt |-> salt, age |-> 0]
                       ELSE clients[i]]
  BY RoomForMe, PeerAssumption DEF Login, Set
<1>2. DOMAIN clients' = {Me}
  BY <1>1 DEF Table
<1>3. clients'[Me] = [stage |-> "WaitingKey", addr |-> Here, salt |-> salt, age |-> 0]
  BY <1>1
<1>4. clients'[Me] \in Entry
  BY <1>3, MasterAssumption DEF Entry, Stages
<1> QED
  BY <1>1, <1>2, <1>3, <1>4 DEF Table, Control, Serves

LEMMA EnterStep ==
  ASSUME Table, Control, Known(Me, Here), NEW st \in Stages, Enter(Me, st)
  PROVE  Table' /\ Serves(st)'
<1>1. DOMAIN clients' = DOMAIN clients /\ Me \in DOMAIN clients
  BY DEF Enter, Known
<1>2. clients'[Me] = [clients[Me] EXCEPT !.stage = st, !.age = 0]
  BY <1>1 DEF Enter
<1>3. clients[Me] \in Entry
  BY <1>1 DEF Table
<1>4. 0 \in 0 .. StaleTicks + 1
  BY MasterAssumption
<1>5. clients'[Me] \in Entry /\ clients'[Me].stage = st /\ clients'[Me].age = 0
  BY <1>2, <1>3, <1>4 DEF Entry
<1> QED
  BY <1>1, <1>5 DEF Table, Control, Serves

\* Whatever comes from the client, the table is as it should be.
LEMMA TableStep ==
  ASSUME Table, NEW p \in net, Serve(p)
  PROVE  Table'
<1>1. PICK reply \in {"RPTACK", "MSTNAK", "MSTPONG"}, salt \in Salts :
         \/ Login(Me, Here, salt, reply)
         \/ Key(Me, Here, p.key, reply)
         \/ Config(Me, Here, reply)
         \/ Options(Me, Here, reply)
         \/ Ping(Me, Here, reply)
         \/ Close(reply)
  BY DEF Serve
<1>c. Control
  BY DEF Serve
<1>2. CASE UNCHANGED clients
  BY <1>2, <1>c DEF Table, Control
<1>3. CASE Login(Me, Here, salt, reply)
  BY <1>3, <1>c, LoginStep
<1>4. CASE Known(Me, Here) /\ \E st \in {"WaitingConfig", "Running"} : Enter(Me, st)
  BY <1>4, <1>c, EnterStep DEF Stages
<1>5. CASE clients' = Without(Me)
  BY <1>5, <1>c DEF Without, Only, Table, Control
<1> QED
  BY <1>1, <1>2, <1>3, <1>4, <1>5 DEF Key, Config, Options, Ping, Close
-----------------------------------------------------------------------------
(* The steps                                                               *)

Talking == Table /\ Peer /\ Dialogue

\* A packet under way is the only one, and the client is not at rest.
LEMMA OnePacket ==
  ASSUME Talking, stage # "Off", NEW p \in net
  PROVE  /\ net = {p} /\ Turn(p) /\ quiet = 0 /\ stage # "Rejected"
         /\ stage = "Running" => Linked
BY DEF Talking, Dialogue, Peer

\* The master answers.
LEMMA ServeTurn ==
  ASSUME Talking, stage # "Off", NEW p \in net, Serve(p)
  PROVE  \E q : net' = {q} /\ Turn(q)' /\ (stage = "Running" => Linked')
<1>0. /\ net = {p} /\ Turn(p) /\ quiet = 0 /\ stage # "Rejected"
      /\ stage = "Running" => Linked
  BY OnePacket
<1>1. Control /\ UNCHANGED <<peer, losses>> /\ p.to = "master"
  BY DEF Serve
<1>2. PICK reply \in {"RPTACK", "MSTNAK", "MSTPONG"}, salt \in Salts :
         /\ \/ p.what = "RPTL" /\ NewSalt(salt) /\ Login(Me, Here, salt, reply)
            \/ p.what = "RPTK" /\ Key(Me, Here, p.key, reply)
            \/ p.what = "RPTC" /\ Config(Me, Here, reply)
            \/ p.what = "RPTO" /\ Options(Me, Here, reply)
            \/ p.what = "RPTPING" /\ Ping(Me, Here, reply)
            \/ p.what = "RPTCL" /\ Close(reply)
         /\ net' = {ToPeer(reply, IF p.what = "RPTL" THEN salt ELSE WrongKey)}
  BY <1>0 DEF Serve
<1>3. Table /\ Peer
  BY DEF Talking
<1>4. \A st \in Stages : Serves(st) => Known(Me, Here)
  BY <1>3 DEF Serves, Table, Entry, Known
<1>5. CASE stage = "WaitingLogin"
  <2>1. p.what = "RPTL"
    BY <1>0, <1>1, <1>5 DEF Turn, ToMaster, ToPeer
  <2>2. /\ Login(Me, Here, salt, reply)
        /\ net' = {ToPeer(reply, salt)}
    BY <1>2, <2>1
  <2>3. reply = "RPTACK" /\ Serves("WaitingKey")' /\ clients'[Me].salt = salt
    BY <2>2, <1>1, <1>3, LoginStep
  <2> QED
    BY <2>2, <2>3, <1>1, <1>5 DEF Turn, peer
<1>6. CASE stage = "WaitingAuthorisation"
  <2>1. /\ p = ToMaster("RPTK", IF right THEN clients[Me].salt ELSE WrongKey)
        /\ Serves("WaitingKey")
    BY <1>0, <1>1, <1>6 DEF Turn, ToMaster, ToPeer
  <2>2. /\ Known(Me, Here) /\ clients[Me].stage = "WaitingKey"
        /\ clients[Me].salt # WrongKey
    BY <2>1, <1>3, <1>4, MasterAssumption DEF Serves, Stages, Table, Entry
  <2>3. /\ Key(Me, Here, IF right THEN clients[Me].salt ELSE WrongKey, reply)
        /\ net' = {ToPeer(reply, WrongKey)}
    BY <1>2, <2>1 DEF ToMaster
  <2>4. CASE right
    <3>1. Enter(Me, "WaitingConfig") /\ reply = "RPTACK"
      BY <2>2, <2>3, <2>4 DEF Key
    <3>2. Serves("WaitingConfig")'
      BY <3>1, <2>2, <1>1, <1>3, EnterStep DEF Stages
    <3> QED
      BY <3>1, <3>2, <2>3, <1>1, <1>6 DEF Turn, peer
  <2>5. CASE ~right
    <3>1. reply = "MSTNAK"
      BY <2>2, <2>3, <2>5 DEF Key
    <3> QED
      BY <3>1, <2>3, <2>5, <1>1, <1>6 DEF Turn, peer
  <2> QED
    BY <2>4, <2>5, <1>3 DEF Peer
<1>7. CASE stage = "WaitingConfig"
  <2>1. p.what = "RPTC" /\ Serves("WaitingConfig")
    BY <1>0, <1>1, <1>7 DEF Turn, ToMaster, ToPeer
  <2>2. Config(Me, Here, reply) /\ net' = {ToPeer(reply, WrongKey)}
    BY <1>2, <2>1
  <2>3. Known(Me, Here) /\ Enter(Me, "Running") /\ reply = "RPTACK"
    BY <2>1, <2>2, <1>4 DEF Config, Serves, Stages
  <2>4. Serves("Running")'
    BY <2>3, <1>1, <1>3, EnterStep DEF Stages
  <2> QED
    BY <2>2, <2>3, <2>4, <1>1, <1>7 DEF Turn, peer
<1>8. CASE stage = "WaitingOptions"
  <2>1. p.what = "RPTO" /\ Serves("Running")
    BY <1>0, <1>1, <1>8 DEF Turn, ToMaster, ToPeer
  <2>2. Options(Me, Here, reply) /\ net' = {ToPeer(reply, WrongKey)}
    BY <1>2, <2>1
  <2>3. Known(Me, Here) /\ Enter(Me, "Running") /\ reply = "RPTACK"
    BY <2>1, <2>2, <1>4 DEF Options, Stages
  <2>4. Serves("Running")'
    BY <2>3, <1>1, <1>3, EnterStep DEF Stages
  <2> QED
    BY <2>2, <2>3, <2>4, <1>1, <1>8 DEF Turn, peer
<1>9. CASE stage = "Running"
  <2>1. p.what = "RPTPING" /\ Linked
    BY <1>0, <1>1, <1>9 DEF Turn, ToMaster, ToPeer
  <2>2. Ping(Me, Here, reply) /\ net' = {ToPeer(reply, WrongKey)}
    BY <1>2, <2>1
  <2>3. Known(Me, Here) /\ Enter(Me, "Running") /\ reply = "MSTPONG"
    BY <2>1, <2>2, <1>3 DEF Ping, Linked, Known, Table, Entry
  <2>4. Serves("Running")'
    BY <2>3, <1>1, <1>3, EnterStep DEF Stages
  <2>5. Linked'
    BY <2>1, <2>4, <1>1, <1>3 DEF Linked, Serves, peer, Peer
  <2> QED
    BY <2>2, <2>3, <2>4, <2>5, <1>1, <1>9 DEF Turn, peer
<1> QED
  BY <1>0, <1>3, <1>5, <1>6, <1>7, <1>8, <1>9 DEF Peer, Waiting

LEMMA ServeKeeps ==
  ASSUME Talking, NEW p \in net, Serve(p)
  PROVE  Talking'
<1>1. Table'
  BY TableStep DEF Talking
<1>2. UNCHANGED <<party, stage, netAge, quiet, right>>
  BY DEF Serve, peer
<1>3. Peer'
  BY <1>2 DEF Peer, Talking
<1>4. CASE stage = "Off"
  BY <1>1, <1>2, <1>3, <1>4 DEF Talking, Dialogue
<1>5. CASE stage # "Off"
  <2>1. PICK q : net' = {q} /\ Turn(q)' /\ (stage = "Running" => Linked')
    BY <1>5, ServeTurn
  <2>2. quiet = 0 /\ stage # "Rejected"
    BY <1>5, OnePacket
  <2> QED
    BY <1>1, <1>2, <1>3, <2>1, <2>2 DEF Talking, Dialogue
<1> QED
  BY <1>4, <1>5

\* The client takes an answer in.
LEMMA HeardKeeps ==
  ASSUME Talking, NEW p \in net,
         LoginAcked(p) \/ KeyAcked(p) \/ ConfigAcked(p) \/ LastAcked(p) \/ Nak(p)
           \/ Refused(p) \/ Pong(p)
  PROVE  Talking'
<1>1. /\ Heard(p) /\ stage # "Off" /\ p.to = "peer"
      /\ UNCHANGED <<clients, framing, party, right>>
  BY DEF LoginAcked, KeyAcked, ConfigAcked, LastAcked, AckOf, Nak, Refused, Pong, Heard,
         Deaf, masterVars
<1>2. /\ net = {p} /\ Turn(p) /\ quiet = 0 /\ stage # "Rejected"
      /\ stage = "Running" => Linked
  BY <1>1, OnePacket
<1>3. Table' /\ Table /\ Peer
  BY <1>1 DEF Talking, Table
<1>4. CASE LoginAcked(p)
  <2>1. /\ stage = "WaitingLogin" /\ p.key = clients[Me].salt /\ Serves("WaitingKey")
    BY <1>2, <1>4, <1>1 DEF LoginAcked, AckOf, Turn, ToMaster, ToPeer
  <2>2. /\ stage' = "WaitingAuthorisation" /\ netAge' = 0 /\ quiet' = 0
        /\ net' = {ToMaster("RPTK", IF right THEN clients[Me].salt ELSE WrongKey)}
    BY <2>1, <1>2, <1>4 DEF LoginAcked, AckOf, Send
  <2> QED
    BY <2>1, <2>2, <1>1, <1>3, PeerAssumption
    DEF Talking, Dialogue, Peer, Waiting, Turn, Serves
<1>5. CASE KeyAcked(p)
  <2>1. stage = "WaitingAuthorisation" /\ Serves("WaitingConfig")
    BY <1>2, <1>5 DEF KeyAcked, AckOf, Heard, Turn, ToMaster, ToPeer
  <2>2. /\ stage' = "WaitingConfig" /\ netAge' = 0 /\ quiet' = 0
        /\ net' = {ToMaster("RPTC", WrongKey)}
    BY <1>2, <1>5 DEF KeyAcked, AckOf, Send
  <2> QED
    BY <2>1, <2>2, <1>1, <1>3, PeerAssumption
    DEF Talking, Dialogue, Peer, Waiting, Turn, Serves
<1>6. CASE ConfigAcked(p)
  <2>1. stage = "WaitingConfig" /\ Serves("Running")
    BY <1>2, <1>6 DEF ConfigAcked, AckOf, Heard, Turn, ToMaster, ToPeer
  <2>2. /\ stage' = "WaitingOptions" /\ netAge' = 0 /\ quiet' = 0
        /\ net' = {ToMaster("RPTO", WrongKey)}
    BY <1>2, <1>6 DEF ConfigAcked, AckOf, Send
  <2> QED
    BY <2>1, <2>2, <1>1, <1>3, PeerAssumption
    DEF Talking, Dialogue, Peer, Waiting, Turn, Serves
<1>7. CASE LastAcked(p)
  <2>1. Serves("Running")
    BY <1>2, <1>7 DEF LastAcked, AckOf, Heard, Turn, ToMaster, ToPeer
  <2>2. stage' = "Running" /\ netAge' = 0 /\ quiet' = 0 /\ net' = {}
    BY <1>2, <1>7 DEF LastAcked, AckOf
  <2> QED
    BY <2>1, <2>2, <1>1, <1>3, PeerAssumption
    DEF Talking, Dialogue, Peer, Linked, Serves
<1>8. CASE Nak(p) \/ Refused(p)
  <2>1. p.what = "MSTNAK" /\ stage' = "Rejected" /\ UNCHANGED <<netAge, quiet>>
    BY <1>8 DEF Nak, Refused
  <2>2. stage = "WaitingAuthorisation" /\ ~right
    BY <2>1, <1>2 DEF Turn, ToMaster, ToPeer
  <2>3. net' = {}
    BY <2>2, <1>2, <1>8 DEF Nak, Refused
  <2> QED
    BY <2>1, <2>2, <2>3, <1>1, <1>3 DEF Talking, Dialogue, Peer
<1>9. CASE Pong(p)
  <2>1. stage = "Running" /\ Serves("Running")
    BY <1>2, <1>9 DEF Pong, Turn, ToMaster, ToPeer
  <2>2. netAge' = 0 /\ net' = {} /\ UNCHANGED <<stage, quiet>>
    BY <1>2, <1>9 DEF Pong
  <2> QED
    BY <2>1, <2>2, <1>1, <1>2, <1>3, PeerAssumption
    DEF Talking, Dialogue, Peer, Linked, Serves
<1> QED
  BY <1>4, <1>5, <1>6, <1>7, <1>8, <1>9

\* A new login.
LEMMA BeginKeeps ==
  ASSUME Talking, Begin, net = {}, right' \in BOOLEAN
  PROVE  Talking'
<1>1. /\ stage' = "WaitingLogin" /\ netAge' = 0 /\ quiet' = 0
      /\ net' = {ToMaster("RPTL", WrongKey)}
      /\ UNCHANGED <<clients, framing, party>>
  BY DEF Begin, masterVars
<1> QED
  BY <1>1, PeerAssumption DEF Talking, Table, Peer, Dialogue, Turn, Waiting

\* What a client does of its own accord.
LEMMA ClientKeeps ==
  ASSUME Talking,
         StartOver \/ Connect \/ Leave \/ Retry \/ MasterSilent \/ Reconnect \/ SendPing
  PROVE  Talking'
<1>0. Table /\ Peer /\ Dialogue
  BY DEF Talking
<1>1. CASE StartOver \/ Connect \/ Reconnect
  <2>1. Begin /\ net = {} /\ right' \in BOOLEAN
    BY <1>0, <1>1 DEF StartOver, Timeout, Waiting, Connect, Reconnect, Dialogue, Peer
  <2> QED
    BY <2>1, BeginKeeps
<1>2. CASE Leave
  BY <1>0, <1>2 DEF Leave, masterVars, Talking, Table, Peer, Dialogue
<1>3. CASE Retry
  <2>1. net' = {ToMaster("RPTL", WrongKey)}
    BY <1>0, <1>3 DEF Retry, Dialogue, Waiting
  <2> QED
    BY <2>1, <1>0, <1>3 DEF Retry, masterVars, Talking, Table, Peer, Dialogue, Turn, Waiting
<1>4. CASE MasterSilent
  BY <1>0, <1>4 DEF MasterSilent, masterVars, Talking, Table, Peer, Dialogue
<1>5. CASE SendPing
  <2>1. net' = {ToMaster("RPTPING", WrongKey)} /\ stage' = "Running" /\ quiet' = 0
    BY <1>0, <1>5 DEF SendPing, Dialogue
  <2>2. /\ Linked /\ ~(netAge > NetworkTicks)
        /\ UNCHANGED <<clients, framing, party, netAge, right>>
    BY <1>0, <1>5, PeerAssumption
    DEF SendPing, Dialogue, Timeout, Peer, masterVars, Waiting
  <2> QED
    BY <2>1, <2>2, <1>0 DEF Talking, Table, Peer, Dialogue, Turn, Linked
<1> QED
  BY <1>1, <1>2, <1>3, <1>4, <1>5

\* A tick makes the client's age and the master's one higher.
LEMMA TickKeeps ==
  ASSUME Talking, Tick
  PROVE  Talking'
<1>0. Table /\ Peer /\ Dialogue
  BY DEF Talking
<1>1. /\ net = {} /\ net' = {} /\ quiet' = 1 /\ UNCHANGED <<party, stage, right, framing>>
      /\ netAge' = IF netAge > NetworkTicks THEN netAge ELSE netAge + 1
      /\ clients' = [id \in DOMAIN clients |->
                       [clients[id] EXCEPT !.age = IF @ > StaleTicks THEN @ ELSE @ + 1]]
  BY DEF Tick, Age
<1>2. Peer'
  BY <1>0, <1>1, PeerAssumption DEF Peer
<1>3. ASSUME Me \in DOMAIN clients
      PROVE  /\ clients'[Me] \in Entry /\ clients'[Me].stage = clients[Me].stage
             /\ clients'[Me].age = IF clients[Me].age > StaleTicks THEN clients[Me].age
                                  ELSE clients[Me].age + 1
  <2>1. clients[Me] \in Entry
    BY <1>0, <1>3 DEF Table
  <2>2. clients'[Me] = [clients[Me] EXCEPT !.age = IF clients[Me].age > StaleTicks
                          THEN clients[Me].age ELSE clients[Me].age + 1]
    BY <1>1, <1>3
  <2>3. (IF clients[Me].age > StaleTicks THEN clients[Me].age ELSE clients[Me].age + 1)
          \in 0 .. StaleTicks + 1
    BY <2>1, MasterAssumption DEF Entry
  <2> QED
    BY <2>1, <2>2, <2>3 DEF Entry
<1>4. Table'
  BY <1>0, <1>1, <1>3 DEF Table
<1>5. CASE stage = "Running"
  <2>1. ~(netAge > NetworkTicks) /\ Linked
    BY <1>0, <1>5 DEF Tick, Dialogue, Linked, Peer
  <2>2. clients[Me].age \in Nat /\ netAge \in Nat
    BY <2>1, <1>0, MasterAssumption, PeerAssumption DEF Linked, Table, Entry, Peer
  <2>3. Linked'
    BY <2>1, <2>2, <1>1, <1>3, MasterAssumption, PeerAssumption DEF Linked
  <2> QED
    BY <2>3, <1>1, <1>2, <1>4, <1>5 DEF Talking, Dialogue
<1>6. CASE stage # "Running"
  BY <1>0, <1>1, <1>2, <1>4, <1>6 DEF Talking, Dialogue
<1> QED
  BY <1>5, <1>6

\* The client's entry is not old while it is linked or logging in.
LEMMA StatusSpares ==
  ASSUME Talking, Status, Me \in DOMAIN clients, clients[Me].age <= StaleTicks
  PROVE  Me \in DOMAIN clients' /\ clients'[Me] = clients[Me]
BY DEF Status, LiveOnes, Only, Live

LEMMA LinkedIsLive ==
  ASSUME Talking, stage = "Running"
  PROVE  Live(Me) /\ clients[Me].stage = "Running"
<1>1. Linked /\ Table /\ Peer
  BY DEF Talking, Dialogue
<1> QED
  BY <1>1, DeadlineAssumption, PeerAssumption, MasterAssumption
  DEF Linked, Table, Entry, Peer, Live

LEMMA MasterStatusKeeps ==
  ASSUME Talking, MasterStatus
  PROVE  Talking'
<1>0. /\ Table /\ Peer /\ Dialogue /\ Status
      /\ UNCHANGED <<party, stage, netAge, quiet, right, net>>
  BY DEF Talking, MasterStatus, peer
<1>1. Table'
  BY <1>0 DEF Status, LiveOnes, Only, Table
<1>2. \A st : Serves(st) => Serves(st)' /\ clients'[Me] = clients[Me]
  BY StatusSpares, MasterAssumption, <1>0 DEF Serves
<1>3. ASSUME stage # "Off", NEW p \in net
      PROVE  net = {p} /\ Turn(p)'
  <2>1. net = {p} /\ Turn(p)
    BY <1>3, OnePacket
  <2>2. Serves("WaitingKey") => Serves("WaitingKey")' /\ clients'[Me] = clients[Me]
    BY <1>2
  <2>3. Serves("WaitingConfig") => Serves("WaitingConfig")'
    BY <1>2
  <2>4. Serves("Running") => Serves("Running")'
    BY <1>2
  <2> QED
    BY <2>1, <2>2, <2>3, <2>4, <1>0 DEF Turn
<1>4. stage = "Running" => Linked'
  BY <1>0, LinkedIsLive, StatusSpares DEF Dialogue, Linked, Live
<1> QED
  BY <1>0, <1>1, <1>3, <1>4 DEF Talking, Peer, Dialogue

LEMMA LoginInvInit == LoginInit => LoginInv
<1>1. ASSUME LoginInit, party # "crowd"
      PROVE  Talking
  BY <1>1, PeerAssumption
  DEF LoginInit, MasterInit, Talking, Table, Peer, Dialogue, Turn, Waiting
<1> QED
  BY <1>1 DEF LoginInit, LoginInv, Talking

LEMMA TalkingStep ==
  ASSUME Talking, [LoginNext]_loginVars
  PROVE  Talking'
<1>1. CASE \E p \in net : Deliver(p)
  BY <1>1, ServeKeeps, HeardKeeps DEF Deliver
<1>2. CASE \E p \in net : Lose(p)
  <2>1. UNCHANGED <<clients, framing, party, stage, netAge, quiet, right>>
    BY <1>2 DEF Lose, masterVars, peer
  <2>2. stage # "Off" => net' = {}
    BY <1>2, OnePacket DEF Lose
  <2> QED
    BY <2>1, <2>2 DEF Talking, Table, Peer, Dialogue, Linked
<1>3. CASE StartOver \/ Connect \/ Leave \/ Retry \/ MasterSilent \/ Reconnect \/ SendPing
  BY <1>3, ClientKeeps
<1>4. CASE Tick \/ MasterStatus
  BY <1>4, TickKeeps, MasterStatusKeeps
<1>5. CASE UNCHANGED loginVars
  BY <1>5 DEF loginVars, masterVars, peer, Talking, Table, Peer, Dialogue, Turn,
              Serves, Linked
<1>6. ~Crowd
  BY DEF Crowd, Talking, Peer
<1> QED
  BY <1>1, <1>2, <1>3, <1>4, <1>5, <1>6 DEF LoginNext

LEMMA LoginInvStep == LoginInv /\ [LoginNext]_loginVars => LoginInv'
<1> SUFFICES ASSUME LoginInv, [LoginNext]_loginVars PROVE LoginInv'
  OBVIOUS
<1>1. CASE party = "crowd"
  <2>1. stage = "Off" /\ net = {}
    BY <1>1 DEF LoginInv, Peer
  <2>2. Crowd \/ UNCHANGED loginVars
    BY <1>1, <2>1 DEF LoginNext, StartOver, Connect, Leave, Retry, MasterSilent,
                      Reconnect, SendPing, Tick, MasterStatus
  <2> QED
    BY <1>1, <2>1, <2>2 DEF Crowd, LoginInv, loginVars, peer
<1>2. CASE party # "crowd"
  BY <1>2, TalkingStep DEF LoginInv, Talking
<1> QED
  BY <1>1, <1>2

\* The dialogue in turns holds in every reachable state.
THEOREM LoginInvHolds == LoginSpec => []LoginInv
BY LoginInvInit, LoginInvStep, PTL DEF LoginSpec

\* A client with the right password is never refused for it, however many
\* packets are lost and whenever the status page is looked at: only a wrong key
\* makes the master refuse a packet of a client that takes turns with it.
THEOREM RightKeyNeverRefused == LoginSpec => []RightKeyAccepted
<1>1. LoginInv => RightKeyAccepted
  BY DEF LoginInv, Dialogue, RightKeyAccepted
<1> QED
  BY <1>1, LoginInvHolds, PTL

\* What a client counts as linked the master serves, and has heard of within
\* its own deadline: the client's is the shorter, and it looks first.
THEOREM PeersAgree == LoginSpec => []Agreement
<1>1. LoginInv => Agreement
  BY LinkedIsLive DEF LoginInv, Talking, Agreement
<1> QED
  BY <1>1, LoginInvHolds, PTL
=============================================================================
