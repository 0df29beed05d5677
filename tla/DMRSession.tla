----------------------------- MODULE DMRSession -----------------------------
(***************************************************************************)
(* One upstream DMR session of the gateway (UserSession in gateway.go):    *)
(* the login handshake with a Homebrew master, its retries, its rejection  *)
(* and its disconnection.                                                  *)
(*                                                                         *)
(* Four kinds of goroutines work on the same record: the UDP listener, the *)
(* two-second maintenance ticker, the conference supervisor and the        *)
(* WebSocket/HTTP commands.  Each of them takes session.mu several times   *)
(* in one operation and decides on values it read before it let the lock   *)
(* go; a thread therefore has a program counter pc[t] and the values it    *)
(* keeps in local variables, seen[t].  One action is one critical section, *)
(* together with the socket write that follows it.                         *)
(*                                                                         *)
(* The network is left open: any packet of the session's master may arrive *)
(* at any time, which covers loss, duplication, reordering and delay.      *)
(* Clocks are abstract: "60 s without traffic", "10 s without sending" and *)
(* "5 minutes since the rejection" become true at any moment after the     *)
(* time stamp was written.                                                 *)
(***************************************************************************)
EXTENDS Naturals

CONSTANTS
  Listener, Ticker, Supervisor,  \* the goroutines that always run
  Commands,                      \* goroutines that serve operator commands
  Targets,                       \* names of masters in the host table
  UserTargets,                   \* those that need the user's own password
  Passwords, MasterPassword,     \* user passwords; the password of the table
  LoginOptions,                  \* whether a login may send protocol options
  ConfTarget, ConfPassword,      \* the conference leg the supervisor keeps up
  ConfOptions,                   \* TRUE iff that leg sends protocol options
  None                           \* "", nil: no password, no address

Threads == {Listener, Ticker, Supervisor} \cup Commands

Workers == Threads \ {Listener}  \* the threads that may log in

ASSUME ThreadAssumption ==
  /\ Listener # Ticker /\ Listener # Supervisor /\ Ticker # Supervisor
  /\ {Listener, Ticker, Supervisor} \cap Commands = {}

ASSUME DataAssumption ==
  /\ UserTargets \subseteq Targets
  /\ ConfTarget \in Targets
  /\ ConfPassword \in Passwords \cup {None}
  /\ LoginOptions \subseteq BOOLEAN /\ ConfOptions \in BOOLEAN
  /\ None \notin Targets \cup Passwords
  /\ MasterPassword # None

VARIABLES
  link,          \* LinkActive
  authStage,     \* AuthStage
  target,        \* Target
  remote,        \* RemoteAddr; a master's address stands for its name
  userPassword,  \* UserPassword
  authPassword,  \* AuthPassword
  options,       \* Options # ""
  lastRejected,  \* LastRejected is less than five minutes old
  netStale,      \* LastNetwork is more than 60 s old
  ctlStale,      \* LastControl is more than 10 s old
  pc, seen,      \* per thread: where it is, what it read
  refused        \* history: MSTNAK was handled and no login asked for since

session == <<link, authStage, target, remote, userPassword, authPassword,
             options, lastRejected, netStale, ctlStale>>
vars == <<session, pc, seen, refused>>

WaitingStages == {"WaitingLogin", "WaitingAuthorisation", "WaitingConfig",
            "WaitingOptions"}
AuthStages == {"Disconnected", "Running"} \cup WaitingStages

\* Where a thread can be: in beginDMRLogin, in disconnectNetwork, ...
LoginLabels == {"begin", "resolve", "sendLogin"}
DisconnectLabels == {"disconnect", "logout", "clear"}
AnswerLabels ==
  {"accepted", "sendKey", "sendConfig", "sendOptions", "rejected"}

LabelsOf(t) ==
  {"idle"} \cup (IF t = Listener THEN {} ELSE LoginLabels)
           \cup (IF t \in Commands \cup {Listener} THEN DisconnectLabels
                 ELSE {})
           \cup (IF t = Listener THEN AnswerLabels ELSE {})
           \cup (IF t = Ticker THEN {"ping"} ELSE {})
           \cup (IF t = Supervisor THEN {"configure"} ELSE {})
Labels == {"idle", "ping", "configure"} \cup LoginLabels \cup DisconnectLabels
            \cup AnswerLabels

Nothing == [target |-> None, password |-> None, stage |-> "Disconnected",
            options |-> FALSE]
Seen == [target : Targets \cup {None}, password : Passwords \cup {None},
         stage : AuthStages, options : BOOLEAN]

SessionType ==
  /\ link \in BOOLEAN
  /\ authStage \in AuthStages
  /\ target \in Targets \cup {None}
  /\ remote \in Targets \cup {None}
  /\ userPassword \in Passwords \cup {None}
  /\ authPassword \in Passwords \cup {None, MasterPassword}
  /\ options \in BOOLEAN
  /\ lastRejected \in BOOLEAN
  /\ netStale \in BOOLEAN /\ ctlStale \in BOOLEAN
  /\ refused \in BOOLEAN

ThreadType ==
  /\ pc \in [Threads -> Labels]
  /\ \A t \in Threads : pc[t] \in LabelsOf(t)
  /\ seen \in [Threads -> Seen]

\* Every field holds a value of its type, and every goroutine is in code it
\* can run: only the listener answers packets, and it never logs in itself.
TypeOK == SessionType /\ ThreadType

Init ==
  /\ link = FALSE /\ authStage = "Disconnected"
  /\ target = None /\ remote = None
  /\ userPassword = None /\ authPassword = None
  /\ options = FALSE
  /\ lastRejected = FALSE
  /\ netStale = TRUE /\ ctlStale = TRUE
  /\ pc = [t \in Threads |-> "idle"]
  /\ seen = [t \in Threads |-> Nothing]
  /\ refused = FALSE

At(t, label) == pc[t] = label
Go(t, label) == pc' = [pc EXCEPT ![t] = label]
\* Local variables that are not read again are reset, to keep the state small.
Forget(t) == seen' = [seen EXCEPT ![t] = Nothing]
Finish(t) == Go(t, "idle") /\ Forget(t)

-----------------------------------------------------------------------------
(* writeNetworkPacket: nothing is sent, and LastControl keeps its value,   *)
(* when the session has no remote address.                                 *)

WritePacket ==
  /\ ctlStale' = (ctlStale /\ remote = None)
  /\ UNCHANGED <<link, authStage, target, remote, userPassword, authPassword,
                 options, lastRejected, netStale, refused>>

-----------------------------------------------------------------------------
(* beginDMRLogin: read the session; look the master up in a file and in    *)
(* the DNS without the lock; lock again and go on only if the session is   *)
(* still linked to the same target; then send RPTL.                        *)

BeginRead(t) ==
  /\ At(t, "begin")
  /\ seen' = [seen EXCEPT ![t] = [@ EXCEPT !.target = target,
                                           !.password = userPassword]]
  /\ Go(t, "resolve")
  /\ UNCHANGED <<session, refused>>

\* Fault: the error paths forget to clear LinkActive.
BeginFail_KeepsLink(t) ==
  /\ At(t, "resolve")
  /\ authStage' = "Disconnected"
  /\ Finish(t)
  /\ UNCHANGED <<link, target, remote, userPassword, authPassword, options,
                 lastRejected, netStale, ctlStale, refused>>

\* A missing host entry, an incomplete identity, no password, no address.
BeginFail(t) ==
  /\ At(t, "resolve")
  /\ link' = FALSE
  /\ authStage' = "Disconnected"
  /\ Finish(t)
  /\ UNCHANGED <<target, remote, userPassword, authPassword, options,
                 lastRejected, netStale, ctlStale, refused>>

LoginPassword(t) ==
  IF seen[t].target \in UserTargets THEN seen[t].password ELSE MasterPassword

BeginAbandon(t) ==
  /\ At(t, "resolve")
  /\ LoginPassword(t) # None
  /\ target # seen[t].target \/ ~link
  /\ Finish(t)
  /\ UNCHANGED <<session, refused>>

\* Fault: after the name lookup only the target is looked at again.
BeginCommit_TargetOnly(t) ==
  /\ At(t, "resolve")
  /\ LoginPassword(t) # None
  /\ target = seen[t].target
  /\ authPassword' = LoginPassword(t)
  /\ remote' = seen[t].target
  /\ authStage' = "WaitingLogin"
  /\ netStale' = FALSE
  /\ Go(t, "sendLogin") /\ Forget(t)
  /\ UNCHANGED <<link, target, userPassword, options, lastRejected, ctlStale,
                 refused>>

BeginCommit(t) ==
  /\ At(t, "resolve")
  /\ LoginPassword(t) # None
  /\ target = seen[t].target /\ link
  /\ authPassword' = LoginPassword(t)
  /\ remote' = seen[t].target
  /\ authStage' = "WaitingLogin"
  /\ netStale' = FALSE
  /\ Go(t, "sendLogin") /\ Forget(t)
  /\ UNCHANGED <<link, target, userPassword, options, lastRejected, ctlStale,
                 refused>>

SendLogin(t) ==
  /\ At(t, "sendLogin")
  /\ WritePacket
  /\ Finish(t)

-----------------------------------------------------------------------------
(* disconnectNetwork: by a command, by a stop of the conference, or by the *)
(* listener when the master closes the connection.                         *)

DisconnectRead(t) ==
  /\ At(t, "disconnect")
  /\ Go(t, IF authStage = "Running" THEN "logout" ELSE "clear")
  /\ UNCHANGED <<session, seen, refused>>

SendLogout(t) ==
  /\ At(t, "logout")
  /\ WritePacket
  /\ Go(t, "clear")
  /\ UNCHANGED seen

DisconnectClear(t) ==
  /\ At(t, "clear")
  /\ link' = FALSE
  /\ authStage' = "Disconnected"
  /\ remote' = None
  /\ userPassword' = None
  /\ authPassword' = None
  /\ Finish(t)
  /\ UNCHANGED <<target, options, lastRejected, netStale, ctlStale, refused>>

-----------------------------------------------------------------------------
(* Operator commands: the two halves of node_state in handleWS.            *)

ConnectCommand(c, name, password, opts) ==
  /\ At(c, "idle")
  /\ target' = name
  /\ userPassword' = password
  /\ options' = opts
  /\ link' = TRUE
  /\ Go(c, "begin")
  /\ refused' = FALSE
  /\ UNCHANGED <<authStage, remote, authPassword, lastRejected, netStale,
                 ctlStale, seen>>

DisconnectCommand(c) ==
  /\ At(c, "idle")
  /\ Go(c, "disconnect")
  /\ UNCHANGED <<session, seen, refused>>

-----------------------------------------------------------------------------
(* configureYorkshireSession, which the supervisor calls for its leg every *)
(* 30 seconds.                                                             *)

Ready == link /\ target = ConfTarget /\ options = ConfOptions
RecentRejection ==
  ~link /\ authStage = "Disconnected" /\ lastRejected

ConfigureRead ==
  /\ At(Supervisor, "idle")
  /\ ~Ready /\ ~RecentRejection
  /\ Go(Supervisor, "configure")
  /\ UNCHANGED <<session, seen, refused>>

ConfigureWrite ==
  /\ At(Supervisor, "configure")
  /\ target' = ConfTarget
  /\ userPassword' = ConfPassword
  /\ options' = ConfOptions
  /\ link' = TRUE
  /\ Go(Supervisor, "begin")
  /\ refused' = FALSE
  /\ UNCHANGED <<authStage, remote, authPassword, lastRejected, netStale,
                 ctlStale, seen>>

-----------------------------------------------------------------------------
(* handleDMRControl, run by the listener for a packet whose source is the  *)
(* session's remote address.                                               *)

FromMaster == At(Listener, "idle") /\ remote # None

\* RPTACK or MSTACK; the first one must carry the four bytes of the salt.
ReceiveAck(salted) ==
  /\ FromMaster
  /\ netStale' = FALSE
  /\ IF authStage \in WaitingStages /\ (authStage = "WaitingLogin" => salted)
     THEN /\ seen' = [seen EXCEPT ![Listener] =
                        [@ EXCEPT !.stage = authStage,
                                  !.options = options /\
                                              authStage = "WaitingConfig"]]
          /\ Go(Listener, "accepted")
     ELSE UNCHANGED <<seen, pc>>
  /\ UNCHANGED <<link, authStage, target, remote, userPassword, authPassword,
                 options, lastRejected, ctlStale, refused>>

Advance(from, to, next) ==
  /\ At(Listener, "accepted")
  /\ seen[Listener].stage = from
  /\ authStage' = to
  /\ Go(Listener, next) /\ Forget(Listener)
  /\ UNCHANGED <<link, target, remote, userPassword, authPassword, options,
                 lastRejected, netStale, ctlStale, refused>>

AckLogin == Advance("WaitingLogin", "WaitingAuthorisation", "sendKey")
AckKey == Advance("WaitingAuthorisation", "WaitingConfig", "sendConfig")
AckConfig ==
  seen[Listener].options /\ Advance("WaitingConfig", "WaitingOptions",
                                    "sendOptions")

MarkConnected ==
  /\ At(Listener, "accepted")
  /\ \/ seen[Listener].stage = "WaitingConfig" /\ ~seen[Listener].options
     \/ seen[Listener].stage = "WaitingOptions"
  /\ authStage' = "Running"
  /\ netStale' = FALSE
  /\ lastRejected' = FALSE
  /\ Finish(Listener)
  /\ UNCHANGED <<link, target, remote, userPassword, authPassword, options,
                 ctlStale, refused>>

SendReply(label) ==
  /\ At(Listener, label)
  /\ WritePacket
  /\ Finish(Listener)

SendKey == SendReply("sendKey")
SendConfig == SendReply("sendConfig")
SendOptions == SendReply("sendOptions")

\* MSTNAK
ReceiveNak ==
  /\ FromMaster
  /\ Go(Listener, "rejected")
  /\ UNCHANGED <<session, seen, refused>>

Reject ==
  /\ At(Listener, "rejected")
  /\ link' = FALSE
  /\ authStage' = "Disconnected"
  /\ lastRejected' = TRUE
  /\ userPassword' = None
  /\ authPassword' = None
  /\ refused' = TRUE
  /\ Finish(Listener)
  /\ UNCHANGED <<target, remote, options, netStale, ctlStale>>

ReceivePong ==
  /\ FromMaster
  /\ netStale' = FALSE
  /\ UNCHANGED <<link, authStage, target, remote, userPassword, authPassword,
                 options, lastRejected, ctlStale, pc, seen, refused>>

\* Fault: the listener reconnects when the master closes the connection.
ReceiveClose_Reconnects ==
  /\ FromMaster
  /\ Go(Listener, "begin")
  /\ UNCHANGED <<session, seen, refused>>

\* MSTCL
ReceiveClose ==
  /\ FromMaster
  /\ Go(Listener, "disconnect")
  /\ UNCHANGED <<session, seen, refused>>

-----------------------------------------------------------------------------
(* maintainDMRConnection: one look at the session every two seconds.       *)

\* Fault: only an unanswered RPTL is retried.
TickLogin_FirstStageOnly ==
  /\ At(Ticker, "idle")
  /\ link
  /\ \/ authStage = "Running" /\ netStale
     \/ authStage = "WaitingLogin" /\ ctlStale
  /\ Go(Ticker, "begin")
  /\ UNCHANGED <<session, seen, refused>>

TickLogin ==
  /\ At(Ticker, "idle")
  /\ link
  /\ \/ authStage = "Running" /\ netStale
     \/ authStage \in WaitingStages /\ ctlStale
  /\ Go(Ticker, "begin")
  /\ UNCHANGED <<session, seen, refused>>

TickPing ==
  /\ At(Ticker, "idle")
  /\ link /\ authStage = "Running" /\ ~netStale /\ ctlStale
  /\ Go(Ticker, "ping")
  /\ UNCHANGED <<session, seen, refused>>

PingMaster ==
  /\ At(Ticker, "ping")
  /\ WritePacket
  /\ Finish(Ticker)

-----------------------------------------------------------------------------
(* Time passes.                                                            *)

NetworkAges ==
  /\ ~netStale /\ netStale' = TRUE
  /\ UNCHANGED <<link, authStage, target, remote, userPassword, authPassword,
                 options, lastRejected, ctlStale, pc, seen, refused>>

ControlAges ==
  /\ ~ctlStale /\ ctlStale' = TRUE
  /\ UNCHANGED <<link, authStage, target, remote, userPassword, authPassword,
                 options, lastRejected, netStale, pc, seen, refused>>

RejectionAges ==
  /\ lastRejected /\ lastRejected' = FALSE
  /\ UNCHANGED <<link, authStage, target, remote, userPassword, authPassword,
                 options, netStale, ctlStale, pc, seen, refused>>

-----------------------------------------------------------------------------
BeginStep(t) ==
  BeginRead(t) \/ BeginFail(t) \/ BeginAbandon(t) \/ BeginCommit(t)
    \/ SendLogin(t)
DisconnectStep(t) == DisconnectRead(t) \/ SendLogout(t) \/ DisconnectClear(t)

Command(c) ==
  \/ \E name \in Targets, password \in Passwords \cup {None},
        opts \in LoginOptions : ConnectCommand(c, name, password, opts)
  \/ DisconnectCommand(c)

Listen ==
  \/ \E salted \in BOOLEAN : ReceiveAck(salted)
  \/ ReceiveNak \/ ReceivePong \/ ReceiveClose
Answer ==
  \/ AckLogin \/ AckKey \/ AckConfig \/ MarkConnected
  \/ SendKey \/ SendConfig \/ SendOptions
  \/ Reject

Time == NetworkAges \/ ControlAges \/ RejectionAges

Next ==
  \/ \E c \in Commands : Command(c)
  \/ \E t \in Workers : BeginStep(t)
  \/ \E t \in Commands \cup {Listener} : DisconnectStep(t)
  \/ ConfigureRead \/ ConfigureWrite
  \/ Listen \/ Answer
  \/ TickLogin \/ TickPing \/ PingMaster
  \/ Time

Spec == Init /\ [][Next]_vars

(* The goroutines are scheduled and the clock runs.  Nothing is assumed of *)
(* the masters, the operators or the supervisor.                           *)
Fairness ==
  /\ \A t \in Workers : WF_vars(BeginStep(t))
  /\ \A t \in Commands \cup {Listener} : WF_vars(DisconnectStep(t))
  /\ WF_vars(Answer)
  /\ WF_vars(TickLogin \/ TickPing) /\ WF_vars(PingMaster)
  /\ WF_vars(ControlAges)

FairSpec == Spec /\ Fairness

-----------------------------------------------------------------------------
(* Properties                                                              *)

\* t is on its way to log the session in to its present target.
LoggingIn(t) ==
  \/ At(t, "begin")
  \/ At(t, "resolve") /\ seen[t].target = target

\* A session that is linked (LinkActive) is past authDisconnected and talks
\* to the master its Target names, or a beginDMRLogin for that target is in
\* progress.  The ticker skips sessions in authDisconnected, so a linked
\* session left in that stage would stay "connecting" for ever: the recheck
\* of Target and LinkActive in beginDMRLogin must never give up the last
\* login of a target, whatever commands, retries, rejections and disconnects
\* run at the same time.
LinkedOrLoggingIn ==
  link => \/ authStage # "Disconnected" /\ remote = target
          \/ \E t \in Workers : LoggingIn(t)

\* A rejection stands until somebody logs in again: once MSTNAK has been
\* handled, no late acknowledgement, retry of the ticker or disconnect brings
\* the session out of authDisconnected or links it again.
RejectionStands ==
  refused => ~link /\ authStage = "Disconnected"

\* A login that stays unanswered is sent again and again: the session leaves
\* the waiting stages infinitely often or RPTL is written infinitely often,
\* unless operators go on giving commands, each of which may turn to another
\* master while the login of the last one is on its way.
UnansweredLoginIsRetried ==
  \/ []<>~(link /\ authStage \in WaitingStages)
  \/ []<><<\E t \in Workers : SendLogin(t)>>_vars
  \/ []<><<\E c \in Commands : Command(c)>>_vars
=============================================================================
