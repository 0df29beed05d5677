------------------------------ MODULE DMRLogin ------------------------------
(***************************************************************************)
(* A login across the network to the gateway's own master (LocalMaster).   *)
(* Two programs of the repository are its clients: a session of the        *)
(* gateway (UserSession), which is told to leave and to come back and      *)
(* takes a refusal for final, and the D-STAR bridge (dvxcode, hbp.Client), *)
(* which ends its session on a refusal or on silence and opens another.    *)
(* All acknowledgements look alike, so a client can only count them; a     *)
(* lost packet is repaired by starting over ten seconds later.  DMRSession *)
(* looks inside the session; here each handler is one step.  A third party *)
(* is a crowd of hotspots that leaves the client no part: it shows what    *)
(* they do to each other in a table that is too small for all.             *)
(*                                                                         *)
(* A tick is ten seconds.  The network may lose packets and deliver them   *)
(* in any order, but none stays under way for a whole tick: an answer      *)
(* that comes after the client has started over would be taken for an      *)
(* answer to the new login.  A command or a new session, too, comes when   *)
(* nothing is.                                                             *)
(***************************************************************************)
EXTENDS LocalMaster

CONSTANTS
  Me, Here,           \* the client's repeater number and address
  HasOptions,         \* whether it sends RPTO
  NetworkTicks,       \* the client starts over after 60 s without a packet
  MaxLosses           \* bound on the packets lost

ASSUME PeerAssumption ==
  /\ Me \in Registered /\ Here \in Addresses
  /\ HasOptions \in BOOLEAN
  /\ NetworkTicks \in Nat /\ MaxLosses \in Nat

\* 60 s are less than 90 s, and there is room for more than the client.
ASSUME DeadlineAssumption == NetworkTicks < StaleTicks /\ Capacity > 1

VARIABLES
  party,      \* "session", "dvxcode" or "crowd": who uses the master
  stage,      \* AuthStage; Disconnected is "Rejected" after a MSTNAK and
              \* "Off" after a command or, in dvxcode, after silence
  netAge,     \* since LastNetwork
  quiet,      \* since LastControl, in ticks: 0 or 1
  right,      \* whether the password given with the command is the master's
  net,        \* packets under way
  losses

peer == <<party, stage, netAge, quiet, right>>
loginVars == <<masterVars, peer, net, losses>>

Waiting == {"WaitingLogin", "WaitingAuthorisation", "WaitingConfig",
            "WaitingOptions"}

ToMaster(what, key) == [to |-> "master", what |-> what, key |-> key]
ToPeer(what, salt) == [to |-> "peer", what |-> what, key |-> salt]

LoginInit ==
  /\ MasterInit
  /\ netAge = 0 /\ quiet = 0 /\ losses = 0
  /\ \/ /\ party \in {"session", "dvxcode"} /\ right \in BOOLEAN
        /\ stage = "WaitingLogin"
        /\ net = {ToMaster("RPTL", WrongKey)}
     \/ party = "crowd" /\ right = TRUE /\ stage = "Off" /\ net = {}

Crowd == party = "crowd" /\ MasterNext /\ UNCHANGED <<peer, net, losses>>

-----------------------------------------------------------------------------
(* The master's side                                                       *)

\* A salt that no packet under way was made from.
NewSalt(salt) == \A p \in net : p.key # salt

Serve(p) ==
  /\ p \in net /\ p.to = "master"
  /\ Control
  /\ UNCHANGED <<peer, losses>>
  /\ \E reply \in {"RPTACK", "MSTNAK", "MSTPONG"}, salt \in Salts :
       /\ \/ p.what = "RPTL" /\ NewSalt(salt) /\ Login(Me, Here, salt, reply)
          \/ p.what = "RPTK" /\ Key(Me, Here, p.key, reply)
          \/ p.what = "RPTC" /\ Config(Me, Here, reply)
          \/ p.what = "RPTO" /\ Options(Me, Here, reply)
          \/ p.what = "RPTPING" /\ Ping(Me, Here, reply)
          \/ p.what = "RPTCL" /\ Close(reply)
       /\ net' = (net \ {p}) \cup
                   {ToPeer(reply, IF p.what = "RPTL" THEN salt ELSE WrongKey)}

-----------------------------------------------------------------------------
(* What both clients do: handleDMRControl, and hbp's session             *)

Send(p, packet) == net' = (net \ {p}) \cup {packet} /\ quiet' = 0

\* A session that was told to disconnect has forgotten the master's address;
\* dvxcode closes its socket when a session ends.
Deaf == stage = "Off" \/ (party = "dvxcode" /\ stage = "Rejected")

Heard(p) ==
  /\ p \in net /\ p.to = "peer" /\ ~Deaf
  /\ UNCHANGED <<masterVars, party, right, losses>>

AckOf(p, now, next) ==
  /\ Heard(p) /\ p.what = "RPTACK"
  /\ stage = now /\ stage' = next
  /\ netAge' = 0

LoginAcked(p) ==
  /\ AckOf(p, "WaitingLogin", "WaitingAuthorisation")
  /\ p.key \in Salts
  /\ Send(p, ToMaster("RPTK", IF right THEN p.key ELSE WrongKey))
KeyAcked(p) ==
  /\ AckOf(p, "WaitingAuthorisation", "WaitingConfig")
  /\ Send(p, ToMaster("RPTC", WrongKey))
ConfigAcked(p) ==
  /\ HasOptions
  /\ AckOf(p, "WaitingConfig", "WaitingOptions")
  /\ Send(p, ToMaster("RPTO", WrongKey))
LastAcked(p) ==
  /\ AckOf(p, IF HasOptions THEN "WaitingOptions" ELSE "WaitingConfig", "Running")
  /\ net' = net \ {p} /\ UNCHANGED quiet

Nak(p) ==
  /\ party = "session"
  /\ Heard(p) /\ p.what = "MSTNAK"
  /\ stage' = "Rejected"
  /\ net' = net \ {p}
  /\ UNCHANGED <<netAge, quiet>>

Pong(p) ==
  /\ Heard(p) /\ p.what = "MSTPONG"
  /\ netAge' = 0
  /\ net' = net \ {p}
  /\ UNCHANGED <<stage, quiet>>

-----------------------------------------------------------------------------
(* The session: maintainDMRConnection and the commands                     *)

\* Fault: a linked session only pings, however long nothing has come back.
Timeout_Never == stage \in Waiting

\* Fault: only a link times out, a login does not.
Timeout_LinkOnly == stage = "Running" /\ netAge > NetworkTicks

Timeout == stage \in Waiting \/ (stage = "Running" /\ netAge > NetworkTicks)

\* beginDMRLogin
Begin ==
  /\ stage' = "WaitingLogin"
  /\ netAge' = 0 /\ quiet' = 0
  /\ net' = net \cup {ToMaster("RPTL", WrongKey)}
  /\ UNCHANGED <<masterVars, party, losses>>

\* A login that was not answered, or a link that went quiet.
StartOver ==
  /\ party = "session"
  /\ quiet = 1 /\ Timeout /\ Begin /\ UNCHANGED right

Connect ==
  /\ party = "session"
  /\ stage \in {"Off", "Rejected"} /\ net = {} /\ Begin /\ right' \in BOOLEAN

\* disconnectNetwork, for a command
Leave ==
  /\ party = "session"
  /\ stage \in Waiting \cup {"Running"} /\ net = {}
  /\ stage' = "Off"
  /\ IF stage = "Running"
     THEN net' = {ToMaster("RPTCL", WrongKey)} /\ quiet' = 0
     ELSE UNCHANGED <<net, quiet>>
  /\ UNCHANGED <<masterVars, party, netAge, right, losses>>

-----------------------------------------------------------------------------
(* dvxcode: the rest of hbp's session, and Run                             *)

\* A login that was not answered begins again, in the same session.
Retry ==
  /\ party = "dvxcode"
  /\ quiet = 1 /\ stage \in Waiting /\ netAge <= NetworkTicks
  /\ stage' = "WaitingLogin" /\ quiet' = 0
  /\ net' = net \cup {ToMaster("RPTL", WrongKey)}
  /\ UNCHANGED <<masterVars, party, netAge, right, losses>>

\* A refusal ends the session, which signs off if it was linked.
Refused(p) ==
  /\ party = "dvxcode"
  /\ Heard(p) /\ p.what = "MSTNAK"
  /\ stage' = "Rejected"
  /\ net' = (net \ {p}) \cup
       {q \in {ToMaster("RPTCL", WrongKey)} : stage = "Running"}
  /\ UNCHANGED <<netAge, quiet>>

\* A minute without a packet ends the session, in whatever stage; the retry
\* and the ping of the same turn are still sent.
MasterSilent ==
  /\ party = "dvxcode"
  /\ quiet = 1 /\ stage \in Waiting \cup {"Running"} /\ netAge > NetworkTicks
  /\ stage' = "Off"
  /\ net' = net \cup
       {ToMaster(what, WrongKey) :
          what \in IF stage = "Running" THEN {"RPTPING", "RPTCL"} ELSE {"RPTL"}}
  /\ UNCHANGED <<masterVars, party, netAge, quiet, right, losses>>

\* Fault: silence ends Run.
Reconnect_IfRefused ==
  /\ party = "dvxcode"
  /\ stage = "Rejected" /\ net = {} /\ Begin /\ UNCHANGED right

\* After a refusal or silence Run waits, for two seconds at least, and opens
\* the next session.
Reconnect ==
  /\ party = "dvxcode"
  /\ Deaf /\ net = {} /\ Begin /\ UNCHANGED right

\* Either client pings while it is linked and not about to give up.
SendPing ==
  /\ quiet = 1 /\ stage = "Running"
  /\ IF party = "session" THEN ~Timeout ELSE netAge <= NetworkTicks
  /\ quiet' = 0
  /\ net' = net \cup {ToMaster("RPTPING", WrongKey)}
  /\ UNCHANGED <<masterVars, party, stage, netAge, right, losses>>

-----------------------------------------------------------------------------
\* The network loses a packet, or a client that is off ignores it.
Lose(p) ==
  /\ p \in net
  /\ IF p.to = "peer" /\ Deaf THEN UNCHANGED losses
     ELSE losses < MaxLosses /\ losses' = losses + 1
  /\ net' = net \ {p}
  /\ UNCHANGED <<masterVars, peer>>

Tick ==
  /\ party # "crowd" /\ net = {}
  /\ quiet = 1 => stage \in {"Rejected", "Off"}
  /\ Age
  /\ quiet' = 1
  /\ netAge' = IF netAge > NetworkTicks THEN netAge ELSE netAge + 1
  /\ UNCHANGED <<party, stage, right, net, losses>>

MasterStatus ==
  party # "crowd" /\ Status /\ UNCHANGED <<peer, net, losses>>

Deliver(p) ==
  \/ Serve(p)
  \/ LoginAcked(p) \/ KeyAcked(p) \/ ConfigAcked(p) \/ LastAcked(p)
  \/ Nak(p) \/ Refused(p) \/ Pong(p)

LoginNext ==
  \/ \E p \in net : (Deliver(p) \/ Lose(p))
  \/ StartOver \/ Connect \/ Leave
  \/ Retry \/ MasterSilent \/ Reconnect
  \/ SendPing \/ Tick \/ MasterStatus \/ Crowd

LoginSpec == LoginInit /\ [][LoginNext]_loginVars

FairLoginSpec ==
  /\ LoginSpec
  /\ WF_loginVars(\E p \in net : (Deliver(p) \/ Lose(p)))
  /\ WF_loginVars(StartOver) /\ WF_loginVars(SendPing) /\ WF_loginVars(Tick)
  /\ WF_loginVars(Retry) /\ WF_loginVars(MasterSilent) /\ WF_loginVars(Reconnect)

-----------------------------------------------------------------------------
\* A client with the right password is never told that it is wrong, however
\* many packets are lost and whenever the status page is looked at.
RightKeyAccepted == stage = "Rejected" => ~right

\* The two sides agree: what the client counts as linked the master will
\* serve, and has not given up.
Agreement ==
  stage = "Running" => Live(Me) /\ clients[Me].stage = "Running"

\* README.md:169: a session that signs off is not retained by the master once
\* its RPTCL has arrived.
SignOffReleases ==
  [][(\E p \in net \ net' : p.what = "RPTCL") /\ losses' = losses
       => Me \notin DOMAIN clients']_loginVars

\* When packets stop getting lost, a login with the right password leads to a
\* link, unless it is called off.  dvxcode is never called off: whatever its
\* session ended for, it is linked again.
LoginCompletes ==
  /\ party = "session" /\ stage \in Waiting /\ right
       ~> stage \in {"Running", "Off"}
  /\ party = "dvxcode" /\ right ~> stage = "Running"
=============================================================================
