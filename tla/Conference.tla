----------------------------- MODULE Conference -----------------------------
(***************************************************************************)
(* The supervised Yorkshire conference of gateway.go: the goroutine that   *)
(* restores it every 30 s, the control handler's stop, permanent and       *)
(* start, and the safety timer of a temporary session.  Each of them runs  *)
(* stopYorkshireConference and ensurePermanentYorkshireConference step by  *)
(* step, and nothing keeps two of them apart: conferenceMu and bridgeMu    *)
(* protect single assignments.  An action is one assignment, file          *)
(* operation or systemctl call.                                            *)
(*                                                                         *)
(* How a leg logs in is DMRSession's matter: here a leg is logging in or   *)
(* linked ("up"), or not, or was rejected less than five minutes ago.      *)
(***************************************************************************)
EXTENDS Integers, FiniteSets

CONSTANTS
  Handlers,      \* requests that can be under way at once
  Timers, NoTimer,
  Nodes,          \* nodes 1, 2 and 4
  Commands,      \* the commands that are given
  MaxEvents      \* bound: commands, faults and restarts together

Supervisor == "supervisor"
Procs == Handlers \cup Timers \cup {Supervisor}

ASSUME ConferenceAssumption ==
  /\ Nodes \subseteq Nat /\ IsFiniteSet(Nodes)
  /\ Handlers \cap Timers = {} /\ Supervisor \notin Handlers \cup Timers
  /\ NoTimer \notin Timers
  /\ Commands \subseteq {"stop", "permanent", "start", "bridge"}

VARIABLES
  mem,      \* conferencePermanent, what g.bridge is, and conferenceTimer
  legs,
  disk,     \* outlives the program: whether yorkshire-conference.json exists and
            \* says "enabled", the paused file, ysf2dmr-runtime.ini, and the
            \* configuration ysf2dmr.service runs with, if it runs
  run,      \* per process: its next step, the request, legs to go through
  events,   \* commands, faults and restarts so far
  lapsed    \* history: a restart, or a systemctl stop that failed

vars == <<mem, legs, disk, run, events, lapsed>>

Labels == {"idle", "armed", "unpause",
           "flag", "pause", "cancel", "route", "legs", "service", "config",
           "load", "write", "start", "login", "install", "declare",
           "temporary write", "temporary start", "temporary undo", "arm"}
Requests == {"none", "stop", "permanent", "start", "expire", "supervise"}

TypeOK ==
  /\ mem \in [permanent : BOOLEAN, timer : Timers \cup {NoTimer},
              route : {"none", "conference", "operators"}]
  /\ legs \in [Nodes -> {"up", "down", "rejected"}]
  /\ disk \in [enabled : BOOLEAN, paused : BOOLEAN, config : {"none", "permanent", "temporary"},
               service : {"off", "permanent", "temporary"}]
  /\ run \in [Procs -> [at : Labels, for : Requests, left : SUBSET Nodes]]
  /\ events \in 0 .. MaxEvents
  /\ lapsed \in BOOLEAN

Idle == [at |-> "idle", for |-> "none", left |-> {}]
Boot == [permanent |-> FALSE, route |-> "none", timer |-> NoTimer]

Init ==
  /\ mem = Boot
  /\ legs = [n \in Nodes |-> "down"]
  /\ disk \in [enabled : BOOLEAN, paused : {FALSE}, config : {"none"}, service : {"off"}]
  /\ run = [p \in Procs |-> Idle]
  /\ events = 0
  /\ lapsed = FALSE

-----------------------------------------------------------------------------
At(p, label) == run[p].at = label
Turn(p, from, to) == At(p, from) /\ run' = [run EXCEPT ![p].at = to]
Return(p, from) == At(p, from) /\ run' = [run EXCEPT ![p] = Idle]
Begin(p, from, request, to) ==
  At(p, from) /\ run' = [run EXCEPT ![p] = [at |-> to, for |-> request, left |-> {}]]

\* A command, a call that fails, or a restart.
Event == events < MaxEvents /\ events' = events + 1

Command(p, request) ==
  /\ Event
  /\ Begin(p, "idle", request, IF request = "permanent" THEN "unpause" ELSE "flag")
  /\ UNCHANGED <<mem, legs, disk, lapsed>>

\* bridge_state switches the bridge off or installs another route.
BridgeCommand ==
  /\ Event
  /\ \E route \in {"none", "operators"} : mem' = [mem EXCEPT !.route = route]
  /\ UNCHANGED <<legs, disk, run, lapsed>>

\* The supervisor acts if the conference is enabled and not paused now, or
\* sleeps for another 30 s.
Look ==
  /\ IF disk.enabled /\ ~disk.paused THEN Begin(Supervisor, "idle", "supervise", "load")
     ELSE At(Supervisor, "idle") /\ UNCHANGED run
  /\ UNCHANGED <<mem, legs, disk, events, lapsed>>

\* A timer that went off can not be stopped any more.
Expire(t) ==
  /\ Begin(t, "armed", "expire", "flag")
  /\ UNCHANGED <<mem, legs, disk, events, lapsed>>

\* "permanent" removes the paused file first.
Unpause(p) ==
  /\ Turn(p, "unpause", "flag")
  /\ disk' = [disk EXCEPT !.paused = FALSE]
  /\ UNCHANGED <<mem, legs, events, lapsed>>

-----------------------------------------------------------------------------
(* stopYorkshireConference                                                 *)

StopFlag(p) ==
  /\ Turn(p, "flag", IF run[p].for = "permanent" THEN "cancel" ELSE "pause")
  /\ mem' = [mem EXCEPT !.permanent = FALSE]
  /\ UNCHANGED <<legs, disk, events, lapsed>>

\* The error of os.WriteFile is dropped.
StopPause(p) ==
  /\ Turn(p, "pause", "cancel")
  /\ \/ disk' = [disk EXCEPT !.paused = TRUE] /\ UNCHANGED events
     \/ Event /\ UNCHANGED disk
  /\ UNCHANGED <<mem, legs, lapsed>>

\* timer.Stop() has no effect on a timer that went off.
StopCancel(p) ==
  /\ At(p, "cancel")
  /\ mem' = [mem EXCEPT !.timer = NoTimer]
  /\ run' = [q \in Procs |->
               IF q = p THEN [run[p] EXCEPT !.at = "route"]
               ELSE IF q = mem.timer /\ At(q, "armed") THEN Idle ELSE run[q]]
  /\ UNCHANGED <<legs, disk, events, lapsed>>

StopRoute(p) ==
  /\ At(p, "route")
  /\ mem' = [mem EXCEPT !.route = "none"]
  /\ run' = [run EXCEPT ![p].at = "legs", ![p].left = Nodes]
  /\ UNCHANGED <<legs, disk, events, lapsed>>

First(s) == CHOOSE n \in s : \A m \in s : n <= m
NextLeg(p) == First(run[p].left)
LegDone(p) == run' = [run EXCEPT ![p].left = @ \ {NextLeg(p)}]

\* disconnectNetwork, leg by leg; a rejection is not forgotten.
StopLeg(p) ==
  /\ At(p, "legs")
  /\ \/ /\ run[p].left # {} /\ LegDone(p)
        /\ legs' = [legs EXCEPT ![NextLeg(p)] = IF @ = "up" THEN "down" ELSE @]
     \/ /\ run[p].left = {} /\ Turn(p, "legs", "service")
        /\ UNCHANGED legs
  /\ UNCHANGED <<mem, disk, events, lapsed>>

\* Fault: the service is not stopped when there is no route.
StopService_IfRouted(p) ==
  /\ Turn(p, "service", "config")
  /\ disk' = [disk EXCEPT !.service = IF mem.route = "none" THEN @ ELSE "off"]
  /\ UNCHANGED <<mem, legs, events, lapsed>>

\* The error of systemctl stop is dropped.
StopService(p) ==
  /\ Turn(p, "service", "config")
  /\ \/ disk' = [disk EXCEPT !.service = "off"] /\ UNCHANGED <<events, lapsed>>
     \/ Event /\ lapsed' = TRUE /\ UNCHANGED disk
  /\ UNCHANGED <<mem, legs>>

StopConfig(p) ==
  /\ CASE run[p].for = "permanent" -> Turn(p, "config", "load")
       [] run[p].for = "start" -> Turn(p, "config", "temporary write")
       [] OTHER -> Return(p, "config")
  /\ disk' = [disk EXCEPT !.config = "none"]
  /\ UNCHANGED <<mem, legs, events, lapsed>>

-----------------------------------------------------------------------------
(* ensurePermanentYorkshireConference; and "start", after the stop         *)

EnsureLoad(p) ==
  /\ IF disk.enabled THEN Turn(p, "load", "write") ELSE Return(p, "load")
  /\ UNCHANGED <<mem, legs, disk, events, lapsed>>

WriteConfig(p, from, to, contents) ==
  /\ \/ Turn(p, from, to) /\ disk' = [disk EXCEPT !.config = contents]
        /\ UNCHANGED events
     \/ Return(p, from) /\ Event /\ UNCHANGED disk
  /\ UNCHANGED <<mem, legs, lapsed>>

\* systemctl start: a service that is down reads what configuration there is
\* now, and fails without.
StartService ==
  /\ disk.service # "off" \/ disk.config # "none"
  /\ disk' = [disk EXCEPT !.service = IF @ = "off" THEN disk.config ELSE @]
  /\ UNCHANGED events

StartFails ==
  /\ disk.service = "off"
  /\ \/ disk.config = "none" /\ UNCHANGED events
     \/ Event
  /\ UNCHANGED disk

EnsureWrite(p) == WriteConfig(p, "write", "start", "permanent")

EnsureStart(p) ==
  /\ At(p, "start")
  /\ \/ StartService /\ run' = [run EXCEPT ![p].at = "login", ![p].left = Nodes]
     \/ StartFails /\ Return(p, "start")
  /\ UNCHANGED <<mem, legs, lapsed>>

\* configureYorkshireSession: a leg that is up or was rejected is left alone;
\* a login that can not be begun leaves it down and is not an error; a
\* missing socket is one.
EnsureLogin(p) ==
  /\ At(p, "login") /\ run[p].left # {}
  /\ \/ /\ legs' = [legs EXCEPT ![NextLeg(p)] = IF @ = "rejected" THEN @ ELSE "up"]
        /\ LegDone(p) /\ UNCHANGED events
     \/ /\ legs[NextLeg(p)] = "down" /\ Event
        /\ LegDone(p) \/ Return(p, "login")
        /\ UNCHANGED legs
  /\ UNCHANGED <<mem, disk, lapsed>>

EnsureLoginDone(p) ==
  /\ run[p].left = {} /\ Turn(p, "login", "install")
  /\ UNCHANGED <<mem, legs, disk, events, lapsed>>

\* Fault: any active route is taken for the conference's.
EnsureRoute_AnyActive(p) ==
  /\ Turn(p, "install", "declare")
  /\ mem' = [mem EXCEPT !.route = IF @ = "none" THEN "conference" ELSE @]
  /\ UNCHANGED <<legs, disk, events, lapsed>>

EnsureRoute(p) ==
  /\ Turn(p, "install", "declare")
  /\ mem' = [mem EXCEPT !.route = "conference"]
  /\ UNCHANGED <<legs, disk, events, lapsed>>

EnsureDeclare(p) ==
  /\ Return(p, "declare")
  /\ mem' = [mem EXCEPT !.permanent = TRUE]
  /\ UNCHANGED <<legs, disk, events, lapsed>>

TemporaryWrite(p) ==
  WriteConfig(p, "temporary write", "temporary start", "temporary")

TemporaryStart(p) ==
  /\ \/ StartService /\ Turn(p, "temporary start", "arm")
     \/ StartFails /\ Turn(p, "temporary start", "temporary undo")
  /\ UNCHANGED <<mem, legs, lapsed>>

TemporaryUndo(p) ==
  /\ Return(p, "temporary undo")
  /\ disk' = [disk EXCEPT !.config = "none"]
  /\ UNCHANGED <<mem, legs, events, lapsed>>

\* A timer armed before by another request goes on, out of sight.
Arm(p) ==
  /\ At(p, "arm")
  /\ \E t \in Timers :
       /\ At(t, "idle")
       /\ mem' = [mem EXCEPT !.timer = t]
       /\ run' = [run EXCEPT ![p] = Idle, ![t].at = "armed"]
  /\ UNCHANGED <<legs, disk, events, lapsed>>

-----------------------------------------------------------------------------
(* Masters and restarts                                                    *)

Reject(n) ==
  /\ legs[n] = "up"
  /\ Event
  /\ legs' = [legs EXCEPT ![n] = "rejected"]
  /\ UNCHANGED <<mem, disk, run, lapsed>>

\* Five minutes have passed.
RejectionAges(n) ==
  /\ legs[n] = "rejected"
  /\ legs' = [legs EXCEPT ![n] = "down"]
  /\ UNCHANGED <<mem, disk, run, events, lapsed>>

\* The program ends, at any step, and is started again.
Restart ==
  /\ Event
  /\ lapsed' = TRUE
  /\ mem' = Boot
  /\ legs' = [n \in Nodes |-> "down"]
  /\ run' = [p \in Procs |-> Idle]
  /\ UNCHANGED disk

Step(p) ==
  \/ Unpause(p)
  \/ StopFlag(p) \/ StopPause(p) \/ StopCancel(p) \/ StopRoute(p)
  \/ StopLeg(p) \/ StopService(p) \/ StopConfig(p)
  \/ EnsureLoad(p) \/ EnsureWrite(p) \/ EnsureStart(p)
  \/ EnsureLogin(p) \/ EnsureLoginDone(p) \/ EnsureRoute(p) \/ EnsureDeclare(p)
  \/ TemporaryWrite(p) \/ TemporaryStart(p) \/ TemporaryUndo(p) \/ Arm(p)

Next ==
  \/ \E p \in Handlers, request \in Commands \ {"bridge"} : Command(p, request)
  \/ "bridge" \in Commands /\ BridgeCommand
  \/ Look
  \/ \E t \in Timers : Expire(t)
  \/ \E p \in Procs : Step(p)
  \/ \E n \in Nodes : Reject(n) \/ RejectionAges(n)
  \/ Restart

Spec == Init /\ [][Next]_vars

\* The supervisor's loop, requests under way and armed timers go on, and
\* rejections grow old.  No request need ever be made.
FairSpec ==
  /\ Spec
  /\ WF_vars(Look)
  /\ \A p \in Procs : WF_vars(Step(p))
  /\ \A t \in Timers : WF_vars(Expire(t))
  /\ \A n \in Nodes : WF_vars(RejectionAges(n))

-----------------------------------------------------------------------------
(* Properties                                                              *)

\* A converter started for a temporary session never runs without anybody to
\* stop it: its safety timer is running, or a request that will arm one or
\* stop the service is under way.  After a restart, when systemctl stop failed,
\* or while the permanent conference is enabled it may: the supervisor starts
\* the service with whatever configuration there is.
TemporarySupervised ==
  disk.service = "temporary" /\ ~lapsed /\ ~disk.enabled =>
    \E p \in Procs :
      run[p].at \in {"armed", "temporary start", "arm", "flag", "pause",
                     "cancel", "route", "legs", "service"}

Up ==
  /\ mem.permanent /\ mem.route = "conference" /\ disk.service # "off"
  /\ \A n \in Nodes : legs[n] = "up"

\* README: "the supervisor restores the YSF2DMR service, the three DMR logins,
\* and the protected one-talker bridge route after restarts".  Once nobody
\* interferes any more an enabled conference is paused or it is up, and stays
\* so.
Restores == disk.enabled => <>[]disk.paused \/ <>[]Up
=============================================================================
