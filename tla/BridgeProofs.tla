---------------------------- MODULE BridgeProofs -----------------------------
(***************************************************************************)
(* Proofs about the permanent conference: its supervisor (Conference), for *)
(* any number of requests under way, timers, nodes, commands and faults;   *)
(* and the bridge that carries it (BridgeRoute and BridgeLoop).  The       *)
(* single-talker arbitration holds for any number of legs, any routes and  *)
(* any deadlines with SendTicks < HoldTicks, and nothing is bridged twice  *)
(* if what comes back does so within the deadlines (EchoAssumption).       *)
(***************************************************************************)
EXTENDS Conference, BridgeLoop, TLAPS

-----------------------------------------------------------------------------
(* The supervisor                                                          *)

\* The steps of those that will arm the safety timer or stop the service, and
\* of the timer itself.
Watching == {"armed", "temporary start", "arm", "flag", "pause", "cancel",
             "route", "legs", "service"}

Process == [at : Labels, for : Requests, left : SUBSET Nodes]
Disk == [enabled : BOOLEAN, paused : BOOLEAN, config : {"none", "permanent", "temporary"},
         service : {"off", "permanent", "temporary"}]

Unwatched == disk.service = "temporary" /\ ~lapsed /\ ~disk.enabled

\* While the conference is not enabled nobody is about to start the service as
\* the permanent one: that start would run a temporary configuration.
ConferenceInv ==
  /\ run \in [Procs -> Process] /\ disk \in Disk /\ lapsed \in BOOLEAN
  /\ ~disk.enabled => \A p \in Procs : run[p].at \notin {"write", "start"}
  /\ Unwatched => \E p \in Procs : run[p].at \in Watching

\* One process takes a step.  It does not leave the service without a watch: it
\* goes on watching, or it was not the one that did.
LEMMA OneSteps ==
  ASSUME ConferenceInv, NEW p \in Procs, NEW new \in Process,
         run' = [run EXCEPT ![p] = new],
         disk' \in Disk, disk'.enabled = disk.enabled,
         lapsed' \in BOOLEAN, lapsed => lapsed',
         ~disk.enabled => new.at \notin {"write", "start"},
         Unwatched' => \/ new.at \in Watching
                       \/ Unwatched /\ run[p].at \notin Watching
  PROVE  ConferenceInv'
<1>1. /\ run' \in [Procs -> Process] /\ run'[p] = new
      /\ \A q \in Procs \ {p} : run'[q] = run[q]
  BY DEF ConferenceInv
<1>2. ~disk'.enabled => \A q \in Procs : run'[q].at \notin {"write", "start"}
  BY <1>1 DEF ConferenceInv
<1>3. ASSUME Unwatched' PROVE \E q \in Procs : run'[q].at \in Watching
  <2>1. CASE new.at \in Watching
    BY <1>1, <2>1
  <2>2. CASE Unwatched /\ run[p].at \notin Watching
    <3>1. PICK q \in Procs : run[q].at \in Watching
      BY <2>2 DEF ConferenceInv
    <3> QED
      BY <1>1, <2>2, <3>1
  <2> QED
    BY <1>3, <2>1, <2>2
<1> QED
  BY <1>1, <1>2, <1>3 DEF ConferenceInv

LEMMA LeftIs ==
  ASSUME NEW r \in Process, NEW rest
  PROVE  [r EXCEPT !.left = rest] = [at |-> r.at, for |-> r.for, left |-> rest]
BY DEF Process

LEMMA AtLeftIs ==
  ASSUME NEW r \in Process, NEW to, NEW rest
  PROVE  [[r EXCEPT !.at = to] EXCEPT !.left = rest]
           = [at |-> to, for |-> r.for, left |-> rest]
<1>1. [r EXCEPT !.at = to] = [at |-> to, for |-> r.for, left |-> r.left]
  BY DEF Process
<1> DEFINE moved == [at |-> to, for |-> r.for, left |-> r.left]
<1>2. [moved EXCEPT !.left = rest] = [at |-> to, for |-> r.for, left |-> rest]
  OBVIOUS
<1> QED
  BY <1>1, <1>2

\* A step that changes nothing of the service, and to whom it leads.
LEMMA OneMoves ==
  ASSUME ConferenceInv, NEW p \in Procs, NEW to \in Labels,
         NEW for \in Requests, NEW left \in SUBSET Nodes,
         run' = [run EXCEPT ![p] = [at |-> to, for |-> for, left |-> left]],
         disk' \in Disk, disk'.enabled = disk.enabled, disk'.service = disk.service,
         UNCHANGED lapsed,
         ~disk.enabled => to \notin {"write", "start"},
         run[p].at \in Watching => to \in Watching
  PROVE  ConferenceInv'
<1> DEFINE new == [at |-> to, for |-> for, left |-> left]
<1>1. new \in Process /\ new.at = to
  BY DEF Process
<1>2. Unwatched' => Unwatched
  BY DEF Unwatched
<1> QED
  BY <1>1, <1>2, OneSteps DEF ConferenceInv

\* The steps' common form.
LEMMA TurnIs ==
  ASSUME ConferenceInv, NEW p \in Procs, NEW from, NEW to, Turn(p, from, to)
  PROVE  /\ run[p].at = from /\ run[p] \in Process
         /\ run' = [run EXCEPT ![p] = [at |-> to, for |-> run[p].for, left |-> run[p].left]]
<1>1. run \in [Procs -> Process]
  BY DEF ConferenceInv
<1>2. [run[p] EXCEPT !.at = to] = [at |-> to, for |-> run[p].for, left |-> run[p].left]
  BY <1>1 DEF Process
<1> QED
  BY <1>1, <1>2 DEF Turn, At

LEMMA TurnKeeps ==
  ASSUME ConferenceInv, NEW p \in Procs, NEW from, NEW to \in Labels, Turn(p, from, to),
         disk' \in Disk, disk'.enabled = disk.enabled, disk'.service = disk.service,
         UNCHANGED lapsed,
         ~disk.enabled => to \notin {"write", "start"},
         from \in Watching => to \in Watching
  PROVE  ConferenceInv'
<1>1. /\ run[p].at = from /\ run[p] \in Process
      /\ run' = [run EXCEPT ![p] = [at |-> to, for |-> run[p].for, left |-> run[p].left]]
  BY TurnIs
<1>2. run[p].for \in Requests /\ run[p].left \in SUBSET Nodes
  BY <1>1 DEF Process
<1> QED
  BY <1>1, <1>2, OneMoves

LEMMA ReturnKeeps ==
  ASSUME ConferenceInv, NEW p \in Procs, NEW from, Return(p, from), from \notin Watching,
         disk' \in Disk, disk'.enabled = disk.enabled, disk'.service = disk.service,
         UNCHANGED lapsed
  PROVE  ConferenceInv'
<1>1. /\ run[p].at = from
      /\ run' = [run EXCEPT ![p] = [at |-> "idle", for |-> "none", left |-> {}]]
  BY DEF Return, At, Idle
<1>2. "idle" \in Labels /\ "none" \in Requests /\ {} \in SUBSET Nodes
  BY DEF Labels, Requests
<1> QED
  BY <1>1, <1>2, OneMoves

\* A request is made, the supervisor looks, and the timer goes off.
LEMMA BeginKeeps ==
  ASSUME ConferenceInv, NEW p \in Procs, NEW from, NEW request \in Requests,
         NEW to \in Labels, Begin(p, from, request, to), UNCHANGED <<disk, lapsed>>,
         to \notin {"write", "start"}, from \in Watching => to \in Watching
  PROVE  ConferenceInv'
<1>1. /\ run[p].at = from
      /\ run' = [run EXCEPT ![p] = [at |-> to, for |-> request, left |-> {}]]
  BY DEF Begin, At
<1>2. /\ disk' \in Disk /\ disk'.enabled = disk.enabled /\ disk'.service = disk.service
      /\ {} \in SUBSET Nodes
  BY DEF ConferenceInv
<1> QED
  BY <1>1, <1>2, OneMoves

-----------------------------------------------------------------------------
(* The stop                                                                *)

LEMMA CancelKeeps ==
  ASSUME ConferenceInv, NEW p \in Procs, StopCancel(p)
  PROVE  ConferenceInv'
<1>1. /\ run[p].at = "cancel" /\ UNCHANGED <<disk, lapsed>>
      /\ run' = [q \in Procs |->
                   IF q = p THEN [run[p] EXCEPT !.at = "route"]
                   ELSE IF q = mem.timer /\ At(q, "armed") THEN Idle ELSE run[q]]
      /\ run \in [Procs -> Process]
  BY DEF StopCancel, At, ConferenceInv
<1>2. run'[p] \in Process /\ run'[p].at = "route"
  BY <1>1 DEF Process, Labels
<1>3. \A q \in Procs : run'[q] \in Process
  BY <1>1, <1>2 DEF Process, Labels, Requests, Idle
<1>4. run' \in [Procs -> Process]
  BY <1>1, <1>3
<1>5. ~disk.enabled => \A q \in Procs : run'[q].at \notin {"write", "start"}
  <2> SUFFICES ASSUME ~disk.enabled, NEW q \in Procs PROVE run'[q].at \notin {"write", "start"}
    OBVIOUS
  <2>1. run'[q].at \in {"route", "idle", run[q].at}
    BY <1>1, <1>2 DEF Idle
  <2> QED
    BY <2>1 DEF ConferenceInv
<1>6. \E q \in Procs : run'[q].at \in Watching
  BY <1>2 DEF Watching
<1> QED
  BY <1>1, <1>4, <1>5, <1>6 DEF ConferenceInv

LEMMA StopKeeps ==
  ASSUME ConferenceInv, NEW p \in Procs,
         \/ Unpause(p) \/ StopFlag(p) \/ StopPause(p) \/ StopRoute(p) \/ StopLeg(p)
         \/ StopService(p) \/ StopConfig(p)
  PROVE  ConferenceInv'
<1>0. /\ run \in [Procs -> Process] /\ disk \in Disk /\ lapsed \in BOOLEAN
      /\ run[p] \in Process
  BY DEF ConferenceInv
<1>1. CASE Unpause(p)
  <2>1. disk' \in Disk /\ disk'.enabled = disk.enabled /\ disk'.service = disk.service
    BY <1>0, <1>1 DEF Unpause, Disk
  <2> QED
    BY <1>1, <2>1, TurnKeeps DEF Unpause, Labels, Watching
<1>2. CASE StopFlag(p)
  BY <1>0, <1>2, TurnKeeps DEF StopFlag, Labels, Watching
<1>3. CASE StopPause(p)
  <2>1. disk' \in Disk /\ disk'.enabled = disk.enabled /\ disk'.service = disk.service
    BY <1>0, <1>3 DEF StopPause, Disk
  <2> QED
    BY <1>3, <2>1, TurnKeeps DEF StopPause, Labels, Watching
<1>4. CASE StopRoute(p)
  <2>1. run' = [run EXCEPT ![p] = [at |-> "legs", for |-> run[p].for, left |-> Nodes]]
    <3>1. [[run[p] EXCEPT !.at = "legs"] EXCEPT !.left = Nodes]
            = [at |-> "legs", for |-> run[p].for, left |-> Nodes]
      BY <1>0, AtLeftIs
    <3>2. run' = [run EXCEPT ![p] = [[run[p] EXCEPT !.at = "legs"] EXCEPT !.left = Nodes]]
      BY <1>0, <1>4 DEF StopRoute
    <3> QED
      BY <3>1, <3>2
  <2>2. run[p].for \in Requests
    BY <1>0 DEF Process
  <2> QED
    BY <1>0, <1>4, <2>1, <2>2, OneMoves DEF StopRoute, Labels, Watching
<1>5. CASE StopLeg(p)
  <2>1. CASE LegDone(p)
    <3>1. run' = [run EXCEPT ![p] = [at |-> "legs", for |-> run[p].for,
                                     left |-> run[p].left \ {NextLeg(p)}]]
      <4>1. [run[p] EXCEPT !.left = @ \ {NextLeg(p)}]
              = [at |-> "legs", for |-> run[p].for, left |-> run[p].left \ {NextLeg(p)}]
        BY <1>0, <1>5, LeftIs DEF StopLeg, At
      <4> QED
        BY <1>0, <2>1, <4>1 DEF LegDone
    <3>2. /\ run[p].for \in Requests /\ run[p].left \ {NextLeg(p)} \in SUBSET Nodes
          /\ UNCHANGED <<disk, lapsed>>
      BY <1>0, <1>5 DEF Process, StopLeg
    <3>3. "legs" \in Labels /\ "legs" \in Watching /\ "legs" \notin {"write", "start"}
      BY DEF Labels, Watching
    <3> QED
      BY <1>0, <3>1, <3>2, <3>3, OneMoves
  <2>2. CASE Turn(p, "legs", "service")
    BY <1>0, <1>5, <2>2, TurnKeeps DEF StopLeg, Labels, Watching
  <2> QED
    BY <1>5, <2>1, <2>2 DEF StopLeg
<1>6. CASE StopService(p)
  <2>1. /\ run' = [run EXCEPT ![p] = [at |-> "config", for |-> run[p].for,
                                      left |-> run[p].left]]
        /\ run[p].at = "service"
    BY <1>6, TurnIs DEF StopService
  <2>2. [at |-> "config", for |-> run[p].for, left |-> run[p].left] \in Process
    BY <1>0 DEF Process, Labels
  <2>3. /\ disk' \in Disk /\ disk'.enabled = disk.enabled
        /\ lapsed' \in BOOLEAN /\ (lapsed => lapsed')
        /\ disk'.service = "off" \/ lapsed'
    <3>1. CASE disk' = [disk EXCEPT !.service = "off"] /\ UNCHANGED lapsed
      BY <1>0, <3>1 DEF Disk
    <3>2. CASE lapsed' = TRUE /\ UNCHANGED disk
      BY <1>0, <3>2
    <3> QED
      BY <1>6, <3>1, <3>2 DEF StopService
  <2>4. ~Unwatched'
    BY <2>3 DEF Unwatched
  <2> QED
    BY <2>1, <2>2, <2>3, <2>4, OneSteps
<1>7. CASE StopConfig(p)
  <2>1. disk' \in Disk /\ disk'.enabled = disk.enabled /\ disk'.service = disk.service
    BY <1>0, <1>7 DEF StopConfig, Disk
  <2>2. \/ Turn(p, "config", "load") \/ Turn(p, "config", "temporary write")
        \/ Return(p, "config")
    BY <1>7 DEF StopConfig
  <2> QED
    BY <1>7, <2>1, <2>2, TurnKeeps, ReturnKeeps DEF StopConfig, Labels, Watching
<1> QED
  BY <1>1, <1>2, <1>3, <1>4, <1>5, <1>6, <1>7

-----------------------------------------------------------------------------
(* The start                                                               *)

LEMMA WriteConfigKeeps ==
  ASSUME ConferenceInv, NEW p \in Procs, NEW from, NEW to \in Labels,
         NEW contents \in {"permanent", "temporary"}, WriteConfig(p, from, to, contents),
         from \notin Watching, ~disk.enabled => to \notin {"write", "start"}
  PROVE  ConferenceInv'
<1>1. disk' \in Disk /\ disk'.enabled = disk.enabled /\ disk'.service = disk.service
  <2>1. CASE disk' = [disk EXCEPT !.config = contents]
    BY <2>1 DEF ConferenceInv, Disk
  <2>2. CASE UNCHANGED disk
    BY <2>2 DEF ConferenceInv
  <2> QED
    BY <2>1, <2>2 DEF WriteConfig
<1>2. UNCHANGED lapsed /\ (Turn(p, from, to) \/ Return(p, from))
  BY DEF WriteConfig
<1> QED
  BY <1>1, <1>2, TurnKeeps, ReturnKeeps

LEMMA StartServiceIs ==
  ASSUME ConferenceInv, StartService
  PROVE  disk' \in Disk /\ disk'.enabled = disk.enabled
<1>1. disk \in Disk /\ disk' = [disk EXCEPT !.service = IF @ = "off" THEN disk.config ELSE @]
  BY DEF ConferenceInv, StartService
<1>2. (IF disk.service = "off" THEN disk.config ELSE disk.service)
         \in {"off", "permanent", "temporary"}
  BY <1>1 DEF StartService, Disk
<1> QED
  BY <1>1, <1>2 DEF Disk

\* Nobody gets this far while the conference is not enabled.
LEMMA EnsureKeeps ==
  ASSUME ConferenceInv, NEW p \in Procs,
         \/ EnsureLoad(p) \/ EnsureWrite(p) \/ EnsureStart(p) \/ EnsureLogin(p)
         \/ EnsureLoginDone(p) \/ EnsureRoute(p) \/ EnsureDeclare(p)
  PROVE  ConferenceInv'
<1>0. /\ run \in [Procs -> Process] /\ disk \in Disk /\ lapsed \in BOOLEAN
      /\ run[p] \in Process
  BY DEF ConferenceInv
<1>1. CASE EnsureLoad(p)
  <2>1. /\ UNCHANGED <<disk, lapsed>>
        /\ (disk.enabled /\ Turn(p, "load", "write")) \/ Return(p, "load")
    BY <1>1 DEF EnsureLoad
  <2> QED
    BY <1>0, <2>1, TurnKeeps, ReturnKeeps DEF Labels, Watching
<1>2. CASE EnsureWrite(p)
  <2>1. disk.enabled
    BY <1>0, <1>2 DEF EnsureWrite, WriteConfig, Turn, Return, At, ConferenceInv, Disk
  <2> QED
    BY <1>2, <2>1, WriteConfigKeeps DEF EnsureWrite, Labels, Watching
<1>3. CASE EnsureStart(p)
  <2>1. disk.enabled /\ run[p].at = "start" /\ UNCHANGED lapsed
    BY <1>0, <1>3 DEF EnsureStart, At, ConferenceInv, Disk
  <2>2. disk' \in Disk /\ disk'.enabled = disk.enabled
    BY <1>0, <1>3, StartServiceIs DEF EnsureStart, StartFails
  <2>3. ~Unwatched'
    BY <2>1, <2>2 DEF Unwatched
  <2>4. PICK new \in Process : run' = [run EXCEPT ![p] = new]
    <3>1. CASE Return(p, "start")
      <4>1. run' = [run EXCEPT ![p] = Idle] /\ Idle \in Process
        BY <3>1 DEF Return, Idle, Process, Labels, Requests
      <4> QED
        BY <4>1
    <3>2. CASE run' = [run EXCEPT ![p].at = "login", ![p].left = Nodes]
      <4>2. [[run[p] EXCEPT !.at = "login"] EXCEPT !.left = Nodes]
              = [at |-> "login", for |-> run[p].for, left |-> Nodes]
        BY <1>0, AtLeftIs
      <4>3. [[run[p] EXCEPT !.at = "login"] EXCEPT !.left = Nodes] \in Process
        BY <1>0, <4>2 DEF Process, Labels
      <4>4. run' = [run EXCEPT ![p] = [[run[p] EXCEPT !.at = "login"] EXCEPT !.left = Nodes]]
        BY <1>0, <3>2
      <4> QED
        BY <4>3, <4>4
    <3> QED
      BY <1>3, <3>1, <3>2 DEF EnsureStart
  <2> QED
    BY <1>0, <2>1, <2>2, <2>3, <2>4, OneSteps
<1>4. CASE EnsureLogin(p)
  <2>1. UNCHANGED <<disk, lapsed>> /\ run[p].at = "login" /\ (LegDone(p) \/ Return(p, "login"))
    BY <1>4 DEF EnsureLogin, At
  <2>2. CASE LegDone(p)
    <3>1. run' = [run EXCEPT ![p] = [at |-> "login", for |-> run[p].for,
                                     left |-> run[p].left \ {NextLeg(p)}]]
      <4>1. [run[p] EXCEPT !.left = @ \ {NextLeg(p)}]
              = [at |-> "login", for |-> run[p].for, left |-> run[p].left \ {NextLeg(p)}]
        BY <1>0, <2>1, LeftIs
      <4> QED
        BY <1>0, <2>2, <4>1 DEF LegDone
    <3>2. run[p].for \in Requests /\ run[p].left \ {NextLeg(p)} \in SUBSET Nodes
      BY <1>0 DEF Process
    <3>3. "login" \in Labels /\ "login" \notin Watching /\ "login" \notin {"write", "start"}
      BY DEF Labels, Watching
    <3>4. disk' \in Disk /\ disk'.enabled = disk.enabled /\ disk'.service = disk.service
      BY <1>0, <2>1
    <3> QED
      BY <2>1, <3>1, <3>2, <3>3, <3>4, OneMoves
  <2> QED
    BY <1>0, <2>1, <2>2, ReturnKeeps DEF Watching
<1>5. CASE EnsureLoginDone(p)
  BY <1>0, <1>5, TurnKeeps DEF EnsureLoginDone, Labels, Watching
<1>6. CASE EnsureRoute(p)
  BY <1>0, <1>6, TurnKeeps DEF EnsureRoute, Labels, Watching
<1>7. CASE EnsureDeclare(p)
  BY <1>0, <1>7, ReturnKeeps DEF EnsureDeclare, Watching
<1> QED
  BY <1>1, <1>2, <1>3, <1>4, <1>5, <1>6, <1>7

LEMMA ArmKeeps ==
  ASSUME ConferenceInv, NEW p \in Procs, Arm(p)
  PROVE  ConferenceInv'
<1>1. PICK t \in Timers : At(t, "idle") /\ run' = [run EXCEPT ![p] = Idle, ![t].at = "armed"]
  BY DEF Arm
<1>2. /\ run \in [Procs -> Process] /\ UNCHANGED <<disk, lapsed>>
      /\ run[p].at = "arm" /\ run[t].at = "idle" /\ t \in Procs /\ t # p
  BY <1>1 DEF Arm, At, ConferenceInv, Procs
<1>3. /\ run'[t] = [run[t] EXCEPT !.at = "armed"] /\ run'[p] = Idle
      /\ \A q \in Procs \ {p, t} : run'[q] = run[q]
  BY <1>1, <1>2
<1>4. run'[t] \in Process /\ run'[t].at = "armed"
  BY <1>2, <1>3 DEF Process, Labels
<1>5. run'[p] \in Process /\ run'[p].at = "idle"
  BY <1>3 DEF Process, Labels, Requests, Idle
<1>6. run' \in [Procs -> Process]
  <2>1. DOMAIN run' = Procs /\ run' = [q \in Procs |-> run'[q]]
    BY <1>1, <1>2
  <2> QED
    BY <2>1, <1>2, <1>3, <1>4, <1>5
<1>7. ~disk.enabled => \A q \in Procs : run'[q].at \notin {"write", "start"}
  BY <1>3, <1>4, <1>5 DEF ConferenceInv
<1>8. \E q \in Procs : run'[q].at \in Watching
  BY <1>2, <1>4 DEF Watching
<1> QED
  BY <1>2, <1>6, <1>7, <1>8 DEF ConferenceInv

LEMMA TemporaryKeeps ==
  ASSUME ConferenceInv, NEW p \in Procs,
         TemporaryWrite(p) \/ TemporaryStart(p) \/ TemporaryUndo(p)
  PROVE  ConferenceInv'
<1>0. disk \in Disk /\ lapsed \in BOOLEAN /\ run \in [Procs -> Process] /\ run[p] \in Process
  BY DEF ConferenceInv
<1>1. CASE TemporaryWrite(p)
  BY <1>1, WriteConfigKeeps DEF TemporaryWrite, Labels, Watching
<1>2. CASE TemporaryStart(p)
  <2>1. CASE StartService /\ Turn(p, "temporary start", "arm")
    <3>1. run' = [run EXCEPT ![p] = [at |-> "arm", for |-> run[p].for, left |-> run[p].left]]
      BY <2>1, TurnIs
    <3>2. [at |-> "arm", for |-> run[p].for, left |-> run[p].left] \in Process
      BY <1>0 DEF Process, Labels
    <3>3. "arm" \in Watching /\ "arm" \notin {"write", "start"} /\ UNCHANGED lapsed
      BY <1>2 DEF Watching, TemporaryStart
    <3> QED
      BY <1>0, <2>1, <3>1, <3>2, <3>3, StartServiceIs, OneSteps
  <2>2. CASE StartFails /\ Turn(p, "temporary start", "temporary undo")
    <3>1. run' = [run EXCEPT ![p] = [at |-> "temporary undo", for |-> run[p].for,
                                     left |-> run[p].left]]
      BY <2>2, TurnIs
    <3>2. [at |-> "temporary undo", for |-> run[p].for, left |-> run[p].left] \in Process
      BY <1>0 DEF Process, Labels
    <3>3. UNCHANGED <<disk, lapsed>> /\ ~Unwatched'
      BY <1>2, <2>2 DEF TemporaryStart, StartFails, Unwatched
    <3> QED
      BY <1>0, <3>1, <3>2, <3>3, OneSteps
  <2> QED
    BY <1>2, <2>1, <2>2 DEF TemporaryStart
<1>3. CASE TemporaryUndo(p)
  <2>1. disk' \in Disk /\ disk'.enabled = disk.enabled /\ disk'.service = disk.service
    BY <1>0, <1>3 DEF TemporaryUndo, Disk
  <2> QED
    BY <1>3, <2>1, ReturnKeeps DEF TemporaryUndo, Watching
<1> QED
  BY <1>1, <1>2, <1>3

-----------------------------------------------------------------------------
(* The theorem                                                             *)

LEMMA ConferenceInvInit == Init => ConferenceInv
<1> SUFFICES ASSUME Init PROVE ConferenceInv
  OBVIOUS
<1>1. Idle \in Process /\ Idle.at = "idle"
  BY DEF Idle, Process, Labels, Requests
<1>2. run = [p \in Procs |-> Idle] /\ lapsed = FALSE
  BY DEF Init
<1>3. disk \in Disk /\ disk.service = "off"
  BY DEF Init, Disk
<1> QED
  BY <1>1, <1>2, <1>3 DEF ConferenceInv, Unwatched

LEMMA ConferenceInvStep ==
  ASSUME ConferenceInv, [Next]_vars
  PROVE  ConferenceInv'
<1>0. /\ run \in [Procs -> Process] /\ disk \in Disk /\ lapsed \in BOOLEAN
      /\ Supervisor \in Procs /\ Handlers \subseteq Procs /\ Timers \subseteq Procs
  BY DEF ConferenceInv, Procs
<1>1. ASSUME NEW p \in Handlers, NEW request \in Commands \ {"bridge"}, Command(p, request)
      PROVE  ConferenceInv'
  <2>1. request \in Requests
    BY <1>1, ConferenceAssumption DEF Requests
  <2>2. CASE request = "permanent"
    BY <1>0, <1>1, <2>1, <2>2, BeginKeeps DEF Command, Labels, Watching
  <2>3. CASE request # "permanent"
    BY <1>0, <1>1, <2>1, <2>3, BeginKeeps DEF Command, Labels, Watching
  <2> QED
    BY <2>2, <2>3
<1>2. CASE BridgeCommand \/ \E n \in Nodes : Reject(n) \/ RejectionAges(n)
  BY <1>2 DEF BridgeCommand, Reject, RejectionAges, ConferenceInv, Unwatched
<1>3. CASE Look
  <2>1. CASE Begin(Supervisor, "idle", "supervise", "load")
    BY <1>0, <1>3, <2>1, BeginKeeps DEF Look, Labels, Requests, Watching
  <2>2. CASE UNCHANGED run
    BY <1>3, <2>2 DEF Look, ConferenceInv, Unwatched
  <2> QED
    BY <1>3, <2>1, <2>2 DEF Look
<1>4. ASSUME NEW t \in Timers, Expire(t) PROVE ConferenceInv'
  BY <1>0, <1>4, BeginKeeps DEF Expire, Labels, Requests, Watching
<1>5. ASSUME NEW p \in Procs, Step(p) PROVE ConferenceInv'
  BY <1>5, StopKeeps, CancelKeeps, EnsureKeeps, TemporaryKeeps, ArmKeeps DEF Step
<1>6. CASE Restart
  <2>1. Idle \in Process /\ Idle.at = "idle"
    BY DEF Idle, Process, Labels, Requests
  <2> QED
    BY <1>0, <1>6, <2>1 DEF Restart, ConferenceInv, Unwatched
<1>7. CASE UNCHANGED vars
  BY <1>7 DEF vars, ConferenceInv, Unwatched
<1> QED
  BY <1>1, <1>2, <1>3, <1>4, <1>5, <1>6, <1>7 DEF Next

\* A temporary session is never left without anybody to end it, however many
\* requests, timers and the supervisor run at once: the converter only runs the
\* temporary configuration while its timer is armed or went off and has not
\* stopped the service yet, or a request is on its way to one or the other.
THEOREM NeverUnattended == Spec => []TemporarySupervised
<1>1. ConferenceInv => TemporarySupervised
  BY DEF ConferenceInv, Unwatched, Watching, TemporarySupervised
<1>2. ConferenceInv /\ [Next]_vars => ConferenceInv'
  BY ConferenceInvStep
<1> QED
  BY <1>1, <1>2, ConferenceInvInit, PTL DEF Spec

-----------------------------------------------------------------------------
(* The bridge                                                              *)

LEMMA GuardNat == GuardTicks \in Nat \ {0} /\ GuardTicks <= HoldTicks
BY TickAssumption DEF GuardTicks

LEMMA LegsOfRoute == \A r \in Endpoints : DOMAIN r \subseteq Legs
BY DEF Endpoints

LEMMA IdleType == NoWrites \in Writing
BY TickAssumption, RouteAssumption DEF NoWrites, Writing

LEMMA WritingExcept ==
  ASSUME NEW w \in Writing
  PROVE  /\ [w EXCEPT !.current = FALSE] \in Writing
         /\ \A r : [w EXCEPT !.todo = @ \ {r}] \in Writing
BY DEF Writing

LEMMA SilenceType == Silence \in [Sources -> Heard]
BY GuardNat, RouteAssumption DEF Silence, NoTalker, Talker, Heard

(* Installing a route, by a command or by the conference.                  *)
LEMMA InstallType ==
  ASSUME BridgeTypeOK, NEW route \in Endpoints, Install(route)
  PROVE  BridgeTypeOK'
<1>1. talker' \in Talker
  BY RouteAssumption DEF Install, NoTalker, Talker
<1>2. suppress' \in [Legs -> Suppression]
  BY TickAssumption, RouteAssumption DEF Install, NoSuppression, Suppression
<1>3. sending' \in [Sources -> Writing]
  <2>1. \A s \in Sources : [sending[s] EXCEPT !.current = FALSE] \in Writing
    BY WritingExcept DEF BridgeTypeOK
  <2> QED
    BY <2>1 DEF Install
<1>4. hold' \in 0 .. HoldTicks /\ prints' \in [Payloads -> 0 .. RememberTicks]
  BY TickAssumption DEF Install
<1>5. active' \in BOOLEAN /\ ends' \in Endpoints /\ ready' \subseteq Legs
  BY DEF Install, BridgeTypeOK
<1>6. air' \in [Sources -> Heard]
  BY SilenceType DEF Install
<1> QED
  BY <1>1, <1>2, <1>3, <1>4, <1>5, <1>6 DEF BridgeTypeOK

LEMMA BridgeInitType == BridgeInit => BridgeTypeOK
<1> SUFFICES ASSUME BridgeInit PROVE BridgeTypeOK
  OBVIOUS
<1>1. talker \in Talker /\ ends \in Endpoints
  BY RouteAssumption DEF BridgeInit, NoTalker, Talker
<1>2. suppress \in [Legs -> Suppression]
  BY TickAssumption, RouteAssumption DEF BridgeInit, NoSuppression, Suppression
<1>3. hold \in 0 .. HoldTicks /\ prints \in [Payloads -> 0 .. RememberTicks]
  BY TickAssumption DEF BridgeInit
<1>4. sending \in [Sources -> Writing]
  BY IdleType DEF BridgeInit
<1>5. active \in BOOLEAN /\ ready \subseteq Legs
  BY DEF BridgeInit
<1>6. air \in [Sources -> Heard]
  BY SilenceType DEF BridgeInit
<1> QED
  BY <1>1, <1>2, <1>3, <1>4, <1>5, <1>6 DEF BridgeTypeOK

LEMMA BridgeNextType == BridgeTypeOK /\ [BridgeNext]_bridgeVars => BridgeTypeOK'
<1> SUFFICES ASSUME BridgeTypeOK, [BridgeNext]_bridgeVars PROVE BridgeTypeOK'
  OBVIOUS
<1>1. ASSUME NEW route \in Routes, BridgeOn(route) PROVE BridgeTypeOK'
  BY <1>1, InstallType, RouteAssumption DEF BridgeOn
<1>2. CASE EnsureConference
  BY <1>2, InstallType, RouteAssumption DEF EnsureConference
<1>3. CASE BridgeOff
  <2>0. \A s \in Sources : [sending[s] EXCEPT !.current = FALSE] \in Writing
    BY WritingExcept DEF BridgeTypeOK
  <2>1. sending' \in [Sources -> Writing]
    BY <1>3, <2>0 DEF BridgeOff
  <2>2. air' \in [Sources -> Heard]
    BY <1>3, SilenceType DEF BridgeOff
  <2> QED
    BY <1>3, <2>1, <2>2 DEF BridgeOff, BridgeTypeOK
<1>4. ASSUME NEW n \in Legs, LegChange(n) PROVE BridgeTypeOK'
  BY <1>4 DEF LegChange, bridge, BridgeTypeOK
<1>5. ASSUME NEW src \in Sources, NEW stream \in Streams,
             NEW dst \in Talkgroups \cup {0}, NEW payload \in Payloads,
             Accept(src, stream, dst, payload)
      PROVE  BridgeTypeOK'
  <2>1. Copies(src, stream, dst) \in Writing
    BY TickAssumption, LegsOfRoute DEF BridgeTypeOK, Copies, Writing, Sources
  <2>2. sending' \in [Sources -> Writing]
    BY <1>5, <2>1 DEF Accept, BridgeTypeOK
  <2>3. talker' \in Talker /\ hold' \in 0 .. HoldTicks
    BY <1>5, TickAssumption DEF Accept, TakeBridge, Talker
  <2>4. suppress' \in [Legs -> Suppression]
    BY <1>5, TickAssumption DEF Accept, BridgeTypeOK, Suppression
  <2>5. prints' \in [Payloads -> 0 .. RememberTicks]
    BY <1>5, TickAssumption DEF Accept, BridgeTypeOK
  <2> QED
    BY <1>5, <2>2, <2>3, <2>4, <2>5 DEF Accept, BridgeTypeOK
<1>6. ASSUME NEW src \in Sources, NEW r \in Sources, SendCopy(src, r)
      PROVE  BridgeTypeOK'
  <2>1. [sending[src] EXCEPT !.todo = @ \ {r}] \in Writing
    BY WritingExcept DEF BridgeTypeOK
  <2>2. sending' \in [Sources -> Writing]
    <3> DEFINE w == IF sending[src].todo = {r} THEN NoWrites
                      ELSE [sending[src] EXCEPT !.todo = @ \ {r}]
    <3>2. w \in Writing
      BY <2>1, IdleType
    <3>3. sending' = [sending EXCEPT ![src] = w]
      BY <1>6 DEF SendCopy
    <3> HIDE DEF w
    <3> QED
      BY <3>2, <3>3 DEF BridgeTypeOK
  <2>3. [talker |-> [node |-> src, stream |-> sending[src].stream],
         left |-> GuardTicks] \in Heard
    BY GuardNat DEF BridgeTypeOK, Talker, Heard, Writing
  <2>4. air' \in [Sources -> Heard]
    BY <1>6, <2>3 DEF SendCopy, BridgeTypeOK
  <2> QED
    BY <1>6, <2>2, <2>4 DEF SendCopy, bridge, BridgeTypeOK
<1>7. CASE Tick
  <2>0. \A m \in Nat : \A n \in 0 .. m : Less(n) \in 0 .. m
    BY DEF Less
  <2>1. ASSUME NEW s \in Sources
        PROVE  [sending[s] EXCEPT !.left = Less(sending[s].left)] \in Writing
    BY <2>0, TickAssumption DEF BridgeTypeOK, Writing
  <2>2. ASSUME NEW r \in Sources
        PROVE  [air[r] EXCEPT !.left = Less(air[r].left)] \in Heard
    BY <2>0, GuardNat DEF BridgeTypeOK, Heard
  <2>3. ASSUME NEW n \in Legs
        PROVE  [suppress[n] EXCEPT !.left = Less(suppress[n].left)]
                 \in Suppression
    BY <2>0, TickAssumption DEF BridgeTypeOK, Suppression
  <2>4. /\ sending' \in [Sources -> Writing]
        /\ air' \in [Sources -> Heard]
        /\ suppress' \in [Legs -> Suppression]
    BY <1>7, <2>1, <2>2, <2>3 DEF Tick
  <2>5. hold' \in 0 .. HoldTicks /\ prints' \in [Payloads -> 0 .. RememberTicks]
    BY <1>7, <2>0, TickAssumption DEF Tick, BridgeTypeOK
  <2> QED
    BY <1>7, <2>4, <2>5 DEF Tick, BridgeTypeOK
<1>8. CASE UNCHANGED bridgeVars
  BY <1>8 DEF bridgeVars, bridge, BridgeTypeOK
<1> QED
  BY <1>1, <1>2, <1>3, <1>4, <1>5, <1>6, <1>7, <1>8 DEF BridgeNext

(* Every field of the bridge holds a value of its type.                    *)
THEOREM BridgeTypeCorrect == BridgeSpec => []BridgeTypeOK
  BY BridgeInitType, BridgeNextType, PTL DEF BridgeSpec

-----------------------------------------------------------------------------
(***************************************************************************)
(* The arbitration is about decisions; the theorem is about what receivers *)
(* hear.  The invariant ties them together: a goroutine with copies to     *)
(* write still holds the bridge, because less time than HoldTicks has      *)
(* passed since it took it; and a receiver's last copy came from the       *)
(* station that still holds the bridge, as long as GuardTicks last.        *)
(***************************************************************************)
Busy(s) == sending[s].todo # {} /\ sending[s].current

WriterHolds ==
  \A s \in Sources : Busy(s) =>
    /\ talker.node = s /\ talker.stream = sending[s].stream
    /\ hold >= HoldTicks - (SendTicks - sending[s].left)

AirHolds ==
  \A r \in Sources : air[r].left > 0 =>
    /\ talker.node = air[r].talker.node /\ talker.node \in Sources
    /\ air[r].talker.stream \in {talker.stream, 0}
    /\ hold >= air[r].left

ArbitrationInv == WriterHolds /\ AirHolds

(* When the route goes, what was decided under it no longer counts.        *)
LEMMA ResetInv ==
  ASSUME BridgeTypeOK,
         sending' = [s \in Sources |-> [sending[s] EXCEPT !.current = FALSE]],
         air' = Silence
  PROVE  ArbitrationInv'
<1>1. ASSUME NEW s \in Sources PROVE ~Busy(s)'
  BY DEF Busy, BridgeTypeOK, Writing
<1>2. ASSUME NEW r \in Sources PROVE ~(air'[r].left > 0)
  BY DEF Silence
<1> QED
  BY <1>1, <1>2 DEF ArbitrationInv, WriterHolds, AirHolds

LEMMA InitArbitration == BridgeInit => ArbitrationInv
BY DEF BridgeInit, ArbitrationInv, WriterHolds, AirHolds, Busy, NoWrites, Silence

LEMMA NextArbitration == BridgeTypeOK /\ ArbitrationInv /\ [BridgeNext]_bridgeVars => ArbitrationInv'
<1> SUFFICES ASSUME BridgeTypeOK, ArbitrationInv, [BridgeNext]_bridgeVars PROVE ArbitrationInv'
  OBVIOUS
<1> USE DEF ArbitrationInv
<1>0. /\ hold \in Nat /\ hold <= HoldTicks
      /\ \A s \in Sources : sending[s].left \in Nat /\ sending[s].left <= SendTicks
      /\ \A r \in Sources : air[r].left \in Nat
  BY TickAssumption, GuardNat DEF BridgeTypeOK, Writing, Heard
<1>1. ASSUME NEW route \in Routes, BridgeOn(route) PROVE ArbitrationInv'
  BY <1>1, ResetInv DEF BridgeOn, Install
<1>2. CASE EnsureConference \/ BridgeOff
  BY <1>2, ResetInv DEF EnsureConference, Install, BridgeOff
<1>3. ASSUME NEW n \in Legs, LegChange(n) PROVE ArbitrationInv'
  BY <1>3 DEF LegChange, bridge, WriterHolds, AirHolds, Busy
<1>4. ASSUME NEW src \in Sources, NEW stream \in Streams,
             NEW dst \in Talkgroups \cup {0}, NEW payload \in Payloads,
             Accept(src, stream, dst, payload)
      PROVE  ArbitrationInv'
  <2>0. /\ talker' = [node |-> src, stream |-> stream] /\ hold' = HoldTicks
        /\ UNCHANGED air
        /\ sending' = [sending EXCEPT ![src] = Copies(src, stream, dst)]
    BY <1>4 DEF Accept, TakeBridge
  <2>1. hold > 0 => /\ talker.node \in {src, NoNode}
                    /\ talker.node = src => talker.stream \in {0, stream}
    BY <1>4 DEF Accept, BusyWithOther
  <2>2. ASSUME NEW s \in Sources \ {src} PROVE ~Busy(s)
    <3>1. Busy(s) => hold > 0 /\ talker.node = s
      BY <1>0, <2>2, TickAssumption DEF WriterHolds
    <3> QED
      BY <2>1, <3>1, NodeAssumption
  <2>3. WriterHolds'
    <3>1. ASSUME NEW s \in Sources \ {src} PROVE ~Busy(s)'
      BY <2>0, <2>2 DEF Busy, BridgeTypeOK
    <3>2. /\ sending'[src].stream = stream
          /\ sending'[src].left = SendTicks
      BY <2>0 DEF BridgeTypeOK, Copies
    <3> QED
      BY <2>0, <3>1, <3>2, TickAssumption DEF WriterHolds
  <2>4. ASSUME NEW r \in Sources, air[r].left > 0
        PROVE  /\ air[r].talker.node = src
               /\ air[r].talker.stream \in {stream, 0}
               /\ HoldTicks >= air[r].left
    <3>1. /\ talker.node = air[r].talker.node /\ talker.node \in Sources
          /\ air[r].talker.stream \in {talker.stream, 0}
          /\ hold >= air[r].left
      BY <2>4 DEF AirHolds
    <3>2. hold > 0
      BY <1>0, <2>4, <3>1
    <3> QED
      BY <1>0, <2>1, <3>1, <3>2, NodeAssumption, TickAssumption
  <2>5. AirHolds'
    BY <2>0, <2>4 DEF AirHolds
  <2> QED
    BY <2>3, <2>5
<1>5. ASSUME NEW src \in Sources, NEW r \in Sources, SendCopy(src, r)
      PROVE  ArbitrationInv'
  <2>0. UNCHANGED <<talker, hold>>
    BY <1>5 DEF SendCopy, bridge
  <2>1. ASSUME NEW s \in Sources, Busy(s)'
        PROVE  /\ Busy(s)
               /\ sending'[s].stream = sending[s].stream
               /\ sending'[s].left = sending[s].left
    <3>1. CASE s # src
      BY <1>5, <2>1, <3>1 DEF SendCopy, Busy, BridgeTypeOK
    <3>2. CASE s = src
      <4>1. sending'[s] = [sending[s] EXCEPT !.todo = @ \ {r}]
        <5>1. sending'[s] = IF sending[s].todo = {r} THEN NoWrites
                            ELSE [sending[s] EXCEPT !.todo = @ \ {r}]
          BY <1>5, <3>2 DEF SendCopy, BridgeTypeOK
        <5> QED
          BY <2>1, <5>1 DEF Busy, NoWrites
      <4> QED
        BY <1>5, <2>1, <3>2, <4>1 DEF SendCopy, Busy, BridgeTypeOK, Writing
    <3> QED
      BY <3>1, <3>2
  <2>2. WriterHolds'
    BY <2>0, <2>1 DEF WriterHolds
  <2>3. CASE air' = air
    BY <2>0, <2>2, <2>3 DEF AirHolds
  <2>4. CASE /\ sending[src].current
             /\ air' = [air EXCEPT ![r] =
                   [talker |-> [node |-> src, stream |-> sending[src].stream],
                    left |-> GuardTicks]]
    <3>1. /\ talker.node = src /\ talker.stream = sending[src].stream
          /\ hold >= HoldTicks - (SendTicks - sending[src].left)
      BY <1>5, <2>4 DEF SendCopy, WriterHolds, Busy
    <3>2. hold >= GuardTicks
      BY <1>0, <3>1, TickAssumption DEF GuardTicks
    <3>3. AirHolds'
      BY <2>0, <2>4, <3>1, <3>2 DEF AirHolds, BridgeTypeOK
    <3> QED
      BY <2>2, <3>3
  <2> QED
    BY <1>5, <2>3, <2>4 DEF SendCopy
<1>6. CASE Tick
  <2>0. UNCHANGED talker /\ hold' = Less(hold)
    BY <1>6 DEF Tick
  <2>1. ASSUME NEW s \in Sources, Busy(s)'
        PROVE  /\ Busy(s) /\ sending[s].left > 0
               /\ sending'[s].stream = sending[s].stream
               /\ sending'[s].left = sending[s].left - 1
    <3>1. sending'[s] = [sending[s] EXCEPT !.left = Less(sending[s].left)]
      BY <1>6 DEF Tick
    <3>2. sending[s] \in Writing
      BY DEF BridgeTypeOK
    <3>3. /\ sending'[s].todo = sending[s].todo
          /\ sending'[s].current = sending[s].current
          /\ sending'[s].stream = sending[s].stream
          /\ sending'[s].left = Less(sending[s].left)
      BY <3>1, <3>2 DEF Writing
    <3>4. Busy(s)
      BY <2>1, <3>3 DEF Busy
    <3>5. sending[s].left > 0
      BY <1>6, <3>4 DEF Tick, Busy
    <3> QED
      BY <1>0, <3>3, <3>4, <3>5 DEF Less
  <2>2. WriterHolds'
    <3> SUFFICES ASSUME NEW s \in Sources, Busy(s)'
                 PROVE  /\ talker.node = s
                        /\ talker.stream = sending[s].stream
                        /\ hold' >= HoldTicks - (SendTicks - sending'[s].left)
      BY <2>0, <2>1 DEF WriterHolds
    <3>1. /\ talker.node = s /\ talker.stream = sending[s].stream
          /\ hold >= HoldTicks - (SendTicks - sending[s].left)
      BY <2>1 DEF WriterHolds
    <3> QED
      BY <1>0, <2>0, <2>1, <3>1, TickAssumption DEF Less
  <2>3. ASSUME NEW r \in Sources, air'[r].left > 0
        PROVE  /\ air'[r].talker = air[r].talker
               /\ air[r].left > 0 /\ air'[r].left = air[r].left - 1
    BY <1>0, <1>6, <2>3 DEF Tick, Less, BridgeTypeOK, Heard
  <2>4. AirHolds'
    BY <1>0, <2>0, <2>3 DEF AirHolds, Less
  <2> QED
    BY <2>2, <2>4
<1>7. CASE UNCHANGED bridgeVars
  BY <1>7 DEF bridgeVars, bridge, WriterHolds, AirHolds, Busy
<1> QED
  BY <1>1, <1>2, <1>3, <1>4, <1>5, <1>6, <1>7 DEF BridgeNext

(* All receivers that were sent something within GuardTicks were sent the  *)
(* same station.                                                           *)
THEOREM SingleTalker == BridgeSpec => []OneTalkerOnAir
<1>1. ArbitrationInv => OneTalkerOnAir
  BY DEF ArbitrationInv, AirHolds, OneTalkerOnAir
<1> QED
  BY <1>1, BridgeTypeCorrect, InitArbitration, NextArbitration, PTL DEF BridgeSpec

LEMMA StepChangesInSilence ==
  BridgeTypeOK /\ ArbitrationInv /\ [BridgeNext]_bridgeVars => [ChangesInSilence]_bridgeVars
<1> SUFFICES ASSUME BridgeTypeOK, ArbitrationInv, BridgeNext, NEW r \in Sources,
                    air[r].left > 0, air'[r].left > 0,
                    air'[r].talker # air[r].talker
             PROVE  /\ air[r].talker.stream = 0
                    /\ air'[r].talker.node = air[r].talker.node
  BY DEF ChangesInSilence
<1>1. CASE air' = air
  BY <1>1
<1>2. CASE air' = Silence
  BY <1>2 DEF Silence
<1>3. ASSUME NEW src \in Sources, NEW q \in Sources, SendCopy(src, q)
      PROVE  /\ air[r].talker.stream = 0
             /\ air'[r].talker.node = air[r].talker.node
  <2>1. /\ sending[src].current /\ q = r
        /\ air'[r].talker = [node |-> src, stream |-> sending[src].stream]
    BY <1>3 DEF SendCopy, BridgeTypeOK
  <2>2. /\ talker.node = src
        /\ talker.stream = sending[src].stream
    BY <1>3, <2>1 DEF SendCopy, ArbitrationInv, WriterHolds, Busy
  <2>3. /\ talker.node = air[r].talker.node
        /\ air[r].talker.stream \in {talker.stream, 0}
    BY DEF ArbitrationInv, AirHolds
  <2>4. air[r].talker = [node |-> air[r].talker.node,
                         stream |-> air[r].talker.stream]
    BY DEF BridgeTypeOK, Heard, Talker
  <2> QED
    BY <2>1, <2>2, <2>3, <2>4
<1>4. CASE Tick
  BY <1>4 DEF Tick, BridgeTypeOK, Heard
<1> QED
  BY <1>1, <1>2, <1>3, <1>4 DEF BridgeNext, BridgeOn, EnsureConference, Install,
     BridgeOff, LegChange, Accept

(* A receiver is never switched from one stream to another within          *)
(* GuardTicks.                                                             *)
THEOREM SilentChange == BridgeSpec => TalkerChangesInSilence
  BY BridgeTypeCorrect, InitArbitration, NextArbitration, StepChangesInSilence, PTL
  DEF BridgeSpec, TalkerChangesInSilence

(* The two together: whatever the routes, the legs, the streams and the    *)
(* order of the goroutines, a listener of the conference hears one talker. *)
THEOREM ConferenceArbitrated == BridgeSpec => Arbitrated
  BY SingleTalker, SilentChange, PTL DEF TalkerChangesInSilence, Arbitrated

-----------------------------------------------------------------------------
(***************************************************************************)
(* Bridges that are linked elsewhere (BridgeLoop).  The arbitration is the *)
(* same: a step of LoopNext is a step of Next or leaves the bridge alone.  *)
(***************************************************************************)
LoopTypeOK ==
  /\ looped \in BOOLEAN
  /\ fresh \subseteq Originals
  /\ carrying \in [Sources -> Payloads]
  /\ abroad \subseteq [leg : Legs, stream : Streams, payload : Payloads,
                       left : 0 .. EchoTicks]
  /\ bridged \in [Originals -> 0 .. 2]

LEMMA TwiceType == Twice \in Payloads
<1>1. \E p \in Payloads : TRUE
  <2>1. PICK o \in Originals : TRUE
    BY LoopAssumption
  <2>2. <<o, Spoken>> \in Payloads
    BY LoopAssumption
  <2> QED
    BY <2>2
<1> QED
  BY <1>1 DEF Twice

LEMMA LoopInitType ==
  LoopInit => BridgeTypeOK /\ ArbitrationInv /\ LoopTypeOK
<1> SUFFICES ASSUME LoopInit PROVE BridgeTypeOK /\ ArbitrationInv /\ LoopTypeOK
  OBVIOUS
<1>1. LoopTypeOK
  <2>1. /\ looped \in BOOLEAN /\ fresh \subseteq Originals /\ abroad = {}
        /\ carrying = [s \in Sources |-> Twice]
        /\ bridged = [o \in Originals |-> 0]
    BY DEF LoopInit, Still, Looped
  <2> QED
    BY <2>1, TwiceType DEF LoopTypeOK
<1>2. CASE Still
  BY <1>1, <1>2, BridgeInitType, InitArbitration DEF Still
<1>3. CASE Looped
  <2>1. /\ talker \in Talker /\ ends \in Endpoints
        /\ suppress \in [Legs -> Suppression]
    BY <1>3, TickAssumption, RouteAssumption
    DEF Looped, NoTalker, Talker, NoSuppression, Suppression
  <2>2. hold \in 0 .. HoldTicks /\ prints \in [Payloads -> 0 .. RememberTicks]
    BY <1>3, TickAssumption DEF Looped
  <2>3. sending \in [Sources -> Writing] /\ air \in [Sources -> Heard]
    BY <1>3, IdleType, SilenceType DEF Looped
  <2>4. BridgeTypeOK
    BY <1>3, <2>1, <2>2, <2>3 DEF Looped, BridgeTypeOK
  <2>5. ArbitrationInv
    BY <1>3 DEF Looped, ArbitrationInv, WriterHolds, AirHolds, Busy, NoWrites, Silence
  <2> QED
    BY <1>1, <2>4, <2>5
<1> QED
  BY <1>2, <1>3 DEF LoopInit

LEMMA LoopStep == LoopTypeOK /\ [LoopNext]_loopVars => [BridgeNext]_bridgeVars
<1> SUFFICES ASSUME LoopTypeOK, LoopNext PROVE [BridgeNext]_bridgeVars
  BY DEF loopVars
<1>1. CASE Routed
  BY <1>1, TwiceType, LoopAssumption DEF Routed, BridgeNext
<1>2. ASSUME NEW src \in Sources, NEW stream \in Numbers, NEW o \in Originals,
             Speak(src, stream, o)
      PROVE  BridgeNext
  <2>1. <<o, Spoken>> \in Payloads /\ stream \in Streams
    BY LoopAssumption DEF Numbers
  <2> QED
    BY <1>2, <2>1 DEF Speak, AcceptPayload, BridgeNext
<1>3. ASSUME NEW copy \in abroad, NEW leg \in Legs, NEW stream \in Numbers,
             NEW encoding \in Encodings,
             ComesBack(copy, leg, stream, encoding)
      PROVE  [BridgeNext]_bridgeVars
  <2>1. <<copy.payload[1], encoding>> \in Payloads /\ stream \in Streams
    BY <1>3, LoopAssumption DEF Numbers, LoopTypeOK
  <2> QED
    BY <1>3, <2>1 DEF ComesBack, AcceptPayload, BridgeNext, Sources
<1> QED
  BY <1>1, <1>2, <1>3 DEF LoopNext, Echoes, Send, LoopTick, BridgeNext

LEMMA LoopNextType ==
  LoopTypeOK /\ BridgeTypeOK /\ [LoopNext]_loopVars => LoopTypeOK'
<1> SUFFICES ASSUME LoopTypeOK, BridgeTypeOK, LoopNext PROVE LoopTypeOK'
  BY DEF LoopTypeOK, loopVars, loops
<1>1. CASE Routed
  BY <1>1 DEF Routed, loops, LoopTypeOK
<1>2. ASSUME NEW src \in Sources, NEW stream, NEW payload \in Payloads,
             AcceptPayload(src, stream, payload)
      PROVE  /\ carrying' \in [Sources -> Payloads]
             /\ bridged' \in [Originals -> 0 .. 2]
             /\ UNCHANGED abroad
  <2>1. payload[1] \in Originals
    BY LoopAssumption
  <2> QED
    BY <1>2, <2>1 DEF AcceptPayload, LoopTypeOK
<1>3. CASE Echoes
  <2>1. ASSUME NEW src \in Sources, NEW stream \in Numbers,
               NEW o \in Originals, Speak(src, stream, o)
        PROVE  LoopTypeOK'
    <3>1. <<o, Spoken>> \in Payloads
      BY LoopAssumption
    <3> QED
      BY <1>2, <1>3, <2>1, <3>1 DEF Echoes, Speak, LoopTypeOK
  <2>2. ASSUME NEW copy \in abroad, NEW leg \in Legs, NEW stream \in Numbers,
               NEW encoding \in Encodings,
               ComesBack(copy, leg, stream, encoding)
        PROVE  LoopTypeOK'
    <3>1. <<copy.payload[1], encoding>> \in Payloads
      BY LoopAssumption DEF LoopTypeOK
    <3> QED
      BY <1>2, <1>3, <2>2, <3>1 DEF Echoes, ComesBack, LoopTypeOK, Sources
  <2>3. ASSUME NEW src \in Sources, NEW r \in Sources, Send(src, r)
        PROVE  LoopTypeOK'
    <3>1. ASSUME r \in ready
          PROVE  [leg |-> r, stream |-> sending[src].stream,
                  payload |-> carrying[src], left |-> EchoTicks]
                   \in [leg : Legs, stream : Streams, payload : Payloads,
                        left : 0 .. EchoTicks]
      BY <3>1, LoopAssumption DEF BridgeTypeOK, LoopTypeOK, Writing
    <3> QED
      BY <1>3, <2>3, <3>1 DEF Echoes, Send, LoopTypeOK
  <2>4. CASE LoopTick
    <3>1. ASSUME NEW copy \in abroad, copy.left > 0
          PROVE  [copy EXCEPT !.left = copy.left - 1]
                   \in [leg : Legs, stream : Streams, payload : Payloads,
                        left : 0 .. EchoTicks]
      BY <3>1, LoopAssumption DEF LoopTypeOK
    <3> QED
      BY <1>3, <2>4, <3>1 DEF Echoes, LoopTick, LoopTypeOK
  <2> QED
    BY <1>3, <2>1, <2>2, <2>3, <2>4 DEF Echoes
<1> QED
  BY <1>1, <1>3 DEF LoopNext

(* Bridges elsewhere that send frames back change nothing about who is     *)
(* heard: the run's specification keeps the arbitration as well.           *)
THEOREM ArbitratedInLoops == LoopSpec => Arbitrated
<1>1. BridgeTypeOK /\ ArbitrationInv /\ LoopTypeOK /\ [LoopNext]_loopVars
        => (BridgeTypeOK /\ ArbitrationInv /\ LoopTypeOK)'
  BY LoopStep, LoopNextType, BridgeNextType, NextArbitration
<1>2. BridgeTypeOK /\ ArbitrationInv /\ LoopTypeOK /\ ArbitrationInv'
      /\ [LoopNext]_loopVars
        => [ChangesInSilence /\ OneTalkerOnAir']_bridgeVars
  <2> SUFFICES ASSUME BridgeTypeOK, ArbitrationInv, LoopTypeOK, ArbitrationInv',
                      [LoopNext]_loopVars
               PROVE  [ChangesInSilence /\ OneTalkerOnAir']_bridgeVars
    OBVIOUS
  <2>1. OneTalkerOnAir'
    BY DEF ArbitrationInv, AirHolds, OneTalkerOnAir
  <2>2. [ChangesInSilence]_bridgeVars
    BY LoopStep, StepChangesInSilence
  <2> QED
    BY <2>1, <2>2
<1> QED
  BY <1>1, <1>2, LoopInitType, PTL DEF LoopSpec, Arbitrated

(***************************************************************************)
(* Why no copy is bridged.  With the voice data unchanged its fingerprint  *)
(* stops it.  Re-encoded, it comes back to the leg it was sent to with the *)
(* stream it was sent with, and is Caught there: the stream is in Suppress *)
(* for that leg, or another talker has replaced the entry, and then holds  *)
(* the bridge until the copy is gone, because the first talker's hold had  *)
(* to run out before.                                                      *)
(***************************************************************************)
Caught(leg, stream, left) ==
  \/ /\ suppress[leg].stream = stream /\ suppress[leg].left > left
     /\ HoldTicks + hold > left
     /\ hold > 0 => talker.node # leg /\ talker.stream = stream
  \/ /\ hold > left
     /\ talker.node = leg => talker.stream # stream

Stopped(payload, leg, stream, left) ==
  prints[payload] > left /\ Caught(leg, stream, left)

OnTheAir == hold > 0 => talker.node \in Sources /\ talker.stream # 0

CopiesStopped ==
  \A copy \in abroad :
    Stopped(copy.payload, copy.leg, copy.stream, copy.left)

WritesStopped ==
  \A s \in Sources : \A r \in sending[s].todo \cap Legs :
    Stopped(carrying[s], r, sending[s].stream, sending[s].left + EchoTicks)

OnceInv ==
  /\ \A o \in Originals : bridged[o] <= 1 /\ (o \in fresh => bridged[o] = 0)
  /\ looped => /\ ready = Legs /\ ends = ConfRoute
               /\ OnTheAir /\ CopiesStopped /\ WritesStopped

LEMMA AcceptStops ==
  ASSUME BridgeTypeOK, OnTheAir, NEW src \in Sources, NEW strm \in Numbers,
         NEW dst, NEW payload \in Payloads, Accept(src, strm, dst, payload)
  PROVE  /\ OnTheAir'
         /\ \A p \in Payloads, leg \in Legs, st \in Streams, left \in Nat :
              /\ left <= SendTicks + EchoTicks
              /\ Stopped(p, leg, st, left)
              => Stopped(p, leg, st, left)'
<1>0. /\ talker' = [node |-> src, stream |-> strm] /\ hold' = HoldTicks
      /\ suppress' = [n \in Legs |->
                       IF n \in DOMAIN ends \ {src}
                       THEN [stream |-> strm, left |-> SuppressTicks]
                       ELSE suppress[n]]
      /\ prints' = [prints EXCEPT ![payload] = RememberTicks]
      /\ ~Suppressed(src, strm) /\ ~BusyWithOther(src, strm)
  BY DEF Accept, TakeBridge
<1>1. /\ hold \in Nat /\ hold <= HoldTicks /\ HoldTicks \in Nat
      /\ SendTicks \in Nat /\ EchoTicks \in Nat /\ strm # 0
  BY TickAssumption, LoopAssumption DEF BridgeTypeOK, Numbers
<1>2. OnTheAir'
  BY <1>0, <1>1 DEF OnTheAir
<1>3. ASSUME NEW p \in Payloads, NEW left \in Nat,
             left <= SendTicks + EchoTicks, prints[p] > left
      PROVE  prints'[p] > left
  BY <1>0, <1>1, <1>3, EchoAssumption, TickAssumption DEF BridgeTypeOK
<1>4. ASSUME NEW leg \in Legs, NEW st \in Streams, NEW left \in Nat,
             left <= SendTicks + EchoTicks, Caught(leg, st, left)
      PROVE  Caught(leg, st, left)'
  <2>0. leg # NoNode /\ src # NoNode
    BY NodeAssumption DEF Sources
  <2>1. hold > 0 => talker.node = src /\ talker.stream = strm
    BY <1>0, NodeAssumption DEF BusyWithOther, OnTheAir
  <2>2. CASE hold > 0 /\ suppress[leg].stream = st /\ suppress[leg].left > left
             /\ talker.node # leg /\ talker.stream = st
    <3>1. suppress'[leg].stream = st /\ suppress'[leg].left > left
      BY <1>0, <1>1, <1>4, <2>1, <2>2, EchoAssumption, TickAssumption
    <3>2. HoldTicks + hold' > left
      BY <1>0, <1>1, <1>4, EchoAssumption
    <3>3. talker'.node # leg /\ talker'.stream = st
      BY <1>0, <2>1, <2>2
    <3> QED
      BY <3>1, <3>2, <3>3 DEF Caught
  <2>3. CASE hold = 0 /\ suppress[leg].stream = st /\ suppress[leg].left > left
             /\ HoldTicks > left
    <3>1. hold' > left
      BY <1>0, <2>3
    <3>2. talker'.node = leg => talker'.stream # st
      <4>1. suppress[leg].left > 0
        BY <1>4, <2>3 DEF BridgeTypeOK, Suppression
      <4> QED
        BY <1>0, <2>3, <4>1 DEF Suppressed
    <3> QED
      BY <3>1, <3>2 DEF Caught
  <2>4. CASE hold > left /\ (talker.node = leg => talker.stream # st)
    <3>1. hold > 0 /\ hold' > left
      BY <1>0, <1>1, <1>4, <2>4
    <3>2. talker'.node = leg => talker'.stream # st
      BY <1>0, <2>1, <2>4, <3>1
    <3> QED
      BY <3>1, <3>2 DEF Caught
  <2> QED
    BY <1>1, <1>4, <2>2, <2>3, <2>4 DEF Caught
<1> QED
  BY <1>2, <1>3, <1>4 DEF Stopped

(* What an accepted frame leaves to be written is stopped everywhere.      *)
LEMMA AcceptedStopped ==
  ASSUME BridgeTypeOK, NEW src \in Sources, NEW strm \in Numbers,
         NEW dst, NEW payload \in Payloads, Accept(src, strm, dst, payload)
  PROVE  /\ sending' = [sending EXCEPT ![src] = sending'[src]]
         /\ sending'[src].stream = strm /\ sending'[src].left = SendTicks
         /\ \A r \in sending'[src].todo \cap Legs :
              Stopped(payload, r, strm, SendTicks + EchoTicks)'
<1>0. /\ talker' = [node |-> src, stream |-> strm] /\ hold' = HoldTicks
      /\ suppress' = [n \in Legs |->
                       IF n \in DOMAIN ends \ {src}
                       THEN [stream |-> strm, left |-> SuppressTicks]
                       ELSE suppress[n]]
      /\ prints' = [prints EXCEPT ![payload] = RememberTicks]
      /\ sending' = [sending EXCEPT ![src] = Copies(src, strm, dst)]
  BY DEF Accept, TakeBridge
<1>1. sending'[src] = Copies(src, strm, dst)
  BY <1>0 DEF BridgeTypeOK
<1>2. ASSUME NEW r \in Legs, r \in Copies(src, strm, dst).todo
      PROVE  Stopped(payload, r, strm, SendTicks + EchoTicks)'
  <2>1. r \in DOMAIN ends \ {src}
    BY <1>2, NodeAssumption DEF Copies
  <2>2. suppress'[r] = [stream |-> strm, left |-> SuppressTicks]
    BY <1>0, <2>1
  <2>3. prints'[payload] = RememberTicks
    BY <1>0 DEF BridgeTypeOK
  <2> QED
    BY <1>0, <2>1, <2>2, <2>3, EchoAssumption, TickAssumption, LoopAssumption
    DEF Stopped, Caught
<1>3. \A r \in sending'[src].todo \cap Legs :
        Stopped(payload, r, strm, SendTicks + EchoTicks)'
  BY <1>1, <1>2
<1>4. sending'[src].stream = strm /\ sending'[src].left = SendTicks
  BY <1>1 DEF Copies
<1>5. sending' = [sending EXCEPT ![src] = sending'[src]]
  BY <1>0, <1>1
<1> QED
  BY <1>3, <1>4, <1>5

LEMMA TickStops ==
  ASSUME BridgeTypeOK, OnTheAir, Tick
  PROVE  /\ OnTheAir'
         /\ \A p \in Payloads, leg \in Legs, st \in Streams, left \in Nat :
              left > 0 /\ Stopped(p, leg, st, left)
                => Stopped(p, leg, st, left - 1)'
<1>0. /\ hold' = Less(hold) /\ talker' = talker
      /\ \A n \in Legs : /\ suppress'[n].stream = suppress[n].stream
                         /\ suppress'[n].left = Less(suppress[n].left)
      /\ \A p \in Payloads : prints'[p] = Less(prints[p])
  BY DEF Tick, BridgeTypeOK, Suppression
<1>1. /\ hold \in Nat /\ HoldTicks \in Nat
      /\ \A n \in Legs : suppress[n].left \in Nat
      /\ \A p \in Payloads : prints[p] \in Nat
  BY TickAssumption DEF BridgeTypeOK, Suppression
<1>2. OnTheAir'
  BY <1>0, <1>1 DEF OnTheAir, Less
<1> SUFFICES ASSUME NEW p \in Payloads, NEW leg \in Legs, NEW st \in Streams,
                    NEW left \in Nat, left > 0, Stopped(p, leg, st, left)
             PROVE  Stopped(p, leg, st, left - 1)'
  BY <1>2
<1>3. Stopped(p, leg, st, left - 1)'
  <2>1. prints'[p] > left - 1
    BY <1>0, <1>1 DEF Stopped, Less
  <2>2. CASE /\ suppress[leg].stream = st /\ suppress[leg].left > left
             /\ HoldTicks + hold > left
             /\ hold > 0 => talker.node # leg /\ talker.stream = st
    <3>1. suppress'[leg].stream = st /\ suppress'[leg].left > left - 1
      BY <1>0, <1>1, <2>2 DEF Less
    <3>2. HoldTicks + hold' > left - 1 /\ (hold' > 0 => hold > 0)
      BY <1>0, <1>1, <2>2 DEF Less
    <3> QED
      BY <1>0, <2>1, <2>2, <3>1, <3>2 DEF Stopped, Caught
  <2>3. CASE hold > left /\ (talker.node = leg => talker.stream # st)
    <3>1. hold' > left - 1
      BY <1>0, <1>1, <2>3 DEF Less
    <3> QED
      BY <1>0, <2>1, <2>3, <3>1 DEF Stopped, Caught
  <2> QED
    BY <2>2, <2>3 DEF Stopped, Caught
<1> QED
  BY <1>3

LEMMA OnceInit == LoopInit => OnceInv
BY DEF LoopInit, Still, Looped, OnceInv, OnTheAir, CopiesStopped,
       WritesStopped, NoWrites

(* A copy that comes back is not accepted.                                 *)
LEMMA CopyRefused ==
  ASSUME BridgeTypeOK, LoopTypeOK, OnceInv, looped,
         NEW copy \in abroad, NEW leg \in Legs, NEW strm \in Numbers,
         NEW encoding \in Encodings, ComesBack(copy, leg, strm, encoding)
  PROVE  /\ abroad' = abroad \ {copy}
         /\ UNCHANGED <<bridgeVars, carrying, bridged, fresh>>
<1> DEFINE payload == <<copy.payload[1], encoding>>
<1>1. /\ Stopped(copy.payload, copy.leg, copy.stream, copy.left)
      /\ OnTheAir /\ copy.left \in Nat /\ copy.payload \in Payloads
  BY LoopAssumption DEF OnceInv, CopiesStopped, LoopTypeOK
<1>2. CASE leg = copy.leg /\ strm = copy.stream
  <2>1. suppress[leg].left \in Nat /\ hold \in Nat
    BY TickAssumption DEF BridgeTypeOK, Suppression
  <2>2. Suppressed(leg, strm) \/ BusyWithOther(leg, strm)
    BY <1>1, <1>2, <2>1, NodeAssumption
    DEF Stopped, Caught, Suppressed, BusyWithOther, OnTheAir, Sources
  <2> QED
    BY <2>2 DEF ComesBack, AcceptPayload, Accept
<1>3. CASE encoding = copy.payload[2]
  <2>1. payload = copy.payload
    BY <1>1, <1>3, LoopAssumption
  <2>2. Seen(payload)
    BY <1>1, <2>1 DEF Stopped, Seen, BridgeTypeOK
  <2> QED
    BY <2>2 DEF ComesBack, AcceptPayload, Accept
<1> QED
  BY <1>2, <1>3 DEF ComesBack

LEMMA OnceNext ==
  BridgeTypeOK /\ LoopTypeOK /\ OnceInv /\ [LoopNext]_loopVars => OnceInv'
<1> SUFFICES ASSUME BridgeTypeOK, LoopTypeOK, OnceInv, [LoopNext]_loopVars
             PROVE  OnceInv'
  OBVIOUS
<1>1. CASE Routed
  BY <1>1 DEF Routed, loops, OnceInv
<1>2. ASSUME looped, NEW src \in Sources, NEW strm \in Numbers,
             NEW o \in Originals, Speak(src, strm, o), UNCHANGED looped
      PROVE  OnceInv'
  <2> DEFINE payload == <<o, Spoken>>
  <2>1. PICK dst \in Talkgroups : Accept(src, strm, dst, payload)
    BY <1>2 DEF Speak, AcceptPayload
  <2>2. payload \in Payloads /\ OnTheAir
    BY <1>2, LoopAssumption DEF OnceInv
  <2>3. /\ o \in fresh /\ fresh' = fresh \ {o} /\ abroad' = abroad
        /\ carrying' = [carrying EXCEPT ![src] = payload]
        /\ bridged' = [bridged EXCEPT ![o] =
                         IF bridged[o] < 2 THEN bridged[o] + 1 ELSE 2]
    BY <1>2 DEF Speak, AcceptPayload
  <2>4. \A q \in Originals : bridged'[q] <= 1 /\ (q \in fresh' => bridged'[q] = 0)
    BY <2>3 DEF OnceInv, LoopTypeOK
  <2>5. UNCHANGED <<ready, ends>>
    BY <2>1 DEF Accept
  <2>6. OnTheAir'
    BY <2>1, <2>2, AcceptStops
  <2>7. CopiesStopped'
    <3> SUFFICES ASSUME NEW copy \in abroad
                 PROVE  Stopped(copy.payload, copy.leg, copy.stream, copy.left)'
      BY <2>3 DEF CopiesStopped
    <3>1. /\ copy.payload \in Payloads /\ copy.leg \in Legs
          /\ copy.stream \in Streams /\ copy.left \in Nat
          /\ copy.left <= SendTicks + EchoTicks
      BY LoopAssumption, TickAssumption DEF LoopTypeOK
    <3>2. Stopped(copy.payload, copy.leg, copy.stream, copy.left)
      BY <1>2 DEF OnceInv, CopiesStopped
    <3> QED
      BY <2>1, <2>2, <3>1, <3>2, AcceptStops
  <2>8. WritesStopped'
    <3> SUFFICES ASSUME NEW s \in Sources, NEW r \in sending'[s].todo \cap Legs
                 PROVE  Stopped(carrying[s], r, sending[s].stream,
                                sending[s].left + EchoTicks)'
      BY DEF WritesStopped
    <3>1. CASE s = src
      <4>1. carrying'[s] = payload
        BY <2>3, <3>1 DEF LoopTypeOK
      <4>2. /\ sending'[s].stream = strm /\ sending'[s].left = SendTicks
            /\ Stopped(payload, r, strm, SendTicks + EchoTicks)'
        BY <2>1, <2>2, <3>1, AcceptedStopped
      <4> QED
        BY <4>1, <4>2 DEF Stopped, Caught
    <3>2. CASE s # src
      <4>1. sending'[s] = sending[s] /\ carrying'[s] = carrying[s]
        BY <2>1, <2>3, <3>2 DEF Accept, BridgeTypeOK, LoopTypeOK
      <4>2. Stopped(carrying[s], r, sending[s].stream,
                    sending[s].left + EchoTicks)
        BY <1>2, <4>1 DEF OnceInv, WritesStopped
      <4>3. /\ carrying[s] \in Payloads /\ sending[s].stream \in Streams
            /\ sending[s].left + EchoTicks \in Nat
            /\ sending[s].left + EchoTicks <= SendTicks + EchoTicks
        BY LoopAssumption, TickAssumption DEF BridgeTypeOK, Writing, LoopTypeOK
      <4> QED
        BY <2>1, <2>2, <4>1, <4>2, <4>3, AcceptStops DEF Stopped, Caught
    <3> QED
      BY <3>1, <3>2
  <2> QED
    BY <1>2, <2>4, <2>5, <2>6, <2>7, <2>8 DEF OnceInv
<1>3. ASSUME looped, NEW copy \in abroad, NEW leg \in Legs,
             NEW strm \in Numbers, NEW encoding \in Encodings,
             ComesBack(copy, leg, strm, encoding), UNCHANGED looped
      PROVE  OnceInv'
  <2>1. /\ abroad' = abroad \ {copy}
        /\ UNCHANGED <<bridgeVars, carrying, bridged, fresh>>
    BY <1>3, CopyRefused
  <2> QED
    BY <1>3, <2>1
    DEF OnceInv, OnTheAir, CopiesStopped, WritesStopped, Stopped, Caught,
        bridgeVars, bridge
<1>4. ASSUME looped, NEW src \in Sources, NEW r \in Sources, Send(src, r),
             UNCHANGED looped
      PROVE  OnceInv'
  <2>1. /\ UNCHANGED <<bridge, ready, fresh, carrying, bridged>>
        /\ r \in sending[src].todo
        /\ sending' = [sending EXCEPT ![src] =
                         IF sending[src].todo = {r} THEN NoWrites
                         ELSE [sending[src] EXCEPT
                                 !.todo = sending[src].todo \ {r}]]
    BY <1>4 DEF Send, SendCopy
  <2>2. \A p, leg, st, left :
          Stopped(p, leg, st, left)' <=> Stopped(p, leg, st, left)
    BY <2>1 DEF Stopped, Caught, bridge
  <2>3. CopiesStopped'
    <3> SUFFICES ASSUME NEW copy \in abroad'
                 PROVE  Stopped(copy.payload, copy.leg, copy.stream, copy.left)
      BY <2>2 DEF CopiesStopped
    <3>1. CASE copy \in abroad
      BY <1>4, <3>1 DEF OnceInv, CopiesStopped
    <3>2. CASE r \in ready /\ copy = [leg |-> r, stream |-> sending[src].stream,
                                     payload |-> carrying[src],
                                     left |-> EchoTicks]
      <4>1. Stopped(carrying[src], r, sending[src].stream,
                    sending[src].left + EchoTicks)
        BY <1>4, <2>1, <3>2 DEF OnceInv, WritesStopped
      <4>2. sending[src].left \in Nat
        BY TickAssumption DEF BridgeTypeOK, Writing
      <4>3. hold \in Nat /\ prints[carrying[src]] \in Nat
            /\ suppress[r].left \in Nat
        BY <3>2, TickAssumption DEF BridgeTypeOK, LoopTypeOK, Suppression
      <4> QED
        BY <3>2, <4>1, <4>2, <4>3, LoopAssumption, TickAssumption
        DEF Stopped, Caught
    <3> QED
      BY <1>4, <3>1, <3>2 DEF Send
  <2>4. WritesStopped'
    <3> SUFFICES ASSUME NEW s \in Sources, NEW q \in sending'[s].todo \cap Legs
                 PROVE  Stopped(carrying[s], q, sending'[s].stream,
                                sending'[s].left + EchoTicks)
      BY <2>1, <2>2 DEF WritesStopped, Stopped, Caught, bridge
    <3>1. /\ q \in sending[s].todo
          /\ sending'[s].stream = sending[s].stream
          /\ sending'[s].left = sending[s].left
      <4>1. CASE s = src
        <5>1. sending'[s] = [sending[s] EXCEPT !.todo = sending[s].todo \ {r}]
          BY <2>1, <4>1 DEF BridgeTypeOK, NoWrites
        <5>2. sending[s] \in Writing
          BY DEF BridgeTypeOK
        <5> QED
          BY <5>1, <5>2 DEF Writing
      <4>2. CASE s # src
        BY <2>1, <4>2 DEF BridgeTypeOK
      <4> QED
        BY <4>1, <4>2
    <3> QED
      BY <1>4, <3>1 DEF OnceInv, WritesStopped
  <2> QED
    BY <1>4, <2>1, <2>3, <2>4 DEF OnceInv, OnTheAir, bridge
<1>5. ASSUME looped, LoopTick, UNCHANGED looped
      PROVE  OnceInv'
  <2>1. /\ Tick /\ UNCHANGED <<ready, ends, fresh, carrying, bridged>>
        /\ OnTheAir
    BY <1>5 DEF LoopTick, Tick, OnceInv
  <2>2. CopiesStopped'
    <3> SUFFICES ASSUME NEW copy \in abroad'
                 PROVE  Stopped(copy.payload, copy.leg, copy.stream, copy.left)'
      BY DEF CopiesStopped
    <3>1. PICK c \in abroad : c.left > 0 /\ copy = [c EXCEPT !.left = c.left - 1]
      BY <1>5 DEF LoopTick
    <3>2. /\ c.payload \in Payloads /\ c.leg \in Legs
          /\ c.stream \in Streams /\ c.left \in Nat
          /\ c = [leg |-> c.leg, stream |-> c.stream,
                  payload |-> c.payload, left |-> c.left]
      BY LoopAssumption DEF LoopTypeOK
    <3>3. Stopped(c.payload, c.leg, c.stream, c.left)
      BY <1>5 DEF OnceInv, CopiesStopped
    <3>4. Stopped(c.payload, c.leg, c.stream, c.left - 1)'
      BY <2>1, <3>1, <3>2, <3>3, TickStops
    <3>5. /\ copy.payload = c.payload /\ copy.leg = c.leg
          /\ copy.stream = c.stream /\ copy.left = c.left - 1
      BY <3>1, <3>2
    <3> QED
      BY <3>4, <3>5 DEF Stopped, Caught
  <2>3. WritesStopped'
    <3> SUFFICES ASSUME NEW s \in Sources, NEW r \in sending'[s].todo \cap Legs
                 PROVE  Stopped(carrying[s], r, sending[s].stream,
                                sending[s].left + EchoTicks)'
      BY DEF WritesStopped
    <3>1. sending[s] \in Writing /\ carrying[s] \in Payloads
      BY DEF BridgeTypeOK, LoopTypeOK
    <3>2. sending'[s] = [sending[s] EXCEPT !.left = Less(sending[s].left)]
      BY <2>1 DEF Tick
    <3>3. /\ sending'[s].todo = sending[s].todo
          /\ sending'[s].stream = sending[s].stream
          /\ sending'[s].left = Less(sending[s].left)
      BY <3>1, <3>2 DEF Writing
    <3>4. sending[s].left \in Nat /\ sending[s].left > 0
      BY <2>1, <3>1, <3>3, TickAssumption DEF Tick, Writing
    <3>5. sending'[s].left + EchoTicks = (sending[s].left + EchoTicks) - 1
      BY <3>3, <3>4, LoopAssumption DEF Less
    <3>6. Stopped(carrying[s], r, sending[s].stream, sending[s].left + EchoTicks)
      BY <1>5, <3>3 DEF OnceInv, WritesStopped
    <3>7. /\ sending[s].stream \in Streams /\ EchoTicks \in Nat
          /\ sending[s].left + EchoTicks \in Nat
          /\ sending[s].left + EchoTicks > 0
      BY <3>1, <3>4, LoopAssumption DEF Writing
    <3> DEFINE n == sending[s].left + EchoTicks
    <3>8. Stopped(carrying[s], r, sending[s].stream, n)
      BY <3>6
    <3>9. n \in Nat /\ n > 0
      BY <3>7
    <3>10. sending'[s].left + EchoTicks = n - 1
      BY <3>5
    <3>11. ASSUME NEW p, NEW st, NEW m,
                  p = carrying[s], st = sending[s].stream, m = n,
                  Stopped(p, r, st, m)
           PROVE  Stopped(p, r, st, m - 1)'
      BY <2>1, <3>1, <3>7, <3>9, <3>11, TickStops
    <3> QED
      BY <2>1, <3>3, <3>8, <3>10, <3>11 DEF Stopped, Caught
  <2> QED
    BY <1>5, <2>1, <2>2, <2>3, TickStops DEF OnceInv
<1>6. CASE UNCHANGED loopVars
  BY <1>6
  DEF loopVars, loops, bridgeVars, bridge, OnceInv, OnTheAir, CopiesStopped,
      WritesStopped, Stopped, Caught
<1> QED
  BY <1>1, <1>2, <1>3, <1>4, <1>5, <1>6 DEF LoopNext, Echoes

(* However the networks are linked elsewhere, no frame of a radio is       *)
(* bridged twice, as long as what comes back does so within the deadlines. *)
THEOREM NoFrameGoesRound == LoopSpec => []BridgedOnce
<1>1. BridgeTypeOK /\ ArbitrationInv /\ LoopTypeOK /\ OnceInv /\ [LoopNext]_loopVars
        => (BridgeTypeOK /\ ArbitrationInv /\ LoopTypeOK /\ OnceInv)'
  BY LoopStep, LoopNextType, BridgeNextType, NextArbitration, OnceNext
<1>2. OnceInv => BridgedOnce
  BY DEF OnceInv, BridgedOnce
<1> QED
  BY <1>1, <1>2, LoopInitType, OnceInit, PTL DEF LoopSpec
=============================================================================
