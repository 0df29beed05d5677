----------------------------- MODULE AIOperator -----------------------------
(***************************************************************************)
(* Confirmed plans and timed actions of the AI operator: ai_operator.go.   *)
(*                                                                         *)
(* A chat issues a plan under a one-use token; confirming it runs its      *)
(* actions one after the other.  A delayed action, and the reversal of one *)
(* with a duration, becomes a schedule: an entry of o.schedules, of the    *)
(* file and a timer.  Plans, schedules and timers change under o.mu, the   *)
(* actions themselves run outside it: between the steps of one request     *)
(* there are other requests, timers that go off, cancellations and the end *)
(* of the process.                                                         *)
(*                                                                         *)
(* What an action does to the gateway is left out: it succeeds or fails.   *)
(* So are the model's answer, the two seconds between chats and the seven  *)
(* days a schedule is limited to: validated actions never exceed them.     *)
(***************************************************************************)
EXTENDS Naturals, Sequences, FiniteSets, Functions

CONSTANTS
  Plans,         \* the action lists Gemini proposes: sequences of
                 \* [delay |-> ticks, duration |-> ticks]
  MaxSchedules,  \* 32
  PlanTicks,     \* a plan is valid for 10 min
  GraceTicks,    \* restoreSchedules takes what is at most 5 min late
  MaxTime,       \* bound: the clock stops at it, for all later times
  MaxPlans,      \* bound: plans issued
  MaxIds,        \* bound: actions that are numbered
  MaxFailures,   \* bound: failed writes
  MaxCrashes     \* bound: ends of the process

ASSUME LimitAssumption ==
  /\ MaxSchedules \in Nat \ {0}
  /\ PlanTicks \in Nat /\ GraceTicks \in Nat

ASSUME BoundAssumption == MaxIds \in Nat

Tokens == 1 .. MaxPlans
Ids == 1 .. MaxIds
Times == 0 .. MaxTime

VARIABLES
  now, up,
  plans,      \* o.plans: token -> [actions, expires]
  issued,     \* tokens issued so far
  requests,   \* token -> [rest, at]: confirmed plans, what is left of them
              \* and the action they are at, 0 if none
  schedules,  \* o.schedules: id -> [due, duration, of]; of is the action
              \* it reverses, 0 if none
  armed,      \* ids whose timer has not gone off
  file,       \* the schedules in ai-schedules.json
  running,    \* id -> [step, duration, of]: actions under way
  nextId,
  failures, crashes,
  ran,        \* history: how often each action was carried out
  accepted,   \* history: ids that were scheduled
  cancelled,  \* history: ids whose cancellation was answered with success
  unsaved,    \* history: ids whose removal from the file failed
  owed,       \* history: timed actions done and not yet reversed
  excused     \* history: something happened that may cost a reversal

service == <<plans, issued, requests, running>>
store == <<schedules, armed, file>>
ghosts == <<ran, accepted, cancelled, unsaved, owed, excused>>
vars == <<now, up, service, store, nextId, failures, crashes, ghosts>>

Schedule == [due: Times, duration: Nat, of: 0 .. MaxIds]
With(f, id, value) == [x \in DOMAIN f \cup {id} |-> IF x = id THEN value ELSE f[x]]
Without(f, ids) == Restrict(f, DOMAIN f \ ids)

TypeOK ==
  /\ now \in Times /\ up \in BOOLEAN
  /\ \A f \in {schedules, file} :
       /\ DOMAIN f \subseteq Ids
       /\ Cardinality(DOMAIN f) <= MaxSchedules
       /\ \A id \in DOMAIN f : f[id] \in Schedule
  /\ armed \subseteq DOMAIN schedules
  /\ DOMAIN plans \subseteq 1 .. issued
  /\ DOMAIN requests \subseteq 1 .. issued
  /\ DOMAIN plans \cap DOMAIN requests = {}
  /\ DOMAIN running \subseteq Ids
  /\ \A id \in DOMAIN running :
       running[id].step \in {"fired", "execute", "reverse"}
  /\ nextId \in 1 .. MaxIds + 1

None == [x \in {} |-> x]

Init ==
  /\ now = 0 /\ up = TRUE
  /\ plans = None /\ issued = 0 /\ requests = None
  /\ schedules = None /\ armed = {} /\ file = None
  /\ running = None /\ nextId = 1
  /\ failures = 0 /\ crashes = 0
  /\ ran = [id \in Ids |-> 0]
  /\ accepted = {} /\ cancelled = {} /\ unsaved = {} /\ owed = {}
  /\ excused = FALSE

-----------------------------------------------------------------------------
\* A time from now, as far as the clock goes.
In(ticks) == IF now + ticks < MaxTime THEN now + ticks ELSE MaxTime

\* A write of ai-schedules.json that fails leaves the file as it was.
FailedWrite ==
  /\ failures < MaxFailures
  /\ failures' = failures + 1

\* handleChat with a proposal that has actions.
Chat(actions) ==
  /\ up /\ issued < MaxPlans
  /\ issued' = issued + 1
  /\ LET expired == {t \in DOMAIN plans : plans[t].expires <= now}
     IN plans' = With(Without(plans, expired), issued',
                      [actions |-> actions, expires |-> now + PlanTicks])
  /\ UNCHANGED <<now, up, requests, store, running, nextId, failures, crashes, ghosts>>

\* handleExecute up to its loop: any use of the token deletes it, own says
\* whether it is the user's the plan was made for.
Confirm(t, own) ==
  /\ up /\ t \in DOMAIN plans
  /\ plans' = Without(plans, {t})
  /\ IF own /\ plans[t].expires > now
     THEN requests' = With(requests, t, [rest |-> plans[t].actions, at |-> 0])
     ELSE UNCHANGED requests
  /\ UNCHANGED <<now, up, issued, store, running, nextId, failures, crashes, ghosts>>

\* addSchedule: the entry is taken back when it cannot be written.
AddSchedule(schedule) ==
  /\ nextId \in Ids
  /\ nextId' = nextId + 1
  /\ \/ /\ Cardinality(DOMAIN schedules) < MaxSchedules
        /\ schedules' = With(schedules, nextId, schedule)
        /\ file' = schedules'
        /\ armed' = armed \cup {nextId}
        /\ accepted' = accepted \cup {nextId}
        /\ UNCHANGED <<failures, excused>>
     \/ /\ Cardinality(DOMAIN schedules) < MaxSchedules
        /\ FailedWrite
        /\ excused' = TRUE
        /\ UNCHANGED <<store, accepted>>
     \/ /\ Cardinality(DOMAIN schedules) >= MaxSchedules
        /\ excused' = TRUE
        /\ UNCHANGED <<store, accepted, failures>>

\* The loop of handleExecute comes to its next action: a delayed one is
\* scheduled, another is carried out before the loop goes on.
Proceed(t) ==
  /\ t \in DOMAIN requests
  /\ requests[t].rest # <<>>
  /\ requests[t].at \notin DOMAIN running
  /\ nextId \in Ids
  /\ LET action == Head(requests[t].rest)
         later(at) == requests' = [requests EXCEPT ![t] = [rest |-> Tail(@.rest), at |-> at]]
     IN \/ /\ action.delay > 0
           /\ AddSchedule([due |-> In(action.delay), duration |-> action.duration, of |-> 0])
           /\ later(0)
           /\ UNCHANGED running
        \/ /\ action.delay = 0
           /\ running' = With(running, nextId, [step |-> "execute", duration |-> action.duration, of |-> 0])
           /\ nextId' = nextId + 1
           /\ later(nextId)
           /\ UNCHANGED <<store, failures, accepted, excused>>
  /\ UNCHANGED <<now, up, plans, issued, crashes, ran, cancelled, unsaved, owed>>

\* A timer goes off; its goroutine has yet to get o.mu.
Fire(id) ==
  /\ id \in armed
  /\ schedules[id].due <= now
  /\ armed' = armed \ {id}
  /\ running' = With(running, id, [step |-> "fired", duration |-> schedules[id].duration, of |-> schedules[id].of])
  /\ UNCHANGED <<now, up, plans, issued, requests, schedules, file, nextId, failures, crashes, ghosts>>

\* Fault: the timer's function carries out what it was armed with.
RunSchedule_AsArmed(id) ==
  /\ id \in DOMAIN running /\ running[id].step = "fired"
  /\ schedules' = Without(schedules, {id})
  /\ file' = schedules'
  /\ running' = [running EXCEPT ![id].step = "execute"]
  /\ UNCHANGED <<now, up, plans, issued, requests, armed, nextId, crashes, failures, ghosts>>

\* Fault: the entry leaves the file with the next write only.
RunSchedule_NotSaved(id) ==
  /\ id \in DOMAIN running /\ running[id].step = "fired"
  /\ \/ /\ id \notin DOMAIN schedules
        /\ running' = Without(running, {id})
        /\ UNCHANGED schedules
     \/ /\ id \in DOMAIN schedules
        /\ schedules' = Without(schedules, {id})
        /\ running' = [running EXCEPT ![id].step = "execute"]
  /\ UNCHANGED <<now, up, plans, issued, requests, armed, file, nextId, crashes, failures, ghosts>>

\* runSchedule under o.mu: nothing to do when the entry was cancelled; the
\* error of the write is dropped.
RunSchedule(id) ==
  /\ id \in DOMAIN running /\ running[id].step = "fired"
  /\ \/ /\ id \notin DOMAIN schedules
        /\ running' = Without(running, {id})
        /\ UNCHANGED <<schedules, file, failures, unsaved>>
     \/ /\ id \in DOMAIN schedules
        /\ schedules' = Without(schedules, {id})
        /\ running' = [running EXCEPT ![id].step = "execute"]
        /\ \/ file' = schedules' /\ UNCHANGED <<failures, unsaved>>
           \/ FailedWrite /\ unsaved' = unsaved \cup {id} /\ UNCHANGED file
  /\ UNCHANGED <<now, up, plans, issued, requests, armed, nextId, crashes, ran, accepted, cancelled, owed, excused>>

\* Fault: only the loop of handleExecute schedules reversals.
Execute_TimerForgets(id) ==
  /\ id \in DOMAIN running /\ running[id].step = "execute"
  /\ ran' = [ran EXCEPT ![id] = @ + 1]
  /\ \/ /\ running[id].duration > 0
        /\ id \notin accepted
        /\ running' = [running EXCEPT ![id].step = "reverse"]
        /\ owed' = (owed \cup {id}) \ {running[id].of}
     \/ /\ running' = Without(running, {id})
        /\ owed' = IF running[id].duration > 0 THEN owed \cup {id} ELSE owed \ {running[id].of}
  /\ UNCHANGED <<now, up, plans, issued, requests, store, nextId, failures, crashes, accepted, cancelled, unsaved, excused>>

\* executeAction, outside the lock: it succeeds, and then a duration calls
\* for a reversal, or fails and is logged or reported.
Execute(id) ==
  /\ id \in DOMAIN running /\ running[id].step = "execute"
  /\ ran' = [ran EXCEPT ![id] = @ + 1]
  /\ \/ /\ running[id].duration > 0
        /\ running' = [running EXCEPT ![id].step = "reverse"]
        /\ owed' = (owed \cup {id}) \ {running[id].of}
     \/ /\ running' = Without(running, {id})
        /\ owed' = owed \ {running[id].of}
  /\ UNCHANGED <<now, up, plans, issued, requests, store, nextId, failures, crashes, accepted, cancelled, unsaved, excused>>

\* The reversal of a timed action is scheduled; an error is dropped.
Reverse(id) ==
  /\ id \in DOMAIN running /\ running[id].step = "reverse"
  /\ AddSchedule([due |-> In(running[id].duration), duration |-> 0, of |-> id])
  /\ running' = Without(running, {id})
  /\ UNCHANGED <<now, up, plans, issued, requests, crashes, ran, cancelled, unsaved, owed>>

\* Fault: the entry is left in the file.
Cancel_NotSaved(id) ==
  /\ up
  /\ schedules' = Without(schedules, {id})
  /\ armed' = armed \ {id}
  /\ cancelled' = IF id \in DOMAIN schedules THEN cancelled \cup {id} ELSE cancelled
  /\ excused' = (excused \/ id \in DOMAIN schedules)
  /\ UNCHANGED <<now, up, service, file, nextId, failures, crashes, ran, accepted, unsaved, owed>>

\* handleSchedules: the timer is stopped, the entry is deleted and what is
\* left is written, whether the id was known or not.
Cancel(id) ==
  /\ up
  /\ schedules' = Without(schedules, {id})
  /\ armed' = armed \ {id}
  /\ \/ /\ file' = schedules'
        /\ cancelled' = IF id \in DOMAIN schedules THEN cancelled \cup {id} ELSE cancelled
        /\ UNCHANGED failures
     \/ /\ FailedWrite
        /\ UNCHANGED <<file, cancelled>>
  /\ excused' = (excused \/ id \in DOMAIN schedules)
  /\ UNCHANGED <<now, up, service, nextId, crashes, ran, accepted, unsaved, owed>>

\* The process ends, gracefully or not: only the file is left.
Crash ==
  /\ up /\ crashes < MaxCrashes
  /\ up' = FALSE /\ crashes' = crashes + 1
  /\ plans' = None /\ requests' = None /\ running' = None
  /\ schedules' = None /\ armed' = {}
  /\ excused' = (excused \/ running # None)
  /\ UNCHANGED <<now, issued, file, nextId, failures, ran, accepted, cancelled, unsaved, owed>>

\* Fault: the restored schedules get no timers.
Restore_Unarmed ==
  /\ ~up
  /\ up' = TRUE
  /\ LET late == {id \in DOMAIN file : file[id].due + GraceTicks < now}
     IN /\ schedules' = Without(file, late)
        /\ armed' = {}
        /\ excused' = (excused \/ late # {})
  /\ \/ file' = schedules' /\ UNCHANGED failures
     \/ FailedWrite /\ UNCHANGED file
  /\ UNCHANGED <<now, service, nextId, crashes, ran, accepted, cancelled, unsaved, owed>>

\* restoreSchedules of the next process.
Restore ==
  /\ ~up
  /\ up' = TRUE
  /\ LET late == {id \in DOMAIN file : file[id].due + GraceTicks < now}
     IN /\ schedules' = Without(file, late)
        /\ armed' = DOMAIN schedules'
        /\ excused' = (excused \/ late # {})
  /\ \/ file' = schedules' /\ UNCHANGED failures
     \/ FailedWrite /\ UNCHANGED file
  /\ UNCHANGED <<now, service, nextId, crashes, ran, accepted, cancelled, unsaved, owed>>

Tick ==
  /\ now < MaxTime
  /\ now' = now + 1
  /\ UNCHANGED <<up, service, store, nextId, failures, crashes, ghosts>>

Next ==
  \/ \E actions \in Plans : Chat(actions)
  \/ \E t \in Tokens : Proceed(t) \/ \E own \in BOOLEAN : Confirm(t, own)
  \/ \E id \in Ids :
       \/ Fire(id) \/ RunSchedule(id) \/ Execute(id) \/ Reverse(id)
       \/ Cancel(id)
  \/ Crash \/ Restore \/ Tick

Spec == Init /\ [][Next]_vars

\* Time passes, timers go off when they are due, goroutines get to run, and a
\* process that ended is started again (systemd).
FairSpec ==
  /\ Spec
  /\ WF_vars(Tick) /\ WF_vars(Restore)
  /\ \A t \in Tokens : WF_vars(Proceed(t))
  /\ \A id \in Ids :
       WF_vars(Fire(id) \/ RunSchedule(id) \/ Execute(id) \/ Reverse(id))

-----------------------------------------------------------------------------
(* Properties                                                              *)

\* A timed action is carried out once, although its timer, a restart that
\* reads it from the file and other requests' writes are about at the same
\* time.  Only one whose removal could not be written may run again.
RunsOnce == \A id \in Ids : ran[id] > 1 => id \in unsaved

\* A cancellation that was answered with success stands: the action is not
\* carried out later, neither by a timer that had gone off already nor after
\* a restart.
CancelStands == [][\A id \in cancelled : ran'[id] = ran[id]]_vars

\* docs/AI_OPERATOR.md:26: a timed action "can automatically reverse at the
\* requested duration".  It does, also when the process is restarted
\* meanwhile, unless the reversal was refused or could not be written,
\* somebody cancelled something, or an end of the process came between the
\* action and its reversal or lasted longer than the grace.  (When the numbers
\* of the model have run out nothing more is scheduled.)
ReversalRuns ==
  \A id \in Ids :
    id \in owed ~> (id \notin owed \/ excused \/ nextId \notin Ids)
=============================================================================
