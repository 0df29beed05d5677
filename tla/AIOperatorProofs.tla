-------------------------- MODULE AIOperatorProofs --------------------------
(* Proofs about AIOperator, for any plans, limits and number of actions.   *)
EXTENDS AIOperator, TLAPS

LEMMA WithoutFacts ==
  ASSUME NEW f, NEW ids
  PROVE  /\ DOMAIN Without(f, ids) = DOMAIN f \ ids
         /\ \A x \in DOMAIN f \ ids : Without(f, ids)[x] = f[x]
BY DEF Without, Restrict

LEMMA WithFacts ==
  ASSUME NEW f, NEW id, NEW value
  PROVE  /\ DOMAIN With(f, id, value) = DOMAIN f \cup {id}
         /\ \A x \in DOMAIN f \ {id} : With(f, id, value)[x] = f[x]
         /\ With(f, id, value)[id] = value
BY DEF With

-----------------------------------------------------------------------------
Executing(id) == id \in DOMAIN running /\ running[id].step = "execute"
Stored == DOMAIN schedules \cup DOMAIN file

(***************************************************************************)
(* An action that is being carried out has left the memory, and has left   *)
(* the file too unless that write failed; one that was carried out or      *)
(* cancelled is nowhere to be carried out from.  Numbers that were not     *)
(* given out yet are in use nowhere.                                       *)
(***************************************************************************)
Numbered ==
  /\ nextId \in Nat /\ nextId > 0
  /\ ran \in [Ids -> Nat]
  /\ \A id \in Stored \cup DOMAIN running \cup cancelled : id \in Ids /\ id < nextId
  /\ \A id \in Ids : id >= nextId => ran[id] = 0

Removed == \A id \in Ids : Executing(id) =>
             id \notin DOMAIN schedules /\ (id \in DOMAIN file => id \in unsaved)

Finished == \A id \in Ids : ran[id] > 0 =>
              id \in unsaved \/ (id \notin Stored /\ ~Executing(id))

Gone == \A id \in cancelled : id \notin Stored /\ ~Executing(id)

OnceInv == Numbered /\ Removed /\ Finished /\ Gone /\ RunsOnce

\* A timer that has not gone off belongs to an entry, and nothing of that
\* number is under way; nothing at all is while the process is down.
Quiet ==
  /\ armed \subseteq DOMAIN schedules /\ armed \cap DOMAIN running = {}
  /\ ~up => DOMAIN running = {} /\ DOMAIN schedules = {} /\ DOMAIN requests = {}

LEMMA AddedOnce ==
  ASSUME OnceInv, NEW schedule, AddSchedule(schedule),
         ran' = ran, cancelled' = cancelled, unsaved' = unsaved,
         DOMAIN running' \subseteq DOMAIN running,
         \A id \in DOMAIN running' : running'[id] = running[id]
  PROVE  OnceInv'
<1>1. nextId \in Ids /\ nextId' = nextId + 1
  BY DEF AddSchedule
<1>2. \/ schedules' = schedules /\ file' = file
      \/ schedules' = With(schedules, nextId, schedule) /\ file' = schedules'
  BY DEF AddSchedule, store
<1>. DOMAIN With(schedules, nextId, schedule) = DOMAIN schedules \cup {nextId}
  BY WithFacts
<1>3. /\ DOMAIN schedules' \subseteq DOMAIN schedules \cup {nextId}
      /\ DOMAIN file' \subseteq Stored \cup {nextId}
      /\ \A id : id # nextId /\ id \in DOMAIN file' => id \in DOMAIN file \/ id \in DOMAIN schedules
  BY <1>2 DEF Stored
<1>4. \A id : Executing(id)' => Executing(id) /\ id < nextId
  BY DEF Executing, OnceInv, Numbered, Ids
<1>5. Numbered'
  BY <1>1, <1>3 DEF OnceInv, Numbered, Stored, Ids
<1>6. \A id \in Ids : id < nextId /\ id \in Stored' => id \in Stored
  BY <1>1, <1>3 DEF Stored, Ids
<1>7. Removed'
  BY <1>1, <1>3, <1>4 DEF OnceInv, Removed, Stored, Ids
<1>8. Finished'
  <2>1. ASSUME NEW id \in Ids, ran'[id] > 0, id \notin unsaved'
        PROVE  id \notin Stored' /\ ~Executing(id)'
    <3>1. id < nextId
      BY <1>1, <2>1 DEF OnceInv, Numbered, Ids
    <3>2. id \notin Stored /\ ~Executing(id)
      BY <2>1 DEF OnceInv, Finished
    <3> QED
      BY <1>4, <1>6, <3>1, <3>2
  <2> QED
    BY <2>1 DEF Finished
<1>9. Gone'
  BY <1>4, <1>6 DEF OnceInv, Gone, Numbered
<1> QED
  BY <1>5, <1>7, <1>8, <1>9 DEF OnceInv, RunsOnce

(* Memory and file lose entries, and nothing is begun.                     *)
LEMMA LostOnce ==
  ASSUME OnceInv,
         nextId' = nextId, ran' = ran, unsaved' = unsaved,
         Stored' \subseteq Stored,
         \A id \in Ids : Executing(id)' =>
           /\ Executing(id) /\ id \notin DOMAIN schedules'
           /\ id \in DOMAIN file' => id \in DOMAIN file \/ id \in unsaved,
         DOMAIN running' \subseteq DOMAIN running \cup DOMAIN schedules,
         \A id \in cancelled' : id \in cancelled \/ (id \in Stored /\ id \notin Stored' /\ ~Executing(id)')
  PROVE  OnceInv'
<1>1. Numbered'
  BY DEF OnceInv, Numbered, Stored
<1>2. Removed'
  BY DEF OnceInv, Removed
<1>3. Finished'
  BY DEF OnceInv, Finished
<1>4. Gone'
  BY DEF OnceInv, Gone, Numbered
<1> QED
  BY <1>1, <1>2, <1>3, <1>4 DEF OnceInv, RunsOnce

LEMMA QuietKept == OnceInv /\ Quiet /\ [Next]_vars => Quiet'
<1> SUFFICES ASSUME OnceInv, Quiet, [Next]_vars PROVE Quiet'
  OBVIOUS
<1>n. nextId \notin DOMAIN running /\ nextId \notin DOMAIN schedules
  BY DEF OnceInv, Numbered, Stored
<1>a. ASSUME NEW schedule, AddSchedule(schedule), up
      PROVE  /\ DOMAIN schedules \subseteq DOMAIN schedules'
             /\ armed' \subseteq DOMAIN schedules'
             /\ armed' \cap DOMAIN running = {}
  <2>1. DOMAIN With(schedules, nextId, schedule) = DOMAIN schedules \cup {nextId}
    BY WithFacts
  <2> QED
    BY <1>n, <1>a, <2>1 DEF AddSchedule, store, Quiet
<1>1. ASSUME NEW t \in Tokens, Proceed(t) PROVE Quiet'
  <2> DEFINE action == Head(requests[t].rest)
  <2>1. up /\ up' = up
    BY <1>1 DEF Proceed, Quiet
  <2>2. CASE /\ AddSchedule([due |-> In(action.delay), duration |-> action.duration, of |-> 0])
             /\ UNCHANGED running
    BY <2>1, <2>2, <1>a DEF Quiet
  <2>3. CASE /\ running' = With(running, nextId, [step |-> "execute", duration |-> action.duration, of |-> 0])
             /\ UNCHANGED store
    <3>1. DOMAIN running' = DOMAIN running \cup {nextId}
      BY <2>3 DEF With
    <3> QED
      BY <1>n, <2>1, <2>3, <3>1 DEF store, Quiet
  <2> QED
    BY <1>1, <2>2, <2>3 DEF Proceed
<1>2. ASSUME NEW id \in Ids, Fire(id) PROVE Quiet'
  <2>1. DOMAIN running' = DOMAIN running \cup {id}
    BY <1>2 DEF Fire, With
  <2> QED
    BY <1>2, <2>1 DEF Fire, Quiet
<1>3. ASSUME NEW id \in Ids, RunSchedule(id) \/ Execute(id) \/ Cancel(id) PROVE Quiet'
  <2>1. DOMAIN Without(schedules, {id}) = DOMAIN schedules \ {id}
    BY WithoutFacts
  <2>2. RunSchedule(id) \/ Execute(id) => DOMAIN running' \subseteq DOMAIN running
    BY DEF RunSchedule, Execute, Without, Restrict
  <2>3. CASE RunSchedule(id)
    BY <2>1, <2>2, <2>3 DEF RunSchedule, Quiet
  <2>4. CASE Execute(id)
    BY <2>2, <2>4 DEF Execute, store, Quiet
  <2>5. CASE Cancel(id)
    BY <2>1, <2>5 DEF Cancel, service, Quiet
  <2> QED
    BY <1>3, <2>3, <2>4, <2>5
<1>4. ASSUME NEW id \in Ids, Reverse(id) PROVE Quiet'
  <2>1. up /\ up' = up /\ DOMAIN running' \subseteq DOMAIN running
    BY <1>4 DEF Reverse, Quiet, Without, Restrict
  <2>2. AddSchedule([due |-> In(running[id].duration), duration |-> 0, of |-> id])
    BY <1>4 DEF Reverse
  <2> QED
    BY <2>1, <2>2, <1>a DEF Quiet
<1>5. CASE Crash
  BY <1>5 DEF Crash, None, Quiet
<1>6. CASE Restore
  BY <1>6 DEF Restore, service, Quiet
<1>7. CASE Tick \/ UNCHANGED vars \/ (\E actions \in Plans : Chat(actions))
           \/ \E t \in Tokens, own \in BOOLEAN : Confirm(t, own)
  <2>1. CASE Tick
    BY <2>1 DEF Tick, service, store, Quiet
  <2>2. CASE UNCHANGED vars
    BY <2>2 DEF vars, service, store, Quiet
  <2>3. ASSUME NEW actions \in Plans, Chat(actions) PROVE Quiet'
    BY <2>3 DEF Chat, store, Quiet
  <2>4. ASSUME NEW t \in Tokens, NEW own \in BOOLEAN, Confirm(t, own) PROVE Quiet'
    BY <2>4 DEF Confirm, store, Quiet
  <2> QED
    BY <1>7, <2>1, <2>2, <2>3, <2>4
<1> QED
  BY <1>1, <1>2, <1>3, <1>4, <1>5, <1>6, <1>7 DEF Next

LEMMA OnceKept == OnceInv /\ Quiet /\ [Next]_vars => OnceInv'
<1> SUFFICES ASSUME OnceInv, Quiet, [Next]_vars PROVE OnceInv'
  OBVIOUS
<1>1. ASSUME NEW t \in Tokens, Proceed(t) PROVE OnceInv'
  <2> DEFINE action == Head(requests[t].rest)
  <2>1. CASE /\ AddSchedule([due |-> In(action.delay), duration |-> action.duration, of |-> 0])
             /\ UNCHANGED running
    <3> HIDE DEF action
    <3> QED
      BY <1>1, <2>1, AddedOnce DEF Proceed
  <2>2. CASE /\ running' = With(running, nextId, [step |-> "execute", duration |-> action.duration, of |-> 0])
             /\ nextId' = nextId + 1
             /\ UNCHANGED <<store, failures, accepted, excused>>
    <3>1. /\ nextId \in Ids /\ ran' = ran /\ cancelled' = cancelled /\ unsaved' = unsaved
          /\ schedules' = schedules /\ file' = file
      BY <1>1, <2>2 DEF Proceed, store
    <3>2. /\ DOMAIN running' = DOMAIN running \cup {nextId}
          /\ \A id \in DOMAIN running \ {nextId} : running'[id] = running[id]
      BY <2>2 DEF With
    <3>3. \A id : Executing(id)' => Executing(id) \/ id = nextId
      BY <3>2 DEF Executing
    <3>4. Numbered'
      BY <2>2, <3>1, <3>2 DEF OnceInv, Numbered, Stored, Ids
    <3>5. nextId \notin Stored /\ nextId \notin cancelled /\ ran[nextId] = 0
      BY <3>1 DEF OnceInv, Numbered
    <3>6. Removed'
      BY <3>1, <3>3, <3>5 DEF OnceInv, Removed, Stored
    <3>7. Finished'
      BY <3>1, <3>3, <3>5 DEF OnceInv, Finished, Stored
    <3>8. Gone'
      BY <3>1, <3>3, <3>5 DEF OnceInv, Gone, Stored
    <3> QED
      BY <3>1, <3>4, <3>6, <3>7, <3>8 DEF OnceInv, RunsOnce
  <2> QED
    BY <1>1, <2>1, <2>2 DEF Proceed
<1>2. ASSUME NEW id \in Ids, Fire(id) PROVE OnceInv'
  <2>1. /\ DOMAIN running' = DOMAIN running \cup {id} /\ running'[id].step = "fired"
        /\ \A x \in DOMAIN running \ {id} : running'[x] = running[x]
    BY <1>2 DEF Fire, With
  <2>2. id \in DOMAIN schedules
    BY <1>2 DEF Fire, Quiet
  <2>3. \A x : Executing(x)' => Executing(x)
    BY <2>1 DEF Executing
  <2>4. UNCHANGED <<nextId, ran, cancelled, unsaved, schedules, file>>
    BY <1>2 DEF Fire, ghosts
  <2> QED
    BY <2>1, <2>2, <2>3, <2>4, LostOnce DEF OnceInv, Removed, Stored
<1>3. ASSUME NEW id \in Ids, RunSchedule(id) PROVE OnceInv'
  <2>1. CASE id \notin DOMAIN schedules
    <3>1. /\ DOMAIN running' \subseteq DOMAIN running
          /\ \A x \in DOMAIN running' : running'[x] = running[x]
      BY <1>3, <2>1 DEF RunSchedule, Without, Restrict
    <3>2. UNCHANGED <<nextId, ran, cancelled, unsaved, schedules, file>>
      BY <1>3, <2>1 DEF RunSchedule
    <3> QED
      BY <3>1, <3>2, LostOnce DEF OnceInv, Removed, Executing, Stored
  <2>2. CASE id \in DOMAIN schedules
    <3>1. /\ DOMAIN schedules' = DOMAIN schedules \ {id}
          /\ \/ file' = schedules' /\ unsaved' = unsaved
             \/ file' = file /\ unsaved' = unsaved \cup {id}
          /\ UNCHANGED <<nextId, ran, cancelled>>
      BY <1>3, <2>2, WithoutFacts DEF RunSchedule
    <3>2. /\ DOMAIN running' = DOMAIN running
          /\ \A x \in DOMAIN running \ {id} : running'[x] = running[x]
      BY <1>3, <2>2 DEF RunSchedule
    <3>3. \A x : Executing(x)' => Executing(x) \/ x = id
      BY <3>2 DEF Executing
    <3>4. Numbered'
      BY <3>1, <3>2 DEF OnceInv, Numbered, Stored
    <3>5. Removed'
      BY <3>1, <3>3 DEF OnceInv, Removed
    <3>6. Finished'
      BY <2>2, <3>1, <3>3 DEF OnceInv, Finished, Stored
    <3>7. Gone'
      BY <2>2, <3>1, <3>3 DEF OnceInv, Gone, Stored
    <3> QED
      BY <3>1, <3>4, <3>5, <3>6, <3>7 DEF OnceInv, RunsOnce
  <2> QED
    BY <2>1, <2>2
<1>4. ASSUME NEW id \in Ids, Execute(id) PROVE OnceInv'
  <2>1. /\ ran' = [ran EXCEPT ![id] = @ + 1]
        /\ UNCHANGED <<nextId, cancelled, unsaved, schedules, file>>
        /\ Executing(id)
    BY <1>4 DEF Execute, store, Executing
  <2>2. /\ DOMAIN running' \subseteq DOMAIN running
        /\ \A x \in DOMAIN running' : running'[x] = running[x] \/ running'[x].step = "reverse"
        /\ id \in DOMAIN running' => running'[id].step = "reverse"
    <3>1. CASE running' = Without(running, {id})
      BY <3>1 DEF Without, Restrict
    <3>2. CASE running' = [running EXCEPT ![id].step = "reverse"]
      BY <3>2
    <3> QED
      BY <1>4, <3>1, <3>2 DEF Execute
  <2>3. (\A x : Executing(x)' => Executing(x)) /\ ~Executing(id)'
    BY <2>2 DEF Executing
  <2>4. ran \in [Ids -> Nat] /\ id < nextId
    BY <2>1 DEF OnceInv, Numbered, Executing
  <2>5. Numbered'
    BY <2>1, <2>2, <2>4 DEF OnceInv, Numbered, Stored, Ids
  <2>6. Removed'
    BY <2>1, <2>3 DEF OnceInv, Removed
  <2>7. Finished'
    BY <2>1, <2>3, <2>4 DEF OnceInv, Finished, Removed, Stored
  <2>8. Gone'
    BY <2>1, <2>3 DEF OnceInv, Gone, Stored
  <2>9. RunsOnce'
    BY <2>1, <2>4 DEF OnceInv, RunsOnce, Finished
  <2> QED
    BY <2>5, <2>6, <2>7, <2>8, <2>9 DEF OnceInv
<1>5. ASSUME NEW id \in Ids, Reverse(id) PROVE OnceInv'
  <2>1. /\ DOMAIN running' \subseteq DOMAIN running
        /\ \A x \in DOMAIN running' : running'[x] = running[x]
    BY <1>5 DEF Reverse, Without, Restrict
  <2> QED
    BY <1>5, <2>1, AddedOnce DEF Reverse
<1>6. ASSUME NEW id \in Ids, Cancel(id) PROVE OnceInv'
  <2>1. /\ DOMAIN schedules' = DOMAIN schedules \ {id}
        /\ \/ /\ file' = schedules'
              /\ cancelled' = IF id \in DOMAIN schedules THEN cancelled \cup {id} ELSE cancelled
           \/ file' = file /\ cancelled' = cancelled
        /\ UNCHANGED <<nextId, ran, unsaved, running>>
    BY <1>6, WithoutFacts DEF Cancel, service
  <2>2. \A x : Executing(x)' <=> Executing(x)
    BY <2>1 DEF Executing
  <2>3. id \in DOMAIN schedules => ~Executing(id)
    BY DEF OnceInv, Removed
  <2> QED
    BY <2>1, <2>2, <2>3, LostOnce DEF OnceInv, Removed, Stored
<1>7. CASE Crash
  BY <1>7, LostOnce DEF Crash, None, Executing, Stored
<1>8. CASE Restore
  <2>1. /\ DOMAIN schedules' \subseteq DOMAIN file
        /\ file' = schedules' \/ file' = file
        /\ UNCHANGED <<nextId, ran, cancelled, unsaved, running>>
    BY <1>8 DEF Restore, service, Without, Restrict
  <2>2. \A x : ~Executing(x)'
    BY <1>8, <2>1 DEF Restore, Quiet, Executing
  <2> QED
    BY <2>1, <2>2, LostOnce DEF Stored
<1>9. CASE Tick \/ UNCHANGED vars \/ (\E actions \in Plans : Chat(actions))
           \/ \E t \in Tokens, own \in BOOLEAN : Confirm(t, own)
  <2>1. UNCHANGED <<nextId, ran, cancelled, unsaved, schedules, file, running>>
    BY <1>9 DEF Tick, vars, Chat, Confirm, service, store, ghosts
  <2> QED
    BY <2>1 DEF OnceInv, Numbered, Removed, Finished, Gone, RunsOnce, Stored, Executing
<1> QED
  BY <1>1, <1>2, <1>3, <1>4, <1>5, <1>6, <1>7, <1>8, <1>9 DEF Next

LEMMA InitOnce == Init => OnceInv /\ Quiet
BY BoundAssumption DEF Init, None, OnceInv, Numbered, Removed, Finished, Gone, RunsOnce,
   Quiet, Stored, Executing

(* A timed action is carried out once, unless its removal from the file    *)
(* failed, whatever requests, timers and restarts there are.               *)
THEOREM CarriedOutOnce == Spec => []RunsOnce
<1>1. OnceInv /\ Quiet /\ [Next]_vars => OnceInv' /\ Quiet'
  BY OnceKept, QuietKept
<1>2. OnceInv => RunsOnce
  BY DEF OnceInv
<1> QED
  BY InitOnce, <1>1, <1>2, PTL DEF Spec

(* An action whose cancellation was acknowledged is not carried out later. *)
THEOREM CancelledForGood == Spec => CancelStands
<1>1. OnceInv /\ Quiet /\ [Next]_vars => OnceInv' /\ Quiet'
  BY OnceKept, QuietKept
<1>2. OnceInv /\ [Next]_vars => [\A id \in cancelled : ran'[id] = ran[id]]_vars
  <2> SUFFICES ASSUME OnceInv, Next PROVE \A id \in cancelled : ran'[id] = ran[id]
    OBVIOUS
  <2>1. ASSUME NEW id \in Ids, Execute(id) PROVE \A x \in cancelled : ran'[x] = ran[x]
    <3>1. id \notin cancelled
      BY <2>1 DEF Execute, Executing, OnceInv, Gone
    <3> QED
      BY <2>1, <3>1 DEF Execute, OnceInv, Numbered
  <2>2. CASE UNCHANGED ran
    BY <2>2
  <2> QED
    BY <2>1, <2>2
    DEF Next, Proceed, Confirm, Chat, Fire, RunSchedule, Reverse, Cancel, Crash,
        Restore, Tick, ghosts
<1> QED
  BY InitOnce, <1>1, <1>2, PTL DEF Spec, CancelStands
=============================================================================
