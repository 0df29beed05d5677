--------------------------- MODULE TrafficHistory ---------------------------
(***************************************************************************)
(* The activity list of the dashboard and its file: traffic_history.go,    *)
(* with recordTrafficHistory and the end of main in gateway.go.            *)
(*                                                                         *)
(* Listeners record calls in g.trafficHistory and ask for a save over a    *)
(* channel of one slot.  A worker takes the request, sleeps and saves; a   *)
(* graceful stop saves once more.  A save takes its snapshot and writes it *)
(* while it holds trafficSaveMu; the file is replaced by a rename, so the  *)
(* process can be killed at any moment and the file is whole.  Calls go on *)
(* being recorded while main stops, and the worker dies with main.         *)
(*                                                                         *)
(* What is known of a call is the number of its last recording: the newest *)
(* number in a list says how much of what was recorded the list has seen.  *)
(***************************************************************************)
EXTENDS Naturals, Sequences, FiniteSetsExt, SequencesExt

CONSTANTS
  Keys,        \* keys of calls: trafficKey
  Limit,       \* 50 entries
  MaxRecords,  \* bound: recordings that are numbered
  MaxFailures  \* bound: failed writes

ASSUME LimitAssumption ==
  Limit \in Nat \ {0} /\ MaxRecords \in Nat /\ MaxFailures \in Nat

Savers == {"worker", "main"}
Nobody == "nobody"

VARIABLES
  history,   \* g.trafficHistory, the latest key first
  request,   \* the slot of g.trafficSaveRequests is full
  pc,        \* per saver: "idle", "saving": before the lock, "writing"; main
             \* is then "returning", and "stopped" when the process is gone
  saveMu,    \* who holds g.trafficSaveMu
  taken,     \* per saver: its snapshot
  file,
  failures,
  behind,    \* history: the last write failed
  stopping   \* history: the newest number when main began its last save

vars == <<history, request, pc, saveMu, taken, file, failures, behind, stopping>>

Entry == [key: Keys, n: 1 .. MaxRecords]
Newest(entries) == Max({0} \cup {entries[i].n : i \in DOMAIN entries})

List(entries) ==
  /\ Len(entries) <= Limit
  /\ \A i \in DOMAIN entries : entries[i] \in Entry
  /\ \A i, j \in DOMAIN entries : entries[i].key = entries[j].key => i = j

TypeOK ==
  /\ List(history) /\ List(file)
  /\ \A s \in Savers : List(taken[s])
  /\ request \in BOOLEAN /\ behind \in BOOLEAN
  /\ pc \in [Savers -> {"idle", "saving", "writing", "returning", "stopped"}]
  /\ saveMu \in Savers \cup {Nobody}
  /\ failures \in 0 .. MaxFailures
  /\ stopping \in 0 .. MaxRecords

Init ==
  /\ history = <<>> /\ file = <<>>
  /\ taken = [s \in Savers |-> <<>>]
  /\ request = FALSE /\ behind = FALSE
  /\ pc = [s \in Savers |-> "idle"]
  /\ saveMu = Nobody
  /\ failures = 0 /\ stopping = 0

Up == pc["main"] # "stopped"

-----------------------------------------------------------------------------
\* A known key keeps its place; a new one is put in front.
Recorded(entries, key, n) ==
  LET longer == <<[key |-> key, n |-> n]>> \o entries
      same == {i \in DOMAIN entries : entries[i].key = key}
  IN IF same # {} THEN [entries EXCEPT ![Min(same)].n = n]
     ELSE SubSeq(longer, 1, Min({Limit, Len(longer)}))

\* Fault: a save that is under way is taken for the one that is needed.
Requested_IfIdle == request \/ pc["worker"] = "idle"

\* requestTrafficHistorySave: the slot is full afterwards in either case.
Requested == TRUE

Record(key) ==
  /\ Up
  /\ Newest(history) < MaxRecords
  /\ history' = Recorded(history, key, Newest(history) + 1)
  /\ request' = Requested
  /\ UNCHANGED <<pc, saveMu, taken, file, failures, behind, stopping>>

\* The worker takes the request; it then sleeps for 250 ms.
Wake ==
  /\ Up
  /\ pc["worker"] = "idle" /\ request
  /\ request' = FALSE
  /\ pc' = [pc EXCEPT !["worker"] = "saving"]
  /\ UNCHANGED <<history, saveMu, taken, file, failures, behind, stopping>>

\* The HTTP server stopped; main goes on to its last save.
Stop ==
  /\ pc["main"] = "idle"
  /\ pc' = [pc EXCEPT !["main"] = "saving"]
  /\ stopping' = Newest(history)
  /\ UNCHANGED <<history, request, saveMu, taken, file, failures, behind>>

\* Fault: writers are not serialized before they take the snapshot.
Snapshot_Unlocked(s) ==
  /\ Up
  /\ pc[s] = "saving"
  /\ taken' = [taken EXCEPT ![s] = history]
  /\ pc' = [pc EXCEPT ![s] = "writing"]
  /\ UNCHANGED <<history, request, saveMu, file, failures, behind, stopping>>

\* Fault: main leaves the save to the worker that is at it.
Snapshot_SkippedIfBusy(s) ==
  /\ Up
  /\ pc[s] = "saving"
  /\ \/ /\ saveMu = Nobody
        /\ saveMu' = s
        /\ taken' = [taken EXCEPT ![s] = history]
        /\ pc' = [pc EXCEPT ![s] = "writing"]
     \/ /\ saveMu # Nobody /\ s = "main"
        /\ pc' = [pc EXCEPT ![s] = "returning"]
        /\ UNCHANGED <<saveMu, taken>>
  /\ UNCHANGED <<history, request, file, failures, behind, stopping>>

\* trafficSaveMu, then the list under trafficMu.
Snapshot(s) ==
  /\ Up
  /\ pc[s] = "saving" /\ saveMu = Nobody
  /\ saveMu' = s
  /\ taken' = [taken EXCEPT ![s] = history]
  /\ pc' = [pc EXCEPT ![s] = "writing"]
  /\ UNCHANGED <<history, request, file, failures, behind, stopping>>

\* persistPrivateSetting succeeds, or fails and is logged.
Write(s) ==
  /\ Up
  /\ pc[s] = "writing"
  /\ \/ /\ file' = taken[s] /\ behind' = FALSE
        /\ UNCHANGED failures
     \/ /\ failures < MaxFailures /\ failures' = failures + 1
        /\ behind' = TRUE
        /\ UNCHANGED file
  /\ saveMu' = Nobody
  /\ pc' = [pc EXCEPT ![s] = IF s = "main" THEN "returning" ELSE "idle"]
  /\ UNCHANGED <<history, request, taken, stopping>>

\* main returns and the process ends, whatever the worker is doing.
Exit ==
  /\ pc["main"] = "returning"
  /\ pc' = [pc EXCEPT !["main"] = "stopped"]
  /\ UNCHANGED <<history, request, saveMu, taken, file, failures, behind, stopping>>

\* The process is killed, or the machine stops.
Kill ==
  /\ Up
  /\ pc' = [pc EXCEPT !["main"] = "stopped"]
  /\ stopping' = 0
  /\ UNCHANGED <<history, request, saveMu, taken, file, failures, behind>>

\* restoreTrafficHistory: the first Limit entries with different keys.
Restored ==
  LET firsts == {i \in DOMAIN file : \A j \in 1 .. i - 1 : file[j].key # file[i].key}
      Nth(k) == CHOOSE i \in firsts : Cardinality({j \in firsts : j <= i}) = k
  IN [k \in 1 .. Min({Limit, Cardinality(firsts)}) |-> file[Nth(k)]]

\* startTrafficHistoryPersistence of the next process.
Start ==
  /\ ~Up
  /\ history' = Restored
  /\ request' = FALSE /\ behind' = FALSE
  /\ pc' = [s \in Savers |-> "idle"]
  /\ saveMu' = Nobody
  /\ taken' = [s \in Savers |-> <<>>]
  /\ stopping' = 0
  /\ UNCHANGED <<file, failures>>

Next ==
  \/ \E key \in Keys : Record(key)
  \/ \E s \in Savers : Snapshot(s) \/ Write(s)
  \/ Wake \/ Stop \/ Exit \/ Kill \/ Start

Spec == Init /\ [][Next]_vars

\* The worker and a main that is stopping get to run, and a mutex that is
\* asked for again and again is got; nothing says that calls are recorded or
\* that the process is stopped or started.
FairSpec ==
  /\ Spec
  /\ WF_vars(Wake)
  /\ \A s \in Savers : SF_vars(Snapshot(s)) /\ WF_vars(Write(s))

-----------------------------------------------------------------------------
(* Properties                                                              *)

\* traffic_history.go:91: "an older worker cannot overwrite a newer shutdown
\* snapshot".  Whoever writes, and whenever the process is killed, the file
\* never forgets a recording it had.
NeverOlder == [][Newest(file') >= Newest(file)]_vars

\* "Shutdown explicitly flushes": after a graceful stop whose last write was
\* not an error, the file has every call that had been recorded when main
\* began its last save, however the worker's save ran beside it.
ShutdownFlushes ==
  pc["main"] = "stopped" /\ ~behind => Newest(file) >= stopping

\* Coalescing loses nothing: a recording reaches the file unless a write
\* failed or the process ended first, also one that is made while an earlier
\* request is being served.
RecordingSaved ==
  \A n \in 1 .. MaxRecords :
    Up /\ Newest(history) = n ~> Newest(file) >= n \/ behind \/ ~Up
=============================================================================
