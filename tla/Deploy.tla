------------------------------- MODULE Deploy -------------------------------
(***************************************************************************)
(* The unattended deployment of the gateway: deploy/gitops/dvhub-deploy.   *)
(*                                                                         *)
(* A timer runs the script, a lock keeps two runs apart.  A run that finds *)
(* a new revision at the head of the branch asks for its checks, builds    *)
(* it, copies what is installed, puts the new files in place one after the *)
(* other, restarts the gateway, waits for it to answer and records the     *)
(* revision.  From the first new file to the record an error runs the ERR  *)
(* trap, which puts the copies back.  Any step can fail, and the machine   *)
(* can go down between any two.                                            *)
(*                                                                         *)
(* Revisions are numbered in the order they get to the head of the branch; *)
(* 0 is the one deployed before.  Files are taken together as they are     *)
(* replaced.  Left out: Caddy, which is not deployed unattended, files     *)
(* that did not exist before, and --force, an operator's bypass.           *)
(***************************************************************************)
EXTENDS Naturals, Sequences, FiniteSets

CONSTANTS
  MaxRevision,   \* bound: revisions pushed
  Approved,      \* those whose checks complete with success
  Sound,         \* those a gateway of which answers the health check
  Keep,          \* 5 snapshots
  MaxFailures,   \* bound: steps that fail
  MaxCrashes     \* bound: times the machine goes down

Revisions == 0 .. MaxRevision

ASSUME RevisionAssumption ==
  /\ MaxRevision \in Nat /\ MaxFailures \in Nat /\ MaxCrashes \in Nat
  /\ Approved \subseteq Revisions /\ Sound \subseteq Revisions
  /\ Keep \in Nat \ {0}

\* In the order in which they are replaced.
Parts == <<"binary", "web", "unit", "deployer", "helpers">>
PartNames == {Parts[i] : i \in DOMAIN Parts}

VARIABLES
  head,       \* the branch at GitHub
  installed,  \* per part: its revision
  running,    \* the revision of the binary that runs
  recorded,   \* current-sha
  runtime,    \* deployed-sha, which the dashboard shows
  snapshots,  \* directories in backups; saturates at Keep + 1
  at,         \* where the script is
  next,       \* index of the next part to replace or restore
  target, current,   \* the script's target_sha and current_sha
  saved,      \* the snapshot of this run
  failures, crashes,
  torn,       \* history: since the last deployment that was recorded, a run
              \* or a rollback was not finished
  late        \* history: a step failed after current-sha was written

files == <<installed, recorded, runtime, snapshots>>
script == <<at, next, target, current, saved>>
vars == <<head, files, running, script, failures, crashes, torn, late>>

TypeOK ==
  /\ {head, running, recorded, runtime, target, current} \subseteq Revisions
  /\ {installed, saved} \subseteq [PartNames -> Revisions]
  /\ snapshots \in 0 .. Keep + 1
  /\ at \in {"idle", "sync", "verify", "build", "snapshot", "replace", "restart",
             "health", "record", "publish", "prune", "restore", "again"}
  /\ next \in 1 .. Len(Parts) + 1
  /\ failures \in 0 .. MaxFailures /\ crashes \in 0 .. MaxCrashes
  /\ torn \in BOOLEAN /\ late \in BOOLEAN

Init ==
  /\ head = 0 /\ running = 0 /\ recorded = 0 /\ runtime = 0
  /\ installed = [p \in PartNames |-> 0]
  /\ snapshots = 0
  /\ at = "idle" /\ next = 1 /\ target = 0 /\ current = 0
  /\ saved = installed
  /\ failures = 0 /\ crashes = 0
  /\ torn = FALSE /\ late = FALSE

-----------------------------------------------------------------------------
Push ==
  /\ head < MaxRevision
  /\ head' = head + 1
  /\ UNCHANGED <<files, running, script, failures, crashes, torn, late>>

\* The timer starts the script, which fetches the branch.  What is current
\* gets no more than its helpers again.
Begin ==
  /\ at = "idle"
  /\ target' = head /\ current' = recorded
  /\ at' = IF target' = current' THEN "sync" ELSE "verify"
  /\ UNCHANGED <<head, files, running, next, saved, failures, crashes, torn, late>>

Sync ==
  /\ at = "sync"
  /\ installed' = [installed EXCEPT !["helpers"] = target]
  /\ runtime' = target
  /\ at' = "idle"
  /\ UNCHANGED <<head, running, recorded, snapshots, next, target, current, saved,
                 failures, crashes, torn, late>>

\* Fault: only that the checks completed is asked for.
Verify_Completed ==
  /\ at = "verify"
  /\ at' = "build"
  /\ UNCHANGED <<head, files, running, next, target, current, saved, failures, crashes, torn, late>>

\* verify_checks
Verify ==
  /\ at = "verify"
  /\ at' = IF target \in Approved THEN "build" ELSE "idle"
  /\ UNCHANGED <<head, files, running, next, target, current, saved, failures, crashes, torn, late>>

\* Tests, build and validation in the staging directory.
Build ==
  /\ at = "build"
  /\ at' = "snapshot"
  /\ UNCHANGED <<head, files, running, next, target, current, saved, failures, crashes, torn, late>>

Snapshot ==
  /\ at = "snapshot"
  /\ saved' = installed
  /\ snapshots' = IF snapshots > Keep THEN snapshots ELSE snapshots + 1
  /\ next' = 1 /\ at' = "replace"
  /\ UNCHANGED <<head, installed, running, recorded, runtime, target, current,
                 failures, crashes, torn, late>>

\* The next part is renamed into place; all of them lie ready beside the old
\* ones, except the helpers.
Replace ==
  /\ at = "replace"
  /\ installed' = [installed EXCEPT ![Parts[next]] = target]
  /\ next' = next + 1
  /\ at' = IF next = Len(Parts) THEN "restart" ELSE "replace"
  /\ UNCHANGED <<head, running, recorded, runtime, snapshots, target, current, saved,
                 failures, crashes, torn, late>>

\* Fault: the revision is recorded before the gateway has answered.
Restart_Records ==
  /\ at = "restart"
  /\ running' = installed["binary"]
  /\ recorded' = target
  /\ at' = "health"
  /\ UNCHANGED <<head, installed, runtime, snapshots, next, target, current, saved,
                 failures, crashes, torn, late>>

Restart ==
  /\ at = "restart"
  /\ running' = installed["binary"]
  /\ at' = "health"
  /\ UNCHANGED <<head, files, next, target, current, saved, failures, crashes, torn, late>>

\* Fault: the ERR trap ends with the loop of the health check.
Unhealthy_Leaves == at' = "idle" /\ UNCHANGED next

\* Twenty attempts were in vain: `false' runs the trap.
Unhealthy == at' = "restore" /\ next' = 1

Health ==
  /\ at = "health"
  /\ \/ running \in Sound /\ at' = "record" /\ UNCHANGED next
     \/ running \notin Sound /\ Unhealthy
  /\ UNCHANGED <<head, files, running, target, current, saved, failures, crashes, torn, late>>

\* current-sha is renamed into place, then deployed-sha, and the trap is
\* taken off.
Record ==
  /\ at = "record"
  /\ recorded' = target
  /\ torn' = FALSE
  /\ at' = "publish"
  /\ UNCHANGED <<head, installed, running, runtime, snapshots, next, target, current, saved,
                 failures, crashes, late>>

Publish ==
  /\ at = "publish"
  /\ runtime' = target
  /\ at' = "prune"
  /\ UNCHANGED <<head, installed, recorded, running, snapshots, next, target, current, saved,
                 failures, crashes, torn, late>>

Prune ==
  /\ at = "prune"
  /\ snapshots' = IF snapshots > Keep THEN Keep ELSE snapshots
  /\ at' = "idle"
  /\ UNCHANGED <<head, installed, recorded, runtime, running, next, target, current, saved,
                 failures, crashes, torn, late>>

\* Fault: the deployer does not put itself back.
Restore_NotItself ==
  /\ at = "restore"
  /\ installed' = IF Parts[next] = "deployer" THEN installed
                  ELSE [installed EXCEPT ![Parts[next]] = saved[Parts[next]]]
  /\ next' = next + 1
  /\ at' = IF next = Len(Parts) THEN "again" ELSE "restore"
  /\ UNCHANGED <<head, running, recorded, runtime, snapshots, target, current, saved,
                 failures, crashes, torn, late>>

\* rollback, part by part.
Restore ==
  /\ at = "restore"
  /\ installed' = [installed EXCEPT ![Parts[next]] = saved[Parts[next]]]
  /\ next' = next + 1
  /\ at' = IF next = Len(Parts) THEN "again" ELSE "restore"
  /\ UNCHANGED <<head, running, recorded, runtime, snapshots, target, current, saved,
                 failures, crashes, torn, late>>

\* Its end: the gateway is restarted, with errors dropped.
RestartOld ==
  /\ at = "again"
  /\ \/ running' = installed["binary"] /\ UNCHANGED <<failures, torn>>
     \/ /\ failures < MaxFailures /\ failures' = failures + 1
        /\ torn' = TRUE
        /\ UNCHANGED running
  /\ at' = "idle"
  /\ UNCHANGED <<head, files, next, target, current, saved, crashes, late>>

\* A command fails: before the trap is set and after it is taken off the
\* script just ends; in between the trap runs; in the trap the script ends.
Fail ==
  /\ failures < MaxFailures /\ failures' = failures + 1
  /\ \/ /\ at \in {"sync", "verify", "build", "snapshot", "prune"}
        /\ at' = "idle"
        /\ UNCHANGED <<next, torn>>
     \/ /\ at \in {"replace", "restart", "health", "record", "publish"}
        /\ at' = "restore" /\ next' = 1
        /\ UNCHANGED torn
     \/ /\ at = "restore"
        /\ at' = "idle"
        /\ torn' = TRUE
        /\ UNCHANGED next
  /\ late' = (late \/ at = "publish")
  /\ UNCHANGED <<head, files, running, target, current, saved, crashes>>

\* The machine goes down and comes up with what is installed.
Crash ==
  /\ crashes < MaxCrashes /\ crashes' = crashes + 1
  /\ at' = "idle"
  /\ running' = installed["binary"]
  /\ torn' = (torn \/ at \in {"replace", "restart", "health", "record", "restore"})
  /\ UNCHANGED <<head, files, next, target, current, saved, failures, late>>

\* systemd restarts a gateway that failed.
Respawn ==
  /\ running # installed["binary"]
  /\ running' = installed["binary"]
  /\ UNCHANGED <<head, files, script, failures, crashes, torn, late>>

Step ==
  \/ Sync \/ Verify \/ Build \/ Snapshot \/ Replace \/ Restart \/ Health
  \/ Record \/ Publish \/ Prune \/ Restore \/ RestartOld

Next == Push \/ Begin \/ Step \/ Fail \/ Crash \/ Respawn

Spec == Init /\ [][Next]_vars

\* The timer goes on and the script gets on.
FairSpec == Spec /\ WF_vars(Begin) /\ WF_vars(Step)

-----------------------------------------------------------------------------
(* Properties                                                              *)

Whole(r) == (\A p \in PartNames : installed[p] = r) /\ running = r

\* Between runs the gateway is of one revision, in all its files and as it
\* runs, and it is the recorded one, whatever commands failed in the runs
\* before; unless a run or a rollback was cut short since the last record, or
\* the one step after the record failed.
OneRevision ==
  at = "idle" /\ ~torn /\ ~late => Whole(recorded)

\* deploy/gitops/README.md:3: it "installs a revision only after the GitHub
\* verify and build checks have both completed successfully".  No file ever
\* is of another one, whatever is restored or synchronised.
OnlyApproved ==
  \A p \in PartNames : installed[p] \in Approved \cup {0}

\* A revision that is good and stays at the head of the branch gets deployed,
\* although runs fail, are cut short and take copies of what those have
\* left, unless the step after a record fails.
Converges ==
  \A r \in Approved \cap Sound :
    <>[](head = r) => <>(late \/ [](Whole(r) /\ recorded = r))
=============================================================================
