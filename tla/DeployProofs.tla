---------------------------- MODULE DeployProofs ----------------------------
(* Proofs about Deploy, for any revisions, failures and crashes.           *)
EXTENDS Deploy, TLAPS

LEMMA PartFacts ==
  /\ DOMAIN Parts = 1 .. 5 /\ Len(Parts) = 5
  /\ \A p \in PartNames : \E i \in 1 .. 5 : p = Parts[i]
  /\ \A i \in 1 .. 5 : Parts[i] \in PartNames
  /\ \A i, j \in 1 .. 5 : i # j => Parts[i] # Parts[j]
  /\ "binary" \in PartNames /\ "helpers" \in PartNames
<1>1. DOMAIN Parts = 1 .. 5 /\ Len(Parts) = 5
  BY DEF Parts
<1>2. \A i, j \in 1 .. 5 : i # j => Parts[i] # Parts[j]
  BY DEF Parts
<1>3. "binary" = Parts[1] /\ "helpers" = Parts[5] /\ 1 \in 1 .. 5 /\ 5 \in 1 .. 5
  BY DEF Parts
<1>4. \A i \in 1 .. 5 : Parts[i] \in PartNames
  BY <1>1 DEF PartNames
<1>5. \A p \in PartNames : \E i \in 1 .. 5 : p = Parts[i]
  BY <1>1 DEF PartNames
<1> QED
  BY <1>1, <1>2, <1>3, <1>4, <1>5

LEMMA InitType == Init => TypeOK
<1> SUFFICES ASSUME Init PROVE TypeOK
  OBVIOUS
<1>1. 0 \in Revisions
  BY RevisionAssumption DEF Revisions
<1>2. installed \in [PartNames -> Revisions] /\ saved \in [PartNames -> Revisions]
  BY <1>1 DEF Init
<1>3. snapshots \in 0 .. Keep + 1 /\ next \in 1 .. Len(Parts) + 1
  BY PartFacts, RevisionAssumption DEF Init
<1>4. failures \in 0 .. MaxFailures /\ crashes \in 0 .. MaxCrashes
  BY RevisionAssumption DEF Init
<1> QED
  BY <1>1, <1>2, <1>3, <1>4 DEF Init, TypeOK

LEMMA NextType == TypeOK /\ [Next]_vars => TypeOK'
<1> SUFFICES ASSUME TypeOK, [Next]_vars PROVE TypeOK'
  OBVIOUS
<1> USE DEF TypeOK
<1>p. 1 \in 1 .. Len(Parts) + 1 /\ installed["binary"] \in Revisions
  BY PartFacts
<1>f. failures < MaxFailures => failures + 1 \in 0 .. MaxFailures
  BY RevisionAssumption
<1>c. crashes < MaxCrashes => crashes + 1 \in 0 .. MaxCrashes
  BY RevisionAssumption
<1>1. CASE Push
  BY <1>1, RevisionAssumption DEF Push, files, script, Revisions
<1>2. CASE Begin
  BY <1>2 DEF Begin, files
<1>3. CASE Sync
  BY <1>3 DEF Sync
<1>4. CASE Verify \/ Build \/ Restart \/ Health
  BY <1>4, <1>p DEF Verify, Build, Restart, Health, Unhealthy, files
<1>5. CASE Snapshot
  BY <1>5, <1>p, RevisionAssumption DEF Snapshot
<1>6. CASE Replace \/ Restore
  <2>1. next \in 1 .. 5 => Parts[next] \in PartNames
    BY PartFacts
  <2>2. \A r \in Revisions : \A p : [installed EXCEPT ![p] = r] \in [PartNames -> Revisions]
    OBVIOUS
  <2> QED
    BY <1>6, <2>1, <2>2, PartFacts DEF Replace, Restore
<1>7. CASE Record
  BY <1>7 DEF Record
<1>8. CASE Publish
  BY <1>8 DEF Publish
<1>9. CASE Prune
  BY <1>9, RevisionAssumption DEF Prune
<1>10. CASE RestartOld
  BY <1>10, <1>p, <1>f DEF RestartOld, files
<1>11. CASE Fail
  BY <1>11, <1>p, <1>f DEF Fail, files
<1>12. CASE Crash
  BY <1>12, <1>p, <1>c DEF Crash, files
<1>13. CASE Respawn
  BY <1>13, <1>p DEF Respawn, files, script
<1>14. CASE UNCHANGED vars
  BY <1>14 DEF vars, files, script
<1> QED
  BY <1>1, <1>2, <1>3, <1>4, <1>5, <1>6, <1>7, <1>8, <1>9, <1>10, <1>11, <1>12,
     <1>13, <1>14 DEF Next, Step

\* The type invariant of the script, its files and its history variables, for
\* any revisions.
THEOREM TypeCorrect == Spec => []TypeOK
<1>1. Init => TypeOK
  BY InitType
<1>2. TypeOK /\ [Next]_vars => TypeOK'
  BY NextType
<1> QED
  BY <1>1, <1>2, PTL DEF Spec

-----------------------------------------------------------------------------
(* What OneRevision rests on: how far the replacement has got, whatever the *)
(* runs before have left; and, as long as nothing was cut short, how much   *)
(* of the recorded revision is in place or in the copy.                     *)

Of(r) == \A p \in PartNames : installed[p] = r

Forward ==
  /\ at \in {"replace", "restore"} => next \in 1 .. 5
  /\ at = "replace" => \A i \in 1 .. 5 : i < next => installed[Parts[i]] = target
  /\ at \in {"restart", "health", "record"} => Of(target)
  /\ at \in {"health", "record"} => running = target

Tidy ==
  /\ at \in {"idle", "sync", "verify", "build", "snapshot", "publish", "prune"}
       => Of(recorded) /\ running = recorded
  /\ at = "sync" => target = recorded
  /\ at \in {"replace", "restart", "health", "record", "restore"}
       => \A p \in PartNames : saved[p] = recorded
  /\ at = "restore" => \A i \in 1 .. 5 : i < next => installed[Parts[i]] = recorded
  /\ at = "again" => Of(recorded)

RevisionInv == Forward /\ (~torn /\ ~late => Tidy)

\* The next part put in place leaves the parts before it as they are, and
\* makes them all of one revision when it is the last.
LEMMA OneMore ==
  ASSUME TypeOK, next \in 1 .. 5, NEW r,
         \A i \in 1 .. 5 : i < next => installed[Parts[i]] = r,
         installed' = [installed EXCEPT ![Parts[next]] = r]
  PROVE  /\ \A i \in 1 .. 5 : i < next + 1 => installed'[Parts[i]] = r
         /\ next = 5 => \A p \in PartNames : installed'[p] = r
<1>1. ASSUME NEW i \in 1 .. 5, i < next + 1
      PROVE  installed'[Parts[i]] = r
  <2>1. Parts[i] \in PartNames /\ Parts[next] \in PartNames
    BY PartFacts
  <2>2. CASE i = next
    BY <2>1, <2>2 DEF TypeOK
  <2>3. CASE i # next
    <3>1. i < next /\ Parts[i] # Parts[next]
      BY <1>1, <2>3, PartFacts
    <3> QED
      BY <2>1, <3>1 DEF TypeOK
  <2> QED
    BY <2>2, <2>3
<1>2. ASSUME next = 5, NEW p \in PartNames
      PROVE  installed'[p] = r
  <2>1. PICK i \in 1 .. 5 : p = Parts[i]
    BY PartFacts
  <2> QED
    BY <1>1, <1>2, <2>1
<1> QED
  BY <1>1, <1>2

LEMMA NextRevision == TypeOK /\ RevisionInv /\ [Next]_vars => RevisionInv'
<1> SUFFICES ASSUME TypeOK, RevisionInv, [Next]_vars PROVE RevisionInv'
  OBVIOUS
<1> USE DEF RevisionInv, Forward, Tidy, Of
<1>p. "binary" \in PartNames /\ "helpers" \in PartNames /\ Len(Parts) = 5
  BY PartFacts
<1>a. at \in {"idle", "sync", "verify", "build", "snapshot", "replace", "restart",
               "health", "record", "publish", "prune", "restore", "again"}
  BY DEF TypeOK
<1>1. CASE Push
  BY <1>1 DEF Push, files, script
<1>2. CASE Begin
  BY <1>2 DEF Begin, files
<1>3. CASE Sync
  BY <1>3, <1>p DEF Sync, TypeOK
<1>4. CASE Verify
  BY <1>4 DEF Verify, files
<1>5. CASE Build
  BY <1>5 DEF Build, files
<1>6. CASE Snapshot
  BY <1>6 DEF Snapshot
<1>7. CASE Replace
  <2> USE <1>7 DEF Replace
  <2>1. /\ \A i \in 1 .. 5 : i < next + 1 => installed'[Parts[i]] = target
        /\ next = 5 => \A p \in PartNames : installed'[p] = target
    BY OneMore
  <2>2. next \in 1 .. 5 /\ (next # 5 => next + 1 \in 1 .. 5)
    OBVIOUS
  <2>3. Forward'
    BY <1>p, <2>1, <2>2
  <2>4. ~torn' /\ ~late' => Tidy'
    BY <1>p
  <2> QED
    BY <2>3, <2>4
<1>8. CASE Restart
  BY <1>8, <1>p DEF Restart, files
<1>9. CASE Health
  BY <1>9 DEF Health, Unhealthy, files
<1>10. CASE Record
  BY <1>10 DEF Record
<1>11. CASE Publish
  BY <1>11 DEF Publish
<1>12. CASE Prune
  BY <1>12 DEF Prune
<1>13. CASE Restore
  <2> USE <1>13 DEF Restore
  <2>1. next \in 1 .. 5 /\ (next # 5 => next + 1 \in 1 .. 5) /\ Parts[next] \in PartNames
    BY PartFacts
  <2>2. Forward'
    BY <1>p, <2>1
  <2>3. ASSUME ~torn', ~late'
        PROVE  Tidy'
    <3>1. /\ \A i \in 1 .. 5 : i < next => installed[Parts[i]] = recorded
          /\ installed' = [installed EXCEPT ![Parts[next]] = recorded]
      BY <2>1, <2>3
    <3>2. /\ \A i \in 1 .. 5 : i < next + 1 => installed'[Parts[i]] = recorded
          /\ next = 5 => \A p \in PartNames : installed'[p] = recorded
      BY <2>1, <3>1, OneMore
    <3> QED
      BY <1>p, <2>1, <2>3, <3>2
  <2> QED
    BY <2>2, <2>3
<1>14. CASE RestartOld
  BY <1>14, <1>p DEF RestartOld, files
<1>15. CASE Fail
  <2>1. ~late' => ~late /\ at # "publish"
    BY <1>15 DEF Fail
  <2>2. CASE at \in {"sync", "verify", "build", "snapshot", "prune"}
    BY <1>15, <2>1, <2>2 DEF Fail, files
  <2>3. CASE at \in {"replace", "restart", "health", "record", "publish"}
    BY <1>15, <2>1, <2>3 DEF Fail, files
  <2>4. CASE at = "restore"
    BY <1>15, <2>1, <2>4 DEF Fail, files
  <2> QED
    BY <1>15, <2>2, <2>3, <2>4 DEF Fail
<1>16. CASE Crash
  <2>1. ~torn' => ~torn /\ at \notin {"replace", "restart", "health", "record", "restore"}
    BY <1>16 DEF Crash
  <2>2. at' = "idle" /\ UNCHANGED <<installed, recorded, late>> /\ running' = installed["binary"]
    BY <1>16 DEF Crash, files
  <2> QED
    BY <1>a, <1>p, <2>1, <2>2
<1>17. CASE Respawn
  BY <1>17, <1>p DEF Respawn, files, script
<1>18. CASE UNCHANGED vars
  BY <1>18 DEF vars, files, script
<1> QED
  BY <1>1, <1>2, <1>3, <1>4, <1>5, <1>6, <1>7, <1>8, <1>9, <1>10, <1>11, <1>12,
     <1>13, <1>14, <1>15, <1>16, <1>17, <1>18 DEF Next, Step

\* Between runs the gateway is of the recorded revision, in all its files and
\* as it runs, whatever commands of the script failed, for any number of
\* revisions, failures and crashes.
THEOREM OneRevisionInstalled == Spec => []OneRevision
<1>1. Init => TypeOK /\ RevisionInv
  BY InitType DEF Init, RevisionInv, Forward, Tidy, Of
<1>2. TypeOK /\ RevisionInv /\ [Next]_vars => (TypeOK /\ RevisionInv)'
  BY NextType, NextRevision
<1>3. RevisionInv => OneRevision
  BY DEF RevisionInv, Tidy, Of, OneRevision, Whole
<1> QED
  BY <1>1, <1>2, <1>3, PTL DEF Spec

-----------------------------------------------------------------------------
(* What OnlyApproved rests on: the copy and the record, which later runs    *)
(* install from, and the target once its checks have been asked for.        *)

Allowed == Approved \cup {0}

AllowedInv ==
  /\ \A p \in PartNames : installed[p] \in Allowed /\ saved[p] \in Allowed
  /\ recorded \in Allowed
  /\ at \in {"sync", "build", "snapshot", "replace", "restart", "health",
             "record", "publish"} => target \in Allowed

\* A part that is put in place leaves all parts allowed if it is.
LEMMA OnePart ==
  ASSUME TypeOK, NEW q, NEW r \in Allowed,
         \A p \in PartNames : installed[p] \in Allowed,
         installed' = [installed EXCEPT ![q] = r]
  PROVE  \A p \in PartNames : installed'[p] \in Allowed
BY DEF TypeOK

LEMMA NextAllowed == TypeOK /\ AllowedInv /\ [Next]_vars => AllowedInv'
<1> SUFFICES ASSUME TypeOK, AllowedInv, [Next]_vars PROVE AllowedInv'
  OBVIOUS
<1> USE DEF AllowedInv
<1>1. CASE Push \/ Respawn \/ UNCHANGED vars
  BY <1>1 DEF Push, Respawn, vars, files, script
<1>2. CASE Begin
  BY <1>2 DEF Begin, files
<1>3. CASE Sync
  <2>1. \A p \in PartNames : installed'[p] \in Allowed
    BY <1>3, OnePart DEF Sync
  <2> QED
    BY <1>3, <2>1 DEF Sync
<1>4. CASE Verify
  BY <1>4 DEF Verify, Allowed, files
<1>5. CASE Build \/ Restart \/ Health
  BY <1>5 DEF Build, Restart, Health, Unhealthy, files
<1>6. CASE Snapshot
  BY <1>6 DEF Snapshot
<1>7. CASE Replace
  <2>1. \A p \in PartNames : installed'[p] \in Allowed
    BY <1>7, OnePart DEF Replace
  <2> QED
    BY <1>7, <2>1 DEF Replace
<1>8. CASE Record \/ Publish \/ Prune
  BY <1>8 DEF Record, Publish, Prune
<1>9. CASE Restore
  <2>1. CASE Parts[next] \in PartNames
    BY <1>9, <2>1, OnePart DEF Restore
  <2>2. CASE Parts[next] \notin PartNames
    BY <1>9, <2>2 DEF Restore, TypeOK
  <2> QED
    BY <2>1, <2>2
<1>10. CASE RestartOld \/ Fail \/ Crash
  BY <1>10 DEF RestartOld, Fail, Crash, files
<1> QED
  BY <1>1, <1>2, <1>3, <1>4, <1>5, <1>6, <1>7, <1>8, <1>9, <1>10 DEF Next, Step

\* No file of the gateway is ever of a revision that was not approved, whatever
\* fails and however often the machine goes down, although runs copy and put
\* back what earlier ones have left.
THEOREM ApprovedOnly == Spec => []OnlyApproved
<1>1. Init => TypeOK /\ AllowedInv
  BY InitType DEF Init, AllowedInv, Allowed
<1>2. TypeOK /\ AllowedInv /\ [Next]_vars => (TypeOK /\ AllowedInv)'
  BY NextType, NextAllowed
<1>3. AllowedInv => OnlyApproved
  BY DEF AllowedInv, OnlyApproved, Allowed
<1> QED
  BY <1>1, <1>2, <1>3, PTL DEF Spec
=============================================================================
