----------------------------- MODULE DExtraLink -----------------------------
(***************************************************************************)
(* The link of the D-STAR bridge to a reflector: DExtra in dextra.go.      *)
(* A session asks to be linked until it is acknowledged, then sends a      *)
(* keepalive, each every three seconds; it ends on a refusal or when       *)
(* nothing came for thirty seconds, and Run opens the next one.  What a    *)
(* session ends with is a new socket, which the reflector does not know.   *)
(*                                                                         *)
(* The reflector is xlxd.  It tells those it knows that it is alive, and   *)
(* forgets them when it is started again: it then ignores keepalives and   *)
(* says nothing, so that only its silence shows it.  Voice is as good as a *)
(* keepalive.  A tick is three seconds, and no packet outlives one.        *)
(***************************************************************************)
EXTENDS Naturals

CONSTANTS
  SilentTicks,    \* 30 s
  MaxMishaps      \* bound: lost packets, refusals and restarts

ASSUME LinkAssumption == SilentTicks \in Nat \ {0}

VARIABLES
  link,      \* stage: "linking", "up", or "between" two sessions;
             \* seen: its age; due: lastLink or lastKA is three seconds old
  known,     \* the reflector knows this socket
  wire,      \* packets under way
  mishaps

dxVars == <<link, known, wire, mishaps>>

ToReflector == {"link", "keepalive", "unlink"}
FromReflector == {"ack", "nak", "alive"}

Opened == [stage |-> "linking", seen |-> 0, due |-> FALSE]

DxInit ==
  link = Opened /\ known = FALSE /\ wire = {"link"} /\ mishaps = 0

Mishap == mishaps < MaxMishaps /\ mishaps' = mishaps + 1

-----------------------------------------------------------------------------
(* The reflector                                                           *)

Answer(p) ==
  /\ p \in wire \cap ToReflector
  /\ \/ /\ p = "link"
        /\ \/ known' = TRUE /\ wire' = (wire \ {p}) \cup {"ack"} /\ UNCHANGED mishaps
           \/ Mishap /\ wire' = (wire \ {p}) \cup {"nak"} /\ UNCHANGED known
     \/ p # "link" /\ known' = (known /\ p # "unlink")
        /\ wire' = wire \ {p} /\ UNCHANGED mishaps
  /\ UNCHANGED link

StartsAgain ==
  /\ known /\ Mishap /\ known' = FALSE
  /\ UNCHANGED <<link, wire>>

Drop(p) ==
  /\ p \in wire /\ wire' = wire \ {p}
  /\ IF p \in FromReflector /\ link.stage = "between" THEN UNCHANGED mishaps ELSE Mishap
  /\ UNCHANGED <<link, known>>

-----------------------------------------------------------------------------
(* The session                                                             *)

\* The link is unlinked if it was up, which the reflector may not hear.
Ended(others) ==
  /\ link' = [link EXCEPT !.stage = "between"]
  /\ wire' = others \cup {p \in {"unlink"} : link.stage = "up"}

\* An acknowledgement of either kind, or a sign of life.
Received(p) ==
  /\ p \in wire \cap {"ack", "alive"} /\ link.stage # "between"
  /\ link' = [link EXCEPT !.seen = 0, !.stage = IF p = "ack" THEN "up" ELSE @]
  /\ wire' = wire \ {p}
  /\ UNCHANGED <<known, mishaps>>

LinkRefused ==
  /\ "nak" \in wire /\ link.stage # "between"
  /\ Ended(wire \ {"nak"})
  /\ UNCHANGED <<known, mishaps>>

\* Fault: silence only ends a session that is not linked yet.
Silent_Linking == link.seen > SilentTicks /\ link.stage = "linking"

Silent == link.seen > SilentTicks

Periodic == IF link.stage = "up" THEN "keepalive" ELSE "link"

\* What is due is sent, and then the silence is noticed.
Turn ==
  /\ link.due /\ link.stage # "between"
  /\ IF Silent THEN Ended(wire \cup {Periodic})
     ELSE link' = [link EXCEPT !.due = FALSE] /\ wire' = wire \cup {Periodic}
  /\ UNCHANGED <<known, mishaps>>

\* Run: after two seconds or more, up to a minute when it fails again.
Reopen ==
  /\ link.stage = "between" /\ wire = {}
  /\ link' = Opened /\ wire' = {"link"} /\ known' = FALSE
  /\ UNCHANGED mishaps

DxTick ==
  /\ link.stage # "between" /\ wire = {} /\ ~link.due
  /\ link' = [link EXCEPT !.due = TRUE, !.seen = IF @ > SilentTicks THEN @ ELSE @ + 1]
  /\ wire' = {p \in {"alive"} : known}
  /\ UNCHANGED <<known, mishaps>>

DxDeliver ==
  \/ \E p \in wire : Answer(p) \/ Drop(p) \/ Received(p)
  \/ LinkRefused

DxNext == DxDeliver \/ StartsAgain \/ Turn \/ Reopen \/ DxTick

-----------------------------------------------------------------------------
\* Whatever was lost, refused or forgotten, the two are linked again, both of
\* them know it, and they stay so.
StaysLinked == <>[](link.stage = "up" /\ known)
=============================================================================
