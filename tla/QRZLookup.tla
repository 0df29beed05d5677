------------------------------ MODULE QRZLookup ------------------------------
(***************************************************************************)
(* Profiles of callsigns from QRZ.com: qrzLookupClient in gateway.go.  A   *)
(* lookup holds the client's mutex until it is answered, so there is one   *)
(* at a time.  It takes a profile from the cache, or asks QRZ with the     *)
(* session of an earlier lookup; a session that QRZ no longer honours is   *)
(* replaced, once in a lookup.                                             *)
(*                                                                         *)
(* QRZ ends sessions when it likes, and between any two requests of a      *)
(* lookup; it can be out of reach, and its profiles change.  Profiles are  *)
(* numbered by how often they changed.                                     *)
(***************************************************************************)
EXTENDS Naturals

CONSTANTS
  Calls,          \* callsigns, without -L and -R
  CacheTicks,     \* 10 minutes
  MaxChanges,     \* bound: how often a profile changes
  MaxExpiries     \* bound: sessions QRZ ends in a lookup, or between two

ASSUME QRZAssumption == CacheTicks \in Nat /\ MaxChanges \in Nat

VARIABLES
  session,    \* the client's session: "none", "good", or "expired": it does
              \* not know that
  cache,      \* per callsign: the profile and its age; Uncached if it has none
  lookup,     \* the one that holds the mutex: see Idle
  published,  \* per callsign: the profile QRZ has
  replaced,   \* history: per callsign, the age of each earlier profile
  expiries    \* history: since the lookup began

qrzVars == <<session, cache, lookup, published, replaced, expiries>>

Profiles == 0 .. MaxChanges
Uncached == [profile |-> 0, age |-> CacheTicks + 1]

\* step: "idle", or the next request: "login", "query", "relogin", "requery".
\* answer: how the last one ended: a profile, or a reason.
Idle == [step |-> "idle", call |-> CHOOSE c \in Calls : TRUE,
         found |-> FALSE, profile |-> 0, reason |-> "none"]

QRZInit ==
  /\ session = "none" /\ expiries = 0 /\ lookup = Idle
  /\ cache = [c \in Calls |-> Uncached]
  /\ published = [c \in Calls |-> 0]
  /\ replaced = [c \in Calls |-> [p \in Profiles |-> CacheTicks + 1]]

Found(c, p) ==
  lookup' = [Idle EXCEPT !.call = c, !.found = TRUE, !.profile = p]
Failed(why) == lookup' = [Idle EXCEPT !.call = lookup.call, !.reason = why]
GoOn(step) == lookup' = [lookup EXCEPT !.step = step]

-----------------------------------------------------------------------------
\* Fault: what was cached once is good for ever.
FreshEnough_Ever(c) == cache[c] # Uncached

FreshEnough(c) == cache[c].age < CacheTicks

\* lookup, as far as its first request
LookUp(c) ==
  /\ lookup.step = "idle"
  /\ expiries' = 0
  /\ IF FreshEnough(c) THEN Found(c, cache[c].profile)
     ELSE lookup' = [Idle EXCEPT !.call = c,
                       !.step = IF session = "none" THEN "login" ELSE "query"]
  /\ UNCHANGED <<session, cache, published, replaced>>

\* loginLocked; its error is the error of the lookup, and leaves the session
\* as it was.
LogIn ==
  /\ lookup.step \in {"login", "relogin"}
  /\ \/ session' = "good" /\ GoOn(IF lookup.step = "login" THEN "query" ELSE "requery")
     \/ session' = session /\ Failed("login")
  /\ UNCHANGED <<cache, published, replaced, expiries>>

\* Fault: a session that is no longer honoured is an error like another.
Again_Never(step) == FALSE

\* Only the first query is followed by another.
Again(step) == step = "query"

\* queryLocked
Query ==
  /\ lookup.step \in {"query", "requery"}
  /\ \/ /\ session # "good"
        /\ session' = "none"
        /\ IF Again(lookup.step) THEN GoOn("relogin") ELSE Failed("session")
        /\ UNCHANGED cache
     \/ /\ session = "good"
        /\ Found(lookup.call, published[lookup.call])
        /\ cache' = [cache EXCEPT ![lookup.call] =
                       [profile |-> published[lookup.call], age |-> 0]]
        /\ UNCHANGED session
     \/ \* out of reach, or a callsign that is not listed
        Failed("query") /\ UNCHANGED <<session, cache>>
  /\ UNCHANGED <<published, replaced, expiries>>

-----------------------------------------------------------------------------
(* QRZ, and time                                                           *)

SessionEnds ==
  /\ session = "good" /\ expiries < MaxExpiries
  /\ session' = "expired" /\ expiries' = expiries + 1
  /\ UNCHANGED <<cache, lookup, published, replaced>>

ProfileChanges(c) ==
  /\ published[c] < MaxChanges
  /\ published' = [published EXCEPT ![c] = @ + 1]
  /\ replaced' = [replaced EXCEPT ![c][published[c]] = 0]
  /\ UNCHANGED <<session, cache, lookup, expiries>>

\* A lookup is short beside a tick.
CacheTick ==
  /\ lookup.step = "idle"
  /\ lookup' = Idle
  /\ cache' = [c \in Calls |->
                 [cache[c] EXCEPT !.age = IF @ < CacheTicks THEN @ + 1 ELSE @]]
  /\ replaced' = [c \in Calls |-> [p \in Profiles |->
       IF replaced[c][p] <= CacheTicks THEN replaced[c][p] + 1 ELSE replaced[c][p]]]
  /\ UNCHANGED <<session, published, expiries>>

QRZNext ==
  \/ \E c \in Calls : LookUp(c) \/ ProfileChanges(c)
  \/ LogIn \/ Query \/ SessionEnds \/ CacheTick

-----------------------------------------------------------------------------
\* A profile that is shown was QRZ's at most ten minutes ago.
ProfileRecent ==
  lookup.found =>
    \/ lookup.profile = published[lookup.call]
    \/ replaced[lookup.call][lookup.profile] <= CacheTicks

\* That QRZ had ended the session of an earlier lookup does not show: only a
\* session that ends while it is being used makes a lookup fail for that.
ExpiryHidden == lookup.reason = "session" => expiries > 0

LookupRight == ProfileRecent /\ ExpiryHidden
==============================================================================
