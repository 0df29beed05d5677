---------------------------- MODULE ClientAccess ----------------------------
(***************************************************************************)
(* Accounts, sessions and tickets of the voice clients: clientAccess in    *)
(* client_access.go.                                                       *)
(*                                                                         *)
(* An administrator saves and deletes accounts in one critical section of  *)
(* a.mu that includes the write of the file.  A login reads the account,   *)
(* compares the password and stores a session in a second critical         *)
(* section; a ticket is issued in two as well, for a session that was      *)
(* authenticated in the first.  Sessions and tickets live in memory only.  *)
(*                                                                         *)
(* Tokens are random and never meet, so sessions and tickets are sets of   *)
(* what the tokens stand for.  Whether a password, a callsign or an ID is  *)
(* acceptable is an input; a request that is turned down changes nothing.  *)
(* The limit of eight logins a minute only turns requests down, and is     *)
(* left out.                                                               *)
(***************************************************************************)
EXTENDS Naturals

CONSTANTS
  Callsigns, DMRIDs,
  NoAccount,     \* a callsign without an account
  Requests,      \* slots for requests between their two critical sections
  SessionTicks,  \* clientSessionLifetime: 12 h
  TicketTicks,   \* 30 s
  RequestTicks,  \* bound: how long such a request takes
  MaxChanges     \* bound: account changes

ASSUME TickAssumption ==
  /\ SessionTicks \in Nat \ {0} /\ TicketTicks \in Nat \ {0}
  /\ RequestTicks \in Nat /\ MaxChanges \in Nat

Account == [DMRID : DMRIDs, Enabled : BOOLEAN]

ASSUME NoAccountAssumption == NoAccount \notin Account

VARIABLES
  up, voiceUp,  \* the process runs; startVoice succeeded
  users,      \* a.users
  file,       \* client-users.json
  sessions,   \* a.sessions, with the time that is left
  tickets,    \* a.voiceTickets, with the time that is left
  requests,   \* per slot: [kind, user, id, age]
  changes,
  acked,      \* history: the account as last acknowledged
  unacked,    \* history: what it was changed to since, without success
  gone,       \* history: time since callsign and ID last were an account
              \* that is enabled; saturates at MaxGone
  latest      \* history: the greatest gone at which a connection was opened

data == <<users, file>>
ghosts == <<acked, unacked>>
accessVars == <<up, voiceUp, data, sessions, tickets, requests, changes, ghosts, gone, latest>>

MaxGone == TicketTicks + RequestTicks + 1
Free == [kind |-> "none"]
Pending == [kind : {"login", "ticket"}, user : Callsigns, id : DMRIDs, age : 0 .. RequestTicks]
Holder(left) == [user : Callsigns, id : DMRIDs, left : left]
Accounts == [Callsigns -> Account \cup {NoAccount}]

AccessTypeOK ==
  /\ up \in BOOLEAN /\ voiceUp \in BOOLEAN
  /\ users \in Accounts /\ file \in Accounts /\ acked \in Accounts
  /\ unacked \in [Callsigns -> SUBSET (Account \cup {NoAccount})]
  /\ sessions \subseteq Holder(0 .. SessionTicks)
  /\ tickets \subseteq Holder(0 .. TicketTicks)
  /\ requests \in [Requests -> {Free} \cup Pending]
  /\ gone \in [Callsigns \X DMRIDs -> 0 .. MaxGone]
  /\ latest \in 0 .. MaxGone
  /\ changes \in 0 .. MaxChanges

AccessInit ==
  /\ up = TRUE /\ voiceUp \in BOOLEAN
  /\ users = [c \in Callsigns |-> NoAccount]
  /\ file = users /\ acked = users
  /\ unacked = [c \in Callsigns |-> {}]
  /\ sessions = {} /\ tickets = {}
  /\ requests = [r \in Requests |-> Free]
  /\ changes = 0
  /\ gone = [pair \in Callsigns \X DMRIDs |-> MaxGone]
  /\ latest = 0

-----------------------------------------------------------------------------
Is(accounts, c, id) == accounts[c] = [DMRID |-> id, Enabled |-> TRUE]

\* Time since the accounts allowed c and id, now that they are these.
GoneWith(accounts) ==
  [pair \in Callsigns \X DMRIDs |->
     IF Is(accounts, pair[1], pair[2]) THEN 0 ELSE gone[pair]]

Begin(r, kind, c, id) ==
  requests' = [requests EXCEPT ![r] = [kind |-> kind, user |-> c, id |-> id, age |-> 0]]

\* handleLogin with the right password, up to where it is compared.
Login(r, c, id) ==
  /\ up /\ requests[r] = Free
  /\ Is(users, c, id)
  /\ Begin(r, "login", c, id)
  /\ UNCHANGED <<up, voiceUp, data, sessions, tickets, changes, ghosts, gone, latest>>

\* pruneLocked
Live(tokens) == {t \in tokens : t.left > 0}

\* Its second half: a session for the account that was read.
StoreSession(r) ==
  /\ up /\ requests[r].kind = "login"
  /\ sessions' = Live(sessions \cup
       {[user |-> requests[r].user, id |-> requests[r].id, left |-> SessionTicks]})
  /\ tickets' = Live(tickets)
  /\ requests' = [requests EXCEPT ![r] = Free]
  /\ UNCHANGED <<up, voiceUp, data, changes, ghosts, gone, latest>>

\* Fault: what the session says is taken for the account.
Authentic_AsStored(s) == s.left > 0

\* authenticatedSession
Authentic(s) == s.left > 0 /\ Is(users, s.user, s.id)

\* A request with a session that is not authentic any more removes it; one
\* of handleSession does no more than that.
Refuse(s) ==
  /\ up /\ ~Authentic(s)
  /\ sessions' = sessions \ {s}
  /\ UNCHANGED <<up, voiceUp, data, tickets, requests, changes, ghosts, gone, latest>>

\* handleVoiceTicket with a session that is authentic.
AskTicket(r, s) ==
  /\ up /\ requests[r] = Free
  /\ Authentic(s)
  /\ Begin(r, "ticket", s.user, s.id)
  /\ UNCHANGED <<up, voiceUp, data, sessions, tickets, changes, ghosts, gone, latest>>

\* Its second half.
IssueTicket(r) ==
  /\ up /\ requests[r].kind = "ticket"
  /\ tickets' = Live(tickets \cup
       {[user |-> requests[r].user, id |-> requests[r].id, left |-> TicketTicks]})
  /\ sessions' = Live(sessions)
  /\ requests' = [requests EXCEPT ![r] = Free]
  /\ UNCHANGED <<up, voiceUp, data, changes, ghosts, gone, latest>>

\* Fault: a ticket counts for as long as nobody prunes it.
Spend_AnyAge(t) ==
  /\ up
  /\ tickets' = tickets \ {t}
  /\ latest' = IF voiceUp /\ gone[<<t.user, t.id>>] > latest
               THEN gone[<<t.user, t.id>>] ELSE latest
  /\ UNCHANGED <<up, voiceUp, data, sessions, requests, changes, ghosts, gone>>

\* handleVoice: the ticket is used up in any case; one that has not expired
\* opens a connection if there is a voice bridge.
Spend(t) ==
  /\ up
  /\ tickets' = tickets \ {t}
  /\ latest' = IF voiceUp /\ t.left > 0 /\ gone[<<t.user, t.id>>] > latest
               THEN gone[<<t.user, t.id>>] ELSE latest
  /\ UNCHANGED <<up, voiceUp, data, sessions, requests, changes, ghosts, gone>>

Forgotten == /\ sessions' = {} /\ tickets' = {}
             /\ requests' = [r \in Requests |-> Free]
             /\ up' = FALSE

\* Fault: the file is written in place.
Interrupted_InPlace == file' \in {file, users', [c \in Callsigns |-> NoAccount]}

\* saveLocked writes a new file and renames it: the process can end before
\* or after that.
Interrupted == file' \in {file, users'}

\* The end of handleUsers: the change is in memory; then it is saved and
\* acknowledged, or the error is, or the process ends on the way.
Change(c, account) ==
  /\ up /\ changes < MaxChanges
  /\ changes' = changes + 1
  /\ users' = [users EXCEPT ![c] = account]
  /\ gone' = GoneWith(users')
  /\ \/ /\ file' = users'
        /\ acked' = [acked EXCEPT ![c] = account]
        /\ unacked' = [unacked EXCEPT ![c] = {}]
        /\ sessions' = IF account = NoAccount THEN {s \in sessions : s.user # c} ELSE sessions
        /\ UNCHANGED <<up, tickets, requests>>
     \/ /\ UNCHANGED <<file, acked>>
        /\ unacked' = [unacked EXCEPT ![c] = @ \cup {account}]
        /\ sessions' = IF account = NoAccount THEN {s \in sessions : s.user # c} ELSE sessions
        /\ UNCHANGED <<up, tickets, requests>>
     \/ /\ Interrupted
        /\ unacked' = [unacked EXCEPT ![c] = @ \cup {account}]
        /\ Forgotten
        /\ UNCHANGED acked
  /\ UNCHANGED <<voiceUp, latest>>

Save(c, id, enabled) == Change(c, [DMRID |-> id, Enabled |-> enabled])
Delete(c) == users[c] # NoAccount /\ Change(c, NoAccount)

Crash ==
  /\ up
  /\ Forgotten
  /\ UNCHANGED <<voiceUp, data, changes, ghosts, gone, latest>>

\* newClientAccess and startVoice
ProcessStart ==
  /\ ~up
  /\ up' = TRUE /\ voiceUp' \in BOOLEAN
  /\ users' = file
  /\ gone' = GoneWith(file)
  /\ UNCHANGED <<file, sessions, tickets, requests, changes, ghosts, latest>>

OlderTokens(tokens) == {[t EXCEPT !.left = IF @ > 0 THEN @ - 1 ELSE 0] : t \in tokens}

AccessTick ==
  /\ \A r \in Requests : requests[r] # Free => requests[r].age < RequestTicks
  /\ requests' = [r \in Requests |->
       IF requests[r] = Free THEN Free ELSE [requests[r] EXCEPT !.age = @ + 1]]
  /\ sessions' = OlderTokens(sessions)
  /\ tickets' = OlderTokens(tickets)
  /\ gone' = [pair \in Callsigns \X DMRIDs |->
       IF Is(users, pair[1], pair[2]) /\ up THEN 0
       ELSE IF gone[pair] < MaxGone THEN gone[pair] + 1 ELSE MaxGone]
  /\ UNCHANGED <<up, voiceUp, data, changes, ghosts, latest>>

AccessNext ==
  \/ \E c \in Callsigns :
       \/ Delete(c)
       \/ \E id \in DMRIDs :
            \/ \E enabled \in BOOLEAN : Save(c, id, enabled)
            \/ \E r \in Requests : Login(r, c, id)
  \/ \E r \in Requests :
       \/ StoreSession(r) \/ IssueTicket(r)
       \/ \E s \in sessions : AskTicket(r, s)
  \/ \E s \in sessions : Refuse(s)
  \/ \E t \in tickets : Spend(t)
  \/ Crash \/ ProcessStart \/ AccessTick

AccessSpec == AccessInit /\ [][AccessNext]_accessVars

-----------------------------------------------------------------------------
(* Properties                                                              *)

\* docs/API.md:49: "a one-use, 30-second WebSocket ticket".  A connection is
\* opened for somebody whose account was enabled under that DMR ID within the
\* lifetime of a ticket and the time a request takes, although sessions last
\* for hours, a login or a ticket may be under way while the account changes,
\* and accounts come back from the file after a restart.
OpenedByAccount == latest <= TicketTicks + RequestTicks

\* A change of an account that was acknowledged is what a restart finds,
\* unless the same account was changed again without an answer; failed
\* changes of other accounts, which later saves write too, do not touch it.
AckedSurvives ==
  \A c \in Callsigns : file[c] \in {acked[c]} \cup unacked[c]
=============================================================================
