---------------------------- MODULE ClientProofs -----------------------------
(***************************************************************************)
(* Proofs about the gateway's voice clients: their accounts, sessions and  *)
(* tickets (ClientAccess), for any accounts, lifetimes and number of       *)
(* requests under way, and the bridge they talk over (VoiceBridge), for    *)
(* any number of clients and any limits.                                   *)
(***************************************************************************)
EXTENDS ClientAccess, VoiceBridge, TLAPS

-----------------------------------------------------------------------------
(* Accounts                                                                *)

LEMMA GoneType ==
  ASSUME AccessTypeOK, NEW accounts
  PROVE  GoneWith(accounts) \in [Callsigns \X DMRIDs -> 0 .. MaxGone]
BY TickAssumption DEF GoneWith, AccessTypeOK, MaxGone

LEMMA LiveType ==
  ASSUME NEW left, NEW tokens \in SUBSET Holder(left)
  PROVE  Live(tokens) \subseteq Holder(left)
BY DEF Live

LEMMA OlderType ==
  ASSUME NEW n \in Nat, NEW tokens \in SUBSET Holder(0 .. n)
  PROVE  OlderTokens(tokens) \subseteq Holder(0 .. n)
BY DEF OlderTokens, Holder

(* Every variable holds a value of its type.                               *)
THEOREM AccessTypeCorrect == AccessSpec => []AccessTypeOK
<1>1. AccessInit => AccessTypeOK
  BY TickAssumption DEF AccessInit, AccessTypeOK, MaxGone, Accounts
<1>2. AccessTypeOK /\ [AccessNext]_accessVars => AccessTypeOK'
  <2> SUFFICES ASSUME AccessTypeOK, [AccessNext]_accessVars PROVE AccessTypeOK'
    OBVIOUS
  <2> USE TickAssumption
  <2>1. ASSUME NEW r \in Requests, NEW c \in Callsigns, NEW id \in DMRIDs, Login(r, c, id)
        PROVE  AccessTypeOK'
    BY <2>1 DEF Login, Begin, data, ghosts, AccessTypeOK, Pending
  <2>2. ASSUME NEW r \in Requests, StoreSession(r) PROVE AccessTypeOK'
    <3>1. requests[r] \in Pending
      BY <2>2 DEF StoreSession, AccessTypeOK, Free
    <3>2. [user |-> requests[r].user, id |-> requests[r].id, left |-> SessionTicks]
            \in Holder(0 .. SessionTicks)
      BY <3>1 DEF Pending, Holder
    <3> QED
      BY <2>2, <3>2, LiveType DEF StoreSession, data, ghosts, AccessTypeOK, Live
  <2>3. ASSUME NEW r \in Requests, IssueTicket(r) PROVE AccessTypeOK'
    <3>1. requests[r] \in Pending
      BY <2>3 DEF IssueTicket, AccessTypeOK, Free
    <3>2. [user |-> requests[r].user, id |-> requests[r].id, left |-> TicketTicks]
            \in Holder(0 .. TicketTicks)
      BY <3>1 DEF Pending, Holder
    <3> QED
      BY <2>3, <3>2, LiveType DEF IssueTicket, data, ghosts, AccessTypeOK, Live
  <2>4. ASSUME NEW r \in Requests, NEW s \in sessions, AskTicket(r, s) PROVE AccessTypeOK'
    <3>1. s.user \in Callsigns /\ s.id \in DMRIDs
      BY DEF AccessTypeOK, Holder
    <3> QED
      BY <2>4, <3>1 DEF AskTicket, Begin, data, ghosts, AccessTypeOK, Pending
  <2>5. ASSUME NEW s \in sessions, Refuse(s) PROVE AccessTypeOK'
    BY <2>5 DEF Refuse, data, ghosts, AccessTypeOK
  <2>6. ASSUME NEW t \in tickets, Spend(t) PROVE AccessTypeOK'
    <3>1. gone[<<t.user, t.id>>] \in 0 .. MaxGone
      BY DEF AccessTypeOK, Holder
    <3> QED
      BY <2>6, <3>1 DEF Spend, data, ghosts, AccessTypeOK
  <2>7. ASSUME NEW c \in Callsigns, NEW account \in Account \cup {NoAccount}, Change(c, account)
        PROVE  AccessTypeOK'
    <3>1. users' \in Accounts /\ gone' \in [Callsigns \X DMRIDs -> 0 .. MaxGone]
      BY <2>7, GoneType DEF Change, AccessTypeOK, Accounts
    <3>2. file' \in Accounts
      BY <2>7, <3>1 DEF Change, Interrupted, AccessTypeOK
    <3>3. acked' \in Accounts /\ unacked' \in [Callsigns -> SUBSET (Account \cup {NoAccount})]
      BY <2>7 DEF Change, AccessTypeOK, Accounts
    <3>4. sessions' \subseteq sessions /\ tickets' \subseteq tickets
      BY <2>7 DEF Change, Forgotten
    <3>5. requests' \in [Requests -> {Free} \cup Pending] /\ up' \in BOOLEAN
      BY <2>7 DEF Change, Forgotten, AccessTypeOK
    <3>6. voiceUp' = voiceUp /\ latest' = latest /\ changes' \in 0 .. MaxChanges
      BY <2>7 DEF Change, AccessTypeOK
    <3> QED
      BY <3>1, <3>2, <3>3, <3>4, <3>5, <3>6 DEF AccessTypeOK
  <2>8. CASE Crash
    BY <2>8 DEF Crash, Forgotten, data, ghosts, AccessTypeOK
  <2>9. CASE ProcessStart
    BY <2>9, GoneType DEF ProcessStart, ghosts, AccessTypeOK
  <2>10. CASE AccessTick
    <3>1. requests' \in [Requests -> {Free} \cup Pending]
      <4>1. ASSUME NEW r \in Requests, requests[r] # Free
            PROVE  [requests[r] EXCEPT !.age = requests[r].age + 1] \in Pending
        <5>1. requests[r] \in Pending /\ requests[r].age < RequestTicks
          BY <2>10, <4>1 DEF AccessTick, AccessTypeOK
        <5> QED
          BY <5>1 DEF Pending
      <4> QED
        BY <2>10, <4>1 DEF AccessTick
    <3>2. sessions' \subseteq Holder(0 .. SessionTicks) /\ tickets' \subseteq Holder(0 .. TicketTicks)
      BY <2>10, OlderType DEF AccessTick, AccessTypeOK
    <3>3. gone' \in [Callsigns \X DMRIDs -> 0 .. MaxGone]
      BY <2>10 DEF AccessTick, AccessTypeOK, MaxGone
    <3> QED
      BY <2>10, <3>1, <3>2, <3>3 DEF AccessTick, data, ghosts, AccessTypeOK
  <2>11. CASE UNCHANGED accessVars
    BY <2>11 DEF accessVars, data, ghosts, AccessTypeOK
  <2> QED
    BY <2>1, <2>2, <2>3, <2>4, <2>5, <2>6, <2>7, <2>8, <2>9, <2>10, <2>11
    DEF AccessNext, Save, Delete, Account
<1>3. QED
  BY <1>1, <1>2, PTL DEF AccessSpec

-----------------------------------------------------------------------------
(***************************************************************************)
(* A change that failed stays in memory, and the next save of any account  *)
(* writes it: so the accounts in memory, too, must be acknowledged ones or *)
(* later ones of the same callsign.                                        *)
(***************************************************************************)
SaveInv == AckedSurvives /\ \A c \in Callsigns : users[c] \in {acked[c]} \cup unacked[c]

(* A change of an account that was acknowledged is what a restart finds.   *)
THEOREM AckedIsSaved == AccessSpec => []AckedSurvives
<1>1. AccessInit => SaveInv
  BY DEF AccessInit, SaveInv, AckedSurvives
<1>2. AccessTypeOK /\ SaveInv /\ [AccessNext]_accessVars => SaveInv'
  <2> SUFFICES ASSUME AccessTypeOK, SaveInv, [AccessNext]_accessVars PROVE SaveInv'
    OBVIOUS
  <2>1. CASE UNCHANGED <<users, file, acked, unacked>>
    BY <2>1 DEF SaveInv, AckedSurvives
  <2>2. ASSUME NEW c \in Callsigns, NEW account, Change(c, account)
        PROVE  SaveInv'
    <3>1. users' = [users EXCEPT ![c] = account] /\ users \in [Callsigns -> Account \cup {NoAccount}]
      BY <2>2 DEF Change, AccessTypeOK, Accounts
    <3>2. CASE /\ file' = users'
               /\ acked' = [acked EXCEPT ![c] = account]
               /\ unacked' = [unacked EXCEPT ![c] = {}]
      BY <3>1, <3>2 DEF SaveInv, AckedSurvives, AccessTypeOK, Accounts
    <3>3. CASE /\ file' \in {file, users'}
               /\ acked' = acked
               /\ unacked' = [unacked EXCEPT ![c] = @ \cup {account}]
      BY <3>1, <3>3 DEF SaveInv, AckedSurvives, AccessTypeOK, Accounts
    <3> QED
      BY <2>2, <3>2, <3>3 DEF Change, Interrupted
  <2>3. CASE ProcessStart
    BY <2>3 DEF ProcessStart, ghosts, SaveInv, AckedSurvives
  <2> QED
    BY <2>1, <2>2, <2>3
    DEF AccessNext, Save, Delete, Login, StoreSession, IssueTicket, AskTicket, Refuse,
        Spend, Crash, AccessTick, accessVars, data, ghosts
<1>3. QED
  BY <1>1, <1>2, AccessTypeCorrect, PTL DEF AccessSpec, SaveInv

-----------------------------------------------------------------------------
(***************************************************************************)
(* What a ticket says was true of the accounts when it was asked for; so   *)
(* the time since then bounds gone: the age of the request until it is     *)
(* issued, then what has been used of its lifetime besides.  A ticket with *)
(* nothing left opens nothing, and nothing is claimed of it.               *)
(***************************************************************************)
GoneIsZero ==
  up => \A c \in Callsigns, id \in DMRIDs : Is(users, c, id) => gone[<<c, id>>] = 0

AskedInTime ==
  \A r \in Requests : requests[r].kind = "ticket" =>
    gone[<<requests[r].user, requests[r].id>>] <= requests[r].age

IssuedInTime ==
  \A t \in tickets : t.left > 0 =>
    gone[<<t.user, t.id>>] + t.left <= RequestTicks + TicketTicks

TicketInv == GoneIsZero /\ AskedInTime /\ IssuedInTime /\ OpenedByAccount

(* Accounts and the time only change gone together with what is bounded.   *)
LEMMA StillInTime ==
  ASSUME AccessTypeOK, TicketInv,
         gone' \in [Callsigns \X DMRIDs -> 0 .. MaxGone],
         \A pair \in Callsigns \X DMRIDs : gone'[pair] <= gone[pair],
         requests' = requests \/ requests' = [r \in Requests |-> Free],
         tickets' \subseteq tickets,
         latest' = latest
  PROVE  AskedInTime' /\ IssuedInTime' /\ OpenedByAccount'
<1> USE TickAssumption
<1>1. AskedInTime'
  <2> SUFFICES ASSUME NEW r \in Requests, requests'[r].kind = "ticket"
               PROVE  gone'[<<requests'[r].user, requests'[r].id>>] <= requests'[r].age
    BY DEF AskedInTime
  <2>1. requests'[r] = requests[r]
    BY DEF Free
  <2>2. requests[r] \in Pending
    BY <2>1 DEF AccessTypeOK, Free
  <2>3. <<requests[r].user, requests[r].id>> \in Callsigns \X DMRIDs
    BY <2>2 DEF Pending
  <2>4. gone[<<requests[r].user, requests[r].id>>] <= requests[r].age
    BY <2>1 DEF TicketInv, AskedInTime
  <2> QED
    BY <2>1, <2>2, <2>3, <2>4 DEF AccessTypeOK, Pending, MaxGone
<1>2. IssuedInTime'
  <2> SUFFICES ASSUME NEW t \in tickets, t.left > 0
               PROVE  gone'[<<t.user, t.id>>] + t.left <= RequestTicks + TicketTicks
    BY DEF IssuedInTime
  <2>1. <<t.user, t.id>> \in Callsigns \X DMRIDs /\ t.left \in 0 .. TicketTicks
    BY DEF AccessTypeOK, Holder
  <2>2. gone[<<t.user, t.id>>] + t.left <= RequestTicks + TicketTicks
    BY DEF TicketInv, IssuedInTime
  <2> QED
    BY <2>1, <2>2 DEF AccessTypeOK, MaxGone
<1> QED
  BY <1>1, <1>2 DEF TicketInv, OpenedByAccount

LEMMA GoneWithLess ==
  ASSUME AccessTypeOK, NEW accounts
  PROVE  \A pair \in Callsigns \X DMRIDs : GoneWith(accounts)[pair] <= gone[pair]
BY TickAssumption DEF GoneWith, AccessTypeOK, MaxGone

(* Nobody's connection is opened later than a ticket and a request last    *)
(* after the account was disabled or deleted, whatever sessions there are. *)
THEOREM OnlyAccountsOpen == AccessSpec => []OpenedByAccount
<1> USE TickAssumption
<1>1. AccessInit => TicketInv
  <2>1. ASSUME NEW id \in DMRIDs PROVE NoAccount # [DMRID |-> id, Enabled |-> TRUE]
    <3>1. [DMRID |-> id, Enabled |-> TRUE] \in Account
      BY DEF Account
    <3> QED
      BY <3>1, NoAccountAssumption
  <2>2. AccessInit => GoneIsZero
    BY <2>1 DEF AccessInit, GoneIsZero, Is
  <2> QED
    BY <2>2 DEF AccessInit, TicketInv, AskedInTime, IssuedInTime, OpenedByAccount, Free
<1>2. AccessTypeOK /\ AccessTypeOK' /\ TicketInv /\ [AccessNext]_accessVars => TicketInv'
  <2> SUFFICES ASSUME AccessTypeOK, AccessTypeOK', TicketInv, [AccessNext]_accessVars PROVE TicketInv'
    OBVIOUS
  <2>1. ASSUME NEW r \in Requests, NEW c \in Callsigns, NEW id \in DMRIDs, Login(r, c, id)
        PROVE  TicketInv'
    BY <2>1 DEF Login, Begin, data, AccessTypeOK, TicketInv, GoneIsZero, AskedInTime,
                IssuedInTime, OpenedByAccount
  <2>2. ASSUME NEW r \in Requests, StoreSession(r) PROVE TicketInv'
    BY <2>2 DEF StoreSession, Live, data, AccessTypeOK, Free, TicketInv, GoneIsZero,
                AskedInTime, IssuedInTime, OpenedByAccount
  <2>3. ASSUME NEW r \in Requests, IssueTicket(r) PROVE TicketInv'
    <3> DEFINE new == [user |-> requests[r].user, id |-> requests[r].id, left |-> TicketTicks]
    <3>1. requests[r] \in Pending
      BY <2>3 DEF IssueTicket, AccessTypeOK, Free
    <3>2. gone[<<new.user, new.id>>] + new.left <= RequestTicks + TicketTicks
      <4>1. gone[<<requests[r].user, requests[r].id>>] <= requests[r].age
        BY <2>3 DEF IssueTicket, TicketInv, AskedInTime
      <4>2. gone[<<requests[r].user, requests[r].id>>] \in 0 .. MaxGone
        BY <3>1 DEF AccessTypeOK, Pending
      <4> QED
        BY <3>1, <4>1, <4>2 DEF Pending, MaxGone
    <3>3. tickets' \subseteq tickets \cup {new}
      BY <2>3 DEF IssueTicket, Live
    <3>4. gone' = gone /\ latest' = latest /\ users' = users /\ up' = up
      BY <2>3 DEF IssueTicket, data
    <3>5. IssuedInTime'
      BY <3>2, <3>3, <3>4 DEF TicketInv, IssuedInTime
    <3>6. AskedInTime'
      BY <2>3, <3>4 DEF IssueTicket, AccessTypeOK, Free, TicketInv, AskedInTime
    <3> QED
      BY <3>4, <3>5, <3>6 DEF TicketInv, GoneIsZero, OpenedByAccount
  <2>4. ASSUME NEW r \in Requests, NEW s \in sessions, AskTicket(r, s) PROVE TicketInv'
    <3>1. s.user \in Callsigns /\ s.id \in DMRIDs
      BY DEF AccessTypeOK, Holder
    <3>2. gone[<<s.user, s.id>>] = 0
      BY <2>4, <3>1 DEF AskTicket, Authentic, TicketInv, GoneIsZero
    <3>3. AskedInTime'
      <4>1. PICK new : /\ new = [kind |-> "ticket", user |-> s.user, id |-> s.id, age |-> 0]
                       /\ gone' = gone /\ requests' = [requests EXCEPT ![r] = new]
        BY <2>4 DEF AskTicket, Begin
      <4>2. gone[<<new.user, new.id>>] <= new.age
        BY <3>2, <4>1
      <4>3. \A q \in Requests : requests'[q] = IF q = r THEN new ELSE requests[q]
        BY <4>1 DEF AccessTypeOK
      <4> QED
        BY <4>1, <4>2, <4>3 DEF TicketInv, AskedInTime
    <3> QED
      BY <2>4, <3>3 DEF AskTicket, data, TicketInv, GoneIsZero, IssuedInTime, OpenedByAccount
  <2>5. ASSUME NEW s \in sessions, Refuse(s) PROVE TicketInv'
    BY <2>5 DEF Refuse, data, TicketInv, GoneIsZero, AskedInTime, IssuedInTime, OpenedByAccount
  <2>6. ASSUME NEW t \in tickets, Spend(t) PROVE TicketInv'
    <3>1. <<t.user, t.id>> \in Callsigns \X DMRIDs /\ t.left \in 0 .. TicketTicks
      BY DEF AccessTypeOK, Holder
    <3>2. t.left > 0 => gone[<<t.user, t.id>>] <= TicketTicks + RequestTicks
      BY <3>1 DEF TicketInv, IssuedInTime, AccessTypeOK, MaxGone
    <3>3. OpenedByAccount'
      BY <2>6, <3>1, <3>2 DEF Spend, TicketInv, OpenedByAccount
    <3> QED
      BY <2>6, <3>3 DEF Spend, data, TicketInv, GoneIsZero, AskedInTime, IssuedInTime
  <2>7. ASSUME NEW c \in Callsigns, NEW account, Change(c, account) PROVE TicketInv'
    <3>1. GoneIsZero'
      BY <2>7 DEF Change, GoneWith, GoneIsZero
    <3>2. /\ \A pair \in Callsigns \X DMRIDs : gone'[pair] <= gone[pair]
          /\ gone' \in [Callsigns \X DMRIDs -> 0 .. MaxGone]
      BY <2>7, GoneWithLess, GoneType DEF Change
    <3>3. /\ requests' = requests \/ requests' = [r \in Requests |-> Free]
          /\ tickets' \subseteq tickets /\ latest' = latest
      BY <2>7 DEF Change, Forgotten
    <3> QED
      BY <3>1, <3>2, <3>3, StillInTime DEF TicketInv
  <2>8. CASE Crash
    BY <2>8 DEF Crash, Forgotten, Free, TicketInv, GoneIsZero, AskedInTime,
                IssuedInTime, OpenedByAccount
  <2>9. CASE ProcessStart
    <3>1. GoneIsZero'
      BY <2>9 DEF ProcessStart, GoneWith, GoneIsZero
    <3>2. /\ \A pair \in Callsigns \X DMRIDs : gone'[pair] <= gone[pair]
          /\ gone' \in [Callsigns \X DMRIDs -> 0 .. MaxGone]
      BY <2>9, GoneWithLess, GoneType DEF ProcessStart
    <3>3. requests' = requests /\ tickets' = tickets /\ latest' = latest
      BY <2>9 DEF ProcessStart
    <3> QED
      BY <3>1, <3>2, <3>3, StillInTime DEF TicketInv
  <2>10. CASE AccessTick
    <3>1. \A pair \in Callsigns \X DMRIDs : gone'[pair] \in 0 .. MaxGone /\ gone'[pair] <= gone[pair] + 1
      BY <2>10 DEF AccessTick, AccessTypeOK, MaxGone
    <3>2. GoneIsZero'
      BY <2>10 DEF AccessTick, data, GoneIsZero
    <3>3. AskedInTime'
      <4> SUFFICES ASSUME NEW r \in Requests, requests'[r].kind = "ticket"
                   PROVE  gone'[<<requests'[r].user, requests'[r].id>>] <= requests'[r].age
        BY DEF AskedInTime
      <4>1. requests'[r] = IF requests[r] = Free THEN Free ELSE [requests[r] EXCEPT !.age = requests[r].age + 1]
        BY <2>10 DEF AccessTick
      <4>2. requests[r] \in Pending
        BY <4>1 DEF Free, AccessTypeOK
      <4>3. /\ requests'[r].user = requests[r].user /\ requests'[r].id = requests[r].id
            /\ requests'[r].kind = requests[r].kind
            /\ requests'[r].age = requests[r].age + 1
        BY <4>1, <4>2 DEF Pending, Free
      <4>4. gone[<<requests[r].user, requests[r].id>>] <= requests[r].age
        BY <4>3 DEF TicketInv, AskedInTime
      <4>5. <<requests[r].user, requests[r].id>> \in Callsigns \X DMRIDs /\ requests[r].age \in 0 .. RequestTicks
        BY <4>2 DEF Pending
      <4> QED
        BY <3>1, <4>3, <4>4, <4>5 DEF AccessTypeOK, MaxGone
    <3>4. IssuedInTime'
      <4> SUFFICES ASSUME NEW u \in tickets', u.left > 0
                   PROVE  gone'[<<u.user, u.id>>] + u.left <= RequestTicks + TicketTicks
        BY DEF IssuedInTime
      <4>1. PICK t \in tickets : u = [t EXCEPT !.left = IF t.left > 0 THEN t.left - 1 ELSE 0]
        BY <2>10 DEF AccessTick, OlderTokens
      <4>2. t \in Holder(0 .. TicketTicks)
        BY DEF AccessTypeOK
      <4>3. u.user = t.user /\ u.id = t.id /\ t.left > 0 /\ u.left = t.left - 1
        BY <4>1, <4>2 DEF Holder
      <4>4. gone[<<t.user, t.id>>] + t.left <= RequestTicks + TicketTicks
        BY <4>3 DEF TicketInv, IssuedInTime
      <4>5. <<t.user, t.id>> \in Callsigns \X DMRIDs /\ t.left \in 0 .. TicketTicks
        BY <4>2 DEF Holder
      <4> QED
        BY <3>1, <4>3, <4>4, <4>5 DEF AccessTypeOK, MaxGone
    <3> QED
      BY <2>10, <3>2, <3>3, <3>4 DEF AccessTick, TicketInv, OpenedByAccount
  <2>11. CASE UNCHANGED accessVars
    BY <2>11 DEF accessVars, data, TicketInv, GoneIsZero, AskedInTime, IssuedInTime, OpenedByAccount
  <2> QED
    BY <2>1, <2>2, <2>3, <2>4, <2>5, <2>6, <2>7, <2>8, <2>9, <2>10, <2>11
    DEF AccessNext, Save, Delete
<1>3. QED
  BY <1>1, <1>2, AccessTypeCorrect, PTL DEF AccessSpec, TicketInv

-----------------------------------------------------------------------------
(* The voice clients' bridge                                               *)

LEMMA NumberType ==
  ASSUME NEW n \in 0 .. SeqMod - 1
  PROVE  (n + 1) % SeqMod \in 0 .. SeqMod - 1
BY NumberAssumption

LEMMA NumberedType ==
  ASSUME TypeOK, NEW c \in Clients, NEW kind \in {"identity", "voice", "eot"},
         Numbered(kind, c)
  PROVE  sequence' \in 0 .. SeqMod - 1 /\ packet' \in Stream!Packet
<1>1. sequence' \in 0 .. SeqMod - 1
  BY NumberType DEF Numbered, TypeOK
<1> QED
  BY <1>1 DEF Numbered, Stream!Packet

LEMMA StopType ==
  ASSUME TypeOK, NEW c \in Clients, StopTalker(c) \/ UNCHANGED voice
  PROVE  /\ talker' \in Clients \cup {NoClient}
         /\ talkAge' \in 0 .. MaxTalkAge /\ quiet' \in 0 .. MaxQuiet
         /\ sequence' \in 0 .. SeqMod - 1 /\ packet' \in Stream!Packet
<1>1. CASE StopTalker(c)
  BY <1>1, NumberedType DEF StopTalker, TypeOK
<1>2. CASE UNCHANGED voice
  BY <1>2 DEF voice, TypeOK
<1> QED
  BY <1>1, <1>2

(* Every variable holds a value of its type; the sequence number never      *)
(* leaves its field.                                                       *)
THEOREM TypeCorrect == Spec => []TypeOK
<1>1. Init => TypeOK
  BY NumberAssumption DEF Init, TypeOK, MaxTalkAge, MaxQuiet, Stream!Packet
<1>2. TypeOK /\ [Next]_vars => TypeOK'
  <2> SUFFICES ASSUME TypeOK, [Next]_vars PROVE TypeOK'
    OBVIOUS
  <2>1. ASSUME NEW c \in Clients, Connect(c) \/ Forget(c) PROVE TypeOK'
    BY <2>1 DEF Connect, Forget, voice, TypeOK
  <2>2. ASSUME NEW c \in Clients, Start(c) PROVE TypeOK'
    BY <2>2, NumberedType, NumberAssumption
    DEF Start, TypeOK, MaxTalkAge, MaxQuiet
  <2>3. ASSUME NEW c \in Clients, Audio(c) PROVE TypeOK'
    <3>1. CASE StopTalker(c)
      BY <2>3, <3>1, StopType DEF Audio, TypeOK
    <3>2. CASE quiet' = 0 /\ Numbered("voice", c) /\ UNCHANGED <<talker, talkAge>>
      BY <2>3, <3>2, NumberedType, NumberAssumption DEF Audio, TypeOK, MaxQuiet
    <3> QED
      BY <2>3, <3>1, <3>2 DEF Audio
  <2>4. ASSUME NEW c \in Clients, Release(c) \/ Disconnect(c) PROVE TypeOK'
    BY <2>4, StopType DEF Release, Disconnect, Stop, TypeOK
  <2>5. CASE Watchdog
    <3>1. CASE talker # NoClient /\ Overdue
      BY <2>5, <3>1, StopType, NumberAssumption DEF Watchdog, TypeOK
    <3>2. CASE ~(talker # NoClient /\ Overdue)
      BY <2>5, <3>2, NumberAssumption DEF Watchdog, voice, TypeOK
    <3> QED
      BY <3>1, <3>2
  <2>6. CASE Tick
    BY <2>6, NumberAssumption DEF Tick, TypeOK, Older, MaxTalkAge, MaxQuiet
  <2>7. CASE UNCHANGED vars
    BY <2>7 DEF vars, voice, TypeOK
  <2> QED
    BY <2>1, <2>2, <2>3, <2>4, <2>5, <2>6, <2>7 DEF Next
<1>3. QED
  BY <1>1, <1>2, PTL DEF Spec

-----------------------------------------------------------------------------
(***************************************************************************)
(* The limits are only looked at when the watchdog runs, so what is kept   *)
(* is that a talker is over a limit by no more than the time since then.   *)
(***************************************************************************)
TalkInv ==
  talker # NoClient =>
    /\ clients[talker] = "open"
    /\ talkAge <= CallTicks + sinceWatch
    /\ quiet <= AudioTicks + sinceWatch

LEMMA TalkInductive ==
  /\ Init => TalkInv
  /\ TypeOK /\ TalkInv /\ [Next]_vars => TalkInv'
<1>1. Init => TalkInv
  BY DEF Init, TalkInv
<1>2. ASSUME TypeOK, TalkInv, [Next]_vars PROVE TalkInv'
  <2>1. ASSUME NEW c \in Clients, Connect(c) \/ Forget(c) PROVE TalkInv'
    BY <1>2, <2>1 DEF Connect, Forget, voice, TypeOK, TalkInv
  <2>2. ASSUME NEW c \in Clients, Start(c) PROVE TalkInv'
    BY <1>2, <2>2, NumberAssumption DEF Start, TypeOK, TalkInv
  <2>3. ASSUME NEW c \in Clients, Audio(c) PROVE TalkInv'
    BY <1>2, <2>3, NumberAssumption DEF Audio, StopTalker, TypeOK, TalkInv
  <2>4. ASSUME NEW c \in Clients, Release(c) PROVE TalkInv'
    BY <1>2, <2>4 DEF Release, Stop, StopTalker, voice, TypeOK, TalkInv
  <2>5. ASSUME NEW c \in Clients, Disconnect(c) PROVE TalkInv'
    BY <1>2, <2>5 DEF Disconnect, Stop, StopTalker, voice, TypeOK, TalkInv
  <2>6. CASE Watchdog
    <3>1. CASE talker # NoClient /\ Overdue
      BY <2>6, <3>1 DEF Watchdog, StopTalker, TalkInv
    <3>2. CASE ~(talker # NoClient /\ Overdue)
      <4>1. UNCHANGED <<clients, talker, talkAge, quiet>> /\ sinceWatch' = 0
        BY <2>6, <3>2 DEF Watchdog, voice
      <4>2. /\ talkAge \in Nat /\ quiet \in Nat
            /\ talker # NoClient => talkAge <= CallTicks /\ quiet <= AudioTicks
        BY <1>2, <3>2, NumberAssumption
        DEF Overdue, TypeOK, MaxTalkAge, MaxQuiet
      <4> QED
        BY <1>2, <4>1, <4>2, NumberAssumption DEF TalkInv
    <3> QED
      BY <3>1, <3>2
  <2>7. CASE Tick
    <3>1. talkAge' <= talkAge + 1 /\ quiet' <= quiet + 1
      BY <1>2, <2>7, NumberAssumption
      DEF Tick, TypeOK, Older, MaxTalkAge, MaxQuiet
    <3>2. /\ talkAge \in Nat /\ quiet \in Nat /\ sinceWatch \in Nat
          /\ talkAge' \in Nat /\ quiet' \in Nat
      BY <1>2, <2>7, NumberAssumption
      DEF Tick, TypeOK, Older, MaxTalkAge, MaxQuiet
    <3> QED
      BY <1>2, <2>7, <3>1, <3>2, NumberAssumption DEF Tick, TalkInv
  <2>8. CASE UNCHANGED vars
    BY <1>2, <2>8 DEF vars, voice, TalkInv
  <2> QED
    BY <1>2, <2>1, <2>2, <2>3, <2>4, <2>5, <2>6, <2>7, <2>8 DEF Next
<1> QED
  BY <1>1, <1>2

(* Nobody transmits for longer than a limit and a watchdog period.         *)
THEOREM TalkIsBounded == Spec => []BoundedTalk
<1>1. TypeOK /\ TalkInv => BoundedTalk
  BY NumberAssumption DEF TypeOK, TalkInv, BoundedTalk
<1> QED
  BY <1>1, TypeCorrect, TalkInductive, PTL DEF Spec

(* Only a connected client transmits.                                      *)
THEOREM TalkerIsConnected == Spec => []TalkerConnected
<1>1. TalkInv => TalkerConnected
  BY DEF TalkInv, TalkerConnected
<1> QED
  BY <1>1, TypeCorrect, TalkInductive, PTL DEF Spec

-----------------------------------------------------------------------------
(***************************************************************************)
(* The USRP stream.  That the next packet fits the last one is decided     *)
(* from b.talker alone; the invariant says that b.talker is what the last  *)
(* packet made node 1997 believe.                                          *)
(***************************************************************************)
StreamInv ==
  /\ packet.seq = sequence
  /\ talker = NoClient <=> packet.kind = "eot"
  /\ talker # NoClient => packet.from = talker

LEMMA NumberedFields ==
  ASSUME NEW c, NEW kind, Numbered(kind, c), StreamInv
  PROVE  /\ packet' = [kind |-> kind, from |-> c, seq |-> (packet.seq + 1) % SeqMod]
         /\ packet'.seq = sequence'
BY DEF Numbered, StreamInv

LEMMA StopStep ==
  ASSUME TypeOK, StreamInv, NEW c \in Clients, talker = c, StopTalker(c)
  PROVE  StreamInv' /\ [Stream!Next]_packet
<1>1. packet.kind # "eot" /\ packet.from = c
  BY ClientAssumption DEF StreamInv
<1>2. packet' = [kind |-> "eot", from |-> c, seq |-> (packet.seq + 1) % SeqMod]
      /\ packet'.seq = sequence'
  BY NumberedFields DEF StopTalker
<1>3. StreamInv'
  BY <1>2 DEF StreamInv, StopTalker
<1>4. Stream!Close
  BY <1>1, <1>2 DEF Stream!Close, Stream!Quiet, Stream!Emit
<1> QED
  BY <1>3, <1>4 DEF Stream!Next

LEMMA StreamStep ==
  TypeOK /\ StreamInv /\ [Next]_vars => StreamInv' /\ [Stream!Next]_packet
<1> SUFFICES ASSUME TypeOK, StreamInv, [Next]_vars
             PROVE  StreamInv' /\ [Stream!Next]_packet
  OBVIOUS
<1>0. CASE UNCHANGED voice
  BY <1>0 DEF voice, StreamInv
<1>1. ASSUME NEW c \in Clients, Start(c)
      PROVE  StreamInv' /\ [Stream!Next]_packet
  <2>1. packet' = [kind |-> "identity", from |-> c,
                   seq |-> (packet.seq + 1) % SeqMod]
        /\ packet'.seq = sequence' /\ talker' = c /\ talker = NoClient
    BY <1>1, NumberedFields DEF Start
  <2>2. StreamInv'
    BY <2>1, ClientAssumption DEF StreamInv
  <2>3. Stream!Open(c)
    BY <2>1 DEF StreamInv, Stream!Open, Stream!Quiet, Stream!Emit
  <2> QED
    BY <2>2, <2>3 DEF Stream!Next
<1>2. ASSUME NEW c \in Clients, Audio(c)
      PROVE  StreamInv' /\ [Stream!Next]_packet
  <2>1. CASE StopTalker(c)
    BY <1>2, <2>1, StopStep DEF Audio
  <2>2. CASE Numbered("voice", c) /\ UNCHANGED talker
    <3>1. packet' = [kind |-> "voice", from |-> c,
                     seq |-> (packet.seq + 1) % SeqMod]
          /\ packet'.seq = sequence' /\ talker' = c /\ talker = c
      BY <1>2, <2>2, NumberedFields DEF Audio
    <3>2. StreamInv'
      BY <3>1, ClientAssumption DEF StreamInv
    <3>3. Stream!Voice
      BY <3>1, ClientAssumption DEF StreamInv, Stream!Voice, Stream!Quiet, Stream!Emit
    <3> QED
      BY <3>2, <3>3 DEF Stream!Next
  <2> QED
    BY <1>2, <2>1, <2>2 DEF Audio
<1>3. ASSUME NEW c \in Clients, Stop(c)
      PROVE  StreamInv' /\ [Stream!Next]_packet
  BY <1>0, <1>3, StopStep DEF Stop
<1>4. CASE Watchdog
  BY <1>0, <1>4, StopStep DEF Watchdog, TypeOK
<1>5. CASE Tick
  BY <1>5 DEF Tick, StreamInv
<1> QED
  BY <1>0, <1>1, <1>2, <1>3, <1>4, <1>5
  DEF Next, Connect, Release, Disconnect, Forget, vars, voice

(* The bridge sends whole talk spurts, in sequence: its safety part        *)
(* implements USRPStream.                                                  *)
THEOREM SendsSpurts == Spec => Stream!Spec
<1>1. Init => StreamInv /\ Stream!Init
  BY ClientAssumption DEF Init, StreamInv, Stream!Init
<1> QED
  BY <1>1, TypeCorrect, StreamStep, PTL DEF Spec, Stream!Spec
=============================================================================
