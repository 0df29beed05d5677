-------------------------------- MODULE WSHub --------------------------------
(***************************************************************************)
(* The live connections of the dashboard: WSClient, wsTickets and handleWS *)
(* in gateway.go.  A page carries a ticket that opens one WebSocket.  Any  *)
(* goroutine broadcasts; under g.mu a message goes into the queue of every *)
(* client, and a client whose queue is full is shut down instead.  Each    *)
(* client has two goroutines: one writes the queue to the connection, with *)
(* two seconds for a message, the other reads commands until the           *)
(* connection fails and takes the client off the list.                     *)
(*                                                                         *)
(* A message is prepared before g.mu is taken, so that two of them may be  *)
(* sent in the other order.  A browser may stop reading or go away at any  *)
(* time.  A ticket stands for the user it was made for.                    *)
(***************************************************************************)
EXTENDS Naturals, Sequences, FiniteSets

CONSTANTS
  Tokens,       \* tickets, of random numbers
  Sockets,      \* requests for a connection
  Pending,      \* 256 tickets
  TicketTicks,  \* 30 s
  QueueSize,    \* 64 messages
  WireSize,     \* bound: messages the network holds
  Heads,        \* keys of calls: trafficKey
  MaxEvents,    \* bound: messages that are broadcast
  MaxReplies    \* bound: commands

ASSUME HubAssumption ==
  /\ Pending \in Nat \ {0} /\ TicketTicks \in Nat \ {0}
  /\ QueueSize \in Nat \ {0} /\ WireSize \in Nat \ {0}

VARIABLES
  tickets,   \* wsTickets: the age of each
  issued,    \* history: tokens that were given out
  clients,   \* per socket: see Fresh
  prepared,  \* messages that wait for g.mu
  log,       \* history: what was broadcast
  recent,    \* trafficLast: calls announced in the last second
  replies    \* how many commands were answered

hubVars == <<tickets, issued, clients, prepared, log, recent, replies>>

Reply == 0          \* what only one client is sent; broadcasts are from 1
Nothing == "nothing"

\* stage: "none", "upgrading", "open" while it is in g.clients, or "gone"
Fresh == [stage |-> "none", ticket |-> Nothing, done |-> FALSE,
          queue |-> <<>>, writing |-> <<>>, writer |-> TRUE,
          wire |-> <<>>, got |-> <<>>,
          start |-> 0, browser |-> "reading"]

HubInit ==
  /\ tickets = [t \in {} |-> 0] /\ issued = {}
  /\ clients = [c \in Sockets |-> Fresh]
  /\ prepared = {} /\ log = <<>> /\ recent = {} /\ replies = 0

Registered(c) == clients[c].stage = "open"
Running(c) == Registered(c) /\ ~clients[c].done
Change(c, new) == clients' = [clients EXCEPT ![c] = new]
Messages == Len(log) + Cardinality(prepared)

-----------------------------------------------------------------------------
(* Tickets                                                                 *)

Without(t) == [u \in DOMAIN tickets \ {t} |-> tickets[u]]
Unexpired == {t \in DOMAIN tickets : tickets[t] < TicketTicks}

\* issueWSTicket, for a page or for /api/ws_ticket.
IssueTicket(t) ==
  /\ t \notin issued
  /\ Cardinality(Unexpired) < Pending
  /\ tickets' = [u \in Unexpired \cup {t} |-> IF u = t THEN 0 ELSE tickets[u]]
  /\ issued' = issued \cup {t}
  /\ UNCHANGED <<clients, prepared, log, recent, replies>>

\* There are too many: only the old ones are thrown away.
RefuseTicket ==
  /\ Cardinality(Unexpired) >= Pending
  /\ tickets' = [u \in Unexpired |-> tickets[u]]
  /\ UNCHANGED <<issued, clients, prepared, log, recent, replies>>

\* Fault: a ticket is valid until it expires.
Spent_AtExpiry(t) == tickets

Spent(t) == Without(t)

\* consumeWSTicket: a ticket is gone, whether it was in time or not.
Consume(c, t) ==
  /\ clients[c].stage = "none"
  /\ t \in DOMAIN tickets
  /\ tickets' = Spent(t)
  /\ Change(c, [Fresh EXCEPT !.stage = IF t \in Unexpired THEN "upgrading" ELSE "gone",
                             !.ticket = IF t \in Unexpired THEN t ELSE Nothing])
  /\ UNCHANGED <<issued, prepared, log, recent, replies>>

\* The upgrade succeeds and the client is listed, or it fails.
Upgrade(c) ==
  /\ clients[c].stage = "upgrading"
  /\ \E ok \in BOOLEAN :
       Change(c, [clients[c] EXCEPT !.stage = IF ok THEN "open" ELSE "gone",
                                    !.start = IF ok THEN Len(log) ELSE 0])
  /\ UNCHANGED <<tickets, issued, prepared, log, recent, replies>>

-----------------------------------------------------------------------------
(* Broadcasting                                                            *)

\* shutdown; what is still queued is never sent.
Shut(client) ==
  [client EXCEPT !.done = TRUE, !.queue = <<>>, !.writing = <<>>, !.writer = FALSE]

\* Fault: a message that finds no room is left out.
Enqueued_Dropping(client, m) ==
  IF ~client.done /\ Len(client.queue) < QueueSize
  THEN [client EXCEPT !.queue = Append(@, m)] ELSE client

\* enqueue, with shutdown
Enqueued(client, m) ==
  IF client.done THEN client
  ELSE IF Len(client.queue) < QueueSize
       THEN [client EXCEPT !.queue = Append(@, m)]
       ELSE Shut(client)

\* pushTrafficWS: a call is announced once a second.
Announce(k) ==
  /\ k \notin recent
  /\ Messages < MaxEvents
  /\ recent' = recent \cup {k}
  /\ prepared' = prepared \cup {Messages + 1}
  /\ UNCHANGED <<tickets, issued, clients, log, replies>>

\* sendNetworkStatus and others: the message is made of what a session was.
Report ==
  /\ Messages < MaxEvents
  /\ prepared' = prepared \cup {Messages + 1}
  /\ UNCHANGED <<tickets, issued, clients, log, recent, replies>>

\* broadcastText
Broadcast(m) ==
  /\ m \in prepared
  /\ prepared' = prepared \ {m}
  /\ log' = Append(log, m)
  /\ clients' = [c \in Sockets |-> IF Registered(c) THEN Enqueued(clients[c], m)
                                   ELSE clients[c]]
  /\ UNCHANGED <<tickets, issued, recent, replies>>

-----------------------------------------------------------------------------
(* The two goroutines of a client                                          *)

Took(c) ==
  /\ Running(c)
  /\ clients[c].writer /\ clients[c].writing = <<>> /\ clients[c].queue # <<>>
  /\ Change(c, [clients[c] EXCEPT !.writing = <<Head(clients[c].queue)>>,
                                  !.queue = Tail(@)])

Wrote(c) ==
  /\ Running(c)
  /\ clients[c].writing # <<>>
  /\ clients[c].browser # "closed" /\ Len(clients[c].wire) < WireSize
  /\ Change(c, [clients[c] EXCEPT !.wire = @ \o clients[c].writing,
                                  !.writing = <<>>])

\* Fault: the writer returns and leaves the connection open.
FailedWrite_Returns(c) ==
  /\ Running(c)
  /\ clients[c].writing # <<>>
  /\ clients[c].browser = "closed" \/ Len(clients[c].wire) = WireSize
  /\ Change(c, [clients[c] EXCEPT !.writer = FALSE])

\* The connection is gone, or two seconds pass without room for the message.
FailedWrite(c) ==
  /\ Running(c)
  /\ clients[c].writing # <<>>
  /\ clients[c].browser = "closed" \/ Len(clients[c].wire) = WireSize
  /\ Change(c, Shut(clients[c]))

Writer(c) ==
  /\ Took(c) \/ Wrote(c) \/ FailedWrite(c)
  /\ UNCHANGED <<tickets, issued, prepared, log, recent, replies>>

\* A command is carried out by the reader.  What it comes to is a message to
\* everybody (Report) or to this client: without a user it is denied, and so is
\* every request to transmit (acquireTX).
Command(c) ==
  /\ Running(c) /\ clients[c].browser = "reading"
  /\ replies < MaxReplies /\ replies' = replies + 1
  /\ Change(c, Enqueued(clients[c], Reply))
  /\ UNCHANGED <<tickets, issued, prepared, log, recent>>

\* ReadMessage fails.
ReaderEnds(c) ==
  /\ Registered(c)
  /\ clients[c].done \/ clients[c].browser = "closed"
  /\ Change(c, [Fresh EXCEPT !.stage = "gone", !.ticket = clients[c].ticket])
  /\ UNCHANGED <<tickets, issued, prepared, log, recent, replies>>

-----------------------------------------------------------------------------
(* The browser, and time                                                   *)

Reads(c) ==
  /\ clients[c].browser = "reading" /\ clients[c].wire # <<>>
  /\ Change(c, [clients[c] EXCEPT !.got = Append(@, Head(clients[c].wire)),
                                  !.wire = Tail(@)])
  /\ UNCHANGED <<tickets, issued, prepared, log, recent, replies>>

Fails(c) ==
  /\ Registered(c) /\ clients[c].browser = "reading"
  /\ \E how \in {"stuck", "closed"} :
       Change(c, [clients[c] EXCEPT !.browser = how])
  /\ UNCHANGED <<tickets, issued, prepared, log, recent, replies>>

Second ==
  /\ recent' = {}
  /\ tickets' = [t \in DOMAIN tickets |->
                   IF tickets[t] < TicketTicks THEN tickets[t] + 1 ELSE tickets[t]]
  /\ UNCHANGED <<issued, clients, prepared, log, replies>>

HubNext ==
  \/ \E t \in Tokens : IssueTicket(t) \/ \E c \in Sockets : Consume(c, t)
  \/ RefuseTicket
  \/ \E k \in Heads : Announce(k)
  \/ Report
  \/ \E m \in prepared : Broadcast(m)
  \/ \E c \in Sockets : \/ Upgrade(c) \/ Writer(c) \/ Command(c) \/ ReaderEnds(c)
                        \/ Reads(c) \/ Fails(c)
  \/ Second

-----------------------------------------------------------------------------
\* How many of the first i messages are not replies; and these are the first
\* ones of what was broadcast, in its order.
Told(messages, i) == Cardinality({j \in 1 .. i : messages[j] # Reply})

InOrder(messages, since) ==
  \A i \in DOMAIN messages :
    messages[i] # Reply => /\ Told(messages, i) <= Len(since)
                           /\ messages[i] = since[Told(messages, i)]

\* What a client is sent, it is sent without a gap, from the moment it is
\* listed: as long as it runs everything broadcast since is in its browser or
\* on the way, in the order of the log, and of a client that was shut down the
\* browser has a beginning of that.
NoGap(c) ==
  LET client == clients[c]
      since == SubSeq(log, client.start + 1, Len(log))
      sent == client.got \o client.wire
      all == sent \o (client.writing \o client.queue)
  IN /\ InOrder(sent, since)
     /\ Running(c) => InOrder(all, since) /\ Told(all, Len(all)) = Len(since)

\* A ticket opens one connection, however many requests show it at once, and
\* there are never more of them than their limit.
TicketsSpent ==
  /\ Cardinality(DOMAIN tickets) <= Pending
  /\ \A c, d \in Sockets :
       c # d /\ clients[c].ticket = clients[d].ticket => clients[c].ticket = Nothing

LiveRight == TicketsSpent /\ \A c \in Sockets : NoGap(c)

Broken(c) ==
  \/ clients[c].done \/ clients[c].browser = "closed"
  \/ /\ clients[c].browser = "stuck" /\ Len(clients[c].wire) = WireSize
     /\ clients[c].writing # <<>> \/ clients[c].queue # <<>>

\* A browser that is gone, or that no longer reads while there is something to
\* write, does not stay on the list of those that every broadcast goes through.
BrokenLeave == \A c \in Sockets : Registered(c) /\ Broken(c) ~> ~Registered(c)
=============================================================================
