---------------------------- MODULE VocoderBroker ----------------------------
(***************************************************************************)
(* The shared hardware vocoder: the local broker and the DV30 exchanges of *)
(* gateway.go, and the AMBE servers (ambe-server/dvhub_ambe_server.py) with*)
(* their serial devices.  A converter's frame is queued for one of four    *)
(* workers, which sends it to one of the configured servers over a pooled  *)
(* socket and waits 100 ms for the answer to its channel number.  A server *)
(* does one transaction at a time and waits 150 ms for its device.         *)
(*                                                                         *)
(* Datagrams may be lost or late, but none is under way or unread while    *)
(* all channel numbers are used once.  A device may be late and answers in *)
(* order.                                                                  *)
(* What a device makes of a request is named after the request, so that an *)
(* answer tells whose frame is in it.  The health requests and the silence *)
(* frame, which are answered without a device, are left out.               *)
(***************************************************************************)
EXTENDS Naturals, Sequences, FiniteSets

CONSTANTS
  Jobs,        \* requests of converters, each with data of its own
  Decodes,     \* those that ask for decoding
  Workers,     \* 4
  Sockets,     \* 4
  Targets,     \* the configured servers, in order
  Slots,       \* 4 exchanges at a time per server
  Capacity,    \* 16 queued jobs
  Channels,    \* 256
  Owed,        \* bound: answers a device is behind
  None

ASSUME VocoderAssumption ==
  /\ Decodes \subseteq Jobs /\ {None, "busy", "error"} \cap Jobs = {}
  /\ Len(Targets) \in Nat \ {0} /\ DOMAIN Targets = 1 .. Len(Targets)
  /\ Slots \in Nat /\ Capacity \in Nat /\ Channels \in Nat \ {0} /\ Owed \in Nat
  /\ IsFiniteSet(Workers) /\ IsFiniteSet(Sockets)
  /\ Cardinality(Workers) <= Cardinality(Sockets)
  /\ Cardinality(Workers) <= Slots

VARIABLES
  queue,     \* the jobs channel
  worker,    \* per worker: its job, the targets still to try, its exchange
  cursor,    \* dv30TargetCursor
  channel,   \* dv30RequestID, as a byte
  free,      \* dv30Sockets
  taken,     \* dv30HardwareSlots: exchanges per target
  inbox,     \* per socket: datagrams that have arrived
  net,       \* datagrams under way, to servers and to sockets
  server,    \* per target: the request it serves, what its device has been
             \* given, what the device has written and nobody has read
  reply,     \* history, per job: its answer
  late       \* history: targets whose device has been late

gateway == <<queue, worker, cursor, channel, free, taken, inbox>>
vars == <<gateway, net, server, reply, late>>

Names == {Targets[i] : i \in DOMAIN Targets}
Op(job) == IF job \in Decodes THEN "decode" ELSE "encode"

Request == [to : Names, from : Sockets, channel : 0 .. Channels - 1, job : Jobs]
Answer == [to : Sockets, from : Names, channel : 0 .. Channels - 1,
           op : {"encode", "decode", "error"}, job : Jobs]

ASSUME NoneAssumption == None \notin Request

Resting == [job |-> None, todo |-> <<>>, over |-> FALSE, request |-> None]
Answers == Jobs \cup {None, "busy", "error"}

TypeOK ==
  /\ queue \in Seq(Jobs) /\ Len(queue) <= Capacity
  /\ worker \in [Workers -> [job : Jobs \cup {None}, todo : Seq(Names),
                             over : BOOLEAN, request : Request \cup {None}]]
  /\ cursor \in 0 .. Len(Targets) - 1
  /\ channel \in 0 .. Channels - 1
  /\ free \subseteq Sockets
  /\ taken \in [Names -> 0 .. Slots]
  /\ inbox \in [Sockets -> SUBSET Answer]
  /\ net \subseteq Request \cup Answer
  /\ server \in [Names -> [request : Request \cup {None},
                           device : Seq(Jobs), line : Seq(Jobs)]]
  /\ reply \in [Jobs -> Answers]
  /\ late \subseteq Names

Init ==
  /\ queue = <<>>
  /\ worker = [w \in Workers |-> Resting]
  /\ cursor = 0 /\ channel = 0
  /\ free = Sockets /\ taken = [t \in Names |-> 0]
  /\ inbox = [s \in Sockets |-> {}]
  /\ net = {}
  /\ server = [t \in Names |-> [request |-> None, device |-> <<>>, line |-> <<>>]]
  /\ reply = [j \in Jobs |-> None]
  /\ late = {}

-----------------------------------------------------------------------------
(* The broker                                                              *)

\* The data of an answered request are used again when nothing has them.
Unused(job) ==
  /\ \A i \in DOMAIN queue : queue[i] # job
  /\ \A w \in Workers : worker[w].job # job
  /\ \A d \in net \cup UNION {inbox[s] : s \in Sockets} : d.job # job
  /\ \A t \in Names, i \in 1 .. Owed :
       /\ i <= Len(server[t].device) => server[t].device[i] # job
       /\ i <= Len(server[t].line) => server[t].line[i] # job
       /\ server[t].request # None => server[t].request.job # job

\* A job is queued, or answered with an error at once when the queue is full.
Arrive(job) ==
  /\ Unused(job)
  /\ IF Len(queue) < Capacity
     THEN queue' = Append(queue, job) /\ reply' = [reply EXCEPT ![job] = None]
     ELSE reply' = [reply EXCEPT ![job] = "busy"] /\ UNCHANGED queue
  /\ UNCHANGED <<worker, cursor, channel, free, taken, inbox, net, server, late>>

\* orderedVocoderTargets: every frame starts with the next target.
Ordered == [i \in DOMAIN Targets |-> Targets[((cursor + i - 1) % Len(Targets)) + 1]]

Take(w) ==
  /\ worker[w].job = None /\ queue # <<>>
  /\ queue' = Tail(queue)
  /\ worker' = [worker EXCEPT ![w] = [Resting EXCEPT !.job = Head(queue),
                                                    !.todo = Ordered]]
  /\ cursor' = (cursor + 1) % Len(Targets)
  /\ UNCHANGED <<channel, free, taken, inbox, net, server, reply, late>>

\* exchangeDV30 up to the write: a slot, a socket and the next channel number.
\* The loop that is to drain the socket finds its deadline passed and reads
\* nothing, so that late answers are left to the exchange.  Datagrams as old as
\* the last use of the channel number are gone.
Begin(w) ==
  LET t == Head(worker[w].todo)
      c == (channel + 1) % Channels
  IN /\ worker[w].todo # <<>> /\ worker[w].request = None /\ ~worker[w].over
     /\ taken[t] < Slots /\ free # {}
     /\ \A n \in Names : server[n].request # None => server[n].request.channel # c
     /\ channel' = c
     /\ taken' = [taken EXCEPT ![t] = @ + 1]
     /\ \E s \in free :
          LET r == [to |-> t, from |-> s, channel |-> c, job |-> worker[w].job]
          IN /\ free' = free \ {s}
             /\ inbox' = [i \in Sockets |-> {d \in inbox[i] : d.channel # c}]
             /\ net' = {d \in net : d.channel # c} \cup {r}
             /\ worker' = [worker EXCEPT ![w].request = r, ![w].todo = Tail(@)]
     /\ UNCHANGED <<queue, cursor, server, reply, late>>

\* A target without a free slot is passed over, and all are after the deadline.
PassOver(w) ==
  /\ worker[w].todo # <<>> /\ worker[w].request = None
  /\ worker[w].over \/ taken[Head(worker[w].todo)] = Slots \/ free = {}
  /\ worker' = [worker EXCEPT ![w].todo = Tail(@)]
  /\ UNCHANGED <<queue, cursor, channel, free, taken, inbox, net, server, reply, late>>

\* Fault: the slot of an exchange that failed is kept.
Release_NotSlot(w) ==
  /\ free' = free \cup {worker[w].request.from}
  /\ taken' = IF worker'[w].over THEN taken
              ELSE [taken EXCEPT ![worker[w].request.to] = @ - 1]

Release(w) ==
  /\ free' = free \cup {worker[w].request.from}
  /\ taken' = [taken EXCEPT ![worker[w].request.to] = @ - 1]

\* Fault: any answer of the server to such a request is taken.
Matches_AnyChannel(a, r) == a.from = r.to /\ a.op = Op(r.job)

Matches(a, r) == a.from = r.to /\ a.op = Op(r.job) /\ a.channel = r.channel

\* A datagram is read from the socket: the answer, or one to be ignored.
Read(w, a) ==
  LET r == worker[w].request
  IN /\ r # None /\ a \in inbox[r.from]
     /\ inbox' = [inbox EXCEPT ![r.from] = @ \ {a}]
     /\ IF Matches(a, r)
        THEN /\ reply' = [reply EXCEPT ![r.job] = a.job]
             /\ worker' = [worker EXCEPT ![w] = Resting]
             /\ Release(w)
        ELSE UNCHANGED <<reply, worker, free, taken>>
     /\ UNCHANGED <<queue, cursor, channel, net, server, late>>

\* Fault: the socket is read without a deadline.
DeadlinePassed_Never(w) == FALSE

DeadlinePassed(w) == worker[w].request # None

\* The deadline of the job passes while its answer is waited for.
Expire(w) ==
  /\ DeadlinePassed(w)
  /\ worker' = [worker EXCEPT ![w].request = None, ![w].over = TRUE]
  /\ Release(w)
  /\ UNCHANGED <<queue, cursor, channel, inbox, net, server, reply, late>>

Fail(w) ==
  /\ worker[w].job # None /\ worker[w].todo = <<>> /\ worker[w].request = None
  /\ reply' = [reply EXCEPT ![worker[w].job] = "error"]
  /\ worker' = [worker EXCEPT ![w] = Resting]
  /\ UNCHANGED <<queue, cursor, channel, free, taken, inbox, net, server, late>>

-----------------------------------------------------------------------------
(* The network, the servers and their devices                              *)

Lose(d) == net' = net \ {d} /\ UNCHANGED <<gateway, server, reply, late>>

Deliver(a) ==
  /\ a \in Answer
  /\ net' = net \ {a}
  /\ inbox' = [inbox EXCEPT ![a.to] = @ \cup {a}]
  /\ UNCHANGED <<queue, worker, cursor, channel, free, taken, server, reply, late>>

\* The loop of main: the next request is received and goes to the device.
Serve(t, r) ==
  /\ r \in Request /\ r.to = t
  /\ server[t].request = None
  /\ Len(server[t].device) + Len(server[t].line) < Owed
  /\ net' = net \ {r}
  /\ server' = [server EXCEPT ![t].request = r, ![t].device = Append(@, r.job)]
  /\ UNCHANGED <<gateway, reply, late>>

DeviceAnswers(t) ==
  /\ server[t].device # <<>>
  /\ server' = [server EXCEPT ![t].device = Tail(@),
                              ![t].line = Append(@, Head(server[t].device))]
  /\ UNCHANGED <<gateway, net, reply, late>>

Respond(t, op, job) ==
  LET r == server[t].request
  IN net' = net \cup {[to |-> r.from, from |-> t, channel |-> r.channel,
                       op |-> op, job |-> job]}

\* _transact: the next packet on the line is the answer, if its type is right.
\* Nothing is done about what was left there.
Transact(t) ==
  LET r == server[t].request
      job == Head(server[t].line)
  IN /\ r # None /\ server[t].line # <<>>
     /\ Respond(t, IF Op(job) = Op(r.job) THEN Op(job) ELSE "error", job)
     /\ server' = [server EXCEPT ![t].request = None, ![t].line = Tail(@)]
     /\ UNCHANGED <<gateway, reply, late>>

\* The device has not answered in time: the client is sent an error.
DeviceTimeout(t) ==
  /\ server[t].request # None /\ server[t].line = <<>>
  /\ Respond(t, "error", server[t].request.job)
  /\ server' = [server EXCEPT ![t].request = None]
  /\ late' = late \cup {t}
  /\ UNCHANGED <<gateway, reply>>

\* The server is started again: tcflush empties the line, _reset the device.
Restart(t) ==
  /\ server' = [server EXCEPT ![t] = [request |-> None, device |-> <<>>, line |-> <<>>]]
  /\ UNCHANGED <<gateway, net, reply, late>>

ServerStep(t) == Transact(t) \/ DeviceTimeout(t)

WorkerStep(w) ==
  \/ Take(w) \/ Begin(w) \/ PassOver(w) \/ Fail(w) \/ Expire(w)
  \/ \E a \in UNION {inbox[s] : s \in Sockets} : Read(w, a)

Next ==
  \/ \E job \in Jobs : Arrive(job)
  \/ \E w \in Workers : WorkerStep(w)
  \/ \E d \in net : Lose(d) \/ Deliver(d) \/ \E t \in Names : Serve(t, d)
  \/ \E t \in Names : (ServerStep(t) \/ DeviceAnswers(t) \/ Restart(t))

Spec == Init /\ [][Next]_vars

\* The goroutines run, deadlines pass; nothing says that datagrams arrive.
FairSpec ==
  /\ Spec
  /\ \A w \in Workers : WF_vars(WorkerStep(w)) /\ WF_vars(Expire(w))
  /\ \A t \in Names : WF_vars(ServerStep(t))

-----------------------------------------------------------------------------
\* A converter never gets another frame than the one it asked for, although
\* answers come after their deadline, sockets are shared by servers and
\* workers, and channel numbers come round; unless the device of its server
\* has been late: dvhub_ambe_server.py takes what the device writes later for
\* the answer to the next request.
RightFrame ==
  \A job \in Jobs : reply[job] \in Jobs /\ late = {} => reply[job] = job

\* No slot or socket is lost, however an exchange ends: a worker that has a
\* target to try always finds both.
RoomForAll ==
  \A w \in Workers :
    worker[w].todo # <<>> /\ worker[w].request = None =>
      free # {} /\ taken[Head(worker[w].todo)] < Slots

\* Every frame is answered, if with an error, also when the servers are dead.
EveryJobAnswered ==
  \A job \in Jobs : (\E i \in DOMAIN queue : queue[i] = job) ~> reply[job] # None
=============================================================================
