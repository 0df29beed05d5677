--------------------------- MODULE VocoderProofs ----------------------------
(***************************************************************************)
(* Proofs about the shared vocoder (VocoderBroker), for any converters,    *)
(* workers, sockets, servers and channel numbers.                          *)
(***************************************************************************)
EXTENDS VocoderBroker, FiniteSetTheorems, SequenceTheorems, TLAPS

Job == Jobs \cup {None}
Working == [job : Job, todo : Seq(Names), over : BOOLEAN,
            request : Request \cup {None}]
Serving == [request : Request \cup {None}, device : Seq(Jobs), line : Seq(Jobs)]

LEMMA ChannelType ==
  ASSUME NEW n \in Nat, NEW k \in Nat \ {0}
  PROVE  n % k \in 0 .. k - 1
OBVIOUS

LEMMA TargetsOrdered == TypeOK => Ordered \in Seq(Names)
<1> SUFFICES ASSUME TypeOK PROVE Ordered \in Seq(Names)
  OBVIOUS
<1> DEFINE n == Len(Targets)
<1>1. n \in Nat \ {0} /\ DOMAIN Targets = 1 .. n /\ cursor \in Nat
  BY VocoderAssumption DEF TypeOK
<1>2. ASSUME NEW i \in 1 .. n
      PROVE  ((cursor + i - 1) % n) + 1 \in 1 .. n
  <2>1. (cursor + i - 1) \in Nat
    BY <1>1
  <2>2. (cursor + i - 1) % n \in 0 .. n - 1
    BY <1>1, <2>1, ChannelType
  <2> QED
    BY <1>1, <2>2
<1>3. \A i \in 1 .. n : Targets[((cursor + i - 1) % n) + 1] \in Names
  BY <1>1, <1>2 DEF Names
<1>4. Ordered \in [1 .. n -> Names]
  BY <1>1, <1>3 DEF Ordered
<1> QED
  BY <1>1, <1>4, SeqDef

LEMMA WorkingType == TypeOK => worker \in [Workers -> Working]
BY DEF TypeOK, Working, Job

(* An exchange accounts for a slot of its server and for a socket of its   *)
(* own.                                                                    *)
Exchanging == {w \in Workers : worker[w].request # None}
Using(t) == {w \in Exchanging : worker[w].request.to = t}

Accounted ==
  /\ \A t \in Names : taken[t] = Cardinality(Using(t))
  /\ free = Sockets \ {worker[w].request.from : w \in Exchanging}
  /\ \A w, x \in Exchanging :
       w # x => worker[w].request.from # worker[x].request.from

LEMMA WorkersFinite ==
  ASSUME NEW t
  PROVE  /\ IsFiniteSet(Workers) /\ IsFiniteSet(Exchanging)
         /\ IsFiniteSet(Using(t))
         /\ Cardinality(Workers) \in Nat /\ Cardinality(Exchanging) \in Nat
         /\ Cardinality(Using(t)) \in Nat
         /\ Cardinality(Using(t)) <= Cardinality(Exchanging)
         /\ Cardinality(Exchanging) <= Cardinality(Workers)
<1>1. Exchanging \subseteq Workers /\ Using(t) \subseteq Exchanging
  BY DEF Exchanging, Using
<1>2. IsFiniteSet(Workers)
  BY VocoderAssumption
<1>3. IsFiniteSet(Exchanging) /\ Cardinality(Exchanging) <= Cardinality(Workers)
  BY <1>1, <1>2, FS_Subset
<1>4. IsFiniteSet(Using(t)) /\ Cardinality(Using(t)) <= Cardinality(Exchanging)
  BY <1>1, <1>3, FS_Subset
<1> QED
  BY <1>2, <1>3, <1>4, FS_CardinalityType

(* What a step does to the worker it is of.                                *)
Others(w) == \A x \in Workers \ {w} : worker'[x] = worker[x]

LEMMA WorkerFields ==
  ASSUME TypeOK, NEW w \in Workers
  PROVE  /\ worker[w].job \in Job /\ worker[w].todo \in Seq(Names)
         /\ worker[w].over \in BOOLEAN /\ worker[w].request \in Request \cup {None}
BY DEF TypeOK, Job

LEMMA TakeWorker ==
  ASSUME TypeOK, NEW w \in Workers, NEW j \in Jobs, NEW s \in Seq(Names),
         worker' = [worker EXCEPT ![w] = [Resting EXCEPT !.job = j, !.todo = s]]
  PROVE  /\ worker' \in [Workers -> Working] /\ Others(w)
         /\ worker'[w].job = j /\ worker'[w].request = None
BY WorkingType DEF Working, Resting, Others, Job

LEMMA RestWorker ==
  ASSUME TypeOK, NEW w \in Workers, worker' = [worker EXCEPT ![w] = Resting]
  PROVE  /\ worker' \in [Workers -> Working] /\ Others(w)
         /\ worker'[w].job = None /\ worker'[w].todo = <<>>
         /\ worker'[w].request = None
BY WorkingType DEF Working, Resting, Others, Job

LEMMA BeginWorker ==
  ASSUME TypeOK, NEW w \in Workers, NEW r \in Request, worker[w].todo # <<>>,
         worker' = [worker EXCEPT ![w].request = r, ![w].todo = Tail(@)]
  PROVE  /\ worker' \in [Workers -> Working] /\ Others(w)
         /\ worker'[w].job = worker[w].job /\ worker'[w].request = r
<1>1. worker \in [Workers -> Working] /\ Tail(worker[w].todo) \in Seq(Names)
  BY WorkerFields, WorkingType, HeadTailProperties
<1> QED
  BY <1>1 DEF Working, Others

LEMMA PassWorker ==
  ASSUME TypeOK, NEW w \in Workers, worker[w].todo # <<>>,
         worker' = [worker EXCEPT ![w].todo = Tail(@)]
  PROVE  /\ worker' \in [Workers -> Working] /\ Others(w)
         /\ worker'[w].job = worker[w].job
         /\ worker'[w].request = worker[w].request
<1>1. worker \in [Workers -> Working] /\ Tail(worker[w].todo) \in Seq(Names)
  BY WorkerFields, WorkingType, HeadTailProperties
<1> QED
  BY <1>1 DEF Working, Others

LEMMA ExpireWorker ==
  ASSUME TypeOK, NEW w \in Workers,
         worker' = [worker EXCEPT ![w].request = None, ![w].over = TRUE]
  PROVE  /\ worker' \in [Workers -> Working] /\ Others(w)
         /\ worker'[w].job = worker[w].job /\ worker'[w].todo = worker[w].todo
         /\ worker'[w].request = None
BY WorkingType DEF Working, Others

(* A worker that begins an exchange.                                       *)
LEMMA BeginAccounts ==
  ASSUME TypeOK, Accounted, NEW w \in Workers, worker[w].request = None,
         NEW r \in Request, r.from \in free, Others(w), worker'[w].request = r,
         free' = free \ {r.from}, taken' = [taken EXCEPT ![r.to] = @ + 1]
  PROVE  Accounted'
<1>0. \A x \in Workers : IF x = w THEN worker'[x].request = r
                                  ELSE worker'[x] = worker[x]
  BY DEF Others
<1>1. Exchanging' = Exchanging \cup {w} /\ w \notin Exchanging
  BY <1>0, NoneAssumption DEF Exchanging
<1>2. \A t : Using(t)' = IF t = r.to THEN Using(t) \cup {w} ELSE Using(t)
  BY <1>0, <1>1 DEF Using, Exchanging
<1>3. ASSUME NEW t \in Names PROVE taken'[t] = Cardinality(Using(t)')
  <2>1. w \notin Using(t)
    BY <1>1 DEF Using
  <2>2. Cardinality(Using(t) \cup {w}) = Cardinality(Using(t)) + 1
    BY <2>1, WorkersFinite, FS_AddElement
  <2>3. taken'[t] = IF t = r.to THEN taken[t] + 1 ELSE taken[t]
    BY DEF TypeOK
  <2>4. taken[t] = Cardinality(Using(t))
    BY DEF Accounted
  <2>5. Using(t)' = IF t = r.to THEN Using(t) \cup {w} ELSE Using(t)
    BY <1>2
  <2> QED
    BY <2>2, <2>3, <2>4, <2>5
<1>4. free' = Sockets \ {worker'[x].request.from : x \in Exchanging'}
  <2>1. \A x \in Exchanging : worker'[x] = worker[x]
    BY <1>0, <1>1 DEF Exchanging
  <2>2. w \in Exchanging' /\ worker'[w].request = r
    BY <1>0, <1>1
  <2>3. {worker'[x].request.from : x \in Exchanging'}
          = {worker[x].request.from : x \in Exchanging} \cup {r.from}
    BY <1>1, <2>1, <2>2
  <2> QED
    BY <2>3 DEF Accounted
<1>5. \A x \in Exchanging : worker[x].request.from # r.from
  BY DEF Accounted
<1>6. \A x, y \in Exchanging' :
        x # y => worker'[x].request.from # worker'[y].request.from
  BY <1>0, <1>1, <1>5 DEF Accounted, Exchanging
<1> QED
  BY <1>3, <1>4, <1>6 DEF Accounted

(* A worker whose exchange ends, whichever way.                            *)
LEMMA ReleaseAccounts ==
  ASSUME TypeOK, Accounted, NEW w \in Workers, worker[w].request # None,
         Others(w), worker'[w].request = None, Release(w)
  PROVE  /\ Accounted'
         /\ taken' \in [Names -> 0 .. Slots] /\ free' \subseteq Sockets
<1> DEFINE r == worker[w].request
<1>0. /\ \A x \in Workers : IF x = w THEN worker'[x].request = None
                                     ELSE worker'[x] = worker[x]
      /\ r \in Request /\ r.to \in Names /\ r.from \in Sockets
  BY DEF Others, TypeOK, Request
<1>1. Exchanging' = Exchanging \ {w} /\ w \in Exchanging
  BY <1>0 DEF Exchanging
<1>2. \A t : Using(t)' = IF t = r.to THEN Using(t) \ {w} ELSE Using(t)
  BY <1>0, <1>1 DEF Using, Exchanging
<1>3. ASSUME NEW t \in Names PROVE taken'[t] = Cardinality(Using(t)')
  <2>1. t = r.to => w \in Using(t)
    BY <1>1 DEF Using
  <2>2. t = r.to => Cardinality(Using(t) \ {w}) = Cardinality(Using(t)) - 1
    BY <2>1, WorkersFinite, FS_RemoveElement
  <2>3. taken'[t] = IF t = r.to THEN taken[t] - 1 ELSE taken[t]
    BY DEF Release, TypeOK
  <2>4. taken[t] = Cardinality(Using(t))
    BY DEF Accounted
  <2>5. CASE t = r.to
    <3>1. Using(t)' = Using(t) \ {w}
      BY <1>2, <2>5
    <3> QED
      BY <2>2, <2>3, <2>4, <2>5, <3>1
  <2>6. CASE t # r.to
    BY <1>2, <2>3, <2>4, <2>6
  <2> QED
    BY <2>5, <2>6
<1>4. free' = Sockets \ {worker'[x].request.from : x \in Exchanging'}
  <2>1. free' = free \cup {r.from}
    BY DEF Release
  <2>2. \A x \in Exchanging' : /\ worker'[x] = worker[x] /\ x # w
                               /\ worker[x].request.from # r.from
    BY <1>0, <1>1 DEF Accounted, Exchanging
  <2>3. \A x \in Exchanging : x = w \/ x \in Exchanging'
    BY <1>1
  <2>4. Exchanging' \subseteq Exchanging
    BY <1>1
  <2>5. free = Sockets \ {worker[x].request.from : x \in Exchanging}
    BY DEF Accounted
  <2> HIDE DEF r
  <2>6. ASSUME NEW s \in Sockets
        PROVE  s \in free' <=> \A x \in Exchanging' : worker'[x].request.from # s
    <3>1. s \in free <=> \A x \in Exchanging : worker[x].request.from # s
      BY <2>5
    <3>2. w \in Exchanging /\ worker[w].request.from = r.from
      BY <1>1 DEF r
    <3> QED
      BY <2>1, <2>2, <2>3, <2>4, <3>1, <3>2
  <2>7. free' \subseteq Sockets
    BY <1>0, <2>1, <2>5
  <2> QED
    BY <2>6, <2>7
<1>5. \A x, y \in Exchanging' :
        x # y => worker'[x].request.from # worker'[y].request.from
  BY <1>0, <1>1 DEF Accounted, Exchanging
<1>6. taken' \in [Names -> 0 .. Slots]
  <2>1. taken[r.to] = Cardinality(Using(r.to)) /\ w \in Using(r.to)
    BY <1>0, <1>1 DEF Accounted, Using
  <2>2. Cardinality(Using(r.to)) # 0
    BY <2>1, WorkersFinite, FS_EmptySet
  <2>3. taken[r.to] \in 0 .. Slots /\ taken[r.to] # 0 /\ Slots \in Nat
    BY <1>0, <2>1, <2>2, VocoderAssumption DEF TypeOK
  <2>4. taken[r.to] - 1 \in 0 .. Slots
    BY <2>3
  <2> QED
    BY <2>4 DEF Release, TypeOK
<1>7. free' \subseteq Sockets
  BY <1>0 DEF Release, TypeOK
<1> QED
  BY <1>3, <1>4, <1>5, <1>6, <1>7 DEF Accounted

LEMMA SameAccounts ==
  ASSUME TypeOK, Accounted, UNCHANGED <<free, taken>>,
         \A w \in Workers : worker'[w].request = worker[w].request
  PROVE  Accounted'
<1>1. Exchanging' = Exchanging
  BY DEF Exchanging
<1>2. \A t : Using(t)' = Using(t)
  BY <1>1 DEF Using, Exchanging
<1>3. \A w \in Exchanging : worker'[w].request = worker[w].request
  BY DEF Exchanging
<1> QED
  BY <1>1, <1>2, <1>3 DEF Accounted

(* A worker without a job has nothing else.                                *)
Rested ==
  \A w \in Workers :
    worker[w].job = None => worker[w].todo = <<>> /\ worker[w].request = None

AccountsInv == TypeOK /\ Accounted /\ Rested

LEMMA AccountsInit == Init => AccountsInv
<1> SUFFICES ASSUME Init PROVE AccountsInv
  OBVIOUS
<1>1. /\ cursor \in 0 .. Len(Targets) - 1 /\ channel \in 0 .. Channels - 1
      /\ 0 \in 0 .. Slots
  BY VocoderAssumption DEF Init
<1>2. queue \in Seq(Jobs) /\ Len(queue) <= Capacity
  BY VocoderAssumption, EmptySeq DEF Init
<1>3. Resting \in Working /\ \A w \in Workers : worker[w] = Resting
  BY EmptySeq DEF Init, Resting, Working, Job
<1>4. worker \in [Workers -> Working]
  BY <1>3 DEF Init
<1>5. server \in [Names -> [request : Request \cup {None},
                            device : Seq(Jobs), line : Seq(Jobs)]]
  BY EmptySeq DEF Init
<1>6. TypeOK
  BY <1>1, <1>2, <1>4, <1>5 DEF Init, TypeOK, Working, Job, Answers
<1>7. Exchanging = {} /\ \A t : Using(t) = {}
  BY <1>3 DEF Exchanging, Using, Resting
<1>8. Accounted
  BY <1>7, FS_EmptySet DEF Accounted, Init
<1> QED
  BY <1>3, <1>6, <1>8 DEF AccountsInv, Rested, Resting

LEMMA ArriveAccounts ==
  ASSUME AccountsInv, NEW job \in Jobs, Arrive(job)
  PROVE  AccountsInv'
<1> USE DEF AccountsInv
<1>0. queue \in Seq(Jobs) /\ Len(queue) \in Nat /\ Len(queue) <= Capacity
      /\ Capacity \in Nat
  BY LenProperties, VocoderAssumption DEF TypeOK
<1>1. queue' \in Seq(Jobs) /\ Len(queue') <= Capacity
  <2>1. CASE Len(queue) < Capacity /\ queue' = Append(queue, job)
    BY <1>0, <2>1, AppendProperties
  <2>2. CASE UNCHANGED queue
    BY <1>0, <2>2
  <2> QED
    BY <2>1, <2>2 DEF Arrive
<1>2. reply' \in [Jobs -> Answers]
  BY DEF Arrive, TypeOK, Answers
<1>3. Accounted' /\ Rested'
  BY SameAccounts DEF Arrive, Rested
<1> QED
  BY <1>1, <1>2, <1>3 DEF Arrive, TypeOK

LEMMA TakeAccounts ==
  ASSUME AccountsInv, NEW w \in Workers, Take(w)
  PROVE  AccountsInv'
<1> USE DEF AccountsInv
<1>0. /\ queue \in Seq(Jobs) /\ queue # <<>> /\ Len(queue) \in Nat
      /\ Len(queue) <= Capacity /\ Capacity \in Nat
      /\ worker[w].request = None
  BY LenProperties, VocoderAssumption DEF Take, TypeOK, Rested
<1>1. /\ Head(queue) \in Jobs /\ Tail(queue) \in Seq(Jobs)
      /\ Len(Tail(queue)) = Len(queue) - 1
  BY <1>0, HeadTailProperties
<1>2. /\ worker' \in [Workers -> Working] /\ Others(w)
      /\ worker'[w].job = Head(queue) /\ worker'[w].request = None
  BY <1>1, TargetsOrdered, TakeWorker DEF Take
<1>3. /\ queue' = Tail(queue) /\ cursor' = (cursor + 1) % Len(Targets)
      /\ UNCHANGED <<channel, free, taken, inbox, net, server, reply, late>>
  BY DEF Take
<1>4. cursor' \in 0 .. Len(Targets) - 1
  <2>1. cursor + 1 \in Nat /\ Len(Targets) \in Nat \ {0}
    BY VocoderAssumption DEF TypeOK
  <2> QED
    BY <1>3, <2>1, ChannelType
<1>5. Accounted'
  BY <1>0, <1>2, <1>3, SameAccounts DEF Others
<1>6. Rested'
  BY <1>1, <1>2, VocoderAssumption DEF Rested, Others
<1> QED
  BY <1>0, <1>1, <1>2, <1>3, <1>4, <1>5, <1>6 DEF TypeOK, Working, Job

LEMMA BeginIsAccounted ==
  ASSUME AccountsInv, NEW w \in Workers, Begin(w)
  PROVE  AccountsInv'
<1> USE DEF AccountsInv
<1> DEFINE t == Head(worker[w].todo)
           c == (channel + 1) % Channels
<1>0. /\ worker[w].todo \in Seq(Names) /\ worker[w].todo # <<>>
      /\ worker[w].request = None /\ worker[w].job \in Jobs
      /\ channel' = c /\ taken' = [taken EXCEPT ![t] = @ + 1]
      /\ taken[t] < Slots
      /\ UNCHANGED <<queue, cursor, server, reply, late>>
  BY WorkerFields DEF Begin, Rested, Job
<1>1. t \in Names
  BY <1>0, HeadTailProperties
<1>2. c \in 0 .. Channels - 1
  <2>1. channel + 1 \in Nat /\ Channels \in Nat \ {0}
    BY VocoderAssumption DEF TypeOK
  <2> QED
    BY <2>1, ChannelType
<1>3. PICK s \in free :
        LET r == [to |-> t, from |-> s, channel |-> c, job |-> worker[w].job]
        IN /\ free' = free \ {s}
           /\ inbox' = [i \in Sockets |-> {d \in inbox[i] : d.channel # c}]
           /\ net' = {d \in net : d.channel # c} \cup {r}
           /\ worker' = [worker EXCEPT ![w].request = r, ![w].todo = Tail(@)]
  BY DEF Begin
<1> DEFINE r == [to |-> t, from |-> s, channel |-> c, job |-> worker[w].job]
<1>4. r \in Request /\ r.from = s /\ r.to = t
  BY <1>0, <1>1, <1>2 DEF TypeOK, Request
<1>5. /\ free' = free \ {r.from} /\ r.from \in free
      /\ inbox' = [i \in Sockets |-> {d \in inbox[i] : d.channel # c}]
      /\ net' = {d \in net : d.channel # c} \cup {r}
      /\ worker' = [worker EXCEPT ![w].request = r, ![w].todo = Tail(@)]
      /\ taken' = [taken EXCEPT ![r.to] = @ + 1]
  BY <1>0, <1>3, <1>4
<1> HIDE DEF r, t, c
<1>6. /\ worker' \in [Workers -> Working] /\ Others(w)
      /\ worker'[w].job = worker[w].job /\ worker'[w].request = r
  BY <1>0, <1>4, <1>5, BeginWorker
<1>7. taken' \in [Names -> 0 .. Slots]
  <2>1. taken[t] + 1 \in 0 .. Slots
    BY <1>0, <1>1, VocoderAssumption DEF TypeOK
  <2> QED
    BY <1>0, <2>1 DEF TypeOK
<1>8. inbox' \in [Sockets -> SUBSET Answer] /\ net' \subseteq Request \cup Answer
  BY <1>4, <1>5 DEF TypeOK
<1>9. Accounted'
  BY <1>0, <1>4, <1>5, <1>6, BeginAccounts
<1>10. Rested'
  BY <1>0, <1>6, VocoderAssumption DEF Rested, Others
<1>11. free' \subseteq Sockets
  BY <1>5 DEF TypeOK
<1> QED
  BY <1>0, <1>2, <1>6, <1>7, <1>8, <1>9, <1>10, <1>11 DEF TypeOK, Working, Job

LEMMA PassOverAccounts ==
  ASSUME AccountsInv, NEW w \in Workers, PassOver(w)
  PROVE  AccountsInv'
<1> USE DEF AccountsInv
<1>1. /\ worker' \in [Workers -> Working] /\ Others(w)
      /\ worker'[w].job = worker[w].job
      /\ worker'[w].request = worker[w].request
      /\ worker[w].todo # <<>>
      /\ UNCHANGED <<queue, cursor, channel, free, taken, inbox, net, server,
                     reply, late>>
  BY PassWorker DEF PassOver
<1>2. Accounted'
  BY <1>1, SameAccounts DEF Others
<1>3. Rested'
  BY <1>1 DEF Rested, Others
<1> QED
  BY <1>1, <1>2, <1>3 DEF TypeOK, Working, Job

LEMMA ReadAccounts ==
  ASSUME AccountsInv, NEW w \in Workers, NEW a, Read(w, a)
  PROVE  AccountsInv'
<1> USE DEF AccountsInv
<1> DEFINE r == worker[w].request
<1>1. /\ r # None /\ a \in inbox[r.from]
      /\ inbox' = [inbox EXCEPT ![r.from] = @ \ {a}]
      /\ UNCHANGED <<queue, cursor, channel, net, server, late>>
  BY DEF Read
<1>2. r \in Request /\ r.from \in Sockets /\ r.job \in Jobs
  BY <1>1 DEF TypeOK, Request
<1>3. a \in Answer /\ a.job \in Jobs /\ inbox' \in [Sockets -> SUBSET Answer]
  BY <1>1, <1>2 DEF TypeOK, Answer
<1>4. CASE Matches(a, r)
  <2>1. /\ reply' = [reply EXCEPT ![r.job] = a.job]
        /\ worker' = [worker EXCEPT ![w] = Resting] /\ Release(w)
    BY <1>4 DEF Read
  <2>2. /\ worker' \in [Workers -> Working] /\ Others(w)
        /\ worker'[w].job = None /\ worker'[w].todo = <<>>
        /\ worker'[w].request = None
    BY <2>1, RestWorker
  <2>3. reply' \in [Jobs -> Answers]
    BY <1>3, <2>1 DEF TypeOK, Answers
  <2>4. Accounted' /\ taken' \in [Names -> 0 .. Slots] /\ free' \subseteq Sockets
    BY <1>1, <2>1, <2>2, ReleaseAccounts
  <2>5. Rested'
    BY <2>2 DEF Rested, Others
  <2> QED
    BY <1>1, <1>3, <2>2, <2>3, <2>4, <2>5 DEF TypeOK, Working, Job
<1>5. CASE ~Matches(a, r)
  <2>1. UNCHANGED <<reply, worker, free, taken>>
    BY <1>5 DEF Read
  <2>2. Accounted' /\ Rested'
    BY <2>1, SameAccounts DEF Rested
  <2> QED
    BY <1>1, <1>3, <2>1, <2>2 DEF TypeOK
<1> QED
  BY <1>4, <1>5

LEMMA ExpireAccounts ==
  ASSUME AccountsInv, NEW w \in Workers, Expire(w)
  PROVE  AccountsInv'
<1> USE DEF AccountsInv
<1>1. /\ worker' \in [Workers -> Working] /\ Others(w)
      /\ worker'[w].job = worker[w].job /\ worker'[w].todo = worker[w].todo
      /\ worker'[w].request = None
      /\ worker[w].request # None /\ Release(w)
      /\ UNCHANGED <<queue, cursor, channel, inbox, net, server, reply, late>>
  BY ExpireWorker DEF Expire, DeadlinePassed
<1>2. Accounted' /\ taken' \in [Names -> 0 .. Slots] /\ free' \subseteq Sockets
  BY <1>1, ReleaseAccounts
<1>3. Rested'
  BY <1>1 DEF Rested, Others
<1> QED
  BY <1>1, <1>2, <1>3 DEF TypeOK, Working, Job

LEMMA FailAccounts ==
  ASSUME AccountsInv, NEW w \in Workers, Fail(w)
  PROVE  AccountsInv'
<1> USE DEF AccountsInv
<1>1. /\ worker' \in [Workers -> Working] /\ Others(w)
      /\ worker'[w].job = None /\ worker'[w].todo = <<>>
      /\ worker'[w].request = None /\ worker[w].request = None
      /\ worker[w].job \in Jobs
      /\ reply' = [reply EXCEPT ![worker[w].job] = "error"]
      /\ UNCHANGED <<queue, cursor, channel, free, taken, inbox, net, server, late>>
  BY RestWorker, WorkerFields DEF Fail, Job
<1>2. Accounted'
  BY <1>1, SameAccounts DEF Others
<1>3. Rested'
  BY <1>1 DEF Rested, Others
<1>4. reply' \in [Jobs -> Answers]
  BY <1>1 DEF TypeOK, Answers
<1> QED
  BY <1>1, <1>2, <1>3, <1>4 DEF TypeOK, Working, Job

(* What a step does to the server it is of.                                *)
OtherServers(t) == \A n \in Names \ {t} : server'[n] = server[n]

LEMMA ServingType ==
  ASSUME TypeOK
  PROVE  /\ server \in [Names -> Serving]
         /\ \A t \in Names : /\ server[t].device \in Seq(Jobs)
                             /\ server[t].line \in Seq(Jobs)
                             /\ server[t].request \in Request \cup {None}
BY DEF TypeOK, Serving

LEMMA ServeServer ==
  ASSUME TypeOK, NEW t \in Names, NEW r \in Request, Serve(t, r)
  PROVE  /\ server' \in [Names -> Serving] /\ OtherServers(t)
         /\ server'[t].request = r
         /\ server'[t].device = Append(server[t].device, r.job)
         /\ server'[t].line = server[t].line
<1>1. server \in [Names -> Serving] /\ Append(server[t].device, r.job) \in Seq(Jobs)
  BY ServingType, AppendProperties DEF Request
<1>2. server' = [server EXCEPT ![t].request = r, ![t].device = Append(@, r.job)]
  BY DEF Serve
<1> QED
  BY <1>1, <1>2 DEF Serving, OtherServers

LEMMA AnsweringServer ==
  ASSUME TypeOK, NEW t \in Names, DeviceAnswers(t)
  PROVE  /\ server' \in [Names -> Serving] /\ OtherServers(t)
         /\ server'[t].request = server[t].request
         /\ server'[t].device = Tail(server[t].device)
         /\ server'[t].line = Append(server[t].line, Head(server[t].device))
<1>1. server \in [Names -> Serving] /\ server[t].device # <<>>
  BY ServingType DEF DeviceAnswers
<1>2. /\ Tail(server[t].device) \in Seq(Jobs)
      /\ Append(server[t].line, Head(server[t].device)) \in Seq(Jobs)
  BY <1>1, ServingType, HeadTailProperties, AppendProperties
<1>3. server' = [server EXCEPT ![t].device = Tail(@),
                              ![t].line = Append(@, Head(server[t].device))]
  BY DEF DeviceAnswers
<1> QED
  BY <1>1, <1>2, <1>3 DEF Serving, OtherServers

LEMMA TransactServer ==
  ASSUME TypeOK, NEW t \in Names, Transact(t)
  PROVE  /\ server' \in [Names -> Serving] /\ OtherServers(t)
         /\ server'[t].request = None
         /\ server'[t].device = server[t].device
         /\ server'[t].line = Tail(server[t].line)
<1>1. server \in [Names -> Serving] /\ server[t].line # <<>>
  BY ServingType DEF Transact
<1>2. Tail(server[t].line) \in Seq(Jobs)
  BY <1>1, ServingType, HeadTailProperties
<1>3. server' = [server EXCEPT ![t].request = None, ![t].line = Tail(@)]
  BY DEF Transact
<1> QED
  BY <1>1, <1>2, <1>3 DEF Serving, OtherServers

LEMMA TimeoutServer ==
  ASSUME TypeOK, NEW t \in Names, DeviceTimeout(t)
  PROVE  /\ server' \in [Names -> Serving] /\ OtherServers(t)
         /\ server'[t].request = None
         /\ server'[t].device = server[t].device
         /\ server'[t].line = server[t].line
BY ServingType DEF DeviceTimeout, Serving, OtherServers

LEMMA RestartServer ==
  ASSUME TypeOK, NEW t \in Names, Restart(t)
  PROVE  /\ server' \in [Names -> Serving] /\ OtherServers(t)
         /\ server'[t].request = None
         /\ server'[t].device = <<>> /\ server'[t].line = <<>>
<1>1. <<>> \in Seq(Jobs)
  BY EmptySeq
<1> QED
  BY <1>1, ServingType DEF Restart, Serving, OtherServers

(* A server's answer is named after the packet its device has written.     *)
LEMMA TransactAnswer ==
  ASSUME TypeOK, NEW t \in Names, Transact(t)
  PROVE  \E op \in {"encode", "decode", "error"} :
           LET r == server[t].request
               a == [to |-> r.from, from |-> t, channel |-> r.channel,
                     op |-> op, job |-> Head(server[t].line)]
           IN  r \in Request /\ a \in Answer /\ net' = net \cup {a}
<1> DEFINE r == server[t].request
           job == Head(server[t].line)
           op == IF Op(job) = Op(r.job) THEN Op(job) ELSE "error"
           a == [to |-> r.from, from |-> t, channel |-> r.channel,
                 op |-> op, job |-> job]
<1>1. r \in Request /\ job \in Jobs
  BY ServingType, HeadTailProperties DEF Transact
<1>2. op \in {"encode", "decode", "error"}
  BY DEF Op
<1>3. net' = net \cup {a}
  BY DEF Transact, Respond
<1> HIDE DEF op
<1>4. a \in Answer
  BY <1>1, <1>2 DEF Request, Answer
<1> QED
  BY <1>1, <1>2, <1>3, <1>4

LEMMA TimeoutAnswer ==
  ASSUME TypeOK, NEW t \in Names, DeviceTimeout(t)
  PROVE  LET r == server[t].request
             a == [to |-> r.from, from |-> t, channel |-> r.channel,
                   op |-> "error", job |-> r.job]
         IN  r \in Request /\ a \in Answer /\ net' = net \cup {a}
<1>1. server[t].request \in Request
  BY ServingType DEF DeviceTimeout
<1> QED
  BY <1>1 DEF Request, Answer, DeviceTimeout, Respond

NetworkStep ==
  \/ \E d \in net : Lose(d) \/ Deliver(d) \/ \E t \in Names : Serve(t, d)
  \/ \E t \in Names : (ServerStep(t) \/ DeviceAnswers(t) \/ Restart(t))

LEMMA NetworkAccounts ==
  ASSUME AccountsInv, NetworkStep
  PROVE  AccountsInv'
<1> USE DEF AccountsInv
<1> DEFINE Broker == /\ UNCHANGED <<queue, worker, cursor, channel, free, taken>>
                     /\ UNCHANGED reply
                     /\ inbox' \in [Sockets -> SUBSET Answer]
           Network == /\ net' \subseteq Request \cup Answer
                      /\ server' \in [Names -> Serving] /\ late' \subseteq Names
<1>1. Broker /\ Network
  <2>0. server \in [Names -> Serving]
    BY ServingType
  <2>1. ASSUME NEW d \in net, Lose(d) PROVE Broker /\ Network
    BY <2>0, <2>1 DEF Lose, gateway, TypeOK
  <2>2. ASSUME NEW d \in net, Deliver(d) PROVE Broker /\ Network
    BY <2>0, <2>2 DEF Deliver, TypeOK, Answer
  <2>3. ASSUME NEW d \in net, NEW t \in Names, Serve(t, d) PROVE Broker /\ Network
    <3>1. d \in Request
      BY <2>3 DEF Serve
    <3> QED
      BY <2>3, <3>1, ServeServer DEF Serve, gateway, TypeOK
  <2>4. ASSUME NEW t \in Names, Transact(t) PROVE Broker /\ Network
    <3>1. net' \subseteq Request \cup Answer
      BY <2>4, TransactAnswer DEF TypeOK
    <3>2. UNCHANGED <<gateway, reply, late>>
      BY <2>4 DEF Transact
    <3> QED
      BY <2>4, <3>1, <3>2, TransactServer DEF gateway, TypeOK
  <2>5. ASSUME NEW t \in Names, DeviceTimeout(t) PROVE Broker /\ Network
    <3>1. net' \subseteq Request \cup Answer
      BY <2>5, TimeoutAnswer DEF TypeOK
    <3>2. UNCHANGED <<gateway, reply>> /\ late' = late \cup {t}
      BY <2>5 DEF DeviceTimeout
    <3> QED
      BY <2>5, <3>1, <3>2, TimeoutServer DEF gateway, TypeOK
  <2>6. ASSUME NEW t \in Names, DeviceAnswers(t) PROVE Broker /\ Network
    BY <2>6, AnsweringServer DEF DeviceAnswers, gateway, TypeOK
  <2>7. ASSUME NEW t \in Names, Restart(t) PROVE Broker /\ Network
    BY <2>7, RestartServer DEF Restart, gateway, TypeOK
  <2> QED
    BY <2>1, <2>2, <2>3, <2>4, <2>5, <2>6, <2>7 DEF NetworkStep, ServerStep
<1>2. Accounted' /\ Rested'
  BY <1>1, SameAccounts DEF Rested
<1> QED
  BY <1>1, <1>2 DEF TypeOK, Serving

LEMMA AccountsStep == AccountsInv /\ [Next]_vars => AccountsInv'
<1> SUFFICES ASSUME AccountsInv, [Next]_vars PROVE AccountsInv'
  OBVIOUS
<1>1. ASSUME NEW job \in Jobs, Arrive(job) PROVE AccountsInv'
  BY <1>1, ArriveAccounts
<1>2. ASSUME NEW w \in Workers, WorkerStep(w) PROVE AccountsInv'
  BY <1>2, TakeAccounts, BeginIsAccounted, PassOverAccounts, FailAccounts,
     ExpireAccounts, ReadAccounts DEF WorkerStep
<1>3. ASSUME NetworkStep PROVE AccountsInv'
  BY <1>3, NetworkAccounts
<1>4. ASSUME UNCHANGED vars PROVE AccountsInv'
  <2>1. Accounted'
    BY <1>4, SameAccounts DEF vars, gateway, AccountsInv
  <2> QED
    BY <1>4, <2>1 DEF AccountsInv, TypeOK, Rested, vars, gateway
<1> QED
  BY <1>1, <1>2, <1>3, <1>4 DEF Next, NetworkStep

LEMMA AccountsAlways == Spec => []AccountsInv
BY AccountsInit, AccountsStep, PTL DEF Spec

(* The state of the broker and of the AMBE servers stays within its types, *)
(* for every number of workers, sockets, servers and channel numbers.      *)
THEOREM VocoderTypeCorrect == Spec => []TypeOK
BY AccountsAlways, PTL DEF AccountsInv

(* A worker that waits for nothing leaves fewer exchanges than workers.    *)
LEMMA AccountsGiveRoom == AccountsInv => RoomForAll
<1> SUFFICES ASSUME AccountsInv, NEW w \in Workers, worker[w].todo # <<>>,
                    worker[w].request = None
             PROVE  free # {} /\ taken[Head(worker[w].todo)] < Slots
  BY DEF RoomForAll
<1> USE DEF AccountsInv
<1> DEFINE t == Head(worker[w].todo)
           used == {worker[x].request.from : x \in Exchanging}
<1>1. t \in Names
  BY WorkerFields, HeadTailProperties
<1>2. Exchanging \subseteq Workers \ {w}
  BY DEF Exchanging
<1>3. /\ IsFiniteSet(Workers \ {w})
      /\ Cardinality(Workers \ {w}) = Cardinality(Workers) - 1
  BY VocoderAssumption, FS_RemoveElement
<1>4. /\ IsFiniteSet(Exchanging)
      /\ Cardinality(Exchanging) <= Cardinality(Workers) - 1
      /\ Cardinality(Exchanging) \in Nat /\ Cardinality(Workers) \in Nat
  BY <1>2, <1>3, FS_Subset, FS_CardinalityType, VocoderAssumption
<1>5. taken[t] < Slots
  <2>1. taken[t] = Cardinality(Using(t)) /\ Cardinality(Using(t)) \in Nat
        /\ Cardinality(Using(t)) <= Cardinality(Exchanging) /\ Slots \in Nat
    BY <1>1, WorkersFinite, VocoderAssumption DEF Accounted
  <2> QED
    BY <1>4, <2>1, VocoderAssumption
<1>6. free # {}
  <2>1. SUFFICES ASSUME free = {} PROVE FALSE
    OBVIOUS
  <2> DEFINE f == [x \in Exchanging |-> worker[x].request.from]
  <2>2. Sockets \subseteq used
    BY <2>1 DEF Accounted
  <2>3. \A x \in Exchanging : worker[x].request.from \in Sockets
    BY DEF Exchanging, TypeOK, Request
  <2>4. f \in Surjection(Exchanging, Sockets)
    BY <2>2, <2>3 DEF Surjection
  <2>5. Cardinality(Sockets) <= Cardinality(Exchanging)
    BY <1>4, <2>4, FS_Surjection
  <2> QED
    BY <1>4, <2>5, VocoderAssumption, FS_CardinalityType
<1> QED
  BY <1>5, <1>6

(* However its exchanges end, answered, out of time or passed over, a      *)
(* worker with a server to try finds a socket and a slot of that server:   *)
(* there are as many sockets and slots as workers, each exchange accounts  *)
(* for one of each, and no way out of exchangeDV30 keeps them.             *)
THEOREM AlwaysRoom == Spec => []RoomForAll
BY AccountsAlways, AccountsGiveRoom, PTL

(* While no device has been late, a server's device has nothing but the    *)
(* request that the server waits for, and whatever bears the socket and    *)
(* the channel number of an exchange is about the job of that exchange.    *)
InStep(t) ==
  LET m == server[t]
  IN  \/ m.request = None /\ m.device = <<>> /\ m.line = <<>>
      \/ /\ m.request # None
         /\ \/ m.device = <<m.request.job>> /\ m.line = <<>>
            \/ m.device = <<>> /\ m.line = <<m.request.job>>

About(r, d, s) == s = r.from /\ d.channel = r.channel => d.job = r.job

Own(r) ==
  /\ \A d \in net \cap Request : About(r, d, d.from)
  /\ \A a \in net \cap Answer : About(r, a, a.to)
  /\ \A a \in inbox[r.from] : About(r, a, r.from)
  /\ \A t \in Names : server[t].request # None =>
                        About(r, server[t].request, server[t].request.from)

Faithful ==
  late = {} => /\ \A t \in Names : InStep(t)
               /\ \A w \in Workers :
                    worker[w].request # None => Own(worker[w].request)

RightInv == AccountsInv /\ Faithful /\ RightFrame

LEMMA TwoKinds == Request \cap Answer = {}
<1>1. \A d \in Request : "op" \notin DOMAIN d
  BY DEF Request
<1>2. \A a \in Answer : "op" \in DOMAIN a
  BY DEF Answer
<1> QED
  BY <1>1, <1>2

LEMMA FrameInit == Init => RightInv
<1> SUFFICES ASSUME Init PROVE RightInv
  OBVIOUS
<1>1. \A t \in Names : InStep(t)
  BY DEF Init, InStep
<1>2. \A w \in Workers : worker[w].request = None
  BY DEF Init, Resting
<1>3. RightFrame
  BY VocoderAssumption DEF Init, RightFrame
<1> QED
  BY <1>1, <1>2, <1>3, AccountsInit DEF RightInv, Faithful

(* Nothing new under way: what an exchange owned, it still owns.           *)
LEMMA OwnKept ==
  ASSUME TypeOK, NEW r \in Request, Own(r), net' \subseteq net,
         \A s \in Sockets : inbox'[s] \subseteq inbox[s],
         \A t \in Names : server'[t].request \in {None, server[t].request}
  PROVE  Own(r)'
<1>1. r.from \in Sockets
  BY DEF Request
<1>2. \A a \in inbox'[r.from] : a \in inbox[r.from]
  BY <1>1
<1> QED
  BY <1>2 DEF Own, About

LEMMA WorkerKeepsFaith ==
  ASSUME TypeOK, Faithful, UNCHANGED <<net, server, late>>,
         \A s \in Sockets : inbox'[s] \subseteq inbox[s],
         \A w \in Workers : worker'[w].request \in {None, worker[w].request}
  PROVE  Faithful'
<1> SUFFICES ASSUME late' = {}
             PROVE  /\ \A t \in Names : InStep(t)'
                    /\ \A w \in Workers :
                         worker'[w].request # None => Own(worker[w].request)'
  BY DEF Faithful
<1>1. \A t \in Names : InStep(t)'
  BY DEF Faithful, InStep
<1>2. ASSUME NEW w \in Workers, worker'[w].request # None
      PROVE  Own(worker[w].request)'
  <2> DEFINE r == worker[w].request
  <2>1. worker'[w].request = r /\ r # None /\ r \in Request
    BY <1>2, WorkerFields
  <2>2. Own(r)
    BY <2>1 DEF Faithful
  <2>3. ASSUME NEW ask, ask = r PROVE Own(ask)'
    BY <2>1, <2>2, <2>3, OwnKept
  <2> QED
    BY <2>1, <2>3
<1> QED
  BY <1>1, <1>2

(* An exchange begins: its channel number is nowhere, and its socket is    *)
(* nobody else's.                                                          *)
LEMMA BeginKeepsFaith ==
  ASSUME AccountsInv, Faithful, NEW w \in Workers, Begin(w)
  PROVE  Faithful'
<1> USE DEF AccountsInv
<1> DEFINE c == (channel + 1) % Channels
<1>1. PICK s \in free :
        LET r == [to |-> Head(worker[w].todo), from |-> s, channel |-> c,
                  job |-> worker[w].job]
        IN /\ free' = free \ {s}
           /\ inbox' = [i \in Sockets |-> {d \in inbox[i] : d.channel # c}]
           /\ net' = {d \in net : d.channel # c} \cup {r}
           /\ worker' = [worker EXCEPT ![w].request = r, ![w].todo = Tail(@)]
  BY DEF Begin
<1> DEFINE r == [to |-> Head(worker[w].todo), from |-> s, channel |-> c,
                 job |-> worker[w].job]
<1>2. /\ worker[w].todo # <<>> /\ worker[w].request = None /\ c \in 0 .. Channels - 1
      /\ \A n \in Names : server[n].request # None => server[n].request.channel # c
      /\ UNCHANGED <<server, reply, late>>
  <2>1. channel + 1 \in Nat /\ Channels \in Nat \ {0}
    BY VocoderAssumption DEF TypeOK
  <2>2. c \in 0 .. Channels - 1
    BY <2>1, ChannelType
  <2> QED
    BY <2>2 DEF Begin
<1>3. r \in Request /\ r.from = s /\ r.channel = c
  <2>1. Head(worker[w].todo) \in Names /\ worker[w].job \in Jobs
    BY <1>2, WorkerFields, HeadTailProperties DEF Rested, Job
  <2> QED
    BY <1>2, <2>1 DEF TypeOK, Request
<1>4. /\ inbox' = [i \in Sockets |-> {d \in inbox[i] : d.channel # c}]
      /\ net' = {d \in net : d.channel # c} \cup {r}
      /\ worker' = [worker EXCEPT ![w].request = r, ![w].todo = Tail(@)]
  BY <1>1
<1> HIDE DEF r, c
<1>5. Others(w) /\ worker'[w].request = r
  BY <1>2, <1>3, <1>4, BeginWorker
<1>6. SUFFICES ASSUME late' = {}
               PROVE  /\ \A t \in Names : InStep(t)'
                      /\ \A x \in Workers :
                           worker'[x].request # None => Own(worker[x].request)'
  BY DEF Faithful
<1>7. \A t \in Names : InStep(t)'
  BY <1>2, <1>6 DEF Faithful, InStep
<1>8. ASSUME NEW ask, ask = r PROVE Own(ask)'
  <2>1. \A d \in net' : d = r \/ d.channel # c
    BY <1>4
  <2>2. \A a \in inbox'[r.from] : a.channel # c
    BY <1>3, <1>4 DEF Request
  <2>3. \A t \in Names : server'[t].request # None => server'[t].request.channel # c
    BY <1>2
  <2>4. r \notin Answer
    BY <1>3, TwoKinds
  <2> QED
    BY <1>3, <1>8, <2>1, <2>2, <2>3, <2>4 DEF Own, About
<1>9. ASSUME NEW x \in Workers, x # w, worker'[x].request # None
      PROVE  Own(worker[x].request)'
  <2> DEFINE p == worker[x].request
  <2>1. worker'[x].request = p /\ p # None /\ p \in Request
    BY <1>5, <1>9, WorkerFields DEF Others
  <2>2. p.from # s
    BY <1>1, <2>1 DEF Accounted, Exchanging
  <2>3. Own(p)
    BY <1>2, <1>6, <2>1 DEF Faithful
  <2>4. \A d \in net' \cap Request : d \in net \/ d.from # p.from
    BY <1>3, <1>4, <2>2
  <2>5. net' \cap Answer \subseteq net
    BY <1>3, <1>4, TwoKinds
  <2>6. inbox'[p.from] \subseteq inbox[p.from]
    BY <1>4, <2>1 DEF Request
  <2> HIDE DEF p
  <2>7. ASSUME NEW ask, ask = p PROVE Own(ask)'
    BY <1>2, <2>3, <2>4, <2>5, <2>6, <2>7 DEF Own, About
  <2> QED
    BY <2>1, <2>7
<1> QED
  BY <1>5, <1>7, <1>8, <1>9

LEMMA StepOfWorkerKeepsFaith ==
  ASSUME AccountsInv, Faithful, NEW w \in Workers, WorkerStep(w)
  PROVE  Faithful'
<1> USE DEF AccountsInv
<1> DEFINE Quiet == /\ UNCHANGED <<net, server, late>>
                    /\ \A s \in Sockets : inbox'[s] \subseteq inbox[s]
                    /\ \A x \in Workers : worker'[x].request \in {None, worker[x].request}
<1>1. Quiet => Faithful'
  BY WorkerKeepsFaith
<1>2. CASE Take(w)
  <2>1. queue # <<>> /\ Head(queue) \in Jobs
    BY <1>2, HeadTailProperties DEF Take, TypeOK
  <2>2. Others(w) /\ worker'[w].request = None
    BY <1>2, <2>1, TargetsOrdered, TakeWorker DEF Take
  <2> QED
    BY <1>1, <1>2, <2>2 DEF Take, Others
<1>3. CASE PassOver(w)
  <2>1. Others(w) /\ worker'[w].request = worker[w].request
    BY <1>3, PassWorker DEF PassOver
  <2> QED
    BY <1>1, <1>3, <2>1 DEF PassOver, Others
<1>4. CASE Fail(w)
  <2>1. Others(w) /\ worker'[w].request = None
    BY <1>4, RestWorker DEF Fail
  <2> QED
    BY <1>1, <1>4, <2>1 DEF Fail, Others
<1>5. CASE Expire(w)
  <2>1. Others(w) /\ worker'[w].request = None
    BY <1>5, ExpireWorker DEF Expire
  <2> QED
    BY <1>1, <1>5, <2>1 DEF Expire, Others
<1>6. ASSUME NEW a, Read(w, a) PROVE Faithful'
  <2>1. Others(w) /\ worker'[w].request \in {None, worker[w].request}
    BY <1>6, RestWorker DEF Read, Others
  <2>2. \A s \in Sockets : inbox'[s] \subseteq inbox[s]
    BY <1>6 DEF Read, TypeOK
  <2> QED
    BY <1>1, <1>6, <2>1, <2>2 DEF Read, Others
<1>7. CASE Begin(w)
  BY <1>7, BeginKeepsFaith
<1> QED
  BY <1>2, <1>3, <1>4, <1>5, <1>6, <1>7 DEF WorkerStep

(* The network and the servers: where an exchange's request or answer      *)
(* goes, it stays about the same job.                                      *)
LEMMA NetworkKeepsFaith ==
  ASSUME AccountsInv, Faithful, NetworkStep
  PROVE  Faithful'
<1> USE DEF AccountsInv
<1>1. SUFFICES ASSUME late' = {}
               PROVE  /\ \A t \in Names : InStep(t)'
                      /\ \A x \in Workers :
                           worker[x].request # None =>
                             \A ask : ask = worker[x].request => Own(ask)'
  <2>1. UNCHANGED worker
    BY DEF NetworkStep, Lose, Deliver, Serve, ServerStep, Transact, DeviceTimeout,
           DeviceAnswers, Restart, gateway
  <2> QED
    BY <2>1 DEF Faithful
<1>2. late = {}
  BY <1>1 DEF NetworkStep, Lose, Deliver, Serve, ServerStep, Transact,
              DeviceTimeout, DeviceAnswers, Restart, gateway
<1>3. /\ \A t \in Names : InStep(t)
      /\ \A x \in Workers : worker[x].request # None =>
           Own(worker[x].request) /\ worker[x].request \in Request
  BY <1>2, WorkerFields DEF Faithful
<1> DEFINE Steady == \A t \in Names : InStep(t)'
           Kept == \A ask \in Request : Own(ask) => Own(ask)'
<1>4. SUFFICES Steady /\ Kept
  BY <1>3
<1>5. ASSUME NEW d \in net, Lose(d) PROVE Steady /\ Kept
  BY <1>3, <1>5, OwnKept DEF Lose, gateway, InStep
<1>6. ASSUME NEW d \in net, Deliver(d) PROVE Steady /\ Kept
  <2>1. /\ d \in Answer /\ net' = net \ {d} /\ UNCHANGED server
        /\ inbox' = [inbox EXCEPT ![d.to] = @ \cup {d}]
    BY <1>6 DEF Deliver
  <2>2. Steady
    BY <1>3, <2>1 DEF InStep
  <2>3. ASSUME NEW ask \in Request, Own(ask) PROVE Own(ask)'
    <3>1. \A a \in inbox'[ask.from] : a \in inbox[ask.from] \/ (a = d /\ a.to = ask.from)
      BY <2>1 DEF Request, TypeOK
    <3> QED
      BY <2>1, <2>3, <3>1 DEF Own, About
  <2> QED
    BY <2>2, <2>3
<1>7. ASSUME NEW r \in net, NEW t \in Names, Serve(t, r) PROVE Steady /\ Kept
  <2>1. /\ r \in Request /\ net' = net \ {r} /\ UNCHANGED inbox
        /\ server[t].request = None
    BY <1>7 DEF Serve, gateway
  <2>2. /\ OtherServers(t) /\ server'[t].request = r /\ r # None
        /\ server'[t].device = Append(server[t].device, r.job)
        /\ server'[t].line = server[t].line
    BY <1>7, <2>1, ServeServer, NoneAssumption
  <2>3. server'[t].device = <<r.job>> /\ server'[t].line = <<>>
    <3>1. server[t].device = <<>> /\ server[t].line = <<>>
      BY <1>3, <2>1 DEF InStep
    <3> QED
      BY <2>2, <3>1
  <2>4. Steady
    BY <1>3, <2>2, <2>3 DEF InStep, OtherServers
  <2>5. ASSUME NEW ask \in Request, Own(ask) PROVE Own(ask)'
    BY <2>1, <2>2, <2>5 DEF Own, About, OtherServers
  <2> QED
    BY <2>4, <2>5
<1>8. ASSUME NEW t \in Names, Transact(t) PROVE Steady /\ Kept
  <2>1. /\ OtherServers(t) /\ server'[t].request = None
        /\ server'[t].device = server[t].device
        /\ server'[t].line = Tail(server[t].line)
        /\ server[t].request # None /\ server[t].line # <<>> /\ UNCHANGED inbox
    BY <1>8, TransactServer DEF Transact, gateway
  <2> DEFINE p == server[t].request
  <2>2. server[t].device = <<>> /\ server[t].line = <<p.job>>
    BY <1>3, <2>1 DEF InStep
  <2>3. Steady
    <3>1. server'[t].device = <<>> /\ server'[t].line = <<>>
      BY <2>1, <2>2
    <3> QED
      BY <1>3, <2>1, <3>1 DEF InStep, OtherServers
  <2>4. PICK a \in Answer : /\ net' = net \cup {a} /\ p \in Request
                            /\ a.to = p.from /\ a.channel = p.channel
                            /\ a.job = Head(server[t].line)
    BY <1>8, TransactAnswer
  <2>5. a.job = p.job /\ a \notin Request
    BY <2>2, <2>4, TwoKinds
  <2> HIDE DEF p
  <2>6. ASSUME NEW ask \in Request, Own(ask) PROVE Own(ask)'
    <3>1. About(ask, p, p.from)
      BY <2>1, <2>6 DEF Own, p
    <3>2. About(ask, a, a.to)
      BY <2>4, <2>5, <3>1 DEF About
    <3>3. \A n \in Names : server'[n].request # None =>
            server'[n].request = server[n].request
      BY <2>1 DEF OtherServers
    <3>4. (net' \cap Request) \subseteq net /\ \A d \in net' : d \in net \/ d = a
      BY <2>4, <2>5
    <3> QED
      BY <2>1, <2>6, <3>2, <3>3, <3>4 DEF Own, About
  <2> QED
    BY <2>3, <2>6
<1>9. ASSUME NEW t \in Names, DeviceTimeout(t) PROVE Steady /\ Kept
  BY <1>1, <1>9 DEF DeviceTimeout
<1>10. ASSUME NEW t \in Names, DeviceAnswers(t) PROVE Steady /\ Kept
  <2>1. /\ OtherServers(t) /\ server'[t].request = server[t].request
        /\ server'[t].device = Tail(server[t].device)
        /\ server'[t].line = Append(server[t].line, Head(server[t].device))
        /\ server[t].device # <<>> /\ UNCHANGED <<inbox, net>>
    BY <1>10, AnsweringServer DEF DeviceAnswers, gateway
  <2>2. /\ server[t].request # None /\ server[t].line = <<>>
        /\ server[t].device = <<server[t].request.job>>
    BY <1>3, <2>1 DEF InStep
  <2>3. /\ server'[t].device = <<>>
        /\ server'[t].line = <<server[t].request.job>>
    BY <2>1, <2>2
  <2>4. Steady
    BY <1>3, <2>1, <2>2, <2>3 DEF InStep, OtherServers
  <2>5. Kept
    BY <2>1, OwnKept DEF OtherServers
  <2> QED
    BY <2>4, <2>5
<1>11. ASSUME NEW t \in Names, Restart(t) PROVE Steady /\ Kept
  <2>1. /\ OtherServers(t) /\ server'[t].request = None
        /\ server'[t].device = <<>> /\ server'[t].line = <<>>
        /\ UNCHANGED <<inbox, net>>
    BY <1>11, RestartServer DEF Restart, gateway
  <2>2. Steady
    BY <1>3, <2>1 DEF InStep, OtherServers
  <2>3. Kept
    BY <2>1, OwnKept DEF OtherServers
  <2> QED
    BY <2>2, <2>3
<1> QED
  BY <1>5, <1>6, <1>7, <1>8, <1>9, <1>10, <1>11 DEF NetworkStep, ServerStep

(* Only an answer of the device gives a job the data of a job, and the     *)
(* answer that is taken bears the socket and channel of its exchange.      *)
LEMMA RightFrameStep ==
  ASSUME RightInv, [Next]_vars
  PROVE  RightFrame'
<1> USE DEF RightInv, AccountsInv
<1>1. late' = {} => late = {}
  BY DEF Next, vars, gateway, Arrive, WorkerStep, Take, Begin, PassOver, Fail, Expire,
         Read, Lose, Deliver, Serve, ServerStep, Transact, DeviceTimeout,
         DeviceAnswers, Restart
<1> DEFINE Fine == \A job \in Jobs : reply'[job] \in {reply[job], job}
                                     \/ reply'[job] \notin Jobs
<1>2. (late = {} => Fine) => RightFrame'
  BY <1>1 DEF RightFrame
<1>3. SUFFICES ASSUME late = {} PROVE Fine
  BY <1>2
<1>4. ASSUME NEW job \in Jobs, Arrive(job) PROVE Fine
  BY <1>4, VocoderAssumption DEF Arrive, TypeOK
<1>5. ASSUME NEW w \in Workers, WorkerStep(w) PROVE Fine
  <2>1. ASSUME UNCHANGED reply PROVE Fine
    BY <2>1
  <2>2. CASE Fail(w)
    BY <2>2, VocoderAssumption DEF Fail, TypeOK
  <2>3. ASSUME NEW a, Read(w, a) PROVE Fine
    <3> DEFINE r == worker[w].request
    <3>1. r # None /\ r \in Request /\ a \in inbox[r.from]
      BY <2>3, WorkerFields DEF Read
    <3>2. Own(r)
      BY <1>3, <3>1 DEF Faithful
    <3>3. CASE Matches(a, r)
      <4>1. a.job = r.job
        BY <3>1, <3>2, <3>3 DEF Own, About, Matches
      <4>2. reply' = [reply EXCEPT ![r.job] = a.job]
        BY <2>3, <3>3 DEF Read
      <4> QED
        BY <4>1, <4>2 DEF TypeOK
    <3>4. CASE ~Matches(a, r)
      BY <2>1, <2>3, <3>4 DEF Read
    <3> QED
      BY <3>3, <3>4
  <2> QED
    BY <1>5, <2>1, <2>2, <2>3 DEF WorkerStep, Take, Begin, PassOver, Expire
<1>6. ASSUME NetworkStep PROVE Fine
  BY <1>6 DEF NetworkStep, Lose, Deliver, Serve, ServerStep, Transact, DeviceTimeout,
              DeviceAnswers, Restart, gateway
<1>7. ASSUME UNCHANGED vars PROVE Fine
  BY <1>7 DEF vars
<1> QED
  BY <1>4, <1>5, <1>6, <1>7 DEF Next, NetworkStep

LEMMA RightStep == RightInv /\ [Next]_vars => RightInv'
<1> SUFFICES ASSUME RightInv, [Next]_vars PROVE RightInv'
  OBVIOUS
<1>1. AccountsInv' /\ RightFrame'
  BY AccountsStep, RightFrameStep DEF RightInv
<1>2. Faithful'
  <2>1. ASSUME NEW job \in Jobs, Arrive(job) PROVE Faithful'
    BY <2>1, WorkerKeepsFaith DEF Arrive, RightInv, AccountsInv
  <2>2. ASSUME NEW w \in Workers, WorkerStep(w) PROVE Faithful'
    BY <2>2, StepOfWorkerKeepsFaith DEF RightInv
  <2>3. ASSUME NetworkStep PROVE Faithful'
    BY <2>3, NetworkKeepsFaith DEF RightInv
  <2>4. ASSUME UNCHANGED vars PROVE Faithful'
    BY <2>4, WorkerKeepsFaith DEF vars, gateway, RightInv, AccountsInv
  <2> QED
    BY <2>1, <2>2, <2>3, <2>4 DEF Next, NetworkStep
<1> QED
  BY <1>1, <1>2 DEF RightInv

(* No converter gets the frame of another one, whatever the network loses  *)
(* or delays and however sockets, servers and channel numbers are used     *)
(* again, as long as no device has answered after its server's deadline.   *)
THEOREM OwnFrameAnswered == Spec => []RightFrame
BY FrameInit, RightStep, PTL DEF Spec, RightInv
=============================================================================
