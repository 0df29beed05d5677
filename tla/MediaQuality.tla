---------------------------- MODULE MediaQuality ----------------------------
(***************************************************************************)
(* The three passive monitors of the dashboard in gateway.go: passiveDMR-  *)
(* Quality counts the frames of each stream and the gaps between their     *)
(* numbers, passiveVocoderQuality the answers of the vocoder, and passive- *)
(* NetworkQuality the differences between readings of /proc/net/dev.  None *)
(* of them asks anything of the network; each judges what it has seen.     *)
(*                                                                         *)
(* Time is counted in ticks, of which a frame is StaleTicks old at most    *)
(* when it comes in, if it does: frames overtake each other, come twice or *)
(* are lost.  A list of events carries their ages instead of their times.  *)
(***************************************************************************)
EXTENDS Integers, FiniteSetsExt, SequencesExt

CONSTANTS
  Streams,       \* a route, a repeater and a stream number
  Numbers,       \* 256 numbers of frames
  FirstSeq,      \* the number a stream begins with
  PerTick,       \* frames a stream has in a tick
  MaxFrames,     \* bound: frames of a stream
  StaleTicks,    \* 2 s
  WindowTicks,   \* 30 s: what is shown
  PruneTicks,    \* 30 s between prunings
  KeepTicks,     \* 5 minutes: what a pruning keeps
  Answers,       \* bound: vocoder exchanges in the window
  CounterMod,    \* 2^64
  Interfaces,    \* apart from lo, in the order of the file
  MaxTraffic     \* bound: what happens between two readings

\* While the number kept of a stream is fresh (2 s) the stream stays less than
\* half of the numbers ahead of it.  The frame it is of was sent up to 2 s before
\* it was seen, and a stream has 17 frames a second.
ASSUME QualityAssumption ==
  /\ Numbers \in Nat \ {0} /\ FirstSeq \in Nat
  /\ PerTick \in Nat /\ MaxFrames \in Nat
  /\ StaleTicks \in Nat \ {0} /\ WindowTicks \in Nat /\ KeepTicks \in Nat
  /\ Numbers \div 2 >= PerTick * (2 * StaleTicks - 1)
  /\ StaleTicks <= KeepTicks /\ WindowTicks < KeepTicks
  /\ CounterMod \in Nat \ {0} /\ MaxTraffic \in Nat
  /\ Interfaces # {} /\ Interfaces \subseteq Nat \ {0}

VARIABLES
  spoken,    \* per stream: how many frames left, and how many in this tick
  air,       \* frames on their way
  flows,     \* per stream: the number and age of the last frame
  events,    \* what was counted
  pruned,    \* age of the last pruning
  passed,    \* history: frames and gaps, without numbers that wrap
  answers,   \* vocoder exchanges of the window by how they ended
  counters,  \* what the kernel has counted, per interface
  previous,  \* the last sample
  shown      \* what has changed since, with what has in truth (history)

dmrVars == <<spoken, air, flows, events, pruned, passed>>
netVars == <<counters, previous, shown>>
qualityVars == <<dmrVars, answers, netVars>>

NoFlow == [seq |-> 0, age |-> KeepTicks + 1]
Zero == [packets |-> 0, dropped |-> 0, errors |-> 0]
NoSample == [interface |-> 0, count |-> Zero]
Endings == {"fast", "slow", "late", "failed"}   \* < 150 ms, < 300 ms, or not

QualityInit ==
  /\ spoken = [s \in Streams |-> [all |-> 0, now |-> 0]]
  /\ air = {} /\ events = <<>> /\ passed = {}
  /\ flows = [s \in Streams |-> NoFlow]
  /\ pruned = PruneTicks                      \* never
  /\ answers = [e \in Endings |-> 0]
  /\ counters = [i \in Interfaces |-> Zero]
  /\ previous = NoSample
  /\ shown = [available |-> FALSE, count |-> Zero, truth |-> Zero]

-----------------------------------------------------------------------------
(* Levels                                                                  *)

Levels == <<"idle", "good", "warning", "fault">>
Rank(level) == CHOOSE i \in DOMAIN Levels : Levels[i] = level
AtLeast(part, whole, permille) == 1000 * part >= permille * whole
Share(part, whole, permille) == whole > 0 /\ AtLeast(part, whole, permille)

\* qualityLevel
QualityLevel(missing, total, errors) ==
  IF errors >= 5 \/ Share(missing, total, 20) THEN "fault"
  ELSE IF errors >= 3 \/ Share(missing, total, 5) THEN "warning" ELSE "good"

\* sampledLossLevel: few losses are no alarm, whatever share they are.
SampledLossLevel(errors, received, missing) ==
  LET few(n) == missing < n /\ errors < n
      level == QualityLevel(missing, received + missing, errors)
      lower == IF level = "fault" /\ few(5) THEN "warning" ELSE level
  IN IF received + missing = 0 /\ errors = 0 THEN "idle"
     ELSE IF lower = "warning" /\ few(3) THEN "good" ELSE lower

-----------------------------------------------------------------------------
(* DMR frames                                                              *)

Older(age, bound) == IF age <= bound THEN age + 1 ELSE age

Send(s) ==
  /\ spoken[s].all < MaxFrames /\ spoken[s].now < PerTick
  /\ spoken' = [spoken EXCEPT ![s] = [all |-> @.all + 1, now |-> @.now + 1]]
  /\ air' = air \cup {[stream |-> s, n |-> spoken[s].all, age |-> 0]}
  /\ UNCHANGED <<flows, events, pruned, passed>>

\* Fault: the distance is taken the short way round.
Gap_Either(delta) == Min({delta, Numbers - delta})

\* Frames missing before one that is delta numbers on; a duplicate, or a frame
\* that was overtaken, is not counted (-1).
Gap(delta) == IF delta = 0 \/ delta >= Numbers \div 2 THEN -1 ELSE delta - 1

\* Fault: a pruning keeps no more than the last seconds.
Pruned_Stale(list) ==
  LET Keep(e) == e.age < StaleTicks
  IN IF pruned >= PruneTicks THEN SelectSeq(list, Keep) ELSE list

\* Those in front that are older than five minutes go.
Pruned(list) ==
  LET old == {i \in DOMAIN list : \A j \in 1 .. i : list[j].age > KeepTicks}
  IN IF pruned >= PruneTicks THEN SubSeq(list, Cardinality(old) + 1, Len(list))
     ELSE list

\* passiveDMRQuality.observe; a number is new unless the stream was silent.  An
\* interval over 120 ms is possible however ticks fall.
Observe(f, interval) ==
  LET flow == flows[f.stream]
      seq == (FirstSeq + f.n) % Numbers
      known == flow.age < StaleTicks
      gap == IF known THEN Gap((seq - flow.seq) % Numbers) ELSE 0
      event == [age |-> 0, missing |-> gap, stutter |-> known /\ (gap > 0 \/ interval)]
      front == {p.n : p \in {q \in passed : q.stream = f.stream}}
      new == IF known THEN Max(front) + 1 .. f.n ELSE {f.n}
  IN /\ IF gap = -1 THEN UNCHANGED <<flows, events, pruned>>
        ELSE /\ flows' = [flows EXCEPT ![f.stream] = [seq |-> seq, age |-> 0]]
             /\ events' = Pruned(Append(events, event))
             /\ pruned' = IF pruned >= PruneTicks THEN 0 ELSE pruned
     /\ passed' = passed \cup [stream: {f.stream}, n: new, age: {0}]

\* A frame comes in, and may come in again.
Arrive(f) ==
  /\ \E again, interval \in BOOLEAN :
       /\ Observe(f, interval)
       /\ air' = IF again THEN air ELSE air \ {f}
  /\ UNCHANGED spoken

\* What has been on its way for too long is lost.
Tick ==
  /\ \/ air # {} \/ \E s \in Streams : spoken[s].now > 0
     \/ \E i \in DOMAIN events : events[i].age <= WindowTicks
  /\ air' = {[f EXCEPT !.age = @ + 1] : f \in {g \in air : g.age + 1 < StaleTicks}}
  /\ spoken' = [s \in Streams |-> [spoken[s] EXCEPT !.now = 0]]
  /\ flows' = [s \in Streams |-> [flows[s] EXCEPT !.age = Older(@, KeepTicks)]]
  /\ events' = [i \in DOMAIN events |-> [events[i] EXCEPT !.age = Older(@, KeepTicks)]]
  /\ passed' = {[p EXCEPT !.age = Older(@, KeepTicks)] : p \in passed}
  /\ pruned' = Older(pruned, PruneTicks)

DMRNext ==
  \/ \E s \in Streams : Send(s)
  \/ \E f \in air : Arrive(f)
  \/ Tick

\* The frames missing before an event, numbered from 0 to be counted.
Numerals == 0 .. Numbers - 1

\* passiveDMRQuality.snapshot
Judged(list) ==
  LET window == {i \in DOMAIN list : list[i].age <= WindowTicks}
      received == Cardinality(window)
      missing == Cardinality({u \in window \X Numerals : u[2] < list[u[1]].missing})
      stutters == Cardinality({i \in window : list[i].stutter})
      loss == IF received > 0 THEN SampledLossLevel(0, received, missing) ELSE "idle"
      stutter == IF received = 0 THEN "idle"
                 ELSE IF stutters >= 5 /\ AtLeast(stutters, received, 50) THEN "fault"
                 ELSE IF stutters >= 3 /\ AtLeast(stutters, received, 10) THEN "warning"
                 ELSE "good"
      worse == \/ stutter = "fault"
               \/ stutter = "warning" /\ loss = "good"
  IN [received |-> received, missing |-> missing, loss |-> loss,
      stutter |-> stutter, level |-> IF worse THEN stutter ELSE loss]

-----------------------------------------------------------------------------
(* Vocoder exchanges                                                       *)

\* passiveVocoderQuality.observe
Exchange(ending) ==
  /\ SumFunction(answers) < Answers
  /\ answers' = [answers EXCEPT ![ending] = @ + 1]

\* An exchange is thirty seconds old.
Leaves(ending) ==
  /\ answers[ending] > 0
  /\ answers' = [answers EXCEPT ![ending] = @ - 1]

VocoderNext == \E e \in Endings : Exchange(e) \/ Leaves(e)

Successes == answers.fast + answers.slow + answers.late

\* Fault: places are counted from one.
Place_FromOne(n) == (95 * n) \div 100

\* percentile: ceil(0.95 n) - 1, counted from 0 as in the code.
Place(n) == ((95 * n + 99) \div 100) - 1

P95(n) ==
  IF n = 0 THEN "fast"
  ELSE IF Place(n) < answers.fast THEN "fast"
  ELSE IF Place(n) < answers.fast + answers.slow THEN "slow" ELSE "late"

\* passiveVocoderQuality.snapshot
VocoderLevel ==
  LET total == Successes + answers.failed
      failed == answers.failed
      enough == Successes >= 20
  IN IF total = 0 THEN "idle"
     ELSE IF \/ failed >= 3 /\ AtLeast(failed, total, 20)
             \/ enough /\ P95(Successes) = "late" THEN "fault"
     ELSE IF \/ failed >= 2 /\ AtLeast(failed, total, 5)
             \/ failed > 0 /\ AtLeast(failed, total, 100)
             \/ enough /\ P95(Successes) # "fast" THEN "warning"
     ELSE "good"

-----------------------------------------------------------------------------
(* Counters of the host                                                    *)

Kinds == DOMAIN Zero

\* readNetworkCounterSample: the first one that has the most packets.
Busiest(total) ==
  CHOOSE i \in Interfaces :
    \A j \in Interfaces : \/ total[i].packets > total[j].packets
                          \/ total[i].packets = total[j].packets /\ i <= j

\* Fault: only packets tell that the counters began again.
Comparable_Packets(new) ==
  /\ previous # NoSample /\ previous.interface = new.interface
  /\ new.count.packets >= previous.count.packets

Comparable(new) ==
  /\ previous # NoSample /\ previous.interface = new.interface
  /\ \A k \in Kinds : new.count[k] >= previous.count[k]

\* passiveNetworkQuality.observe; total is what the kernel has counted by now,
\* and more what of it is new.
ObserveSample(total, more) ==
  LET i == Busiest(total)
      new == [interface |-> i, count |-> total[i]]
      Delta(k) == (new.count[k] - previous.count[k]) % CounterMod
  IN /\ previous' = new
     /\ shown' = IF Comparable(new)
                 THEN [available |-> TRUE, truth |-> more[i],
                       count |-> [k \in Kinds |-> Delta(k)]]
                 ELSE [shown EXCEPT !.available = FALSE]

\* Five seconds pass: there is traffic, and interfaces are made again and count
\* from nothing.
Interval ==
  \E busy \in Interfaces, new \in [Kinds -> 0 .. MaxTraffic], again \in SUBSET Interfaces :
    LET more == [i \in Interfaces |-> IF i = busy THEN new ELSE Zero]
        Count(i, k) == more[i][k] + IF i \in again THEN 0 ELSE counters[i][k]
    IN /\ counters' = [i \in Interfaces |-> [k \in Kinds |-> Count(i, k)]]
       /\ \A i \in Interfaces, k \in Kinds : Count(i, k) < CounterMod
       /\ ObserveSample(counters', more)

\* For twenty seconds there was nothing to read.
Forget ==
  /\ shown.available
  /\ shown' = [shown EXCEPT !.available = FALSE]
  /\ UNCHANGED <<counters, previous>>

NetNext == Interval \/ Forget

-----------------------------------------------------------------------------
Worst(levels) == Levels[Max({Rank(l) : l \in levels})]

\* Every frame and every gap of the last half minute is counted once, however
\* numbers wrap, frames come twice or overtake each other and lists are pruned;
\* and the level shown is the worse of the two it is made of.
FramesCounted ==
  LET now == Judged(events)
      window == {p \in passed : p.age <= WindowTicks}
  IN /\ now.received + now.missing = Cardinality(window)
     /\ now.level = Worst({now.loss, now.stutter})

\* A slow vocoder is at fault if more than one in twenty of enough answers takes
\* 300 ms, and is warned of if more than one in twenty takes 150 ms: the
\* percentile is taken from the right place for any number of answers.
SlownessJudged ==
  answers.failed = 0 /\ Successes >= 20 =>
    LET slow == answers.slow + answers.late
    IN VocoderLevel = IF 20 * answers.late > Successes THEN "fault"
                      ELSE IF 20 * slow > Successes THEN "warning" ELSE "good"

\* The host is never said to have dropped more, or passed more, than it did
\* since the last reading, whichever interface is read and begins again.
HostNotBlamed ==
  shown.available => \A k \in Kinds : shown.count[k] <= shown.truth[k]

QualityTrue == FramesCounted /\ SlownessJudged /\ HostNotBlamed
=============================================================================
