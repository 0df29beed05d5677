--------------------------- MODULE DashboardProofs ---------------------------
(***************************************************************************)
(* Proofs about what the gateway keeps for its dashboard: the list of      *)
(* calls and its file, connections and tickets, monitors, and profiles.    *)
(***************************************************************************)
EXTENDS Dashboard, FiniteSetTheorems, SequenceTheorems, TLAPS

(* Profiles of callsigns.                                                  *)

Ages == 0 .. CacheTicks + 1
Steps == {"idle", "login", "query", "relogin", "requery"}

QRZType ==
  /\ session \in {"none", "good", "expired"}
  /\ cache \in [Calls -> [profile : Profiles, age : Ages]]
  /\ published \in [Calls -> Profiles]
  /\ replaced \in [Calls -> [Profiles -> Ages]]
  /\ expiries \in Nat
  /\ lookup.step \in Steps /\ lookup.found \in BOOLEAN
  /\ lookup.step # "idle" => lookup.call \in Calls /\ ~lookup.found
  /\ lookup.found => lookup.call \in Calls /\ lookup.profile \in Profiles
  /\ DOMAIN lookup = {"step", "call", "found", "profile", "reason"}

(* A profile in the cache was replaced, if it was, after it was cached.    *)
CacheRight ==
  \A c \in Calls :
    cache[c].age < CacheTicks =>
      \/ cache[c].profile = published[c]
      \/ replaced[c][cache[c].profile] <= cache[c].age

(* The second query of a lookup is made with a session of that lookup.     *)
RequeryGood == lookup.step = "requery" /\ session # "good" => expiries > 0

QRZInv == QRZType /\ CacheRight /\ RequeryGood /\ LookupRight

LEMMA QRZStarts == QRZInit => QRZInv
BY QRZAssumption
DEF QRZInit, QRZInv, QRZType, CacheRight, RequeryGood, LookupRight, ProfileRecent,
    ExpiryHidden, Idle, Uncached, Profiles, Ages, Steps

LEMMA LookUpKept == ASSUME QRZInv, NEW c \in Calls, LookUp(c) PROVE QRZInv'
<1> USE DEF QRZInv
<1>1. CASE FreshEnough(c)
  <2>1. lookup' = [Idle EXCEPT !.call = c, !.found = TRUE,
                               !.profile = cache[c].profile]
    BY <1>1 DEF LookUp, Found
  <2>2. /\ lookup'.step = "idle" /\ lookup'.found /\ lookup'.call = c
        /\ lookup'.profile = cache[c].profile /\ lookup'.reason = "none"
        /\ DOMAIN lookup' = {"step", "call", "found", "profile", "reason"}
    BY <2>1 DEF Idle
  <2>3. expiries' = 0 /\ UNCHANGED <<session, cache, published, replaced>>
    BY DEF LookUp
  <2>4. \/ cache[c].profile = published[c]
        \/ replaced[c][cache[c].profile] <= CacheTicks
    BY <1>1, QRZAssumption DEF FreshEnough, CacheRight, QRZType, Ages
  <2> QED
    BY <2>2, <2>3, <2>4 DEF QRZType, CacheRight, RequeryGood, LookupRight,
                           ProfileRecent, ExpiryHidden, Steps
<1>2. CASE ~FreshEnough(c)
  <2>1. lookup' = [Idle EXCEPT !.call = c,
                     !.step = IF session = "none" THEN "login" ELSE "query"]
    BY <1>2 DEF LookUp
  <2>2. /\ lookup'.step \in {"login", "query"} /\ lookup'.found = FALSE
        /\ lookup'.call = c /\ lookup'.reason = "none"
        /\ DOMAIN lookup' = {"step", "call", "found", "profile", "reason"}
    BY <2>1 DEF Idle
  <2>3. expiries' = 0 /\ UNCHANGED <<session, cache, published, replaced>>
    BY DEF LookUp
  <2> QED
    BY <2>2, <2>3 DEF QRZType, CacheRight, RequeryGood, LookupRight,
                      ProfileRecent, ExpiryHidden, Steps
<1> QED
  BY <1>1, <1>2

LEMMA WentOn ==
  ASSUME QRZType, NEW step \in Steps, GoOn(step)
  PROVE  /\ lookup'.step = step /\ lookup'.found = lookup.found
         /\ lookup'.call = lookup.call /\ lookup'.profile = lookup.profile
         /\ lookup'.reason = lookup.reason
         /\ DOMAIN lookup' = {"step", "call", "found", "profile", "reason"}
BY DEF QRZType, GoOn

LEMMA LookupFailed ==
  ASSUME NEW why, Failed(why)
  PROVE  /\ lookup'.step = "idle" /\ lookup'.found = FALSE /\ lookup'.reason = why
         /\ DOMAIN lookup' = {"step", "call", "found", "profile", "reason"}
BY DEF Failed, Idle

LEMMA FailingKept ==
  ASSUME QRZInv, NEW why, why = "session" => expiries > 0, Failed(why),
         UNCHANGED <<cache, published, replaced, expiries>>,
         session' \in {"none", session}
  PROVE  QRZInv'
<1> USE DEF QRZInv
<1>1. /\ lookup'.step = "idle" /\ lookup'.found = FALSE
      /\ lookup'.reason = "session" => expiries' > 0
      /\ DOMAIN lookup' = {"step", "call", "found", "profile", "reason"}
  BY LookupFailed
<1>2. QRZType'
  BY <1>1 DEF QRZType, Steps
<1>3. CacheRight' /\ RequeryGood'
  BY <1>1 DEF CacheRight, RequeryGood
<1>4. LookupRight'
  BY <1>1 DEF LookupRight, ProfileRecent, ExpiryHidden
<1> QED
  BY <1>2, <1>3, <1>4

LEMMA LogInKept == ASSUME QRZInv, LogIn PROVE QRZInv'
<1> USE DEF QRZInv
<1>1. /\ lookup.step \in {"login", "relogin"}
      /\ UNCHANGED <<cache, published, replaced, expiries>>
  BY DEF LogIn
<1>2. ASSUME session' = "good", NEW step \in {"query", "requery"}, GoOn(step)
      PROVE  QRZInv'
  BY <1>1, <1>2, WentOn DEF QRZType, CacheRight, RequeryGood, LookupRight,
                      ProfileRecent, ExpiryHidden, Steps
<1>3. ASSUME session' = session, Failed("login") PROVE QRZInv'
  BY <1>1, <1>3, FailingKept
<1> QED
  BY <1>2, <1>3 DEF LogIn

LEMMA QueryKept == ASSUME QRZInv, Query PROVE QRZInv'
<1> USE DEF QRZInv
<1>1. /\ lookup.step \in {"query", "requery"} /\ lookup.call \in Calls
      /\ lookup.found = FALSE
      /\ UNCHANGED <<published, replaced, expiries>>
  BY DEF Query, QRZType
<1>2. ASSUME UNCHANGED <<cache>>, session' \in {"none", session}, NEW why,
             why = "session" => expiries > 0, Failed(why)
      PROVE  QRZInv'
  BY <1>1, <1>2, FailingKept
<1>3. ASSUME session # "good", session' = "none", Again(lookup.step),
             GoOn("relogin"), UNCHANGED cache
      PROVE  QRZInv'
  BY <1>1, <1>3, WentOn DEF QRZType, CacheRight, RequeryGood, LookupRight,
                      ProfileRecent, ExpiryHidden, Steps
<1>4. ASSUME session # "good", session' = "none", ~Again(lookup.step),
             Failed("session"), UNCHANGED cache
      PROVE  QRZInv'
  BY <1>1, <1>2, <1>4 DEF Again, RequeryGood
<1>5. ASSUME Found(lookup.call, published[lookup.call]), UNCHANGED session,
             cache' = [cache EXCEPT ![lookup.call] =
                         [profile |-> published[lookup.call], age |-> 0]]
      PROVE  QRZInv'
  <2>1. /\ lookup'.step = "idle" /\ lookup'.found /\ lookup'.call = lookup.call
        /\ lookup'.profile = published[lookup.call] /\ lookup'.reason = "none"
        /\ DOMAIN lookup' = {"step", "call", "found", "profile", "reason"}
    BY <1>5 DEF Found, Idle
  <2>2. /\ cache' \in [Calls -> [profile : Profiles, age : Ages]]
        /\ \A c \in Calls : \/ cache'[c] = cache[c]
                            \/ cache'[c].profile = published[c]
    BY <1>1, <1>5, QRZAssumption DEF QRZType, Ages
  <2> QED
    BY <1>1, <1>5, <2>1, <2>2 DEF QRZType, CacheRight, RequeryGood, LookupRight,
                            ProfileRecent, ExpiryHidden, Steps
<1> QED
  BY <1>2, <1>3, <1>4, <1>5 DEF Query

LEMMA QRZEventsKept ==
  ASSUME QRZInv, SessionEnds \/ CacheTick \/ \E c \in Calls : ProfileChanges(c)
  PROVE  QRZInv'
<1> USE DEF QRZInv
<1>1. CASE SessionEnds
  BY <1>1 DEF SessionEnds, QRZType, CacheRight, RequeryGood, LookupRight,
              ProfileRecent, ExpiryHidden
<1>2. ASSUME NEW c \in Calls, ProfileChanges(c) PROVE QRZInv'
  <2>1. /\ published[c] \in Profiles /\ published[c] + 1 \in Profiles
        /\ 0 \in Ages /\ UNCHANGED <<session, cache, lookup, expiries>>
    BY <1>2, QRZAssumption DEF ProfileChanges, QRZType, Profiles, Ages
  <2>2. /\ published' \in [Calls -> Profiles] /\ replaced' \in [Calls -> [Profiles -> Ages]]
        /\ replaced'[c][published[c]] = 0
        /\ \A d \in Calls : d # c => published'[d] = published[d]
        /\ \A d \in Calls, p \in Profiles :
             ~(d = c /\ p = published[c]) => replaced'[d][p] = replaced[d][p]
    BY <1>2, <2>1 DEF ProfileChanges, QRZType
  <2>3. CacheRight'
    BY <2>1, <2>2 DEF CacheRight, QRZType, Ages
  <2>4. ProfileRecent'
    BY <2>1, <2>2, QRZAssumption DEF ProfileRecent, QRZType, LookupRight
  <2> QED
    BY <2>1, <2>2, <2>3, <2>4 DEF QRZType, RequeryGood, LookupRight, ExpiryHidden
<1>3. CASE CacheTick
  <2>1. /\ lookup' = Idle /\ UNCHANGED <<session, published, expiries>>
        /\ cache' = [c \in Calls |->
             [cache[c] EXCEPT !.age = IF @ < CacheTicks THEN @ + 1 ELSE @]]
        /\ replaced' = [c \in Calls |-> [p \in Profiles |->
             IF replaced[c][p] <= CacheTicks THEN replaced[c][p] + 1
             ELSE replaced[c][p]]]
    BY <1>3 DEF CacheTick
  <2>2. /\ lookup'.step = "idle" /\ lookup'.found = FALSE /\ lookup'.reason = "none"
        /\ DOMAIN lookup' = {"step", "call", "found", "profile", "reason"}
    BY <2>1 DEF Idle
  <2>3. \A c \in Calls :
          /\ cache'[c].profile = cache[c].profile
          /\ cache'[c].age = IF cache[c].age < CacheTicks THEN cache[c].age + 1
                             ELSE cache[c].age
          /\ cache'[c] \in [profile : Profiles, age : Ages]
    BY <2>1, QRZAssumption DEF QRZType, Ages
  <2>4. \A c \in Calls, p \in Profiles :
          /\ replaced'[c][p] = IF replaced[c][p] <= CacheTicks
                               THEN replaced[c][p] + 1 ELSE replaced[c][p]
          /\ replaced'[c][p] \in Ages
    BY <2>1, QRZAssumption DEF QRZType, Ages
  <2>5. /\ cache' \in [Calls -> [profile : Profiles, age : Ages]]
        /\ replaced' \in [Calls -> [Profiles -> Ages]]
    BY <2>1, <2>3, <2>4
  <2>6. CacheRight'
    BY <2>1, <2>3, <2>4, QRZAssumption DEF CacheRight, QRZType, Ages
  <2> QED
    BY <2>1, <2>2, <2>5, <2>6 DEF QRZType, RequeryGood, LookupRight, ProfileRecent,
                                 ExpiryHidden, Steps
<1> QED
  BY <1>1, <1>2, <1>3

LEMMA QRZStep == QRZInv /\ [QRZNext]_qrzVars => QRZInv'
<1> SUFFICES ASSUME QRZInv, [QRZNext]_qrzVars PROVE QRZInv'
  OBVIOUS
<1>1. ASSUME UNCHANGED qrzVars PROVE QRZInv'
  BY <1>1 DEF qrzVars, QRZInv, QRZType, CacheRight, RequeryGood, LookupRight,
              ProfileRecent, ExpiryHidden
<1> QED
  BY <1>1, LookUpKept, LogInKept, QueryKept, QRZEventsKept DEF QRZNext

(* Each part of the dashboard goes its own way.                            *)
LEMMA PartsStep ==
  [DashNext]_dashVars => [Next]_vars /\ [HubNext]_hubVars /\ [QRZNext]_qrzVars
BY DEF DashNext, HistoryNext, LiveNext, QualityNext, LookupNext, dashVars

(* A profile that is shown was QRZ's at most as long ago as a profile may  *)
(* stay in the cache, however often profiles change; and a session that    *)
(* QRZ ended before the lookup began makes no lookup fail.                 *)
THEOREM LookupsAreRight == DashSpec => []LookupRight
<1>1. DashInit => QRZInv
  BY QRZStarts DEF DashInit
<1>2. QRZInv /\ [DashNext]_dashVars => QRZInv'
  BY QRZStep, PartsStep
<1>3. QRZInv => LookupRight
  BY DEF QRZInv
<1> QED
  BY <1>1, <1>2, <1>3, PTL DEF DashSpec

(***************************************************************************)
(* The list of calls and its file.                                         *)
(***************************************************************************)

Counts(entries) == {0} \cup {entries[i].n : i \in DOMAIN entries}

(* A list has entries of different calls, and a newest one.                *)
Listed(entries) ==
  /\ entries \in Seq(Entry) /\ List(entries)
  /\ \E m \in Counts(entries) : \A n \in Counts(entries) : n <= m

LEMMA ListedLength ==
  ASSUME NEW e \in Seq(Entry)
  PROVE  /\ Len(e) \in Nat /\ DOMAIN e = 1 .. Len(e)
         /\ \A i \in DOMAIN e : e[i] \in Entry /\ e[i].n \in 1 .. MaxRecords
<1>1. Len(e) \in Nat /\ DOMAIN e = 1 .. Len(e) /\ \A i \in 1 .. Len(e) : e[i] \in Entry
  BY LenProperties, ElementOfSeq
<1> QED
  BY <1>1 DEF Entry

LEMMA NewestIs ==
  ASSUME NEW e, Listed(e)
  PROVE  /\ Newest(e) \in Counts(e) /\ Newest(e) \in 0 .. MaxRecords
         /\ \A n \in Counts(e) : n \in Nat /\ n <= Newest(e)
<1>1. \A n \in Counts(e) : n \in 0 .. MaxRecords
  BY ListedLength, LimitAssumption DEF Listed, Counts
<1>2. PICK m \in Counts(e) : \A n \in Counts(e) : n <= m
  BY DEF Listed
<1>3. Newest(e) \in Counts(e) /\ \A n \in Counts(e) : Newest(e) >= n
  BY <1>1, <1>2 DEF Newest, Max, Counts
<1> QED
  BY <1>1, <1>3, LimitAssumption

LEMMA NewestOf ==
  ASSUME NEW e, Listed(e), NEW m \in Counts(e), \A n \in Counts(e) : n <= m
  PROVE  Newest(e) = m
BY NewestIs

LEMMA EmptyListed == Listed(<<>>) /\ Newest(<<>>) = 0
<1>1. Counts(<<>>) = {0}
  BY DEF Counts
<1>2. Listed(<<>>)
  BY <1>1, LimitAssumption DEF Listed, List
<1> QED
  BY <1>1, <1>2, NewestOf

(* A recording keeps the list one, and is the newest in it.                *)
LEMMA RecordedListed ==
  ASSUME NEW e, Listed(e), NEW key \in Keys, Newest(e) < MaxRecords
  PROVE  LET n == Newest(e) + 1
         IN  Listed(Recorded(e, key, n)) /\ Newest(Recorded(e, key, n)) = n
<1> DEFINE n == Newest(e) + 1
           new == Recorded(e, key, n)
           same == {i \in DOMAIN e : e[i].key = key}
           entry == [key |-> key, n |-> n]
           longer == <<entry>> \o e
           size == Min({Limit, Len(longer)})
<1>0. /\ e \in Seq(Entry) /\ Len(e) \in Nat /\ DOMAIN e = 1 .. Len(e)
      /\ Len(e) <= Limit /\ Limit \in Nat \ {0} /\ MaxRecords \in Nat
      /\ \A i, j \in DOMAIN e : e[i].key = e[j].key => i = j
  BY ListedLength, LimitAssumption DEF Listed, List
<1>1. n \in 1 .. MaxRecords /\ \A m \in Counts(e) : m \in Nat /\ m < n
  BY NewestIs, LimitAssumption
<1>2. entry \in Entry
  BY <1>1 DEF Entry
<1> HIDE DEF n
<1>3. CASE same # {}
  <2>1. PICK i \in same : same = {i}
    BY <1>0, <1>3
  <2>2. Min(same) = i
    BY <1>0, <2>1 DEF Min
  <2>3. new = [e EXCEPT ![i].n = n]
    BY <1>3, <2>2 DEF Recorded, n
  <2>4. /\ new \in Seq(Entry) /\ Len(new) = Len(e) /\ DOMAIN new = DOMAIN e
        /\ new[i].n = n /\ new[i].key = e[i].key
        /\ \A j \in DOMAIN e : j # i => new[j] = e[j]
    <3>1. e[i] \in Entry /\ [e[i] EXCEPT !.n = n] \in Entry
      BY <1>0, <1>1, <2>1, ListedLength DEF Entry
    <3>2. new = [e EXCEPT ![i] = [e[i] EXCEPT !.n = n]]
      BY <2>3
    <3>3. new \in Seq(Entry) /\ Len(new) = Len(e) /\ DOMAIN new = DOMAIN e
      BY <1>0, <2>1, <3>1, <3>2, ExceptSeq
    <3> HIDE DEF new
    <3> QED
      BY <1>0, <2>1, <3>1, <3>2, <3>3 DEF Entry
  <2> HIDE DEF new
  <2>5. List(new)
    BY <1>0, <2>4 DEF List
  <2>6. n \in Counts(new) /\ \A m \in Counts(new) : m <= n
    <3>1. \A j \in DOMAIN e : new[j].n = n \/ new[j].n \in Counts(e)
      BY <2>4 DEF Counts
    <3>2. n \in Counts(new)
      BY <2>1, <2>4 DEF Counts
    <3> QED
      BY <1>1, <2>4, <3>1, <3>2 DEF Counts
  <2>7. Listed(new)
    BY <2>4, <2>5, <2>6 DEF Listed
  <2> QED
    BY <2>6, <2>7, NewestOf DEF new, n
<1>4. CASE same = {}
  <2>1. /\ longer \in Seq(Entry) /\ Len(longer) = Len(e) + 1
        /\ longer[1] = entry
        /\ \A i \in 2 .. Len(longer) : longer[i] = e[i - 1]
    BY <1>0, <1>2
  <2>2. size \in 1 .. Limit /\ size <= Len(longer) /\ size \in Nat
    BY <1>0, <2>1 DEF Min
  <2>3. new = SubSeq(longer, 1, size)
    BY <1>4 DEF Recorded, n
  <2> HIDE DEF size, longer
  <2>4. /\ new \in Seq(Entry) /\ Len(new) = size /\ DOMAIN new = 1 .. size
        /\ \A i \in 1 .. size : new[i] = longer[i]
    <3>1. \A i \in 1 .. size : longer[i] \in Entry
      BY <2>1, <2>2
    <3> QED
      BY <2>1, <2>2, <2>3, <3>1, SubSeqProperties
  <2> HIDE DEF new
  <2>5. /\ new[1].n = n /\ new[1].key = key
        /\ \A i \in 2 .. size : i - 1 \in DOMAIN e /\ new[i] = e[i - 1]
    BY <1>0, <2>1, <2>2, <2>4
  <2>6. List(new)
    <3>1. \A i \in 2 .. size : new[i].key # key
      BY <1>4, <2>5
    <3>2. \A i, j \in 1 .. size : new[i].key = new[j].key => i = j
      <4> SUFFICES ASSUME NEW i \in 1 .. size, NEW j \in 1 .. size,
                          new[i].key = new[j].key
                   PROVE  i = j
        OBVIOUS
      <4>0. /\ i # 1 => i \in 2 .. size /\ new[i].key # new[1].key
            /\ j # 1 => j \in 2 .. size /\ new[j].key # new[1].key
        BY <2>2, <2>5, <3>1
      <4>1. CASE i = 1 \/ j = 1
        BY <4>0, <4>1
      <4>2. CASE i # 1 /\ j # 1
        <5>1. /\ i - 1 \in DOMAIN e /\ j - 1 \in DOMAIN e
              /\ e[i - 1].key = e[j - 1].key
          BY <2>5, <4>0, <4>2
        <5>2. i - 1 = j - 1
          BY <1>0, <5>1
        <5> QED
          BY <2>2, <5>2
      <4> QED
        BY <4>1, <4>2
    <3>3. \A i \in 1 .. size : new[i] \in Entry
      BY <2>4
    <3> QED
      BY <2>2, <2>4, <3>2, <3>3 DEF List
  <2>7. n \in Counts(new) /\ \A m \in Counts(new) : m <= n
    <3>1. \A i \in 1 .. size : new[i].n = n \/ new[i].n \in Counts(e)
      <4> TAKE i \in 1 .. size
      <4>1. i = 1 \/ i \in 2 .. size
        BY <2>2
      <4> QED
        BY <2>5, <4>1 DEF Counts
    <3>2. n \in Counts(new)
      BY <2>2, <2>4, <2>5 DEF Counts
    <3> QED
      BY <1>1, <2>4, <3>1, <3>2 DEF Counts
  <2>8. Listed(new)
    BY <2>4, <2>6, <2>7 DEF Listed
  <2> QED
    BY <2>7, <2>8, NewestOf DEF new, n
<1> QED
  BY <1>3, <1>4

LEMMA UpTo ==
  ASSUME NEW n \in Nat
  PROVE  Cardinality(1 .. n) = n
<1>1. Cardinality(1 .. n) = IF 1 > n THEN 0 ELSE (n - 1) + 1
  BY FS_Interval
<1> QED
  BY <1>1

LEMMA MinOfTwo ==
  ASSUME NEW m \in Nat, NEW n \in Nat
  PROVE  Min({m, n}) = IF m <= n THEN m ELSE n
BY DEF Min

(* Nothing is lost when a list is read back.                               *)
LEMMA RestoredIsFile ==
  ASSUME Listed(file)
  PROVE  Restored = file
<1> DEFINE firsts == {i \in DOMAIN file : \A j \in 1 .. i - 1 : file[j].key # file[i].key}
           Nth(k) == CHOOSE i \in firsts : Cardinality({j \in firsts : j <= i}) = k
<1>0. /\ file \in Seq(Entry) /\ Len(file) \in Nat /\ DOMAIN file = 1 .. Len(file)
      /\ Len(file) <= Limit /\ Limit \in Nat
      /\ \A i, j \in DOMAIN file : file[i].key = file[j].key => i = j
  BY ListedLength, LimitAssumption DEF Listed, List
<1>1. firsts = 1 .. Len(file)
  <2>1. \A i \in 1 .. Len(file) : \A j \in 1 .. i - 1 : j \in 1 .. Len(file) /\ j # i
    BY <1>0
  <2> QED
    BY <1>0, <2>1
<1> HIDE DEF firsts
<1>2. Cardinality(firsts) = Len(file)
  BY <1>0, <1>1, UpTo
<1>3. Min({Limit, Cardinality(firsts)}) = Len(file)
  BY <1>0, <1>2, MinOfTwo
<1>4. ASSUME NEW k \in 1 .. Len(file) PROVE Nth(k) = k
  <2>2. ASSUME NEW i \in firsts PROVE Cardinality({j \in firsts : j <= i}) = i
    <3>1. {j \in firsts : j <= i} = 1 .. i /\ i \in Nat
      BY <1>0, <1>1
    <3>2. Cardinality(1 .. i) = i
      BY <3>1, UpTo
    <3> QED
      BY <3>1, <3>2
  <2>3. k \in firsts /\ Cardinality({j \in firsts : j <= k}) = k
    BY <1>1, <2>2
  <2>4. \A i \in firsts : Cardinality({j \in firsts : j <= i}) = k => i = k
    BY <2>2
  <2> QED
    BY <2>3, <2>4
<1>5. Restored = [k \in 1 .. Len(file) |-> file[Nth(k)]]
  BY <1>3 DEF Restored, firsts
<1>6. file = [k \in 1 .. Len(file) |-> file[k]]
  BY <1>0
<1> QED
  BY <1>4, <1>5, <1>6

HistoryType ==
  /\ Listed(history) /\ Listed(file)
  /\ taken \in [Savers -> {e \in Seq(Entry) : Listed(e)}]
  /\ request \in BOOLEAN /\ behind \in BOOLEAN
  /\ pc \in [Savers -> {"idle", "saving", "writing", "returning", "stopped"}]
  /\ pc["worker"] \in {"idle", "saving", "writing"}
  /\ saveMu \in Savers \cup {Nobody}
  /\ failures \in 0 .. MaxFailures
  /\ stopping \in 0 .. MaxRecords

(* The one that writes has the lock, and a list that is not older than the *)
(* file nor newer than what is recorded.                                   *)
WriterLocks ==
  Up => /\ Newest(file) <= Newest(history)
        /\ \A s \in Savers :
             pc[s] = "writing" => /\ saveMu = s
                                  /\ Newest(file) <= Newest(taken[s])
                                  /\ Newest(taken[s]) <= Newest(history)

(* What had been recorded when main began to stop is in its list, then in  *)
(* the file and in whatever list the worker still writes.                  *)
Flushing ==
  /\ Up => stopping <= Newest(history)
  /\ pc["main"] = "writing" => stopping <= Newest(taken["main"])
  /\ pc["main"] = "returning" =>
       /\ ~behind => stopping <= Newest(file)
       /\ pc["worker"] = "writing" => stopping <= Newest(taken["worker"])

HistoryInv == HistoryType /\ WriterLocks /\ Flushing /\ ShutdownFlushes

LEMMA EmptyTaken ==
  [s \in Savers |-> <<>>] \in [Savers -> {e \in Seq(Entry) : Listed(e)}]
<1>1. <<>> \in {e \in Seq(Entry) : Listed(e)}
  BY EmptyListed, EmptySeq
<1> QED
  BY <1>1

LEMMA HistoryInit == Init => HistoryInv
<1> SUFFICES ASSUME Init PROVE HistoryInv
  OBVIOUS
<1>1. /\ Listed(history) /\ Listed(file) /\ history = <<>> /\ file = <<>>
      /\ taken \in [Savers -> {e \in Seq(Entry) : Listed(e)}]
  BY EmptyListed, EmptyTaken DEF Init
<1>2. 0 \in 0 .. MaxFailures /\ 0 \in 0 .. MaxRecords
  BY LimitAssumption
<1>3. /\ pc \in [Savers -> {"idle", "saving", "writing", "returning", "stopped"}]
      /\ pc["worker"] = "idle"
  BY DEF Init, Savers
<1>4. HistoryType
  BY <1>1, <1>2, <1>3 DEF Init, HistoryType
<1> QED
  BY <1>4, EmptyListed DEF Init, HistoryInv, WriterLocks, Flushing, ShutdownFlushes,
                           Savers, Up

LEMMA NewestTypes ==
  ASSUME HistoryType
  PROVE  /\ Newest(history) \in 0 .. MaxRecords /\ Newest(file) \in 0 .. MaxRecords
         /\ \A s \in Savers : Listed(taken[s]) /\ Newest(taken[s]) \in 0 .. MaxRecords
         /\ stopping \in 0 .. MaxRecords
BY NewestIs DEF HistoryType

LEMMA RecordKept == ASSUME HistoryInv, NEW key \in Keys, Record(key) PROVE HistoryInv'
<1> USE DEF HistoryInv
<1>1. /\ Listed(history') /\ Newest(history') = Newest(history) + 1
      /\ request' \in BOOLEAN
      /\ UNCHANGED <<pc, saveMu, taken, file, failures, behind, stopping>>
  BY RecordedListed DEF Record, HistoryType, Requested
<1>2. \A s \in Savers : Newest(taken[s])' = Newest(taken[s])
  BY <1>1
<1>3. Newest(file') = Newest(file)
  BY <1>1
<1> QED
  BY <1>1, <1>2, <1>3, NewestTypes
  DEF HistoryType, WriterLocks, Flushing, ShutdownFlushes, Up

LEMMA WakeKept == ASSUME HistoryInv, Wake \/ Stop PROVE HistoryInv'
<1> USE DEF HistoryInv
<1>1. UNCHANGED <<history, saveMu, taken, file, failures, behind>>
  BY DEF Wake, Stop
<1>2. CASE Wake
  <2>1. /\ pc["worker"] = "idle" /\ pc' = [pc EXCEPT !["worker"] = "saving"]
        /\ request' = FALSE /\ UNCHANGED stopping
    BY <1>2 DEF Wake
  <2>2. /\ pc'["worker"] = "saving" /\ pc'["main"] = pc["main"]
        /\ pc' \in [Savers -> {"idle", "saving", "writing", "returning", "stopped"}]
    BY <2>1 DEF HistoryType, Savers
  <2> QED
    BY <1>1, <2>1, <2>2 DEF HistoryType, WriterLocks, Flushing, ShutdownFlushes, Up,
                            Savers
<1>3. CASE Stop
  <2>1. /\ pc["main"] = "idle" /\ pc' = [pc EXCEPT !["main"] = "saving"]
        /\ stopping' = Newest(history) /\ UNCHANGED request
    BY <1>3 DEF Stop
  <2>2. /\ pc'["main"] = "saving" /\ pc'["worker"] = pc["worker"]
        /\ pc' \in [Savers -> {"idle", "saving", "writing", "returning", "stopped"}]
    BY <2>1 DEF HistoryType, Savers
  <2> QED
    BY <1>1, <2>1, <2>2, NewestTypes
    DEF HistoryType, WriterLocks, Flushing, ShutdownFlushes, Up, Savers
<1> QED
  BY <1>2, <1>3

LEMMA SnapshotKept == ASSUME HistoryInv, NEW s \in Savers, Snapshot(s) PROVE HistoryInv'
<1> USE DEF HistoryInv
<1>1. /\ Up /\ pc[s] = "saving" /\ saveMu = Nobody /\ saveMu' = s
      /\ taken' = [taken EXCEPT ![s] = history]
      /\ pc' = [pc EXCEPT ![s] = "writing"]
      /\ UNCHANGED <<history, request, file, failures, behind, stopping>>
  BY DEF Snapshot
<1>2. /\ pc'[s] = "writing" /\ taken'[s] = history
      /\ \A r \in Savers : r # s => pc'[r] = pc[r] /\ taken'[r] = taken[r]
      /\ \A r \in Savers : pc[r] # "writing"
  BY <1>1 DEF HistoryType, WriterLocks, Savers, Nobody
<1>3. HistoryType'
  BY <1>1 DEF HistoryType, Savers, Listed
<1>4. WriterLocks'
  BY <1>1, <1>2, NewestTypes DEF WriterLocks, Up
<1>5. Flushing' /\ ShutdownFlushes'
  <2>1. CASE s = "main"
    BY <1>1, <1>2, <2>1 DEF Flushing, ShutdownFlushes, Up, Savers
  <2>2. CASE s = "worker"
    BY <1>1, <1>2, <2>2 DEF Flushing, ShutdownFlushes, Up, Savers
  <2> QED
    BY <2>1, <2>2 DEF Savers
<1> QED
  BY <1>3, <1>4, <1>5

LEMMA WriteKept ==
  ASSUME HistoryInv, NEW s \in Savers, Write(s)
  PROVE  HistoryInv' /\ Newest(file') >= Newest(file)
<1> USE DEF HistoryInv
<1> DEFINE next == IF s = "main" THEN "returning" ELSE "idle"
<1>1. /\ Up /\ pc[s] = "writing" /\ saveMu' = Nobody
      /\ pc' = [pc EXCEPT ![s] = next]
      /\ UNCHANGED <<history, request, taken, stopping>>
      /\ \/ file' = taken[s] /\ behind' = FALSE /\ UNCHANGED failures
         \/ /\ failures < MaxFailures /\ failures' = failures + 1
            /\ behind' = TRUE /\ UNCHANGED file
  BY DEF Write
<1>2. /\ pc'[s] = next
      /\ \A r \in Savers : r # s => pc'[r] = pc[r] /\ pc[r] # "writing"
      /\ pc' \in [Savers -> {"idle", "saving", "writing", "returning", "stopped"}]
      /\ pc'["worker"] \in {"idle", "saving", "writing"}
      /\ pc'["main"] # "stopped"
  BY <1>1 DEF HistoryType, WriterLocks, Savers, Up
<1>3. /\ Newest(file) <= Newest(taken[s]) /\ Newest(taken[s]) <= Newest(history)
      /\ Newest(file) <= Newest(history) /\ Listed(taken[s])
  BY <1>1, NewestTypes DEF WriterLocks
<1>4. file' \in {taken[s], file} /\ failures' \in 0 .. MaxFailures /\ behind' \in BOOLEAN
  <2>1. failures \in 0 .. MaxFailures
    BY DEF HistoryType
  <2>2. failures < MaxFailures => failures + 1 \in 0 .. MaxFailures
    BY <2>1, LimitAssumption
  <2> HIDE DEF next
  <2> QED
    BY <1>1, <2>1, <2>2
<1>5. HistoryType'
  <2>1. Listed(file')
    BY <1>3, <1>4 DEF HistoryType
  <2> HIDE DEF next
  <2> QED
    BY <1>1, <1>2, <1>4, <2>1 DEF HistoryType
<1>6. /\ Newest(file') \in {Newest(taken[s]), Newest(file)}
      /\ Newest(file') \in Nat
      /\ Newest(file') >= Newest(file) /\ Newest(file') <= Newest(history)
  BY <1>3, <1>4, NewestTypes
<1>7. WriterLocks'
  BY <1>1, <1>2, <1>6 DEF WriterLocks
<1>8. Flushing' /\ ShutdownFlushes'
  <2>1. CASE s = "main"
    <3>1. ~behind' => file' = taken["main"]
      BY <1>1, <2>1
    <3>2. stopping <= Newest(taken["main"]) /\ stopping <= Newest(history)
      BY <1>1, <2>1 DEF Flushing
    <3>3. pc'["worker"] # "writing"
      BY <1>2, <2>1 DEF Savers
    <3>4. Newest(history') = Newest(history) /\ stopping' = stopping
      BY <1>1
    <3>5. ~behind' => Newest(file') = Newest(taken["main"])
      BY <3>1
    <3> QED
      BY <1>2, <2>1, <3>2, <3>3, <3>4, <3>5 DEF Flushing, ShutdownFlushes, Up
  <2>2. CASE s = "worker"
    <3>1. pc'["main"] = pc["main"] /\ pc["main"] # "writing" /\ pc'["worker"] = "idle"
      BY <1>2, <2>2 DEF Savers
    <3>2. ~behind' => file' = taken["worker"]
      BY <1>1, <2>2
    <3>3. ~behind' => Newest(file') = Newest(taken["worker"])
      BY <3>2
    <3>4. pc["main"] = "returning" => stopping <= Newest(taken["worker"])
      BY <1>1, <2>2 DEF Flushing
    <3>5. Newest(history') = Newest(history) /\ stopping' = stopping
      BY <1>1
    <3>6. stopping <= Newest(history)
      BY <1>1 DEF Flushing
    <3> QED
      BY <1>2, <3>1, <3>3, <3>4, <3>5, <3>6 DEF Flushing, ShutdownFlushes, Up
  <2> QED
    BY <2>1, <2>2 DEF Savers
<1> QED
  BY <1>5, <1>6, <1>7, <1>8

LEMMA EndKept == ASSUME HistoryInv, Exit \/ Kill PROVE HistoryInv'
<1> USE DEF HistoryInv
<1>1. /\ pc' = [pc EXCEPT !["main"] = "stopped"]
      /\ UNCHANGED <<history, request, saveMu, taken, file, failures, behind>>
      /\ \/ pc["main"] = "returning" /\ UNCHANGED stopping
         \/ stopping' = 0
  BY DEF Exit, Kill
<1>2. /\ pc'["main"] = "stopped" /\ pc'["worker"] = pc["worker"]
      /\ pc' \in [Savers -> {"idle", "saving", "writing", "returning", "stopped"}]
  BY <1>1 DEF HistoryType, Savers
<1>3. HistoryType'
  BY <1>1, <1>2, LimitAssumption DEF HistoryType
<1>4. WriterLocks' /\ Flushing'
  BY <1>2 DEF WriterLocks, Flushing, Up
<1>5. ShutdownFlushes'
  BY <1>1, <1>2, NewestTypes DEF ShutdownFlushes, Flushing
<1> QED
  BY <1>3, <1>4, <1>5

LEMMA StartKept == ASSUME HistoryInv, Start PROVE HistoryInv'
<1> USE DEF HistoryInv
<1>1. /\ history' = file /\ request' = FALSE /\ behind' = FALSE
      /\ pc' = [s \in Savers |-> "idle"] /\ saveMu' = Nobody
      /\ taken' = [s \in Savers |-> <<>>] /\ stopping' = 0
      /\ UNCHANGED <<file, failures>>
  BY RestoredIsFile DEF Start, HistoryType
<1>2. /\ pc' \in [Savers -> {"idle", "saving", "writing", "returning", "stopped"}]
      /\ pc'["worker"] = "idle" /\ 0 \in 0 .. MaxRecords
      /\ taken' \in [Savers -> {e \in Seq(Entry) : Listed(e)}]
  BY <1>1, EmptyTaken, LimitAssumption DEF Savers
<1>3. HistoryType'
  BY <1>1, <1>2 DEF HistoryType
<1>4. Newest(history') = Newest(file) /\ Newest(file') = Newest(file)
  BY <1>1
<1> QED
  BY <1>1, <1>3, <1>4, NewestTypes DEF WriterLocks, Flushing, ShutdownFlushes, Savers, Up

LEMMA HistoryStep ==
  HistoryInv /\ [Next]_vars => HistoryInv' /\ Newest(file') >= Newest(file)
<1> SUFFICES ASSUME HistoryInv, [Next]_vars
             PROVE  HistoryInv' /\ Newest(file') >= Newest(file)
  OBVIOUS
<1>1. UNCHANGED file => Newest(file') >= Newest(file)
  BY NewestTypes DEF HistoryInv
<1>2. ASSUME NEW key \in Keys, Record(key) PROVE HistoryInv' /\ UNCHANGED file
  BY <1>2, RecordKept DEF Record
<1>3. ASSUME NEW s \in Savers, Snapshot(s) PROVE HistoryInv' /\ UNCHANGED file
  BY <1>3, SnapshotKept DEF Snapshot
<1>4. ASSUME Wake \/ Stop \/ Exit \/ Kill \/ Start PROVE HistoryInv' /\ UNCHANGED file
  BY <1>4, WakeKept, EndKept, StartKept DEF Wake, Stop, Exit, Kill, Start
<1>5. ASSUME UNCHANGED vars PROVE HistoryInv' /\ UNCHANGED file
  BY <1>5 DEF vars, HistoryInv, HistoryType, WriterLocks, Flushing, ShutdownFlushes, Up
<1> QED
  BY <1>1, <1>2, <1>3, <1>4, <1>5, WriteKept DEF Next

LEMMA HistoryAlways == DashSpec => []HistoryInv
<1>1. DashInit => HistoryInv
  BY HistoryInit DEF DashInit
<1>2. HistoryInv /\ [DashNext]_dashVars => HistoryInv'
  BY HistoryStep, PartsStep
<1> QED
  BY <1>1, <1>2, PTL DEF DashSpec

(* After a stop that was not killed, and whose last write succeeded, the   *)
(* file has every call recorded before the stop, also when the worker      *)
(* was writing or wrote after main.                                        *)
THEOREM StopFlushes == DashSpec => []ShutdownFlushes
BY HistoryAlways, PTL DEF HistoryInv

(* The file never goes back, whoever writes and whenever the process is    *)
(* killed: an older worker cannot overwrite a newer snapshot.              *)
THEOREM FileNeverOlder == DashSpec => NeverOlder
<1>1. HistoryInv /\ [DashNext]_dashVars => [Newest(file') >= Newest(file)]_vars
  BY HistoryStep, PartsStep
<1> QED
  BY <1>1, HistoryAlways, PTL DEF DashSpec, NeverOlder

(***************************************************************************)
(* Connections and tickets.                                                *)
(***************************************************************************)

LEMMA ToldType ==
  ASSUME NEW s, NEW i \in Nat
  PROVE  /\ IsFiniteSet({j \in 1 .. i : s[j] # Reply})
         /\ Told(s, i) \in Nat
<1>1. IsFiniteSet(1 .. i) /\ {j \in 1 .. i : s[j] # Reply} \subseteq 1 .. i
  BY FS_Interval
<1> QED
  BY <1>1, FS_Subset, FS_CardinalityType DEF Told

LEMMA ToldNext ==
  ASSUME NEW s, NEW i \in Nat
  PROVE  Told(s, i + 1) = IF s[i + 1] # Reply THEN Told(s, i) + 1 ELSE Told(s, i)
<1> DEFINE upto(k) == {j \in 1 .. k : s[j] # Reply}
<1>1. IsFiniteSet(upto(i)) /\ i + 1 \notin upto(i)
  <2>1. IsFiniteSet(upto(i))
    BY ToldType
  <2>2. i + 1 \notin 1 .. i
    OBVIOUS
  <2> QED
    BY <2>1, <2>2
<1>2. CASE s[i + 1] # Reply
  <2>1. upto(i + 1) = upto(i) \cup {i + 1}
    BY <1>2
  <2>2. Cardinality(upto(i) \cup {i + 1}) = Cardinality(upto(i)) + 1
    BY <1>1, FS_AddElement
  <2> QED
    BY <1>2, <2>1, <2>2 DEF Told
<1>3. CASE s[i + 1] = Reply
  <2>1. upto(i + 1) = upto(i)
    BY <1>3
  <2> QED
    BY <1>3, <2>1 DEF Told
<1> QED
  BY <1>2, <1>3

LEMMA ToldSame ==
  ASSUME NEW s, NEW t, NEW i \in Nat, \A j \in 1 .. i : s[j] = t[j]
  PROVE  Told(s, i) = Told(t, i)
<1>1. {j \in 1 .. i : s[j] # Reply} = {j \in 1 .. i : t[j] # Reply}
  OBVIOUS
<1> QED
  BY <1>1 DEF Told

LEMMA InOrderBeginning ==
  ASSUME NEW s \in Seq(Nat), NEW t \in Seq(Nat), NEW since, InOrder(s \o t, since)
  PROVE  InOrder(s, since)
<1>1. /\ DOMAIN s = 1 .. Len(s) /\ Len(s) \in Nat /\ Len(t) \in Nat
      /\ DOMAIN (s \o t) = 1 .. Len(s) + Len(t)
      /\ \A i \in 1 .. Len(s) : (s \o t)[i] = s[i]
  BY LenProperties, ConcatProperties
<1>2. ASSUME NEW i \in DOMAIN s, s[i] # Reply
      PROVE  Told(s, i) <= Len(since) /\ s[i] = since[Told(s, i)]
  <2>1. Told(s \o t, i) = Told(s, i)
    <3>1. i \in Nat /\ \A j \in 1 .. i : (s \o t)[j] = s[j]
      BY <1>1
    <3> QED
      BY <3>1, ToldSame
  <2>2. i \in DOMAIN (s \o t) /\ (s \o t)[i] = s[i]
    BY <1>1
  <2> QED
    BY <1>2, <2>1, <2>2 DEF InOrder
<1> QED
  BY <1>2 DEF InOrder

LEMMA InOrderLonger ==
  ASSUME NEW s \in Seq(Nat), NEW since \in Seq(Nat), NEW m \in Nat, InOrder(s, since)
  PROVE  InOrder(s, Append(since, m))
<1>1. /\ Len(since) \in Nat /\ Len(Append(since, m)) = Len(since) + 1
      /\ \A k \in 1 .. Len(since) : Append(since, m)[k] = since[k]
  BY LenProperties, AppendProperties
<1>2. ASSUME NEW i \in DOMAIN s, s[i] # Reply
      PROVE  Told(s, i) \in 1 .. Len(since)
  <2>1. i \in Nat \ {0}
    BY LenProperties
  <2>2. Told(s, i) \in Nat /\ Told(s, i - 1) \in Nat
    <3>1. i \in Nat /\ i - 1 \in Nat
      BY <2>1
    <3> QED
      BY <3>1, ToldType
  <2>3. Told(s, i) = Told(s, i - 1) + 1
    <3>1. i - 1 \in Nat /\ (i - 1) + 1 = i
      BY <2>1
    <3> DEFINE k == i - 1
    <3>2. k \in Nat /\ k + 1 = i
      BY <3>1
    <3> HIDE DEF k
    <3>3. Told(s, k + 1) = IF s[k + 1] # Reply THEN Told(s, k) + 1 ELSE Told(s, k)
      BY <3>2, ToldNext
    <3>4. Told(s, i) = Told(s, k) + 1
      BY <1>2, <3>2, <3>3
    <3> QED
      BY <3>4 DEF k
  <2>4. Told(s, i) <= Len(since)
    BY <1>2 DEF InOrder
  <2> QED
    BY <1>1, <2>1, <2>2, <2>3, <2>4
<1> QED
  BY <1>1, <1>2 DEF InOrder

(* A message behind all the others, and the log one longer or not.         *)
LEMMA InOrderAppend ==
  ASSUME NEW s \in Seq(Nat), NEW since \in Seq(Nat), NEW m \in Nat,
         InOrder(s, since), Told(s, Len(s)) = Len(since)
  PROVE  LET t == Append(s, m)
             longer == IF m = Reply THEN since ELSE Append(since, m)
         IN  InOrder(t, longer) /\ Told(t, Len(t)) = Len(longer)
<1> DEFINE t == Append(s, m)
           longer == IF m = Reply THEN since ELSE Append(since, m)
<1>1. /\ Len(s) \in Nat /\ Len(t) = Len(s) + 1 /\ t[Len(s) + 1] = m
      /\ DOMAIN s = 1 .. Len(s) /\ DOMAIN t = 1 .. Len(s) + 1
      /\ \A i \in 1 .. Len(s) : t[i] = s[i]
  BY LenProperties, AppendProperties
<1>2. Len(since) \in Nat /\ Len(longer) = IF m = Reply THEN Len(since) ELSE Len(since) + 1
  BY LenProperties, AppendProperties
<1>3. m # Reply => longer[Len(since) + 1] = m
  BY AppendProperties
<1>4. InOrder(s, longer)
  BY InOrderLonger
<1> HIDE DEF t, longer
<1>5. ASSUME NEW i \in 0 .. Len(s) PROVE Told(t, i) = Told(s, i)
  <2>1. i \in Nat /\ \A j \in 1 .. i : t[j] = s[j]
    BY <1>1
  <2> QED
    BY <2>1, ToldSame
<1>6. Told(t, Len(s) + 1) = Len(longer)
  <2>1. Told(t, Len(s) + 1) = IF m # Reply THEN Told(t, Len(s)) + 1 ELSE Told(t, Len(s))
    BY <1>1, ToldNext
  <2>2. Told(t, Len(s)) = Len(since)
    BY <1>1, <1>5
  <2> QED
    BY <1>2, <2>1, <2>2
<1>7. ASSUME NEW i \in DOMAIN t, t[i] # Reply
      PROVE  Told(t, i) <= Len(longer) /\ t[i] = longer[Told(t, i)]
  <2>1. CASE i \in 1 .. Len(s)
    <3>1. t[i] = s[i] /\ Told(t, i) = Told(s, i) /\ i \in DOMAIN s
      BY <1>1, <1>5, <2>1
    <3> QED
      BY <1>4, <1>7, <3>1 DEF InOrder
  <2>2. CASE i = Len(s) + 1
    BY <1>1, <1>2, <1>3, <1>6, <1>7, <2>2
  <2> QED
    BY <1>1, <2>1, <2>2
<1> QED
  BY <1>1, <1>6, <1>7 DEF InOrder, t, longer

LEMMA SinceGrows ==
  ASSUME NEW messages \in Seq(Nat), NEW m \in Nat, NEW k \in 0 .. Len(messages)
  PROVE  LET longer == Append(messages, m)
             since == SubSeq(messages, k + 1, Len(messages))
         IN  /\ since \in Seq(Nat)
             /\ SubSeq(longer, k + 1, Len(longer)) = Append(since, m)
<1> DEFINE longer == Append(messages, m)
           since == SubSeq(messages, k + 1, Len(messages))
           after == SubSeq(longer, k + 1, Len(longer))
<1>1. /\ Len(messages) \in Nat /\ Len(longer) = Len(messages) + 1
      /\ longer \in Seq(Nat) /\ longer[Len(messages) + 1] = m
      /\ \A i \in 1 .. Len(messages) : longer[i] = messages[i]
  BY LenProperties, AppendProperties
<1>2. since \in Seq(Nat) /\ after \in Seq(Nat)
  BY <1>1, SubSeqProperties
<1>3. /\ Len(since) = Len(messages) - k
      /\ \A i \in 1 .. Len(messages) - k : since[i] = messages[k + i]
  OBVIOUS
<1>4. /\ Len(after) = (Len(messages) - k) + 1
      /\ \A i \in 1 .. (Len(messages) - k) + 1 : after[i] = longer[k + i]
  BY <1>1
<1> HIDE DEF since, after, longer
<1>5. /\ Append(since, m) \in Seq(Nat) /\ Len(Append(since, m)) = Len(since) + 1
      /\ Append(since, m)[Len(since) + 1] = m
      /\ \A i \in 1 .. Len(since) : Append(since, m)[i] = since[i]
  BY <1>2, AppendProperties
<1>6. ASSUME NEW i \in 1 .. Len(after) PROVE after[i] = Append(since, m)[i]
  <2>1. CASE i \in 1 .. Len(since)
    <3>1. i \in 1 .. Len(messages) - k /\ i \in 1 .. (Len(messages) - k) + 1
      BY <1>1, <1>3, <2>1
    <3>2. k + i \in 1 .. Len(messages)
      BY <1>1, <3>1
    <3> QED
      BY <1>1, <1>3, <1>4, <1>5, <2>1, <3>1, <3>2
  <2>2. CASE i = Len(since) + 1
    <3>1. i \in 1 .. (Len(messages) - k) + 1 /\ k + i = Len(messages) + 1
      BY <1>1, <1>3, <2>2
    <3> QED
      BY <1>1, <1>4, <1>5, <2>2, <3>1
  <2>3. i \in 1 .. Len(since) \/ i = Len(since) + 1
    BY <1>1, <1>3, <1>4
  <2> QED
    BY <2>1, <2>2, <2>3
<1>7. Len(after) = Len(Append(since, m))
  BY <1>1, <1>3, <1>4, <1>5
<1> QED
  BY <1>2, <1>5, <1>6, <1>7, SeqEqual DEF since, after, longer

Client == [stage : {"none", "upgrading", "open", "gone"},
           ticket : Tokens \cup {Nothing}, done : BOOLEAN,
           queue : Seq(Nat), writing : Seq(Nat), writer : BOOLEAN,
           wire : Seq(Nat), got : Seq(Nat),
           start : Nat, browser : {"reading", "stuck", "closed"}]

Heard(client) == client.got \o client.wire
Due(client) == Heard(client) \o (client.writing \o client.queue)
Since(client, messages) == SubSeq(messages, client.start + 1, Len(messages))

(* What is true of a client when messages have been broadcast.             *)
Served(client, messages) ==
  LET since == Since(client, messages)
      due == Due(client)
  IN  /\ client \in Client /\ client.start \in 0 .. Len(messages)
      /\ client.stage # "open" =>
           /\ client.queue = <<>> /\ client.writing = <<>>
           /\ client.wire = <<>> /\ client.got = <<>>
      /\ InOrder(Heard(client), since)
      /\ client.stage = "open" /\ ~client.done =>
           InOrder(due, since) /\ Told(due, Len(due)) = Len(since)

LEMMA ClientSequences ==
  ASSUME NEW client \in Client
  PROVE  /\ Heard(client) \in Seq(Nat) /\ Due(client) \in Seq(Nat)
         /\ (client.writing \o client.queue) \in Seq(Nat)
         /\ Due(client) = Heard(client) \o (client.writing \o client.queue)
<1>1. /\ client.queue \in Seq(Nat) /\ client.writing \in Seq(Nat)
      /\ client.wire \in Seq(Nat) /\ client.got \in Seq(Nat)
  BY DEF Client
<1> QED
  BY <1>1, ConcatProperties DEF Heard, Due

LEMMA NothingInOrder == ASSUME NEW since PROVE InOrder(<<>>, since)
BY DEF InOrder

LEMMA NobodyHeard ==
  ASSUME NEW client, client.got = <<>>, client.wire = <<>>
  PROVE  Heard(client) = <<>>
BY ConcatEmptySeq DEF Heard

LEMMA FreshClient ==
  ASSUME NEW client \in Client, client.stage # "open", client.queue = <<>>,
         client.writing = <<>>, client.wire = <<>>, client.got = <<>>,
         NEW messages \in Seq(Nat), client.start \in 0 .. Len(messages)
  PROVE  Served(client, messages)
BY NobodyHeard, NothingInOrder DEF Served

(* A client keeps what it is due when messages go on their way, and loses  *)
(* what has not been sent when it is shut down.                            *)
LEMMA SameDue ==
  ASSUME NEW messages \in Seq(Nat), NEW client, Served(client, messages),
         client.stage = "open", NEW new \in Client, new.stage = "open",
         new.start = client.start,
         new.done => Heard(new) = Heard(client),
         ~new.done => ~client.done /\ Due(new) = Due(client)
  PROVE  Served(new, messages)
<1> DEFINE since == Since(client, messages)
<1>1. Since(new, messages) = since
  BY DEF Since
<1>2. InOrder(Heard(new), since)
  <2>1. CASE new.done
    BY <2>1 DEF Served
  <2>2. CASE ~new.done
    <3>1. InOrder(Due(new), since)
      BY <2>2 DEF Served
    <3> QED
      BY <3>1, ClientSequences, InOrderBeginning
  <2> QED
    BY <2>1, <2>2
<1> QED
  BY <1>1, <1>2 DEF Served

LEMMA Shutting ==
  ASSUME NEW messages \in Seq(Nat), NEW client, Served(client, messages),
         client.stage = "open"
  PROVE  Served(Shut(client), messages)
<1>1. client \in Client
  BY DEF Served
<1>2. /\ Shut(client) \in Client /\ Shut(client).stage = client.stage
      /\ Shut(client).start = client.start /\ Shut(client).done
      /\ Shut(client).got = client.got /\ Shut(client).wire = client.wire
  BY <1>1, EmptySeq DEF Shut, Client
<1> QED
  BY <1>2, SameDue DEF Heard

(* A message for a client that runs, a reply or one for everybody.         *)
LEMMA Enqueuing ==
  ASSUME NEW messages \in Seq(Nat), NEW client, Served(client, messages),
         client.stage = "open", ~client.done, NEW m \in Nat
  PROVE  Served(Enqueued(client, m),
                IF m = Reply THEN messages ELSE Append(messages, m))
<1> DEFINE longer == IF m = Reply THEN messages ELSE Append(messages, m)
           since == Since(client, messages)
           due == Due(client)
           new == Enqueued(client, m)
<1>1. client \in Client /\ client.start \in 0 .. Len(messages)
      /\ InOrder(due, since) /\ Told(due, Len(due)) = Len(since)
      /\ InOrder(Heard(client), since)
  BY DEF Served
<1>2. /\ since \in Seq(Nat)
      /\ Since(client, longer) = IF m = Reply THEN since ELSE Append(since, m)
  BY <1>1, SinceGrows DEF Since
<1>3. /\ longer \in Seq(Nat) /\ client.start \in 0 .. Len(longer)
  BY <1>1, AppendProperties, LenProperties
<1>4. InOrder(Heard(client), Since(client, longer))
  BY <1>1, <1>2, ClientSequences, InOrderLonger
<1>5. CASE Len(client.queue) < QueueSize
  <2>1. new = [client EXCEPT !.queue = Append(client.queue, m)]
    BY <1>5 DEF Enqueued
  <2>2. Append(client.queue, m) \in Seq(Nat)
    BY <1>1, AppendProperties DEF Client
  <2>3. /\ new \in Client /\ new.stage = client.stage /\ new.done = client.done
        /\ new.start = client.start /\ new.got = client.got /\ new.wire = client.wire
        /\ new.writing = client.writing /\ new.queue = Append(client.queue, m)
    BY <1>1, <2>1, <2>2 DEF Client
  <2> HIDE DEF new
  <2>4. Due(new) = Append(due, m)
    <3>1. /\ client.queue \in Seq(Nat) /\ client.writing \in Seq(Nat)
          /\ Heard(client) \in Seq(Nat) /\ Heard(new) = Heard(client)
      BY <1>1, <2>3, ClientSequences DEF Client, Heard
    <3>2. \A s, t \in Seq(Nat) : s \o Append(t, m) = Append(s \o t, m)
      <4> TAKE s \in Seq(Nat), t \in Seq(Nat)
      <4>1. Append(t, m) = t \o <<m>> /\ Append(s \o t, m) = (s \o t) \o <<m>>
        BY AppendIsConcat, ConcatProperties
      <4>2. <<m>> \in Seq(Nat)
        OBVIOUS
      <4> QED
        BY <4>1, <4>2, ConcatAssociative
    <3>3. (client.writing \o client.queue) \in Seq(Nat)
      BY <1>1, ClientSequences
    <3>4. Due(new) = Heard(client) \o (client.writing \o Append(client.queue, m))
      BY <2>3, <3>1 DEF Due
    <3>5. client.writing \o Append(client.queue, m)
            = Append(client.writing \o client.queue, m)
      BY <3>1, <3>2
    <3>6. Heard(client) \o Append(client.writing \o client.queue, m)
            = Append(Heard(client) \o (client.writing \o client.queue), m)
      BY <3>1, <3>2, <3>3
    <3> QED
      BY <3>4, <3>5, <3>6 DEF Due
  <2>5. /\ InOrder(Due(new), Since(client, longer))
        /\ Told(Due(new), Len(Due(new))) = Len(Since(client, longer))
    <3>1. due \in Seq(Nat)
      BY <1>1, ClientSequences
    <3> HIDE DEF due, since, longer
    <3>2. LET now == IF m = Reply THEN since ELSE Append(since, m)
          IN  /\ InOrder(Append(due, m), now)
              /\ Told(Append(due, m), Len(Append(due, m))) = Len(now)
      BY <1>1, <1>2, <3>1, InOrderAppend
    <3> QED
      BY <1>2, <2>4, <3>2
  <2>6. Since(new, longer) = Since(client, longer) /\ Heard(new) = Heard(client)
    BY <2>3 DEF Since, Heard
  <2> HIDE DEF longer
  <2>7. Served(new, longer)
    BY <1>3, <1>4, <2>3, <2>5, <2>6 DEF Served
  <2> QED
    BY <2>7 DEF new, longer
<1>6. CASE ~(Len(client.queue) < QueueSize)
  <2>1. new = Shut(client)
    BY <1>6 DEF Enqueued
  <2>2. /\ Shut(client) \in Client /\ Shut(client).stage = client.stage
        /\ Shut(client).start = client.start /\ Shut(client).done
        /\ Shut(client).got = client.got /\ Shut(client).wire = client.wire
    BY <1>1, EmptySeq DEF Shut, Client
  <2> HIDE DEF new
  <2>3. Since(new, longer) = Since(client, longer) /\ Heard(new) = Heard(client)
    BY <2>1, <2>2 DEF Since, Heard
  <2> HIDE DEF longer
  <2>4. Served(new, longer)
    BY <1>3, <1>4, <2>1, <2>2, <2>3 DEF Served
  <2> QED
    BY <2>4 DEF new, longer
<1> QED
  BY <1>5, <1>6

(* A message that this client is not sent.                                 *)
LEMMA NotTold ==
  ASSUME NEW messages \in Seq(Nat), NEW client, Served(client, messages),
         client.stage # "open" \/ client.done, NEW m \in Nat \ {0}
  PROVE  Served(client, Append(messages, m))
<1>1. /\ client \in Client /\ client.start \in 0 .. Len(messages)
      /\ InOrder(Heard(client), Since(client, messages))
  BY DEF Served
<1>2. /\ Since(client, messages) \in Seq(Nat)
      /\ Since(client, Append(messages, m)) = Append(Since(client, messages), m)
  BY <1>1, SinceGrows DEF Since
<1>3. InOrder(Heard(client), Since(client, Append(messages, m)))
  BY <1>1, <1>2, ClientSequences, InOrderLonger
<1>4. client.start \in 0 .. Len(Append(messages, m))
  BY <1>1, AppendProperties, LenProperties
<1> QED
  BY <1>1, <1>3, <1>4 DEF Served

StreamInv ==
  /\ clients \in [Sockets -> Client] /\ log \in Seq(Nat)
  /\ IsFiniteSet(prepared) /\ prepared \subseteq Nat \ {0}
  /\ \A c \in Sockets : Served(clients[c], log)

(* A ticket that a client shows has been given out and is gone.            *)
TicketInv ==
  /\ IsFiniteSet(DOMAIN tickets) /\ DOMAIN tickets \subseteq issued
  /\ \A c \in Sockets :
       clients[c].ticket # Nothing => clients[c].ticket \in issued \ DOMAIN tickets
  /\ TicketsSpent

HubInv == StreamInv /\ TicketInv

LEMMA FreshIsClient ==
  /\ Fresh \in Client /\ Fresh.stage = "none" /\ Fresh.ticket = Nothing
  /\ Fresh.queue = <<>> /\ Fresh.writing = <<>> /\ Fresh.wire = <<>>
  /\ Fresh.got = <<>> /\ Fresh.start = 0
BY EmptySeq DEF Fresh, Client

LEMMA HubStarts == HubInit => HubInv
<1> SUFFICES ASSUME HubInit PROVE HubInv
  OBVIOUS
<1>1. log \in Seq(Nat) /\ 0 \in 0 .. Len(log)
  BY EmptySeq DEF HubInit
<1>2. Served(Fresh, log)
  BY <1>1, FreshIsClient, FreshClient
<1>3. StreamInv
  BY <1>1, <1>2, FreshIsClient, FS_EmptySet DEF HubInit, StreamInv
<1>4. Cardinality({}) = 0 /\ IsFiniteSet({}) /\ 0 <= Pending
  BY FS_EmptySet, HubAssumption
<1>5. DOMAIN tickets = {}
  BY DEF HubInit
<1>6. TicketInv
  BY <1>4, <1>5, FreshIsClient DEF HubInit, TicketInv, TicketsSpent
<1> QED
  BY <1>3, <1>6 DEF HubInv

LEMMA Changing ==
  ASSUME StreamInv, NEW c \in Sockets, NEW new, Change(c, new), Served(new, log),
         UNCHANGED <<prepared, log>>
  PROVE  /\ StreamInv' /\ clients'[c] = new
         /\ \A d \in Sockets \ {c} : clients'[d] = clients[d]
<1>1. /\ clients' = [clients EXCEPT ![c] = new] /\ new \in Client
      /\ clients \in [Sockets -> Client]
  BY DEF Change, Served, StreamInv
<1>2. /\ clients'[c] = new /\ clients' \in [Sockets -> Client]
      /\ \A d \in Sockets \ {c} : clients'[d] = clients[d]
  BY <1>1
<1>3. \A d \in Sockets : Served(clients'[d], log)
  BY <1>2 DEF StreamInv
<1> QED
  BY <1>2, <1>3 DEF StreamInv, Served, Since

LEMMA TicketsSame ==
  ASSUME TicketInv, UNCHANGED <<tickets, issued>>,
         \A c \in Sockets : clients'[c].ticket = clients[c].ticket
  PROVE  TicketInv'
BY DEF TicketInv, TicketsSpent

(* A step of one open client that changes neither its ticket nor what it   *)
(* is due.                                                                 *)
LEMMA ClientStep ==
  ASSUME HubInv, NEW c \in Sockets, NEW new, Change(c, new), Served(new, log),
         new.ticket = clients[c].ticket, UNCHANGED <<prepared, log, tickets, issued>>
  PROVE  HubInv'
<1>1. /\ StreamInv' /\ clients'[c] = new
      /\ \A d \in Sockets \ {c} : clients'[d] = clients[d]
  BY Changing DEF HubInv
<1>2. \A d \in Sockets : clients'[d].ticket = clients[d].ticket
  BY <1>1
<1> QED
  BY <1>1, <1>2, TicketsSame DEF HubInv

LEMMA HeadAndTail ==
  ASSUME NEW s \in Seq(Nat), s # <<>>
  PROVE  /\ Head(s) \in Nat /\ Tail(s) \in Seq(Nat)
         /\ <<Head(s)>> \o Tail(s) = s
OBVIOUS

LEMMA Regroup ==
  ASSUME NEW s \in Seq(Nat), NEW t \in Seq(Nat), NEW u \in Seq(Nat)
  PROVE  s \o (t \o u) = (s \o t) \o u
BY SMTT(30)

LEMMA TookKept ==
  ASSUME HubInv, NEW c \in Sockets, Took(c),
         UNCHANGED <<tickets, issued, prepared, log, recent, replies>>
  PROVE  HubInv'
<1> DEFINE client == clients[c]
           new == [client EXCEPT !.writing = <<Head(client.queue)>>, !.queue = Tail(@)]
<1>1. /\ client \in Client /\ Served(client, log) /\ log \in Seq(Nat)
      /\ client.stage = "open" /\ ~client.done
      /\ client.writing = <<>> /\ client.queue # <<>> /\ Change(c, new)
  BY DEF Took, Running, Registered, HubInv, StreamInv
<1>2. /\ client.queue \in Seq(Nat) /\ Heard(client) \in Seq(Nat)
  BY <1>1, ClientSequences DEF Client
<1>3. /\ Head(client.queue) \in Nat /\ Tail(client.queue) \in Seq(Nat)
      /\ <<Head(client.queue)>> \o Tail(client.queue) = client.queue
      /\ <<Head(client.queue)>> \in Seq(Nat)
  BY <1>1, <1>2, HeadAndTail
<1> HIDE DEF client
<1>4. /\ new \in Client /\ new.stage = "open" /\ new.done = client.done
      /\ new.start = client.start /\ new.ticket = client.ticket
      /\ new.got = client.got /\ new.wire = client.wire
      /\ new.writing = <<Head(client.queue)>> /\ new.queue = Tail(client.queue)
  BY <1>1, <1>3 DEF Client
<1> HIDE DEF new
<1>5. new.writing \o new.queue = client.writing \o client.queue
  BY <1>1, <1>2, <1>3, <1>4, ConcatEmptySeq
<1>6. Due(new) = Due(client) /\ Heard(new) = Heard(client)
  BY <1>4, <1>5 DEF Due, Heard
<1>7. Served(new, log)
  BY <1>1, <1>4, <1>6, SameDue
<1> QED
  BY <1>1, <1>4, <1>7, ClientStep DEF client

LEMMA WroteKept ==
  ASSUME HubInv, NEW c \in Sockets, Wrote(c),
         UNCHANGED <<tickets, issued, prepared, log, recent, replies>>
  PROVE  HubInv'
<1> DEFINE client == clients[c]
           new == [client EXCEPT !.wire = @ \o client.writing, !.writing = <<>>]
<1>1. /\ client \in Client /\ Served(client, log) /\ log \in Seq(Nat)
      /\ client.stage = "open" /\ ~client.done /\ Change(c, new)
  BY DEF Wrote, Running, Registered, HubInv, StreamInv
<1>2. /\ client.queue \in Seq(Nat) /\ client.writing \in Seq(Nat)
      /\ client.wire \in Seq(Nat) /\ client.got \in Seq(Nat)
      /\ (client.wire \o client.writing) \in Seq(Nat) /\ <<>> \in Seq(Nat)
  BY <1>1, ConcatProperties, EmptySeq DEF Client
<1> HIDE DEF client
<1>3. /\ new \in Client /\ new.stage = "open" /\ new.done = client.done
      /\ new.start = client.start /\ new.ticket = client.ticket
      /\ new.got = client.got /\ new.wire = client.wire \o client.writing
      /\ new.writing = <<>> /\ new.queue = client.queue
  BY <1>1, <1>2 DEF Client
<1> HIDE DEF new
<1>4. Due(new) = Due(client)
  <2>1. Heard(new) = Heard(client) \o client.writing
    <3>1. client.got \o (client.wire \o client.writing)
            = (client.got \o client.wire) \o client.writing
      BY <1>2, Regroup, ZenonT(30)
    <3> QED
      BY <1>3, <3>1 DEF Heard
  <2>2. new.writing \o new.queue = client.queue
    BY <1>2, <1>3, ConcatEmptySeq
  <2>3. Heard(client) \in Seq(Nat)
    BY <1>1, ClientSequences
  <2> QED
    <3>1. Heard(client) \o (client.writing \o client.queue)
            = (Heard(client) \o client.writing) \o client.queue
      BY <1>2, <2>3, Regroup
    <3> QED
      BY <2>1, <2>2, <3>1 DEF Due
<1>5. Served(new, log)
  BY <1>1, <1>3, <1>4, SameDue
<1> QED
  BY <1>1, <1>3, <1>5, ClientStep DEF client

LEMMA WriterKept == ASSUME HubInv, NEW c \in Sockets, Writer(c) PROVE HubInv'
<1>1. UNCHANGED <<tickets, issued, prepared, log, recent, replies>>
  BY DEF Writer
<1>2. CASE FailedWrite(c)
  <2>1. /\ clients[c] \in Client /\ Served(clients[c], log) /\ log \in Seq(Nat)
        /\ clients[c].stage = "open" /\ Change(c, Shut(clients[c]))
    BY <1>2 DEF FailedWrite, Running, Registered, HubInv, StreamInv
  <2>2. Shut(clients[c]).ticket = clients[c].ticket
    BY <2>1 DEF Shut, Client
  <2> QED
    BY <1>1, <2>1, <2>2, Shutting, ClientStep
<1> QED
  BY <1>1, <1>2, TookKept, WroteKept DEF Writer

LEMMA ReadsKept == ASSUME HubInv, NEW c \in Sockets, Reads(c) PROVE HubInv'
<1> DEFINE client == clients[c]
           new == [client EXCEPT !.got = Append(@, Head(client.wire)), !.wire = Tail(@)]
<1>1. /\ client \in Client /\ Served(client, log) /\ log \in Seq(Nat)
      /\ client.wire # <<>> /\ Change(c, new)
      /\ UNCHANGED <<tickets, issued, prepared, log, recent, replies>>
  BY DEF Reads, HubInv, StreamInv
<1>2. client.stage = "open"
  BY <1>1 DEF Served
<1>3. /\ client.wire \in Seq(Nat) /\ client.got \in Seq(Nat)
  BY <1>1 DEF Client
<1>4. /\ Head(client.wire) \in Nat /\ Tail(client.wire) \in Seq(Nat)
      /\ <<Head(client.wire)>> \o Tail(client.wire) = client.wire
  BY <1>1, <1>3, HeadAndTail
<1>5. /\ Append(client.got, Head(client.wire)) \in Seq(Nat)
      /\ Append(client.got, Head(client.wire)) = client.got \o <<Head(client.wire)>>
  BY <1>3, <1>4, AppendProperties, AppendIsConcat, ZenonT(30)
<1> HIDE DEF client
<1>6. /\ new \in Client /\ new.stage = "open" /\ new.done = client.done
      /\ new.start = client.start /\ new.ticket = client.ticket
      /\ new.got = client.got \o <<Head(client.wire)>> /\ new.wire = Tail(client.wire)
      /\ new.writing = client.writing /\ new.queue = client.queue
  BY <1>1, <1>2, <1>4, <1>5 DEF Client
<1> HIDE DEF new
<1>7. Heard(new) = Heard(client)
  <2>1. <<Head(client.wire)>> \in Seq(Nat)
    BY <1>4
  <2> QED
    <3>1. client.got \o (<<Head(client.wire)>> \o Tail(client.wire))
            = (client.got \o <<Head(client.wire)>>) \o Tail(client.wire)
      BY <1>3, <1>4, <2>1, Regroup
    <3> QED
      BY <1>4, <1>6, <3>1 DEF Heard
<1>8. Due(new) = Due(client)
  BY <1>6, <1>7 DEF Due
<1>9. Served(new, log)
  BY <1>1, <1>2, <1>6, <1>7, <1>8, SameDue
<1> QED
  BY <1>1, <1>6, <1>9, ClientStep DEF client

LEMMA FailsKept == ASSUME HubInv, NEW c \in Sockets, Fails(c) PROVE HubInv'
<1>1. PICK how \in {"stuck", "closed"} :
        Change(c, [clients[c] EXCEPT !.browser = how])
  BY DEF Fails
<1> DEFINE client == clients[c]
           new == [client EXCEPT !.browser = how]
<1>2. /\ client \in Client /\ Served(client, log) /\ log \in Seq(Nat)
      /\ client.stage = "open" /\ Change(c, new)
      /\ UNCHANGED <<tickets, issued, prepared, log, recent, replies>>
  BY <1>1 DEF Fails, Registered, HubInv, StreamInv
<1> HIDE DEF client
<1>3. /\ new \in Client /\ new.stage = "open" /\ new.done = client.done
      /\ new.start = client.start /\ new.ticket = client.ticket
      /\ new.got = client.got /\ new.wire = client.wire
      /\ new.writing = client.writing /\ new.queue = client.queue
  BY <1>2 DEF Client
<1> HIDE DEF new
<1>4. Heard(new) = Heard(client) /\ Due(new) = Due(client)
  BY <1>3 DEF Heard, Due
<1>5. Served(new, log)
  BY <1>2, <1>3, <1>4, SameDue
<1> QED
  BY <1>2, <1>3, <1>5, ClientStep DEF client

LEMMA CommandKept == ASSUME HubInv, NEW c \in Sockets, Command(c) PROVE HubInv'
<1> DEFINE client == clients[c]
<1>1. /\ client \in Client /\ Served(client, log) /\ log \in Seq(Nat)
      /\ client.stage = "open" /\ ~client.done
      /\ Change(c, Enqueued(client, Reply))
      /\ UNCHANGED <<tickets, issued, prepared, log>>
  BY DEF Command, Running, Registered, HubInv, StreamInv
<1>2. Served(Enqueued(client, Reply), log)
  BY <1>1, Enqueuing DEF Reply
<1>3. Enqueued(client, Reply).ticket = client.ticket
  BY <1>1 DEF Enqueued, Shut, Client
<1> QED
  BY <1>1, <1>2, <1>3, ClientStep

LEMMA ReaderEndsKept == ASSUME HubInv, NEW c \in Sockets, ReaderEnds(c) PROVE HubInv'
<1> DEFINE new == [Fresh EXCEPT !.stage = "gone", !.ticket = clients[c].ticket]
<1>1. /\ clients[c] \in Client /\ log \in Seq(Nat) /\ Change(c, new)
      /\ UNCHANGED <<tickets, issued, prepared, log>>
  BY DEF ReaderEnds, HubInv, StreamInv
<1>2. clients[c].ticket \in Tokens \cup {Nothing} /\ 0 \in 0 .. Len(log)
  BY <1>1, LenProperties DEF Client
<1>3. /\ new \in Client /\ new.stage = "gone" /\ new.ticket = clients[c].ticket
      /\ new.queue = <<>> /\ new.writing = <<>> /\ new.wire = <<>>
      /\ new.got = <<>> /\ new.start = 0
  BY <1>2, EmptySeq DEF Fresh, Client
<1> HIDE DEF new
<1>4. Served(new, log)
  BY <1>1, <1>2, <1>3, FreshClient
<1> QED
  BY <1>1, <1>3, <1>4, ClientStep

LEMMA UpgradeKept == ASSUME HubInv, NEW c \in Sockets, Upgrade(c) PROVE HubInv'
<1> DEFINE client == clients[c]
<1>1. PICK ok \in BOOLEAN :
        Change(c, [client EXCEPT !.stage = IF ok THEN "open" ELSE "gone",
                                 !.start = IF ok THEN Len(log) ELSE 0])
  BY DEF Upgrade
<1> DEFINE stage == IF ok THEN "open" ELSE "gone"
           start == IF ok THEN Len(log) ELSE 0
           new == [client EXCEPT !.stage = stage, !.start = start]
<1>2. /\ client \in Client /\ Served(client, log) /\ log \in Seq(Nat)
      /\ client.stage = "upgrading" /\ Change(c, new)
      /\ UNCHANGED <<tickets, issued, prepared, log>>
  BY <1>1 DEF Upgrade, HubInv, StreamInv
<1>3. /\ stage \in {"open", "gone"} /\ start \in 0 .. Len(log) /\ start \in Nat
      /\ stage = "open" => start = Len(log)
  BY <1>2, LenProperties
<1>4. /\ client.queue = <<>> /\ client.writing = <<>> /\ client.wire = <<>>
      /\ client.got = <<>>
  BY <1>2 DEF Served
<1> HIDE DEF client, stage, start
<1>5. /\ new \in Client /\ new.stage = stage /\ new.ticket = client.ticket
      /\ new.queue = <<>> /\ new.writing = <<>> /\ new.wire = <<>>
      /\ new.got = <<>> /\ new.start = start
  BY <1>2, <1>3, <1>4 DEF Client
<1> HIDE DEF new
<1>6. Heard(new) = <<>> /\ Due(new) = <<>>
  BY <1>5, ConcatEmptySeq DEF Heard, Due
<1>7. Told(<<>>, 0) = 0
  <2>1. {j \in 1 .. 0 : (<<>>)[j] # Reply} = {}
    OBVIOUS
  <2> QED
    BY <2>1, FS_EmptySet DEF Told
<1>8. stage = "open" => Len(Since(new, log)) = 0
  BY <1>2, <1>3, <1>5, LenProperties DEF Since
<1>9. Served(new, log)
  BY <1>3, <1>5, <1>6, <1>7, <1>8, NothingInOrder DEF Served
<1> QED
  BY <1>2, <1>5, <1>9, ClientStep DEF client

LEMMA BroadcastKept == ASSUME HubInv, NEW m \in prepared, Broadcast(m) PROVE HubInv'
<1>1. /\ m \in Nat \ {0} /\ log' = Append(log, m) /\ prepared' = prepared \ {m}
      /\ clients' = [c \in Sockets |-> IF Registered(c) THEN Enqueued(clients[c], m)
                                       ELSE clients[c]]
      /\ UNCHANGED <<tickets, issued>> /\ log \in Seq(Nat)
  BY DEF Broadcast, HubInv, StreamInv
<1>2. ASSUME NEW c \in Sockets
      PROVE  Served(clients'[c], log') /\ clients'[c].ticket = clients[c].ticket
  <2> DEFINE client == clients[c]
  <2>1. client \in Client /\ Served(client, log)
    BY DEF HubInv, StreamInv
  <2>2. CASE client.stage = "open" /\ ~client.done
    <3>1. clients'[c] = Enqueued(client, m)
      BY <1>1, <2>2 DEF Registered
    <3>2. Served(Enqueued(client, m), Append(log, m))
      BY <1>1, <2>1, <2>2, Enqueuing DEF Reply
    <3>3. Enqueued(client, m).ticket = client.ticket
      BY <2>1 DEF Enqueued, Shut, Client
    <3> QED
      BY <1>1, <3>1, <3>2, <3>3
  <2>3. CASE client.stage # "open" \/ client.done
    <3>1. clients'[c] = client
      BY <1>1, <2>3 DEF Registered, Enqueued
    <3> QED
      BY <1>1, <2>1, <2>3, <3>1, NotTold
  <2> QED
    BY <2>2, <2>3
<1>3. clients' \in [Sockets -> Client]
  <2>1. \A c \in Sockets : clients'[c] \in Client
    BY <1>2 DEF Served
  <2> QED
    BY <1>1, <2>1
<1>4. StreamInv'
  <2>1. log' \in Seq(Nat)
    BY <1>1, AppendProperties
  <2>2. IsFiniteSet(prepared') /\ prepared' \subseteq Nat \ {0}
    BY <1>1, FS_RemoveElement DEF HubInv, StreamInv
  <2> QED
    BY <1>2, <1>3, <2>1, <2>2 DEF StreamInv
<1>5. TicketInv'
  BY <1>1, <1>2, TicketsSame DEF HubInv
<1> QED
  BY <1>4, <1>5 DEF HubInv

LEMMA PreparedKept ==
  ASSUME HubInv, Report \/ \E k \in Heads : Announce(k)
  PROVE  HubInv'
<1>1. /\ prepared' = prepared \cup {Messages + 1}
      /\ UNCHANGED <<tickets, issued, clients, log>>
  BY DEF Report, Announce
<1>2. Messages \in Nat
  BY FS_CardinalityType, LenProperties DEF Messages, HubInv, StreamInv
<1>3. IsFiniteSet(prepared') /\ prepared' \subseteq Nat \ {0}
  BY <1>1, <1>2, FS_AddElement DEF HubInv, StreamInv
<1>4. StreamInv'
  BY <1>1, <1>3 DEF HubInv, StreamInv, Served, Since
<1>5. TicketInv'
  BY <1>1, TicketsSame DEF HubInv
<1> QED
  BY <1>4, <1>5 DEF HubInv

(* There are never more tickets than may be.                               *)
LEMMA FewerTickets ==
  ASSUME HubInv, DOMAIN tickets' \subseteq DOMAIN tickets,
         UNCHANGED <<issued, clients>>
  PROVE  TicketInv'
<1>1. /\ IsFiniteSet(DOMAIN tickets') /\ Cardinality(DOMAIN tickets') <= Pending
  <2>1. /\ IsFiniteSet(DOMAIN tickets) /\ Cardinality(DOMAIN tickets) <= Pending
        /\ Pending \in Nat
    BY HubAssumption DEF HubInv, TicketInv, TicketsSpent
  <2>2. /\ IsFiniteSet(DOMAIN tickets')
        /\ Cardinality(DOMAIN tickets') <= Cardinality(DOMAIN tickets)
    BY <2>1, FS_Subset
  <2>3. Cardinality(DOMAIN tickets) \in Nat /\ Cardinality(DOMAIN tickets') \in Nat
    BY <2>1, <2>2, FS_CardinalityType
  <2> QED
    BY <2>1, <2>2, <2>3
<1> QED
  BY <1>1 DEF HubInv, TicketInv, TicketsSpent

LEMMA StreamSame ==
  ASSUME HubInv, UNCHANGED <<clients, prepared, log>>
  PROVE  StreamInv'
BY DEF HubInv, StreamInv, Served, Since

LEMMA TimeKept == ASSUME HubInv, RefuseTicket \/ Second PROVE HubInv'
<1>1. /\ DOMAIN tickets' \subseteq DOMAIN tickets
      /\ UNCHANGED <<issued, clients, prepared, log>>
  BY DEF RefuseTicket, Second, Unexpired
<1> QED
  BY <1>1, FewerTickets, StreamSame DEF HubInv

LEMMA IssueKept == ASSUME HubInv, NEW t \in Tokens, IssueTicket(t) PROVE HubInv'
<1>1. /\ t \notin issued /\ Cardinality(Unexpired) < Pending
      /\ DOMAIN tickets' = Unexpired \cup {t}
      /\ issued' = issued \cup {t} /\ UNCHANGED <<clients, prepared, log>>
  BY DEF IssueTicket
<1>2. /\ Unexpired \subseteq DOMAIN tickets /\ IsFiniteSet(DOMAIN tickets)
      /\ DOMAIN tickets \subseteq issued
  BY DEF Unexpired, HubInv, TicketInv
<1>3. IsFiniteSet(Unexpired) /\ t \notin Unexpired /\ Cardinality(Unexpired) \in Nat
  BY <1>1, <1>2, FS_Subset, FS_CardinalityType
<1>4. /\ IsFiniteSet(Unexpired \cup {t})
      /\ Cardinality(Unexpired \cup {t}) = Cardinality(Unexpired) + 1
  BY <1>3, FS_AddElement
<1>5. Cardinality(DOMAIN tickets') <= Pending /\ IsFiniteSet(DOMAIN tickets')
  BY <1>1, <1>3, <1>4, HubAssumption
<1>6. TicketInv'
  BY <1>1, <1>2, <1>5 DEF HubInv, TicketInv, TicketsSpent
<1> QED
  BY <1>1, <1>6, StreamSame DEF HubInv

(* The ticket that opens a connection is gone when it does.                *)
LEMMA ConsumeKept ==
  ASSUME HubInv, NEW c \in Sockets, NEW t \in Tokens, Consume(c, t)
  PROVE  HubInv'
<1> DEFINE stage == IF t \in Unexpired THEN "upgrading" ELSE "gone"
           ticket == IF t \in Unexpired THEN t ELSE Nothing
           new == [Fresh EXCEPT !.stage = stage, !.ticket = ticket]
<1>1. /\ t \in DOMAIN tickets /\ Change(c, new)
      /\ DOMAIN tickets' = DOMAIN tickets \ {t}
      /\ UNCHANGED <<issued, prepared, log>>
  BY DEF Consume, Spent, Without
<1>2. stage \in {"upgrading", "gone"} /\ ticket \in {t, Nothing}
  OBVIOUS
<1> HIDE DEF stage, ticket
<1>3. /\ new \in Client /\ new.stage = stage /\ new.ticket = ticket
      /\ new.queue = <<>> /\ new.writing = <<>> /\ new.wire = <<>>
      /\ new.got = <<>> /\ new.start = 0
  BY <1>2, EmptySeq DEF Fresh, Client
<1> HIDE DEF new
<1>4. Served(new, log)
  <2>1. log \in Seq(Nat) /\ 0 \in 0 .. Len(log)
    BY LenProperties DEF HubInv, StreamInv
  <2> QED
    BY <1>2, <1>3, <2>1, FreshClient
<1>5. /\ StreamInv' /\ clients'[c] = new
      /\ \A d \in Sockets \ {c} : clients'[d] = clients[d]
  BY <1>1, <1>4, Changing DEF HubInv
<1>6. t \in issued /\ \A d \in Sockets : clients[d].ticket = t => t = Nothing
  BY <1>1 DEF HubInv, TicketInv
<1>7. /\ IsFiniteSet(DOMAIN tickets') /\ Cardinality(DOMAIN tickets') <= Pending
      /\ DOMAIN tickets' \subseteq issued
  <2>1. /\ IsFiniteSet(DOMAIN tickets) /\ Cardinality(DOMAIN tickets) <= Pending
        /\ Pending \in Nat /\ DOMAIN tickets \subseteq issued
    BY HubAssumption DEF HubInv, TicketInv, TicketsSpent
  <2>2. /\ IsFiniteSet(DOMAIN tickets')
        /\ Cardinality(DOMAIN tickets') = Cardinality(DOMAIN tickets) - 1
    BY <1>1, <2>1, FS_RemoveElement
  <2>3. Cardinality(DOMAIN tickets) \in Nat
    BY <2>1, FS_CardinalityType
  <2> QED
    BY <1>1, <2>1, <2>2, <2>3
<1>8. \A d \in Sockets : clients'[d].ticket # Nothing =>
        clients'[d].ticket \in issued \ DOMAIN tickets'
  BY <1>1, <1>2, <1>3, <1>5, <1>6 DEF HubInv, TicketInv
<1>9. \A d, e \in Sockets :
        d # e /\ clients'[d].ticket = clients'[e].ticket => clients'[d].ticket = Nothing
  BY <1>2, <1>3, <1>5, <1>6 DEF HubInv, TicketInv, TicketsSpent
<1> QED
  BY <1>1, <1>5, <1>7, <1>8, <1>9 DEF HubInv, TicketInv, TicketsSpent

LEMMA HubStep == HubInv /\ [HubNext]_hubVars => HubInv'
<1> SUFFICES ASSUME HubInv, [HubNext]_hubVars PROVE HubInv'
  OBVIOUS
<1>1. ASSUME UNCHANGED hubVars PROVE HubInv'
  <2>1. StreamInv' /\ TicketInv'
    BY <1>1, StreamSame, TicketsSame DEF hubVars, HubInv
  <2> QED
    BY <2>1 DEF HubInv
<1>2. ASSUME NEW t \in Tokens, IssueTicket(t) \/ \E c \in Sockets : Consume(c, t)
      PROVE  HubInv'
  BY <1>2, IssueKept, ConsumeKept
<1>3. ASSUME NEW c \in Sockets, \/ Upgrade(c) \/ Writer(c) \/ Command(c)
                                \/ ReaderEnds(c) \/ Reads(c) \/ Fails(c)
      PROVE  HubInv'
  BY <1>3, UpgradeKept, WriterKept, CommandKept, ReaderEndsKept, ReadsKept, FailsKept
<1> QED
  BY <1>1, <1>2, <1>3, TimeKept, PreparedKept, BroadcastKept DEF HubNext

LEMMA ServedHasNoGap == HubInv => LiveRight
<1> SUFFICES ASSUME HubInv PROVE LiveRight
  OBVIOUS
<1>1. ASSUME NEW c \in Sockets PROVE NoGap(c)
  <2>1. Served(clients[c], log)
    BY DEF HubInv, StreamInv
  <2> QED
    BY <2>1 DEF Served, NoGap, Heard, Due, Since, Running, Registered
<1> QED
  BY <1>1 DEF LiveRight, HubInv, TicketInv

(* A ticket opens one connection, and a page that is connected is told     *)
(* everything that is broadcast, in order: a queue that is full ends the   *)
(* connection instead of leaving a message out.                            *)
THEOREM LiveConnectionsRight == DashSpec => []LiveRight
<1>1. DashInit => HubInv
  BY HubStarts DEF DashInit
<1>2. HubInv /\ [DashNext]_dashVars => HubInv'
  BY HubStep, PartsStep
<1> QED
  BY <1>1, <1>2, ServedHasNoGap, PTL DEF DashSpec

-----------------------------------------------------------------------------
(* Frames and gaps.                                                        *)

Aged == 0 .. KeepTicks + 1
DMREvent == [age : Aged, missing : Numerals, stutter : BOOLEAN]
Passing == [stream : Streams, n : Nat, age : Aged]

FramesType ==
  /\ spoken \in [Streams -> [all : Nat, now : 0 .. PerTick]]
  /\ air \subseteq [stream : Streams, n : Nat, age : 0 .. StaleTicks - 1]
  /\ flows \in [Streams -> [seq : Nat, age : Aged]]
  /\ events \in Seq(DMREvent)
  /\ passed \subseteq Passing
  /\ IsFiniteSet(passed)

(* A frame on its way was sent no more frames ago than its age allows.     *)
Sent ==
  \A f \in air :
    /\ f.n < spoken[f.stream].all
    /\ spoken[f.stream].all - f.n <= PerTick * f.age + spoken[f.stream].now

(* A stream has been followed up to its frame m: the number kept is its    *)
(* number, and while that is fresh the stream is not too far ahead of it.  *)
(* What it overtook arrives before the number is stale.                    *)
Reached(s, m) ==
  /\ \E p \in passed : p.stream = s /\ p.n = m
  /\ \A p \in passed : p.stream = s => p.n <= m
  /\ m < spoken[s].all
  /\ flows[s].seq = (FirstSeq + m) % Numbers
  /\ flows[s].age < StaleTicks =>
       spoken[s].all - m <= PerTick * (flows[s].age + (StaleTicks - 1)) + spoken[s].now
  /\ \A f \in air : f.stream = s /\ f.n <= m => flows[s].age <= f.age

Unheard(s) ==
  flows[s].age >= StaleTicks /\ \A p \in passed : p.stream # s

Followed == \A s \in Streams : Unheard(s) \/ \E m \in Nat : Reached(s, m)

(* Events of an age up to w, and the gaps before them, frame by frame.     *)
Within(list, w) == {i \in DOMAIN list : list[i].age <= w}
Missed(list, w) == {u \in Within(list, w) \X Numerals : u[2] < list[u[1]].missing}
Recent(set, w) == {p \in set : p.age <= w}

Counted(w) ==
  Cardinality(Within(events, w)) + Cardinality(Missed(events, w)) =
    Cardinality(Recent(passed, w))

AllCounted == \A w \in Int : w <= KeepTicks => Counted(w)

FramesInv == FramesType /\ Sent /\ Followed /\ AllCounted

(* Every set of natural numbers has a least element.                       *)
LEMMA LeastOf ==
  ASSUME NEW T, T \subseteq Nat, T # {}
  PROVE  \E x \in T : \A y \in T : x <= y
<1> DEFINE R == OpToRel(<, Nat)
<1>1. IsWellFoundedOn(R, Nat)
  BY NatLessThanWellFounded
<1>2. PICK x \in T : \A y \in T : ~(<<y, x>> \in R)
  <2> HIDE DEF R
  <2> QED BY <1>1, WFMin
<1>3. R = {p \in Nat \X Nat : p[1] < p[2]}
  BY DEF OpToRel
<1>4. ASSUME NEW y \in T PROVE x <= y
  <2>1. ~(<<y, x>> \in R) /\ x \in Nat /\ y \in Nat
    BY <1>2
  <2> HIDE DEF R
  <2> QED BY <2>1, <1>3
<1> QED BY <1>4

LEMMA GreatestOf ==
  ASSUME NEW T, T \subseteq Nat, T # {}, NEW b \in Nat, \A y \in T : y < b
  PROVE  \E x \in T : \A y \in T : x >= y
<1> DEFINE D == {b - y : y \in T}
<1>1. D \subseteq Nat /\ D # {}
  <2>1. \A y \in T : b - y \in Nat
    OBVIOUS
  <2>2. PICK t \in T : TRUE
    OBVIOUS
  <2>3. b - t \in D
    OBVIOUS
  <2> QED BY <2>1, <2>3
<1>2. PICK d \in D : \A e \in D : d <= e
  <2> HIDE DEF D
  <2> QED BY <1>1, LeastOf
<1>3. PICK x \in T : d = b - x
  OBVIOUS
<1>4. ASSUME NEW y \in T PROVE x >= y
  <2>1. b - y \in D
    OBVIOUS
  <2> QED BY <2>1, <1>2, <1>3
<1> QED BY <1>4

LEMMA MaxIs ==
  ASSUME NEW T, T \subseteq Nat, NEW m \in T, \A y \in T : y <= m
  PROVE  Max(T) = m
<1>1. m \in T /\ \A y \in T : m >= y
  OBVIOUS
<1>2. Max(T) \in T /\ \A y \in T : Max(T) >= y
  <2> HIDE <1>1
  <2>1. \E x \in T : \A y \in T : x >= y
    BY <1>1
  <2> QED BY <2>1, Zenon DEF Max
<1>3. Max(T) \in Nat /\ Max(T) <= m /\ m <= Max(T)
  BY <1>2
<1> QED BY <1>3

(* What comes before something of a list, and with it all before it, is    *)
(* the beginning of the list.                                              *)
LEMMA Beginning ==
  ASSUME NEW n \in Nat, NEW T \in SUBSET (1 .. n),
         \A i \in T : \A j \in 1 .. i : j \in T
  PROVE  /\ IsFiniteSet(T) /\ Cardinality(T) \in 0 .. n
         /\ T = 1 .. Cardinality(T)
<1>1. IsFiniteSet(1 .. n) /\ Cardinality(1 .. n) = n
  BY FS_Interval
<1>2. IsFiniteSet(T) /\ Cardinality(T) <= n
  BY <1>1, FS_Subset
<1>3. Cardinality(T) \in Nat
  BY <1>2, FS_CardinalityType
<1> DEFINE k == Cardinality(T)
<1>4. IsFiniteSet(1 .. k) /\ Cardinality(1 .. k) = k
  BY <1>3, FS_Interval
<1>5. ASSUME NEW i \in T PROVE i \in 1 .. k
  <2>1. (1 .. i) \in SUBSET T
    OBVIOUS
  <2>2. Cardinality(1 .. i) <= k
    BY <2>1, <1>2, FS_Subset
  <2>3. i \in 1 .. n
    OBVIOUS
  <2>4. Cardinality(1 .. i) = i
    BY <2>3, FS_Interval
  <2> QED BY <2>2, <2>3, <2>4, <1>3
<1>6. T \in SUBSET (1 .. k)
  BY <1>5
<1>7. T = 1 .. k
  BY <1>4, <1>6, FS_Subset
<1> QED BY <1>2, <1>3, <1>7

LEMMA NumeralsFinite == IsFiniteSet(Numerals) /\ Numerals \subseteq Nat
BY FS_Interval, QualityAssumption DEF Numerals

LEMMA ListCounted ==
  ASSUME NEW list \in Seq(DMREvent), NEW w
  PROVE  /\ IsFiniteSet(Within(list, w)) /\ IsFiniteSet(Missed(list, w))
         /\ Cardinality(Within(list, w)) \in Nat /\ Cardinality(Missed(list, w)) \in Nat
<1>1. IsFiniteSet(1 .. Len(list)) /\ DOMAIN list = 1 .. Len(list)
  BY FS_Interval
<1>2. IsFiniteSet(Within(list, w))
  BY <1>1, FS_Subset DEF Within
<1>3. IsFiniteSet(Within(list, w) \X Numerals)
  BY <1>2, NumeralsFinite, FS_Product
<1>4. IsFiniteSet(Missed(list, w))
  BY <1>3, FS_Subset DEF Missed
<1> QED BY <1>2, <1>4, FS_CardinalityType

LEMMA Numbered ==
  ASSUME NEW d \in Nat
  PROVE  IsFiniteSet(0 .. d - 1) /\ Cardinality(0 .. d - 1) = d
<1>1. 0 \in Int /\ d - 1 \in Int /\ (0 > d - 1 <=> d = 0)
  OBVIOUS
<1>2. IsFiniteSet(0 .. d - 1)
  BY <1>1, FS_Interval
<1>3. Cardinality(0 .. d - 1) = IF 0 > d - 1 THEN 0 ELSE (d - 1) - 0 + 1
  BY <1>1, FS_Interval
<1> QED BY <1>1, <1>2, <1>3

LEMMA OneMore ==
  ASSUME NEW list \in Seq(DMREvent), NEW e \in DMREvent, NEW w \in Int, e.age <= w
  PROVE  /\ Cardinality(Within(Append(list, e), w)) = Cardinality(Within(list, w)) + 1
         /\ Cardinality(Missed(Append(list, e), w)) =
              Cardinality(Missed(list, w)) + e.missing
<1> DEFINE n == Len(list) + 1
           more == Append(list, e)
           gap == {n} \X (0 .. e.missing - 1)
<1>1. /\ n \in Nat /\ n >= 1 /\ DOMAIN list = 1 .. n - 1 /\ DOMAIN more = 1 .. n
      /\ more[n] = e /\ \A i \in 1 .. n - 1 : more[i] = list[i]
  OBVIOUS
<1>2. e.missing \in Numerals /\ e.missing \in Nat
  BY NumeralsFinite DEF DMREvent
<1> HIDE DEF n, more
<1>3. Within(more, w) = Within(list, w) \cup {n} /\ n \notin Within(list, w)
  <2>1. n \in Within(more, w) /\ n \notin Within(list, w)
    BY <1>1 DEF Within
  <2>2. ASSUME NEW i \in 1 .. n - 1 PROVE i \in Within(more, w) <=> i \in Within(list, w)
    <3>1. i \in 1 .. n /\ more[i] = list[i]
      BY <1>1
    <3> QED BY <3>1, <1>1 DEF Within
  <2>3. Within(list, w) \subseteq 1 .. n - 1 /\ Within(more, w) \subseteq (1 .. n - 1) \cup {n}
    BY <1>1 DEF Within
  <2> QED BY <2>1, <2>2, <2>3
<1>4. \A k \in Nat : k < e.missing <=> k \in 0 .. e.missing - 1
  BY <1>2
<1>5. 0 .. e.missing - 1 \subseteq Numerals
  BY <1>2, QualityAssumption DEF Numerals
<1>6. Missed(more, w) = Missed(list, w) \cup gap
  <2>1. ASSUME NEW i \in Within(list, w), NEW k \in Numerals
        PROVE  k < more[i].missing <=> k < list[i].missing
    BY <1>1 DEF Within
  <2>2. ASSUME NEW k \in Numerals
        PROVE  k < more[n].missing <=> k \in 0 .. e.missing - 1
    BY <1>1, <1>4, NumeralsFinite
  <2> QED BY <2>1, <2>2, <1>3, <1>5 DEF Missed
<1>7. Missed(list, w) \cap gap = {}
  <2>1. \A u \in Missed(list, w) : u[1] \in Within(list, w)
    BY DEF Missed
  <2>2. \A u \in gap : u[1] = n
    OBVIOUS
  <2> HIDE DEF gap
  <2> QED BY <2>1, <2>2, <1>3
<1>8. IsFiniteSet(gap) /\ Cardinality(gap) = e.missing
  <2>1. IsFiniteSet(0 .. e.missing - 1) /\ Cardinality(0 .. e.missing - 1) = e.missing
    BY <1>2, Numbered
  <2>2. IsFiniteSet({n}) /\ Cardinality({n}) = 1
    BY FS_Singleton
  <2>3. IsFiniteSet(gap) /\ Cardinality(gap) = Cardinality({n}) * Cardinality(0 .. e.missing - 1)
    BY <2>1, <2>2, FS_Product
  <2> HIDE DEF gap
  <2> QED BY <2>1, <2>2, <2>3, <1>2
<1>9. Cardinality(Missed(list, w) \cup gap) = Cardinality(Missed(list, w)) + e.missing
  <2> HIDE DEF gap
  <2>1. Cardinality(Missed(list, w) \cup gap) =
          Cardinality(Missed(list, w)) + Cardinality(gap)
            - Cardinality(Missed(list, w) \cap gap)
    BY <1>8, ListCounted, FS_Union
  <2>2. Cardinality(Missed(list, w) \cap gap) = 0
    BY <1>7, FS_EmptySet
  <2>3. Cardinality(Missed(list, w)) \in Nat
    BY ListCounted
  <2> QED BY <2>1, <2>2, <2>3, <1>8, <1>2
<1>10. Cardinality(Within(list, w) \cup {n}) = Cardinality(Within(list, w)) + 1
  BY <1>3, ListCounted, FS_AddElement
<1> QED BY <1>3, <1>6, <1>9, <1>10 DEF more

LEMMA SamePairs ==
  ASSUME NEW S, NEW T, IsFiniteSet(S), NEW f, f \in [S -> T],
         \A x, y \in S : f[x] = f[y] => x = y,
         \A y \in T : \E x \in S : f[x] = y
  PROVE  Cardinality(T) = Cardinality(S)
<1>1. f \in Bijection(S, T)
  BY DEF Bijection, Injection, Surjection, IsInjective
<1> QED BY <1>1, FS_Bijection DEF ExistsBijection

LEMMA OldOnesGone ==
  ASSUME NEW list \in Seq(DMREvent), NEW w \in Int, NEW k \in 0 .. Len(list),
         \A i \in 1 .. k : list[i].age > w
  PROVE  LET rest == SubSeq(list, k + 1, Len(list))
         IN  /\ rest \in Seq(DMREvent)
             /\ Cardinality(Within(rest, w)) = Cardinality(Within(list, w))
             /\ Cardinality(Missed(rest, w)) = Cardinality(Missed(list, w))
<1> DEFINE n == Len(list)
           rest == SubSeq(list, k + 1, Len(list))
<1>1. /\ n \in Nat /\ k \in 0 .. n /\ DOMAIN list = 1 .. n
      /\ \A i \in 1 .. n : list[i] \in DMREvent
  OBVIOUS
<1>2. /\ rest \in Seq(DMREvent) /\ DOMAIN rest = 1 .. n - k
      /\ \A i \in 1 .. n - k : rest[i] = list[i + k]
  BY SubSeqProperties
<1>3. \A i \in 1 .. n : list[i].age \in Int
  BY <1>1 DEF DMREvent, Aged
<1> HIDE DEF n, rest
<1>4. \A i \in Within(list, w) : i \in 1 .. n /\ i > k /\ i - k \in 1 .. n - k
                                /\ rest[i - k] = list[i]
  BY <1>1, <1>2, <1>3 DEF Within
<1>5. \A j \in Within(rest, w) : /\ j \in 1 .. n - k /\ j + k \in Within(list, w)
                                /\ rest[j] = list[j + k]
  BY <1>1, <1>2 DEF Within
<1>6. \A i \in Within(list, w) : i - k \in Within(rest, w)
  BY <1>4, <1>2 DEF Within
<1>7. Cardinality(Within(rest, w)) = Cardinality(Within(list, w))
  <2> DEFINE f == [i \in Within(list, w) |-> i - k]
  <2>1. f \in [Within(list, w) -> Within(rest, w)]
    BY <1>6
  <2>2. \A x, y \in Within(list, w) : f[x] = f[y] => x = y
    BY <1>4, <1>1
  <2>3. \A y \in Within(rest, w) : \E x \in Within(list, w) : f[x] = y
    BY <1>5, <1>1
  <2>4. IsFiniteSet(Within(list, w))
    BY ListCounted
  <2> HIDE DEF f
  <2> QED BY <2>1, <2>2, <2>3, <2>4, SamePairs, SMT
<1>8. Cardinality(Missed(rest, w)) = Cardinality(Missed(list, w))
  <2> DEFINE g == [u \in Missed(list, w) |-> <<u[1] - k, u[2]>>]
  <2>1. ASSUME NEW u \in Missed(list, w)
        PROVE  /\ u[1] \in Within(list, w) /\ u[2] \in Numerals /\ u = <<u[1], u[2]>>
               /\ <<u[1] - k, u[2]>> \in Missed(rest, w)
    BY <1>4, <1>6 DEF Missed
  <2>2. ASSUME NEW v \in Missed(rest, w)
        PROVE  /\ v[1] \in Within(rest, w) /\ v[2] \in Numerals /\ v = <<v[1], v[2]>>
               /\ <<v[1] + k, v[2]>> \in Missed(list, w)
    BY <1>5 DEF Missed
  <2>3. g \in [Missed(list, w) -> Missed(rest, w)]
    BY <2>1
  <2>4. ASSUME NEW x \in Missed(list, w), NEW y \in Missed(list, w), g[x] = g[y]
        PROVE  x = y
    <3>1. g[x] = <<x[1] - k, x[2]>> /\ g[y] = <<y[1] - k, y[2]>>
      OBVIOUS
    <3>2. x[1] - k = y[1] - k /\ x[2] = y[2]
      BY <3>1, <2>4
    <3>3. x[1] \in Int /\ y[1] \in Int /\ k \in Int
      <4>1. x[1] \in Within(list, w) /\ y[1] \in Within(list, w)
        BY <2>1
      <4>2. x[1] \in 1 .. n /\ y[1] \in 1 .. n /\ k \in 0 .. n
        BY <4>1, <1>4, <1>1
      <4> QED BY <4>2
    <3>4. x[1] = y[1]
      BY <3>2, <3>3
    <3> QED BY <3>2, <3>4, <2>1
  <2>5. ASSUME NEW v \in Missed(rest, w)
        PROVE  \E x \in Missed(list, w) : g[x] = v
    <3>1. v[1] \in Int /\ k \in Int
      <4>1. v[1] \in Within(rest, w)
        BY <2>2
      <4>2. v[1] \in 1 .. n - k /\ k \in 0 .. n
        BY <4>1, <1>5, <1>1
      <4> QED BY <4>2
    <3>2. (v[1] + k) - k = v[1]
      BY <3>1
    <3>3. g[<<v[1] + k, v[2]>>] = <<(v[1] + k) - k, v[2]>>
      BY <2>2
    <3>4. g[<<v[1] + k, v[2]>>] = v
      BY <2>2, <3>2, <3>3
    <3> QED BY <3>4, <2>2
  <2>6. IsFiniteSet(Missed(list, w))
    BY ListCounted
  <2> HIDE DEF g
  <2> QED BY <2>3, <2>4, <2>5, <2>6, SamePairs, SMT
<1> QED BY <1>2, <1>7, <1>8 DEF rest

LEMMA OneOlder ==
  ASSUME NEW a \in Aged
  PROVE  /\ Older(a, KeepTicks) \in Aged
         /\ \A w \in Int : w <= KeepTicks =>
              (Older(a, KeepTicks) <= w <=> a <= w - 1)
         /\ a < StaleTicks => Older(a, KeepTicks) = a + 1
         /\ a >= StaleTicks => Older(a, KeepTicks) >= StaleTicks
BY QualityAssumption DEF Older, Aged

LEMMA ListOlder ==
  ASSUME NEW list \in Seq(DMREvent),
         NEW later,
         later = [i \in DOMAIN list |-> [list[i] EXCEPT !.age = Older(@, KeepTicks)]]
  PROVE  /\ later \in Seq(DMREvent)
         /\ \A w \in Int : w <= KeepTicks =>
              /\ Within(later, w) = Within(list, w - 1)
              /\ Missed(later, w) = Missed(list, w - 1)
<1>1. /\ DOMAIN list = 1 .. Len(list) /\ Len(list) \in Nat
      /\ \A i \in DOMAIN list : list[i] \in DMREvent
  OBVIOUS
<1>2. DOMAIN later = DOMAIN list
  OBVIOUS
<1>3. ASSUME NEW i \in DOMAIN list
      PROVE  /\ later[i] = [list[i] EXCEPT !.age = Older(@, KeepTicks)]
             /\ list[i].age \in Aged
             /\ later[i].missing = list[i].missing
             /\ later[i].age = Older(list[i].age, KeepTicks)
  BY <1>1 DEF DMREvent
<1>4. ASSUME NEW i \in DOMAIN list PROVE later[i] \in DMREvent
  BY <1>1, <1>3, OneOlder DEF DMREvent
<1>5. later \in Seq(DMREvent)
  <2>1. later \in [1 .. Len(list) -> DMREvent]
    BY <1>1, <1>2, <1>4
  <2> QED BY <2>1, <1>1
<1>6. ASSUME NEW w \in Int, w <= KeepTicks
      PROVE  Within(later, w) = Within(list, w - 1) /\ Missed(later, w) = Missed(list, w - 1)
  <2>1. ASSUME NEW i \in DOMAIN list PROVE later[i].age <= w <=> list[i].age <= w - 1
    BY <1>3, <1>6, OneOlder
  <2>2. Within(later, w) = Within(list, w - 1)
    BY <2>1, <1>2 DEF Within
  <2>3. \A i \in Within(list, w - 1) : later[i].missing = list[i].missing
    BY <1>3 DEF Within
  <2> QED BY <2>2, <2>3 DEF Missed
<1> QED BY <1>5, <1>6

LEMMA PassedOlder ==
  ASSUME NEW set \in SUBSET Passing, IsFiniteSet(set),
         NEW later, later = {[p EXCEPT !.age = Older(@, KeepTicks)] : p \in set}
  PROVE  /\ later \subseteq Passing /\ IsFiniteSet(later)
         /\ \A w \in Int : w <= KeepTicks =>
              Cardinality(Recent(later, w)) = Cardinality(Recent(set, w - 1))
<1> DEFINE g(p) == [p EXCEPT !.age = Older(@, KeepTicks)]
<1>1. ASSUME NEW p \in set
      PROVE  /\ p \in Passing /\ p.age \in Aged
             /\ g(p) \in Passing /\ g(p).stream = p.stream /\ g(p).n = p.n
             /\ g(p).age = Older(p.age, KeepTicks)
  BY OneOlder DEF Passing
<1>2. later = {g(p) : p \in set}
  OBVIOUS
<1> HIDE DEF g
<1>3. later \subseteq Passing
  BY <1>1, <1>2
<1>4. IsFiniteSet(later)
  <2> DEFINE f == [p \in set |-> g(p)]
  <2>1. f \in Surjection(set, later)
    BY <1>2 DEF Surjection
  <2> HIDE DEF f
  <2> QED BY <2>1, FS_Surjection
<1>5. ASSUME NEW w \in Int, w <= KeepTicks
      PROVE  Cardinality(Recent(later, w)) = Cardinality(Recent(set, w - 1))
  <2> DEFINE S == Recent(set, w - 1)
             T == Recent(later, w)
             h == [p \in S |-> g(p)]
  <2>1. S \subseteq set /\ \A p \in S : p.age <= w - 1
    BY DEF Recent
  <2>2. ASSUME NEW p \in set PROVE g(p) \in T <=> p \in S
    BY <1>1, <1>2, <1>5, OneOlder DEF Recent
  <2>3. T \subseteq later
    BY DEF Recent
  <2> HIDE DEF S, T
  <2>4. h \in [S -> T]
    BY <2>1, <2>2
  <2>5. ASSUME NEW y \in T PROVE \E x \in S : h[x] = y
    <3>1. PICK p \in set : y = g(p)
      BY <2>3, <1>2
    <3>2. p \in S
      BY <3>1, <2>2
    <3> QED BY <3>1, <3>2
  <2>6. ASSUME NEW x \in S, NEW y \in S, h[x] = h[y] PROVE x = y
    <3>1. x \in set /\ y \in set /\ g(x) = g(y)
      BY <2>1, <2>6
    <3>2. x.stream = y.stream /\ x.n = y.n
      BY <3>1, <1>1
    <3>3. x.age <= KeepTicks /\ y.age <= KeepTicks /\ x.age \in Int /\ y.age \in Int
      BY <3>1, <1>1, <1>5, <2>1, QualityAssumption DEF Aged
    <3>4. Older(x.age, KeepTicks) = x.age + 1 /\ Older(y.age, KeepTicks) = y.age + 1
      BY <3>3 DEF Older
    <3>5. x.age + 1 = y.age + 1
      BY <3>1, <3>4, <1>1
    <3>6. x.age = y.age
      BY <3>3, <3>5
    <3>7. x \in Passing /\ y \in Passing
      BY <3>1, <1>1
    <3> QED BY <3>2, <3>6, <3>7 DEF Passing
  <2>7. IsFiniteSet(S)
    BY <2>1, FS_Subset
  <2> HIDE DEF h
  <2>8. Cardinality(T) = Cardinality(S)
    BY <2>4, <2>5, <2>6, <2>7, SamePairs, SMT
  <2> QED BY <2>8 DEF S, T
<1> QED BY <1>3, <1>4, <1>5

(* New frames of a stream are counted beside those that have passed.       *)
AndPassed(set, s, a, b) == set \cup [stream : {s}, n : a .. b, age : {0}]

LEMMA PassedMore ==
  ASSUME NEW set \in SUBSET Passing, IsFiniteSet(set), NEW s \in Streams,
         NEW a \in Nat, NEW b \in Nat, a <= b + 1,
         \A p \in set : p.stream = s => p.n \notin a .. b
  PROVE  LET more == AndPassed(set, s, a, b)
         IN  /\ more \subseteq Passing /\ IsFiniteSet(more)
             /\ \A w \in Int : w < 0 => Recent(more, w) = {}
             /\ \A w \in Nat : Cardinality(Recent(more, w)) =
                                 Cardinality(Recent(set, w)) + (b - a) + 1
<1> DEFINE new == [stream : {s}, n : a .. b, age : {0}]
           more == set \cup new
           f == [k \in a .. b |-> [stream |-> s, n |-> k, age |-> 0]]
<1>1. new \subseteq Passing /\ set \cap new = {} /\ \A p \in new : p.age = 0
  BY QualityAssumption DEF Passing, Aged
<1>2. f \in [a .. b -> new]
  OBVIOUS
<1>3. \A x, y \in a .. b : f[x] = f[y] => x = y
  <2>1. \A k \in a .. b : f[k].n = k
    OBVIOUS
  <2> HIDE DEF f
  <2> QED BY <2>1
<1>4. ASSUME NEW y \in new PROVE \E x \in a .. b : f[x] = y
  <2>1. y.n \in a .. b /\ y = [stream |-> s, n |-> y.n, age |-> 0]
    OBVIOUS
  <2>2. f[y.n] = y
    BY <2>1
  <2> QED BY <2>1, <2>2
<1>5. IsFiniteSet(a .. b) /\ Cardinality(a .. b) = (b - a) + 1
  <2>1. a \in Int /\ b \in Int
    OBVIOUS
  <2>2. IsFiniteSet(a .. b) /\ Cardinality(a .. b) = IF a > b THEN 0 ELSE b - a + 1
    BY <2>1, FS_Interval
  <2>3. CASE a > b
    BY <2>2, <2>3
  <2>4. CASE ~(a > b)
    BY <2>2, <2>4
  <2> QED BY <2>3, <2>4
<1> HIDE DEF f
<1>6. IsFiniteSet(new)
  <2>1. f \in Surjection(a .. b, new)
    BY <1>2, <1>4 DEF Surjection
  <2> HIDE DEF new
  <2> QED BY <2>1, <1>5, FS_Surjection
<1>7. Cardinality(new) = (b - a) + 1
  <2> HIDE DEF new
  <2>1. Cardinality(new) = Cardinality(a .. b)
    BY <1>2, <1>3, <1>4, <1>5, SamePairs, SMT
  <2> QED BY <2>1, <1>5
<1> HIDE DEF new
<1>8. IsFiniteSet(more) /\ more \subseteq Passing
  BY <1>1, <1>6, FS_Union
<1>9. ASSUME NEW w \in Int, w < 0 PROVE Recent(more, w) = {}
  BY <1>1, <1>8, <1>9 DEF Recent, Passing, Aged
<1>10. ASSUME NEW w \in Nat
       PROVE  Cardinality(Recent(more, w)) = Cardinality(Recent(set, w)) + (b - a) + 1
  <2>1. Recent(more, w) = Recent(set, w) \cup new
    BY <1>1 DEF Recent
  <2>2. Recent(set, w) \cap new = {} /\ IsFiniteSet(Recent(set, w))
    BY <1>1, FS_Subset DEF Recent
  <2>3. Cardinality(Recent(set, w)) \in Nat /\ Cardinality(Recent(set, w) \cap new) = 0
    BY <2>2, FS_CardinalityType, FS_EmptySet
  <2>4. Cardinality(Recent(set, w) \cup new) =
          Cardinality(Recent(set, w)) + Cardinality(new) - Cardinality(Recent(set, w) \cap new)
    BY <2>2, <1>6, FS_Union
  <2> DEFINE c == Cardinality(Recent(set, w))
  <2>5. c \in Nat /\ b - a \in Int
    BY <2>3
  <2>6. Cardinality(Recent(more, w)) = c + ((b - a) + 1) - 0
    BY <2>1, <2>3, <2>4, <1>7
  <2> HIDE DEF c
  <2>7. Cardinality(Recent(more, w)) = c + (b - a) + 1
    BY <2>5, <2>6
  <2> QED BY <2>7 DEF c
<1> QED BY <1>8, <1>9, <1>10 DEF new, AndPassed

LEMMA FramesStart == QualityInit => FramesInv
<1> SUFFICES ASSUME QualityInit PROVE FramesInv
  OBVIOUS
<1>1. FramesType
  BY QualityAssumption, FS_EmptySet
  DEF QualityInit, FramesType, NoFlow, Aged, Passing
<1>2. Sent /\ Followed
  BY QualityAssumption DEF QualityInit, Sent, Followed, Unheard, NoFlow
<1>3. ASSUME NEW w \in Int PROVE Counted(w)
  <2>1. Within(events, w) = {} /\ Recent(passed, w) = {}
    BY DEF QualityInit, Within, Recent
  <2>2. Missed(events, w) = {}
    BY <2>1 DEF Missed
  <2> QED BY <2>1, <2>2, FS_EmptySet DEF Counted
<1> QED BY <1>1, <1>2, <1>3 DEF FramesInv, AllCounted

LEMMA SendKept == ASSUME FramesInv, NEW s \in Streams, Send(s) PROVE FramesInv'
<1> DEFINE f == [stream |-> s, n |-> spoken[s].all, age |-> 0]
<1>1. /\ FramesType /\ Sent /\ Followed /\ AllCounted
      /\ spoken[s].all \in Nat /\ spoken[s].now \in 0 .. PerTick /\ spoken[s].now < PerTick
      /\ UNCHANGED <<flows, events, pruned, passed>>
      /\ air' = air \cup {f}
  BY DEF FramesInv, FramesType, Send
<1>2. \A t \in Streams :
        /\ spoken'[t].all = IF t = s THEN spoken[s].all + 1 ELSE spoken[t].all
        /\ spoken'[t].now = IF t = s THEN spoken[s].now + 1 ELSE spoken[t].now
  BY <1>1 DEF FramesType, Send
<1>3. /\ spoken' \in [Streams -> [all : Nat, now : 0 .. PerTick]]
      /\ f \in [stream : Streams, n : Nat, age : 0 .. StaleTicks - 1]
  BY <1>1, QualityAssumption DEF FramesType, Send
<1>4. FramesType'
  BY <1>1, <1>3 DEF FramesType
<1>5. \A t \in Streams : /\ spoken[t].all \in Nat /\ spoken[t].now \in Nat
                         /\ spoken'[t].all - spoken[t].all = spoken'[t].now - spoken[t].now
                         /\ spoken'[t].all \in Nat /\ spoken'[t].now \in Nat
                         /\ spoken'[t].all >= spoken[t].all
  <2>1. \A t \in Streams : spoken[t].all \in Nat /\ spoken[t].now \in Nat
    BY <1>1, QualityAssumption DEF FramesType
  <2> QED BY <1>2, <2>1
<1>6. Sent'
  <2>1. ASSUME NEW g \in air
        PROVE  /\ g.n < spoken'[g.stream].all
               /\ spoken'[g.stream].all - g.n <= PerTick * g.age + spoken'[g.stream].now
    <3>1. g.stream \in Streams /\ g.n \in Nat /\ g.age \in Nat
      BY <1>1, QualityAssumption DEF FramesType
    <3>2. /\ g.n < spoken[g.stream].all
          /\ spoken[g.stream].all - g.n <= PerTick * g.age + spoken[g.stream].now
      BY <1>1 DEF Sent
    <3>3. PerTick * g.age \in Nat
      BY <3>1, QualityAssumption
    <3> DEFINE q == PerTick * g.age
    <3> HIDE DEF q
    <3>4. spoken[g.stream].all - g.n <= q + spoken[g.stream].now /\ q \in Nat
      BY <3>2, <3>3 DEF q
    <3>5. spoken'[g.stream].all - g.n <= q + spoken'[g.stream].now
      BY <3>1, <3>4, <1>5
    <3> QED BY <3>1, <3>2, <3>5, <1>5 DEF q
  <2>2. /\ f.n < spoken'[f.stream].all
        /\ spoken'[f.stream].all - f.n <= PerTick * f.age + spoken'[f.stream].now
    <3>1. f.n = spoken[s].all /\ f.stream = s /\ PerTick * f.age = 0
      BY QualityAssumption
    <3>2. spoken'[s].all = spoken[s].all + 1 /\ spoken'[s].now = spoken[s].now + 1
      BY <1>2
    <3> HIDE DEF f
    <3> QED BY <3>1, <3>2, <1>1
  <2> QED BY <1>1, <2>1, <2>2 DEF Sent
<1>7. ASSUME NEW t \in Streams, NEW m \in Nat, Reached(t, m) PROVE Reached(t, m)'
  <2>1. spoken'[t].all >= spoken[t].all /\ spoken[t].all > m
    BY <1>5, <1>7 DEF Reached
  <2>2. flows[t].age < StaleTicks =>
          spoken'[t].all - m <= PerTick * (flows[t].age + (StaleTicks - 1)) + spoken'[t].now
    <3> SUFFICES ASSUME flows[t].age < StaleTicks
                 PROVE  spoken'[t].all - m <=
                          PerTick * (flows[t].age + (StaleTicks - 1)) + spoken'[t].now
      OBVIOUS
    <3> DEFINE q == PerTick * (flows[t].age + (StaleTicks - 1))
    <3>1. q \in Int
      BY <1>1, QualityAssumption DEF FramesType, Aged
    <3>2. spoken[t].all - m <= q + spoken[t].now
      BY <1>7 DEF Reached
    <3> HIDE DEF q
    <3>3. spoken'[t].all - m <= q + spoken'[t].now
      BY <3>1, <3>2, <1>5
    <3> QED BY <3>3 DEF q
  <2>3. ASSUME NEW g \in air', g.stream = t, g.n <= m PROVE flows[t].age <= g.age
    <3>1. g \in air
      BY <2>1, <2>3, <1>1
    <3> QED BY <3>1, <2>3, <1>7 DEF Reached
  <2>4. m < spoken'[t].all
    BY <2>1, <1>5
  <2> QED BY <1>1, <1>7, <2>2, <2>3, <2>4 DEF Reached
<1>8. Followed'
  BY <1>1, <1>7 DEF Followed, Unheard
<1>9. AllCounted'
  BY <1>1 DEF AllCounted, Counted
<1> QED BY <1>4, <1>6, <1>8, <1>9 DEF FramesInv

LEMMA TickKept == ASSUME FramesInv, Tick PROVE FramesInv'
<1>1. /\ FramesType /\ Sent /\ Followed /\ AllCounted
      /\ air' = {[f EXCEPT !.age = @ + 1] : f \in {g \in air : g.age + 1 < StaleTicks}}
      /\ spoken' = [s \in Streams |-> [spoken[s] EXCEPT !.now = 0]]
      /\ flows' = [s \in Streams |-> [flows[s] EXCEPT !.age = Older(@, KeepTicks)]]
      /\ events' = [i \in DOMAIN events |-> [events[i] EXCEPT !.age = Older(@, KeepTicks)]]
      /\ passed' = {[p EXCEPT !.age = Older(@, KeepTicks)] : p \in passed}
  BY DEF FramesInv, Tick
<1>2. ASSUME NEW s \in Streams
      PROVE  /\ spoken[s].all \in Nat /\ spoken[s].now \in 0 .. PerTick
             /\ spoken'[s].all = spoken[s].all /\ spoken'[s].now = 0
             /\ flows[s].age \in Aged /\ flows[s].seq \in Nat
             /\ flows'[s].seq = flows[s].seq
             /\ flows'[s].age = Older(flows[s].age, KeepTicks)
             /\ spoken'[s] \in [all : Nat, now : 0 .. PerTick]
             /\ flows'[s] \in [seq : Nat, age : Aged]
  <2>1. /\ spoken[s] \in [all : Nat, now : 0 .. PerTick] /\ flows[s] \in [seq : Nat, age : Aged]
        /\ spoken'[s] = [spoken[s] EXCEPT !.now = 0]
        /\ flows'[s] = [flows[s] EXCEPT !.age = Older(@, KeepTicks)]
    BY <1>1 DEF FramesType
  <2>2. flows[s].age \in Aged /\ Older(flows[s].age, KeepTicks) \in Aged
    BY <2>1, OneOlder
  <2>3. 0 \in 0 .. PerTick
    BY QualityAssumption
  <2> QED BY <2>1, <2>2, <2>3
<1>3. ASSUME NEW f \in air'
      PROVE  \E g \in air : /\ f.stream = g.stream /\ f.n = g.n /\ f.age = g.age + 1
                            /\ g.age + 1 < StaleTicks /\ g.age \in Nat /\ g.n \in Nat
                            /\ g.stream \in Streams
                            /\ f \in [stream : Streams, n : Nat, age : 0 .. StaleTicks - 1]
  <2>1. PICK g \in air : g.age + 1 < StaleTicks /\ f = [g EXCEPT !.age = @ + 1]
    BY <1>1
  <2>2. g \in [stream : Streams, n : Nat, age : 0 .. StaleTicks - 1]
    BY <1>1 DEF FramesType
  <2> QED BY <2>1, <2>2, QualityAssumption
<1>4. events' \in Seq(DMREvent) /\ passed' \subseteq Passing /\ IsFiniteSet(passed')
  BY <1>1, ListOlder, PassedOlder DEF FramesType
<1>5. FramesType'
  <2>1. spoken' \in [Streams -> [all : Nat, now : 0 .. PerTick]]
    BY <1>1, <1>2
  <2>2. flows' \in [Streams -> [seq : Nat, age : Aged]]
    BY <1>1, <1>2
  <2>3. air' \subseteq [stream : Streams, n : Nat, age : 0 .. StaleTicks - 1]
    BY <1>3
  <2> QED BY <2>1, <2>2, <2>3, <1>4 DEF FramesType
<1>6. Sent'
  <2>1. ASSUME NEW f \in air'
        PROVE  /\ f.n < spoken'[f.stream].all
               /\ spoken'[f.stream].all - f.n <= PerTick * f.age + spoken'[f.stream].now
    <3>1. PICK g \in air : /\ f.stream = g.stream /\ f.n = g.n /\ f.age = g.age + 1
                           /\ g.age \in Nat /\ g.n \in Nat /\ g.stream \in Streams
      BY <1>3
    <3>2. /\ g.n < spoken[g.stream].all
          /\ spoken[g.stream].all - g.n <= PerTick * g.age + spoken[g.stream].now
      BY <1>1 DEF Sent
    <3>3. PerTick * (g.age + 1) = PerTick * g.age + PerTick /\ PerTick * g.age \in Nat
      BY <3>1, QualityAssumption
    <3> DEFINE q == PerTick * g.age
    <3> HIDE DEF q
    <3>4. spoken[g.stream].all - g.n <= q + spoken[g.stream].now /\ q \in Nat
      BY <3>2, <3>3 DEF q
    <3>5. spoken'[g.stream].all - g.n <= (q + PerTick) + spoken'[g.stream].now
      BY <3>1, <3>4, <1>2, QualityAssumption
    <3> QED BY <3>1, <3>2, <3>3, <3>5, <1>2 DEF q
  <2> QED BY <2>1 DEF Sent
<1>7. ASSUME NEW s \in Streams, Unheard(s) PROVE Unheard(s)'
  <2>1. flows'[s].age >= StaleTicks
    BY <1>2, <1>7, OneOlder DEF Unheard
  <2>2. \A p \in passed' : p.stream # s
    BY <1>1, <1>7 DEF Unheard, FramesType, Passing
  <2> QED BY <2>1, <2>2 DEF Unheard
<1>8. ASSUME NEW s \in Streams, NEW m \in Nat, Reached(s, m) PROVE Reached(s, m)'
  <2>1. \A p \in passed : LET q == [p EXCEPT !.age = Older(@, KeepTicks)]
                          IN  q \in passed' /\ q.stream = p.stream /\ q.n = p.n
    BY <1>1 DEF FramesType, Passing
  <2>2. \E p \in passed' : p.stream = s /\ p.n = m
    <3>1. PICK p \in passed : p.stream = s /\ p.n = m
      BY <1>8 DEF Reached
    <3> QED BY <2>1, <3>1
  <2>3. \A p \in passed' : p.stream = s => p.n <= m
    BY <1>1, <1>8 DEF Reached, FramesType, Passing
  <2>4. m < spoken'[s].all /\ flows'[s].seq = (FirstSeq + m) % Numbers
    BY <1>2, <1>8 DEF Reached
  <2>5. flows'[s].age < StaleTicks =>
          spoken'[s].all - m <= PerTick * (flows'[s].age + (StaleTicks - 1)) + spoken'[s].now
    <3> SUFFICES ASSUME flows'[s].age < StaleTicks
                 PROVE  spoken'[s].all - m <=
                          PerTick * (flows'[s].age + (StaleTicks - 1)) + spoken'[s].now
      OBVIOUS
    <3>1. flows[s].age < StaleTicks
      BY <1>2, OneOlder, QualityAssumption DEF Aged
    <3>2. flows'[s].age = flows[s].age + 1
      BY <3>1, <1>2, OneOlder
    <3> DEFINE x == flows[s].age + (StaleTicks - 1)
    <3>3. x \in Nat /\ flows'[s].age + (StaleTicks - 1) = x + 1
      BY <3>2, <1>2, QualityAssumption DEF Aged
    <3>4. spoken[s].all - m <= PerTick * x + spoken[s].now
      BY <3>1, <1>8 DEF Reached
    <3> HIDE DEF x
    <3>5. PerTick * (x + 1) = PerTick * x + PerTick /\ PerTick * x \in Nat
      BY <3>3, QualityAssumption
    <3> DEFINE q == PerTick * x
    <3> HIDE DEF q
    <3>6. spoken[s].all - m <= q + spoken[s].now /\ q \in Nat
      BY <3>4, <3>5 DEF q
    <3>7. spoken'[s].all - m <= (q + PerTick) + spoken'[s].now
      BY <3>6, <1>2, QualityAssumption
    <3> QED BY <3>3, <3>5, <3>7 DEF q
  <2>6. ASSUME NEW f \in air', f.stream = s, f.n <= m PROVE flows'[s].age <= f.age
    <3>1. PICK g \in air : /\ f.stream = g.stream /\ f.n = g.n /\ f.age = g.age + 1
                           /\ g.age + 1 < StaleTicks /\ g.age \in Nat
      BY <1>3
    <3>2. flows[s].age <= g.age
      BY <3>1, <2>6, <1>8 DEF Reached
    <3>3. flows[s].age < StaleTicks /\ flows[s].age \in Nat
      BY <3>1, <3>2, <1>2, QualityAssumption DEF Aged
    <3>4. flows'[s].age = flows[s].age + 1
      BY <3>3, <1>2, OneOlder
    <3> QED BY <3>1, <3>2, <3>3, <3>4
  <2> QED BY <2>2, <2>3, <2>4, <2>5, <2>6 DEF Reached
<1>9. Followed'
  BY <1>1, <1>7, <1>8 DEF Followed
<1>10. AllCounted'
  <2>1. ASSUME NEW w \in Int, w <= KeepTicks PROVE Counted(w)'
    <3>1. w - 1 \in Int /\ w - 1 <= KeepTicks
      BY <2>1, QualityAssumption
    <3>2. Counted(w - 1)
      BY <3>1, <1>1 DEF AllCounted
    <3>3. /\ Within(events', w) = Within(events, w - 1)
          /\ Missed(events', w) = Missed(events, w - 1)
      BY <1>1, <2>1, ListOlder DEF FramesType
    <3>4. Cardinality(Recent(passed', w)) = Cardinality(Recent(passed, w - 1))
      BY <1>1, <2>1, PassedOlder DEF FramesType
    <3>5. Cardinality(Within(events', w)) + Cardinality(Missed(events', w)) =
            Cardinality(Recent(passed', w))
      BY <3>2, <3>3, <3>4 DEF Counted
    <3> QED BY <3>5 DEF Counted, Within, Missed, Recent
  <2> QED BY <2>1 DEF AllCounted
<1> QED BY <1>5, <1>6, <1>9, <1>10 DEF FramesInv

(* Numbers of frames and the distances between them.                       *)
LEMMA Remainder ==
  ASSUME NEW n \in Nat \ {0}, NEW q \in Int, NEW r \in 0 .. n - 1
  PROVE  (q * n + r) % n = r
<1> DEFINE x == q * n + r
           p == x % n
           k == x \div n
<1>1. x \in Int /\ p \in 0 .. n - 1 /\ k \in Int /\ x = n * k + p
  OBVIOUS
<1>2. n * (k - q) = r - p
  <2> HIDE DEF p, k
  <2>1. q * n + r = n * k + p
    BY <1>1
  <2>2. n * (k - q) = n * k - q * n
    BY <1>1
  <2> QED BY <2>1, <2>2, <1>1
<1>3. k - q = 0
  <2> HIDE DEF p, k, x
  <2>1. k - q \in Int /\ r - p < n /\ p - r < n
    BY <1>1
  <2> DEFINE d == k - q
  <2>2. d >= 1 => n * d >= n
    BY <2>1
  <2>3. d <= -1 => n * d <= -n
    BY <2>1
  <2> HIDE DEF d
  <2>4. d \in Int /\ n * d < n /\ n * d > -n
    BY <2>1, <1>2, <1>1 DEF d
  <2>5. d = 0
    BY <2>2, <2>3, <2>4
  <2> QED BY <2>5 DEF d
<1>4. r - p = 0
  <2> HIDE DEF p, k, x
  <2> QED BY <1>1, <1>2, <1>3
<1> HIDE DEF p, k, x
<1>5. p = r
  BY <1>1, <1>4
<1> QED BY <1>5 DEF p, x

LEMMA Divided ==
  ASSUME NEW n \in Nat \ {0}, NEW x \in Int
  PROVE  \E q \in Int : x = q * n + (x % n) /\ x % n \in 0 .. n - 1
<1> DEFINE k == x \div n
<1>1. k \in Int /\ x % n \in 0 .. n - 1 /\ x = n * k + (x % n)
  OBVIOUS
<1>2. n * k = k * n
  OBVIOUS
<1> QED BY <1>1, <1>2

\* The distance of two numbers tells which frame is the later one, and by how
\* much, as long as they are less than half of the numbers apart.
LEMMA Distance ==
  ASSUME NEW n \in Nat \ {0}, NEW a \in Int, NEW b \in Int, NEW d \in 0 .. n - 1,
         a - b = d \/ a - b = d - n
  PROVE  ((a % n) - (b % n)) % n = d
<1>1. PICK i \in Int : a = i * n + (a % n) /\ a % n \in 0 .. n - 1
  BY Divided
<1>2. PICK j \in Int : b = j * n + (b % n) /\ b % n \in 0 .. n - 1
  BY Divided
<1> DEFINE x == a % n
           y == b % n
<1>3. x \in Int /\ y \in Int /\ a = i * n + x /\ b = j * n + y
  BY <1>1, <1>2
<1> HIDE DEF x, y
<1>4. CASE a - b = d
  <2>1. x - y = (j - i) * n + d
    <3>1. (j - i) * n = j * n - i * n
      OBVIOUS
    <3> QED BY <3>1, <1>3, <1>4
  <2>2. j - i \in Int
    OBVIOUS
  <2>3. ((j - i) * n + d) % n = d
    BY <2>2, Remainder
  <2> QED BY <2>1, <2>3 DEF x, y
<1>5. CASE a - b = d - n
  <2>1. x - y = ((j - i) - 1) * n + d
    <3>1. ((j - i) - 1) * n = j * n - i * n - n
      OBVIOUS
    <3> QED BY <3>1, <1>3, <1>5
  <2>2. (j - i) - 1 \in Int
    OBVIOUS
  <2>3. (((j - i) - 1) * n + d) % n = d
    BY <2>2, Remainder
  <2> QED BY <2>1, <2>3 DEF x, y
<1> QED BY <1>4, <1>5

LEMMA More ==
  ASSUME NEW p \in Nat, NEW a \in Nat, NEW b \in Nat, a <= b
  PROVE  p * a <= p * b /\ p * a \in Nat /\ p * b \in Nat
<1>1. p * (b - a) \in Nat /\ p * b = p * a + p * (b - a) /\ p * a \in Nat
  OBVIOUS
<1> QED BY <1>1

LEMMA Halves ==
  ASSUME NEW n \in Nat \ {0}
  PROVE  /\ n \div 2 \in Nat /\ n \div 2 < n /\ (n \div 2) + (n \div 2) <= n
OBVIOUS

LEMMA Windows ==
  /\ \A a \in 0 .. StaleTicks - 1 :
       /\ PerTick * (a + (StaleTicks - 1)) + PerTick <= Numbers \div 2
       /\ PerTick * a + PerTick <= Numbers \div 2
  /\ Numbers \div 2 \in Nat /\ Numbers \div 2 < Numbers
  /\ (Numbers \div 2) + (Numbers \div 2) <= Numbers
<1>1. /\ PerTick \in Nat /\ StaleTicks \in Nat \ {0} /\ Numbers \in Nat \ {0}
      /\ Numbers \div 2 >= PerTick * (2 * StaleTicks - 1)
  BY QualityAssumption
<1>2. /\ Numbers \div 2 \in Nat /\ Numbers \div 2 < Numbers
      /\ (Numbers \div 2) + (Numbers \div 2) <= Numbers
  BY <1>1, Halves
<1>3. ASSUME NEW x \in Nat, x + 1 <= 2 * StaleTicks - 1
      PROVE  PerTick * x + PerTick <= Numbers \div 2
  <2>1. x + 1 \in Nat /\ 2 * StaleTicks - 1 \in Nat
    BY <1>1
  <2>2. PerTick * (x + 1) <= PerTick * (2 * StaleTicks - 1)
    BY <2>1, <1>3, <1>1, More
  <2>3. PerTick * (x + 1) = PerTick * x + PerTick
    BY <1>1
  <2> DEFINE u == PerTick * (x + 1)
             v == PerTick * (2 * StaleTicks - 1)
             h == Numbers \div 2
  <2>4. u \in Int /\ v \in Int /\ u <= v /\ v <= h /\ h \in Nat
    BY <2>1, <2>2, <1>1, <1>2
  <2> HIDE DEF u, v, h
  <2>5. u <= h
    BY <2>4
  <2> QED BY <2>3, <2>5 DEF u, h
<1>4. ASSUME NEW a \in 0 .. StaleTicks - 1
      PROVE  /\ PerTick * (a + (StaleTicks - 1)) + PerTick <= Numbers \div 2
             /\ PerTick * a + PerTick <= Numbers \div 2
  <2>1. /\ a \in Nat /\ a + 1 <= 2 * StaleTicks - 1
        /\ a + (StaleTicks - 1) \in Nat
        /\ (a + (StaleTicks - 1)) + 1 <= 2 * StaleTicks - 1
    BY <1>1
  <2> QED BY <2>1, <1>3
<1> QED BY <1>2, <1>4

(* A pruning takes events that are older than what is counted.             *)
LEMMA PrunedCounted ==
  ASSUME NEW list \in Seq(DMREvent)
  PROVE  /\ Pruned(list) \in Seq(DMREvent)
         /\ \A w \in Int : w <= KeepTicks =>
              /\ Cardinality(Within(Pruned(list), w)) = Cardinality(Within(list, w))
              /\ Cardinality(Missed(Pruned(list), w)) = Cardinality(Missed(list, w))
<1> DEFINE old == {i \in DOMAIN list : \A j \in 1 .. i : list[j].age > KeepTicks}
           k == Cardinality(old)
           n == Len(list)
<1>1. CASE ~(pruned >= PruneTicks)
  BY <1>1 DEF Pruned
<1>2. CASE pruned >= PruneTicks
  <2>1. Pruned(list) = SubSeq(list, k + 1, Len(list))
    BY <1>2 DEF Pruned
  <2>2. n \in Nat /\ DOMAIN list = 1 .. n
    OBVIOUS
  <2>3. old \in SUBSET (1 .. n)
    BY <2>2
  <2>4. ASSUME NEW i \in old, NEW j \in 1 .. i PROVE j \in old
    BY <2>2
  <2>5. \A i \in old : list[i].age > KeepTicks
    <3>1. \A i \in old : i \in 1 .. i
      BY <2>2
    <3> QED BY <3>1
  <2> HIDE DEF old, n
  <2>6. k \in 0 .. n /\ old = 1 .. k
    BY <2>2, <2>3, <2>4, Beginning
  <2>7. \A i \in 1 .. k : list[i].age > KeepTicks
    BY <2>5, <2>6
  <2>8. ASSUME NEW w \in Int, w <= KeepTicks
        PROVE  LET rest == SubSeq(list, k + 1, Len(list))
               IN  /\ rest \in Seq(DMREvent)
                   /\ Cardinality(Within(rest, w)) = Cardinality(Within(list, w))
                   /\ Cardinality(Missed(rest, w)) = Cardinality(Missed(list, w))
    <3>1. k \in 0 .. Len(list)
      BY <2>6 DEF n
    <3>2. \A i \in 1 .. k : list[i].age > w
      <4>1. ASSUME NEW i \in 1 .. k PROVE list[i].age > w
        <5>1. i \in 1 .. n
          BY <2>2, <2>6
        <5>2. list[i] \in DMREvent
          BY <5>1, <2>2
        <5>3. list[i].age \in Int /\ list[i].age > KeepTicks /\ KeepTicks \in Int
          BY <5>2, <2>7, QualityAssumption DEF DMREvent, Aged
        <5> QED BY <5>3, <2>8
      <4> QED BY <4>1
    <3> HIDE DEF k
    <3> QED BY <3>1, <3>2, OldOnesGone
  <2>9. KeepTicks \in Int /\ KeepTicks <= KeepTicks
    BY QualityAssumption
  <2> HIDE DEF k
  <2> QED BY <2>1, <2>8, <2>9
<1> QED BY <1>1, <1>2

(* A frame is accepted: the frames from a on, up to it, are counted.       *)
Accepted(f, a, stutter) ==
  LET s == f.stream
      event == [age |-> 0, missing |-> f.n - a, stutter |-> stutter]
  IN /\ flows' = [flows EXCEPT ![s] = [seq |-> (FirstSeq + f.n) % Numbers, age |-> 0]]
     /\ events' = Pruned(Append(events, event))
     /\ passed' = passed \cup [stream : {s}, n : a .. f.n, age : {0}]
     /\ air' \subseteq air /\ spoken' = spoken

LEMMA AcceptedKept ==
  ASSUME FramesInv, NEW f \in air, NEW a \in Nat, NEW stutter \in BOOLEAN,
         a <= f.n, f.n - a < Numbers,
         \A p \in passed : p.stream = f.stream => p.n < a,
         Accepted(f, a, stutter)
  PROVE  FramesInv'
<1> DEFINE s == f.stream
           event == [age |-> 0, missing |-> f.n - a, stutter |-> stutter]
           more == Append(events, event)
<1>1. /\ FramesType /\ Sent /\ Followed /\ AllCounted
      /\ f \in [stream : Streams, n : Nat, age : 0 .. StaleTicks - 1]
      /\ s \in Streams /\ f.n \in Nat /\ f.age \in 0 .. StaleTicks - 1
      /\ air' \subseteq air /\ spoken' = spoken
  BY DEF FramesInv, FramesType, Accepted
<1>2. /\ flows' = [flows EXCEPT ![s] = [seq |-> (FirstSeq + f.n) % Numbers, age |-> 0]]
      /\ events' = Pruned(more)
      /\ passed' = passed \cup [stream : {s}, n : a .. f.n, age : {0}]
  BY DEF Accepted
<1>3. /\ passed \in SUBSET Passing /\ IsFiniteSet(passed) /\ events \in Seq(DMREvent)
      /\ flows \in [Streams -> [seq : Nat, age : Aged]]
  BY <1>1 DEF FramesType
<1>4. /\ passed' \subseteq Passing /\ IsFiniteSet(passed')
      /\ \A w \in Int : w < 0 => Recent(passed', w) = {}
      /\ \A w \in Nat : Cardinality(Recent(passed', w)) =
                          Cardinality(Recent(passed, w)) + (f.n - a) + 1
  <2>1. a <= f.n + 1
    BY <1>1
  <2>2. ASSUME NEW p \in passed, p.stream = s PROVE p.n \notin a .. f.n
    <3>1. p.n \in Nat /\ p.n < a
      BY <2>2, <1>3 DEF Passing
    <3> QED BY <3>1, <1>1
  <2> DEFINE b == f.n
             later == AndPassed(passed, s, a, b)
  <2>3. b \in Nat /\ a <= b + 1 /\ \A p \in passed : p.stream = s => p.n \notin a .. b
    BY <1>1, <2>1, <2>2
  <2>4. passed' = later
    BY <1>2 DEF AndPassed
  <2> HIDE DEF s, b
  <2>5. /\ later \subseteq Passing /\ IsFiniteSet(later)
        /\ \A w \in Int : w < 0 => Recent(later, w) = {}
        /\ \A w \in Nat : Cardinality(Recent(later, w)) =
                            Cardinality(Recent(passed, w)) + (b - a) + 1
    <3>1. s \in Streams
      BY <1>1
    <3> QED BY <1>3, <2>3, <3>1, PassedMore
  <2> HIDE DEF later
  <2> QED BY <2>4, <2>5 DEF b
<1>5. event \in DMREvent /\ event.age = 0 /\ event.missing = f.n - a
  <2>1. f.n - a \in 0 .. Numbers - 1
    BY <1>1, QualityAssumption
  <2> QED BY <2>1, QualityAssumption DEF DMREvent, Numerals, Aged
<1> HIDE DEF event
<1>6. more \in Seq(DMREvent)
  BY <1>3, <1>5
<1>7. events' \in Seq(DMREvent)
  BY <1>2, <1>6, PrunedCounted
<1>8. [seq |-> (FirstSeq + f.n) % Numbers, age |-> 0] \in [seq : Nat, age : Aged]
  <2>1. (FirstSeq + f.n) % Numbers \in Nat
    <3>1. FirstSeq + f.n \in Int /\ Numbers \in Nat \ {0}
      BY <1>1, QualityAssumption
    <3> QED BY <3>1
  <2> QED BY <2>1, QualityAssumption DEF Aged
<1>9. flows' \in [Streams -> [seq : Nat, age : Aged]]
  BY <1>2, <1>3, <1>8
<1>10. FramesType'
  BY <1>1, <1>4, <1>7, <1>9 DEF FramesType
<1>11. Sent'
  BY <1>1 DEF Sent
<1>12. Reached(s, f.n)'
  <2>1. flows'[s].seq = (FirstSeq + f.n) % Numbers /\ flows'[s].age = 0
    BY <1>1, <1>2, <1>3
  <2>2. \E p \in passed' : p.stream = s /\ p.n = f.n
    <3>1. [stream |-> s, n |-> f.n, age |-> 0] \in passed'
      BY <1>1, <1>2
    <3> QED BY <3>1
  <2>3. \A p \in passed' : p.stream = s => p.n <= f.n
    <3>1. ASSUME NEW p \in passed, p.stream = s PROVE p.n <= f.n
      <4>1. p.n \in Nat /\ p.n < a
        BY <3>1, <1>3 DEF Passing
      <4> QED BY <4>1, <1>1
    <3> QED BY <3>1, <1>1, <1>2
  <2>4. /\ f.n < spoken[s].all
        /\ spoken[s].all - f.n <= PerTick * f.age + spoken[s].now
        /\ spoken[s].all \in Nat /\ spoken[s].now \in Nat
    BY <1>1, QualityAssumption DEF Sent, FramesType
  <2>5. spoken[s].all - f.n <= PerTick * (0 + (StaleTicks - 1)) + spoken[s].now
    <3>1. f.age \in Nat /\ StaleTicks - 1 \in Nat /\ f.age <= StaleTicks - 1
      BY <1>1, QualityAssumption
    <3>2. /\ PerTick * f.age <= PerTick * (StaleTicks - 1)
          /\ PerTick * f.age \in Nat /\ PerTick * (StaleTicks - 1) \in Nat
      BY <3>1, QualityAssumption, More
    <3>3. 0 + (StaleTicks - 1) = StaleTicks - 1
      BY <3>1
    <3> DEFINE u == PerTick * f.age
               v == PerTick * (StaleTicks - 1)
    <3> HIDE DEF u, v
    <3>4. u <= v /\ u \in Nat /\ v \in Nat /\ spoken[s].all - f.n <= u + spoken[s].now
      BY <3>2, <2>4 DEF u, v
    <3>5. spoken[s].all - f.n <= v + spoken[s].now
      BY <3>4, <2>4, <1>1
    <3> QED BY <3>5, <3>3 DEF v
  <2>6. \A g \in air' : flows'[s].age <= g.age
    BY <2>1, <1>1, QualityAssumption DEF FramesType
  <2> HIDE DEF s
  <2> QED BY <2>1, <2>2, <2>3, <2>4, <2>5, <2>6, <1>1 DEF Reached
<1>13. ASSUME NEW t \in Streams, t # s PROVE Unheard(t) => Unheard(t)'
  <2>1. flows'[t] = flows[t] /\ (\A p \in passed' : p.stream = t => p \in passed)
    BY <1>13, <1>2, <1>3
  <2> QED BY <2>1 DEF Unheard
<1>14. ASSUME NEW t \in Streams, t # s, NEW m \in Nat, Reached(t, m) PROVE Reached(t, m)'
  <2>1. /\ flows'[t] = flows[t] /\ passed \subseteq passed'
        /\ \A p \in passed' : p.stream = t => p \in passed
    BY <1>14, <1>2, <1>3
  <2> QED BY <2>1, <1>1, <1>14 DEF Reached
<1>15. Followed'
  <2>1. ASSUME NEW t \in Streams PROVE Unheard(t)' \/ \E m \in Nat : Reached(t, m)'
    <3>1. CASE t = s
      BY <3>1, <1>12, <1>1
    <3>2. CASE t # s
      BY <3>2, <1>13, <1>14, <1>1 DEF Followed
    <3> QED BY <3>1, <3>2
  <2> QED BY <2>1 DEF Followed
<1>16. ASSUME NEW w \in Int, w <= KeepTicks PROVE Counted(w)'
  <2>1. /\ Cardinality(Within(events', w)) = Cardinality(Within(more, w))
        /\ Cardinality(Missed(events', w)) = Cardinality(Missed(more, w))
    BY <1>2, <1>6, <1>16, PrunedCounted
  <2>2. CASE w < 0
    <3>1. \A i \in DOMAIN more : more[i].age \in Nat
      <4> HIDE DEF more
      <4>1. \A i \in DOMAIN more : more[i] \in DMREvent
        BY <1>6
      <4> QED BY <4>1, QualityAssumption DEF DMREvent, Aged
    <3>2. Within(more, w) = {}
      BY <3>1, <2>2 DEF Within
    <3>3. Missed(more, w) = {}
      BY <3>2 DEF Missed
    <3>4. /\ Cardinality(Within(events', w)) = 0 /\ Cardinality(Missed(events', w)) = 0
          /\ Cardinality(Recent(passed', w)) = 0
      BY <2>1, <2>2, <3>2, <3>3, <1>4, FS_EmptySet
    <3> QED BY <3>4 DEF Counted, Within, Missed, Recent
  <2>3. CASE w >= 0
    <3>1. /\ Cardinality(Within(more, w)) = Cardinality(Within(events, w)) + 1
          /\ Cardinality(Missed(more, w)) = Cardinality(Missed(events, w)) + (f.n - a)
      BY <1>3, <1>5, <2>3, OneMore
    <3>2. Cardinality(Recent(passed', w)) = Cardinality(Recent(passed, w)) + (f.n - a) + 1
      BY <1>4, <2>3
    <3>3. Cardinality(Within(events, w)) + Cardinality(Missed(events, w)) =
            Cardinality(Recent(passed, w))
      BY <1>1, <1>16 DEF AllCounted, Counted
    <3>4. /\ Cardinality(Within(events, w)) \in Nat /\ Cardinality(Missed(events, w)) \in Nat
          /\ Cardinality(Recent(passed, w)) \in Nat
      <4>1. IsFiniteSet(Recent(passed, w))
        BY <1>3, FS_Subset DEF Recent
      <4> QED BY <4>1, <1>3, ListCounted, FS_CardinalityType
    <3> DEFINE u == Cardinality(Within(events, w))
               v == Cardinality(Missed(events, w))
               r == Cardinality(Recent(passed, w))
    <3>5. u \in Nat /\ v \in Nat /\ r \in Nat /\ u + v = r
      BY <3>3, <3>4
    <3>6. /\ Cardinality(Within(events', w)) = u + 1
          /\ Cardinality(Missed(events', w)) = v + (f.n - a)
          /\ Cardinality(Recent(passed', w)) = r + (f.n - a) + 1
      BY <2>1, <3>1, <3>2
    <3> HIDE DEF u, v, r
    <3>7. (u + 1) + (v + (f.n - a)) = r + (f.n - a) + 1
      BY <3>5, <1>1
    <3>8. Cardinality(Within(events', w)) + Cardinality(Missed(events', w)) =
            Cardinality(Recent(passed', w))
      BY <3>6, <3>7
    <3> QED BY <3>8 DEF Counted, Within, Missed, Recent
  <2> QED BY <2>2, <2>3
<1>17. AllCounted'
  BY <1>16 DEF AllCounted
<1> QED BY <1>10, <1>11, <1>15, <1>17 DEF FramesInv

LEMMA NumberOf ==
  ASSUME NEW f \in air, FramesType, Sent
  PROVE  /\ f.stream \in Streams /\ f.n \in Nat /\ f.age \in 0 .. StaleTicks - 1
         /\ spoken[f.stream].all \in Nat /\ spoken[f.stream].now \in 0 .. PerTick
         /\ f.n < spoken[f.stream].all
         /\ spoken[f.stream].all - f.n <= Numbers \div 2
<1>1. /\ f.stream \in Streams /\ f.n \in Nat /\ f.age \in 0 .. StaleTicks - 1
      /\ spoken[f.stream].all \in Nat /\ spoken[f.stream].now \in 0 .. PerTick
      /\ f.n < spoken[f.stream].all
      /\ spoken[f.stream].all - f.n <= PerTick * f.age + spoken[f.stream].now
  BY DEF FramesType, Sent
<1>2. /\ PerTick * f.age + PerTick <= Numbers \div 2 /\ PerTick * f.age \in Nat
      /\ PerTick \in Nat /\ Numbers \div 2 \in Nat
  BY <1>1, Windows, QualityAssumption
<1> DEFINE u == PerTick * f.age
           h == Numbers \div 2
<1> HIDE DEF u, h
<1>3. /\ u + PerTick <= h /\ u \in Nat /\ h \in Nat
      /\ spoken[f.stream].all - f.n <= u + spoken[f.stream].now
  BY <1>1, <1>2 DEF u, h
<1>4. spoken[f.stream].all - f.n <= h
  BY <1>1, <1>2, <1>3
<1> QED BY <1>1, <1>4 DEF h

\* The gap seen is the true one, or the frame has been overtaken.
LEMMA GapRight ==
  ASSUME FramesType, Sent, NEW f \in air, NEW m \in Nat, Reached(f.stream, m),
         flows[f.stream].age < StaleTicks
  PROVE  LET gap == Gap((((FirstSeq + f.n) % Numbers) - flows[f.stream].seq) % Numbers)
         IN  IF f.n <= m THEN gap = -1
             ELSE gap = (f.n - m) - 1 /\ f.n - m < Numbers
<1> DEFINE s == f.stream
           all == spoken[s].all
           h == Numbers \div 2
           delta == (((FirstSeq + f.n) % Numbers) - flows[s].seq) % Numbers
<1>1. /\ s \in Streams /\ f.n \in Nat /\ all \in Nat /\ f.n < all /\ all - f.n <= h
      /\ spoken[s].now \in 0 .. PerTick
  BY NumberOf
<1>2. /\ m < all /\ flows[s].seq = (FirstSeq + m) % Numbers
      /\ all - m <= PerTick * (flows[s].age + (StaleTicks - 1)) + spoken[s].now
  BY DEF Reached
<1>3. flows[s].age \in 0 .. StaleTicks - 1
  BY <1>1, QualityAssumption DEF FramesType, Aged
<1>4. h \in Nat /\ h < Numbers /\ h + h <= Numbers /\ Numbers \in Nat \ {0}
  BY Windows, QualityAssumption
<1>5. all - m <= h
  <2> DEFINE u == PerTick * (flows[s].age + (StaleTicks - 1))
  <2>1. u + PerTick <= h
    BY <1>3, Windows
  <2>2. u \in Int /\ PerTick \in Nat
    BY <1>3, QualityAssumption
  <2>3. all - m <= u + spoken[s].now
    BY <1>2
  <2> HIDE DEF u, h, all, s
  <2> QED BY <2>1, <2>2, <2>3, <1>1, <1>4
<1>6. delta = (((FirstSeq + f.n) % Numbers) - ((FirstSeq + m) % Numbers)) % Numbers
  BY <1>2
<1>7. FirstSeq + f.n \in Int /\ FirstSeq + m \in Int
  BY <1>1, QualityAssumption
<1> HIDE DEF all, h, s
<1>8. CASE f.n <= m
  <2>1. m - f.n < h /\ m - f.n >= 0
    BY <1>1, <1>2, <1>4, <1>8
  <2>2. CASE f.n = m
    <3>1. 0 \in 0 .. Numbers - 1 /\ (FirstSeq + f.n) - (FirstSeq + m) = 0
      BY <2>2, <1>4, <1>7
    <3>2. delta = 0
      BY <3>1, <1>4, <1>6, <1>7, Distance
    <3> HIDE DEF delta
    <3> QED BY <3>2, <1>8 DEF Gap, delta, s
  <2>3. CASE f.n < m
    <3> DEFINE d == Numbers - (m - f.n)
    <3>1. d \in 0 .. Numbers - 1 /\ d >= h /\ d # 0
      BY <2>1, <2>3, <1>1, <1>4
    <3>2. (FirstSeq + f.n) - (FirstSeq + m) = d - Numbers
      BY <1>1, <1>4, QualityAssumption
    <3> HIDE DEF d
    <3>3. delta = d
      BY <3>1, <3>2, <1>4, <1>6, <1>7, Distance
    <3>4. Gap(d) = -1
      BY <3>1 DEF Gap, h
    <3> QED BY <3>3, <3>4, <1>8 DEF s
  <2> QED BY <2>2, <2>3, <1>1, <1>8
<1>9. CASE f.n > m
  <2> DEFINE d == f.n - m
  <2>1. d \in 0 .. Numbers - 1 /\ d < h /\ d # 0
    BY <1>9, <1>1, <1>2, <1>4, <1>5
  <2>2. (FirstSeq + f.n) - (FirstSeq + m) = d
    BY <1>1, QualityAssumption
  <2> HIDE DEF d
  <2>3. delta = d
    BY <2>1, <2>2, <1>4, <1>6, <1>7, Distance
  <2>4. Gap(d) = d - 1 /\ d < Numbers
    BY <2>1, <1>4 DEF Gap, h
  <2>5. ~(f.n <= m)
    BY <1>9, <1>1
  <2> QED BY <2>3, <2>4, <2>5 DEF s, d
<1> QED BY <1>1, <1>8, <1>9

LEMMA FewerKept ==
  ASSUME FramesInv, air' \subseteq air, UNCHANGED <<spoken, flows, events, passed>>
  PROVE  FramesInv'
<1>1. FramesType' /\ Sent' /\ AllCounted'
  BY DEF FramesInv, FramesType, Sent, AllCounted, Counted
<1>2. ASSUME NEW s \in Streams, NEW m \in Nat, Reached(s, m) PROVE Reached(s, m)'
  BY <1>2 DEF Reached
<1>3. Followed'
  BY <1>2 DEF FramesInv, Followed, Unheard
<1> QED BY <1>1, <1>3 DEF FramesInv

LEMMA ObserveKept ==
  ASSUME FramesInv, NEW f \in air, NEW interval \in BOOLEAN,
         Observe(f, interval), air' \subseteq air, spoken' = spoken
  PROVE  FramesInv'
<1> DEFINE s == f.stream
           flow == flows[s]
           seq == (FirstSeq + f.n) % Numbers
           known == flow.age < StaleTicks
           gap == IF known THEN Gap((seq - flow.seq) % Numbers) ELSE 0
           stutter == known /\ (gap > 0 \/ interval)
           event == [age |-> 0, missing |-> gap, stutter |-> stutter]
           front == {p.n : p \in {q \in passed : q.stream = s}}
           new == IF known THEN Max(front) + 1 .. f.n ELSE {f.n}
<1>1. /\ FramesType /\ Sent /\ Followed
      /\ passed \subseteq Passing /\ s \in Streams /\ f.n \in Nat
      /\ f.age \in 0 .. StaleTicks - 1
  BY NumberOf DEF FramesInv, FramesType
<1>2. /\ gap = -1 => UNCHANGED <<flows, events, pruned>>
      /\ gap # -1 => /\ flows' = [flows EXCEPT ![s] = [seq |-> seq, age |-> 0]]
                     /\ events' = Pruned(Append(events, event))
      /\ passed' = passed \cup [stream : {s}, n : new, age : {0}]
  BY DEF Observe
<1>3. stutter \in BOOLEAN
  OBVIOUS
<1>4. CASE known
  <2>1. PICK m \in Nat : Reached(s, m)
    <3>1. flow.age \in Int /\ StaleTicks \in Int
      BY <1>1, QualityAssumption DEF FramesType, Aged
    <3>2. ~Unheard(s)
      BY <1>4, <3>1 DEF Unheard
    <3> QED BY <1>1, <3>2 DEF Followed
  <2>2. Max(front) = m
    <3>1. m \in front /\ front \subseteq Nat /\ \A y \in front : y <= m
      BY <2>1, <1>1 DEF Reached, Passing
    <3> HIDE DEF front
    <3> QED BY <3>1, MaxIs
  <2>3. new = m + 1 .. f.n
    BY <2>2, <1>4
  <2>4. IF f.n <= m THEN gap = -1 ELSE gap = (f.n - m) - 1 /\ f.n - m < Numbers
    BY <1>1, <1>4, <2>1, GapRight
  <2>5. CASE f.n <= m
    <3> HIDE DEF gap, new
    <3>1. new = {}
      <4>1. m + 1 .. f.n = {}
        BY <2>5, <1>1
      <4> QED BY <4>1, <2>3
    <3>2. gap = -1
      BY <2>4, <2>5
    <3>3. UNCHANGED <<spoken, flows, events, passed>>
      BY <3>1, <3>2, <1>2
    <3> QED BY <3>3, FewerKept
  <2>6. CASE f.n > m
    <3>1. gap = f.n - (m + 1) /\ gap # -1 /\ m + 1 <= f.n /\ f.n - (m + 1) < Numbers
      BY <2>4, <2>6, <1>1, QualityAssumption
    <3>2. \A p \in passed : p.stream = s => p.n < m + 1
      BY <2>1, <1>1 DEF Reached, Passing
    <3>3. event = [age |-> 0, missing |-> f.n - (m + 1), stutter |-> stutter]
      BY <3>1
    <3> HIDE DEF event, gap, new, stutter
    <3>4. Accepted(f, m + 1, stutter)
      BY <1>2, <3>1, <3>3, <2>3 DEF Accepted
    <3>5. m + 1 \in Nat
      OBVIOUS
    <3> QED BY <1>3, <3>1, <3>2, <3>4, <3>5, AcceptedKept
  <2> QED BY <2>5, <2>6, <1>1
<1>5. CASE ~known
  <2>1. gap = 0 /\ new = f.n .. f.n
    BY <1>5, <1>1
  <2>2. ASSUME NEW p \in passed, p.stream = s PROVE p.n < f.n
    <3>1. PICK m \in Nat : Reached(s, m)
      BY <2>2, <1>1 DEF Followed, Unheard
    <3>2. ~(f.n <= m)
      <4>1. f.n <= m => flow.age <= f.age
        BY <3>1 DEF Reached
      <4>2. flow.age \in Nat
        BY <1>1, QualityAssumption DEF FramesType, Aged
      <4> QED BY <4>1, <4>2, <1>1, <1>5, QualityAssumption
    <3>3. p.n <= m /\ p.n \in Nat
      BY <3>1, <2>2, <1>1 DEF Reached, Passing
    <3> QED BY <3>2, <3>3, <1>1
  <2>3. event = [age |-> 0, missing |-> f.n - f.n, stutter |-> stutter]
    BY <2>1, <1>1
  <2>4. gap # -1 /\ f.n <= f.n /\ f.n - f.n < Numbers
    BY <2>1, <1>1, QualityAssumption
  <2> HIDE DEF event, gap, new, stutter
  <2>5. Accepted(f, f.n, stutter)
    BY <1>2, <2>1, <2>3, <2>4 DEF Accepted
  <2> QED BY <1>1, <1>3, <2>2, <2>4, <2>5, AcceptedKept
<1> QED BY <1>4, <1>5

LEMMA FramesStep == FramesInv /\ [DMRNext]_dmrVars => FramesInv'
<1> SUFFICES ASSUME FramesInv, [DMRNext]_dmrVars PROVE FramesInv'
  OBVIOUS
<1>1. CASE \E s \in Streams : Send(s)
  BY <1>1, SendKept
<1>2. CASE \E f \in air : Arrive(f)
  <2>1. PICK f \in air : Arrive(f)
    BY <1>2
  <2>2. PICK interval \in BOOLEAN : Observe(f, interval) /\ air' \subseteq air
    BY <2>1 DEF Arrive
  <2>3. spoken' = spoken
    BY <2>1 DEF Arrive
  <2> QED BY <2>2, <2>3, ObserveKept
<1>3. CASE Tick
  BY <1>3, TickKept
<1>4. CASE UNCHANGED dmrVars
  BY <1>4, FewerKept DEF dmrVars
<1> QED BY <1>1, <1>2, <1>3, <1>4 DEF DMRNext

LEMMA Ranks ==
  Rank("idle") = 1 /\ Rank("good") = 2 /\ Rank("warning") = 3 /\ Rank("fault") = 4
<1>1. /\ DOMAIN Levels = 1 .. 4
      /\ Levels[1] = "idle" /\ Levels[2] = "good"
      /\ Levels[3] = "warning" /\ Levels[4] = "fault"
  BY DEF Levels
<1>2. \A i \in 1 .. 4 : i = 1 \/ i = 2 \/ i = 3 \/ i = 4
  OBVIOUS
<1>3. ASSUME NEW level, NEW k \in 1 .. 4, Levels[k] = level,
             \A i \in 1 .. 4 : Levels[i] = level => i = k
      PROVE  Rank(level) = k
  <2>1. k \in DOMAIN Levels /\ Levels[k] = level
    BY <1>1, <1>3
  <2>2. Rank(level) \in DOMAIN Levels /\ Levels[Rank(level)] = level
    BY <2>1, Zenon DEF Rank
  <2> QED BY <2>2, <1>1, <1>3
<1>4. Rank("idle") = 1
  BY <1>1, <1>2, <1>3
<1>5. Rank("good") = 2
  BY <1>1, <1>2, <1>3
<1>6. Rank("warning") = 3
  BY <1>1, <1>2, <1>3
<1>7. Rank("fault") = 4
  BY <1>1, <1>2, <1>3
<1> QED BY <1>4, <1>5, <1>6, <1>7

LEMMA WorstOfTwo ==
  ASSUME NEW a \in {"idle", "good", "warning", "fault"},
         NEW b \in {"idle", "good", "warning", "fault"}
  PROVE  Worst({a, b}) = IF Rank(b) > Rank(a) THEN b ELSE a
<1> DEFINE set == {Rank(l) : l \in {a, b}}
           m == IF Rank(b) > Rank(a) THEN Rank(b) ELSE Rank(a)
<1>1. Rank(a) \in 1 .. 4 /\ Rank(b) \in 1 .. 4 /\ Levels[Rank(a)] = a /\ Levels[Rank(b)] = b
  BY Ranks DEF Levels
<1>2. set = {Rank(a), Rank(b)}
  OBVIOUS
<1>3. set \subseteq Nat /\ m \in set /\ \A y \in set : y <= m
  BY <1>1, <1>2
<1>4. Max(set) = m
  <2> HIDE DEF set, m
  <2> QED BY <1>3, MaxIs
<1>5. Worst({a, b}) = Levels[m]
  BY <1>4 DEF Worst
<1> QED BY <1>1, <1>5

LEMMA LossLevels ==
  ASSUME NEW received \in Nat \ {0}, NEW missing \in Nat
  PROVE  SampledLossLevel(0, received, missing) \in {"good", "warning", "fault"}
<1>1. QualityLevel(missing, received + missing, 0) \in {"good", "warning", "fault"}
  BY DEF QualityLevel
<1>2. ~(received + missing = 0)
  OBVIOUS
<1> QED BY <1>1, <1>2 DEF SampledLossLevel

LEMMA FramesAreCounted == FramesInv => FramesCounted
<1> SUFFICES ASSUME FramesInv PROVE FramesCounted
  OBVIOUS
<1> DEFINE now == Judged(events)
           received == Cardinality(Within(events, WindowTicks))
           missing == Cardinality(Missed(events, WindowTicks))
           stutters == Cardinality({i \in Within(events, WindowTicks) : events[i].stutter})
           loss == IF received > 0 THEN SampledLossLevel(0, received, missing) ELSE "idle"
           stutter == IF received = 0 THEN "idle"
                      ELSE IF stutters >= 5 /\ AtLeast(stutters, received, 50) THEN "fault"
                      ELSE IF stutters >= 3 /\ AtLeast(stutters, received, 10) THEN "warning"
                      ELSE "good"
           worse == stutter = "fault" \/ (stutter = "warning" /\ loss = "good")
<1>1. now = [received |-> received, missing |-> missing, loss |-> loss,
             stutter |-> stutter, level |-> IF worse THEN stutter ELSE loss]
  BY DEF Judged, Within, Missed
<1>2. received \in Nat /\ missing \in Nat
  BY ListCounted DEF FramesInv, FramesType
<1>3. received + missing = Cardinality({p \in passed : p.age <= WindowTicks})
  BY QualityAssumption DEF FramesInv, AllCounted, Counted, Recent
<1>4. now.level = Worst({now.loss, now.stutter})
  <2> HIDE DEF received, missing, stutters
  <2>1. /\ now.loss = loss /\ now.stutter = stutter
        /\ now.level = IF worse THEN stutter ELSE loss
    BY <1>1
  <2>2. CASE received = 0
    <3>1. loss = "idle" /\ stutter = "idle"
      BY <2>2
    <3>2. Worst({"idle", "idle"}) = "idle"
      BY WorstOfTwo
    <3> HIDE DEF loss, stutter, now
    <3> QED BY <2>1, <3>1, <3>2
  <2>3. CASE received > 0
    <3>1. loss \in {"good", "warning", "fault"}
      BY <1>2, <2>3, LossLevels
    <3>2. stutter \in {"good", "warning", "fault"}
      BY <2>3
    <3> HIDE DEF loss, stutter, now
    <3>3. Worst({loss, stutter}) = IF Rank(stutter) > Rank(loss) THEN stutter ELSE loss
      BY <3>1, <3>2, WorstOfTwo
    <3>4. worse <=> Rank(stutter) > Rank(loss) \/ (stutter = "fault" /\ loss = "fault")
      BY <3>1, <3>2, Ranks
    <3> QED BY <2>1, <3>3, <3>4
  <2> QED BY <1>2, <2>2, <2>3
<1>5. now.received = received /\ now.missing = missing
  BY <1>1
<1> QED BY <1>3, <1>4, <1>5 DEF FramesCounted

(* Answers of the vocoder.                                                 *)

AnswersType == answers \in [Endings -> Nat]

LEMMA AnswersStart == QualityInit => AnswersType
BY DEF QualityInit, AnswersType

LEMMA AnswersStep == AnswersType /\ [VocoderNext]_answers => AnswersType'
<1> SUFFICES ASSUME AnswersType, [VocoderNext]_answers PROVE AnswersType'
  OBVIOUS
<1>1. ASSUME NEW e \in Endings, Exchange(e) PROVE AnswersType'
  BY <1>1 DEF Exchange, AnswersType
<1>2. ASSUME NEW e \in Endings, Leaves(e) PROVE AnswersType'
  BY <1>2 DEF Leaves, AnswersType
<1> QED BY <1>1, <1>2 DEF VocoderNext, AnswersType

LEMMA SlownessIsJudged == AnswersType => SlownessJudged
<1> SUFFICES ASSUME AnswersType, answers.failed = 0, Successes >= 20
             PROVE  LET slow == answers.slow + answers.late
                    IN  VocoderLevel = IF 20 * answers.late > Successes THEN "fault"
                                       ELSE IF 20 * slow > Successes THEN "warning"
                                       ELSE "good"
  BY DEF SlownessJudged
<1> DEFINE fast == answers.fast
           slow == answers.slow
           late == answers.late
           n == Successes
<1>1. fast \in Nat /\ slow \in Nat /\ late \in Nat /\ n = fast + slow + late
  BY DEF AnswersType, Endings, Successes
<1>2. n \in Nat /\ n >= 20
  BY <1>1
<1>3. /\ VocoderLevel = IF P95(n) = "late" THEN "fault"
                        ELSE IF P95(n) # "fast" THEN "warning" ELSE "good"
  BY <1>1, <1>2 DEF VocoderLevel
<1>4. P95(n) = IF Place(n) < fast THEN "fast"
               ELSE IF Place(n) < fast + slow THEN "slow" ELSE "late"
  BY <1>2 DEF P95
<1> HIDE DEF fast, slow, late, n
<1>5. Place(n) < fast <=> ~(20 * (slow + late) > n)
  BY <1>1, <1>2 DEF Place
<1>6. Place(n) < fast + slow <=> ~(20 * late > n)
  BY <1>1, <1>2 DEF Place
<1>7. Place(n) \in Int
  BY <1>2 DEF Place
<1>8. VocoderLevel = IF 20 * late > n THEN "fault"
                     ELSE IF 20 * (slow + late) > n THEN "warning" ELSE "good"
  BY <1>1, <1>3, <1>4, <1>5, <1>6, <1>7
<1> QED BY <1>8 DEF slow, late, n

(* Counters of the host.                                                   *)

Readings == [Interfaces -> [Kinds -> 0 .. CounterMod - 1]]

HostInv ==
  /\ counters \in Readings
  /\ previous # NoSample =>
       /\ previous.interface \in Interfaces
       /\ previous.count = counters[previous.interface]
  /\ shown \in [available : BOOLEAN, count : [Kinds -> Nat], truth : [Kinds -> Nat]]
  /\ HostNotBlamed

LEMMA KindsAre == Kinds = {"packets", "dropped", "errors"}
BY DEF Kinds, Zero

LEMMA HostStart == QualityInit => HostInv
BY QualityAssumption, KindsAre
DEF QualityInit, HostInv, Readings, Zero, NoSample, HostNotBlamed

LEMMA BusiestIs == ASSUME NEW total \in Readings PROVE Busiest(total) \in Interfaces
<1> DEFINE seen == {total[i].packets : i \in Interfaces}
<1>1. \A i \in Interfaces : total[i].packets \in Nat /\ total[i].packets < CounterMod
  BY KindsAre, QualityAssumption DEF Readings
<1>2. seen \subseteq Nat /\ seen # {} /\ \A y \in seen : y < CounterMod
  <2>1. PICK i \in Interfaces : TRUE
    BY QualityAssumption
  <2>2. total[i].packets \in seen
    OBVIOUS
  <2> QED BY <1>1, <2>2
<1>3. PICK x \in seen : \A y \in seen : x >= y
  <2> HIDE DEF seen
  <2>1. CounterMod \in Nat
    BY QualityAssumption
  <2> QED BY <1>2, <2>1, GreatestOf
<1> DEFINE first == {i \in Interfaces : total[i].packets = x}
<1>4. first \subseteq Nat /\ first # {}
  BY QualityAssumption
<1>5. PICK i \in first : \A j \in first : i <= j
  <2> HIDE DEF first
  <2> QED BY <1>4, LeastOf
<1>6. \A j \in Interfaces : \/ total[i].packets > total[j].packets
                            \/ total[i].packets = total[j].packets /\ i <= j
  <2>1. ASSUME NEW j \in Interfaces
        PROVE  \/ total[i].packets > total[j].packets
               \/ total[i].packets = total[j].packets /\ i <= j
    <3>1. total[j].packets \in seen /\ total[i].packets = x
      OBVIOUS
    <3>2. x >= total[j].packets /\ x \in Nat /\ total[j].packets \in Nat
      BY <3>1, <1>2, <1>3, <1>1
    <3>3. total[j].packets = x => i <= j
      BY <1>5
    <3> QED BY <3>1, <3>2, <3>3
  <2> QED BY <2>1
<1>7. i \in Interfaces
  OBVIOUS
<1> QED BY <1>6, <1>7, Zenon DEF Busiest

LEMMA Less ==
  ASSUME NEW x \in Nat, NEW m \in Nat \ {0}
  PROVE  x % m <= x /\ x % m \in Nat
<1> DEFINE k == x \div m
           p == x % m
<1>1. k \in Int /\ p \in 0 .. m - 1 /\ x = m * k + p
  OBVIOUS
<1>2. k >= 0
  OBVIOUS
<1>3. m * k >= 0
  <2> HIDE DEF k, p
  <2> QED BY <1>1, <1>2
<1> DEFINE q == m * k
<1>4. q \in Int
  BY <1>1
<1> HIDE DEF q, p
<1>5. x = q + p /\ q >= 0 /\ p \in Nat
  BY <1>1, <1>3 DEF q
<1> QED BY <1>4, <1>5 DEF p

LEMMA IntervalKept == ASSUME HostInv, Interval PROVE HostInv'
<1>1. PICK busy \in Interfaces, new \in [Kinds -> 0 .. MaxTraffic], again \in SUBSET Interfaces :
        LET more == [i \in Interfaces |-> IF i = busy THEN new ELSE Zero]
            Count(i, k) == more[i][k] + IF i \in again THEN 0 ELSE counters[i][k]
        IN /\ counters' = [i \in Interfaces |-> [k \in Kinds |-> Count(i, k)]]
           /\ \A i \in Interfaces, k \in Kinds : Count(i, k) < CounterMod
           /\ ObserveSample(counters', more)
  BY DEF Interval
<1> DEFINE more == [i \in Interfaces |-> IF i = busy THEN new ELSE Zero]
           Count(i, k) == more[i][k] + IF i \in again THEN 0 ELSE counters[i][k]
<1>2. ASSUME NEW i \in Interfaces, NEW k \in Kinds
      PROVE  /\ more[i][k] \in Nat /\ counters[i][k] \in Nat
             /\ counters'[i][k] = Count(i, k) /\ Count(i, k) < CounterMod
  <2>1. new[k] \in Nat /\ Zero[k] \in Nat
    BY KindsAre, QualityAssumption DEF Zero
  <2>2. counters[i][k] \in Nat
    BY QualityAssumption DEF HostInv, Readings
  <2> QED BY <1>1, <2>1, <2>2
<1>3. counters' = [i \in Interfaces |-> [k \in Kinds |-> Count(i, k)]]
  BY <1>1
<1>4. ObserveSample(counters', more)
  BY <1>1
<1>5. ASSUME NEW i \in Interfaces, NEW k \in Kinds PROVE Count(i, k) \in 0 .. CounterMod - 1
  <2>1. Count(i, k) \in Nat
    BY <1>2
  <2> HIDE DEF Count
  <2> QED BY <1>2, <2>1, QualityAssumption
<1> HIDE DEF Count
<1>6. counters' \in Readings
  BY <1>3, <1>5 DEF Readings
<1> DEFINE b == Busiest(counters')
           sample == [interface |-> b, count |-> counters'[b]]
<1>7. b \in Interfaces
  BY <1>6, BusiestIs
<1> HIDE DEF more
<1>8. /\ previous' = sample
      /\ shown' = IF Comparable(sample)
                  THEN [available |-> TRUE, truth |-> more[b],
                        count |-> [k \in Kinds |-> (sample.count[k] - previous.count[k]) % CounterMod]]
                  ELSE [shown EXCEPT !.available = FALSE]
  BY <1>4 DEF ObserveSample
<1>9. previous'.interface \in Interfaces /\ previous'.count = counters'[previous'.interface]
  BY <1>7, <1>8
<1>10. more[b] \in [Kinds -> Nat]
  <2>1. more[b] \in {new, Zero}
    BY <1>7 DEF more
  <2>2. new \in [Kinds -> Nat] /\ Zero \in [Kinds -> Nat]
    BY KindsAre, QualityAssumption DEF Zero
  <2> QED BY <2>1, <2>2
<1> DEFINE Shown == [available : BOOLEAN, count : [Kinds -> Nat], truth : [Kinds -> Nat]]
<1>11. HostNotBlamed' /\ shown' \in Shown
  <2>1. CASE Comparable(sample)
    <3>1. /\ previous.interface = b /\ previous.count = counters[b]
          /\ \A k \in Kinds : counters'[b][k] >= counters[b][k]
      BY <2>1 DEF Comparable, HostInv
    <3>2. ASSUME NEW k \in Kinds
          PROVE  (counters'[b][k] - counters[b][k]) % CounterMod <= more[b][k]
      <4> DEFINE x == counters'[b][k]
                 y == counters[b][k]
                 z == more[b][k]
      <4>1. /\ y \in Nat /\ z \in Nat /\ x >= y
            /\ x = z + IF b \in again THEN 0 ELSE y
        BY <1>2, <1>7, <3>1 DEF Count
      <4> HIDE DEF x, y, z, b
      <4>2. x - y \in Nat /\ x - y <= z
        BY <4>1
      <4>3. (x - y) % CounterMod <= x - y /\ (x - y) % CounterMod \in Nat
        BY <4>2, Less, QualityAssumption
      <4>4. (x - y) % CounterMod <= z
        BY <4>1, <4>2, <4>3
      <4> QED BY <4>4 DEF x, y, z
    <3>3. shown' = [available |-> TRUE, truth |-> more[b],
                    count |-> [k \in Kinds |-> (counters'[b][k] - counters[b][k]) % CounterMod]]
      BY <1>8, <2>1, <3>1
    <3>4. ASSUME NEW k \in Kinds
          PROVE  (counters'[b][k] - counters[b][k]) % CounterMod \in Nat
      <4>1. counters'[b][k] \in Int /\ counters[b][k] \in Int
        BY <1>2, <1>7 DEF Count
      <4> HIDE DEF b
      <4> QED BY <4>1, QualityAssumption
    <3> HIDE DEF b
    <3>5. shown' \in Shown
      BY <3>3, <3>4, <1>10
    <3>6. HostNotBlamed'
      BY <3>2, <3>3 DEF HostNotBlamed
    <3> QED BY <3>5, <3>6
  <2>2. CASE ~Comparable(sample)
    <3>1. shown' = [shown EXCEPT !.available = FALSE]
      BY <2>2, <1>8
    <3>2. shown \in Shown
      BY DEF HostInv
    <3>3. shown' \in Shown /\ shown'.available = FALSE
      BY <3>1, <3>2
    <3>4. HostNotBlamed'
      BY <3>3 DEF HostNotBlamed
    <3> QED BY <3>3, <3>4
  <2> QED BY <2>1, <2>2
<1> QED BY <1>6, <1>9, <1>11 DEF HostInv

LEMMA HostStep == HostInv /\ [NetNext]_netVars => HostInv'
<1> SUFFICES ASSUME HostInv, [NetNext]_netVars PROVE HostInv'
  OBVIOUS
<1>1. CASE Forget
  BY <1>1 DEF Forget, HostInv, HostNotBlamed
<1>2. CASE UNCHANGED netVars
  BY <1>2 DEF netVars, HostInv, HostNotBlamed
<1> QED BY <1>1, <1>2, IntervalKept DEF NetNext

QualityInv == FramesInv /\ AnswersType /\ HostInv

LEMMA QualityStarts == QualityInit => QualityInv
BY FramesStart, AnswersStart, HostStart DEF QualityInv

LEMMA MonitorsStep ==
  [DashNext]_dashVars => [DMRNext]_dmrVars /\ [VocoderNext]_answers /\ [NetNext]_netVars
<1> SUFFICES ASSUME [DashNext]_dashVars
             PROVE  [DMRNext]_dmrVars /\ [VocoderNext]_answers /\ [NetNext]_netVars
  OBVIOUS
<1>1. CASE QualityNext
  BY <1>1 DEF QualityNext
<1>2. CASE UNCHANGED qualityVars
  BY <1>2 DEF qualityVars
<1> QED BY <1>1, <1>2 DEF DashNext, HistoryNext, LiveNext, LookupNext, dashVars

LEMMA QualityStep == QualityInv /\ [DashNext]_dashVars => QualityInv'
BY MonitorsStep, FramesStep, AnswersStep, HostStep DEF QualityInv

LEMMA QualityImplied == QualityInv => QualityTrue
BY FramesAreCounted, SlownessIsJudged DEF QualityInv, QualityTrue, HostInv

\* What the monitors show is true: every frame and every gap of the last half
\* minute counts once, a slow vocoder is judged by the right percentile, and no
\* interface is blamed for what its counters began again with (QualityTrue).
THEOREM QualityIsTrue == DashSpec => []QualityTrue
<1>1. DashInit => QualityInv
  BY QualityStarts DEF DashInit
<1>2. DashSpec => []QualityInv
  BY <1>1, QualityStep, PTL DEF DashSpec
<1> QED
  BY <1>2, QualityImplied, PTL
==============================================================================
