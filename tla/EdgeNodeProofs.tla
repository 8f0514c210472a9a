--------------------------- MODULE EdgeNodeProofs ---------------------------
(***************************************************************************)
(* For any sources, tags, values and rule parameters, and however poller,   *)
(* stale checker and shutdown interleave: the edge node announces every     *)
(* silence once, its messages follow the lifecycle BIRTH, DATA, DEATH, and  *)
(* what it shows of a tag lags behind the verdict only while an update is   *)
(* on its way.                                                              *)
(***************************************************************************)
EXTENDS EdgeNode, SequenceTheorems, FiniteSetTheorems, TLAPS

Fields == {"seen", "last", "lastAt", "lastChange", "unchanged", "quality", "commDown"}

\* An evaluator and the transitions computed since its tag was last read: the
\* evaluator remembers exactly which of them have been announced.
Remembers(e, f) ==
    /\ DOMAIN e = Fields
    /\ \/ f = << >> /\ e.commDown = FALSE /\ e.quality # "STALE"
       \/ f = <<"STALE">> /\ e.commDown = FALSE /\ e.quality = "STALE"
       \/ /\ f = <<"BAD">> \/ f = <<"STALE", "BAD">>
          /\ e.commDown = TRUE /\ e.quality = "BAD"

AnnouncedInv ==
    /\ DOMAIN evals = Tags /\ DOMAIN flagged = Tags
    /\ \A t \in Tags : Remembers(evals[t], flagged[t])

\* The second element of a sequence.
LEMMA AppendSecond ==
    ASSUME NEW x, NEW y
    PROVE  Append(<<x>>, y) = <<x, y>>
<1> DEFINE s == Append(<<x>>, y)
           S == {x, y}
<1>1. <<x>> \in Seq(S) /\ y \in S /\ <<x, y>> \in Seq(S)
    OBVIOUS
<1>2. s \in Seq(S) /\ Len(s) = 2 /\ s[1] = x /\ s[2] = y
    BY <1>1, AppendProperties
<1>3. Len(<<x, y>>) = 2 /\ <<x, y>>[1] = x /\ <<x, y>>[2] = y
    OBVIOUS
<1>4. \A i \in 1..Len(s) : s[i] = <<x, y>>[i]
    <2> HIDE DEF s
    <2> QED
        BY <1>2, <1>3
<1>5. Len(s) = Len(<<x, y>>)
    BY <1>2, <1>3
<1>6. s = <<x, y>>
    <2> HIDE DEF s, S
    <2> QED
        BY <1>1, <1>2, <1>4, <1>5, SeqEqual, Zenon
<1>7. QED
    BY <1>6

\* A reading, good or bad, ends the silence (quality.go Observe).
LEMMA ObserveRemembers ==
    ASSUME NEW e, NEW f, NEW v, NEW at, Remembers(e, f)
    PROVE  Remembers(Observe(e, v, at), << >>)
<1>1. CASE v = NaN
    BY <1>1 DEF Remembers, Fields, Observe
<1>2. CASE v # NaN
    <2>1. Verdict(v, at, Run(e, v, at)) # "STALE"
        BY DEF Verdict
    <2>2. QED
        BY <1>2, <2>1 DEF Remembers, Fields, Observe
<1>3. QED
    BY <1>1, <1>2

\* A failed poll is announced unless the tag is BAD (node.go OnError).
LEMMA CommRemembers ==
    ASSUME NEW e, NEW f, Remembers(e, f), e.quality # "BAD"
    PROVE  Remembers(Comm(e), Append(f, "BAD"))
<1>1. f = << >> \/ f = <<"STALE">>
    BY DEF Remembers
<1>2. Append(f, "BAD") = <<"BAD">> \/ Append(f, "BAD") = <<"STALE", "BAD">>
    <2>1. CASE f = << >>
        BY <2>1
    <2>2. CASE f = <<"STALE">>
        BY <2>2, AppendSecond
    <2>3. QED
        BY <1>1, <2>1, <2>2
<1>3. QED
    BY <1>2 DEF Remembers, Fields, Comm

\* Check announces STALE only to a tag that has announced nothing.
LEMMA CheckRemembers ==
    ASSUME NEW e, NEW f, NEW at, Remembers(e, f)
    PROVE  Remembers(Check(e, at), IF TurnsStale(e, at) THEN Append(f, "STALE") ELSE f)
<1>1. CASE TurnsStale(e, at)
    <2>1. f = << >>
        BY <1>1 DEF TurnsStale, Remembers
    <2>2. Append(f, "STALE") = <<"STALE">>
        BY <2>1
    <2>3. e.commDown = FALSE
        BY <1>1, <2>1 DEF Remembers, TurnsStale
    <2>4. Remembers(Check(e, at), <<"STALE">>)
        BY <1>1, <2>3 DEF Remembers, Fields, Check
    <2>5. QED
        BY <1>1, <2>2, <2>4
<1>2. CASE ~TurnsStale(e, at)
    BY <1>2 DEF Check
<1>3. QED
    BY <1>1, <1>2

\* The evaluators New makes have announced nothing.
LEMMA InitAnnounced == EdgeNodeInit => AnnouncedInv
    BY DEF EdgeNodeInit, AnnouncedInv, Remembers, Fields, NewEvaluator

\* node.go OnReadings: the silence of the tags read ends, the others keep theirs.
LEMMA OnReadingsAnnounced ==
    ASSUME NEW s \in Sources, AnnouncedInv, OnReadings(s)
    PROVE  AnnouncedInv'
<1> DEFINE r == readings[s]
           Seen(t) == t[1] = s /\ t[2] \in DOMAIN r
<1>1. /\ evals' = [t \in Tags |-> IF Seen(t) THEN Observe(evals[t], r[t[2]], readAt[s])
                                  ELSE evals[t]]
      /\ flagged' = [t \in Tags |-> IF Seen(t) THEN << >> ELSE flagged[t]]
    BY DEF OnReadings
<1>2. ASSUME NEW t \in Tags
      PROVE  Remembers(evals'[t], flagged'[t])
    <2> HIDE DEF Seen, r
    <2>1. Remembers(evals[t], flagged[t])
        BY DEF AnnouncedInv
    <2>2. CASE Seen(t)
        <3>1. Remembers(Observe(evals[t], r[t[2]], readAt[s]), << >>)
            BY <2>1, ObserveRemembers
        <3>2. QED
            BY <1>1, <2>2, <3>1
    <2>3. CASE ~Seen(t)
        BY <1>1, <2>1, <2>3
    <2>4. QED
        BY <2>2, <2>3
<1>3. DOMAIN evals' = Tags /\ DOMAIN flagged' = Tags
    BY <1>1
<1>4. QED
    BY <1>2, <1>3 DEF AnnouncedInv

\* node.go OnError: the tags that are not BAD announce it, the others stay silent.
LEMMA OnErrorAnnounced ==
    ASSUME NEW s \in Sources, AnnouncedInv, OnError(s)
    PROVE  AnnouncedInv'
<1> DEFINE Flags(t) == t[1] = s /\ t[2] \in {n \in Names : evals[<<s, n>>].quality # "BAD"}
<1>1. /\ evals' = [t \in Tags |-> IF Flags(t) THEN Comm(evals[t]) ELSE evals[t]]
      /\ flagged' = [t \in Tags |-> IF Flags(t) THEN Append(flagged[t], "BAD") ELSE flagged[t]]
    BY DEF OnError, ToFlag
<1>2. ASSUME NEW t \in Tags
      PROVE  Remembers(evals'[t], flagged'[t])
    <2>1. Remembers(evals[t], flagged[t])
        BY DEF AnnouncedInv
    <2>2. CASE Flags(t)
        <3>1. t = <<s, t[2]>>
            BY <2>2 DEF Tags
        <3>2. evals[t].quality # "BAD"
            BY <2>2, <3>1
        <3>3. Remembers(Comm(evals[t]), Append(flagged[t], "BAD"))
            BY <2>1, <3>2, CommRemembers
        <3> HIDE DEF Flags
        <3>4. QED
            BY <1>1, <2>2, <3>3
    <2>3. CASE ~Flags(t)
        <3> HIDE DEF Flags
        <3>1. QED
            BY <1>1, <2>1, <2>3
    <2>4. QED
        BY <2>2, <2>3
<1>3. DOMAIN evals' = Tags /\ DOMAIN flagged' = Tags
    BY <1>1
<1>4. QED
    BY <1>2, <1>3 DEF AnnouncedInv

\* node.go checkStale: the tags that turn stale announce it, once.
LEMMA CheckStaleAnnounced ==
    ASSUME AnnouncedInv, checkStale
    PROVE  AnnouncedInv'
<1> DEFINE at == started["checker"]
<1>1. /\ evals' = [t \in Tags |-> Check(evals[t], at)]
      /\ flagged' = [t \in Tags |-> IF TurnsStale(evals[t], at)
                                    THEN Append(flagged[t], "STALE") ELSE flagged[t]]
    BY DEF checkStale
<1>2. ASSUME NEW t \in Tags
      PROVE  Remembers(evals'[t], flagged'[t])
    <2>1. Remembers(evals[t], flagged[t])
        BY DEF AnnouncedInv
    <2>2. Remembers(Check(evals[t], at),
                    IF TurnsStale(evals[t], at) THEN Append(flagged[t], "STALE") ELSE flagged[t])
        BY <2>1, CheckRemembers
    <2>3. QED
        BY <1>1, <2>2
<1>3. DOMAIN evals' = Tags /\ DOMAIN flagged' = Tags
    BY <1>1
<1>4. QED
    BY <1>2, <1>3 DEF AnnouncedInv

\* No other step touches an evaluator or announces anything.
LEMMA OthersAnnounced ==
    ASSUME AnnouncedInv, UNCHANGED <<evals, flagged>>
    PROVE  AnnouncedInv'
    BY DEF AnnouncedInv

\* Between two readings of a tag the node computes at most one STALE and at
\* most one BAD message, and no STALE after a BAD (node.go OnError and
\* checkStale, quality.go Check), however polls and checks interleave.
THEOREM AnnouncedOnce == EdgeNodeSpec => []TransitionsOnce
<1>1. EdgeNodeInit => AnnouncedInv
    BY InitAnnounced
<1>2. AnnouncedInv /\ [EdgeNodeNext]_enVars => AnnouncedInv'
    <2> SUFFICES ASSUME AnnouncedInv, [EdgeNodeNext]_enVars
                 PROVE  AnnouncedInv'
        OBVIOUS
    <2>1. CASE \E s \in Sources : OnReadings(s)
        BY <2>1, OnReadingsAnnounced
    <2>2. CASE \E s \in Sources : OnError(s)
        BY <2>2, OnErrorAnnounced
    <2>3. CASE checkStale
        BY <2>3, CheckStaleAnnounced
    <2>4. CASE birth \/ go \/ wait \/ death \/ cancel \/ tick \/ ended \/ check_begins
        BY <2>4, OthersAnnounced
        DEF birth, go, wait, death, cancel, tick, ended, check_begins, enVars, history
    <2>5. CASE \E s \in Sources : pollOnce(s) \/ read_fails(s) \/ read_returns(s)
        BY <2>5, OthersAnnounced DEF pollOnce, read_fails, read_returns, history
    <2>6. CASE \E p \in Procs : return(p) \/ publish_latest(p) \/ publish_broker(p)
        BY <2>6, OthersAnnounced DEF return, publish_latest, publish_broker, history
    <2>7. CASE UNCHANGED enVars
        BY <2>7, OthersAnnounced DEF enVars, history
    <2>8. QED
        BY <2>1, <2>2, <2>3, <2>4, <2>5, <2>6, <2>7 DEF EdgeNodeNext
<1>3. AnnouncedInv => TransitionsOnce
    BY DEF AnnouncedInv, Remembers, TransitionsOnce
<1>4. QED
    BY <1>1, <1>2, <1>3, PTL DEF EdgeNodeSpec

----------------------------------------------------------------------------
\* How far Run is, what the goroutines may do meanwhile, and what is on the
\* wire: data only while the phase is "run", which begins with a BIRTH of
\* every source and ends when every goroutine has returned.
LifeInv ==
    /\ phase \in {"birth", "run", "death", "ended"} /\ step \in 0..Len(order)
    /\ DOMAIN pc = Procs /\ DOMAIN wire = Sources
    /\ phase = "birth" =>
          /\ \A p \in Procs : pc[p] = "wait"
          /\ \A i \in 1..Len(order) : wire[order[i]] = IF i <= step THEN "BIRTH" ELSE "none"
    /\ phase = "run" => \A s \in Sources : wire[s] \in {"BIRTH", "DATA"}
    /\ phase = "death" =>
          /\ \A p \in Procs : pc[p] = "done"
          /\ \A i \in 1..Len(order) : i > step => wire[order[i]] \in {"BIRTH", "DATA"}
    /\ phase = "ended" => \A p \in Procs : pc[p] \in {"wait", "done"}

\* What LifecycleOrder says of one step.
InLifecycle ==
    \A s \in Sources : wire'[s] # wire[s] =>
        <<wire[s], wire'[s]>> \in
           {<<"none", "BIRTH">>, <<"BIRTH", "DATA">>, <<"BIRTH", "DEATH">>, <<"DATA", "DEATH">>}

\* order lists the sources, each once.
LEMMA OrderLists ==
    /\ Len(order) \in Nat /\ Len(order) > 0 /\ DOMAIN order = 1..Len(order)
    /\ \A i \in 1..Len(order) : order[i] \in Sources
    /\ \A i, j \in 1..Len(order) : order[i] = order[j] => i = j
    /\ \A s \in Sources : \E i \in 1..Len(order) : order[i] = s
<1>1. order \in Seq(Sources) /\ order # << >> /\ IsInjective(order)
    BY EdgeNodeAssumption
<1>2. Len(order) \in Nat /\ Len(order) > 0 /\ DOMAIN order = 1..Len(order)
    BY <1>1, EmptySeq
<1>3. QED
    BY <1>1, <1>2 DEF IsInjective, Sources, ToSet

\* Run's own steps (node.go Run, publishLifecycle).
LEMMA BirthLife == ASSUME LifeInv, birth PROVE LifeInv' /\ InLifecycle
<1> USE OrderLists
<1>1. /\ phase = "birth" /\ step < Len(order) /\ pc' = pc /\ step \in Nat
      /\ \A i \in 1..Len(order) : wire[order[i]] = IF i <= step THEN "BIRTH" ELSE "none"
      /\ \A p \in Procs : pc[p] = "wait"
      /\ DOMAIN pc = Procs /\ DOMAIN wire = Sources
    BY DEF LifeInv, birth
<1>2. CASE step' = step + 1 /\ wire' = [wire EXCEPT ![order[step + 1]] = "BIRTH"] /\ phase' = phase
    <2>1. step + 1 \in 1..Len(order) /\ step' \in 0..Len(order)
        BY <1>1, <1>2
    <2>2. ASSUME NEW i \in 1..Len(order)
          PROVE  wire'[order[i]] = IF i = step + 1 THEN "BIRTH" ELSE wire[order[i]]
        BY <1>1, <1>2, <2>1
    <2>3. \A i \in 1..Len(order) : wire'[order[i]] = IF i <= step' THEN "BIRTH" ELSE "none"
        BY <1>1, <1>2, <2>2
    <2>4. ASSUME NEW i \in 1..Len(order), wire'[order[i]] # wire[order[i]]
          PROVE  wire[order[i]] = "none" /\ wire'[order[i]] = "BIRTH"
        BY <1>1, <2>2, <2>4
    <2>5. InLifecycle
        BY <2>4 DEF InLifecycle
    <2>6. DOMAIN pc' = Procs /\ DOMAIN wire' = Sources
        BY <1>1, <1>2
    <2>7. QED
        BY <1>1, <1>2, <2>1, <2>3, <2>5, <2>6 DEF LifeInv
<1>3. CASE phase' = "ended" /\ step' = step /\ wire' = wire
    <2>1. \A p \in Procs : pc'[p] \in {"wait", "done"}
        BY <1>1
    <2>2. InLifecycle
        BY <1>3 DEF InLifecycle
    <2>3. QED
        BY <1>1, <1>3, <2>1, <2>2 DEF LifeInv
<1>4. QED
    BY <1>2, <1>3 DEF birth

LEMMA DeathLife == ASSUME LifeInv, death PROVE LifeInv' /\ InLifecycle
<1> USE OrderLists
<1>0. /\ phase = "death" /\ step < Len(order) /\ step' = step + 1 /\ pc' = pc
      /\ phase' = "death" \/ phase' = "ended"
      /\ wire' = [wire EXCEPT ![order[step + 1]] = "DEATH"] \/ wire' = wire
    BY Zenon DEF death
<1>1. /\ step \in Nat
      /\ \A i \in 1..Len(order) : i > step => wire[order[i]] \in {"BIRTH", "DATA"}
      /\ \A p \in Procs : pc[p] = "done"
      /\ DOMAIN pc = Procs /\ DOMAIN wire = Sources
    BY <1>0 DEF LifeInv
<1>2. step + 1 \in 1..Len(order) /\ step' \in 0..Len(order)
    BY <1>0, <1>1
<1>3. CASE wire' = [wire EXCEPT ![order[step + 1]] = "DEATH"]
    <2>1. ASSUME NEW i \in 1..Len(order)
          PROVE  wire'[order[i]] = IF i = step + 1 THEN "DEATH" ELSE wire[order[i]]
        BY <1>0, <1>1, <1>2, <1>3
    <2>2. \A i \in 1..Len(order) : i > step' => wire'[order[i]] \in {"BIRTH", "DATA"}
        BY <1>0, <1>1, <2>1
    <2>3. ASSUME NEW i \in 1..Len(order), wire'[order[i]] # wire[order[i]]
          PROVE  wire[order[i]] \in {"BIRTH", "DATA"} /\ wire'[order[i]] = "DEATH"
        BY <1>0, <1>1, <2>1, <2>3
    <2>4. InLifecycle
        BY <2>3 DEF InLifecycle
    <2>5. DOMAIN pc' = Procs /\ DOMAIN wire' = Sources
        BY <1>0, <1>1, <1>3
    <2>6. QED
        BY <1>0, <1>1, <1>2, <2>2, <2>4, <2>5 DEF LifeInv
<1>4. CASE wire' = wire
    BY <1>0, <1>1, <1>2, <1>4 DEF LifeInv, InLifecycle
<1>5. QED
    BY <1>0, <1>3, <1>4

LEMMA RunLife ==
    ASSUME LifeInv, go \/ wait \/ cancel \/ tick \/ UNCHANGED enVars
    PROVE  LifeInv' /\ InLifecycle
<1> USE OrderLists
<1>1. wire' = wire
    BY DEF go, wait, cancel, tick, enVars, history
<1>2. InLifecycle
    BY <1>1 DEF InLifecycle
<1>3. CASE go
    <2>1. \A i \in 1..Len(order) : wire[order[i]] = "BIRTH"
        BY <1>3 DEF go, LifeInv
    <2>2. \A s \in Sources : wire[s] \in {"BIRTH", "DATA"}
        BY <2>1
    <2>3. QED
        BY <1>1, <1>2, <1>3, <2>2 DEF go, LifeInv
<1>4. CASE wait
    BY <1>1, <1>2, <1>4 DEF wait, LifeInv
<1>5. CASE cancel \/ tick \/ UNCHANGED enVars
    <2>1. UNCHANGED <<phase, step, pc, wire>>
        BY <1>5 DEF cancel, tick, enVars, runVars, history
    <2>2. QED
        BY <1>2, <2>1 DEF LifeInv
<1>6. QED
    BY <1>3, <1>4, <1>5

\* A goroutine's step happens in phase "run"; it leaves Run alone, and puts
\* nothing but data on the wire.
LEMMA GoroutineLife ==
    ASSUME LifeInv, UNCHANGED <<phase, step>>, phase = "run",
           DOMAIN pc' = Procs, DOMAIN wire' = Sources,
           \A s \in Sources : wire'[s] = wire[s] \/ wire'[s] = "DATA"
    PROVE  LifeInv' /\ InLifecycle
    BY DEF LifeInv, InLifecycle

\* The steps of a poller and of the checker are steps of that kind.
LEMMA StepsLife ==
    ASSUME LifeInv,
           \/ \E s \in Sources : pollOnce(s) \/ read_fails(s) \/ read_returns(s) \/ OnReadings(s) \/ OnError(s)
           \/ check_begins \/ checkStale
           \/ \E p \in Procs : return(p) \/ publish_latest(p) \/ publish_broker(p)
    PROVE  LifeInv' /\ InLifecycle
<1> "checker" \in Procs /\ \A s \in Sources : s \in Procs
    BY DEF Procs
<1>1. ASSUME NEW p \in Procs, pc[p] \notin {"wait", "done"}
      PROVE  phase = "run"
    BY <1>1 DEF LifeInv
<1>2. CASE \E s \in Sources : pollOnce(s) \/ read_fails(s) \/ read_returns(s)
    <2> PICK s \in Sources : pollOnce(s) \/ read_fails(s) \/ read_returns(s)
        BY <1>2
    <2>1. phase = "run"
        BY <1>1 DEF pollOnce, read_fails, read_returns
    <2>2. UNCHANGED <<phase, step, wire>> /\ DOMAIN pc' = Procs
        BY DEF pollOnce, read_fails, read_returns, runVars, history, LifeInv
    <2>3. QED
        BY <2>1, <2>2, GoroutineLife DEF LifeInv
<1>3. CASE \E s \in Sources : OnReadings(s) \/ OnError(s)
    <2> PICK s \in Sources : OnReadings(s) \/ OnError(s)
        BY <1>3
    <2>1. phase = "run"
        BY <1>1 DEF OnReadings, OnError
    <2>2. UNCHANGED <<phase, step, wire>> /\ DOMAIN pc' = Procs
        BY DEF OnReadings, OnError, Publishes, runVars, LifeInv
    <2>3. QED
        BY <2>1, <2>2, GoroutineLife DEF LifeInv
<1>4. CASE check_begins \/ checkStale
    <2>1. phase = "run"
        BY <1>1, <1>4 DEF check_begins, checkStale
    <2>2. UNCHANGED <<phase, step, wire>> /\ DOMAIN pc' = Procs
        BY <1>4 DEF check_begins, checkStale, Publishes, runVars, history, LifeInv
    <2>3. QED
        BY <2>1, <2>2, GoroutineLife DEF LifeInv
<1>5. CASE \E p \in Procs : return(p) \/ publish_latest(p) \/ publish_broker(p)
    <2> PICK p \in Procs : return(p) \/ publish_latest(p) \/ publish_broker(p)
        BY <1>5
    <2>1. phase = "run"
        BY <1>1 DEF return, publish_latest, publish_broker
    <2>2. UNCHANGED <<phase, step>> /\ DOMAIN pc' = Procs /\ DOMAIN wire' = Sources
        BY DEF return, publish_latest, publish_broker, Next_message, runVars, history, LifeInv
    <2>3. \A s \in Sources : wire'[s] = wire[s] \/ wire'[s] = "DATA"
        BY DEF return, publish_latest, publish_broker, history, LifeInv
    <2>4. QED
        BY <2>1, <2>2, <2>3, GoroutineLife DEF LifeInv
<1>6. QED
    BY <1>2, <1>3, <1>4, <1>5

LEMMA InitLife == EdgeNodeInit => LifeInv
    BY OrderLists DEF EdgeNodeInit, LifeInv

LEMMA NextLife == LifeInv /\ [EdgeNodeNext]_enVars => LifeInv' /\ InLifecycle
<1> SUFFICES ASSUME LifeInv, [EdgeNodeNext]_enVars
             PROVE  LifeInv' /\ InLifecycle
    OBVIOUS
<1>1. CASE birth
    BY <1>1, BirthLife
<1>2. CASE death
    BY <1>2, DeathLife
<1>3. CASE go \/ wait \/ cancel \/ tick \/ ended \/ UNCHANGED enVars
    BY <1>3, RunLife DEF ended
<1>4. CASE \/ \E s \in Sources : pollOnce(s) \/ read_fails(s) \/ read_returns(s) \/ OnReadings(s) \/ OnError(s)
           \/ check_begins \/ checkStale
           \/ \E p \in Procs : return(p) \/ publish_latest(p) \/ publish_broker(p)
    BY <1>4, StepsLife
<1>5. QED
    BY <1>1, <1>2, <1>3, <1>4 DEF EdgeNodeNext

\* Every source's messages are a BIRTH, data, a DEATH, in this order, for any
\* number of sources, however the shutdown interleaves with polls and checks
\* under way (node.go Run: BIRTH before the goroutines start, g.Wait before
\* DEATH; a BIRTH that fails ends Run before any data).
THEOREM LifecycleInOrder == EdgeNodeSpec => LifecycleOrder
    BY InitLife, NextLife, PTL DEF EdgeNodeSpec, LifecycleOrder, InLifecycle

----------------------------------------------------------------------------
\* The states of a poller or of the checker.
States == {"wait", "read", "read_ok", "failed", "check", "publish", "send", "done"}

\* Types, in parts: the clock and the pollers; the evaluators, whose last value
\* is one that was read; what is computed and what is published.
PollTyped ==
    /\ ctx \in BOOLEAN /\ now \in 0..MaxTime
    /\ started \in [Procs -> 0..MaxTime] /\ readAt \in [Sources -> 0..MaxTime]
    /\ DOMAIN readings = Sources
    /\ \A s \in Sources : \E S \in SUBSET Names : readings[s] \in [S -> Values \cup {NaN}]
    /\ up \in [Sources -> BOOLEAN] /\ polled \in [Sources -> BOOLEAN]

Typed(e) == e \in Evaluators /\ e.last \in Values \cup {0}

EvalTyped == evals \in [Tags -> Evaluators] /\ \A t \in Tags : Typed(evals[t])

OutTyped ==
    /\ pc \in [Procs -> States] /\ out \in [Procs -> Seq(MessageSet)]
    /\ \A p \in Procs : pc[p] \in {"publish", "send"} => out[p] # << >>

ShownTyped ==
    /\ latest \in [Tags -> MessageSet \cup {Silent}]
    /\ retained \in [Tags -> MessageSet \cup {Silent}]

TypeInv == PollTyped /\ EvalTyped /\ OutTyped /\ ShownTyped

LEMMA TagsFinite == IsFiniteSet(Tags)
<1>1. ASSUME NEW q, q \in Seq(ToSet(q)), IsInjective(q)
      PROVE  IsFiniteSet(ToSet(q))
    <2>1. Len(q) \in Nat /\ DOMAIN q = 1..Len(q) /\ q \in [1..Len(q) -> ToSet(q)]
        BY <1>1
    <2>2. q \in Bijection(1..Len(q), ToSet(q))
        BY <1>1, <2>1 DEF Bijection, Injection, Surjection, ToSet
    <2>3. IsFiniteSet(1..Len(q))
        BY <2>1, FS_Interval
    <2>4. QED
        BY <2>2, <2>3, FS_Bijection DEF ExistsBijection
<1>2. IsFiniteSet(Sources) /\ IsFiniteSet(Names)
    BY <1>1, EdgeNodeAssumption DEF Sources, Names
<1>3. QED
    BY <1>2, FS_Product DEF Tags

\* An order of a set of tags (sortedKeys, or the driver's) has each of them once.
LEMMA OrderOf ==
    ASSUME NEW S \in SUBSET Tags, NEW q \in SetToSeqs(S)
    PROVE  /\ q \in Seq(S) /\ Len(q) \in Nat
           /\ \A i, j \in 1..Len(q) : q[i] = q[j] => i = j
           /\ \A t \in S : \E i \in 1..Len(q) : q[i] = t
<1> DEFINE n == Cardinality(S)
<1>1. IsFiniteSet(S) /\ n \in Nat
    BY TagsFinite, FS_Subset, FS_CardinalityType
<1>2. q \in [1..n -> S] /\ \A i, j \in 1..n : i # j => q[i] # q[j]
    BY DEF SetToSeqs
<1> HIDE DEF n
<1>3. q \in Seq(S) /\ Len(q) = n
    BY <1>1, <1>2
<1>4. q \in Injection(1..n, S)
    BY <1>2 DEF Injection, IsInjective
<1>5. IsFiniteSet(1..n) /\ Cardinality(1..n) = n
    BY <1>1, FS_Interval
<1>6. q \in Surjection(1..n, S)
    BY <1>1, <1>4, <1>5, FS_Injection DEF n
<1>7. QED
    BY <1>1, <1>2, <1>3, <1>6 DEF Surjection

\* The messages about the tags of S.
LEMMA MessagesTyped ==
    ASSUME NEW S \in SUBSET Tags, NEW q \in SetToSeqs(S), NEW v, NEW e,
           \A t \in S : v[t] \in Values \cup {0, NaN} /\ e[t].quality \in Qualities
    PROVE  /\ MessagesOf(q, v, e) \in Seq(MessageSet) /\ Len(MessagesOf(q, v, e)) = Len(q)
           /\ \A i \in 1..Len(q) : MessagesOf(q, v, e)[i] = Metric(q[i], v[q[i]], e[q[i]])
<1>1. q \in Seq(S) /\ Len(q) \in Nat
    BY OrderOf
<1>2. \A i \in 1..Len(q) : Metric(q[i], v[q[i]], e[q[i]]) \in MessageSet
    BY <1>1 DEF Metric, MessageSet
<1>3. QED
    BY <1>1, <1>2 DEF MessagesOf

\* quality.go: Observe, Comm and Check.
LEMMA RulesTyped ==
    ASSUME NEW e, Typed(e)
    PROVE  /\ \A v \in Values \cup {NaN}, at \in Nat : Typed(Observe(e, v, at))
           /\ Typed(Comm(e))
           /\ \A at \in Nat : Typed(Check(e, at))
<1>1. Typed(Comm(e))
    BY DEF Typed, Comm, Evaluators, Qualities
<1>2. ASSUME NEW at \in Nat PROVE Typed(Check(e, at))
    BY DEF Typed, Check, Evaluators, Qualities
<1>3. ASSUME NEW v \in Values \cup {NaN}, NEW at \in Nat PROVE Typed(Observe(e, v, at))
    <2>1. CASE v = NaN
        BY <2>1 DEF Typed, Observe, Evaluators, Qualities
    <2>2. CASE v # NaN
        <3>1. v \in Values /\ v \in Int
            BY <2>2, QualityAssumption
        <3>2. /\ Run(e, v, at).lastChange \in Nat
              /\ Run(e, v, at).unchanged \in 0..FlatlineMinSamples
            BY QualityAssumption DEF Run, Typed, Evaluators
        <3>3. Verdict(v, at, Run(e, v, at)) \in Qualities
            BY DEF Verdict, Qualities
        <3>4. QED
            BY <2>2, <3>1, <3>2, <3>3 DEF Typed, Observe, Evaluators
    <2>3. QED
        BY <2>1, <2>2
<1>4. QED
    BY <1>1, <1>2, <1>3

\* After the mutex is released: publishAll is entered with messages only.
LEMMA PublishesTyped ==
    ASSUME OutTyped, NEW p \in Procs, NEW msgs \in Seq(MessageSet), Publishes(p, msgs)
    PROVE  OutTyped'
<1>1. /\ out' = [out EXCEPT ![p] = msgs]
      /\ \/ msgs = << >> /\ pc' = [pc EXCEPT ![p] = "wait"]
         \/ msgs # << >> /\ pc' = [pc EXCEPT ![p] = "publish"]
    BY DEF Publishes
<1>2. QED
    BY <1>1 DEF OutTyped, States

\* node.go OnReadings.
LEMMA OnReadingsTyped ==
    ASSUME TypeInv, NEW s \in Sources, OnReadings(s)
    PROVE  TypeInv'
<1> DEFINE r == readings[s]
           Seen(t) == t[1] = s /\ t[2] \in DOMAIN r
           E == [t \in Tags |-> IF Seen(t) THEN Observe(evals[t], r[t[2]], readAt[s]) ELSE evals[t]]
           Encoded == {n \in DOMAIN r : Marshals(<<s, n>>, r[n])}
           v == [t \in {s} \X DOMAIN r |-> r[t[2]]]
<1>1. PICK S \in SUBSET Names : r \in [S -> Values \cup {NaN}]
    BY DEF TypeInv, PollTyped
<1>2. DOMAIN r = S /\ (\A n \in S : r[n] \in Values \cup {NaN}) /\ readAt[s] \in Nat
    BY <1>1, EdgeNodeAssumption DEF TypeInv, PollTyped
<1>3. ASSUME NEW t \in Tags PROVE Typed(E[t])
    <2>1. Typed(evals[t])
        BY DEF TypeInv, EvalTyped
    <2>2. CASE Seen(t)
        BY <1>2, <2>1, <2>2, RulesTyped
    <2>3. CASE ~Seen(t)
        BY <2>1, <2>3
    <2>4. QED
        BY <2>2, <2>3
<1>4. evals' = E
    BY DEF OnReadings
<1>5. EvalTyped'
    <2> HIDE DEF E
    <2>1. DOMAIN E = Tags /\ E = [t \in Tags |-> E[t]]
        BY DEF E
    <2>2. E \in [Tags -> Evaluators]
        BY <1>3, <2>1 DEF Typed
    <2>3. QED
        BY <1>3, <1>4, <2>2 DEF EvalTyped
<1>6. OutTyped'
    <2>1. PICK q \in SetToSeqs({s} \X Encoded) : Publishes(s, MessagesOf(q, v, E))
        BY DEF OnReadings
    <2>2. {s} \X Encoded \in SUBSET Tags /\ s \in Procs
        BY <1>2 DEF Tags, Procs
    <2>3. \A t \in {s} \X Encoded : v[t] \in Values \cup {0, NaN}
        BY <1>2
    <2>4. \A t \in {s} \X Encoded : E[t].quality \in Qualities
        <3> HIDE DEF E, Encoded
        <3> QED
            BY <1>3, <2>2 DEF Typed, Evaluators
    <2>5. MessagesOf(q, v, E) \in Seq(MessageSet)
        <3> HIDE DEF E, v, Encoded
        <3> QED
            BY <2>2, <2>3, <2>4, MessagesTyped
    <2>6. QED
        <3> HIDE DEF E, v, Encoded
        <3> QED
            BY <2>1, <2>2, <2>5, PublishesTyped DEF TypeInv
<1>7. PollTyped'
    <2>1. /\ readings' = [readings EXCEPT ![s] = << >>] /\ readAt' = [readAt EXCEPT ![s] = 0]
          /\ UNCHANGED <<ctx, now, started, up, polled>>
        BY DEF OnReadings, runVars
    <2>2. << >> \in [{} -> Values \cup {NaN}] /\ {} \in SUBSET Names
        OBVIOUS
    <2>3. readAt' \in [Sources -> 0..MaxTime]
        BY <2>1, EdgeNodeAssumption DEF TypeInv, PollTyped
    <2>4. QED
        BY <2>1, <2>2, <2>3 DEF TypeInv, PollTyped
<1>8. ShownTyped'
    BY DEF OnReadings, TypeInv, ShownTyped
<1>9. QED
    BY <1>5, <1>6, <1>7, <1>8 DEF TypeInv

\* What OnError and checkStale publish are last values.
LEMMA LastsTyped ==
    ASSUME TypeInv, NEW E, DOMAIN E = Tags, \A t \in Tags : Typed(E[t]),
           NEW p \in Procs, NEW S \in SUBSET Tags, NEW q \in SetToSeqs(S),
           evals' = E, Publishes(p, MessagesOf(q, Lasts(E), E)), E = [t \in Tags |-> E[t]]
    PROVE  EvalTyped' /\ OutTyped'
<1>1. E \in [Tags -> Evaluators]
    BY DEF Typed
<1>2. EvalTyped'
    BY <1>1 DEF EvalTyped
<1>3. \A t \in S : Lasts(E)[t] \in Values \cup {0, NaN} /\ E[t].quality \in Qualities
    BY DEF Typed, Lasts, Evaluators
<1>4. MessagesOf(q, Lasts(E), E) \in Seq(MessageSet)
    BY <1>3, MessagesTyped
<1>5. QED
    BY <1>2, <1>4, PublishesTyped DEF TypeInv

\* node.go OnError.
LEMMA OnErrorTyped ==
    ASSUME TypeInv, NEW s \in Sources, OnError(s)
    PROVE  TypeInv'
<1> DEFINE Flag == ToFlag(s)
           E == [t \in Tags |-> IF t[1] = s /\ t[2] \in Flag THEN Comm(evals[t]) ELSE evals[t]]
<1>1. ASSUME NEW t \in Tags PROVE Typed(E[t])
    BY RulesTyped DEF TypeInv, EvalTyped
<1>2. evals' = E /\ DOMAIN E = Tags /\ E = [t \in Tags |-> E[t]]
    BY DEF OnError
<1>3. PICK q \in InOrder({s} \X Flag) : Publishes(s, MessagesOf(q, Lasts(E), E))
    BY DEF OnError
<1>4. q \in SetToSeqs({s} \X Flag) /\ {s} \X Flag \in SUBSET Tags /\ s \in Procs
    BY DEF InOrder, ToFlag, Tags, Procs
<1>5. EvalTyped' /\ OutTyped'
    <2> HIDE DEF E, Flag
    <2> QED
        BY <1>1, <1>2, <1>3, <1>4, LastsTyped
<1>6. PollTyped' /\ ShownTyped'
    BY DEF OnError, TypeInv, PollTyped, ShownTyped, runVars, pollVars
<1>7. QED
    BY <1>5, <1>6 DEF TypeInv

\* node.go checkStale.
LEMMA CheckStaleTyped ==
    ASSUME TypeInv, checkStale
    PROVE  TypeInv'
<1> DEFINE at == started["checker"]
           Turned == {t \in Tags : TurnsStale(evals[t], at)}
           E == [t \in Tags |-> Check(evals[t], at)]
<1>0. "checker" \in Procs /\ at \in Nat
    BY EdgeNodeAssumption DEF Procs, TypeInv, PollTyped
<1>1. ASSUME NEW t \in Tags PROVE Typed(E[t])
    BY <1>0, RulesTyped DEF TypeInv, EvalTyped
<1>2. evals' = E /\ DOMAIN E = Tags /\ E = [t \in Tags |-> E[t]]
    BY DEF checkStale
<1>3. PICK q \in InOrder(Turned) : Publishes("checker", MessagesOf(q, Lasts(E), E))
    BY DEF checkStale
<1>4. q \in SetToSeqs(Turned) /\ Turned \in SUBSET Tags
    BY DEF InOrder
<1>5. EvalTyped' /\ OutTyped'
    <2> HIDE DEF E, Turned
    <2> QED
        BY <1>0, <1>1, <1>2, <1>3, <1>4, LastsTyped
<1>6. PollTyped'
    <2>1. /\ started' = [started EXCEPT !["checker"] = 0]
          /\ UNCHANGED <<ctx, now, readings, readAt, up, polled>>
        BY DEF checkStale, runVars
    <2>0. started \in [Procs -> 0..MaxTime] /\ 0 \in 0..MaxTime
        BY EdgeNodeAssumption DEF TypeInv, PollTyped
    <2>2. started' \in [Procs -> 0..MaxTime]
        BY <2>0, <2>1, Zenon
    <2>3. QED
        BY <2>1, <2>2 DEF TypeInv, PollTyped
<1>7. ShownTyped'
    BY DEF checkStale, TypeInv, ShownTyped
<1>8. QED
    BY <1>5, <1>6, <1>7 DEF TypeInv

\* publishAll.
LEMMA PublishTyped ==
    ASSUME TypeInv, NEW p \in Procs, publish_latest(p) \/ publish_broker(p)
    PROVE  TypeInv'
<1>1. pc[p] \in {"publish", "send"} /\ out[p] # << >> /\ out[p] \in Seq(MessageSet)
    BY DEF publish_latest, publish_broker, TypeInv, OutTyped
<1>2. Head(out[p]) \in MessageSet /\ Len(out[p]) \in Nat /\ Len(out[p]) > 0
    BY <1>1, HeadTailProperties, EmptySeq
<1>3. CASE publish_latest(p)
    <2>1. OutTyped'
        BY <1>1, <1>3 DEF publish_latest, TypeInv, OutTyped, States
    <2>2. ShownTyped'
        BY <1>2, <1>3 DEF publish_latest, TypeInv, ShownTyped
    <2>3. PollTyped' /\ EvalTyped'
        BY <1>3 DEF publish_latest, TypeInv, PollTyped, EvalTyped, runVars, pollVars
    <2>4. QED
        BY <2>1, <2>2, <2>3 DEF TypeInv
<1>4. CASE publish_broker(p)
    <2>1. OutTyped'
        <3>1. /\ out' = [out EXCEPT ![p] = Tail(out[p])]
              /\ pc' = [pc EXCEPT ![p] = IF Len(out[p]) = 1 THEN "wait" ELSE "publish"]
            BY <1>4 DEF publish_broker, Next_message, TypeInv, OutTyped
        <3>2. /\ Tail(out[p]) \in Seq(MessageSet) /\ Len(Tail(out[p])) = Len(out[p]) - 1
              /\ Tail(out[p]) = << >> => Len(Tail(out[p])) = 0
            BY <1>1, HeadTailProperties, EmptySeq, Zenon
        <3> DEFINE rest == Tail(out[p])
        <3> HIDE DEF rest
        <3>3. out' \in [Procs -> Seq(MessageSet)] /\ pc' \in [Procs -> States]
            BY <3>1, <3>2 DEF TypeInv, OutTyped, States, rest
        <3>4. ASSUME NEW o \in Procs, pc'[o] \in {"publish", "send"}
              PROVE  out'[o] # << >>
            <4>1. CASE o = p
                BY <3>1, <3>2, <3>4, <4>1 DEF TypeInv, OutTyped
            <4>2. CASE o # p
                BY <3>1, <3>4, <4>2 DEF TypeInv, OutTyped
            <4>3. QED
                BY <4>1, <4>2
        <3>5. QED
            BY <3>3, <3>4 DEF OutTyped
    <2>2. ShownTyped'
        BY <1>2, <1>4 DEF publish_broker, TypeInv, ShownTyped
    <2>3. PollTyped' /\ EvalTyped'
        BY <1>4 DEF publish_broker, TypeInv, PollTyped, EvalTyped, runVars, pollVars
    <2>4. QED
        BY <2>1, <2>2, <2>3 DEF TypeInv
<1>5. QED
    BY <1>3, <1>4

\* Read returns readings taken since the poll began.
LEMMA ReadReturnsTyped ==
    ASSUME TypeInv, NEW s \in Sources, read_returns(s)
    PROVE  /\ readAt' \in [Sources -> 0..MaxTime] /\ DOMAIN readings' = Sources
           /\ \A o \in Sources : \E S \in SUBSET Names : readings'[o] \in [S -> Values \cup {NaN}]
<1> DEFINE Returned(S, r, at) ==
        /\ pc[s] = "read"
        /\ pc' = [pc EXCEPT ![s] = IF S = {} THEN "wait" ELSE "read_ok"]
        /\ readings' = [readings EXCEPT ![s] = r]
        /\ readAt' = [readAt EXCEPT ![s] = IF S = {} THEN 0 ELSE at]
        /\ started' = [started EXCEPT ![s] = 0]
        /\ up' = [up EXCEPT ![s] = TRUE]
        /\ polled' = [polled EXCEPT ![s] = TRUE]
        /\ UNCHANGED <<runVars, now, evals, out, latest, retained, history>>
<1>0. \E S \in SUBSET Names : \E r \in [S -> Values \cup {NaN}] : \E at \in started[s]..now :
         Returned(S, r, at)
    BY DEF read_returns
<1>1. PICK S \in SUBSET Names :
         \E r \in [S -> Values \cup {NaN}] : \E at \in started[s]..now : Returned(S, r, at)
    BY <1>0
<1>2. PICK r \in [S -> Values \cup {NaN}], at \in started[s]..now : Returned(S, r, at)
    BY <1>1
<1>3. at \in 0..MaxTime /\ 0 \in 0..MaxTime /\ s \in Procs
    <2>1. s \in Procs
        BY DEF Procs
    <2>2. QED
        BY <2>1, EdgeNodeAssumption DEF TypeInv, PollTyped
<1>4. readAt' \in [Sources -> 0..MaxTime]
    BY <1>2, <1>3 DEF TypeInv, PollTyped
<1>5. QED
    BY <1>2, <1>4 DEF TypeInv, PollTyped

\* Run, the clock, the beginning and the end of a poll, and a return.
LEMMA ControlTyped ==
    ASSUME TypeInv,
           \/ birth \/ go \/ wait \/ death \/ cancel \/ tick \/ check_begins \/ UNCHANGED enVars
           \/ \E s \in Sources : pollOnce(s) \/ read_fails(s) \/ read_returns(s)
           \/ \E p \in Procs : return(p)
    PROVE  TypeInv'
<1>0. /\ "checker" \in Procs /\ \A s \in Sources : s \in Procs
      /\ MaxTime \in Nat
    BY EdgeNodeAssumption DEF Procs
<1>1. CASE birth \/ go \/ wait \/ death \/ UNCHANGED enVars
    <2>1. UNCHANGED <<ctx, now, pc, started, readings, readAt, up, polled, evals, out, latest, retained>>
        BY <1>1, Zenon DEF birth, go, wait, death, enVars, runVars, pollVars
    <2>2. QED
        BY <2>1 DEF TypeInv, PollTyped, EvalTyped, OutTyped, ShownTyped
<1>2. CASE cancel \/ tick
    <2>1. UNCHANGED <<pc, started, readings, readAt, up, polled, evals, out, latest, retained>>
        BY <1>2 DEF cancel, tick, pollVars
    <2>2. now' \in 0..MaxTime
        BY <1>0, <1>2 DEF cancel, tick, TypeInv, PollTyped
    <2>3. ctx' = TRUE \/ ctx' = ctx
        BY <1>2 DEF cancel, tick, runVars
    <2>4. ctx' \in BOOLEAN
        BY <2>3, Zenon DEF TypeInv, PollTyped
    <2>5. QED
        BY <2>1, <2>2, <2>4 DEF TypeInv, PollTyped, EvalTyped, OutTyped, ShownTyped
<1>3. CASE check_begins \/ \E s \in Sources : pollOnce(s)
    <2>1. PICK p \in Procs, x \in {"check", "read"} :
             pc' = [pc EXCEPT ![p] = x] /\ started' = [started EXCEPT ![p] = now]
        BY <1>0, <1>3 DEF check_begins, pollOnce
    <2>2. UNCHANGED <<ctx, now, readings, readAt, up, polled, evals, out, latest, retained>>
        BY <1>3 DEF check_begins, pollOnce, runVars
    <2>3. OutTyped'
        BY <2>1, <2>2 DEF TypeInv, OutTyped, States
    <2>4. started' \in [Procs -> 0..MaxTime]
        BY <2>1 DEF TypeInv, PollTyped
    <2>5. QED
        BY <2>2, <2>3, <2>4 DEF TypeInv, PollTyped, EvalTyped, ShownTyped
<1>4. CASE \E s \in Sources : read_fails(s) \/ read_returns(s)
    <2> PICK s \in Sources : read_fails(s) \/ read_returns(s)
        BY <1>4
    <2>1. UNCHANGED <<ctx, now, evals, out, latest, retained>>
        BY DEF read_fails, read_returns, runVars
    <2>2. /\ pc' = [pc EXCEPT ![s] = "wait"] \/ pc' = [pc EXCEPT ![s] = "failed"]
             \/ pc' = [pc EXCEPT ![s] = "read_ok"]
          /\ started' = [started EXCEPT ![s] = 0]
        BY DEF read_fails, read_returns
    <2>3. OutTyped'
        BY <1>0, <2>1, <2>2 DEF TypeInv, OutTyped, States
    <2>4. started' \in [Procs -> 0..MaxTime]
        BY <1>0, <2>2 DEF TypeInv, PollTyped
    <2>5. /\ up' = up \/ up' = [up EXCEPT ![s] = TRUE] \/ up' = [up EXCEPT ![s] = FALSE]
          /\ polled' = polled \/ polled' = [polled EXCEPT ![s] = TRUE]
        BY DEF read_fails, read_returns
    <2>6. up' \in [Sources -> BOOLEAN] /\ polled' \in [Sources -> BOOLEAN]
        BY <2>5, Zenon DEF TypeInv, PollTyped
    <2>7. /\ readAt' \in [Sources -> 0..MaxTime] /\ DOMAIN readings' = Sources
          /\ \A o \in Sources : \E S \in SUBSET Names : readings'[o] \in [S -> Values \cup {NaN}]
        <3>1. CASE read_fails(s)
            BY <3>1 DEF read_fails, TypeInv, PollTyped
        <3>2. CASE read_returns(s)
            BY <3>2, ReadReturnsTyped
        <3>3. QED
            BY <3>1, <3>2
    <2>8. QED
        BY <2>1, <2>3, <2>4, <2>6, <2>7 DEF TypeInv, PollTyped, EvalTyped, ShownTyped
<1>5. CASE \E p \in Procs : return(p)
    <2> PICK p \in Procs : return(p)
        BY <1>5
    <2>1. UNCHANGED <<ctx, now, started, readings, readAt, up, polled, evals, out, latest, retained>>
        BY DEF return, runVars, pollVars
    <2>2. OutTyped'
        BY <2>1 DEF return, TypeInv, OutTyped, States
    <2>3. QED
        BY <2>1, <2>2 DEF TypeInv, PollTyped, EvalTyped, ShownTyped
<1>6. QED
    BY <1>1, <1>2, <1>3, <1>4, <1>5

LEMMA InitTyped == EdgeNodeInit => TypeInv
<1> SUFFICES ASSUME EdgeNodeInit PROVE TypeInv
    OBVIOUS
<1>1. PollTyped
    <2>1. << >> \in [{} -> Values \cup {NaN}] /\ {} \in SUBSET Names
        OBVIOUS
    <2>2. ctx \in BOOLEAN /\ up \in [Sources -> BOOLEAN] /\ polled \in [Sources -> BOOLEAN]
        BY DEF EdgeNodeInit
    <2>3. /\ DOMAIN readings = Sources
          /\ \A s \in Sources : \E S \in SUBSET Names : readings[s] \in [S -> Values \cup {NaN}]
        BY <2>1 DEF EdgeNodeInit
    <2>4. /\ now \in 0..MaxTime
          /\ started \in [Procs -> 0..MaxTime] /\ readAt \in [Sources -> 0..MaxTime]
        BY EdgeNodeAssumption DEF EdgeNodeInit
    <2>5. QED
        BY <2>2, <2>3, <2>4 DEF PollTyped
<1>2. Typed(NewEvaluator)
    BY QualityAssumption DEF Typed, NewEvaluator, Evaluators, Qualities
<1>3. EvalTyped
    BY <1>2 DEF EdgeNodeInit, EvalTyped, Typed
<1>4. OutTyped /\ ShownTyped
    BY DEF EdgeNodeInit, OutTyped, ShownTyped, States
<1>5. QED
    BY <1>1, <1>3, <1>4 DEF TypeInv

LEMMA NextTyped == TypeInv /\ [EdgeNodeNext]_enVars => TypeInv'
<1> SUFFICES ASSUME TypeInv, [EdgeNodeNext]_enVars PROVE TypeInv'
    OBVIOUS
<1>1. CASE \E s \in Sources : OnReadings(s) \/ OnError(s)
    BY <1>1, OnReadingsTyped, OnErrorTyped
<1>2. CASE checkStale
    BY <1>2, CheckStaleTyped
<1>3. CASE \E p \in Procs : publish_latest(p) \/ publish_broker(p)
    BY <1>3, PublishTyped
<1>4. CASE \/ birth \/ go \/ wait \/ death \/ cancel \/ tick \/ check_begins \/ UNCHANGED enVars
           \/ \E s \in Sources : pollOnce(s) \/ read_fails(s) \/ read_returns(s)
           \/ \E p \in Procs : return(p)
    BY <1>4, ControlTyped
<1>5. CASE ended
    BY <1>5, ControlTyped DEF ended
<1>6. QED
    BY <1>1, <1>2, <1>3, <1>4, <1>5 DEF EdgeNodeNext

\* The types hold, and a goroutine is inside publishAll only with messages
\* (node.go, source.go), for any sources, tags, values and rule parameters.
THEOREM EdgeNodeTyped == EdgeNodeSpec => []EdgeNodeTypeOK
<1>1. EdgeNodeInit => LifeInv /\ TypeInv
    BY InitLife, InitTyped
<1>2. (LifeInv /\ TypeInv) /\ [EdgeNodeNext]_enVars => (LifeInv /\ TypeInv)'
    BY NextLife, NextTyped
<1>3. LifeInv /\ TypeInv => EdgeNodeTypeOK
    BY DEF LifeInv, TypeInv, PollTyped, EvalTyped, OutTyped, ShownTyped, EdgeNodeTypeOK, States
<1>4. QED
    BY <1>1, <1>2, <1>3, PTL DEF EdgeNodeSpec

----------------------------------------------------------------------------
\* Messages computed and not yet published: a poller's are about its own tags,
\* each about another one, and still current; the checker's are all STALE.
PendingInv ==
    /\ DOMAIN unsent = Tags
    /\ \A p \in Procs : pc[p] \notin {"publish", "send"} => out[p] = << >>
    /\ \A s \in Sources : \A i \in 1..Len(out[s]) :
          /\ out[s][i].tag \in Tags /\ out[s][i].tag[1] = s
          /\ Current(evals[out[s][i].tag], out[s][i])
          /\ \A j \in 1..Len(out[s]) : out[s][j].tag = out[s][i].tag => j = i
    /\ \A i \in 1..Len(out["checker"]) : out["checker"][i].quality = "STALE"

\* The cache shows message m, the broker message m, for evaluator e.
CacheShows(e, m, u) == Current(e, m) \/ "encode" \in u
BrokerShows(e, m, u) == Current(e, m) \/ u # {}

\* What is shown of a tag, between the cache and the broker and once its
\* poller's message is out.
ShownInv ==
    \A t \in Tags :
        /\ pc[t[1]] = "send" /\ Head(out[t[1]]).tag = t => CacheShows(evals[t], latest[t], unsent[t])
        /\ ~Pending(t) => /\ CacheShows(evals[t], latest[t], unsent[t])
                          /\ BrokerShows(evals[t], retained[t], unsent[t])

\* A poller has computed messages about the tags of S, its own, and has left
\* the other tags alone unless their message could not be encoded.
LEMMA PollerComputes ==
    ASSUME TypeInv, PendingInv, ShownInv, NEW s \in Sources,
           NEW S \in SUBSET Tags, \A t \in S : t[1] = s, NEW q \in SetToSeqs(S),
           NEW msgs \in Seq(MessageSet), Len(msgs) = Len(q), Publishes(s, msgs),
           \A i \in 1..Len(q) : msgs[i].tag = q[i] /\ Current(evals'[q[i]], msgs[i]),
           pc[s] \notin {"publish", "send"}, DOMAIN unsent' = Tags, UNCHANGED <<latest, retained>>,
           \A t \in Tags \ S : (evals'[t] = evals[t] /\ unsent'[t] = unsent[t]) \/ "encode" \in unsent'[t],
           \A t \in Tags : t[1] # s => evals'[t] = evals[t] /\ unsent'[t] = unsent[t]
    PROVE  PendingInv' /\ ShownInv'
<1>0. s \in Procs /\ "checker" \in Procs /\ s # "checker" /\ Sources \subseteq Procs
    BY EdgeNodeAssumption DEF Procs
<1>1. /\ q \in Seq(S) /\ Len(q) \in Nat
      /\ \A i, j \in 1..Len(q) : q[i] = q[j] => i = j
      /\ \A t \in S : \E i \in 1..Len(q) : q[i] = t
    BY OrderOf
<1>2. /\ out' = [out EXCEPT ![s] = msgs] /\ DOMAIN out = Procs /\ DOMAIN pc = Procs
      /\ pc' = [pc EXCEPT ![s] = IF msgs = << >> THEN "wait" ELSE "publish"]
    BY DEF Publishes, TypeInv, OutTyped
<1>3. /\ out'[s] = msgs /\ out[s] = << >>
      /\ pc'[s] = "publish" \/ (pc'[s] = "wait" /\ msgs = << >>)
      /\ \A p \in Procs : p # s => out'[p] = out[p] /\ pc'[p] = pc[p]
    BY <1>0, <1>2 DEF PendingInv
<1>4. \A i \in 1..Len(q) : q[i] \in S
    BY <1>1
<1>5. \A p \in Procs : pc'[p] \notin {"publish", "send"} => out'[p] = << >>
    BY <1>3 DEF PendingInv
<1>6. ASSUME NEW o \in Sources, NEW i \in 1..Len(out'[o])
      PROVE  /\ out'[o][i].tag \in Tags /\ out'[o][i].tag[1] = o
             /\ Current(evals'[out'[o][i].tag], out'[o][i])
             /\ \A j \in 1..Len(out'[o]) : out'[o][j].tag = out'[o][i].tag => j = i
    <2>1. CASE o = s
        BY <1>1, <1>3, <1>4, <2>1
    <2>2. CASE o # s
        <3>1. out'[o] = out[o]
            BY <1>0, <1>3, <2>2
        <3>2. evals'[out[o][i].tag] = evals[out[o][i].tag]
            BY <2>2, <3>1 DEF PendingInv
        <3>3. QED
            BY <3>1, <3>2 DEF PendingInv
    <2>3. QED
        BY <2>1, <2>2
<1>7. PendingInv'
    BY <1>0, <1>3, <1>5, <1>6 DEF PendingInv
<1>8. ASSUME NEW t \in Tags
      PROVE  /\ pc'[t[1]] = "send" /\ Head(out'[t[1]]).tag = t => CacheShows(evals'[t], latest'[t], unsent'[t])
             /\ ~Pending(t)' => /\ CacheShows(evals'[t], latest'[t], unsent'[t])
                                /\ BrokerShows(evals'[t], retained'[t], unsent'[t])
    <2>0. t[1] \in Sources /\ t[1] \in Procs
        BY <1>0 DEF Tags
    <2>1. CASE t[1] # s
        BY <1>3, <2>0, <2>1 DEF ShownInv, Pending
    <2>2. CASE t[1] = s /\ t \in S
        <3>1. Pending(t)'
            BY <1>1, <1>3, <2>2 DEF Pending
        <3>2. QED
            BY <1>3, <2>2, <3>1
    <2>3. CASE t[1] = s /\ t \notin S
        <3>1. ~Pending(t)
            BY <1>3, <2>3 DEF Pending
        <3>2. QED
            BY <1>3, <2>3, <3>1 DEF ShownInv, CacheShows, BrokerShows
    <2>4. QED
        BY <2>1, <2>2, <2>3
<1>9. QED
    BY <1>7, <1>8 DEF ShownInv

\* What quality.go leaves in an evaluator is what the node says of the tag.
LEMMA RulesCurrent ==
    ASSUME NEW e, Typed(e), NEW t
    PROVE  /\ \A v \in Values \cup {NaN}, at \in Nat : Current(Observe(e, v, at), Metric(t, v, Observe(e, v, at)))
           /\ Current(Comm(e), Metric(t, Comm(e).last, Comm(e)))
           /\ \A at \in Nat : TurnsStale(e, at) => Check(e, at).quality = "STALE"
<1>1. ASSUME NEW v \in Values \cup {NaN}, NEW at \in Nat
      PROVE  Current(Observe(e, v, at), Metric(t, v, Observe(e, v, at)))
    <2>1. v = NaN \/ Observe(e, v, at).last = v
        BY DEF Observe
    <2>2. QED
        BY <2>1 DEF Current, Metric
<1>2. Current(Comm(e), Metric(t, Comm(e).last, Comm(e)))
    BY DEF Current, Metric
<1>3. \A at \in Nat : TurnsStale(e, at) => Check(e, at).quality = "STALE"
    BY DEF Check, Typed, Evaluators
<1>4. QED
    BY <1>1, <1>2, <1>3

\* node.go OnReadings: every reading is put in a message, or could not be encoded.
LEMMA OnReadingsShown ==
    ASSUME TypeInv, PendingInv, ShownInv, NEW s \in Sources, OnReadings(s)
    PROVE  PendingInv' /\ ShownInv'
<1> DEFINE r == readings[s]
           Seen(t) == t[1] = s /\ t[2] \in DOMAIN r
           E == [t \in Tags |-> IF Seen(t) THEN Observe(evals[t], r[t[2]], readAt[s]) ELSE evals[t]]
           Encoded == {n \in DOMAIN r : Marshals(<<s, n>>, r[n])}
           v == [t \in {s} \X DOMAIN r |-> r[t[2]]]
           S == {s} \X Encoded
<1>1. PICK N \in SUBSET Names : r \in [N -> Values \cup {NaN}]
    BY DEF TypeInv, PollTyped
<1>2. DOMAIN r = N /\ (\A n \in N : r[n] \in Values \cup {NaN}) /\ readAt[s] \in Nat
    BY <1>1, EdgeNodeAssumption DEF TypeInv, PollTyped
<1>3. PICK q \in SetToSeqs(S) : Publishes(s, MessagesOf(q, v, E))
    BY DEF OnReadings
<1>4. S \in SUBSET Tags /\ \A t \in S : t[1] = s
    BY <1>2 DEF Tags
<1>5. ASSUME NEW t \in S
      PROVE  /\ v[t] \in Values \cup {0, NaN} /\ E[t].quality \in Qualities
             /\ Current(E[t], Metric(t, v[t], E[t]))
    <2>1. t \in Tags /\ Seen(t) /\ v[t] = r[t[2]] /\ r[t[2]] \in Values \cup {NaN}
        BY <1>2, <1>4
    <2>2. Typed(evals[t])
        BY <2>1 DEF TypeInv, EvalTyped
    <2>3. E[t] = Observe(evals[t], r[t[2]], readAt[s])
        BY <2>1
    <2> HIDE DEF E, v, r
    <2>4. Typed(E[t]) /\ Current(E[t], Metric(t, r[t[2]], E[t]))
        BY <1>2, <2>1, <2>2, <2>3, RulesTyped, RulesCurrent
    <2>5. QED
        BY <2>1, <2>4 DEF Typed, Evaluators
<1>6. /\ evals' = E /\ pc[s] = "read_ok" /\ UNCHANGED <<latest, retained>>
      /\ unsent' = [t \in Tags |-> IF ~Seen(t) THEN unsent[t]
                                   ELSE IF t[2] \in Encoded THEN {} ELSE {"encode"}]
    BY DEF OnReadings
<1> DEFINE msgs == MessagesOf(q, v, E)
<1>7. /\ msgs \in Seq(MessageSet) /\ Len(msgs) = Len(q)
      /\ \A i \in 1..Len(q) : msgs[i] = Metric(q[i], v[q[i]], E[q[i]])
    <2> HIDE DEF E, v, S
    <2> QED
        BY <1>4, <1>5, MessagesTyped
<1>8. q \in Seq(S) /\ Len(q) \in Nat
    <2> HIDE DEF S
    <2> QED
        BY <1>4, OrderOf
<1>9. ASSUME NEW i \in 1..Len(q)
      PROVE  msgs[i].tag = q[i] /\ Current(evals'[q[i]], msgs[i])
    <2> HIDE DEF E, v, S, msgs
    <2>1. q[i] \in S
        BY <1>8
    <2>2. msgs[i] = Metric(q[i], v[q[i]], E[q[i]])
        BY <1>7
    <2>3. Current(E[q[i]], Metric(q[i], v[q[i]], E[q[i]]))
        BY <1>5, <2>1
    <2>4. msgs[i].tag = q[i]
        BY <2>2 DEF Metric
    <2>5. QED
        BY <1>6, <2>2, <2>3, <2>4
<1>10. ASSUME NEW t \in Tags, t \notin S
       PROVE  (evals'[t] = evals[t] /\ unsent'[t] = unsent[t]) \/ "encode" \in unsent'[t]
    <2>1. CASE ~Seen(t)
        <3> HIDE DEF Seen, Encoded
        <3> QED
            BY <1>6, <2>1
    <2>2. CASE Seen(t)
        <3>1. t[2] \notin Encoded
            BY <1>10, <2>2 DEF Tags
        <3> HIDE DEF Seen, Encoded
        <3> QED
            BY <1>6, <2>2, <3>1
    <2>3. QED
        BY <2>1, <2>2
<1>11. ASSUME NEW t \in Tags, t[1] # s
       PROVE  evals'[t] = evals[t] /\ unsent'[t] = unsent[t]
    BY <1>6, <1>11
<1>12. DOMAIN unsent' = Tags
    BY <1>6
<1>13. QED
    <2> HIDE DEF E, v, S, msgs
    <2> QED
        BY <1>3, <1>4, <1>6, <1>7, <1>9, <1>10, <1>11, <1>12, PollerComputes DEF msgs

\* node.go OnError: a tag that is turned BAD gets a message with its last value.
LEMMA OnErrorShown ==
    ASSUME TypeInv, PendingInv, ShownInv, NEW s \in Sources, OnError(s)
    PROVE  PendingInv' /\ ShownInv'
<1> DEFINE Flag == ToFlag(s)
           E == [t \in Tags |-> IF t[1] = s /\ t[2] \in Flag THEN Comm(evals[t]) ELSE evals[t]]
           S == {s} \X Flag
<1>1. /\ evals' = E /\ pc[s] = "failed" /\ UNCHANGED <<latest, retained, unsent>>
    BY DEF OnError
<1>2. PICK q \in InOrder(S) : Publishes(s, MessagesOf(q, Lasts(E), E))
    BY DEF OnError
<1>3. q \in SetToSeqs(S) /\ S \in SUBSET Tags /\ \A t \in S : t[1] = s
    BY DEF InOrder, ToFlag, Tags
<1>4. ASSUME NEW t \in S
      PROVE  /\ Lasts(E)[t] \in Values \cup {0, NaN} /\ E[t].quality \in Qualities
             /\ Current(E[t], Metric(t, Lasts(E)[t], E[t]))
    <2>1. t \in Tags /\ E[t] = Comm(evals[t])
        BY <1>3
    <2>2. Typed(evals[t])
        BY <2>1 DEF TypeInv, EvalTyped
    <2> HIDE DEF E
    <2>3. Typed(E[t]) /\ Current(E[t], Metric(t, E[t].last, E[t])) /\ Lasts(E)[t] = E[t].last
        BY <2>1, <2>2, RulesTyped, RulesCurrent DEF Lasts
    <2>4. QED
        BY <2>3 DEF Typed, Evaluators
<1> DEFINE msgs == MessagesOf(q, Lasts(E), E)
<1>5. /\ msgs \in Seq(MessageSet) /\ Len(msgs) = Len(q)
      /\ \A i \in 1..Len(q) : msgs[i] = Metric(q[i], Lasts(E)[q[i]], E[q[i]])
    <2> HIDE DEF E, S
    <2> QED
        BY <1>3, <1>4, MessagesTyped
<1>6. q \in Seq(S) /\ Len(q) \in Nat
    <2> HIDE DEF S
    <2> QED
        BY <1>3, OrderOf
<1>7. ASSUME NEW i \in 1..Len(q)
      PROVE  msgs[i].tag = q[i] /\ Current(evals'[q[i]], msgs[i])
    <2> HIDE DEF E, S, msgs
    <2>1. q[i] \in S
        BY <1>6
    <2>2. msgs[i] = Metric(q[i], Lasts(E)[q[i]], E[q[i]])
        BY <1>5
    <2>3. Current(E[q[i]], Metric(q[i], Lasts(E)[q[i]], E[q[i]]))
        BY <1>4, <2>1
    <2>4. msgs[i].tag = q[i]
        BY <2>2 DEF Metric
    <2>5. QED
        BY <1>1, <2>2, <2>3, <2>4
<1>8. ASSUME NEW t \in Tags, t \notin S PROVE evals'[t] = evals[t]
    BY <1>1, <1>8 DEF Tags
<1>9. \A t \in Tags : t[1] # s => t \notin S
    OBVIOUS
<1>10. DOMAIN unsent' = Tags
    BY <1>1 DEF PendingInv
<1>11. QED
    <2> HIDE DEF E, S, msgs
    <2> QED
        BY <1>1, <1>2, <1>3, <1>5, <1>7, <1>8, <1>9, <1>10, PollerComputes DEF msgs

\* A STALE evaluator or message agrees with everything.
LEMMA StaleCurrent ==
    ASSUME NEW e, NEW m, e.quality = "STALE" \/ m.quality = "STALE"
    PROVE  Current(e, m)
    BY DEF Current

\* node.go checkStale: evaluators turn STALE, or stay as they are.
LEMMA CheckStaleShown ==
    ASSUME TypeInv, PendingInv, ShownInv, checkStale
    PROVE  PendingInv' /\ ShownInv'
<1> DEFINE c == "checker"
           at == started[c]
           Turned == {t \in Tags : TurnsStale(evals[t], at)}
           E == [t \in Tags |-> Check(evals[t], at)]
<1>0. c \in Procs /\ c \notin Sources /\ Sources \subseteq Procs /\ at \in Nat
    BY EdgeNodeAssumption DEF Procs, TypeInv, PollTyped
<1>1. evals' = E /\ pc[c] = "check" /\ UNCHANGED <<latest, retained, unsent>>
    BY DEF checkStale
<1>2. PICK q \in InOrder(Turned) : Publishes(c, MessagesOf(q, Lasts(E), E))
    BY DEF checkStale
<1>3. q \in SetToSeqs(Turned) /\ Turned \in SUBSET Tags
    BY DEF InOrder
<1>4. ASSUME NEW t \in Tags
      PROVE  /\ evals'[t] = evals[t] \/ evals'[t].quality = "STALE"
             /\ t \in Turned => E[t].quality = "STALE"
             /\ Typed(E[t])
    <2>1. Typed(evals[t]) /\ E[t] = Check(evals[t], at)
        BY DEF TypeInv, EvalTyped
    <2>2. CASE t \in Turned
        <3>1. TurnsStale(evals[t], at)
            BY <2>2
        <3>2. Check(evals[t], at).quality = "STALE" /\ Typed(Check(evals[t], at))
            BY <1>0, <2>1, <3>1, RulesCurrent, RulesTyped
        <3> HIDE DEF E, Turned, at
        <3>3. QED
            BY <1>1, <2>1, <2>2, <3>2
    <2>3. CASE t \notin Turned
        <3>1. ~TurnsStale(evals[t], at)
            BY <2>3
        <3>2. Check(evals[t], at) = evals[t]
            BY <3>1 DEF Check
        <3> HIDE DEF E, Turned, at
        <3>3. QED
            BY <1>1, <2>1, <2>3, <3>2
    <2>4. QED
        BY <2>2, <2>3
<1> DEFINE msgs == MessagesOf(q, Lasts(E), E)
<1>5. \A t \in Turned : Lasts(E)[t] \in Values \cup {0, NaN} /\ E[t].quality \in Qualities
    <2> HIDE DEF E
    <2> QED
        BY <1>3, <1>4 DEF Lasts, Typed, Evaluators
<1>6. Len(msgs) = Len(q) /\ \A i \in 1..Len(q) : msgs[i] = Metric(q[i], Lasts(E)[q[i]], E[q[i]])
    <2> HIDE DEF E, Turned
    <2> QED
        BY <1>3, <1>5, MessagesTyped
<1>7. q \in Seq(Turned) /\ Len(q) \in Nat
    <2> HIDE DEF Turned
    <2> QED
        BY <1>3, OrderOf
<1>8. ASSUME NEW i \in 1..Len(msgs) PROVE msgs[i].quality = "STALE"
    <2> HIDE DEF E, Turned, msgs
    <2>1. i \in 1..Len(q) /\ q[i] \in Turned
        BY <1>6, <1>7
    <2>2. E[q[i]].quality = "STALE"
        BY <1>3, <1>4, <2>1
    <2>3. msgs[i] = Metric(q[i], Lasts(E)[q[i]], E[q[i]])
        BY <1>6, <2>1
    <2>4. QED
        BY <2>2, <2>3 DEF Metric
<1>9. /\ out' = [out EXCEPT ![c] = msgs] /\ DOMAIN out = Procs /\ DOMAIN pc = Procs
      /\ pc' = [pc EXCEPT ![c] = IF msgs = << >> THEN "wait" ELSE "publish"]
    BY <1>2 DEF Publishes, TypeInv, OutTyped
<1> HIDE DEF c, msgs, E, Turned
<1>10. /\ out'[c] = msgs /\ (pc'[c] = "publish" \/ (pc'[c] = "wait" /\ msgs = << >>))
       /\ \A p \in Procs : p # c => out'[p] = out[p] /\ pc'[p] = pc[p]
    BY <1>0, <1>9
<1>11. \A p \in Procs : pc'[p] \notin {"publish", "send"} => out'[p] = << >>
    BY <1>10 DEF PendingInv
<1>12. ASSUME NEW s \in Sources, NEW i \in 1..Len(out'[s])
       PROVE  /\ out'[s][i].tag \in Tags /\ out'[s][i].tag[1] = s
              /\ Current(evals'[out'[s][i].tag], out'[s][i])
              /\ \A j \in 1..Len(out'[s]) : out'[s][j].tag = out'[s][i].tag => j = i
    <2>1. out'[s] = out[s]
        BY <1>0, <1>10
    <2>2. Current(evals[out[s][i].tag], out[s][i]) /\ out[s][i].tag \in Tags
        BY <2>1 DEF PendingInv
    <2>3. Current(evals'[out[s][i].tag], out[s][i])
        BY <1>4, <2>2, StaleCurrent
    <2>4. QED
        BY <2>1, <2>3 DEF PendingInv
<1>13. PendingInv'
    BY <1>1, <1>8, <1>10, <1>11, <1>12 DEF PendingInv, c
<1>14. ASSUME NEW t \in Tags
       PROVE  /\ pc'[t[1]] = "send" /\ Head(out'[t[1]]).tag = t => CacheShows(evals'[t], latest'[t], unsent'[t])
              /\ ~Pending(t)' => /\ CacheShows(evals'[t], latest'[t], unsent'[t])
                                 /\ BrokerShows(evals'[t], retained'[t], unsent'[t])
    <2>1. out'[t[1]] = out[t[1]] /\ pc'[t[1]] = pc[t[1]]
        BY <1>0, <1>10 DEF Tags
    <2>2. Pending(t)' <=> Pending(t)
        BY <2>1 DEF Pending
    <2>3. CASE evals'[t] = evals[t]
        BY <1>1, <2>1, <2>2, <2>3 DEF ShownInv
    <2>4. CASE evals'[t].quality = "STALE"
        BY <2>4, StaleCurrent DEF CacheShows, BrokerShows
    <2>5. QED
        BY <1>4, <2>3, <2>4
<1>15. QED
    BY <1>13, <1>14 DEF ShownInv

\* publishAll, the cache: a poller's message is current, the checker's is STALE.
LEMMA LatestShown ==
    ASSUME TypeInv, PendingInv, ShownInv, NEW p \in Procs, publish_latest(p)
    PROVE  PendingInv' /\ ShownInv'
<1> DEFINE m == Head(out[p])
<1>1. pc[p] = "publish" /\ out[p] # << >> /\ out[p] \in Seq(MessageSet)
    BY DEF publish_latest, TypeInv, OutTyped
<1>2. m = out[p][1] /\ 1 \in 1..Len(out[p]) /\ m \in MessageSet
    BY <1>1, HeadTailProperties, EmptySeq
<1>3. /\ latest' = [latest EXCEPT ![m.tag] = m] /\ pc' = [pc EXCEPT ![p] = "send"]
      /\ UNCHANGED <<evals, out, retained, unsent>>
    BY DEF publish_latest, history
<1>4. Current(evals[m.tag], m)
    BY <1>2, StaleCurrent DEF PendingInv, Procs
<1>5. PendingInv'
    <2>1. \A o \in Procs : pc'[o] \notin {"publish", "send"} => out'[o] = << >>
        BY <1>1, <1>3 DEF PendingInv, TypeInv, OutTyped
    <2>2. QED
        BY <1>3, <2>1 DEF PendingInv
<1>6. ASSUME NEW t \in Tags
      PROVE  /\ pc'[t[1]] = "send" /\ Head(out'[t[1]]).tag = t => CacheShows(evals'[t], latest'[t], unsent'[t])
             /\ ~Pending(t)' => /\ CacheShows(evals'[t], latest'[t], unsent'[t])
                                /\ BrokerShows(evals'[t], retained'[t], unsent'[t])
    <2>1. t[1] \in Procs /\ DOMAIN latest = Tags /\ DOMAIN pc = Procs
        BY DEF Tags, Procs, TypeInv, ShownTyped, OutTyped
    <2>2. Pending(t)' <=> Pending(t)
        BY <1>3 DEF Pending
    <2> HIDE DEF m
    <2>3. CASE t = m.tag
        <3>1. latest'[t] = m
            BY <1>3, <2>1, <2>3
        <3>2. CacheShows(evals'[t], latest'[t], unsent'[t])
            BY <1>3, <1>4, <2>3, <3>1 DEF CacheShows
        <3>3. QED
            BY <1>3, <2>2, <3>2 DEF ShownInv
    <2>4. CASE t # m.tag
        <3>1. latest'[t] = latest[t]
            BY <1>3, <2>1, <2>4
        <3>2. Head(out[t[1]]).tag = t => t[1] # p
            BY <2>4 DEF m
        <3>3. QED
            BY <1>3, <2>1, <2>2, <3>1, <3>2 DEF ShownInv
    <2>5. QED
        BY <2>3, <2>4
<1>7. QED
    BY <1>5, <1>6 DEF ShownInv

\* publishAll, the broker: a message is out, or it was refused.
LEMMA BrokerShown ==
    ASSUME TypeInv, PendingInv, ShownInv, NEW p \in Procs, publish_broker(p)
    PROVE  PendingInv' /\ ShownInv'
<1> DEFINE m == Head(out[p])
           rest == Tail(out[p])
<1>1. pc[p] = "send" /\ out[p] # << >> /\ out[p] \in Seq(MessageSet)
    BY DEF publish_broker, TypeInv, OutTyped
<1>2. /\ m = out[p][1] /\ Len(out[p]) \in Nat /\ Len(out[p]) > 0 /\ m \in MessageSet
      /\ rest \in Seq(MessageSet) /\ Len(rest) = Len(out[p]) - 1
      /\ \A i \in 1..Len(rest) : rest[i] = out[p][i + 1]
    BY <1>1, HeadTailProperties, EmptySeq
<1>3. /\ DOMAIN out = Procs /\ DOMAIN pc = Procs /\ DOMAIN latest = Tags /\ DOMAIN retained = Tags
      /\ DOMAIN unsent = Tags
    BY DEF TypeInv, ShownTyped, OutTyped, PendingInv
<1>4. /\ out' = [out EXCEPT ![p] = rest]
      /\ pc' = [pc EXCEPT ![p] = IF Len(out[p]) = 1 THEN "wait" ELSE "publish"]
      /\ UNCHANGED <<evals, latest>>
    BY <1>3 DEF publish_broker, Next_message
<1>5. \/ retained' = [retained EXCEPT ![m.tag] = m] /\ unsent' = unsent
      \/ retained' = retained /\ unsent' = [unsent EXCEPT ![m.tag] = @ \cup {"publish"}]
    BY DEF publish_broker
<1>6. Current(evals[m.tag], m)
    BY <1>2, StaleCurrent DEF PendingInv, Procs
<1> HIDE DEF rest, m
<1>7. /\ out'[p] = rest /\ (pc'[p] = "publish" \/ (pc'[p] = "wait" /\ Len(out[p]) = 1))
      /\ \A o \in Procs : o # p => out'[o] = out[o] /\ pc'[o] = pc[o]
    BY <1>3, <1>4
<1>8. PendingInv'
    <2>1. \A o \in Procs : pc'[o] \notin {"publish", "send"} => out'[o] = << >>
        <3>1. Len(out[p]) = 1 => rest = << >>
            BY <1>2, EmptySeq
        <3>2. QED
            BY <1>7, <3>1 DEF PendingInv
    <2>2. ASSUME NEW s \in Sources, NEW i \in 1..Len(out'[s])
          PROVE  /\ out'[s][i].tag \in Tags /\ out'[s][i].tag[1] = s
                 /\ Current(evals'[out'[s][i].tag], out'[s][i])
                 /\ \A j \in 1..Len(out'[s]) : out'[s][j].tag = out'[s][i].tag => j = i
        <3>0. s \in Procs
            BY DEF Procs
        <3>1. CASE s = p
            <4>1. /\ i + 1 \in 1..Len(out[s]) /\ out'[s][i] = out[s][i + 1]
                  /\ \A j \in 1..Len(out'[s]) : j + 1 \in 1..Len(out[s]) /\ out'[s][j] = out[s][j + 1]
                <5>1. out'[s] = rest /\ Len(rest) = Len(out[s]) - 1 /\ Len(out[s]) \in Nat
                    BY <1>2, <1>7, <3>1
                <5>2. \A j \in 1..Len(rest) : j + 1 \in 1..Len(out[s])
                    BY <5>1
                <5>3. \A j \in 1..Len(rest) : rest[j] = out[s][j + 1]
                    BY <1>2, <3>1
                <5>4. QED
                    BY <5>1, <5>2, <5>3
            <4>2. \A j \in 1..Len(out'[s]) : out[s][j + 1].tag = out[s][i + 1].tag => j + 1 = i + 1
                BY <4>1 DEF PendingInv
            <4>3. ASSUME NEW j \in 1..Len(out'[s]), out'[s][j].tag = out'[s][i].tag PROVE j = i
                <5>1. i \in Int /\ j \in Int
                    BY <1>2, <1>7, <3>1
                <5>2. j + 1 = i + 1
                    BY <4>1, <4>2, <4>3
                <5>3. QED
                    BY <5>1, <5>2
            <4>4. /\ out[s][i + 1].tag \in Tags /\ out[s][i + 1].tag[1] = s
                  /\ Current(evals[out[s][i + 1].tag], out[s][i + 1])
                BY <4>1 DEF PendingInv
            <4>5. evals' = evals
                BY <1>4
            <4>6. QED
                BY <4>1, <4>3, <4>4, <4>5
        <3>2. CASE s # p
            BY <1>4, <1>7, <3>0, <3>2 DEF PendingInv
        <3>3. QED
            BY <3>1, <3>2
    <2>3. ASSUME NEW i \in 1..Len(out'["checker"]) PROVE out'["checker"][i].quality = "STALE"
        <3>0. "checker" \in Procs
            BY DEF Procs
        <3>1. CASE p = "checker"
            <4>1. i + 1 \in 1..Len(out[p]) /\ out'[p][i] = out[p][i + 1]
                BY <1>2, <1>7, <3>1
            <4>2. QED
                BY <3>1, <4>1 DEF PendingInv
        <3>2. CASE p # "checker"
            BY <1>7, <3>0, <3>2 DEF PendingInv
        <3>3. QED
            BY <3>1, <3>2
    <2>4. DOMAIN unsent' = Tags
        BY <1>3, <1>5
    <2>5. QED
        BY <2>1, <2>2, <2>3, <2>4 DEF PendingInv
<1>9. ASSUME NEW t \in Tags
      PROVE  /\ pc'[t[1]] = "send" /\ Head(out'[t[1]]).tag = t => CacheShows(evals'[t], latest'[t], unsent'[t])
             /\ ~Pending(t)' => /\ CacheShows(evals'[t], latest'[t], unsent'[t])
                                /\ BrokerShows(evals'[t], retained'[t], unsent'[t])
    <2>1. t[1] \in Procs /\ t[1] \in Sources
        BY DEF Tags, Procs
    <2>2. "encode" \in unsent[t] => "encode" \in unsent'[t]
        BY <1>3, <1>5
    <2>3. CacheShows(evals[t], latest[t], unsent[t]) => CacheShows(evals'[t], latest'[t], unsent'[t])
        BY <1>4, <2>2 DEF CacheShows
    <2>4. pc'[t[1]] = "send" => pc[t[1]] = "send" /\ out'[t[1]] = out[t[1]]
        BY <1>7, <2>1
    <2>5. CASE t = m.tag
        <3>1. BrokerShows(evals'[t], retained'[t], unsent'[t])
            BY <1>3, <1>4, <1>5, <1>6, <2>5 DEF BrokerShows
        <3>2. CASE t[1] = p
            BY <1>1, <2>3, <2>4, <2>5, <3>1, <3>2 DEF ShownInv, m
        <3>3. CASE t[1] # p
            <4>1. Pending(t)' <=> Pending(t)
                BY <1>7, <2>1, <3>3 DEF Pending
            <4>2. QED
                BY <2>3, <2>4, <3>1, <4>1 DEF ShownInv
        <3>4. QED
            BY <3>2, <3>3
    <2>6. CASE t # m.tag
        <3>1. retained'[t] = retained[t] /\ unsent'[t] = unsent[t]
            BY <1>3, <1>5, <2>6
        <3>2. Pending(t) => Pending(t)'
            <4>1. CASE t[1] # p
                BY <1>7, <2>1, <4>1 DEF Pending
            <4>2. CASE t[1] = p
                <5>1. ASSUME NEW i \in 1..Len(out[p]), out[p][i].tag = t
                      PROVE  i - 1 \in 1..Len(rest) /\ rest[i - 1].tag = t
                    <6>1. i # 1
                        BY <1>2, <2>6, <5>1
                    <6>2. i - 1 \in 1..Len(rest)
                        BY <1>2, <6>1
                    <6>3. rest[i - 1] = out[p][(i - 1) + 1] /\ (i - 1) + 1 = i
                        BY <1>2, <6>2
                    <6>4. QED
                        BY <5>1, <6>2, <6>3
                <5>2. QED
                    BY <1>7, <4>2, <5>1 DEF Pending
            <4>3. QED
                BY <4>1, <4>2
        <3>3. QED
            BY <1>4, <2>3, <2>4, <3>1, <3>2 DEF ShownInv
    <2>7. QED
        BY <2>5, <2>6
<1>10. QED
    BY <1>8, <1>9 DEF ShownInv

\* The other steps leave what is computed and shown alone.
LEMMA OthersShown ==
    ASSUME PendingInv, ShownInv, UNCHANGED <<evals, out, latest, retained, unsent>>,
           \A p \in Procs : pc'[p] = pc[p] \/ (out[p] = << >> /\ pc'[p] # "send")
    PROVE  PendingInv' /\ ShownInv'
<1>1. PendingInv'
    BY DEF PendingInv
<1>2. \A t \in Tags : t[1] \in Procs
    BY DEF Tags, Procs
<1>3. \A t \in Tags : Pending(t)' <=> Pending(t)
    BY DEF Pending
<1>4. \A t \in Tags : pc'[t[1]] = "send" => pc[t[1]] = "send"
    BY <1>2
<1>5. QED
    BY <1>1, <1>3, <1>4 DEF ShownInv

LEMMA NextShown ==
    ASSUME TypeInv, PendingInv, ShownInv, [EdgeNodeNext]_enVars
    PROVE  PendingInv' /\ ShownInv'
<1>0. "checker" \in Procs /\ (\A s \in Sources : s \in Procs) /\ DOMAIN pc = Procs
    BY DEF Procs, TypeInv, OutTyped
<1>1. CASE \E s \in Sources : OnReadings(s) \/ OnError(s)
    BY <1>1, OnReadingsShown, OnErrorShown
<1>2. CASE checkStale
    BY <1>2, CheckStaleShown
<1>3. CASE \E p \in Procs : publish_latest(p) \/ publish_broker(p)
    BY <1>3, LatestShown, BrokerShown
<1>4. CASE birth \/ go \/ wait \/ death \/ cancel \/ tick \/ ended \/ UNCHANGED enVars
    <2>1. UNCHANGED <<pc, evals, out, latest, retained, unsent>>
        BY <1>4, Zenon DEF birth, go, wait, death, cancel, tick, ended, enVars, history
    <2>2. QED
        BY <2>1, OthersShown
<1>5. CASE check_begins \/ (\E s \in Sources : pollOnce(s)) \/ \E p \in Procs : return(p)
    <2>1. UNCHANGED <<evals, out, latest, retained, unsent>>
        BY <1>5 DEF check_begins, pollOnce, return, history
    <2>2. PICK p \in Procs, x \in {"check", "read", "done"} : pc[p] = "wait" /\ pc' = [pc EXCEPT ![p] = x]
        BY <1>0, <1>5 DEF check_begins, pollOnce, return
    <2>3. \A o \in Procs : pc'[o] = pc[o] \/ (out[o] = << >> /\ pc'[o] # "send")
        BY <1>0, <2>2 DEF PendingInv
    <2>4. QED
        BY <2>1, <2>3, OthersShown
<1>6. CASE \E s \in Sources : read_fails(s) \/ read_returns(s)
    <2> PICK s \in Sources : read_fails(s) \/ read_returns(s)
        BY <1>6
    <2>1. UNCHANGED <<evals, out, latest, retained, unsent>> /\ pc[s] = "read"
        BY DEF read_fails, read_returns, history
    <2>2. pc' = [pc EXCEPT ![s] = "wait"] \/ pc' = [pc EXCEPT ![s] = "failed"]
             \/ pc' = [pc EXCEPT ![s] = "read_ok"]
        BY DEF read_fails, read_returns
    <2>3. \A o \in Procs : pc'[o] = pc[o] \/ (out[o] = << >> /\ pc'[o] # "send")
        BY <1>0, <2>1, <2>2 DEF PendingInv
    <2>4. QED
        BY <2>1, <2>3, OthersShown
<1>7. QED
    BY <1>1, <1>2, <1>3, <1>4, <1>5, <1>6 DEF EdgeNodeNext

\* Once its poller's messages are out, the cache and the broker show of every
\* tag what its evaluator holds, for any sources and tags and however polls,
\* checks and refused messages interleave: pollers and checker publish after
\* they have released the mutex (node.go publishAll), so that only a STALE can
\* be overtaken, and nothing is missed but what could not be encoded or was
\* refused.
THEOREM ShowsCurrent == EdgeNodeSpec => []ShownIsCurrent
<1>1. EdgeNodeInit => TypeInv /\ PendingInv /\ ShownInv
    <2> SUFFICES ASSUME EdgeNodeInit PROVE PendingInv /\ ShownInv
        BY InitTyped
    <2>1. "checker" \in Procs /\ Sources \subseteq Procs
        BY DEF Procs
    <2>2. \A p \in Procs : out[p] = << >> /\ pc[p] = "wait"
        BY DEF EdgeNodeInit
    <2>3. PendingInv
        BY <2>1, <2>2 DEF EdgeNodeInit, PendingInv
    <2>4. \A t \in Tags : t[1] \in Procs
        BY DEF Tags, Procs
    <2>5. Current(NewEvaluator, Silent)
        BY DEF Current, NewEvaluator, Silent
    <2>6. \A t \in Tags : evals[t] = NewEvaluator /\ latest[t] = Silent /\ retained[t] = Silent
        BY DEF EdgeNodeInit
    <2>7. ShownInv
        BY <2>2, <2>4, <2>5, <2>6 DEF ShownInv, CacheShows, BrokerShows
    <2>8. QED
        BY <2>3, <2>7
<1>2. TypeInv /\ PendingInv /\ ShownInv /\ [EdgeNodeNext]_enVars => (TypeInv /\ PendingInv /\ ShownInv)'
    BY NextTyped, NextShown
<1>3. PendingInv /\ ShownInv => ShownIsCurrent
    BY DEF ShownInv, ShownIsCurrent, CacheShows, BrokerShows
<1>4. QED
    BY <1>1, <1>2, <1>3, PTL DEF EdgeNodeSpec
=============================================================================
