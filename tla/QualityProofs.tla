--------------------------- MODULE QualityProofs ---------------------------
(***************************************************************************)
(* The evaluator of internal/domain/quality/quality.go, which keeps a few   *)
(* counters, gives a tag the quality its whole history deserves, for any    *)
(* history and any settings of the rules.                                   *)
(***************************************************************************)
EXTENDS QualityRules, SequenceTheorems, FiniteSetTheorems, TLAPS

Call == [what : {"observe", "comm", "check"}, v : Values \cup {NaN, 0}, at : Nat]

IsLast(i, T) == i \in T /\ \A j \in T : j <= i
IsFirst(i, T) == i \in T /\ \A j \in T : i <= j

\* unchanged stops counting at FlatlineMinSamples.
Counted(k) == IF k < FlatlineMinSamples THEN k ELSE FlatlineMinSamples

HistoryTyped ==
    /\ calls \in Seq(Call) /\ now \in Nat
    /\ e \in Evaluators

\* lastAt, and the run of equal values that last, lastChange and unchanged sum up.
SummaryInv ==
    /\ Observed # {} => \E i \in Observed : IsLast(i, Observed) /\ e.lastAt = calls[i].at
    /\ e.seen = TRUE <=> Finite # {}
    /\ Finite # {} =>
          \E l \in Finite : \E f \in RunOf(l) :
             /\ IsLast(l, Finite) /\ e.last = calls[l].v
             /\ IsFirst(f, RunOf(l)) /\ e.lastChange = calls[f].at
             /\ IsFiniteSet(RunOf(l)) /\ e.unchanged = Counted(Cardinality(RunOf(l)))

\* commDown: a poll failed after every sample.
Down == \E k \in 1..Len(calls) : calls[k].what = "comm" /\ \A i \in Observed : i < k

VerdictInv ==
    /\ e.commDown = TRUE <=> Down
    /\ Observed = {} => e.quality = IF Down THEN "BAD" ELSE "GOOD"
    /\ \A i \in Observed : IsLast(i, Observed) =>
          e.quality = IF Down THEN "BAD" ELSE IF FoundStale(i) THEN "STALE" ELSE Deserved(i)

HistoryInv == HistoryTyped /\ SummaryInv /\ VerdictInv

----------------------------------------------------------------------------
\* There is only one last, and one first.
LEMMA LastIs ==
    ASSUME NEW T, T \subseteq Nat, NEW i, IsLast(i, T)
    PROVE  LastOf(T) = i
<1>1. \A k \in T : (\A j \in T : j <= k) => k = i
    BY DEF IsLast
<1>2. \E k \in T : \A j \in T : j <= k
    BY DEF IsLast
<1>3. QED
    BY <1>1, <1>2 DEF LastOf

LEMMA FirstIs ==
    ASSUME NEW T, T \subseteq Nat, NEW i, IsFirst(i, T)
    PROVE  (CHOOSE j \in T : \A k \in T : j <= k) = i
<1>1. \A j \in T : (\A k \in T : j <= k) => j = i
    BY DEF IsFirst
<1>2. \E j \in T : \A k \in T : j <= k
    BY DEF IsFirst
<1>3. QED
    BY <1>1, <1>2

\* One more call.
LEMMA HistoryGrows ==
    ASSUME HistoryTyped, NEW c \in Call, calls' = Append(calls, c)
    PROVE  LET n == Len(calls)
           IN /\ n \in Nat /\ calls' \in Seq(Call) /\ Len(calls') = n + 1 /\ calls'[n + 1] = c
              /\ \A i \in 1..n : calls'[i] = calls[i] /\ calls[i] \in Call
              /\ Observed \subseteq 1..n /\ Finite \subseteq Observed
              /\ Observed' = Observed \cup (IF c.what = "observe" THEN {n + 1} ELSE {})
              /\ Finite' = Finite \cup (IF c.what = "observe" /\ c.v # NaN THEN {n + 1} ELSE {})
<1> DEFINE n == Len(calls)
<1>1. /\ n \in Nat /\ calls' \in Seq(Call) /\ Len(calls') = n + 1 /\ calls'[n + 1] = c
      /\ \A i \in 1..n : calls'[i] = calls[i] /\ calls[i] \in Call
    BY AppendProperties DEF HistoryTyped
<1>2. \A i : i \in 1..(n + 1) <=> i \in 1..n \/ i = n + 1
    BY <1>1
<1>3. Observed \subseteq 1..n /\ Finite \subseteq Observed
    BY DEF Observed, Finite
<1> HIDE DEF n
<1>4. \A i : i \in Observed' <=> i \in 1..(n + 1) /\ calls'[i].what = "observe"
    BY <1>1 DEF Observed
<1>5. \A i : i \in Observed <=> i \in 1..n /\ calls[i].what = "observe"
    BY DEF Observed, n
<1>6. \A i : i \in Observed' <=> i \in Observed \/ (i = n + 1 /\ c.what = "observe")
    BY <1>1, <1>2, <1>4, <1>5
<1>7. \A i : i \in Finite' <=> i \in Observed' /\ calls'[i].v # NaN
    BY DEF Finite
<1>8. \A i : i \in Finite <=> i \in Observed /\ calls[i].v # NaN
    BY DEF Finite
<1>9. \A i : i \in Finite' <=> i \in Finite \/ (i = n + 1 /\ c.what = "observe" /\ c.v # NaN)
    BY <1>1, <1>3, <1>6, <1>7, <1>8
<1>10. Observed' = Observed \cup (IF c.what = "observe" THEN {n + 1} ELSE {})
    BY <1>6
<1>11. Finite' = Finite \cup (IF c.what = "observe" /\ c.v # NaN THEN {n + 1} ELSE {})
    BY <1>9
<1>12. QED
    BY <1>1, <1>3, <1>10, <1>11 DEF n

\* The run that ends with an earlier sample stays.
LEMMA RunStays ==
    ASSUME HistoryTyped, NEW c \in Call, calls' = Append(calls, c)
    PROVE  \A i \in Finite : RunOf(i)' = RunOf(i) /\ RunOf(i) \subseteq 1..Len(calls)
<1> DEFINE n == Len(calls)
<1>1. /\ n \in Nat /\ (\A i \in 1..n : calls'[i] = calls[i]) /\ Finite \subseteq 1..n
      /\ Finite \subseteq Finite' /\ \A j \in Finite' : j \in Finite \/ j = n + 1
    BY HistoryGrows
<1> HIDE DEF n
<1>2. ASSUME NEW i \in Finite
      PROVE  RunOf(i)' = RunOf(i) /\ RunOf(i) \subseteq 1..n
    <2>1. i \in 1..n /\ ~(n + 1 <= i)
        BY <1>1
    <2>2. \A j \in Finite' : j <= i => j \in Finite
        BY <1>1, <2>1
    <2>3. \A j : j \in RunOf(i)' <=>
              j \in Finite' /\ j <= i /\ \A k \in Finite' : j <= k /\ k <= i => calls'[k].v = calls'[i].v
        BY DEF RunOf
    <2>4. \A j : j \in RunOf(i) <=>
              j \in Finite /\ j <= i /\ \A k \in Finite : j <= k /\ k <= i => calls[k].v = calls[i].v
        BY DEF RunOf
    <2>5. \A k \in Finite : calls'[k].v = calls[k].v
        BY <1>1
    <2>6. \A j : j \in RunOf(i)' <=> j \in RunOf(i)
        BY <1>1, <2>2, <2>3, <2>4, <2>5
    <2>7. QED
        BY <1>1, <2>4, <2>6
<1>3. QED
    BY <1>2 DEF n

\* A finite sample continues the last run or begins one.
LEMMA RunGrows ==
    ASSUME HistoryTyped, NEW c \in Call, calls' = Append(calls, c), c.what = "observe", c.v # NaN,
           NEW n \in Nat, n = Len(calls)
    PROVE  /\ Finite = {} => RunOf(n + 1)' = {n + 1}
           /\ \A l \in Finite : IsLast(l, Finite) =>
                 RunOf(n + 1)' = IF c.v = calls[l].v THEN RunOf(l) \cup {n + 1} ELSE {n + 1}
<1>1. /\ (\A i \in 1..n : calls'[i] = calls[i]) /\ calls'[n + 1] = c
      /\ Finite \subseteq 1..n /\ Finite' = Finite \cup {n + 1}
    BY HistoryGrows
<1>2. \A j : j \in RunOf(n + 1)' <=>
          j \in Finite' /\ j <= n + 1 /\ \A k \in Finite' : j <= k /\ k <= n + 1 => calls'[k].v = calls'[n + 1].v
    BY DEF RunOf
<1>3. \A j : j \in RunOf(n + 1)' <=>
          \/ j = n + 1
          \/ j \in Finite /\ \A k \in Finite : j <= k => calls[k].v = c.v
    <2>1. \A k \in Finite : k \in Nat /\ k <= n + 1 /\ ~(n + 1 <= k) /\ calls'[k] = calls[k]
        <3>1. \A k \in Finite : k \in 1..n /\ calls'[k] = calls[k]
            BY <1>1
        <3>2. \A k \in 1..n : k \in Nat /\ k <= n + 1 /\ ~(n + 1 <= k)
            OBVIOUS
        <3>3. QED
            BY <3>1, <3>2
    <2>2. \A j : j \in Finite' <=> j \in Finite \/ j = n + 1
        BY <1>1
    <2>3. n + 1 <= n + 1
        OBVIOUS
    <2>4. ASSUME NEW j PROVE
             /\ j = n + 1 => j \in RunOf(n + 1)'
             /\ j \in Finite => (j \in RunOf(n + 1)' <=> \A k \in Finite : j <= k => calls[k].v = c.v)
        <3>1. j = n + 1 => j \in RunOf(n + 1)'
            BY <1>1, <1>2, <2>1, <2>2, <2>3
        <3>2. ASSUME j \in Finite
              PROVE  j \in RunOf(n + 1)' <=> \A k \in Finite : j <= k => calls[k].v = c.v
            <4>1. j \in Finite' /\ j <= n + 1 /\ j <= j
                BY <2>1, <2>2, <3>2
            <4>2. j \in RunOf(n + 1)' <=> \A k \in Finite' : j <= k /\ k <= n + 1 => calls'[k].v = c.v
                <5>1. j \in RunOf(n + 1)' <=>
                         \A k \in Finite' : j <= k /\ k <= n + 1 => calls'[k].v = calls'[n + 1].v
                    BY <1>2, <4>1, Zenon
                <5>2. calls'[n + 1].v = c.v
                    BY <1>1
                <5>3. QED
                    BY <5>1, <5>2, Zenon
            <4>3. (\A k \in Finite' : j <= k /\ k <= n + 1 => calls'[k].v = c.v)
                     => \A k \in Finite : j <= k => calls[k].v = c.v
                BY <2>1, <2>2
            <4>4. (\A k \in Finite : j <= k => calls[k].v = c.v)
                     => \A k \in Finite' : j <= k /\ k <= n + 1 => calls'[k].v = c.v
                BY <1>1, <2>1, <2>2
            <4>5. QED
                BY <4>2, <4>3, <4>4
        <3>3. QED
            BY <3>1, <3>2
    <2>5. \A j : j \in RunOf(n + 1)' => j \in Finite \/ j = n + 1
        BY <1>2, <2>2
    <2>6. QED
        BY <2>4, <2>5
<1>4. ASSUME Finite = {} PROVE RunOf(n + 1)' = {n + 1}
    BY <1>3, <1>4
<1>5. ASSUME NEW l \in Finite, IsLast(l, Finite)
      PROVE  RunOf(n + 1)' = IF c.v = calls[l].v THEN RunOf(l) \cup {n + 1} ELSE {n + 1}
    <2>1. \A k \in Finite : k <= l
        BY <1>5 DEF IsLast
    <2>2. \A j : j \in RunOf(l) <=> j \in Finite /\ \A k \in Finite : j <= k => calls[k].v = calls[l].v
        BY <2>1 DEF RunOf
    <2>3. CASE c.v = calls[l].v
        <3>1. \A j : j \in RunOf(n + 1)' <=> j \in RunOf(l) \/ j = n + 1
            BY <1>3, <2>2, <2>3
        <3>2. QED
            BY <2>3, <3>1
    <2>4. CASE c.v # calls[l].v
        <3>1. \A j \in Finite : ~(\A k \in Finite : j <= k => calls[k].v = c.v)
            BY <2>1, <2>4
        <3>2. \A j : j \in RunOf(n + 1)' <=> j = n + 1
            BY <1>3, <3>1
        <3>3. QED
            BY <2>4, <3>2
    <2>5. QED
        BY <2>3, <2>4
<1>6. QED
    BY <1>4, <1>5

\* A failed poll since the last sample, and a check that found it too old.
LEMMA DownIs ==
    ASSUME HistoryTyped, NEW i \in Observed, IsLast(i, Observed)
    PROVE  Down <=> \E k \in (i + 1)..Len(calls) : calls[k].what = "comm"
<1>0. PICK n \in Nat : n = Len(calls)
    BY DEF HistoryTyped
<1>1. i \in 1..n /\ Observed \subseteq 1..n /\ \A j \in Observed : j <= i
    BY <1>0 DEF Observed, IsLast
<1>2. \A k \in 1..n : (\A j \in Observed : j < k) <=> i < k
    BY <1>1
<1>3. \A k : k \in (i + 1)..n <=> k \in 1..n /\ i < k
    BY <1>1
<1>4. QED
    BY <1>0, <1>2, <1>3 DEF Down

LEMMA DownGrows ==
    ASSUME HistoryTyped, NEW c \in Call, calls' = Append(calls, c)
    PROVE  /\ c.what = "observe" => ~Down'
           /\ c.what = "comm" => Down'
           /\ c.what = "check" => (Down' <=> Down)
<1>0. PICK n \in Nat : n = Len(calls)
    BY DEF HistoryTyped
<1>1. /\ (\A i \in 1..n : calls'[i] = calls[i]) /\ calls'[n + 1] = c /\ Len(calls') = n + 1
      /\ Observed \subseteq 1..n
      /\ Observed' = Observed \cup (IF c.what = "observe" THEN {n + 1} ELSE {})
    BY <1>0, HistoryGrows
<1>2. Down' <=> \E k \in 1..(n + 1) : calls'[k].what = "comm" /\ \A i \in Observed' : i < k
    BY <1>1 DEF Down
<1>3. Down <=> \E k \in 1..n : calls[k].what = "comm" /\ \A i \in Observed : i < k
    BY <1>0 DEF Down
<1>4. ASSUME c.what = "observe" PROVE ~Down'
    <2>1. n + 1 \in Observed' /\ \A k \in 1..(n + 1) : ~(n + 1 < k)
        BY <1>1, <1>4
    <2>2. QED
        BY <1>2, <2>1
<1>5. ASSUME c.what = "comm" PROVE Down'
    <2>1. n + 1 \in 1..(n + 1) /\ calls'[n + 1].what = "comm" /\ \A i \in Observed' : i < n + 1
        BY <1>1, <1>5
    <2>2. QED
        BY <1>2, <2>1
<1>6. ASSUME c.what = "check" PROVE Down' <=> Down
    <2>1. Observed' = Observed /\ calls'[n + 1].what # "comm"
        BY <1>1, <1>6
    <2>2. \A k : k \in 1..(n + 1) <=> k \in 1..n \/ k = n + 1
        OBVIOUS
    <2>3. QED
        BY <1>1, <1>2, <1>3, <2>1, <2>2
<1>7. QED
    BY <1>4, <1>5, <1>6

LEMMA StaleGrows ==
    ASSUME HistoryTyped, NEW c \in Call, calls' = Append(calls, c), c.what # "observe",
           NEW i \in Observed
    PROVE  FoundStale(i)' <=>
              \/ FoundStale(i)
              \/ /\ StaleAfter > 0 /\ Finite # {} /\ c.what = "check" /\ c.at - calls[i].at >= StaleAfter
                 /\ \A k \in (i + 1)..Len(calls) : calls[k].what # "comm"
<1>0. PICK n \in Nat : n = Len(calls)
    BY DEF HistoryTyped
<1>1. /\ (\A k \in 1..n : calls'[k] = calls[k]) /\ calls'[n + 1] = c /\ Len(calls') = n + 1
      /\ Observed \subseteq 1..n /\ Finite' = Finite
    BY <1>0, HistoryGrows
<1>2. i \in 1..n /\ calls'[i] = calls[i]
    BY <1>1
<1> DEFINE Old(C, x) == /\ C[x].what = "check" /\ C[x].at - C[i].at >= StaleAfter
                        /\ \A k \in (i + 1)..(x - 1) : C[k].what # "comm"
<1>3. FoundStale(i)' <=> StaleAfter > 0 /\ Finite # {} /\ \E x \in (i + 1)..(n + 1) : Old(calls', x)
    BY <1>1 DEF FoundStale
<1>4. FoundStale(i) <=> StaleAfter > 0 /\ Finite # {} /\ \E x \in (i + 1)..n : Old(calls, x)
    BY <1>0 DEF FoundStale
<1>5. \A x \in (i + 1)..n : Old(calls', x) <=> Old(calls, x)
    <2>1. \A x \in (i + 1)..n : /\ x \in 1..n
                                /\ \A k \in (i + 1)..(x - 1) : k \in 1..n
        BY <1>2
    <2>2. QED
        BY <1>1, <1>2, <2>1
<1>6. Old(calls', n + 1) <=>
          /\ c.what = "check" /\ c.at - calls[i].at >= StaleAfter
          /\ \A k \in (i + 1)..n : calls[k].what # "comm"
    <2>1. (n + 1) - 1 = n /\ \A k \in (i + 1)..n : k \in 1..n
        BY <1>2
    <2>2. QED
        BY <1>1, <1>2, <2>1
<1> HIDE DEF Old
<1>7. \A x : x \in (i + 1)..(n + 1) <=> x \in (i + 1)..n \/ x = n + 1
    BY <1>2
<1>8. (\E x \in (i + 1)..(n + 1) : Old(calls', x)) <=> (\E x \in (i + 1)..n : Old(calls, x)) \/ Old(calls', n + 1)
    BY <1>5, <1>7
<1>9. QED
    BY <1>0, <1>3, <1>4, <1>6, <1>8

\* What a sample deserves, given its run's length and beginning.
Flat(v, at, k, at0) ==
    IF v \notin Allowed THEN "OUT_OF_RANGE"
    ELSE IF FlatlineAfter > 0 /\ k >= FlatlineMinSamples /\ at - at0 >= FlatlineAfter
    THEN "FLATLINE" ELSE "GOOD"

LEMMA DeservedIs ==
    ASSUME NEW i, NEW f, RunOf(i) \subseteq Nat, IsFirst(f, RunOf(i)), calls[i].v # NaN
    PROVE  Deserved(i) = Flat(calls[i].v, calls[i].at, Cardinality(RunOf(i)), calls[f].at)
<1>1. (CHOOSE j \in RunOf(i) : \A k \in RunOf(i) : j <= k) = f
    BY FirstIs
<1>2. QED
    BY <1>1 DEF Deserved, Flat

\* The same, of the state after a step.
LEMMA DeservedIsNext ==
    ASSUME NEW i, NEW f, RunOf(i)' \subseteq Nat, IsFirst(f, RunOf(i)'), calls'[i].v # NaN
    PROVE  Deserved(i)' = Flat(calls'[i].v, calls'[i].at, Cardinality(RunOf(i)'), calls'[f].at)
<1> DEFINE T == RunOf(i)'
<1>1. (CHOOSE j \in T : \A k \in T : j <= k) = f
    BY FirstIs
<1>2. Deserved(i)' = IF calls'[i].v = NaN THEN "BAD"
                     ELSE Flat(calls'[i].v, calls'[i].at, Cardinality(T),
                               calls'[CHOOSE j \in T : \A k \in T : j <= k].at)
    BY DEF Deserved, Flat
<1>3. QED
    BY <1>1, <1>2

\* Observe's own verdict is that one.
LEMMA VerdictIs ==
    ASSUME NEW v, NEW at \in Nat, NEW k \in Nat, NEW at0 \in Nat
    PROVE  Verdict(v, at, [lastChange |-> at0, unchanged |-> Counted(k)]) = Flat(v, at, k, at0)
<1>1. Counted(k) >= FlatlineMinSamples <=> k >= FlatlineMinSamples
    BY QualityAssumption DEF Counted
<1>2. QED
    BY <1>1 DEF Verdict, Flat

\* Comm and Check leave the summary of the samples as it is.
LEMMA SummaryStays ==
    ASSUME HistoryTyped, SummaryInv, NEW c \in Call, calls' = Append(calls, c), c.what # "observe",
           e'.seen = e.seen, e'.last = e.last, e'.lastAt = e.lastAt,
           e'.lastChange = e.lastChange, e'.unchanged = e.unchanged
    PROVE  /\ SummaryInv' /\ Observed' = Observed /\ Finite' = Finite
           /\ \A i \in Observed : IsLast(i, Observed) => Deserved(i)' = Deserved(i)
<1>0. PICK n \in Nat : n = Len(calls)
    BY DEF HistoryTyped
<1>1. /\ (\A i \in 1..n : calls'[i] = calls[i]) /\ Observed \subseteq 1..n /\ Finite \subseteq Observed
      /\ Observed' = Observed /\ Finite' = Finite
    BY <1>0, HistoryGrows
<1>2. \A i \in Finite : RunOf(i)' = RunOf(i) /\ RunOf(i) \subseteq 1..n
    BY <1>0, RunStays
<1>3. SummaryInv'
    <2>1. Observed # {} => \E i \in Observed : IsLast(i, Observed) /\ e'.lastAt = calls'[i].at
        BY <1>1 DEF SummaryInv
    <2>2. e'.seen = TRUE <=> Finite # {}
        BY DEF SummaryInv
    <2>3. ASSUME Finite # {}
          PROVE  \E l \in Finite : \E f \in RunOf(l)' :
                    /\ IsLast(l, Finite) /\ e'.last = calls'[l].v
                    /\ IsFirst(f, RunOf(l)') /\ e'.lastChange = calls'[f].at
                    /\ IsFiniteSet(RunOf(l)') /\ e'.unchanged = Counted(Cardinality(RunOf(l)'))
        <3>1. PICK l \in Finite : \E f \in RunOf(l) :
                 /\ IsLast(l, Finite) /\ e.last = calls[l].v
                 /\ IsFirst(f, RunOf(l)) /\ e.lastChange = calls[f].at
                 /\ IsFiniteSet(RunOf(l)) /\ e.unchanged = Counted(Cardinality(RunOf(l)))
            BY <2>3 DEF SummaryInv
        <3>2. RunOf(l)' = RunOf(l) /\ calls'[l] = calls[l] /\ \A f \in RunOf(l) : calls'[f] = calls[f]
            BY <1>1, <1>2
        <3>3. QED
            BY <3>1, <3>2
    <2>4. QED
        BY <1>1, <2>1, <2>2, <2>3 DEF SummaryInv
<1>4. ASSUME NEW i \in Observed, IsLast(i, Observed) PROVE Deserved(i)' = Deserved(i)
    <2>1. calls'[i] = calls[i]
        BY <1>1
    <2>2. CASE calls[i].v = NaN
        BY <2>1, <2>2 DEF Deserved
    <2>3. CASE calls[i].v # NaN
        <3>1. i \in Finite
            BY <2>3 DEF Finite
        <3>2. PICK l \in Finite : \E f \in RunOf(l) : IsLast(l, Finite) /\ IsFirst(f, RunOf(l))
            BY <3>1 DEF SummaryInv
        <3>3. l = i
            BY <1>1, <1>4, <3>1, <3>2 DEF IsLast
        <3>4. PICK f \in RunOf(i) : IsFirst(f, RunOf(i))
            BY <3>2, <3>3
        <3>5. RunOf(i)' = RunOf(i) /\ RunOf(i) \subseteq Nat /\ calls'[f] = calls[f]
            <4>1. RunOf(i)' = RunOf(i) /\ RunOf(i) \subseteq 1..n
                BY <1>2, <3>1
            <4>2. 1..n \subseteq Nat /\ f \in 1..n
                BY <4>1
            <4>3. QED
                BY <1>1, <4>1, <4>2
        <3>6. Deserved(i) = Flat(calls[i].v, calls[i].at, Cardinality(RunOf(i)), calls[f].at)
            BY <2>3, <3>4, <3>5, DeservedIs
        <3>7. Deserved(i)' = Flat(calls'[i].v, calls'[i].at, Cardinality(RunOf(i)'), calls'[f].at)
            BY <2>1, <2>3, <3>4, <3>5, DeservedIsNext
        <3>8. QED
            BY <2>1, <3>5, <3>6, <3>7
    <2>4. QED
        BY <2>2, <2>3
<1>5. QED
    BY <1>1, <1>3, <1>4

\* Comm.
LEMMA CommHistory ==
    ASSUME HistoryInv, comm
    PROVE  HistoryInv'
<1> DEFINE c == [what |-> "comm", v |-> 0, at |-> now]
<1>1. calls' = Append(calls, c) /\ e' = Comm(e) /\ now' = now
    BY DEF comm, Called
<1>2. c \in Call /\ c.what = "comm"
    BY DEF Call, HistoryInv, HistoryTyped
<1> HIDE DEF c
<1>3. e \in Evaluators
    BY DEF HistoryInv, HistoryTyped
<1>4. /\ e' \in Evaluators /\ e'.seen = e.seen /\ e'.last = e.last /\ e'.lastAt = e.lastAt
      /\ e'.lastChange = e.lastChange /\ e'.unchanged = e.unchanged
      /\ e'.commDown = TRUE /\ e'.quality = "BAD"
    BY <1>1, <1>3 DEF Comm, Evaluators, Qualities
<1>5. HistoryTyped'
    BY <1>1, <1>2, <1>4, AppendProperties DEF HistoryInv, HistoryTyped
<1>6. SummaryInv' /\ Down'
    BY <1>1, <1>2, <1>4, SummaryStays, DownGrows DEF HistoryInv
<1>7. VerdictInv'
    BY <1>4, <1>6 DEF VerdictInv
<1>8. QED
    BY <1>5, <1>6, <1>7 DEF HistoryInv

\* Check.
LEMMA CheckHistory ==
    ASSUME HistoryInv, check
    PROVE  HistoryInv'
<1> DEFINE c == [what |-> "check", v |-> 0, at |-> now]
<1>1. calls' = Append(calls, c) /\ e' = Check(e, now) /\ now' = now
    BY DEF check, Called
<1>2. c \in Call /\ c.what = "check" /\ c.at = now
    BY DEF Call, HistoryInv, HistoryTyped
<1> HIDE DEF c
<1>3. e \in Evaluators /\ HistoryTyped /\ SummaryInv /\ VerdictInv
    BY DEF HistoryInv, HistoryTyped
<1>4. /\ e' \in Evaluators /\ e'.seen = e.seen /\ e'.last = e.last /\ e'.lastAt = e.lastAt
      /\ e'.lastChange = e.lastChange /\ e'.unchanged = e.unchanged /\ e'.commDown = e.commDown
      /\ e'.quality = IF TurnsStale(e, now) THEN "STALE" ELSE e.quality
    BY <1>1, <1>3 DEF Check, Evaluators, Qualities
<1>5. HistoryTyped'
    BY <1>1, <1>2, <1>4, AppendProperties DEF HistoryInv, HistoryTyped
<1>6. /\ SummaryInv' /\ Observed' = Observed /\ Finite' = Finite /\ (Down' <=> Down)
      /\ \A i \in Observed : IsLast(i, Observed) => Deserved(i)' = Deserved(i)
    BY <1>1, <1>2, <1>3, <1>4, SummaryStays, DownGrows
<1>7. e.seen = TRUE <=> Finite # {}
    BY <1>3 DEF SummaryInv
<1>8. TurnsStale(e, now) <=> /\ StaleAfter > 0 /\ Finite # {} /\ ~Down
                             /\ e.quality # "STALE" /\ now - e.lastAt >= StaleAfter
    <2>1. (e.seen <=> Finite # {}) /\ (e.commDown <=> Down)
        <3>1. e.seen \in BOOLEAN /\ e.commDown \in BOOLEAN
            BY <1>3 DEF Evaluators
        <3>2. e.commDown = TRUE <=> Down
            BY <1>3 DEF VerdictInv
        <3>3. QED
            BY <1>7, <3>1, <3>2, Zenon
    <2>2. QED
        BY <2>1, Zenon DEF TurnsStale
<1>9. Observed = {} => e'.quality = IF Down' THEN "BAD" ELSE "GOOD"
    <2>1. Observed = {} => Finite = {}
        BY DEF Finite
    <2>2. QED
        BY <1>3, <1>4, <1>6, <1>8, <2>1 DEF VerdictInv
<1>10. ASSUME NEW i \in Observed, IsLast(i, Observed)
       PROVE  e'.quality = IF Down' THEN "BAD" ELSE IF FoundStale(i)' THEN "STALE" ELSE Deserved(i)'
    <2>1. e.quality = IF Down THEN "BAD" ELSE IF FoundStale(i) THEN "STALE" ELSE Deserved(i)
        BY <1>3, <1>10 DEF VerdictInv
    <2>2. e.lastAt = calls[i].at
        <3>1. PICK j \in Observed : IsLast(j, Observed) /\ e.lastAt = calls[j].at
            BY <1>3, <1>10 DEF SummaryInv
        <3>2. Observed \subseteq Nat
            BY DEF Observed
        <3>3. j = i
            BY <1>10, <3>1, <3>2 DEF IsLast
        <3>4. QED
            BY <3>1, <3>3
    <2>3. Down <=> \E k \in (i + 1)..Len(calls) : calls[k].what = "comm"
        BY <1>3, <1>10, DownIs
    <2>4. FoundStale(i)' <=> \/ FoundStale(i)
                             \/ StaleAfter > 0 /\ Finite # {} /\ now - calls[i].at >= StaleAfter /\ ~Down
        BY <1>1, <1>2, <1>3, <2>3, StaleGrows
    <2>5. Deserved(i)' = Deserved(i)
        BY <1>6, <1>10
    <2>6. QED
        BY <1>4, <1>6, <1>8, <2>1, <2>2, <2>4, <2>5
<1>11. VerdictInv'
    <2>1. e'.commDown = TRUE <=> Down'
        BY <1>3, <1>4, <1>6 DEF VerdictInv
    <2>2. QED
        BY <1>6, <1>9, <1>10, <2>1 DEF VerdictInv
<1>12. QED
    BY <1>5, <1>6, <1>11 DEF HistoryInv

\* A sample is the last one and no check has followed it.
LEMMA SampleIsLast ==
    ASSUME HistoryTyped, NEW c \in Call, calls' = Append(calls, c), c.what = "observe",
           NEW n \in Nat, n = Len(calls)
    PROVE  /\ n + 1 \in Observed' /\ IsLast(n + 1, Observed')
           /\ \A i \in Observed' : IsLast(i, Observed') => i = n + 1
           /\ ~FoundStale(n + 1)' /\ ~Down' /\ calls'[n + 1] = c
<1>1. /\ Len(calls') = n + 1 /\ calls'[n + 1] = c /\ Observed \subseteq 1..n
      /\ Observed' = Observed \cup {n + 1}
    BY HistoryGrows
<1>2. IsLast(n + 1, Observed') /\ Observed' \subseteq Nat
    <2>1. \A j \in 1..n : j \in Nat /\ j <= n + 1
        OBVIOUS
    <2>2. \A j \in Observed' : j \in 1..n \/ j = n + 1
        BY <1>1
    <2>3. n + 1 \in Observed' /\ n + 1 \in Nat /\ n + 1 <= n + 1
        BY <1>1
    <2>4. QED
        BY <2>1, <2>2, <2>3 DEF IsLast
<1>3. \A i \in Observed' : IsLast(i, Observed') => i = n + 1
    BY <1>1, <1>2 DEF IsLast
<1>4. ~FoundStale(n + 1)'
    <2>1. ((n + 1) + 1)..(n + 1) = {}
        OBVIOUS
    <2>2. QED
        BY <1>1, <2>1 DEF FoundStale
<1>5. ~Down'
    BY DownGrows
<1>6. QED
    BY <1>1, <1>2, <1>3, <1>4, <1>5

\* Observe, of a value that is not a number.
LEMMA NaNHistory ==
    ASSUME HistoryInv, observe(NaN)
    PROVE  HistoryInv'
<1> DEFINE c == [what |-> "observe", v |-> NaN, at |-> now]
<1>1. calls' = Append(calls, c) /\ e' = Observe(e, NaN, now) /\ now' = now
    BY DEF observe, Called
<1>2. c \in Call /\ c.what = "observe" /\ c.v = NaN /\ c.at = now
    BY DEF Call, HistoryInv, HistoryTyped
<1> HIDE DEF c
<1>3. e \in Evaluators /\ now \in Nat /\ HistoryTyped /\ SummaryInv
    BY DEF HistoryInv, HistoryTyped
<1>4. /\ e' \in Evaluators /\ e'.seen = e.seen /\ e'.last = e.last /\ e'.lastAt = now
      /\ e'.lastChange = e.lastChange /\ e'.unchanged = e.unchanged
      /\ e'.commDown = FALSE /\ e'.quality = "BAD"
    BY <1>1, <1>3 DEF Observe, Evaluators, Qualities
<1>5. PICK n \in Nat : n = Len(calls)
    BY DEF HistoryInv, HistoryTyped
<1>6. HistoryTyped'
    BY <1>1, <1>2, <1>4, AppendProperties DEF HistoryInv, HistoryTyped
<1>7. /\ n + 1 \in Observed' /\ IsLast(n + 1, Observed')
      /\ \A i \in Observed' : IsLast(i, Observed') => i = n + 1
      /\ ~FoundStale(n + 1)' /\ ~Down' /\ calls'[n + 1] = c
    BY <1>1, <1>2, <1>3, <1>5, SampleIsLast
<1>8. /\ (\A i \in 1..n : calls'[i] = calls[i]) /\ Finite \subseteq 1..n /\ Finite' = Finite
    BY <1>1, <1>2, <1>3, <1>5, HistoryGrows
<1>9. \A i \in Finite : RunOf(i)' = RunOf(i) /\ RunOf(i) \subseteq 1..n
    BY <1>1, <1>2, <1>3, <1>5, RunStays
<1>10. SummaryInv'
    <2>1. \E i \in Observed' : IsLast(i, Observed') /\ e'.lastAt = calls'[i].at
        BY <1>2, <1>4, <1>7
    <2>2. e'.seen = TRUE <=> Finite # {}
        BY <1>3, <1>4 DEF SummaryInv
    <2>3. ASSUME Finite # {}
          PROVE  \E l \in Finite : \E f \in RunOf(l)' :
                    /\ IsLast(l, Finite) /\ e'.last = calls'[l].v
                    /\ IsFirst(f, RunOf(l)') /\ e'.lastChange = calls'[f].at
                    /\ IsFiniteSet(RunOf(l)') /\ e'.unchanged = Counted(Cardinality(RunOf(l)'))
        <3>1. PICK l \in Finite : \E f \in RunOf(l) :
                 /\ IsLast(l, Finite) /\ e.last = calls[l].v
                 /\ IsFirst(f, RunOf(l)) /\ e.lastChange = calls[f].at
                 /\ IsFiniteSet(RunOf(l)) /\ e.unchanged = Counted(Cardinality(RunOf(l)))
            BY <1>3, <2>3 DEF SummaryInv
        <3>2. RunOf(l)' = RunOf(l) /\ calls'[l] = calls[l] /\ \A f \in RunOf(l) : calls'[f] = calls[f]
            BY <1>8, <1>9
        <3>3. QED
            BY <1>4, <3>1, <3>2
    <2>4. QED
        BY <1>8, <2>1, <2>2, <2>3 DEF SummaryInv
<1>11. VerdictInv'
    <2>1. Deserved(n + 1)' = "BAD"
        BY <1>2, <1>7 DEF Deserved
    <2>2. QED
        BY <1>4, <1>7, <2>1 DEF VerdictInv
<1>12. QED
    BY <1>6, <1>10, <1>11 DEF HistoryInv

\* Observe, of a finite value.
LEMMA ObserveHistory ==
    ASSUME HistoryInv, NEW v \in Values, observe(v)
    PROVE  HistoryInv'
<1> DEFINE c == [what |-> "observe", v |-> v, at |-> now]
           r == Run(e, v, now)
<1>0. v \in Int /\ v # NaN
    BY QualityAssumption
<1>1. calls' = Append(calls, c) /\ e' = Observe(e, v, now) /\ now' = now
    BY DEF observe, Called
<1>2. c \in Call /\ c.what = "observe" /\ c.v = v /\ c.at = now
    BY DEF Call, HistoryInv, HistoryTyped
<1> HIDE DEF c
<1>3. e \in Evaluators /\ now \in Nat /\ HistoryTyped /\ SummaryInv
    BY DEF HistoryInv, HistoryTyped
<1>4. e' = [seen |-> TRUE, last |-> v, lastAt |-> now, lastChange |-> r.lastChange,
            unchanged |-> r.unchanged, quality |-> Verdict(v, now, r), commDown |-> FALSE]
    BY <1>0, <1>1 DEF Observe
<1>5. PICK n \in Nat : n = Len(calls)
    BY DEF HistoryInv, HistoryTyped
<1>6. /\ n + 1 \in Observed' /\ IsLast(n + 1, Observed')
      /\ \A i \in Observed' : IsLast(i, Observed') => i = n + 1
      /\ ~FoundStale(n + 1)' /\ ~Down' /\ calls'[n + 1] = c
    BY <1>1, <1>2, <1>3, <1>5, SampleIsLast
<1>7. /\ (\A i \in 1..n : calls'[i] = calls[i]) /\ Finite \subseteq 1..n /\ Finite' = Finite \cup {n + 1}
    BY <1>0, <1>1, <1>2, <1>3, <1>5, HistoryGrows
<1>8. IsLast(n + 1, Finite')
    BY <1>7 DEF IsLast
\* The counters sum up the run that the sample continues or begins.
<1>9. \E f \in RunOf(n + 1)' :
         /\ IsFirst(f, RunOf(n + 1)') /\ RunOf(n + 1)' \subseteq Nat /\ IsFiniteSet(RunOf(n + 1)')
         /\ calls'[f].at \in Nat /\ Cardinality(RunOf(n + 1)') \in Nat
         /\ r = [lastChange |-> calls'[f].at, unchanged |-> Counted(Cardinality(RunOf(n + 1)'))]
    <2> DEFINE T == RunOf(n + 1)'
    <2>1. CASE Unchanged(e, v)
        <3>1. Finite # {} /\ v = e.last
            <4>1. e.seen = TRUE
                <5>1. e.seen \in BOOLEAN
                    BY <1>3 DEF Evaluators
                <5>2. QED
                    BY <2>1, <5>1 DEF Unchanged
            <4>2. QED
                BY <1>3, <2>1, <4>1 DEF SummaryInv, Unchanged
        <3>2. PICK l \in Finite : \E f \in RunOf(l) :
                 /\ IsLast(l, Finite) /\ e.last = calls[l].v
                 /\ IsFirst(f, RunOf(l)) /\ e.lastChange = calls[f].at
                 /\ IsFiniteSet(RunOf(l)) /\ e.unchanged = Counted(Cardinality(RunOf(l)))
            BY <1>3, <3>1 DEF SummaryInv
        <3>3. PICK f \in RunOf(l) : IsFirst(f, RunOf(l)) /\ e.lastChange = calls[f].at
            BY <3>2
        <3>4. T = RunOf(l) \cup {n + 1}
            BY <1>0, <1>1, <1>2, <1>3, <1>5, <3>1, <3>2, RunGrows, Zenon
        <3>5. RunOf(l) \subseteq 1..n
            BY <1>1, <1>2, <1>3, <1>5, RunStays
        <3> DEFINE R == RunOf(l)
        <3> HIDE DEF T, R
        <3>6. n + 1 \notin R /\ f \in 1..n /\ T \subseteq Nat /\ T = R \cup {n + 1}
            BY <3>3, <3>4, <3>5 DEF R
        <3>7. IsFirst(f, T)
            BY <3>3, <3>5, <3>6 DEF IsFirst, R
        <3>8. IsFiniteSet(T) /\ Cardinality(T) = Cardinality(R) + 1 /\ Cardinality(R) \in Nat
            <4>1. IsFiniteSet(R)
                BY <3>2 DEF R
            <4>2. QED
                BY <3>6, <4>1, FS_AddElement, FS_CardinalityType
        <3>9. calls'[f] = calls[f] /\ calls[f].at \in Nat
            <4>1. calls'[f] = calls[f] /\ calls[f] \in Call
                BY <1>1, <1>2, <1>3, <1>5, <3>6, HistoryGrows
            <4>2. QED
                BY <4>1 DEF Call
        <3>10. r = [lastChange |-> calls'[f].at, unchanged |-> Counted(Cardinality(T))]
            <4>1. r.lastChange = e.lastChange /\ e.unchanged = Counted(Cardinality(R))
                BY <2>1, <3>2 DEF Run, R
            <4>2. r = [lastChange |-> e.lastChange,
                       unchanged |-> IF e.unchanged < FlatlineMinSamples THEN e.unchanged + 1
                                     ELSE FlatlineMinSamples]
                BY <2>1 DEF Run
            <4>3. (IF e.unchanged < FlatlineMinSamples THEN e.unchanged + 1 ELSE FlatlineMinSamples)
                     = Counted(Cardinality(T))
                BY <3>8, <4>1, QualityAssumption DEF Counted
            <4>4. QED
                BY <3>3, <3>9, <4>2, <4>3
        <3>11. f \in T
            BY <3>7 DEF IsFirst
        <3>12. QED
            BY <3>6, <3>7, <3>8, <3>9, <3>10, <3>11 DEF T
    <2>2. CASE ~Unchanged(e, v)
        <3>1. T = {n + 1}
            <4>1. CASE Finite = {}
                BY <1>0, <1>1, <1>2, <1>3, <1>5, <4>1, RunGrows
            <4>2. CASE Finite # {}
                <5>1. PICK l \in Finite : IsLast(l, Finite) /\ e.last = calls[l].v
                    BY <1>3, <4>2 DEF SummaryInv
                <5>2. e.last # v
                    BY <1>3, <2>2, <4>2 DEF SummaryInv, Unchanged
                <5>3. QED
                    BY <1>0, <1>1, <1>2, <1>3, <1>5, <5>1, <5>2, RunGrows
            <4>3. QED
                BY <4>1, <4>2
        <3> HIDE DEF T
        <3>2. IsFiniteSet(T) /\ Cardinality(T) = 1
            BY <3>1, FS_Singleton
        <3>3. IsFirst(n + 1, T) /\ T \subseteq Nat /\ n + 1 \in T
            BY <3>1 DEF IsFirst
        <3>4. Counted(1) = 1
            BY QualityAssumption DEF Counted
        <3>5. r = [lastChange |-> now, unchanged |-> 1]
            BY <2>2 DEF Run
        <3>6. QED
            BY <1>2, <1>3, <1>6, <3>2, <3>3, <3>4, <3>5 DEF T
    <2>3. QED
        BY <2>1, <2>2
<1>10. PICK f \in RunOf(n + 1)' :
         /\ IsFirst(f, RunOf(n + 1)') /\ RunOf(n + 1)' \subseteq Nat /\ IsFiniteSet(RunOf(n + 1)')
         /\ calls'[f].at \in Nat /\ Cardinality(RunOf(n + 1)') \in Nat
         /\ r = [lastChange |-> calls'[f].at, unchanged |-> Counted(Cardinality(RunOf(n + 1)'))]
    BY <1>9
<1> DEFINE k == Cardinality(RunOf(n + 1)')
<1> HIDE DEF r
<1>11. /\ r.lastChange = calls'[f].at /\ r.unchanged = Counted(k) /\ Counted(k) \in 0..FlatlineMinSamples
       /\ k \in Nat
    BY <1>10, QualityAssumption DEF Counted
<1> HIDE DEF k
<1>12. /\ e'.seen = TRUE /\ e'.last = v /\ e'.lastAt = now /\ e'.lastChange = calls'[f].at
       /\ e'.unchanged = Counted(k) /\ e'.quality = Verdict(v, now, r) /\ e'.commDown = FALSE
    BY <1>4, <1>11
<1>13. e'.quality = Flat(v, now, k, calls'[f].at)
    BY <1>3, <1>10, <1>11, <1>12, VerdictIs DEF k
<1>14. e' \in Evaluators
    <2>1. e'.quality \in Qualities
        BY <1>13 DEF Flat, Qualities
    <2>2. QED
        BY <1>0, <1>3, <1>4, <1>10, <1>11, <1>12, <2>1 DEF Evaluators
<1>15. HistoryTyped'
    BY <1>1, <1>2, <1>14, AppendProperties DEF HistoryInv, HistoryTyped
<1>16. SummaryInv'
    <2>1. \E i \in Observed' : IsLast(i, Observed') /\ e'.lastAt = calls'[i].at
        BY <1>2, <1>6, <1>12
    <2>2. n + 1 \in Finite'
        BY <1>7
    <2>3. /\ IsLast(n + 1, Finite') /\ e'.last = calls'[n + 1].v
          /\ IsFirst(f, RunOf(n + 1)') /\ e'.lastChange = calls'[f].at
          /\ IsFiniteSet(RunOf(n + 1)') /\ e'.unchanged = Counted(Cardinality(RunOf(n + 1)'))
        BY <1>2, <1>6, <1>8, <1>10, <1>12 DEF k
    <2>4. QED
        BY <1>12, <2>1, <2>2, <2>3 DEF SummaryInv
<1>17. VerdictInv'
    <2>1. Deserved(n + 1)' = Flat(calls'[n + 1].v, calls'[n + 1].at, Cardinality(RunOf(n + 1)'), calls'[f].at)
        BY <1>0, <1>2, <1>6, <1>10, DeservedIsNext
    <2>2. e'.quality = Deserved(n + 1)'
        BY <1>2, <1>6, <1>13, <2>1 DEF k
    <2>3. QED
        BY <1>6, <1>12, <2>2 DEF VerdictInv
<1>18. QED
    BY <1>15, <1>16, <1>17 DEF HistoryInv

LEMMA HistoryBegins == ASSUME QualityRulesInit PROVE HistoryInv
<1>1. calls = << >> /\ now = 0 /\ e = NewEvaluator
    BY DEF QualityRulesInit
<1>2. Len(calls) = 0 /\ calls \in Seq(Call)
    BY <1>1
<1>3. 1..Len(calls) = {}
    BY <1>2
<1>4. Observed = {} /\ Finite = {} /\ ~Down
    BY <1>3 DEF Observed, Finite, Down
<1>5. e \in Evaluators /\ e.seen = FALSE /\ e.commDown = FALSE /\ e.quality = "GOOD"
    BY <1>1, QualityAssumption DEF NewEvaluator, Evaluators, Qualities
<1>6. QED
    BY <1>1, <1>2, <1>4, <1>5 DEF HistoryInv, HistoryTyped, SummaryInv, VerdictInv

\* Neither time nor Current and Last touch the history or the evaluator.
LEMMA HistoryIdle ==
    ASSUME HistoryInv, now' \in Nat, calls' = calls, e' = e
    PROVE  HistoryInv'
<1>1. Observed' = Observed
    BY DEF Observed
<1>2. Finite' = Finite
    BY <1>1 DEF Finite
<1>3. (\A i : RunOf(i)' = RunOf(i)) /\ (Down' <=> Down) /\ \A i : FoundStale(i)' <=> FoundStale(i)
    BY <1>1, <1>2 DEF RunOf, Down, FoundStale
<1>4. \A i : Deserved(i)' = Deserved(i)
    BY <1>3 DEF Deserved
<1>5. HistoryTyped'
    BY DEF HistoryInv, HistoryTyped
<1>6. SummaryInv'
    BY <1>1, <1>2, <1>3 DEF HistoryInv, SummaryInv
<1>7. VerdictInv'
    BY <1>1, <1>3, <1>4 DEF HistoryInv, VerdictInv
<1>8. QED
    BY <1>5, <1>6, <1>7 DEF HistoryInv

LEMMA HistoryNext == HistoryInv /\ [QualityRulesNext]_qrVars => HistoryInv'
<1> SUFFICES ASSUME HistoryInv, [QualityRulesNext]_qrVars
             PROVE  HistoryInv'
    OBVIOUS
<1>1. now \in Nat
    BY DEF HistoryInv, HistoryTyped
<1>2. CASE \E v \in Values \cup {NaN} : observe(v)
    BY <1>2, NaNHistory, ObserveHistory
<1>3. CASE comm
    BY <1>3, CommHistory
<1>4. CASE check
    BY <1>4, CheckHistory
<1>5. CASE tick
    BY <1>1, <1>5, HistoryIdle DEF tick
<1>6. CASE UNCHANGED qrVars
    BY <1>1, <1>6, HistoryIdle DEF qrVars
<1>7. QED
    BY <1>2, <1>3, <1>4, <1>5, <1>6 DEF QualityRulesNext, current

LEMMA HistoryImplies == HistoryInv => QualityDeserved /\ LastIsLatest
<1> SUFFICES ASSUME HistoryInv
             PROVE  QualityDeserved /\ LastIsLatest
    OBVIOUS
<1>1. Observed \subseteq Nat /\ Finite \subseteq Nat /\ Observed \subseteq 1..Len(calls)
    BY DEF Observed, Finite
<1>2. HistoryTyped /\ SummaryInv /\ VerdictInv /\ e \in Evaluators
    BY DEF HistoryInv, HistoryTyped
<1>3. ASSUME Observed = {} PROVE QualityDeserved
    <2>1. Down <=> \E i \in 1..Len(calls) : calls[i].what = "comm"
        BY <1>3 DEF Down
    <2>2. e.quality = IF Down THEN "BAD" ELSE "GOOD"
        BY <1>2, <1>3 DEF VerdictInv
    <2>3. QED
        BY <1>3, <2>1, <2>2 DEF QualityDeserved
<1>4. ASSUME Observed # {} PROVE QualityDeserved
    <2>1. PICK i \in Observed : IsLast(i, Observed)
        BY <1>2, <1>4 DEF SummaryInv
    <2>2. LastOf(Observed) = i
        BY <1>1, <2>1, LastIs
    <2>3. Down <=> \E k \in (i + 1)..Len(calls) : calls[k].what = "comm"
        BY <1>2, <2>1, DownIs
    <2>4. e.quality = IF Down THEN "BAD" ELSE IF FoundStale(i) THEN "STALE" ELSE Deserved(i)
        BY <1>2, <2>1 DEF VerdictInv
    <2>5. QED
        BY <1>4, <2>2, <2>3, <2>4 DEF QualityDeserved
<1>5. e.seen <=> Finite # {}
    <2>1. e.seen \in BOOLEAN /\ (e.seen = TRUE <=> Finite # {})
        BY <1>2 DEF Evaluators, SummaryInv
    <2>2. QED
        BY <2>1, Zenon
<1>6. ASSUME Finite # {} PROVE e.last = calls[LastOf(Finite)].v
    <2>1. PICK l \in Finite : IsLast(l, Finite) /\ e.last = calls[l].v
        BY <1>2, <1>6 DEF SummaryInv
    <2>2. LastOf(Finite) = l
        BY <1>1, <2>1, LastIs
    <2>3. QED
        BY <2>1, <2>2
<1>7. LastIsLatest
    BY <1>5, <1>6 DEF LastIsLatest
<1>8. QED
    BY <1>3, <1>4, <1>7

\* What the counters of Observe, Comm and Check (quality.go:78-143) say of a
\* tag is what the whole history of its samples, failed polls and checks
\* deserves, and Last() is its latest finite sample: after any number of
\* calls, at any times, for any settings of the rules.
THEOREM QualityAsDeserved == QualityRulesSpec => [](QualityDeserved /\ LastIsLatest)
<1>1. QualityRulesInit => HistoryInv
    BY HistoryBegins
<1>2. HistoryInv /\ [QualityRulesNext]_qrVars => HistoryInv'
    BY HistoryNext
<1>3. HistoryInv => QualityDeserved /\ LastIsLatest
    BY HistoryImplies
<1>4. QED
    BY <1>1, <1>2, <1>3, PTL DEF QualityRulesSpec
=============================================================================
