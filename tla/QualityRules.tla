---------------------------- MODULE QualityRules ----------------------------
(***************************************************************************)
(* One evaluator under every sequence of calls its users can make, against  *)
(* definitions of the rules that look at the whole history of calls instead *)
(* of the evaluator's counters.                                             *)
(***************************************************************************)
EXTENDS Quality, Sequences, FiniteSets

CONSTANTS MaxCalls,    \* bound: length of the history
          MaxTime      \* bound: the clock

ASSUME QualityRulesAssumption == MaxCalls \in Nat /\ MaxTime \in Nat

VARIABLES e,           \* the evaluator
          now,         \* the clock
          calls        \* history: the calls, with their arguments

qrVars == <<e, now, calls>>

QualityRulesInit == e = NewEvaluator /\ now = 0 /\ calls = << >>

Called(what, v) ==
    /\ Len(calls) < MaxCalls
    /\ calls' = Append(calls, [what |-> what, v |-> v, at |-> now])

observe(v) ==
    /\ Called("observe", v)
    /\ e' = Observe(e, v, now)
    /\ UNCHANGED now

comm ==
    /\ Called("comm", 0)
    /\ e' = Comm(e)
    /\ UNCHANGED now

check ==
    /\ Called("check", 0)
    /\ e' = Check(e, now)
    /\ UNCHANGED now

tick ==
    /\ now < MaxTime
    /\ now' = now + 1
    /\ UNCHANGED <<e, calls>>

\* Current and Last only look.
current == UNCHANGED qrVars

QualityRulesNext ==
    (\E v \in Values \cup {NaN} : observe(v)) \/ comm \/ check \/ tick \/ current

QualityRulesSpec == QualityRulesInit /\ [][QualityRulesNext]_qrVars

----------------------------------------------------------------------------
\* The calls to Observe, and those with a finite value.
Observed == {i \in 1..Len(calls) : calls[i].what = "observe"}
Finite == {i \in Observed : calls[i].v # NaN}

LastOf(S) == CHOOSE i \in S : \A j \in S : j <= i

\* The samples of the longest run of one value that ends with sample i.
RunOf(i) ==
    {j \in Finite : j <= i /\ \A k \in Finite : j <= k /\ k <= i => calls[k].v = calls[i].v}

\* The verdict sample i deserves, from the history alone.
Deserved(i) ==
    LET run == RunOf(i)
        first == CHOOSE j \in run : \A k \in run : j <= k
    IN IF calls[i].v = NaN THEN "BAD"
       ELSE IF calls[i].v \notin Allowed THEN "OUT_OF_RANGE"
       ELSE IF /\ FlatlineAfter > 0
               /\ Cardinality(run) >= FlatlineMinSamples
               /\ calls[i].at - calls[first].at >= FlatlineAfter
       THEN "FLATLINE" ELSE "GOOD"

\* A check made after sample i found it too old.
FoundStale(i) ==
    /\ StaleAfter > 0 /\ Finite # {}
    /\ \E c \in (i + 1)..Len(calls) :
          /\ calls[c].what = "check"
          /\ calls[c].at - calls[i].at >= StaleAfter
          /\ \A k \in (i + 1)..(c - 1) : calls[k].what # "comm"

\* The quality of a tag is what its history deserves: BAD from a failed poll
\* until the next sample, else STALE from the first check that found the
\* latest sample too old, else the verdict of that sample, in which flatline
\* looks at all samples with the same value.
\*
\* This is the order of Observe and Check, not the one of the documents: ADR
\* 0003 (line 28) has "worst wins: BAD > OUT_OF_RANGE > FLATLINE > STALE", and
\* the comment on Check says that BAD is left as it is.  Check spares only the
\* BAD of a failed poll; it makes an OUT_OF_RANGE, a FLATLINE and the BAD of a
\* reading that is not a number STALE.
QualityDeserved ==
    e.quality =
        IF Observed = {}
        THEN IF \E i \in 1..Len(calls) : calls[i].what = "comm" THEN "BAD" ELSE "GOOD"
        ELSE LET i == LastOf(Observed)
             IN IF \E k \in (i + 1)..Len(calls) : calls[k].what = "comm" THEN "BAD"
                ELSE IF FoundStale(i) THEN "STALE"
                ELSE Deserved(i)

\* Last() is the latest finite sample, through failures, staleness and
\* readings that are not numbers.
LastIsLatest ==
    /\ e.seen <=> Finite # {}
    /\ Finite # {} => e.last = calls[LastOf(Finite)].v
=============================================================================
