------------------------------ MODULE Quality ------------------------------
(***************************************************************************)
(* internal/domain/quality/quality.go: the rules that give a tag its        *)
(* quality.  An evaluator is a record; Observe, Comm and Check return the   *)
(* evaluator after the call, whose quality is the verdict (the rule named   *)
(* in a verdict follows from its quality).                                  *)
(*                                                                         *)
(* Times are numbers of clock ticks.  unchanged is only ever compared with  *)
(* FlatlineMinSamples, so it stops counting there.  Epsilon is zero: the    *)
(* node never sets it.                                                      *)
(***************************************************************************)
EXTENDS Integers

CONSTANTS StaleAfter, FlatlineAfter,   \* durations; zero disables the rule
          FlatlineMinSamples,
          Values,                      \* finite values of a reading
          Allowed,                     \* those inside the engineering range
          NaN                          \* a reading that is not a finite number

ASSUME QualityAssumption ==
    /\ StaleAfter \in Nat /\ FlatlineAfter \in Nat
    /\ FlatlineMinSamples \in Nat \ {0}     \* New replaces what is not positive
    /\ Values \subseteq Int /\ Values # {}
    /\ Allowed \subseteq Values
    /\ NaN \notin Int

Qualities == {"GOOD", "STALE", "FLATLINE", "OUT_OF_RANGE", "BAD"}

Evaluators ==
    [seen : BOOLEAN, last : Int, lastAt : Nat, lastChange : Nat,
     unchanged : 0..FlatlineMinSamples, quality : Qualities, commDown : BOOLEAN]

\* New.
NewEvaluator ==
    [seen |-> FALSE, last |-> 0, lastAt |-> 0, lastChange |-> 0,
     unchanged |-> 0, quality |-> "GOOD", commDown |-> FALSE]

Unchanged(e, v) == e.seen /\ v = e.last

\* Observe: the run of unchanged values that ends with this sample.
Run(e, v, at) ==
    IF Unchanged(e, v)
    THEN [lastChange |-> e.lastChange,
          unchanged |-> IF e.unchanged < FlatlineMinSamples
                        THEN e.unchanged + 1 ELSE FlatlineMinSamples]
    ELSE [lastChange |-> at, unchanged |-> 1]

\* Observe: range, then flatline, then good.
Verdict(v, at, run) ==
    IF v \notin Allowed THEN "OUT_OF_RANGE"
    ELSE IF /\ FlatlineAfter > 0
            /\ run.unchanged >= FlatlineMinSamples
            /\ at - run.lastChange >= FlatlineAfter
         THEN "FLATLINE"
         ELSE "GOOD"

\* Mutant: a reading that is not a number counts as a sample seen.
Observe_nan_seen(e, v, at) ==
    IF v = NaN
    THEN [e EXCEPT !.commDown = FALSE, !.lastAt = at, !.quality = "BAD", !.seen = TRUE]
    ELSE LET run == Run(e, v, at)
         IN [seen |-> TRUE, last |-> v, lastAt |-> at,
             lastChange |-> run.lastChange, unchanged |-> run.unchanged,
             quality |-> Verdict(v, at, run), commDown |-> FALSE]

\* A value that is not a number leaves the run and the last value alone.
Observe(e, v, at) ==
    IF v = NaN
    THEN [e EXCEPT !.commDown = FALSE, !.lastAt = at, !.quality = "BAD"]
    ELSE LET run == Run(e, v, at)
         IN [seen |-> TRUE, last |-> v, lastAt |-> at,
             lastChange |-> run.lastChange, unchanged |-> run.unchanged,
             quality |-> Verdict(v, at, run), commDown |-> FALSE]

Comm(e) == [e EXCEPT !.commDown = TRUE, !.quality = "BAD"]

\* Mutant: a tag whose source is down becomes stale too.
TurnsStale_ignores_comm(e, now) ==
    /\ StaleAfter > 0
    /\ e.seen
    /\ e.quality # "STALE"
    /\ now - e.lastAt >= StaleAfter

\* Check reports a transition to STALE ...
TurnsStale(e, now) ==
    /\ StaleAfter > 0
    /\ e.seen /\ ~e.commDown
    /\ e.quality # "STALE"
    /\ now - e.lastAt >= StaleAfter

\* ... and then makes it.
Check(e, now) == IF TurnsStale(e, now) THEN [e EXCEPT !.quality = "STALE"] ELSE e
=============================================================================
