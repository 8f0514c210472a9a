-------------------------------- MODULE Uns --------------------------------
(***************************************************************************)
(* MatchFilter and ValidateFilter of internal/domain/uns/topic.go.  A topic *)
(* and a filter are sequences of segments; Malformed are segments that are  *)
(* empty or hold a wildcard next to something else.                         *)
(***************************************************************************)
EXTENDS Naturals, Sequences, FiniteSetsExt

CONSTANT Malformed

\* The segment at which the loop over the filter returns, if it does.
Stops(f, t) ==
    {i \in 1..Len(f) : f[i] = "#" \/ i > Len(t) \/ (f[i] # "+" /\ f[i] # t[i])}

\* Mutant: a filter matches what it is a prefix of.
MatchFilter_prefix(f, t) == Stops(f, t) = {} \/ f[Min(Stops(f, t))] = "#"

MatchFilter(f, t) ==
    IF Stops(f, t) = {} THEN Len(f) = Len(t)
    ELSE LET i == Min(Stops(f, t)) IN f[i] = "#" /\ i = Len(f)

ValidateFilter(f) ==
    /\ f # << >>
    /\ \A i \in 1..Len(f) : f[i] \notin Malformed /\ (f[i] = "#" => i = Len(f))

\* What a filter means: + stands for any one segment, # at the end for any
\* rest, and none.
Means(f, t) ==
    LET n == IF f[Len(f)] = "#" THEN Len(f) - 1 ELSE Len(f)
    IN /\ IF n < Len(f) THEN Len(t) >= n ELSE Len(t) = n
       /\ \A i \in 1..n : f[i] \in {"+", t[i]}
=============================================================================
