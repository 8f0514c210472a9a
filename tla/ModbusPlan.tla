----------------------------- MODULE ModbusPlan -----------------------------
(***************************************************************************)
(* Plan in internal/collectors/modbus.go: tags are coalesced into read      *)
(* requests.  A tag here is a modbusTag, [name, fn, start, words, typ]; a   *)
(* block is one request with the tags it covers.                            *)
(*                                                                         *)
(* sort.Slice leaves the order of tags at one address open; they are sorted *)
(* by width then, which nothing below depends on.                           *)
(***************************************************************************)
EXTENDS Plant

CONSTANTS MaxRegistersPerRead,   \* registers in one request: 125
          MaxGap                 \* unused registers worth reading: modbus.max_gap

ASSUME PlanAssumption ==
    /\ MaxRegistersPerRead \in Nat /\ MaxRegistersPerRead >= 2
    /\ MaxGap \in Nat

\* NewModbusSource.
modbusTag(ref) ==
    [name |-> ref.tag.name, fn |-> ref.tag.fn, start |-> ref.tag.start,
     words |-> Words(ref.tag.typ), typ |-> ref.tag.typ]

FunctionCode(t) == IF t.fn = "input" THEN 4 ELSE 3

Before(t, u) ==
    \/ FunctionCode(t) < FunctionCode(u)
    \/ t.fn = u.fn /\ t.start < u.start
    \/ t.fn = u.fn /\ t.start = u.start /\ t.words < u.words

Alone(t) == [fn |-> t.fn, start |-> t.start, count |-> t.words, tags |-> <<t>>]

End(b) == b.start + b.count

\* The registers block b would have to read with tag t.
Stretched(b, t) ==
    (IF t.start + t.words > End(b) THEN t.start + t.words ELSE End(b)) - b.start

\* Mutant: the gap must be smaller than the bound.
Joins_strict(b, t) ==
    /\ t.fn = b.fn
    /\ t.start - End(b) < MaxGap
    /\ Stretched(b, t) <= MaxRegistersPerRead

\* Tag t may join block b.
Joins(b, t) ==
    /\ t.fn = b.fn
    /\ t.start - End(b) <= MaxGap
    /\ Stretched(b, t) <= MaxRegistersPerRead

Plan(tags) ==
    FoldLeft(LAMBDA blocks, t :
                 LET cur == Last(blocks)
                 IN IF blocks # << >> /\ Joins(cur, t)
                    THEN Front(blocks) \o
                         <<[cur EXCEPT !.count = Stretched(cur, t), !.tags = Append(@, t)]>>
                    ELSE Append(blocks, Alone(t)),
             << >>, SortSeq(tags, Before))

----------------------------------------------------------------------------
\* The registers a tag occupies.
Occupied(t) == t.start..(t.start + t.words - 1)

\* A set of tags that one request may cover: one table, no more registers than
\* a request may ask for, and no hole wider than MaxGap.
OneRequest(S) ==
    LET used == UNION {Occupied(t) : t \in S}
    IN /\ \A t, u \in S : t.fn = u.fn
       /\ \A x, y \in used : x - y < MaxRegistersPerRead
       /\ \A x \in used :
             (\E y \in used : y > x) => \E y \in used : x < y /\ y - x <= MaxGap + 1

\* Number of requests any plan needs for these tags.
LeastRequests(T) ==
    CHOOSE n \in 0..Cardinality(T) :
        /\ \E f \in [T -> 1..n] : \A i \in 1..n : OneRequest({t \in T : f[t] = i})
        /\ \A k \in 0..(n - 1) :
              ~\E f \in [T -> 1..k] : \A i \in 1..k : OneRequest({t \in T : f[t] = i})
=============================================================================
