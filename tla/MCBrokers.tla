----------------------------- MODULE MCBrokers -----------------------------
(* Two topics, one below the other, and filters of every form. *)
EXTENDS Brokers

CONSTANTS s1, s2, p1, p2

TwoTopics == {<<"a">>, <<"a", "x">>}
SomeFilters ==
    s1 :> {<<"a", "#">>, <<"#", "a">>} @@ s2 :> {<<"a", "#">>, <<"+">>, <<"a", "x+">>}
SomeMessages ==
    p1 :> {<<<<"a">>, "retain">>, <<<<"a">>, "clear">>} @@ p2 :> {<<<<"a", "x">>, "live">>}
=============================================================================
