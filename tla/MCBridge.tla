------------------------------ MODULE MCBridge ------------------------------
(* Small instances of the bridge: the bounds come from the configurations. *)
EXTENDS Bridge, TLC

CONSTANTS t1, t2

OneTopic == {t1}
TwoTopics == {t1, t2}
TopicSymmetry == Permutations({t1, t2})
=============================================================================
