------------------------------ MODULE MCInbox ------------------------------
(* Small instances of the inbox: the bounds come from the configurations. *)
EXTENDS Inbox, TLC

CONSTANTS t1, t2, t3

TwoTopics == {t1, t2}
ThreeTopics == {t1, t2, t3}
TopicSymmetry == Permutations({t1, t2, t3})
=============================================================================
