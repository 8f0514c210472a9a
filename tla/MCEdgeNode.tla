----------------------------- MODULE MCEdgeNode -----------------------------
(* Small instances of the edge node: one source with one or two tags. *)
EXTENDS EdgeNode

OneSource == <<"plc">>
OneName == <<"speed">>
TwoNames == <<"count", "speed">>
=============================================================================
