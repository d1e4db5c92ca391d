---------------------------- MODULE MC_OtaSystem ----------------------------
(* The router and one node for TLC: one session id as a model value.       *)
EXTENDS OtaSystem, TLC

CONSTANTS s1

MCSession == {s1}
=============================================================================
