---------------------------- MODULE MC_OtaRouter ----------------------------
(* The router model for TLC: two session ids as model values.              *)
EXTENDS OtaRouter, TLC

CONSTANTS s1, s2

MCSession == {s1, s2}
MCSymmetry == Permutations(MCSession)
=============================================================================
