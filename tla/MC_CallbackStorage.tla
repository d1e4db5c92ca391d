-------------------------- MODULE MC_CallbackStorage --------------------------
(* CallbackStorage for TLC: two objects, two callbacks, one or two callback
   types. *)
EXTENDS CallbackStorage

CONSTANTS o1, o2, f1, f2, t1, t2

MCObjects == {o1, o2}
MCFns == {f1, f2}
MCOneFn == {f1}
MCTypes == {t1}
MCTwoTypes == {t1, t2}
=============================================================================
