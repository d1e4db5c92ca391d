----------------------------- MODULE MC_OtaNode -----------------------------
(* A small instance of OtaNode for TLC: two sessions, an image of three    *)
(* fragments of two bytes whose last fragment is short (five bytes), a     *)
(* checksum slice of three bytes so that hashing takes two slices and the  *)
(* last one is clipped, and a bitmask of two one-byte segments of two bits *)
(* so that the first missing segment, the padding bit of the last segment  *)
(* and the byte-granular missing count all matter.                         *)
EXTENDS OtaNode, TLC

CONSTANTS s1, s2

MCSession == {s1, s2}

\* session ids are interchangeable
MCSymmetry == Permutations(MCSession)
=============================================================================
