---------------------------- MODULE MCHandshake ----------------------------
(* Instances of Handshake for TLC.                                          *)
EXTENDS Handshake, TLC

CONSTANTS s1, s2, s3

\* A caller with another token, or something else entirely.
MCWrongToken   == [kind |-> "hello", version |-> TRUE, token |-> FALSE, claims |-> TRUE]

MCFrames  == {MCWrongToken, badFrame}
MCSymmetry == Permutations(Stranger)
=============================================================================
