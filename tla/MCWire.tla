------------------------------- MODULE MCWire -------------------------------
(* The instance of Wire for TLC.                                            *)
EXTENDS Wire, TLC

CONSTANTS w1, w2

MCSymmetry == Permutations(Writer)
=============================================================================
