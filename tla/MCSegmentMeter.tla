--------------------------- MODULE MCSegmentMeter ---------------------------
(* Instances of the segments of one executor.                              *)
EXTENDS SegmentMeter, TLC

CONSTANTS a1, a2

MCOne == {a1}
MCTwo == {a1, a2}
MCActivationSymmetry == Permutations(Activations)

(* An attribution that grows with both counters and is not additive, like  *)
(* the energy of the node times the share of the CPU.                      *)
MCShare(r, s) == IF s.e > r.e /\ s.c > r.c THEN (s.e - r.e) * (s.c - r.c) ELSE 0
=============================================================================
