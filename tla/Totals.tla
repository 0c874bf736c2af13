------------------------------- MODULE Totals -------------------------------
(* The running total that segmentedAttribution adds its segments to.       *)
EXTENDS Integers, Sequences

(* total after the last of the values v.                                   *)
Total(v) ==
    LET total[i \in 0..Len(v)] == IF i = 0 THEN 0 ELSE total[i - 1] + v[i]
    IN total[Len(v)]
=============================================================================
