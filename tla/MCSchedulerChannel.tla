------------------------- MODULE MCSchedulerChannel -------------------------
(* Instances of the channel: two reports at once, a scheduler that moves.  *)
EXTENDS SchedulerChannel

CONSTANTS c1, c2, s1, s2

MCCalls == {c1, c2}
MCResolvers == {s1, s2}
MCUrls == {"name", "address", "bad"}
=============================================================================
