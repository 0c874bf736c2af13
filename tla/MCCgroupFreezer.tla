-------------------------- MODULE MCCgroupFreezer --------------------------
(* Instances of the controller with every client: two goroutines, two      *)
(* pause cycles and the shutdown.                                          *)
EXTENDS CgroupFreezerRefinement

CONSTANTS c1, c2, p1, p2

MCCallers == {c1, c2}
MCPauseIDs == {p1, p2}
MCAllFail == {"freeze", "resume", "kill"}
============================================================================
