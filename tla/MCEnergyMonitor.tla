-------------------------- MODULE MCEnergyMonitor --------------------------
(* Instances of one executor and its activations.                          *)
EXTENDS EnergyMonitor, TLC

CONSTANTS a1, a2, p1, p2

MCOne == {a1}
MCTwo == {a1, a2}
MCNone == {}
MCCallersOne == {a1, Stopper}
MCCallersTwo == {a1, a2, Stopper}
MCOnePause == {p1}
MCTwoPauses == {p1, p2}
MCAllFail == {"freeze", "resume", "kill"}
MCResumeFails == {"resume"}
MCConfig(pausing, unkillable, mayStop, fresh) ==
    [pausing |-> pausing, unkillable |-> unkillable, mayStop |-> mayStop,
     fresh |-> fresh]
(* One activation of each class; and one without a pause beside one with.  *)
MCMixed == {MCConfig({a1, a2}, {a2}, TRUE, {p1, p2}),
            MCConfig({a2}, {}, TRUE, {p1, p2})}
MCKillable == {MCConfig({a1}, {}, FALSE, {p1})}
MCUnkillable == {MCConfig({a1}, {a1}, FALSE, {p1})}
(* One activation without a pause beside one with, in a container that may *)
(* be replaced; and two that may not be killed.                            *)
MCKillableOrNot == {MCConfig({a2}, {}, TRUE, {p1}),
                    MCConfig({a1, a2}, {a1, a2}, FALSE, {p1, p2})}
MCPauseSymmetry == Permutations(PauseIDs)
============================================================================
