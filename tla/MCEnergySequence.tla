-------------------------- MODULE MCEnergySequence --------------------------
(* Two sequences of two steps over a register that wraps within one step.  *)
EXTENDS EnergySequence

MCClassMaps == {NoClasses, <<"absent", "UNKILLABLE">>}
=============================================================================
