------------------------ MODULE ActivationLifecycle ------------------------
(***************************************************************************)
(* What the controller of openwhisk/cgroupFreezer.go promises to its       *)
(* callers, free of the kernel, the mutex and the polling: the diagram in  *)
(* front of its state constants, with the one thing the energy budget      *)
(* rests on, whether the process may execute.                              *)
(***************************************************************************)
CONSTANTS PauseIDs, NoPause

VARIABLES
    phase,     \* "running", "paused", "killing", "gone" or "lost"
    pause,     \* the pause_id of the current pause, NoPause when not paused
    executing  \* the process consumes CPU time

vars == <<phase, pause, executing>>

TypeOK ==
    /\ phase \in {"running", "paused", "killing", "gone", "lost"}
    /\ pause \in PauseIDs \union {NoPause}
    /\ executing \in BOOLEAN

Init ==
    /\ phase = "running"
    /\ pause = NoPause
    /\ executing = FALSE

(* Only outside a pause, and before its death is confirmed, may the        *)
(* process start or stop executing.                                        *)
Progress ==
    /\ phase \in {"running", "killing", "lost"}
    /\ executing' \in BOOLEAN
    /\ UNCHANGED <<phase, pause>>

Pause(p) ==
    /\ phase = "running"
    /\ ~executing
    /\ phase' = "paused"
    /\ pause' = p
    /\ UNCHANGED executing

(* A pause is left alive only under its own pause_id.                      *)
Resume(p) ==
    /\ phase = "paused"
    /\ pause = p
    /\ phase' = "running"
    /\ pause' = NoPause
    /\ UNCHANGED executing

Kill ==
    /\ phase \in {"running", "paused"}
    /\ phase' = "killing"
    /\ pause' = NoPause
    /\ UNCHANGED executing

Killed ==
    /\ phase = "killing"
    /\ ~executing
    /\ phase' = "gone"
    /\ UNCHANGED <<pause, executing>>

(* An operation the kernel did not confirm: nothing is known any more.     *)
Lose ==
    /\ phase \in {"running", "paused", "killing"}
    /\ phase' = "lost"
    /\ pause' = NoPause
    /\ UNCHANGED executing

Next ==
    \/ Progress
    \/ \E p \in PauseIDs : Pause(p) \/ Resume(p)
    \/ Kill \/ Killed \/ Lose

Spec == Init /\ [][Next]_vars
=============================================================================
