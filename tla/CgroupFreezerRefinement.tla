----------------------- MODULE CgroupFreezerRefinement ----------------------
(***************************************************************************)
(* The refinement mapping from the controller and its kernel to the        *)
(* promise of ActivationLifecycle.                                         *)
(***************************************************************************)
EXTENDS CgroupFreezer

(* A freeze counts once it is confirmed, a resume and a kill from the      *)
(* moment they are written.                                                *)
phaseBar ==
    CASE state \in {"RUNNING", "FREEZING", "RESUMING"} -> "running"
      [] state = "FROZEN" -> "paused"
      [] state = "KILLING" -> "killing"
      [] state = "STOPPED" -> "gone"
      [] state = "UNKNOWN" -> "lost"

pauseBar == IF state = "FROZEN" THEN lastPauseID ELSE NoPause

executingBar == Populated /\ ~frozen

Lifecycle == INSTANCE ActivationLifecycle
    WITH phase <- phaseBar, pause <- pauseBar, executing <- executingBar

(* The controller keeps the promise: a paused process executes nothing     *)
(* until it is resumed under the pause_id it was paused under, a process   *)
(* reported gone never executes again, a lost one is never paused, resumed *)
(* or killed again.                                                        *)
KeepsLifecycle == Lifecycle!Spec
=============================================================================
