------------------------- MODULE EnergyMonitorProofs ------------------------
(***************************************************************************)
(* One executor with its monitors, for any number of activations at once,  *)
(* any pause_ids, any operations that fail, and a scheduler that answers   *)
(* what it likes.                                                          *)
(***************************************************************************)
EXTENDS EnergyMonitor, CgroupFreezerProofs, FiniteSetTheorems, SequenceTheorems

(* The pauses in the lifecycle of an activation, and the cycle under way.  *)
Recorded(a) == {result[a].cycles[i].pause : i \in DOMAIN result[a].cycles}
InCycle(a) ==
    mpc[a] \in {"freeze", "post", "resume", "sleep", "kill"} /\ pid[a] # NoPause

Final == state \in {"STOPPED", "UNKNOWN"}

(* Where Interact is and where its monitor is.                             *)
Phase(a) ==
    /\ ipc[a] # "new" => Started
    /\ ipc[a] = "new" => mpc[a] = "off" /\ result[a].cycles = <<>>
    /\ Returned(a) \/ ipc[a] = "panic" => MonitorFinished(a)
    /\ report[a] = IF Returned(a) THEN result[a] ELSE NoResult
    /\ mpc[a] \in {"freeze", "post", "resume", "sleep"} => pid[a] # NoPause
    /\ pid[a] # NoPause => a \in PauseEnabled
    /\ mpc[a] = "resume" => pid[a] \in granted
    /\ mpc[a] = "kill" \/ result[a].killed => a \notin Unkillable
    /\ result[a].killed => mpc[a] = "finished" /\ Final

Phases ==
    /\ \A a \in Activations : Phase(a)
    /\ stopping # "no" => Started

(* A call of the controller belongs to the phase of its caller.            *)
MonitorCall(a) ==
    /\ pc[a] = "freezing" => mpc[a] = "freeze"
    /\ pc[a] = "resuming" => mpc[a] = "resume"
    /\ pc[a] \in {"killing", "reaping"} => mpc[a] = "kill"
    /\ pc[a] # "idle" \/ ret[a] # "none" =>
           mpc[a] \in {"freeze", "resume", "kill"} /\ arg[a] = pid[a]
    /\ ret[a] # "none" /\ mpc[a] = "kill" => Final
    /\ ret[a] = "err" /\ mpc[a] = "resume" => Final

MonitorsCall ==
    /\ \A a \in Activations : MonitorCall(a)
    /\ pc[Stopper] \in {"idle", "killing", "reaping"}
    /\ pc[Stopper] # "idle" \/ ret[Stopper] # "none" =>
           stopping = "kill" /\ arg[Stopper] = Shutdown

(* Pause_ids are drawn once, and each is recorded once or in a cycle that  *)
(* is under way.                                                           *)
DrawnOnce ==
    /\ \A a, b \in Activations : pid[a] = pid[b] /\ pid[a] # NoPause => a = b
    /\ \A a \in Activations : pid[a] # NoPause => pid[a] \in used
    /\ lastPauseID \in used \union {NoPause, Shutdown}

RecordedOnce ==
    /\ \A a \in Activations :
           /\ IsFiniteSet(Recorded(a))
           /\ Cardinality(Recorded(a)) = Len(result[a].cycles)
           /\ InCycle(a) => pid[a] \notin Recorded(a)
           /\ \A b \in Activations : a # b => pid[b] \notin Recorded(a)
           /\ Recorded(a) \subseteq used
    /\ \A p \in used : \E a \in Activations :
           p \in Recorded(a) \/ (InCycle(a) /\ p = pid[a])

(* The monitor whose pause the process is frozen under.                    *)
Holds(a) ==
    \/ mpc[a] = "freeze" /\ ret[a] = "nil"
    \/ mpc[a] \in {"post", "sleep"}
    \/ mpc[a] = "resume" /\ pc[a] = "idle" /\ ret[a] # "nil"

Ownership ==
    /\ \A a \in Activations : Holds(a) =>
           \/ state = "FROZEN" /\ lastPauseID = pid[a]
           \/ state \in {"KILLING", "STOPPED", "UNKNOWN"}
    /\ state = "FROZEN" =>
           \E a \in Activations :
               /\ pid[a] = lastPauseID /\ pid[a] # NoPause
               /\ Holds(a) \/ (mpc[a] = "kill" /\ pc[a] = "idle")

(* Who killed.                                                             *)
KilledBy ==
    /\ state \in {"KILLING", "STOPPED"} => killSent
    /\ killSent => \/ stopping # "no"
                   \/ \E a \in Activations \ Unkillable :
                          mpc[a] = "kill" \/ result[a].killed
    /\ \A a \in Activations :
           state = "STOPPED" /\ lastPauseID = pid[a] /\ pid[a] # NoPause
               => \/ mpc[a] = "kill"
                  \/ result[a].killed /\ result[a].pause = pid[a]

(* The threshold and the cycles of a result.                               *)
Thresholds ==
    \A a \in Activations : LastResumed(result[a].cycles, result[a].threshold)

(* The inductive invariant.                                                *)
MInv ==
    /\ Inv /\ MTypeOK /\ Phases /\ MonitorsCall /\ DrawnOnce /\ RecordedOnce
    /\ Ownership /\ KilledBy /\ Thresholds

----------------------------------------------------------------------------
(* The steps, by what they touch.                                          *)

LEMMA CallersSplit ==
  /\ Activations \subseteq Callers /\ Stopper \in Callers
  /\ \A a \in Activations : a # Stopper
  BY EnergyMonitorAssumption DEF EnergyMonitorAssumption

(* Interact and its handler.                                               *)
ProxyStep(a) ==
    InteractStarts(a) \/ ActionAnswers(a) \/ InteractStep(a)

(* The monitor, outside the controller.                                    *)
ThinkStep(a) ==
    \/ MonitorCannotRead(a) \/ MonitorStops(a)
    \/ ThresholdWithoutPause(a) \/ ThresholdWithPause(a)
    \/ RepollAgain(a) \/ SchedulerStep(a)

(* The monitor, as a call returns.                                         *)
TakeStep(a) ==
    \/ KillReturns(a) \/ FreezeSucceeds(a) \/ FreezeFails(a)
    \/ ResumeSucceeds(a) \/ ResumeFails(a)

LEMMA MNextSplits ==
  ASSUME [MNext]_mvars
  PROVE  \/ ControllerStep \/ StopStep
         \/ \E a \in Activations :
                ProxyStep(a) \/ ThinkStep(a) \/ TakeStep(a) \/ MonitorCalls(a)
         \/ UNCHANGED mvars
  BY DEF MNext, MonitorStep, ProxyStep, ThinkStep, TakeStep

LEMMA ProxyLeaves ==
  ASSUME NEW a \in Activations, ProxyStep(a)
  PROVE  /\ UNCHANGED <<vars, config, pid, used, result, granted, stopping>>
         /\ mpc' = mpc \/ InteractStarts(a)
  BY DEF ProxyStep, InteractStarts, ActionAnswers, InteractStep, InteractSelects,
     InteractJoins, InteractPanics, HandlerDropsExecutor, monVars

LEMMA ThinkLeaves ==
  ASSUME NEW a \in Activations, ThinkStep(a)
  PROVE  UNCHANGED <<vars, proxyVars, result>>
  BY DEF ThinkStep, MonitorCannotRead, MonitorStops, ThresholdWithoutPause, ThresholdWithPause,
     RepollAgain, SchedulerStep, PostFails, PostAnswered, monKeeps

LEMMA TakeLeaves ==
  ASSUME NEW a \in Activations, TakeStep(a)
  PROVE  Takes(a) /\ UNCHANGED <<proxyVars, used, granted, pid>>
  BY DEF TakeStep, KillReturns, FreezeSucceeds, FreezeFails, ResumeSucceeds, ResumeFails,
     monKeeps

----------------------------------------------------------------------------
(* The invariant of the controller.                                        *)

LEMMA TakesInv ==
  ASSUME Inv, NEW a \in Callers, Takes(a)
  PROVE  Inv'
  BY DEF Inv, TypeOK, OneOperation, StateIsTrue, CallsAgree, StartComesFirst, KillIsFinal,
     ShutdownIsFinal, CloseIsFinal, MutexFree, RuntimeState, AllPauseIDs, ReaperState,
     Takes, osVars

(* The pause_id a monitor passes.                                          *)
LEMMA PidTypes ==
  ASSUME MTypeOK, Phases, NEW a \in Activations
  PROVE  /\ pid[a] \in AllPauseIDs /\ pid[a] # Shutdown
         /\ mpc[a] \in {"freeze", "post", "resume", "sleep"} => pid[a] \in PauseIDs
         /\ mpc[a] # "off" => Started
<1>1. pid[a] \in PauseIDs \union {NoPause} /\ Phase(a)
      /\ ipc[a] \in {"new", "select", "join", "done", "closed", "panic"}
  BY DEF MTypeOK, Phases
<1> QED
  BY <1>1, CgroupFreezerAssumption DEF CgroupFreezerAssumption, Phase, AllPauseIDs

LEMMA ControllerKept ==
  ASSUME Inv, MTypeOK, Phases, [MNext]_mvars
  PROVE  Inv'
<1>1. CASE ControllerStep
  BY <1>1, StartInv, EnvironmentInv, CallGoesOnInv DEF ControllerStep
<1>2. CASE StopStep
  <2>1. CASE StopBegins
    BY <2>1, StutterInv DEF StopBegins
  <2>2. CASE StopKills
    <3>1. Started /\ Shutdown \in AllPauseIDs
      BY <2>2 DEF StopKills, Phases, AllPauseIDs
    <3> QED
      BY <2>2, <3>1, CallersSplit, KillInv DEF StopKills
  <2>3. CASE StopCloses
    BY <2>3, CallersSplit, CloseInv DEF StopCloses
  <2> QED
    BY <1>2, <2>1, <2>2, <2>3 DEF StopStep
<1>3. ASSUME NEW a \in Activations, MonitorCalls(a)
      PROVE  Inv'
  <2>0. a \in Callers
    BY CallersSplit
  <2>1. CASE mpc[a] = "freeze" /\ freezeExecution(a, pid[a])
    BY <2>0, <2>1, PidTypes, FreezeInv
  <2>2. CASE mpc[a] = "resume" /\ resumeExecution(a, pid[a])
    BY <2>0, <2>2, PidTypes, ResumeInv
  <2>3. CASE mpc[a] = "kill" /\ killExecution(a, pid[a])
    BY <2>0, <2>3, PidTypes, KillInv
  <2> QED
    BY <1>3, <2>1, <2>2, <2>3 DEF MonitorCalls
<1>4. ASSUME NEW a \in Activations, ProxyStep(a) \/ ThinkStep(a)
      PROVE  Inv'
  BY <1>4, ProxyLeaves, ThinkLeaves, StutterInv
<1>5. ASSUME NEW a \in Activations, TakeStep(a)
      PROVE  Inv'
  BY <1>5, CallersSplit, TakeLeaves, TakesInv
<1>6. CASE UNCHANGED mvars
  BY <1>6, StutterInv DEF mvars
<1> QED
  BY <1>1, <1>2, <1>3, <1>4, <1>5, <1>6, MNextSplits

----------------------------------------------------------------------------
(* Types.                                                                  *)

ProxyTypes ==
    /\ config \in Configs
    /\ ipc \in [Activations -> {"new", "select", "join", "done", "closed", "panic"}]
    /\ out \in [Activations -> {"none", "answer", "exited"}]
    /\ line \in [Activations -> BOOLEAN]
    /\ report \in [Activations -> Results]
    /\ current \in BOOLEAN
    /\ stopping \in {"no", "kill", "done"}
MonTypes ==
    /\ mpc \in [Activations -> {"off", "tick", "freeze", "post", "resume",
                                "sleep", "kill", "finished"}]
    /\ pid \in [Activations -> PauseIDs \union {NoPause}]
    /\ used \subseteq PauseIDs
    /\ granted \subseteq PauseIDs

ResultTypes == result \in [Activations -> Results]

LEMMA MTypesSplit ==
  MTypeOK <=> TypeOK /\ ProxyTypes /\ MonTypes /\ ResultTypes
  BY DEF MTypeOK, ProxyTypes, MonTypes, ResultTypes

(* A cycle is recorded: addCycle.                                          *)
LEMMA WithCycleType ==
  ASSUME MonTypes, ResultTypes, NEW a \in Activations, pid[a] # NoPause,
         NEW outcome \in Outcomes
  PROVE  /\ WithCycle(a, outcome) \in Seq([pause : PauseIDs, outcome : Outcomes])
         /\ Len(WithCycle(a, outcome)) = Len(result[a].cycles) + 1
         /\ \A i \in 1 .. Len(result[a].cycles) :
                WithCycle(a, outcome)[i] = result[a].cycles[i]
         /\ WithCycle(a, outcome)[Len(result[a].cycles) + 1] =
                [pause |-> pid[a], outcome |-> outcome]
<1>1. result[a].cycles \in Seq([pause : PauseIDs, outcome : Outcomes])
  BY DEF ResultTypes, Results
<1>2. [pause |-> pid[a], outcome |-> outcome] \in [pause : PauseIDs, outcome : Outcomes]
  BY DEF MonTypes
<1> QED
  BY <1>1, <1>2, AppendProperties DEF WithCycle

(* What a result becomes as a call returns: the same, one more cycle, or   *)
(* the kill of a step without a pause.                                     *)
NoCycle(a) ==
    result' = result /\ (InCycle(a)' <=> InCycle(a))
OneCycle(a, outcome) ==
    /\ InCycle(a) /\ ~InCycle(a)'
    /\ result'[a].cycles = WithCycle(a, outcome)
    /\ result'[a].threshold = IF outcome = "resumed" THEN pid[a] ELSE result[a].threshold
KillWithoutCycle(a) ==
    /\ ~InCycle(a) /\ ~InCycle(a)'
    /\ result'[a].cycles = result[a].cycles /\ result'[a].threshold = result[a].threshold

LEMMA ResultMoves ==
  ASSUME MTypeOK, Phases, NEW a \in Activations, TakeStep(a)
  PROVE  /\ \A b \in Activations : b # a => result'[b] = result[b] /\ mpc'[b] = mpc[b]
         /\ ResultTypes'
         /\ \/ NoCycle(a)
            \/ \E outcome \in Outcomes : OneCycle(a, outcome)
            \/ KillWithoutCycle(a)
         /\ IF KillReturns(a) THEN result'[a].killed /\ result'[a].pause = pid[a]
            ELSE result'[a].killed = result[a].killed /\ result'[a].pause = result[a].pause
<1>0. MonTypes /\ ResultTypes /\ pid' = pid /\ Phase(a)
  BY MTypesSplit, TakeLeaves DEF Phases
<1>1. result[a] \in Results /\ pid[a] \in PauseIDs \union {NoPause}
  BY <1>0 DEF MonTypes, ResultTypes
<1>2. CASE KillReturns(a)
  <2>1. result' = [result EXCEPT ![a] = [result[a] EXCEPT !.killed = TRUE, !.pause = pid[a],
                                                         !.cycles = KilledCycles(a)]]
    BY <1>0, <1>2 DEF KillReturns, ResultTypes
  <2>2. mpc' = [mpc EXCEPT ![a] = "finished"] /\ mpc[a] = "kill"
    BY <1>2 DEF KillReturns
  <2>3. KilledCycles(a) \in Seq([pause : PauseIDs, outcome : Outcomes])
    BY <1>0, <1>1, WithCycleType DEF KilledCycles, Results, Outcomes
  <2>4. result'[a] = [result[a] EXCEPT !.killed = TRUE, !.pause = pid[a],
                                       !.cycles = KilledCycles(a)]
    BY <1>0, <2>1 DEF ResultTypes
  <2>5. /\ result'[a] \in Results /\ result'[a].killed = TRUE /\ result'[a].pause = pid[a]
        /\ result'[a].cycles = KilledCycles(a) /\ result'[a].threshold = result[a].threshold
    BY <1>1, <2>3, <2>4 DEF Results
  <2>6. ResultTypes' /\ \A b \in Activations : b # a => result'[b] = result[b]
    BY <1>0, <2>1, <2>4, <2>5 DEF ResultTypes
  <2>7. mpc'[a] = "finished" /\ \A b \in Activations : b # a => mpc'[b] = mpc[b]
    BY <1>0, <2>2 DEF MonTypes
  <2>8. CASE pid[a] = NoPause
    BY <1>0, <1>2, <2>2, <2>5, <2>6, <2>7, <2>8 DEF KillWithoutCycle, InCycle, KilledCycles
  <2>9. CASE pid[a] # NoPause
    <3>1. OneCycle(a, "killed")
      BY <1>0, <2>2, <2>5, <2>7, <2>9 DEF OneCycle, InCycle, KilledCycles
    <3> QED
      BY <1>2, <2>5, <2>6, <2>7, <3>1 DEF Outcomes
  <2> QED
    BY <2>8, <2>9
<1>3. CASE FreezeFails(a) /\ a \in Unkillable
  <2>1. result' = [result EXCEPT ![a] = [result[a] EXCEPT !.cycles = WithCycle(a, "killed")]]
    BY <1>0, <1>3 DEF FreezeFails, ResultTypes
  <2>2. mpc' = [mpc EXCEPT ![a] = "tick"] /\ mpc[a] = "freeze"
    BY <1>3 DEF FreezeFails, AfterFreezeError
  <2>3. pid[a] # NoPause /\ WithCycle(a, "killed") \in Seq([pause : PauseIDs, outcome : Outcomes])
    BY <1>0, <2>2, WithCycleType DEF Phase, Outcomes
  <2>4. result'[a] = [result[a] EXCEPT !.cycles = WithCycle(a, "killed")]
    BY <1>0, <2>1 DEF ResultTypes
  <2>5. /\ result'[a] \in Results /\ result'[a].killed = result[a].killed
        /\ result'[a].pause = result[a].pause
        /\ result'[a].cycles = WithCycle(a, "killed") /\ result'[a].threshold = result[a].threshold
    BY <1>1, <2>3, <2>4 DEF Results
  <2>6. ResultTypes' /\ \A b \in Activations : b # a => result'[b] = result[b]
    BY <1>0, <2>1, <2>4, <2>5 DEF ResultTypes
  <2>7. mpc'[a] = "tick" /\ \A b \in Activations : b # a => mpc'[b] = mpc[b]
    BY <1>0, <2>2 DEF MonTypes
  <2>8. OneCycle(a, "killed") /\ ~KillReturns(a)
    BY <1>0, <2>2, <2>3, <2>5, <2>7 DEF OneCycle, InCycle, KillReturns
  <2> QED
    BY <2>5, <2>6, <2>7, <2>8 DEF Outcomes
<1>4. CASE ResumeSucceeds(a)
  <2>1. result' = [result EXCEPT ![a] = [result[a] EXCEPT !.threshold = pid[a],
                                                         !.cycles = WithCycle(a, "resumed")]]
    BY <1>0, <1>4 DEF ResumeSucceeds, NewThreshold, ResultTypes
  <2>2. mpc' = [mpc EXCEPT ![a] = "tick"] /\ mpc[a] = "resume"
    BY <1>4 DEF ResumeSucceeds
  <2>3. pid[a] # NoPause /\ WithCycle(a, "resumed") \in Seq([pause : PauseIDs, outcome : Outcomes])
    BY <1>0, <2>2, WithCycleType DEF Phase, Outcomes
  <2>4. result'[a] = [result[a] EXCEPT !.threshold = pid[a], !.cycles = WithCycle(a, "resumed")]
    BY <1>0, <2>1 DEF ResultTypes
  <2>5. /\ result'[a] \in Results /\ result'[a].killed = result[a].killed
        /\ result'[a].pause = result[a].pause
        /\ result'[a].cycles = WithCycle(a, "resumed") /\ result'[a].threshold = pid[a]
    BY <1>1, <2>3, <2>4 DEF Results
  <2>6. ResultTypes' /\ \A b \in Activations : b # a => result'[b] = result[b]
    BY <1>0, <2>1, <2>4, <2>5 DEF ResultTypes
  <2>7. mpc'[a] = "tick" /\ \A b \in Activations : b # a => mpc'[b] = mpc[b]
    BY <1>0, <2>2 DEF MonTypes
  <2>8. OneCycle(a, "resumed") /\ ~KillReturns(a)
    BY <1>0, <2>2, <2>3, <2>5, <2>7 DEF OneCycle, InCycle, KillReturns
  <2> QED
    BY <2>5, <2>6, <2>7, <2>8 DEF Outcomes
<1>5. CASE FreezeSucceeds(a) \/ ResumeFails(a) \/ (FreezeFails(a) /\ a \notin Unkillable)
  <2>1. result' = result
    <3>1. CASE FreezeFails(a) /\ a \notin Unkillable
      <4>1. result' = [result EXCEPT ![a] = [result[a] EXCEPT !.cycles = result[a].cycles]]
        BY <1>0, <3>1 DEF FreezeFails, ResultTypes
      <4>2. [result[a] EXCEPT !.cycles = result[a].cycles] = result[a]
        BY <1>1 DEF Results
      <4> QED
        BY <1>0, <4>1, <4>2 DEF ResultTypes
    <3>2. CASE FreezeSucceeds(a) \/ ResumeFails(a)
      BY <3>2 DEF FreezeSucceeds, ResumeFails
    <3> QED
      BY <1>5, <3>1, <3>2
  <2>2. mpc[a] \in {"freeze", "resume"}
        /\ \E v \in {"post", "sleep", "kill"} : mpc' = [mpc EXCEPT ![a] = v]
    BY <1>5 DEF FreezeSucceeds, ResumeFails, FreezeFails, killOrRetry, AfterFreezeError
  <2>3. NoCycle(a) /\ ~KillReturns(a)
    BY <1>0, <2>1, <2>2 DEF NoCycle, InCycle, MonTypes, KillReturns
  <2>4. \A b \in Activations : b # a => mpc'[b] = mpc[b]
    BY <1>0, <2>2 DEF MonTypes
  <2> QED
    BY <1>0, <2>1, <2>3, <2>4 DEF ResultTypes
<1> QED
  BY <1>2, <1>3, <1>4, <1>5 DEF TakeStep

LEMMA TypesKept ==
  ASSUME Inv', MTypeOK, Phases, [MNext]_mvars
  PROVE  MTypeOK'
<1>0. ProxyTypes /\ MonTypes /\ ResultTypes /\ TypeOK'
  BY MTypesSplit DEF Inv
<1>1. CASE ControllerStep \/ UNCHANGED mvars
  BY <1>0, <1>1 DEF ControllerStep, mvars, proxyVars, monVars, MTypeOK, ProxyTypes, MonTypes,
     ResultTypes
<1>2. CASE StopStep
  BY <1>0, <1>2 DEF StopStep, StopBegins, StopKills, StopCloses, proxyVars, monVars, MTypeOK,
     ProxyTypes, MonTypes, ResultTypes
<1>3. ASSUME NEW a \in Activations, MonitorCalls(a)
      PROVE  MTypeOK'
  BY <1>0, <1>3 DEF MonitorCalls, proxyVars, monVars, MTypeOK, ProxyTypes, MonTypes, ResultTypes
<1>4. ASSUME NEW a \in Activations, ProxyStep(a)
      PROVE  MTypeOK'
  <2>1. MonTypes' /\ ResultTypes'
    BY <1>0, <1>4, ProxyLeaves DEF InteractStarts, MonTypes, ResultTypes
  <2>2. ProxyTypes'
    BY <1>0, <1>4 DEF ProxyStep, InteractStarts, ActionAnswers, InteractStep, InteractSelects,
       InteractJoins, InteractPanics, HandlerDropsExecutor, ProxyTypes, ResultTypes
  <2> QED
    BY <1>0, <2>1, <2>2 DEF MTypeOK, ProxyTypes, MonTypes, ResultTypes
<1>5. ASSUME NEW a \in Activations, ThinkStep(a)
      PROVE  MTypeOK'
  <2>1. ProxyTypes' /\ ResultTypes'
    BY <1>0, <1>5, ThinkLeaves DEF proxyVars, ProxyTypes, ResultTypes
  <2>2. MonTypes'
    <3>1. CASE MonitorCannotRead(a) \/ MonitorStops(a) \/ ThresholdWithoutPause(a) \/ RepollAgain(a)
      BY <1>0, <3>1 DEF MonitorCannotRead, MonitorStops, ThresholdWithoutPause, RepollAgain,
         monKeeps, MonTypes
    <3>2. CASE ThresholdWithPause(a)
      <4>1. FreshIDs \subseteq PauseIDs
        BY <1>0, EnergyMonitorAssumption DEF EnergyMonitorAssumption, ProxyTypes, FreshIDs
      <4> QED
        BY <1>0, <3>2, <4>1 DEF ThresholdWithPause, MonTypes
    <3>3. CASE PostFails(a)
      <4>1. pid[a] \in PauseIDs
        BY <3>3, PidTypes DEF PostFails
      <4> QED
        BY <1>0, <3>3, <4>1 DEF PostFails, killOrRetry, MonTypes
    <3>4. ASSUME NEW command, NEW q \in PauseIDs \union {NoPause}, PostAnswered(a, command, q)
          PROVE  MonTypes'
      <4>1. command = "RESUME_EXECUTION" => q \in PauseIDs
        BY <1>0, <3>4, PidTypes DEF PostAnswered, MonTypes
      <4> QED
        BY <1>0, <3>4, <4>1 DEF PostAnswered, killOrRetry, MonTypes
    <3> QED
      BY <1>5, <3>1, <3>2, <3>3, <3>4 DEF ThinkStep, SchedulerStep
  <2> QED
    BY <1>0, <2>1, <2>2 DEF MTypeOK, ProxyTypes, MonTypes, ResultTypes
<1>6. ASSUME NEW a \in Activations, TakeStep(a)
      PROVE  MTypeOK'
  <2>1. ProxyTypes'
    BY <1>0, <1>6, TakeLeaves DEF proxyVars, ProxyTypes
  <2>2. \E v \in {"tick", "post", "sleep", "kill", "finished"} : mpc' = [mpc EXCEPT ![a] = v]
    BY <1>6 DEF TakeStep, KillReturns, FreezeSucceeds, FreezeFails, ResumeSucceeds, ResumeFails,
       killOrRetry, AfterFreezeError
  <2>3. MonTypes'
    BY <1>0, <1>6, <2>2, TakeLeaves DEF MonTypes
  <2> QED
    BY <1>0, <1>6, <2>1, <2>3, ResultMoves DEF MTypeOK, ProxyTypes, MonTypes, ResultTypes
<1> QED
  BY <1>1, <1>2, <1>3, <1>4, <1>5, <1>6, MNextSplits

----------------------------------------------------------------------------
(* The cycles and the threshold that are reported.                         *)

LEMMA RecordedGrows ==
  ASSUME MonTypes, ResultTypes, NEW a \in Activations, NEW outcome \in Outcomes,
         OneCycle(a, outcome)
  PROVE  Recorded(a)' = Recorded(a) \union {pid[a]}
<1> DEFINE n == Len(result[a].cycles)
<1>1. n \in Nat /\ DOMAIN result[a].cycles = 1 .. n
  BY DEF ResultTypes, Results
<1>2. pid[a] # NoPause
  BY DEF OneCycle, InCycle
<1>3. /\ WithCycle(a, outcome) \in Seq([pause : PauseIDs, outcome : Outcomes])
      /\ Len(WithCycle(a, outcome)) = n + 1
      /\ \A i \in 1 .. n : WithCycle(a, outcome)[i] = result[a].cycles[i]
      /\ WithCycle(a, outcome)[n + 1] = [pause |-> pid[a], outcome |-> outcome]
  BY <1>2, WithCycleType
<1>4. result'[a].cycles = WithCycle(a, outcome)
  BY DEF OneCycle
<1>5. DOMAIN WithCycle(a, outcome) = 1 .. n + 1
  BY <1>3
<1>6. \A i \in 1 .. n + 1 : i \in 1 .. n \/ i = n + 1
  BY <1>1
<1>7. 1 .. n \subseteq 1 .. n + 1 /\ n + 1 \in 1 .. n + 1
  BY <1>1
<1>8. Recorded(a)' = {WithCycle(a, outcome)[i].pause : i \in 1 .. n + 1}
  BY <1>4, <1>5 DEF Recorded
<1>9. Recorded(a) = {result[a].cycles[i].pause : i \in 1 .. n}
  BY <1>1 DEF Recorded
<1>10. WithCycle(a, outcome)[n + 1].pause = pid[a]
  BY <1>3
<1> HIDE DEF n
<1> QED
  BY <1>3, <1>6, <1>7, <1>8, <1>9, <1>10

LEMMA LastResumedGrows ==
  ASSUME MonTypes, ResultTypes, Thresholds, NEW a \in Activations, NEW outcome \in Outcomes,
         OneCycle(a, outcome)
  PROVE  LastResumed(result'[a].cycles, result'[a].threshold)
<1> DEFINE cycles == result[a].cycles
<1> DEFINE n == Len(cycles)
<1> DEFINE more == WithCycle(a, outcome)
<1>1. n \in Nat /\ DOMAIN cycles = 1 .. n
  BY DEF ResultTypes, Results
<1>2. /\ DOMAIN more = 1 .. n + 1
      /\ \A i \in 1 .. n : more[i] = cycles[i]
      /\ more[n + 1].pause = pid[a] /\ more[n + 1].outcome = outcome
  <2>1. pid[a] # NoPause
    BY DEF OneCycle, InCycle
  <2>2. more \in Seq([pause : PauseIDs, outcome : Outcomes]) /\ Len(more) = n + 1
    BY <2>1, WithCycleType
  <2>3. /\ \A i \in 1 .. n : more[i] = cycles[i]
        /\ more[n + 1] = [pause |-> pid[a], outcome |-> outcome]
    BY <2>1, WithCycleType
  <2> QED
    BY <2>2, <2>3
<1>3. /\ result'[a].cycles = more
      /\ result'[a].threshold = IF outcome = "resumed" THEN pid[a] ELSE result[a].threshold
  BY DEF OneCycle
<1>4. LastResumed(cycles, result[a].threshold)
  BY DEF Thresholds
<1> HIDE DEF cycles, n, more
<1>5. \A i \in 1 .. n + 1 : (i \in 1 .. n \/ i = n + 1) /\ i <= n + 1
  BY <1>1
<1>6. 1 .. n \subseteq 1 .. n + 1 /\ n + 1 \in 1 .. n + 1
  BY <1>1
<1>7. CASE outcome = "resumed"
  <2>1. \E i \in 1 .. n + 1 : /\ more[i].outcome = "resumed" /\ pid[a] = more[i].pause
                              /\ \A j \in 1 .. n + 1 : j <= i
    BY <1>2, <1>5, <1>6, <1>7
  <2> QED
    BY <1>2, <1>3, <1>7, <2>1 DEF LastResumed
<1>8. CASE outcome # "resumed"
  <2>1. {i \in 1 .. n + 1 : more[i].outcome = "resumed"}
            = {i \in 1 .. n : cycles[i].outcome = "resumed"}
    BY <1>2, <1>5, <1>6, <1>8
  <2>2. \A i \in 1 .. n : more[i].pause = cycles[i].pause
    BY <1>2
  <2> QED
    BY <1>1, <1>2, <1>3, <1>4, <1>8, <2>1, <2>2 DEF LastResumed
<1> QED
  BY <1>7, <1>8

LEMMA ThresholdsKept ==
  ASSUME MTypeOK, Phases, Thresholds, [MNext]_mvars
  PROVE  Thresholds'
<1>0. MonTypes /\ ResultTypes
  BY MTypesSplit
<1>1. CASE UNCHANGED result
  BY <1>1 DEF Thresholds
<1>2. ASSUME NEW a \in Activations, TakeStep(a)
      PROVE  Thresholds'
  <2>1. ASSUME NEW b \in Activations, b # a
        PROVE  LastResumed(result'[b].cycles, result'[b].threshold)
    BY <1>2, <2>1, ResultMoves DEF Thresholds
  <2>2. LastResumed(result'[a].cycles, result'[a].threshold)
    BY <1>0, <1>2, ResultMoves, LastResumedGrows DEF Thresholds, NoCycle, KillWithoutCycle
  <2> QED
    BY <2>1, <2>2 DEF Thresholds
<1>3. (\E a \in Activations : TakeStep(a)) \/ UNCHANGED result
  BY MNextSplits, ProxyLeaves, ThinkLeaves DEF ControllerStep, StopStep, StopBegins, StopKills,
     StopCloses, MonitorCalls, mvars, monVars
<1> QED
  BY <1>1, <1>2, <1>3

(* What a step does to the pauses drawn and to the cycles under way.       *)
LEMMA CyclesMove ==
  ASSUME MTypeOK, Phases, [MNext]_mvars
  PROVE  \/ UNCHANGED <<pid, used, result>> /\ \A a \in Activations : InCycle(a)' <=> InCycle(a)
         \/ \E a \in Activations : TakeStep(a)
         \/ \E a \in Activations : ThresholdWithPause(a)
<1>0. MonTypes /\ ProxyTypes
  BY MTypesSplit
<1>1. CASE ControllerStep \/ StopStep \/ UNCHANGED mvars
  BY <1>1 DEF ControllerStep, StopStep, StopBegins, StopKills, StopCloses, mvars, monVars, InCycle
<1>2. ASSUME NEW a \in Activations, ProxyStep(a)
      PROVE  UNCHANGED <<pid, used, result>> /\ \A b \in Activations : InCycle(b)' <=> InCycle(b)
  <2>1. CASE mpc' = mpc
    BY <1>2, <2>1, ProxyLeaves DEF InCycle
  <2>2. CASE InteractStarts(a)
    <3>1. mpc[a] = "off"
      BY <2>2 DEF InteractStarts, Phases, Phase
    <3>2. \E v \in {"tick", "off"} : mpc' = [mpc EXCEPT ![a] = v]
      BY <2>2 DEF InteractStarts
    <3> QED
      BY <1>0, <1>2, <3>1, <3>2, ProxyLeaves DEF InCycle, MonTypes
  <2> QED
    BY <1>2, <2>1, <2>2, ProxyLeaves
<1>3. ASSUME NEW a \in Activations, ThinkStep(a), ~ThresholdWithPause(a)
      PROVE  UNCHANGED <<pid, used, result>> /\ \A b \in Activations : InCycle(b)' <=> InCycle(b)
  <2>0. result' = result /\ Phase(a)
    BY <1>3, ThinkLeaves DEF Phases
  <2>1. CASE MonitorCannotRead(a) \/ MonitorStops(a)
    BY <1>0, <2>0, <2>1 DEF MonitorCannotRead, MonitorStops, monKeeps, InCycle, MonTypes
  <2>2. CASE ThresholdWithoutPause(a)
    BY <1>0, <2>0, <2>2 DEF ThresholdWithoutPause, monKeeps, InCycle, MonTypes, Phase
  <2>3. CASE RepollAgain(a) \/ PostFails(a)
    BY <1>0, <2>0, <2>3 DEF RepollAgain, PostFails, killOrRetry, monKeeps, InCycle, MonTypes
  <2>4. ASSUME NEW command, NEW q, PostAnswered(a, command, q)
        PROVE  UNCHANGED <<pid, used>> /\ \A b \in Activations : InCycle(b)' <=> InCycle(b)
    <3>1. mpc[a] = "post" /\ UNCHANGED <<pid, used>>
          /\ \E v \in {"resume", "sleep", "kill"} : mpc' = [mpc EXCEPT ![a] = v]
      BY <2>4 DEF PostAnswered, killOrRetry
    <3> QED
      BY <1>0, <3>1 DEF InCycle, MonTypes
  <2> QED
    BY <1>3, <2>0, <2>1, <2>2, <2>3, <2>4 DEF ThinkStep, SchedulerStep
<1>4. ASSUME NEW a \in Activations, MonitorCalls(a)
      PROVE  UNCHANGED <<pid, used, result>> /\ \A b \in Activations : InCycle(b)' <=> InCycle(b)
  BY <1>4 DEF MonitorCalls, monVars, InCycle
<1> QED
  BY <1>1, <1>2, <1>3, <1>4, MNextSplits

LEMMA RecordedKept ==
  ASSUME MTypeOK, Phases, DrawnOnce, RecordedOnce, [MNext]_mvars
  PROVE  RecordedOnce'
<1>0. MonTypes /\ ResultTypes
  BY MTypesSplit
<1>1. CASE UNCHANGED <<pid, used, result>> /\ \A a \in Activations : InCycle(a)' <=> InCycle(a)
  <2>1. \A a \in Activations : Recorded(a)' = Recorded(a)
    BY <1>1 DEF Recorded
  <2> QED
    BY <1>1, <2>1 DEF RecordedOnce
<1>2. ASSUME NEW a \in Activations, ThresholdWithPause(a)
      PROVE  RecordedOnce'
  <2>1. PICK p \in FreshIDs \ used : pid' = [pid EXCEPT ![a] = p] /\ used' = used \union {p}
    BY <1>2 DEF ThresholdWithPause
  <2>2. mpc' = [mpc EXCEPT ![a] = "freeze"] /\ mpc[a] = "tick" /\ result' = result
    BY <1>2 DEF ThresholdWithPause
  <2>3. \A b \in Activations : Recorded(b)' = Recorded(b)
    BY <2>2 DEF Recorded
  <2>4. p # NoPause
    BY <1>2, <2>1, MTypesSplit, EnergyMonitorAssumption, CgroupFreezerAssumption
    DEF EnergyMonitorAssumption, CgroupFreezerAssumption, FreshIDs, ProxyTypes
  <2>5. /\ pid'[a] = p /\ InCycle(a)' /\ ~InCycle(a)
        /\ \A b \in Activations : b # a => pid'[b] = pid[b] /\ (InCycle(b)' <=> InCycle(b))
    BY <1>0, <2>1, <2>2, <2>4 DEF MonTypes, InCycle
  <2>6. \A b \in Activations : p \notin Recorded(b)
    BY <2>1 DEF RecordedOnce
  <2>7. \A b \in Activations :
           /\ IsFiniteSet(Recorded(b)')
           /\ Cardinality(Recorded(b)') = Len(result'[b].cycles)
           /\ InCycle(b)' => pid'[b] \notin Recorded(b)'
           /\ \A c \in Activations : b # c => pid'[c] \notin Recorded(b)'
           /\ Recorded(b)' \subseteq used'
    BY <2>1, <2>2, <2>3, <2>5, <2>6 DEF RecordedOnce
  <2>8. \A q \in used' : \E b \in Activations :
           q \in Recorded(b)' \/ (InCycle(b)' /\ q = pid'[b])
    BY <2>1, <2>3, <2>5 DEF RecordedOnce
  <2> QED
    BY <2>7, <2>8 DEF RecordedOnce
<1>3. ASSUME NEW a \in Activations, TakeStep(a)
      PROVE  RecordedOnce'
  <2>0. /\ pid' = pid /\ used' = used
        /\ \A b \in Activations : b # a => result'[b] = result[b] /\ (InCycle(b)' <=> InCycle(b))
    BY <1>3, TakeLeaves, ResultMoves DEF InCycle
  <2>1. \A b \in Activations : b # a => Recorded(b)' = Recorded(b)
    BY <2>0 DEF Recorded
  <2>2. CASE NoCycle(a) \/ KillWithoutCycle(a)
    <3>1. Recorded(a)' = Recorded(a) /\ result'[a].cycles = result[a].cycles
          /\ (InCycle(a)' <=> InCycle(a))
      BY <2>2 DEF NoCycle, KillWithoutCycle, Recorded
    <3>2. \A b \in Activations : Recorded(b)' = Recorded(b) /\ (InCycle(b)' <=> InCycle(b))
                                 /\ result'[b].cycles = result[b].cycles
      BY <2>0, <2>1, <3>1
    <3> QED
      BY <2>0, <3>2 DEF RecordedOnce
  <2>3. ASSUME NEW outcome \in Outcomes, OneCycle(a, outcome)
        PROVE  RecordedOnce'
    <3>1. Recorded(a)' = Recorded(a) \union {pid[a]}
      BY <1>0, <2>3, RecordedGrows
    <3>2. pid[a] # NoPause /\ InCycle(a) /\ ~InCycle(a)' /\ pid[a] \notin Recorded(a)
      BY <2>3 DEF OneCycle, InCycle, RecordedOnce
    <3>3. Len(result'[a].cycles) = Len(result[a].cycles) + 1
      <4>1. result'[a].cycles = WithCycle(a, outcome)
        BY <2>3 DEF OneCycle
      <4>2. Len(WithCycle(a, outcome)) = Len(result[a].cycles) + 1
        BY <1>0, <3>2, WithCycleType
      <4> QED
        BY <4>1, <4>2
    <3>4. IsFiniteSet(Recorded(a)') /\ Cardinality(Recorded(a)') = Cardinality(Recorded(a)) + 1
      <4>1. IsFiniteSet(Recorded(a))
        BY DEF RecordedOnce
      <4>2. /\ IsFiniteSet(Recorded(a) \union {pid[a]})
            /\ Cardinality(Recorded(a) \union {pid[a]}) = Cardinality(Recorded(a)) + 1
        BY <3>2, <4>1, FS_AddElement
      <4> QED
        BY <3>1, <4>2
    <3>5. pid[a] \in used /\ \A b \in Activations : b # a => pid[b] # pid[a]
      BY <3>2 DEF DrawnOnce
    <3>6. \A b \in Activations :
           /\ IsFiniteSet(Recorded(b)')
           /\ Cardinality(Recorded(b)') = Len(result'[b].cycles)
           /\ InCycle(b)' => pid'[b] \notin Recorded(b)'
           /\ \A c \in Activations : b # c => pid'[c] \notin Recorded(b)'
           /\ Recorded(b)' \subseteq used'
      <4>1. ASSUME NEW b \in Activations, b # a
            PROVE  /\ IsFiniteSet(Recorded(b)')
                   /\ Cardinality(Recorded(b)') = Len(result'[b].cycles)
                   /\ InCycle(b)' => pid'[b] \notin Recorded(b)'
                   /\ \A c \in Activations : b # c => pid'[c] \notin Recorded(b)'
                   /\ Recorded(b)' \subseteq used'
        BY <2>0, <2>1, <4>1 DEF RecordedOnce
      <4>2. Cardinality(Recorded(a)') = Len(result'[a].cycles)
        BY <3>3, <3>4 DEF RecordedOnce
      <4>3. /\ \A c \in Activations : a # c => pid'[c] \notin Recorded(a)'
            /\ Recorded(a)' \subseteq used'
        BY <2>0, <3>1, <3>5 DEF RecordedOnce
      <4> QED
        BY <3>2, <3>4, <4>1, <4>2, <4>3
    <3>7. \A q \in used' : \E b \in Activations :
             q \in Recorded(b)' \/ (InCycle(b)' /\ q = pid'[b])
      BY <2>0, <2>1, <3>1 DEF RecordedOnce
    <3> QED
      BY <3>6, <3>7 DEF RecordedOnce
  <2> QED
    BY <1>3, <2>2, <2>3, ResultMoves
<1> QED
  BY <1>1, <1>2, <1>3, CyclesMove

----------------------------------------------------------------------------
(* The calls of the controller.                                            *)

CallsInv == MonitorsCall /\ DrawnOnce /\ Ownership /\ KilledBy

(* The state of everything but the controller and its kernel.              *)
MonSame == UNCHANGED <<mpc, pid, used, result, granted, config, stopping>>

(* A step that changes only what one caller sees of the controller.        *)
OthersSame(c) ==
    \A d \in Callers : d # c => pc'[d] = pc[d] /\ arg'[d] = arg[d] /\ ret'[d] = ret[d]

(* In a state that is final the calls need only be kept in their phases.   *)
LEMMA FinalIsEnough ==
  ASSUME MTypeOK, Phases, CallsInv, MonSame, Final', MonitorsCall',
         lastPauseID' = lastPauseID, killSent' = killSent,
         state' = state \/ state' = "UNKNOWN"
  PROVE  CallsInv'
<1>1. DrawnOnce'
  BY DEF CallsInv, DrawnOnce, MonSame
<1>2. Ownership'
  BY DEF Ownership, Final
<1>3. KilledBy'
  BY DEF CallsInv, KilledBy, MonSame, Unkillable
<1> QED
  BY <1>1, <1>2, <1>3 DEF CallsInv

LEMMA FreezeCalls ==
  ASSUME Inv, MTypeOK, Phases, CallsInv, MonSame, NEW a \in Activations,
         mpc[a] = "freeze", pc[a] = "idle", ret[a] = "none", freezeExecution(a, pid[a])
  PROVE  CallsInv'
<1>0. /\ a \in Callers /\ a # Stopper /\ Activations \subseteq Callers /\ Stopper \in Callers
      /\ TypeOK /\ MonTypes
  BY CallersSplit, MTypesSplit DEF Inv
<1>1. MonitorsCall /\ DrawnOnce /\ Ownership /\ KilledBy
  BY DEF CallsInv
<1>2. CASE FreezeRepeated(a, pid[a])
  <2>1. /\ OthersSame(a) /\ pc'[a] = "idle" /\ arg'[a] = pid[a] /\ ret'[a] = "nil"
        /\ state = "FROZEN" /\ lastPauseID = pid[a]
        /\ UNCHANGED <<state, lastPauseID, killSent, pc>>
    BY <1>0, <1>2 DEF FreezeRepeated, Answers, OthersSame, TypeOK, osVars
  <2>2. MonitorsCall'
    BY <1>0, <1>1, <2>1 DEF MonitorsCall, MonitorCall, OthersSame, MonSame, Final
  <2>3. Ownership'
    BY <1>0, <1>1, <2>1 DEF Ownership, Holds, OthersSame, MonSame
  <2> QED
    BY <1>1, <2>1, <2>2, <2>3 DEF CallsInv, DrawnOnce, KilledBy, MonSame, Unkillable
<1>3. CASE FreezeRejected(a, pid[a])
  <2>1. /\ OthersSame(a) /\ pc'[a] = "idle" /\ arg'[a] = pid[a] /\ ret'[a] = "err"
        /\ UNCHANGED <<state, lastPauseID, killSent, pc>>
    BY <1>0, <1>3 DEF FreezeRejected, Answers, OthersSame, TypeOK, osVars
  <2>2. MonitorsCall'
    BY <1>0, <1>1, <2>1 DEF MonitorsCall, MonitorCall, OthersSame, MonSame, Final
  <2>3. \A b \in Activations : (Holds(b)' => Holds(b)) /\ (Holds(b) => Holds(b)')
    BY <1>0, <2>1 DEF Holds, OthersSame, MonSame
  <2>4. Ownership'
    BY <1>1, <2>1, <2>3 DEF Ownership, MonSame
  <2> QED
    BY <1>1, <2>1, <2>2, <2>4 DEF CallsInv, DrawnOnce, KilledBy, MonSame, Unkillable
<1>4. CASE FreezeWritten(a, pid[a])
  <2>1. /\ OthersSame(a) /\ pc'[a] = "freezing" /\ arg'[a] = pid[a] /\ ret'[a] = "none"
        /\ state = "RUNNING" /\ state' = "FREEZING" /\ UNCHANGED <<lastPauseID, killSent>>
    BY <1>0, <1>4 DEF FreezeWritten, Enters, OthersSame, TypeOK
  <2>2. MonitorsCall'
    BY <1>0, <1>1, <2>1 DEF MonitorsCall, MonitorCall, OthersSame, MonSame, Final
  <2>3. \A b \in Activations : ~Holds(b)'
    BY <1>0, <1>1, <2>1 DEF Ownership, Holds, OthersSame, MonSame
  <2>4. Ownership'
    BY <2>1, <2>3 DEF Ownership
  <2> QED
    BY <1>1, <2>1, <2>2, <2>4 DEF CallsInv, DrawnOnce, KilledBy, MonSame, Unkillable
<1>5. CASE FreezeWriteFails(a, pid[a])
  <2>1. /\ OthersSame(a) /\ pc'[a] = "idle" /\ arg'[a] = pid[a] /\ ret'[a] = "err"
        /\ state' = "UNKNOWN" /\ UNCHANGED <<lastPauseID, killSent>>
    BY <1>0, <1>5 DEF FreezeWriteFails, Answers, Unconfirmed, OthersSame, TypeOK, osVars
  <2>2. MonitorsCall'
    BY <1>0, <1>1, <2>1 DEF MonitorsCall, MonitorCall, OthersSame, MonSame, Final
  <2> QED
    BY <2>1, <2>2, FinalIsEnough DEF Final
<1> QED
  BY <1>2, <1>3, <1>4, <1>5 DEF freezeExecution

LEMMA ResumeCalls ==
  ASSUME Inv, MTypeOK, Phases, CallsInv, MonSame, NEW a \in Activations,
         mpc[a] = "resume", pc[a] = "idle", ret[a] = "none", resumeExecution(a, pid[a])
  PROVE  CallsInv'
<1>0. /\ a \in Callers /\ a # Stopper /\ Activations \subseteq Callers /\ Stopper \in Callers
      /\ TypeOK /\ MonTypes
  BY CallersSplit, MTypesSplit DEF Inv
<1>1. MonitorsCall /\ DrawnOnce /\ Ownership /\ KilledBy
  BY DEF CallsInv
<1>2. MutexFree /\ state \in {"RUNNING", "FROZEN", "STOPPED", "UNKNOWN"}
  BY FreeWhenSettled DEF resumeExecution, ResumeRepeated, ResumeRejected, ResumeWritten,
     ResumeWriteFails
<1>3. (state = "FROZEN" /\ lastPauseID = pid[a]) \/ Final
  BY <1>1, <1>2 DEF Ownership, Holds, Final
<1>4. CASE ResumeRejected(a, pid[a])
  <2>1. /\ OthersSame(a) /\ pc'[a] = "idle" /\ arg'[a] = pid[a] /\ ret'[a] = "err"
        /\ UNCHANGED <<state, lastPauseID, killSent, pc>> /\ Final
    BY <1>0, <1>3, <1>4 DEF ResumeRejected, PauseInForce, Answers, OthersSame, TypeOK, osVars
  <2>2. MonitorsCall'
    BY <1>0, <1>1, <2>1 DEF MonitorsCall, MonitorCall, OthersSame, MonSame, Final
  <2> QED
    BY <2>1, <2>2, FinalIsEnough DEF Final
<1>5. CASE ResumeWritten(a, pid[a])
  <2>1. /\ OthersSame(a) /\ pc'[a] = "resuming" /\ arg'[a] = pid[a] /\ ret'[a] = "none"
        /\ state = "FROZEN" /\ lastPauseID = pid[a]
        /\ state' = "RESUMING" /\ UNCHANGED <<lastPauseID, killSent>>
    BY <1>0, <1>5 DEF ResumeWritten, PauseInForce, Enters, OthersSame, TypeOK
  <2>2. MonitorsCall'
    BY <1>0, <1>1, <2>1 DEF MonitorsCall, MonitorCall, OthersSame, MonSame, Final
  <2>3. pid[a] # NoPause
    BY DEF Phases, Phase
  <2>4. \A b \in Activations : b # a => ~Holds(b)
    BY <1>1, <2>1, <2>3 DEF Ownership, DrawnOnce
  <2>5. \A b \in Activations : ~Holds(b)'
    BY <1>0, <2>1, <2>4 DEF Holds, OthersSame, MonSame
  <2>6. Ownership'
    BY <2>1, <2>5 DEF Ownership
  <2> QED
    BY <1>1, <2>1, <2>2, <2>6 DEF CallsInv, DrawnOnce, KilledBy, MonSame, Unkillable
<1>6. CASE ResumeWriteFails(a, pid[a])
  <2>1. /\ OthersSame(a) /\ pc'[a] = "idle" /\ arg'[a] = pid[a] /\ ret'[a] = "err"
        /\ state' = "UNKNOWN" /\ UNCHANGED <<lastPauseID, killSent>>
    BY <1>0, <1>6 DEF ResumeWriteFails, Answers, Unconfirmed, OthersSame, TypeOK, osVars
  <2>2. MonitorsCall'
    BY <1>0, <1>1, <2>1 DEF MonitorsCall, MonitorCall, OthersSame, MonSame, Final
  <2> QED
    BY <2>1, <2>2, FinalIsEnough DEF Final
<1>7. ~ResumeRepeated(a, pid[a])
  BY <1>3 DEF ResumeRepeated, Final
<1> QED
  BY <1>4, <1>5, <1>6, <1>7 DEF resumeExecution

(* A kill, of a monitor or of Executor.Stop.                               *)
LEMMA KillCalls ==
  ASSUME Inv, MTypeOK, Phases, CallsInv, MonSame, NEW c \in Callers, NEW p,
         pc[c] = "idle", ret[c] = "none", killExecution(c, p),
         \/ c \in Activations /\ mpc[c] = "kill" /\ p = pid[c]
         \/ c = Stopper /\ stopping = "kill" /\ p = Shutdown
  PROVE  CallsInv'
<1>0. /\ \A a \in Activations : a # Stopper
      /\ Activations \subseteq Callers /\ Stopper \in Callers
      /\ TypeOK /\ MonTypes
  BY CallersSplit, MTypesSplit DEF Inv
<1>1. MonitorsCall /\ DrawnOnce /\ Ownership /\ KilledBy
  BY DEF CallsInv
<1>2. CASE KillRepeated(c, p) \/ KillRejected(c, p) \/ KillWriteFails(c, p)
  <2>1. MutexFree /\ state \in {"RUNNING", "FROZEN", "STOPPED", "UNKNOWN"}
    BY <1>2, FreeWhenSettled DEF KillRepeated, KillRejected, KillWriteFails
  <2>2. /\ OthersSame(c) /\ pc'[c] = "idle" /\ arg'[c] = p
        /\ Final' /\ (state' = state \/ state' = "UNKNOWN")
        /\ UNCHANGED <<lastPauseID, killSent>>
    BY <1>0, <1>2, <2>1 DEF KillRepeated, KillRejected, KillWriteFails, Answers, Unconfirmed,
       OthersSame, TypeOK, osVars, Final
  <2>3. MonitorsCall'
    BY <1>0, <1>1, <2>2 DEF MonitorsCall, MonitorCall, OthersSame, MonSame
  <2> QED
    BY <2>2, <2>3, FinalIsEnough
<1>3. CASE KillWritten(c, p)
  <2>1. /\ OthersSame(c) /\ pc'[c] = "killing" /\ arg'[c] = p /\ ret'[c] = "none"
        /\ state \in {"RUNNING", "FROZEN"} /\ state' = "KILLING" /\ killSent'
        /\ UNCHANGED lastPauseID
    BY <1>0, <1>3 DEF KillWritten, Enters, OthersSame, TypeOK
  <2>2. MonitorsCall'
    BY <1>0, <1>1, <2>1 DEF MonitorsCall, MonitorCall, OthersSame, MonSame, Final
  <2>3. DrawnOnce' /\ Ownership'
    BY <1>1, <2>1 DEF DrawnOnce, Ownership, MonSame
  <2>4. KilledBy'
    <3>1. \/ stopping # "no"
          \/ \E a \in Activations \ Unkillable : mpc[a] = "kill" \/ result[a].killed
      BY DEF Phases, Phase
    <3> QED
      BY <2>1, <3>1 DEF KilledBy, MonSame, Unkillable
  <2> QED
    BY <2>2, <2>3, <2>4 DEF CallsInv
<1> QED
  BY <1>2, <1>3 DEF killExecution

(* The second half of a call.                                              *)
LEMMA CallGoesOnCalls ==
  ASSUME Inv, MTypeOK, Phases, CallsInv, MonSame, NEW c \in Callers, CallGoesOn(c)
  PROVE  CallsInv'
<1>0. /\ \A a \in Activations : a # Stopper
      /\ Activations \subseteq Callers /\ Stopper \in Callers
      /\ Callers = Activations \union {Stopper}
      /\ TypeOK /\ MonTypes
  BY CallersSplit, MTypesSplit, EnergyMonitorAssumption DEF EnergyMonitorAssumption, Inv
<1>1. MonitorsCall /\ DrawnOnce /\ Ownership /\ KilledBy
  BY DEF CallsInv
<1>2. /\ pc[c] = "freezing" => state = "FREEZING"
      /\ pc[c] = "resuming" => state = "RESUMING"
      /\ pc[c] \in {"killing", "reaping"} => state = "KILLING"
  BY DEF Inv, CallsAgree
<1>3. CASE FreezeConfirmed(c)
  <2>1. /\ OthersSame(c) /\ pc'[c] = "idle" /\ arg'[c] = arg[c] /\ ret'[c] = "nil"
        /\ pc[c] = "freezing" /\ state' = "FROZEN" /\ lastPauseID' = arg[c] /\ killSent' = killSent
    BY <1>0, <1>3 DEF FreezeConfirmed, Returns, ConfirmedPause, OthersSame, TypeOK, osVars
  <2>2. c \in Activations /\ mpc[c] = "freeze" /\ arg[c] = pid[c] /\ state = "FREEZING"
    BY <1>0, <1>1, <1>2, <2>1 DEF MonitorsCall, MonitorCall
  <2>3. MonitorsCall'
    BY <1>0, <1>1, <2>1, <2>2 DEF MonitorsCall, MonitorCall, OthersSame, MonSame, Final
  <2>4. Ownership'
    <3>1. \A b \in Activations : b # c => ~Holds(b)'
      BY <1>0, <1>1, <2>1, <2>2 DEF Ownership, Holds, OthersSame, MonSame
    <3>2. Holds(c)' /\ lastPauseID' = pid'[c] /\ pid'[c] # NoPause
      BY <2>1, <2>2 DEF Holds, MonSame, Phases, Phase
    <3> QED
      BY <2>1, <2>2, <3>1, <3>2 DEF Ownership
  <2>5. DrawnOnce' /\ KilledBy'
    BY <1>1, <2>1, <2>2 DEF DrawnOnce, KilledBy, MonSame, Unkillable
  <2> QED
    BY <2>3, <2>4, <2>5 DEF CallsInv
<1>4. CASE ResumeConfirmed(c)
  <2>1. /\ OthersSame(c) /\ pc'[c] = "idle" /\ arg'[c] = arg[c] /\ ret'[c] = "nil"
        /\ pc[c] = "resuming" /\ state' = "RUNNING" /\ lastPauseID' = arg[c] /\ killSent' = killSent
    BY <1>0, <1>4 DEF ResumeConfirmed, Returns, ConfirmedPause, OthersSame, TypeOK, osVars
  <2>2. c \in Activations /\ mpc[c] = "resume" /\ arg[c] = pid[c] /\ state = "RESUMING"
    BY <1>0, <1>1, <1>2, <2>1 DEF MonitorsCall, MonitorCall
  <2>3. MonitorsCall'
    BY <1>0, <1>1, <2>1, <2>2 DEF MonitorsCall, MonitorCall, OthersSame, MonSame, Final
  <2>4. \A b \in Activations : ~Holds(b)'
    BY <1>0, <1>1, <2>1, <2>2 DEF Ownership, Holds, OthersSame, MonSame
  <2>5. Ownership'
    BY <2>1, <2>4 DEF Ownership
  <2>6. DrawnOnce' /\ KilledBy'
    BY <1>1, <2>1, <2>2 DEF DrawnOnce, KilledBy, MonSame, Unkillable
  <2> QED
    BY <2>3, <2>5, <2>6 DEF CallsInv
<1>5. CASE FreezeTimesOut(c) \/ ResumeTimesOut(c) \/ KillTimesOut(c)
  <2>1. /\ OthersSame(c) /\ pc'[c] = "idle" /\ arg'[c] = arg[c] /\ ret'[c] = "err"
        /\ pc[c] # "idle" /\ state' = "UNKNOWN" /\ UNCHANGED <<lastPauseID, killSent>>
    BY <1>0, <1>5 DEF FreezeTimesOut, ResumeTimesOut, KillTimesOut, Returns, Unconfirmed,
       OthersSame, TypeOK, osVars
  <2>2. MonitorsCall'
    BY <1>0, <1>1, <2>1 DEF MonitorsCall, MonitorCall, OthersSame, MonSame, Final
  <2> QED
    BY <2>1, <2>2, FinalIsEnough DEF Final
<1>6. CASE KillConfirmed(c)
  <2>1. /\ \A d \in Callers : d # c => pc'[d] = pc[d]
        /\ pc'[c] = "reaping" /\ pc[c] = "killing" /\ state = "KILLING"
        /\ UNCHANGED <<arg, ret, state, lastPauseID, killSent>>
    BY <1>0, <1>2, <1>6 DEF KillConfirmed, TypeOK, osVars
  <2>2. MonitorsCall'
    BY <1>0, <1>1, <2>1 DEF MonitorsCall, MonitorCall, MonSame, Final
  <2>3. Ownership' /\ DrawnOnce' /\ KilledBy'
    BY <1>1, <2>1 DEF Ownership, DrawnOnce, KilledBy, MonSame, Unkillable
  <2> QED
    BY <2>2, <2>3 DEF CallsInv
<1>7. CASE KillReaped(c)
  <2>1. /\ OthersSame(c) /\ pc'[c] = "idle" /\ arg'[c] = arg[c] /\ ret'[c] = "nil"
        /\ pc[c] = "reaping" /\ state = "KILLING" /\ state' = "STOPPED"
        /\ lastPauseID' = arg[c] /\ killSent' = killSent
    BY <1>0, <1>2, <1>7 DEF KillReaped, Returns, ConfirmedPause, OthersSame, TypeOK, osVars
  <2>2. \/ c \in Activations /\ mpc[c] = "kill" /\ arg[c] = pid[c]
        \/ c = Stopper /\ arg[c] = Shutdown
    BY <1>0, <1>1, <2>1 DEF MonitorsCall, MonitorCall
  <2>3. MonitorsCall'
    BY <1>0, <1>1, <2>1, <2>2 DEF MonitorsCall, MonitorCall, OthersSame, MonSame, Final
  <2>4. Ownership'
    BY <2>1 DEF Ownership
  <2>5. DrawnOnce'
    BY <1>1, <2>1, <2>2 DEF DrawnOnce, MonSame
  <2>6. KilledBy'
    <3>1. \A a \in Activations : arg[c] = pid[a] /\ pid[a] # NoPause => mpc[a] = "kill"
      BY <1>1, <2>2, PidTypes DEF DrawnOnce
    <3> QED
      BY <1>1, <2>1, <3>1 DEF KilledBy, MonSame, Unkillable
  <2> QED
    BY <2>3, <2>4, <2>5, <2>6 DEF CallsInv
<1> QED
  BY <1>3, <1>4, <1>5, <1>6, <1>7 DEF CallGoesOn, FreezeGoesOn, ResumeGoesOn, KillGoesOn

(* The kernel, the process, the reaper and Start.                          *)
LEMMA EnvironmentCalls ==
  ASSUME Inv, CallsInv, MonSame, Start \/ Environment \/ UNCHANGED vars
  PROVE  CallsInv'
<1>1. UNCHANGED <<state, lastPauseID, pc, arg, ret, killSent>>
  BY DEF Start, Environment, KernelFreezes, KernelThaws, KernelKills, ProcForks, ProcExits,
     KidsExit, Reap, ReaperLocks, ReaperCloses, ctlVars, osVars, vars, Inv, StartComesFirst
<1> QED
  BY <1>1 DEF CallsInv, MonitorsCall, MonitorCall, Final, DrawnOnce, Ownership, Holds, KilledBy,
     MonSame, Unkillable

(* Executor.Stop, outside its kill.                                        *)
LEMMA StopCalls ==
  ASSUME Inv, MTypeOK, CallsInv, StopBegins \/ StopCloses
  PROVE  CallsInv'
<1>0. /\ \A a \in Activations : a # Stopper
      /\ Activations \subseteq Callers /\ Stopper \in Callers
      /\ TypeOK /\ MonitorsCall /\ DrawnOnce /\ Ownership /\ KilledBy
  BY CallersSplit DEF Inv, CallsInv
<1>1. CASE StopBegins
  <2>1. /\ UNCHANGED <<state, lastPauseID, killSent, pc, arg, ret, mpc, pid, used, result, config>>
        /\ stopping = "no" /\ stopping' = "kill"
    BY <1>1 DEF StopBegins, vars, ctlVars, osVars, monVars
  <2>2. MonitorsCall'
    BY <1>0, <2>1 DEF MonitorsCall, MonitorCall, Final
  <2> QED
    BY <1>0, <2>1, <2>2 DEF CallsInv, DrawnOnce, Ownership, Holds, KilledBy, Unkillable
<1>2. CASE StopCloses
  <2>1. /\ UNCHANGED <<state, lastPauseID, killSent, pc, mpc, pid, used, result, config>>
        /\ stopping = "kill" /\ stopping' = "done" /\ pc[Stopper] = "idle"
        /\ ret'[Stopper] = "none"
        /\ \A d \in Callers : d # Stopper => arg'[d] = arg[d] /\ ret'[d] = ret[d]
    BY <1>0, <1>2 DEF StopCloses, Close, MutexFree, TypeOK, monVars
  <2>2. MonitorsCall'
    BY <1>0, <2>1 DEF MonitorsCall, MonitorCall, Final
  <2>3. \A b \in Activations : Holds(b)' <=> Holds(b)
    BY <1>0, <2>1 DEF Holds
  <2>4. Ownership'
    BY <1>0, <2>1, <2>3 DEF Ownership
  <2> QED
    BY <1>0, <2>1, <2>2, <2>4 DEF CallsInv, DrawnOnce, KilledBy, Unkillable
<1> QED
  BY <1>1, <1>2

LEMMA ProxyCalls ==
  ASSUME MTypeOK, Phases, CallsInv, NEW a \in Activations, ProxyStep(a)
  PROVE  CallsInv'
<1>0. MonitorsCall /\ DrawnOnce /\ Ownership /\ KilledBy /\ MonTypes
  BY MTypesSplit DEF CallsInv
<1>1. UNCHANGED <<state, lastPauseID, killSent, pc, arg, ret, pid, used, result, config, stopping>>
  BY ProxyLeaves DEF vars, ctlVars, osVars
<1>2. CASE mpc' = mpc
  BY <1>0, <1>1, <1>2 DEF CallsInv, MonitorsCall, MonitorCall, Final, DrawnOnce, Ownership, Holds,
     KilledBy, Unkillable
<1>3. CASE InteractStarts(a)
  <2>1. /\ mpc[a] = "off" /\ mpc'[a] \in {"off", "tick"}
        /\ \A b \in Activations : b # a => mpc'[b] = mpc[b]
    BY <1>0, <1>3 DEF InteractStarts, Phases, Phase, MonTypes
  <2>2. MonitorsCall'
    BY <1>0, <1>1, <2>1 DEF MonitorsCall, MonitorCall, Final
  <2>3. \A b \in Activations : Holds(b)' <=> Holds(b)
    BY <1>1, <2>1 DEF Holds
  <2>4. Ownership'
    BY <1>0, <1>1, <2>1, <2>3 DEF Ownership
  <2>5. KilledBy'
    BY <1>0, <1>1, <2>1 DEF KilledBy, Unkillable
  <2> QED
    BY <1>0, <1>1, <2>2, <2>4, <2>5 DEF CallsInv, DrawnOnce
<1> QED
  BY <1>2, <1>3, ProxyLeaves

(* What a step of a monitor that waits for no call does to its phase.      *)
SamePause(a) ==
    /\ pid' = pid /\ used' = used
    /\ mpc'[a] \in {"post", "sleep", "resume"} => Holds(a)
    /\ Holds(a) => mpc'[a] \in {"post", "sleep", "resume", "kill"}
    /\ mpc'[a] # "freeze" /\ mpc[a] # "kill"
NewPause(a) ==
    /\ pid'[a] \notin used /\ pid'[a] \in PauseIDs /\ used' = used \union {pid'[a]}
    /\ \A b \in Activations : b # a => pid'[b] = pid[b]
    /\ mpc[a] = "tick" /\ mpc'[a] = "freeze"

LEMMA ThinkMoves ==
  ASSUME MTypeOK, Phases, NEW a \in Activations, ThinkStep(a)
  PROVE  /\ \A b \in Activations : b # a => mpc'[b] = mpc[b]
         /\ mpc[a] \in {"tick", "post", "sleep"}
         /\ SamePause(a) \/ NewPause(a)
<1>0. MonTypes /\ ProxyTypes
  BY MTypesSplit
<1>1. CASE MonitorCannotRead(a) \/ MonitorStops(a) \/ ThresholdWithoutPause(a) \/ RepollAgain(a)
  BY <1>0, <1>1 DEF MonitorCannotRead, MonitorStops, ThresholdWithoutPause, RepollAgain,
     monKeeps, MonTypes, SamePause, Holds
<1>2. CASE ThresholdWithPause(a)
  <2>1. FreshIDs \subseteq PauseIDs
    BY <1>0, EnergyMonitorAssumption DEF EnergyMonitorAssumption, ProxyTypes, FreshIDs
  <2> QED
    BY <1>0, <1>2, <2>1 DEF ThresholdWithPause, MonTypes, NewPause
<1>3. CASE PostFails(a)
  BY <1>0, <1>3 DEF PostFails, killOrRetry, MonTypes, SamePause, Holds
<1>4. ASSUME NEW command, NEW q, PostAnswered(a, command, q)
      PROVE  /\ \A b \in Activations : b # a => mpc'[b] = mpc[b]
             /\ mpc[a] \in {"tick", "post", "sleep"}
             /\ SamePause(a)
  BY <1>0, <1>4 DEF PostAnswered, killOrRetry, MonTypes, SamePause, Holds
<1> QED
  BY <1>1, <1>2, <1>3, <1>4 DEF ThinkStep, SchedulerStep

LEMMA ThinkCalls ==
  ASSUME MTypeOK, Phases, CallsInv, NEW a \in Activations, ThinkStep(a)
  PROVE  CallsInv'
<1>0. /\ MonitorsCall /\ DrawnOnce /\ Ownership /\ KilledBy /\ MonTypes
      /\ Phase(a)
  BY MTypesSplit DEF CallsInv, Phases
<1>1. UNCHANGED <<state, lastPauseID, killSent, pc, arg, ret, result, config, stopping>>
  BY ThinkLeaves DEF vars, ctlVars, osVars, proxyVars
<1>2. /\ \A b \in Activations : b # a => mpc'[b] = mpc[b]
      /\ mpc[a] \in {"tick", "post", "sleep"}
  BY ThinkMoves
<1>3. pc[a] = "idle" /\ ret[a] = "none"
  BY <1>0, <1>2 DEF MonitorsCall, MonitorCall
<1>4. /\ ~result[a].killed /\ mpc[a] # "kill"
  BY <1>0, <1>2 DEF Phase
<1>5. CASE SamePause(a)
  <2>1. MonitorsCall'
    BY <1>0, <1>1, <1>2, <1>3, <1>5 DEF MonitorsCall, MonitorCall, Final, SamePause
  <2>2. /\ \A b \in Activations : Holds(b)' => Holds(b)
        /\ \A b \in Activations : Holds(b) => Holds(b)' \/ (b = a /\ mpc'[a] = "kill")
    BY <1>1, <1>2, <1>3, <1>5 DEF Holds, SamePause
  <2>3. Ownership'
    BY <1>0, <1>1, <1>2, <1>3, <1>5, <2>2 DEF Ownership, SamePause
  <2>4. KilledBy'
    BY <1>0, <1>1, <1>2, <1>4, <1>5 DEF KilledBy, Unkillable, SamePause
  <2> QED
    BY <1>0, <1>1, <1>5, <2>1, <2>3, <2>4 DEF CallsInv, DrawnOnce, SamePause
<1>6. CASE NewPause(a)
  <2>1. MonitorsCall'
    BY <1>0, <1>1, <1>2, <1>3, <1>6 DEF MonitorsCall, MonitorCall, Final, NewPause
  <2>2. \A b \in Activations : (Holds(b)' <=> Holds(b)) /\ ~Holds(a)
    BY <1>1, <1>2, <1>3, <1>6 DEF Holds, NewPause
  <2>3. lastPauseID # pid'[a]
    BY <1>0, <1>6, CgroupFreezerAssumption DEF CgroupFreezerAssumption, DrawnOnce, NewPause
  <2>4. Ownership'
    BY <1>0, <1>1, <1>2, <1>4, <1>6, <2>2 DEF Ownership, NewPause
  <2>5. DrawnOnce'
    BY <1>0, <1>1, <1>6 DEF DrawnOnce, NewPause
  <2>6. KilledBy'
    BY <1>0, <1>1, <1>2, <1>4, <1>6, <2>3 DEF KilledBy, Unkillable, NewPause
  <2> QED
    BY <2>1, <2>4, <2>5, <2>6 DEF CallsInv
<1> QED
  BY <1>5, <1>6, ThinkMoves

LEMMA TakeCalls ==
  ASSUME Inv, MTypeOK, Phases, CallsInv, NEW a \in Activations, TakeStep(a)
  PROVE  CallsInv'
<1>0. /\ MonitorsCall /\ DrawnOnce /\ Ownership /\ KilledBy /\ MonTypes /\ TypeOK
      /\ Phase(a) /\ a \in Callers /\ a # Stopper
      /\ Activations \subseteq Callers /\ Stopper \in Callers
  BY CallersSplit, MTypesSplit DEF CallsInv, Phases, Inv
<1>1. /\ UNCHANGED <<state, lastPauseID, killSent, pc, arg, pid, used, config, stopping>>
      /\ ret'[a] = "none" /\ \A c \in Callers : c # a => ret'[c] = ret[c]
  BY <1>0, TakeLeaves DEF Takes, proxyVars, osVars, TypeOK
<1>2. /\ ret[a] # "none" /\ mpc[a] \in {"freeze", "resume", "kill"}
  BY DEF TakeStep, KillReturns, KillAnswered, FreezeSucceeds, FreezeFails, ResumeSucceeds,
     ResumeFails
<1>3. pc[a] = "idle"
  BY <1>0, <1>2 DEF Inv, CallsAgree
<1>4. \A b \in Activations : b # a => result'[b] = result[b] /\ mpc'[b] = mpc[b]
  BY ResultMoves
<1>5. MonitorsCall'
  BY <1>0, <1>1, <1>3, <1>4 DEF MonitorsCall, MonitorCall, Final
<1>6. DrawnOnce'
  BY <1>0, <1>1 DEF DrawnOnce
<1>7. CASE KillReturns(a)
  <2>1. Final /\ mpc[a] = "kill" /\ mpc'[a] = "finished" /\ a \notin Unkillable
    BY <1>0, <1>2, <1>7 DEF KillReturns, MonitorsCall, MonitorCall, MonTypes, Phase
  <2>2. result'[a].killed /\ result'[a].pause = pid[a]
    BY <1>7, ResultMoves
  <2>3. Ownership'
    BY <1>1, <2>1 DEF Ownership, Final
  <2>4. KilledBy'
    BY <1>0, <1>1, <1>4, <2>1, <2>2 DEF KilledBy, Unkillable
  <2> QED
    BY <1>5, <1>6, <2>3, <2>4 DEF CallsInv
<1>8. CASE ~KillReturns(a)
  <2>1. mpc[a] \in {"freeze", "resume"} /\ ~result[a].killed
    BY <1>0, <1>8 DEF TakeStep, FreezeSucceeds, FreezeFails, ResumeSucceeds, ResumeFails, Phase
  <2>2. KilledBy'
    BY <1>0, <1>1, <1>4, <2>1 DEF KilledBy, Unkillable
  <2>3. CASE ResumeFails(a)
    <3>1. Final
      BY <1>0, <2>3 DEF ResumeFails, MonitorsCall, MonitorCall
    <3>2. Ownership'
      BY <1>1, <3>1 DEF Ownership, Final
    <3> QED
      BY <1>5, <1>6, <2>2, <3>2 DEF CallsInv
  <2>4. CASE FreezeSucceeds(a) \/ FreezeFails(a) \/ ResumeSucceeds(a)
    <3>1. mpc'[a] \in {"post", "kill", "tick"} /\ (Holds(a)' <=> Holds(a))
      BY <1>0, <1>1, <1>3, <2>4 DEF FreezeSucceeds, FreezeFails, ResumeSucceeds, AfterFreezeError,
         MonTypes, Holds
    <3>2. \A b \in Activations : Holds(b)' <=> Holds(b)
      BY <1>0, <1>1, <1>4, <3>1 DEF Holds
    <3>3. Ownership'
      BY <1>0, <1>1, <1>4, <2>1, <3>2 DEF Ownership
    <3> QED
      BY <1>5, <1>6, <2>2, <3>3 DEF CallsInv
  <2> QED
    BY <1>8, <2>3, <2>4 DEF TakeStep
<1> QED
  BY <1>7, <1>8

LEMMA CallsKept ==
  ASSUME Inv, MTypeOK, Phases, CallsInv, [MNext]_mvars
  PROVE  CallsInv'
<1>1. CASE ControllerStep
  <2>1. MonSame
    BY <1>1 DEF ControllerStep, MonSame, proxyVars, monVars
  <2> QED
    BY <1>1, <2>1, CallGoesOnCalls, EnvironmentCalls DEF ControllerStep
<1>2. CASE StopKills
  <2>1. MonSame
    BY <1>2 DEF StopKills, MonSame, proxyVars, monVars
  <2> QED
    BY <1>2, <2>1, CallersSplit, KillCalls DEF StopKills
<1>3. ASSUME NEW a \in Activations, MonitorCalls(a)
      PROVE  CallsInv'
  <2>1. MonSame /\ a \in Callers
    BY <1>3, CallersSplit DEF MonitorCalls, MonSame, proxyVars, monVars
  <2> QED
    BY <1>3, <2>1, FreezeCalls, ResumeCalls, KillCalls DEF MonitorCalls
<1>4. CASE UNCHANGED mvars
  <2>1. MonSame
    BY <1>4 DEF mvars, MonSame, proxyVars, monVars
  <2> QED
    BY <1>4, <2>1, EnvironmentCalls DEF mvars
<1> QED
  BY <1>1, <1>2, <1>3, <1>4, MNextSplits, StopCalls, ProxyCalls, ThinkCalls, TakeCalls DEF StopStep

----------------------------------------------------------------------------
(* The phases.                                                             *)

(* The process stays started; STOPPED and UNKNOWN are never left.          *)
LEMMA SystemForward ==
  ASSUME Inv, [MNext]_mvars
  PROVE  (Started => Started') /\ (Final => Final')
<1>1. ASSUME NEW c \in Callers, CallGoesOn(c)
      PROVE  proc' = proc /\ ~Final
  <2>1. pc[c] # "idle" /\ proc' = proc
    BY <1>1 DEF CallGoesOn, FreezeGoesOn, ResumeGoesOn, KillGoesOn, FreezeConfirmed,
       FreezeTimesOut, ResumeConfirmed, ResumeTimesOut, KillConfirmed, KillTimesOut, KillReaped,
       osVars
  <2> QED
    BY <2>1 DEF Inv, OneOperation, Final
<1>2. ASSUME Environment
      PROVE  (Started => Started') /\ state' = state
  BY <1>2 DEF Environment, KernelFreezes, KernelThaws, KernelKills, ProcForks, ProcExits,
     KidsExit, Reap, ReaperLocks, ReaperCloses, ctlVars, osVars, Started
<1>3. ASSUME Start
      PROVE  ~Started /\ ~Final
  BY <1>3 DEF Start, Started, Final, Inv, StartComesFirst
<1>4. ASSUME NEW c, NEW p, freezeExecution(c, p) \/ resumeExecution(c, p) \/ killExecution(c, p)
      PROVE  proc' = proc /\ (Final => Final')
  BY <1>4 DEF freezeExecution, FreezeRepeated, FreezeRejected, FreezeWritten, FreezeWriteFails,
     resumeExecution, ResumeRepeated, ResumeRejected, ResumeWritten, ResumeWriteFails,
     killExecution, KillRepeated, KillRejected, KillWritten, KillWriteFails, osVars, Final
<1>5. CASE ControllerStep
  BY <1>1, <1>2, <1>3, <1>5 DEF ControllerStep, Started, Final
<1>6. CASE StopStep
  BY <1>4, <1>6 DEF StopStep, StopBegins, StopKills, StopCloses, Close, vars, ctlVars, osVars,
     Started, Final
<1>7. ASSUME NEW a \in Activations, MonitorCalls(a)
      PROVE  proc' = proc /\ (Final => Final')
  BY <1>4, <1>7 DEF MonitorCalls
<1>8. ASSUME NEW a \in Activations, ProxyStep(a) \/ ThinkStep(a) \/ TakeStep(a)
      PROVE  proc' = proc /\ state' = state
  BY <1>8, ProxyLeaves, ThinkLeaves, TakeLeaves DEF vars, ctlVars, osVars, Takes
<1> QED
  BY <1>5, <1>6, <1>7, <1>8, MNextSplits DEF Started, Final, mvars, vars, ctlVars, osVars

LEMMA ProxyPhases ==
  ASSUME Inv, MTypeOK, Phases, NEW a \in Activations, ProxyStep(a)
  PROVE  Phases'
<1>0. MonTypes /\ ProxyTypes /\ ResultTypes /\ \A b \in Activations : Phase(b)
  BY MTypesSplit DEF Phases
<1>1. /\ UNCHANGED <<config, pid, granted, result, stopping, state, proc>>
      /\ (Started' <=> Started) /\ (Final' <=> Final)
  BY ProxyLeaves DEF vars, ctlVars, osVars, Started, Final
<1>2. \A b \in Activations : b # a => ipc'[b] = ipc[b] /\ mpc'[b] = mpc[b] /\ report'[b] = report[b]
  BY <1>0 DEF ProxyStep, InteractStarts, ActionAnswers, InteractStep, InteractSelects,
     InteractJoins, InteractPanics, HandlerDropsExecutor, monVars, ProxyTypes, MonTypes
<1>3. \A b \in Activations : b # a => Phase(b)'
  BY <1>0, <1>1, <1>2 DEF Phase, Returned, MonitorFinished, PauseEnabled, Unkillable
<1>4. Phase(a)'
  <2>1. CASE InteractStarts(a)
    <3>1. /\ ipc[a] = "new" /\ ipc'[a] = "select" /\ mpc[a] = "off" /\ mpc'[a] \in {"off", "tick"}
          /\ report' = report /\ Started
      BY <1>0, <2>1 DEF InteractStarts, Phase, ProxyTypes, MonTypes
    <3> QED
      BY <1>0, <1>1, <3>1 DEF Phase, Returned, MonitorFinished, PauseEnabled, Unkillable
  <2>2. CASE InteractJoins(a)
    <3>1. /\ ipc[a] = "join" /\ ipc'[a] = "done" /\ mpc' = mpc /\ MonitorFinished(a)
          /\ report'[a] = result[a]
      BY <1>0, <2>2 DEF InteractJoins, ProxyTypes, monVars
    <3> QED
      BY <1>0, <1>1, <3>1 DEF Phase, Returned, MonitorFinished, PauseEnabled, Unkillable
  <2>3. CASE ~InteractStarts(a) /\ ~InteractJoins(a)
    <3>1. /\ mpc' = mpc /\ report' = report
          /\ \/ ipc'[a] = ipc[a]
             \/ ipc[a] = "select" /\ ipc'[a] = "join"
             \/ ipc[a] = "join" /\ ipc'[a] = "panic" /\ MonitorFinished(a)
             \/ ipc[a] = "done" /\ ipc'[a] = "closed"
      BY <1>0, <2>3 DEF ProxyStep, ActionAnswers, InteractStep, InteractSelects,
         InteractPanics, HandlerDropsExecutor, monVars, ProxyTypes
    <3> QED
      BY <1>0, <1>1, <3>1 DEF Phase, Returned, MonitorFinished, PauseEnabled, Unkillable
  <2> QED
    BY <2>1, <2>2, <2>3
<1> QED
  BY <1>1, <1>3, <1>4 DEF Phases

LEMMA ThinkPhases ==
  ASSUME MTypeOK, Phases, NEW a \in Activations, ThinkStep(a)
  PROVE  Phases'
<1>0. MonTypes /\ ProxyTypes /\ ResultTypes /\ \A b \in Activations : Phase(b)
  BY MTypesSplit DEF Phases
<1>1. /\ UNCHANGED <<config, ipc, report, result, stopping>>
      /\ (Started' <=> Started) /\ (Final' <=> Final)
  BY ThinkLeaves DEF vars, ctlVars, osVars, proxyVars, Started, Final
<1>2. /\ \A b \in Activations : b # a => mpc'[b] = mpc[b] /\ pid'[b] = pid[b]
      /\ mpc[a] \in {"tick", "post", "sleep"}
  BY ThinkMoves DEF SamePause, NewPause
<1>3. /\ granted \subseteq granted'
      /\ mpc'[a] \in {"freeze", "post", "resume", "sleep"} => pid'[a] # NoPause
      /\ pid'[a] # NoPause => a \in PauseEnabled
      /\ mpc'[a] = "resume" => pid'[a] \in granted'
      /\ mpc'[a] = "kill" => a \notin Unkillable
  <2>0. Phase(a) /\ pid[a] \in PauseIDs \union {NoPause} /\ NoPause \notin PauseIDs
    BY <1>0, CgroupFreezerAssumption DEF CgroupFreezerAssumption, MonTypes
  <2>1. CASE MonitorCannotRead(a) \/ MonitorStops(a) \/ ThresholdWithoutPause(a) \/ RepollAgain(a)
    BY <1>0, <2>0, <2>1 DEF MonitorCannotRead, MonitorStops, ThresholdWithoutPause, RepollAgain,
       monKeeps, MonTypes, Phase
  <2>2. CASE ThresholdWithPause(a)
    <3>1. mpc'[a] = "freeze" /\ a \in PauseEnabled /\ granted' = granted
      BY <1>0, <2>2 DEF ThresholdWithPause, MonTypes
    <3>2. NewPause(a)
      BY <1>0, <3>1, ThinkMoves DEF SamePause
    <3> QED
      BY <2>0, <3>1, <3>2 DEF NewPause
  <2>3. CASE PostFails(a)
    BY <1>0, <2>0, <2>3 DEF PostFails, killOrRetry, MonTypes, Phase
  <2>4. ASSUME NEW command, NEW q, PostAnswered(a, command, q)
        PROVE  /\ granted \subseteq granted' /\ pid' = pid /\ mpc[a] = "post"
               /\ mpc'[a] \in {"resume", "sleep", "kill"}
               /\ mpc'[a] = "resume" => pid[a] \in granted'
               /\ mpc'[a] = "kill" => a \notin Unkillable
    BY <1>0, <2>4 DEF PostAnswered, ForThisPause, killOrRetry, MonTypes
  <2> QED
    BY <2>0, <2>1, <2>2, <2>3, <2>4 DEF ThinkStep, SchedulerStep, Phase
<1>4. \A b \in Activations : b # a => Phase(b)'
  BY <1>0, <1>1, <1>2, <1>3 DEF Phase, Returned, MonitorFinished, PauseEnabled, Unkillable
<1>5. Phase(a)'
  BY <1>0, <1>1, <1>2, <1>3 DEF Phase, Returned, MonitorFinished, PauseEnabled, Unkillable
<1> QED
  BY <1>1, <1>4, <1>5 DEF Phases

LEMMA TakePhases ==
  ASSUME MTypeOK, Phases, MonitorsCall, NEW a \in Activations, TakeStep(a)
  PROVE  Phases'
<1>0. MonTypes /\ ProxyTypes /\ ResultTypes /\ \A b \in Activations : Phase(b)
  BY MTypesSplit DEF Phases
<1>1. /\ UNCHANGED <<config, ipc, report, stopping, pid, granted>>
      /\ (Started' <=> Started) /\ (Final' <=> Final)
  BY TakeLeaves DEF Takes, osVars, proxyVars, Started, Final
<1>2. \A b \in Activations : b # a => mpc'[b] = mpc[b] /\ result'[b] = result[b]
  BY ResultMoves
<1>3. \A b \in Activations : b # a => Phase(b)'
  BY <1>0, <1>1, <1>2 DEF Phase, Returned, MonitorFinished, PauseEnabled, Unkillable
<1>4. mpc[a] \in {"freeze", "resume", "kill"}
  BY DEF TakeStep, KillReturns, FreezeSucceeds, FreezeFails, ResumeSucceeds, ResumeFails
<1>5. CASE KillReturns(a)
  <2>1. mpc[a] = "kill" /\ mpc'[a] = "finished" /\ Final
    BY <1>0, <1>5 DEF KillReturns, KillAnswered, MonTypes, MonitorsCall, MonitorCall
  <2> QED
    BY <1>0, <1>1, <1>3, <2>1 DEF Phases, Phase, Returned, MonitorFinished, PauseEnabled, Unkillable
<1>6. CASE ~KillReturns(a)
  <2>1. result'[a].killed = result[a].killed
    BY <1>6, ResultMoves
  <2>2. /\ mpc[a] \in {"freeze", "resume"} /\ mpc'[a] \in {"post", "tick", "sleep", "kill"}
        /\ mpc'[a] = "kill" => a \notin Unkillable
    BY <1>0, <1>6 DEF TakeStep, FreezeSucceeds, FreezeFails, ResumeSucceeds, ResumeFails,
       killOrRetry, AfterFreezeError, MonTypes
  <2> QED
    BY <1>0, <1>1, <1>3, <2>1, <2>2 DEF Phases, Phase, Returned, MonitorFinished, PauseEnabled,
       Unkillable
<1> QED
  BY <1>5, <1>6

LEMMA PhasesKept ==
  ASSUME Inv, MTypeOK, Phases, MonitorsCall, [MNext]_mvars
  PROVE  Phases'
<1>0. (Started => Started') /\ (Final => Final')
  BY SystemForward
<1>1. ASSUME UNCHANGED <<config, ipc, mpc, pid, result, report, granted>>,
             stopping' # "no" => Started
      PROVE  Phases'
  BY <1>0, <1>1 DEF Phases, Phase, Returned, MonitorFinished, PauseEnabled, Unkillable
<1>2. ASSUME UNCHANGED <<proxyVars, monVars>>
      PROVE  Phases'
  BY <1>1, <1>2 DEF proxyVars, monVars, Phases
<1>3. CASE ControllerStep
  BY <1>2, <1>3 DEF ControllerStep
<1>4. CASE StopStep
  BY <1>1, <1>2, <1>4 DEF StopStep, StopBegins, StopKills, StopCloses, monVars, Phases
<1>5. ASSUME NEW a \in Activations, MonitorCalls(a)
      PROVE  Phases'
  BY <1>2, <1>5 DEF MonitorCalls
<1>6. CASE UNCHANGED mvars
  BY <1>2, <1>6 DEF mvars
<1> QED
  BY <1>3, <1>4, <1>5, <1>6, MNextSplits, ProxyPhases, ThinkPhases, TakePhases

----------------------------------------------------------------------------
(* The theorems.                                                           *)

LEMMA MInvInit == MInit => MInv
<1> SUFFICES ASSUME MInit PROVE MInv
  OBVIOUS
<1>1. Inv
  BY InitInv DEF MInit
<1>2. /\ \A a \in Activations : /\ ipc[a] = "new" /\ mpc[a] = "off" /\ pid[a] = NoPause
                                /\ result[a] = NoResult /\ report[a] = NoResult
      /\ stopping = "no" /\ used = {} /\ granted = {}
      /\ state = "RUNNING" /\ lastPauseID = NoPause /\ killSent = FALSE
      /\ \A c \in Callers : pc[c] = "idle" /\ ret[c] = "none"
  BY DEF MInit, Init
<1>3. /\ NoResult \in Results /\ NoResult.cycles = <<>> /\ ~NoResult.killed
      /\ NoResult.threshold = NoPause
  BY DEF NoResult, Results
<1>4. MTypeOK
  BY <1>1, <1>3 DEF MTypeOK, MInit, Inv
<1>5. Phases
  BY <1>2, <1>3 DEF Phases, Phase, Returned, MonitorFinished
<1>6. MonitorsCall /\ DrawnOnce /\ Ownership /\ KilledBy
  BY <1>2, CallersSplit DEF MonitorsCall, MonitorCall, DrawnOnce, Ownership, Holds, KilledBy
<1>7. \A a \in Activations : Recorded(a) = {} /\ ~InCycle(a) /\ Len(result[a].cycles) = 0
  BY <1>2, <1>3 DEF Recorded, InCycle
<1>8. RecordedOnce
  BY <1>2, <1>7, FS_EmptySet DEF RecordedOnce
<1>9. Thresholds
  BY <1>2, <1>3 DEF Thresholds, LastResumed
<1> QED
  BY <1>1, <1>4, <1>5, <1>6, <1>8, <1>9 DEF MInv

LEMMA MInvStep == MInv /\ [MNext]_mvars => MInv'
<1> SUFFICES ASSUME MInv, [MNext]_mvars PROVE MInv'
  OBVIOUS
<1>1. /\ Inv /\ MTypeOK /\ Phases /\ MonitorsCall /\ DrawnOnce /\ RecordedOnce /\ Thresholds
      /\ CallsInv
  BY DEF MInv, CallsInv
<1>2. Inv'
  BY <1>1, ControllerKept
<1>3. MTypeOK' /\ Phases' /\ CallsInv' /\ RecordedOnce' /\ Thresholds'
  BY <1>1, <1>2, TypesKept, PhasesKept, CallsKept, RecordedKept, ThresholdsKept
<1> QED
  BY <1>2, <1>3 DEF MInv, CallsInv

(* The inductive invariant of an executor and its monitors.                *)
THEOREM MonitorInvariance == MSpec => []MInv
  BY MInvInit, MInvStep, PTL DEF MSpec

(* The executor, its monitors and what Interact reports are well typed.    *)
THEOREM MonitorIsTyped == MSpec => []MTypeOK
  BY MonitorInvariance, PTL DEF MInv

(* Whatever the scheduler answers and whatever fails, no monitor kills an  *)
(* UNKILLABLE step (killOrRetry) or reports it killed, and a kill that was *)
(* written has Executor.Stop or the monitor of a killable step behind it.  *)
THEOREM UnkillableIsSafe == MSpec => []UnkillableNeverKilled
<1>1. MInv => UnkillableNeverKilled
  <2> SUFFICES ASSUME MInv PROVE UnkillableNeverKilled
    OBVIOUS
  <2>1. Phases /\ KilledBy /\ Unkillable \subseteq Activations
    BY EnergyMonitorAssumption DEF EnergyMonitorAssumption, MInv, MTypeOK, Unkillable
  <2>2. \A a \in Unkillable : ~report[a].killed
    BY <2>1 DEF Phases, Phase, NoResult
  <2> QED
    BY <2>1, <2>2 DEF UnkillableNeverKilled, KilledBy
<1> QED
  BY <1>1, MonitorInvariance, PTL

(* The join with the monitor in Interact loses no kill: the one confirmed  *)
(* under the pause of an activation is in what Interact returned for it,   *)
(* and without a shutdown a dead process has an activation that says so.   *)
THEOREM KillsAreReported == MSpec => []NoKillLost
<1>1. MInv => NoKillLost
  <2> SUFFICES ASSUME MInv PROVE NoKillLost
    OBVIOUS
  <2>1. KilledBy /\ \A a \in Activations : Phase(a)
    BY DEF MInv, Phases
  <2>2. ASSUME NEW a \in Activations, Returned(a) \/ ipc[a] = "new"
        PROVE  mpc[a] # "kill" /\ (result[a].killed => Returned(a))
    BY <2>1, <2>2 DEF Phase, MonitorFinished
  <2>3. \A a \in Activations : Returned(a) => report[a] = result[a]
    BY <2>1 DEF Phase
  <2>4. ASSUME NEW a \in Activations, Returned(a), state = "STOPPED", lastPauseID = pid[a],
               pid[a] # NoPause
        PROVE  report[a].killed /\ report[a].pause = pid[a]
    BY <2>1, <2>2, <2>3, <2>4 DEF KilledBy
  <2>5. ASSUME state = "STOPPED", stopping = "no",
               \A a \in Activations : Returned(a) \/ ipc[a] = "new"
        PROVE  \E a \in Activations : report[a].killed
    BY <2>1, <2>2, <2>3, <2>5 DEF KilledBy
  <2> QED
    BY <2>4, <2>5 DEF NoKillLost
<1> QED
  BY <1>1, MonitorInvariance, PTL

(* A cgroup that is frozen, or told to freeze, is so on behalf of a        *)
(* monitor whose Interact has not returned, under the pause of that        *)
(* monitor; or its process was killed, is being stopped, or an operation   *)
(* on it was not confirmed.                                                *)
THEOREM WarmIsThawed == MSpec => []NotLeftFrozen
<1>1. MInv => NotLeftFrozen
  <2> SUFFICES ASSUME MInv
               PROVE  NotLeftFrozen
    OBVIOUS
  <2>0. MTypeOK /\ Phases /\ MonitorsCall /\ Ownership /\ Inv
    BY DEF MInv
  <2>1. \A a \in Activations : Returned(a) => pc[a] = "idle"
    BY <2>0 DEF MonitorsCall, MonitorCall, Phases, Phase, MonitorFinished
  <2>2. \A a \in Activations :
            mpc[a] \in {"freeze", "post", "sleep", "resume", "kill"} => a \in Running
    <3> SUFFICES ASSUME NEW a \in Activations,
                        mpc[a] \in {"freeze", "post", "sleep", "resume", "kill"}
                 PROVE  ipc[a] \in {"select", "join"}
      BY DEF Running
    <3>1. ipc[a] \in {"new", "select", "join", "done", "closed", "panic"} /\ Phase(a)
      BY <2>0 DEF MTypeOK, Phases
    <3> QED
      BY <3>1 DEF Phase, MonitorFinished, Returned
  <2>3. CASE state \in {"STOPPED", "UNKNOWN"} \/ stopping # "no"
    BY <2>1, <2>3 DEF NotLeftFrozen
  <2>4. CASE state = "RUNNING"
    BY <2>0, <2>1, <2>4 DEF NotLeftFrozen, Inv, StateIsTrue
  <2>5. CASE state = "FROZEN"
    <3>1. PICK b \in Activations : /\ pid[b] = lastPauseID /\ pid[b] # NoPause
                                   /\ Holds(b) \/ (mpc[b] = "kill" /\ pc[b] = "idle")
      BY <2>0, <2>5 DEF Ownership
    <3>2. b \in Running /\ mpc[b] \in {"freeze", "post", "sleep", "resume", "kill"}
      BY <2>2, <3>1 DEF Holds
    <3> QED
      BY <2>1, <3>1, <3>2 DEF NotLeftFrozen
  <2>6. CASE state \in {"FREEZING", "RESUMING", "KILLING"} /\ stopping = "no"
    <3>1. PICK c \in Callers : pc[c] # "idle"
      BY <2>0, <2>6 DEF Inv, OneOperation
    <3>2. c \in Activations
      BY <2>0, <2>6, <3>1, EnergyMonitorAssumption DEF EnergyMonitorAssumption, MonitorsCall
    <3>3. c \in Running /\ mpc[c] \in {"freeze", "resume", "kill"}
      BY <2>0, <2>2, <3>1, <3>2 DEF MonitorsCall, MonitorCall
    <3> QED
      BY <2>1, <2>6, <3>3 DEF NotLeftFrozen, Running
  <2> QED
    BY <2>0, <2>3, <2>4, <2>5, <2>6 DEF MTypeOK, TypeOK, RuntimeState
<1> QED
  BY <1>1, MonitorInvariance, PTL

(* A step is reported killed while its process lives only when the         *)
(* controller is in UNKNOWN, after an operation it could not confirm.      *)
THEOREM FalseKillsAreUnknown == MSpec => []FalseKillOnlyIfUnknown
<1>1. MInv => FalseKillOnlyIfUnknown
  BY DEF MInv, Phases, Phase, Final, Inv, StateIsTrue, Populated, FalseKillOnlyIfUnknown
<1> QED
  BY <1>1, MonitorInvariance, PTL

(* While a monitor asks the scheduler (EXECUTION_PAUSED and its polls), no *)
(* other activation of the warm container takes its pause away.            *)
THEOREM PollsOwnTheirPause == MSpec => []PauseIsOwned
<1>1. MInv => PauseIsOwned
  BY DEF MInv, Ownership, Holds, Inv, StateIsTrue, PauseIsOwned
<1> QED
  BY <1>1, MonitorInvariance, PTL

(* Interact returns the threshold of the last cycle that resumed, or the   *)
(* one it came with (setThreshold, addCycle).                              *)
THEOREM ThresholdIsTheLast == MSpec => []ThresholdOfLastResume
<1>1. MInv => ThresholdOfLastResume
  BY DEF MInv, Phases, Phase, Thresholds, ThresholdOfLastResume
<1> QED
  BY <1>1, MonitorInvariance, PTL

(* addCycle, deferred in runPauseCycle, records every cycle there was once *)
(* and in the lifecycle of the activation it paused.                       *)
THEOREM CyclesAreRecorded == MSpec => []EveryCycleRecorded
<1>1. MInv => EveryCycleRecorded
  <2> SUFFICES ASSUME MInv PROVE EveryCycleRecorded
    OBVIOUS
  <2>1. RecordedOnce /\ \A a \in Activations : Phase(a)
    BY DEF MInv, Phases
  <2>2. ASSUME NEW a \in Activations
        PROVE  /\ Returned(a) => CyclePauses(a) = Recorded(a) /\ report[a] = result[a]
               /\ ~Returned(a) => CyclePauses(a) = {} /\ Len(report[a].cycles) = 0
               /\ ipc[a] = "new" => Recorded(a) = {}
               /\ Returned(a) \/ ipc[a] = "new" => ~InCycle(a)
    <3>1. CASE Returned(a)
      <4>1. report[a] = result[a] /\ ~InCycle(a)
        BY <2>1, <3>1 DEF Phase, MonitorFinished, InCycle
      <4> QED
        BY <3>1, <4>1 DEF CyclePauses, Recorded, Returned
    <3>2. CASE ~Returned(a)
      <4>1. report[a].cycles = <<>>
        BY <2>1, <3>2 DEF Phase, NoResult
      <4>2. ipc[a] = "new" => result[a].cycles = <<>> /\ ~InCycle(a)
        BY <2>1 DEF Phase, InCycle
      <4> QED
        BY <3>2, <4>1, <4>2 DEF CyclePauses, Recorded
    <3> QED
      BY <3>1, <3>2
  <2>3. ASSUME \A a \in Activations : Returned(a) \/ ipc[a] = "new"
        PROVE  used = UNION {CyclePauses(a) : a \in Activations}
    <3>1. ASSUME NEW p \in used
          PROVE  \E a \in Activations : p \in CyclePauses(a)
      <4>1. PICK a \in Activations : p \in Recorded(a) \/ (InCycle(a) /\ p = pid[a])
        BY <2>1 DEF RecordedOnce
      <4> QED
        BY <2>2, <2>3, <4>1
    <3>2. \A a \in Activations : CyclePauses(a) \subseteq used
      BY <2>1, <2>2 DEF RecordedOnce
    <3> QED
      BY <3>1, <3>2
  <2>4. \A a \in Activations : Cardinality(CyclePauses(a)) = Len(report[a].cycles)
    BY <2>1, <2>2, FS_EmptySet DEF RecordedOnce
  <2> QED
    BY <2>3, <2>4 DEF EveryCycleRecorded
<1> QED
  BY <1>1, MonitorInvariance, PTL

(* The step of ThawNeedsGrant.                                             *)
ThawGranted == knob /\ ~knob' => lastPauseID \in granted

(* cgroup.freeze=0 is written only by the monitor whose pause is in force, *)
(* and only once the scheduler granted the extension of that pause.        *)
THEOREM ThawsAreGranted == MSpec => ThawNeedsGrant
<1>1. MInv /\ [MNext]_mvars => [ThawGranted]_mvars
  <2> SUFFICES ASSUME MInv, [MNext]_mvars, knob, ~knob' PROVE lastPauseID \in granted
    BY DEF ThawGranted
  <2>1. ASSUME NEW c, NEW p, freezeExecution(c, p) \/ killExecution(c, p)
        PROVE  FALSE
    BY <2>1 DEF freezeExecution, FreezeRepeated, FreezeRejected, FreezeWritten, FreezeWriteFails,
       killExecution, KillRepeated, KillRejected, KillWritten, KillWriteFails, osVars
  <2>2. ~ControllerStep
    BY DEF ControllerStep, Start, Environment, KernelFreezes, KernelThaws, KernelKills, ProcForks,
       ProcExits, KidsExit, Reap, ReaperLocks, ReaperCloses, CallGoesOn, FreezeGoesOn,
       ResumeGoesOn, KillGoesOn, FreezeConfirmed, FreezeTimesOut, ResumeConfirmed,
       ResumeTimesOut, KillConfirmed, KillTimesOut, KillReaped, osVars
  <2>3. ~StopStep
    BY <2>1 DEF StopStep, StopBegins, StopKills, StopCloses, Close, vars, osVars
  <2>4. ASSUME NEW a \in Activations, ProxyStep(a) \/ ThinkStep(a) \/ TakeStep(a)
        PROVE  FALSE
    BY <2>4, ProxyLeaves, ThinkLeaves, TakeLeaves DEF vars, osVars, Takes
  <2>5. ~UNCHANGED mvars
    BY DEF mvars, vars, osVars
  <2>6. PICK a \in Activations : MonitorCalls(a)
    BY <2>2, <2>3, <2>4, <2>5, MNextSplits
  <2>7. mpc[a] = "resume" /\ resumeExecution(a, pid[a])
    BY <2>1, <2>6 DEF MonitorCalls
  <2>8. lastPauseID = pid[a]
    BY <2>7 DEF resumeExecution, ResumeRepeated, ResumeRejected, ResumeWritten, ResumeWriteFails,
       PauseInForce, osVars
  <2>9. pid[a] \in granted
    BY <2>7 DEF MInv, Phases, Phase
  <2> QED
    BY <2>8, <2>9
<1> QED
  BY <1>1, MonitorInvariance, PTL DEF MSpec, ThawNeedsGrant, ThawGranted

----------------------------------------------------------------------------
(* The controller as the executor uses it.                                 *)

(* What an executor does to its controller is a step of the controller or  *)
(* takes an answer.                                                        *)
LEMMA ControllerView ==
  ASSUME MInv, [MNext]_mvars
  PROVE  [Next]_vars \/ \E a \in Activations : Takes(a)
<1>0. MTypeOK /\ Phases /\ Activations \subseteq Callers /\ Stopper \in Callers
  BY CallersSplit DEF MInv
<1>1. CASE ControllerStep
  BY <1>1 DEF ControllerStep, Next
<1>2. CASE StopStep
  <2>1. CASE StopBegins
    BY <2>1 DEF StopBegins
  <2>2. CASE StopKills \/ StopCloses
    <3>1. Started /\ Shutdown \in AllPauseIDs
      BY <1>0, <2>2 DEF StopKills, StopCloses, Phases, AllPauseIDs
    <3> QED
      BY <1>0, <2>2, <3>1 DEF StopKills, StopCloses, Next, Call
  <2> QED
    BY <1>2, <2>1, <2>2 DEF StopStep
<1>3. ASSUME NEW a \in Activations, MonitorCalls(a)
      PROVE  Next
  <2>1. /\ pid[a] \in AllPauseIDs /\ (mpc[a] \in {"freeze", "resume"} => pid[a] \in PauseIDs)
        /\ (mpc[a] # "off" => Started)
    BY <1>0, PidTypes
  <2>2. Call(a)
    BY <1>3, <2>1 DEF MonitorCalls, Call
  <2> QED
    BY <1>0, <2>2 DEF Next
<1>4. ASSUME NEW a \in Activations, ProxyStep(a) \/ ThinkStep(a)
      PROVE  UNCHANGED vars
  BY <1>4, ProxyLeaves, ThinkLeaves
<1> QED
  BY <1>1, <1>2, <1>3, <1>4, TakeLeaves, MNextSplits DEF mvars

(* Whatever the monitors of an executor and its Stop call, in whatever     *)
(* order, the state of the controller tells the truth about the kernel,    *)
(* a.mu keeps the operations apart and Close comes last.                   *)
THEOREM ControllerStaysTrue ==
  MSpec => [](StateIsTrue /\ OneOperation /\ NoUseAfterClose)
<1>1. MInv => StateIsTrue /\ OneOperation /\ NoUseAfterClose
  BY DEF MInv, Inv, CloseIsFinal, OneOperation, MutexFree, NoUseAfterClose
<1> QED
  BY <1>1, MonitorInvariance, PTL

(* An executor with its monitors keeps the promise of ActivationLifecycle: *)
(* a paused process executes nothing until it is resumed under its pause,  *)
(* and one that is gone or lost stays so.                                  *)
THEOREM ExecutorKeepsLifecycle == MSpec => KeepsLifecycle
<1>1. MInit => Lifecycle!Init
  BY DEF MInit, Init, Lifecycle!Init, phaseBar, pauseBar, executingBar, Populated
<1>2. MInv /\ MInv' /\ [MNext]_mvars => [Lifecycle!Next]_(Lifecycle!vars)
  <2> SUFFICES ASSUME MInv, MInv', [MNext]_mvars
               PROVE  [Lifecycle!Next]_(Lifecycle!vars)
    OBVIOUS
  <2>1. Inv /\ Inv'
    BY DEF MInv
  <2>2. CASE [Next]_vars
    BY <2>1, <2>2, LifecycleStep
  <2>3. ASSUME NEW a \in Activations, Takes(a)
        PROVE  [Lifecycle!Next]_(Lifecycle!vars)
    BY <2>1, <2>3, QuietStep DEF Takes
  <2> QED
    BY <2>2, <2>3, ControllerView
<1> QED
  BY <1>1, <1>2, MonitorInvariance, PTL DEF MSpec, KeepsLifecycle, Lifecycle!Spec
=============================================================================
