--------------------------- MODULE EnergyMonitor ---------------------------
(***************************************************************************)
(* One Executor (openwhisk/executor.go) and the activations that go        *)
(* through it: Executor.Interact, the energy monitor it starts for each    *)
(* activation (monitorEnergy), the pause cycle of the monitor              *)
(* (runPauseCycle), the shared controller (CgroupFreezer) and, as          *)
(* environment, the scheduler that answers EXECUTION_PAUSED and the action *)
(* that answers on its pipe.                                               *)
(*                                                                         *)
(* The energy of a step is abstracted to the one comparison the control    *)
(* depends on: at a tick the monitor finds the threshold reached or not.   *)
(* A threshold is identified by the pause_id of the cycle that granted it, *)
(* NoPause for the threshold the activation arrived with.                  *)
(***************************************************************************)
EXTENDS CgroupFreezer, Naturals, Sequences, FiniteSets

CONSTANTS
    Activations,   \* /run requests
    Stopper,       \* the goroutine of /init that stops a replaced executor
    Monitored,     \* shouldMonitorEnergy holds for the activation
    Concurrency,   \* the `concurrency` limit of the action
    Configs        \* the energy states and containers considered

ASSUME EnergyMonitorAssumption ==
    /\ Callers = Activations \union {Stopper}
    /\ Stopper \notin Activations
    /\ Monitored \subseteq Activations
    /\ Concurrency \in Nat \ {0}
    /\ Configs \subseteq [pausing : SUBSET Activations,
                         unkillable : SUBSET Activations,
                         mayStop : BOOLEAN,
                         fresh : SUBSET PauseIDs]

VARIABLES
    config,   \* which of Configs the activations and the container have
    ipc,      \* where Interact is; "closed": its handler is past it
    out,      \* what its select got: "none", "answer" or "exited"
    line,     \* the action wrote the line that answers this activation
    mpc,      \* where the monitor is
    pid,      \* pauseID of the monitor's last cycle, NoPause before any
    used,     \* the pause_ids drawn by newPauseID
    result,   \* energyMonitorResult, shared by the monitor and Interact
    report,   \* what Interact returned: kill info, threshold, lifecycle
    granted,  \* the pause_ids whose extension the scheduler granted
    current,  \* ap.theExecutor is this executor
    stopping  \* Executor.Stop: "no", "kill" or "done"

proxyVars == <<config, ipc, out, line, report, current, stopping>>
monVars == <<mpc, pid, used, result, granted>>
mvars == <<vars, proxyVars, monVars>>

PauseEnabled == config.pausing    \* energy.PauseEnabled
Unkillable == config.unkillable   \* isNonInterruptibleForThisStep holds
MayStop == config.mayStop         \* a new version may replace the executor
FreshIDs == config.fresh          \* what newPauseID draws from: bounds the cycles

Commands == {"RESUME_EXECUTION", "WAIT_EXECUTION", "KILL_EXECUTION", "other"}
Outcomes == {"resumed", "killed"}
NoResult == [killed |-> FALSE, pause |-> NoPause, threshold |-> NoPause,
             cycles |-> <<>>]
Results == [killed : BOOLEAN,
            pause : PauseIDs \union {NoPause},
            threshold : PauseIDs \union {NoPause},
            cycles : Seq([pause : PauseIDs, outcome : Outcomes])]

MTypeOK ==
    /\ TypeOK
    /\ config \in Configs
    /\ ipc \in [Activations -> {"new", "select", "join", "done", "closed", "panic"}]
    /\ out \in [Activations -> {"none", "answer", "exited"}]
    /\ line \in [Activations -> BOOLEAN]
    /\ mpc \in [Activations -> {"off", "tick", "freeze", "post", "resume",
                                "sleep", "kill", "finished"}]
    /\ pid \in [Activations -> PauseIDs \union {NoPause}]
    /\ used \subseteq PauseIDs
    /\ result \in [Activations -> Results]
    /\ report \in [Activations -> Results]
    /\ granted \subseteq PauseIDs
    /\ current \in BOOLEAN
    /\ stopping \in {"no", "kill", "done"}

MInit ==
    /\ Init
    /\ config \in Configs
    /\ ipc = [a \in Activations |-> "new"]
    /\ out = [a \in Activations |-> "none"]
    /\ line = [a \in Activations |-> FALSE]
    /\ mpc = [a \in Activations |-> "off"]
    /\ pid = [a \in Activations |-> NoPause]
    /\ used = {}
    /\ result = [a \in Activations |-> NoResult]
    /\ report = [a \in Activations |-> NoResult]
    /\ granted = {}
    /\ current = TRUE
    /\ stopping = "no"

Running == {a \in Activations : ipc[a] \in {"select", "join"}}

MutantExitedNotClosed == FALSE

Exited == reaper = "closed"          \* proc.exited is closed
StopClosed(a) == ipc[a] # "select"   \* monitorStop is closed

----------------------------------------------------------------------------
(* Interact, from the checks of runHandler to its return.                  *)

(* The handler finds an executor that has not exited; the input is written *)
(* and the monitor goroutine started.  One step from the check to the call *)
(* of Interact: in between the activation does nothing to the executor.    *)
InteractStarts(a) ==
    /\ ipc[a] = "new"
    /\ Started /\ current /\ ~Exited
    /\ Cardinality(Running) < Concurrency
    /\ ipc' = [ipc EXCEPT ![a] = "select"]
    /\ mpc' = [mpc EXCEPT ![a] = IF a \in Monitored THEN "tick" ELSE "off"]
    /\ UNCHANGED <<vars, config, out, line, report, current, stopping,
                   pid, used, result, granted>>

(* The action, alive and not frozen, writes its answer.                    *)
ActionAnswers(a) ==
    /\ ipc[a] = "select" /\ ~line[a]
    /\ proc = "alive" /\ ~frozen
    /\ line' = [line EXCEPT ![a] = TRUE]
    /\ UNCHANGED <<vars, config, ipc, out, report, current, stopping, monVars>>

(* The select of Interact takes the answer or the exit, whichever it finds *)
(* ready, and closes monitorStop.  The write end of the pipe stays open in *)
(* the proxy, so the reader never sees the end of file of a dead action.   *)
InteractSelects(a) ==
    /\ ipc[a] = "select"
    /\ \/ line[a] /\ out' = [out EXCEPT ![a] = "answer"]
       \/ Exited /\ out' = [out EXCEPT ![a] = "exited"]
    /\ ipc' = [ipc EXCEPT ![a] = "join"]
    /\ UNCHANGED <<vars, config, line, report, current, stopping, monVars>>

MutantNotJoined(a) == TRUE

(* The channel monitorFinished is closed, or there is no monitor.          *)
MonitorFinished(a) == mpc[a] \in {"off", "finished"}

(* After <-monitorFinished: the kill, the threshold the step ended under   *)
(* and the lifecycle are read from the result and returned.                *)
InteractJoins(a) ==
    /\ ipc[a] = "join"
    /\ MonitorFinished(a)
    /\ stopping # "done"
    /\ report' = [report EXCEPT ![a] = result[a]]
    /\ ipc' = [ipc EXCEPT ![a] = "done"]
    /\ UNCHANGED <<vars, config, out, line, current, stopping, monVars>>

(* Executor.Stop has set proc.cmd to nil; the output guard is written to   *)
(* proc.cmd.Stdout.                                                        *)
InteractPanics(a) ==
    /\ ipc[a] = "join"
    /\ MonitorFinished(a)
    /\ stopping = "done"
    /\ ipc' = [ipc EXCEPT ![a] = "panic"]
    /\ UNCHANGED <<vars, config, out, line, report, current, stopping, monVars>>

(* runHandler gives the executor up after a kill or an exit.               *)
HandlerDropsExecutor(a) ==
    /\ ipc[a] = "done"
    /\ report[a].killed \/ out[a] = "exited"
    /\ ipc' = [ipc EXCEPT ![a] = "closed"]
    /\ current' = FALSE
    /\ UNCHANGED <<vars, config, out, line, report, stopping, monVars>>

----------------------------------------------------------------------------
(* monitorEnergy                                                           *)
monKeeps == <<proxyVars, used, granted>>

(* The answer of a controller call is taken; the next call may be made.    *)
Takes(a) ==
    /\ ret' = [ret EXCEPT ![a] = "none"]
    /\ UNCHANGED <<state, lastPauseID, pc, arg, osVars>>

(* The initial reading fails: the step runs on, not monitored.             *)
MonitorCannotRead(a) ==
    /\ mpc[a] = "tick" /\ pid[a] = NoPause
    /\ mpc' = [mpc EXCEPT ![a] = "finished"]
    /\ UNCHANGED <<vars, monKeeps, pid, result>>

MonitorStops(a) ==
    /\ mpc[a] = "tick" /\ StopClosed(a)
    /\ mpc' = [mpc EXCEPT ![a] = "finished"]
    /\ UNCHANGED <<vars, monKeeps, pid, result>>

(* A tick finds the threshold reached.  The select may take the tick       *)
(* although monitorStop is closed.                                         *)
ThresholdWithoutPause(a) ==
    /\ mpc[a] = "tick"
    /\ a \notin PauseEnabled
    /\ mpc' = [mpc EXCEPT ![a] = IF a \in Unkillable THEN "finished" ELSE "kill"]
    /\ UNCHANGED <<vars, monKeeps, pid, result>>

ThresholdWithPause(a) ==
    /\ mpc[a] = "tick"
    /\ a \in PauseEnabled
    /\ \E p \in FreshIDs \ used :
           /\ pid' = [pid EXCEPT ![a] = p]
           /\ used' = used \union {p}
    /\ mpc' = [mpc EXCEPT ![a] = "freeze"]
    /\ UNCHANGED <<vars, proxyVars, result, granted>>

(* The controller calls of the monitor, and Executor.Stop.                 *)
MonitorCalls(a) ==
    /\ pc[a] = "idle" /\ ret[a] = "none"
    /\ \/ mpc[a] = "freeze" /\ freezeExecution(a, pid[a])
       \/ mpc[a] = "resume" /\ resumeExecution(a, pid[a])
       \/ mpc[a] = "kill" /\ killExecution(a, pid[a])
    /\ UNCHANGED <<proxyVars, monVars>>

MutantCycleWrongID(a, outcome) ==
    Append(result[a].cycles, [pause |-> a, outcome |-> outcome])

(* addCycle, deferred in runPauseCycle: the cycle is recorded as it ends.  *)
WithCycle(a, outcome) ==
    Append(result[a].cycles, [pause |-> pid[a], outcome |-> outcome])

MutantKilledNotRecorded(a) == result[a].cycles

(* The kill without a pause (pauseEnabled=false) belongs to no cycle.      *)
KilledCycles(a) ==
    IF pid[a] = NoPause THEN result[a].cycles ELSE WithCycle(a, "killed")

MutantKillNotAwaited(a) == TRUE

KillAnswered(a) == ret[a] # "none"

(* A kill returned.  Its error, if any, is only logged: the step counts as *)
(* killed.                                                                 *)
KillReturns(a) ==
    /\ mpc[a] = "kill" /\ KillAnswered(a)
    /\ Takes(a)
    /\ mpc' = [mpc EXCEPT ![a] = "finished"]
    /\ result' = [result EXCEPT ![a].killed = TRUE,
                                ![a].pause = pid[a],
                                ![a].cycles = KilledCycles(a)]
    /\ UNCHANGED <<monKeeps, pid>>

----------------------------------------------------------------------------
(* runPauseCycle                                                           *)

MutantAlwaysKill(a) == mpc' = [mpc EXCEPT ![a] = "kill"]
MutantGiveUp(a) == mpc' = [mpc EXCEPT ![a] = "tick"]

(* Every branch that cannot safely continue: kill, or, for an UNKILLABLE   *)
(* step, stay frozen and ask again.                                        *)
killOrRetry(a) ==
    mpc' = [mpc EXCEPT ![a] = IF a \in Unkillable THEN "sleep" ELSE "kill"]

FreezeSucceeds(a) ==
    /\ mpc[a] = "freeze" /\ ret[a] = "nil"
    /\ Takes(a)
    /\ mpc' = [mpc EXCEPT ![a] = "post"]
    /\ UNCHANGED <<monKeeps, pid, result>>

MutantErrorIgnored(a) == "post"

AfterFreezeError(a) == IF a \in Unkillable THEN "tick" ELSE "kill"

(* UNKILLABLE: the cycle ends, still marked "killed", the step goes on     *)
(* with the threshold it has.  Any other class: kill.                      *)
FreezeFails(a) ==
    /\ mpc[a] = "freeze" /\ ret[a] = "err"
    /\ Takes(a)
    /\ mpc' = [mpc EXCEPT ![a] = AfterFreezeError(a)]
    /\ result' = [result EXCEPT ![a].cycles =
                      IF a \in Unkillable THEN WithCycle(a, "killed") ELSE @]
    /\ UNCHANGED <<monKeeps, pid>>

(* The POST fails; the scheduler may have granted the extension all the    *)
(* same, when only its answer was lost.                                    *)
PostFails(a) ==
    /\ mpc[a] = "post"
    /\ killOrRetry(a)
    /\ granted' \in {granted, granted \union {pid[a]}}
    /\ UNCHANGED <<vars, proxyVars, pid, used, result>>

MutantStaleAccepted(a, q) == TRUE

(* command.PauseID is the active pause_id.                                 *)
ForThisPause(a, q) == q = pid[a]

(* The scheduler answers.  It resumes only a pause it granted an extension *)
(* for, but may answer late, for a pause that is over, or with another     *)
(* command than the class of the step allows.  WAIT_EXECUTION and a        *)
(* refused KILL_EXECUTION leave an UNKILLABLE step where killOrRetry does. *)
PostAnswered(a, command, q) ==
    /\ mpc[a] = "post"
    /\ command = "RESUME_EXECUTION" => q = pid[a] \/ q \in granted
    /\ granted' = IF command = "RESUME_EXECUTION" THEN granted \union {q}
                                                  ELSE granted
    /\ \/ ~ForThisPause(a, q) /\ killOrRetry(a)
       \/ /\ ForThisPause(a, q) /\ command = "RESUME_EXECUTION"
          /\ mpc' = [mpc EXCEPT ![a] = "resume"]
       \/ /\ ForThisPause(a, q) /\ command # "RESUME_EXECUTION"
          /\ killOrRetry(a)
    /\ UNCHANGED <<vars, proxyVars, pid, used, result>>

MutantThresholdKept(a) == result[a].threshold

(* setThreshold, with the new threshold of the command that resumed pid.   *)
NewThreshold(a) == pid[a]

ResumeSucceeds(a) ==
    /\ mpc[a] = "resume" /\ ret[a] = "nil"
    /\ Takes(a)
    /\ mpc' = [mpc EXCEPT ![a] = "tick"]
    /\ result' = [result EXCEPT ![a].threshold = NewThreshold(a),
                                ![a].cycles = WithCycle(a, "resumed")]
    /\ UNCHANGED <<monKeeps, pid>>

ResumeFails(a) ==
    /\ mpc[a] = "resume" /\ ret[a] = "err"
    /\ Takes(a)
    /\ killOrRetry(a)
    /\ UNCHANGED <<monKeeps, pid, result>>

RepollAgain(a) ==
    /\ mpc[a] = "sleep"
    /\ mpc' = [mpc EXCEPT ![a] = "post"]
    /\ UNCHANGED <<vars, monKeeps, pid, result>>

----------------------------------------------------------------------------
(* Executor.Stop, called by StartLatestAction once a newer executor runs.  *)
(* The executor to stop was noted before the newer one was started: it is  *)
(* stopped also if a handler has given it up since.                        *)
StopBegins ==
    /\ MayStop /\ Started /\ stopping = "no"
    /\ current' = FALSE
    /\ stopping' = "kill"
    /\ UNCHANGED <<vars, config, ipc, out, line, report, monVars>>

StopKills ==
    /\ stopping = "kill"
    /\ pc[Stopper] = "idle" /\ ret[Stopper] = "none"
    /\ killExecution(Stopper, Shutdown)
    /\ UNCHANGED <<proxyVars, monVars>>

StopCloses ==
    /\ stopping = "kill" /\ ret[Stopper] # "none"
    /\ Close(Stopper)
    /\ stopping' = "done"
    /\ UNCHANGED <<config, ipc, out, line, report, current, monVars>>

----------------------------------------------------------------------------
InteractStep(a) ==
    \/ InteractSelects(a) \/ InteractJoins(a) \/ InteractPanics(a)
    \/ HandlerDropsExecutor(a)

SchedulerStep(a) ==
    \/ PostFails(a)
    \/ \E command \in Commands, q \in PauseIDs \union {NoPause} :
           PostAnswered(a, command, q)

MonitorStep(a) ==
    \/ MonitorStops(a) \/ MonitorCalls(a) \/ KillReturns(a)
    \/ FreezeSucceeds(a) \/ FreezeFails(a)
    \/ ResumeSucceeds(a) \/ ResumeFails(a) \/ RepollAgain(a)

StopStep == StopBegins \/ StopKills \/ StopCloses

ControllerStep ==
    /\ Start \/ Environment \/ \E c \in Callers : CallGoesOn(c)
    /\ UNCHANGED <<proxyVars, monVars>>

MNext ==
    \/ ControllerStep
    \/ StopStep
    \/ \E a \in Activations :
           \/ InteractStarts(a) \/ ActionAnswers(a) \/ InteractStep(a)
           \/ MonitorCannotRead(a)
           \/ ThresholdWithoutPause(a) \/ ThresholdWithPause(a)
           \/ MonitorStep(a) \/ SchedulerStep(a)

MSpec == MInit /\ [][MNext]_mvars

(* The goroutines of the runtime run, and a.mu is handed to whoever waits  *)
(* for it long enough; the POST has a timeout, so it ends; the action, when *)
(* it is not frozen, answers.  For an UNKILLABLE step the code relies on   *)
(* the scheduler to grant, after enough polls, the extension it queued.    *)
MFairness ==
    /\ Fairness
    /\ WF_mvars(StopStep)
    /\ \A a \in Activations :
           /\ WF_mvars(ActionAnswers(a))
           /\ WF_mvars(InteractStep(a))
           /\ SF_mvars(MonitorStep(a))
           /\ WF_mvars(SchedulerStep(a))
           /\ SF_mvars(PostAnswered(a, "RESUME_EXECUTION", pid[a]))

MFairSpec == MSpec /\ MFairness

----------------------------------------------------------------------------
Returned(a) == ipc[a] \in {"done", "closed"}
CyclePauses(a) ==
    {report[a].cycles[i].pause : i \in DOMAIN report[a].cycles}

(* The process leaves a freeze alive only under a pause_id for which the   *)
(* scheduler granted an extension, whatever answers are lost, late or      *)
(* meant for another pause: resume_allowed => extension_success.           *)
ThawNeedsGrant == [][knob /\ ~knob' => lastPauseID \in granted]_mvars

(* Nothing the scheduler sends and nothing that fails makes the monitor of *)
(* an UNKILLABLE step kill it, or report it killed: cgroup.kill is written *)
(* only for a shutdown or by the monitor of a step that may be killed.     *)
UnkillableNeverKilled ==
    /\ \A a \in Unkillable : ~report[a].killed
    /\ killSent => \/ stopping # "no"
                   \/ \E a \in Activations \ Unkillable :
                          mpc[a] = "kill" \/ result[a].killed

(* A kill confirmed under the pause_id of an activation is in what         *)
(* Interact returned for it, even when the answer of the action, or its    *)
(* exit, came at the same moment; no kill but a shutdown goes unreported.  *)
NoKillLost ==
    /\ \A a \in Activations :
           Returned(a) /\ state = "STOPPED" /\ lastPauseID = pid[a]
               /\ pid[a] # NoPause
           => report[a].killed /\ report[a].pause = pid[a]
    /\ state = "STOPPED" /\ stopping = "no"
           /\ (\A a \in Activations : Returned(a) \/ ipc[a] = "new")
       => \E a \in Activations : report[a].killed

(* Where the cgroup is frozen, or cgroup.freeze asks the kernel to freeze  *)
(* it, an activation that is still in Interact is in a pause cycle or in a *)
(* kill, and the pause in force is its own: the warm container is not left *)
(* frozen for the next activation to find.  Except when its process was    *)
(* killed, is being stopped, or an operation on it was not confirmed: a    *)
(* freeze that timed out leaves cgroup.freeze at 1 and the state UNKNOWN,  *)
(* and an UNKILLABLE step then answers and returns.                        *)
NotLeftFrozen ==
    /\ \A a \in Activations : Returned(a) => pc[a] = "idle"
    /\ knob \/ frozen =>
           \/ \E a \in Running :
                  /\ mpc[a] \in {"freeze", "post", "sleep", "resume", "kill"}
                  /\ state = "FROZEN" => lastPauseID = pid[a]
           \/ state \in {"STOPPED", "UNKNOWN"} \/ stopping # "no"

(* A kill is reported for a process that still lives only if an operation  *)
(* on its cgroup was not confirmed.                                        *)
FalseKillOnlyIfUnknown ==
    \A a \in Activations :
        result[a].killed /\ Populated => state = "UNKNOWN"

(* While a monitor polls the scheduler, its pause is the one in force:     *)
(* no other activation resumes the process, or freezes it again.           *)
PauseIsOwned ==
    \A a \in Activations :
        mpc[a] \in {"post", "sleep"} =>
            \/ state = "FROZEN" /\ lastPauseID = pid[a] /\ frozen
            \/ state \in {"KILLING", "STOPPED", "UNKNOWN"}

(* threshold is the one the last of the cycles that resumed was granted.   *)
LastResumed(cycles, threshold) ==
    LET resumed == {i \in DOMAIN cycles : cycles[i].outcome = "resumed"}
    IN \/ resumed = {} /\ threshold = NoPause
       \/ \E i \in resumed :
              threshold = cycles[i].pause /\ \A j \in resumed : j <= i

(* The threshold handed to the next step of the sequence is the one of the *)
(* last cycle that resumed.                                                *)
ThresholdOfLastResume ==
    \A a \in Activations :
        Returned(a) => LastResumed(report[a].cycles, report[a].threshold)

(* When no activation is under way, every pause cycle there was is in the  *)
(* lifecycle of one activation, once.                                      *)
EveryCycleRecorded ==
    /\ (\A a \in Activations : Returned(a) \/ ipc[a] = "new")
           => used = UNION {CyclePauses(a) : a \in Activations}
    /\ \A a \in Activations :
           Cardinality(CyclePauses(a)) = Len(report[a].cycles)

(* Every activation that enters Interact leaves it, in the panic above if  *)
(* its executor was stopped meanwhile.                                     *)
InvocationReturns ==
    \A a \in Activations :
        ipc[a] = "select" ~> Returned(a) \/ (ipc[a] = "panic" /\ ~current)

----------------------------------------------------------------------------
(* What comments of the code say, and what it does not do.                 *)

(* runHandler, on the return of a kill: "the process is already dead".     *)
ReportedKillMeansDead ==
    \A a \in Activations : report[a].killed => proc # "alive"

(* Executor.Start closes proc.exited because a closed channel "libere TOUS  *)
(* les receveurs": once the process is gone, Interact returns.             *)
ExitReleasesInteract ==
    \A a \in Activations :
        Exited /\ ipc[a] \in {"select", "join"} ~> Returned(a)
=============================================================================
