--------------------------- MODULE CgroupFreezer ---------------------------
(***************************************************************************)
(* The ActivationController of openwhisk/cgroupFreezer.go: the state       *)
(* machine that freezes, resumes and kills the process of an action        *)
(* through its dedicated cgroup v2, together with the part of the kernel   *)
(* it drives and the reaper goroutine of Executor.Start.                   *)
(*                                                                         *)
(* Every operation runs under the mutex a.mu, but it is not one step: it   *)
(* writes a control file, then polls cgroup.events until the kernel        *)
(* confirms or a deadline passes.  Between the two the kernel, the process *)
(* and the goroutines that do not need the mutex go on.                    *)
(***************************************************************************)
CONSTANTS
    Callers,      \* goroutines that call the controller
    PauseIDs,     \* pause_id values of pause cycles
    NoPause,      \* the empty pause_id
    Shutdown,     \* the pause_id "shutdown" that Executor.Stop passes
    MayFail,      \* which of "freeze", "resume", "kill" may be unconfirmed
    KillConfirmBounded  \* KILL_CONFIRM_WAIT_TIMEOUT_MS > 0

ASSUME CgroupFreezerAssumption ==
    /\ NoPause \notin PauseIDs
    /\ Shutdown \notin PauseIDs
    /\ NoPause # Shutdown
    /\ MayFail \subseteq {"freeze", "resume", "kill"}
    /\ KillConfirmBounded \in BOOLEAN

VARIABLES
    state,        \* a.state
    lastPauseID,  \* a.lastPauseID
    pc,           \* where each caller is inside the controller
    arg,          \* the pause_id of each caller's current or last call
    ret,          \* what that call returned: "none" until it returns
    knob,         \* cgroup.freeze holds 1
    frozen,       \* cgroup.events says frozen 1
    killSent,     \* cgroup.kill was written
    proc,         \* the process of the action
    kids,         \* descendants of it are alive in the cgroup
    reaper,       \* the goroutine of Executor.Start that waits for the exit
    present       \* the directory of the cgroup exists

ctlVars == <<state, lastPauseID, pc, arg, ret>>
osVars == <<knob, frozen, killSent, proc, kids, reaper, present>>
vars == <<ctlVars, osVars>>

RuntimeState == {"RUNNING", "FREEZING", "FROZEN", "RESUMING", "KILLING",
                 "STOPPED", "UNKNOWN"}
AllPauseIDs == PauseIDs \union {NoPause, Shutdown}

(* "lock": about to take a.mu in WaitForExit; "wait": inside cmd.Wait();   *)
(* "closed": proc.exited is closed, every receiver is released.            *)
ReaperState == {"off", "lock", "wait", "closed"}

TypeOK ==
    /\ state \in RuntimeState
    /\ lastPauseID \in AllPauseIDs
    /\ pc \in [Callers -> {"idle", "freezing", "resuming", "killing", "reaping"}]
    /\ arg \in [Callers -> AllPauseIDs]
    /\ ret \in [Callers -> {"none", "nil", "err"}]
    /\ knob \in BOOLEAN
    /\ frozen \in BOOLEAN
    /\ killSent \in BOOLEAN
    /\ proc \in {"none", "alive", "zombie", "reaped"}
    /\ kids \in BOOLEAN
    /\ reaper \in ReaperState
    /\ present \in BOOLEAN

(* NewActivationController: the directory exists, the state is RUNNING     *)
(* although no process has been started yet.                               *)
Init ==
    /\ state = "RUNNING"
    /\ lastPauseID = NoPause
    /\ pc = [c \in Callers |-> "idle"]
    /\ arg = [c \in Callers |-> NoPause]
    /\ ret = [c \in Callers |-> "none"]
    /\ knob = FALSE
    /\ frozen = FALSE
    /\ killSent = FALSE
    /\ proc = "none"
    /\ kids = FALSE
    /\ reaper = "off"
    /\ present = TRUE

(* Definitions named Mutant... are plausible faults of the definition that *)
(* follows them; nothing of the specification uses them.                   *)

(* a.mu is free: no caller is between Lock and Unlock.                     *)
MutexFree == \A c \in Callers : pc[c] = "idle"
Started == proc # "none"
Populated == proc = "alive" \/ kids   \* cgroup.events says populated 1

(* The call of c enters at a moment when a.mu is free and stays inside.    *)
Enters(c, p, at) ==
    /\ pc' = [pc EXCEPT ![c] = at]
    /\ arg' = [arg EXCEPT ![c] = p]
    /\ ret' = [ret EXCEPT ![c] = "none"]

(* The call of c returns at once, within the step that took a.mu.          *)
Answers(c, p, r) ==
    /\ arg' = [arg EXCEPT ![c] = p]
    /\ ret' = [ret EXCEPT ![c] = r]
    /\ UNCHANGED pc

(* The call of c, inside the controller until now, returns r.              *)
Returns(c, r) ==
    /\ pc' = [pc EXCEPT ![c] = "idle"]
    /\ ret' = [ret EXCEPT ![c] = r]
    /\ UNCHANGED arg

MutantStateKept == state
MutantRolledBack == "RUNNING"

(* The state after a write or a confirmation that failed.                  *)
Unconfirmed == "UNKNOWN"

MutantWrongIdentifier(c) == c

(* The identifier a confirmed operation leaves in lastPauseID.             *)
ConfirmedPause(c) == arg[c]

----------------------------------------------------------------------------
MutantNoReaper == "off"

(* The goroutine of Executor.Start as it is launched.                      *)
ReaperLaunched == "lock"

(* Start: the process is created directly inside the cgroup; the goroutine *)
(* that reaps it is launched.                                              *)
Start ==
    /\ MutexFree
    /\ proc = "none"
    /\ proc' = "alive"
    /\ state' = "RUNNING"
    /\ reaper' = ReaperLaunched
    /\ UNCHANGED <<lastPauseID, pc, arg, ret, knob, frozen, killSent, kids, present>>

----------------------------------------------------------------------------
(* freezeExecution                                                         *)
FreezeRepeated(c, p) ==
    /\ MutexFree
    /\ state = "FROZEN" /\ lastPauseID = p
    /\ Answers(c, p, "nil")
    /\ UNCHANGED <<state, lastPauseID, osVars>>

FreezeRejected(c, p) ==
    /\ MutexFree
    /\ state # "RUNNING"
    /\ ~(state = "FROZEN" /\ lastPauseID = p)
    /\ Answers(c, p, "err")
    /\ UNCHANGED <<state, lastPauseID, osVars>>

FreezeWritten(c, p) ==
    /\ MutexFree
    /\ state = "RUNNING"
    /\ state' = "FREEZING"
    /\ knob' = TRUE
    /\ Enters(c, p, "freezing")
    /\ UNCHANGED <<lastPauseID, frozen, killSent, proc, kids, reaper, present>>

(* The write of cgroup.freeze itself fails.                                *)
FreezeWriteFails(c, p) ==
    /\ MutexFree
    /\ state = "RUNNING"
    /\ "freeze" \in MayFail
    /\ state' = Unconfirmed
    /\ Answers(c, p, "err")
    /\ UNCHANGED <<lastPauseID, osVars>>
MutantFreezeNotAwaited == TRUE

(* freeze() returns once it has read frozen 1.                             *)
FrozenRead == frozen

FreezeConfirmed(c) ==
    /\ pc[c] = "freezing"
    /\ FrozenRead
    /\ state' = "FROZEN"
    /\ lastPauseID' = ConfirmedPause(c)
    /\ Returns(c, "nil")
    /\ UNCHANGED osVars

(* The last read before the deadline still says frozen 0.  cgroup.freeze   *)
(* keeps its 1: the kernel may freeze the process afterwards.              *)
FreezeTimesOut(c) ==
    /\ pc[c] = "freezing"
    /\ ~frozen
    /\ "freeze" \in MayFail
    /\ state' = Unconfirmed
    /\ Returns(c, "err")
    /\ UNCHANGED <<lastPauseID, osVars>>

freezeExecution(c, p) ==
    \/ FreezeRepeated(c, p)
    \/ FreezeRejected(c, p)
    \/ FreezeWritten(c, p)
    \/ FreezeWriteFails(c, p)

----------------------------------------------------------------------------
(* resumeExecution                                                         *)
ResumeRepeated(c, p) ==
    /\ MutexFree
    /\ state = "RUNNING" /\ lastPauseID = p
    /\ Answers(c, p, "nil")
    /\ UNCHANGED <<state, lastPauseID, osVars>>

MutantAnyPause(p) == TRUE

(* The process is frozen under the pause_id that is to resume it.          *)
PauseInForce(p) == p = lastPauseID

(* Not FROZEN, or frozen under another pause_id.                           *)
ResumeRejected(c, p) ==
    /\ MutexFree
    /\ ~(state = "RUNNING" /\ lastPauseID = p)
    /\ state # "FROZEN" \/ ~PauseInForce(p)
    /\ Answers(c, p, "err")
    /\ UNCHANGED <<state, lastPauseID, osVars>>
ResumeWritten(c, p) ==
    /\ MutexFree
    /\ state = "FROZEN" /\ PauseInForce(p)
    /\ state' = "RESUMING"
    /\ knob' = FALSE
    /\ Enters(c, p, "resuming")
    /\ UNCHANGED <<lastPauseID, frozen, killSent, proc, kids, reaper, present>>

ResumeWriteFails(c, p) ==
    /\ MutexFree
    /\ state = "FROZEN" /\ PauseInForce(p)
    /\ "resume" \in MayFail
    /\ state' = Unconfirmed
    /\ Answers(c, p, "err")
    /\ UNCHANGED <<lastPauseID, osVars>>

ResumeConfirmed(c) ==
    /\ pc[c] = "resuming"
    /\ ~frozen
    /\ state' = "RUNNING"
    /\ lastPauseID' = ConfirmedPause(c)
    /\ Returns(c, "nil")
    /\ UNCHANGED osVars

ResumeTimesOut(c) ==
    /\ pc[c] = "resuming"
    /\ frozen
    /\ "resume" \in MayFail
    /\ state' = Unconfirmed
    /\ Returns(c, "err")
    /\ UNCHANGED <<lastPauseID, osVars>>

resumeExecution(c, p) ==
    \/ ResumeRepeated(c, p)
    \/ ResumeRejected(c, p)
    \/ ResumeWritten(c, p)
    \/ ResumeWriteFails(c, p)

----------------------------------------------------------------------------
(* killExecution                                                           *)
KillRepeated(c, p) ==
    /\ MutexFree
    /\ state = "STOPPED"
    /\ Answers(c, p, "nil")
    /\ UNCHANGED <<state, lastPauseID, osVars>>

KillRejected(c, p) ==
    /\ MutexFree
    /\ state \notin {"STOPPED", "RUNNING", "FROZEN"}
    /\ Answers(c, p, "err")
    /\ UNCHANGED <<state, lastPauseID, osVars>>
KillWritten(c, p) ==
    /\ MutexFree
    /\ state \in {"RUNNING", "FROZEN"}
    /\ state' = "KILLING"
    /\ killSent' = TRUE
    /\ Enters(c, p, "killing")
    /\ UNCHANGED <<lastPauseID, knob, frozen, proc, kids, reaper, present>>

KillWriteFails(c, p) ==
    /\ MutexFree
    /\ state \in {"RUNNING", "FROZEN"}
    /\ "kill" \in MayFail
    /\ state' = Unconfirmed
    /\ Answers(c, p, "err")
    /\ UNCHANGED <<lastPauseID, osVars>>

(* populated 0: the cgroup is empty.  a.cmd is set since Start, so the     *)
(* call goes on to wait for the zombie to be reaped, a.mu still held.      *)
KillConfirmed(c) ==
    /\ pc[c] = "killing"
    /\ ~Populated
    /\ pc' = [pc EXCEPT ![c] = "reaping"]
    /\ UNCHANGED <<state, lastPauseID, arg, ret, osVars>>
KillTimesOut(c) ==
    /\ pc[c] = "killing"
    /\ Populated
    /\ "kill" \in MayFail
    /\ state' = Unconfirmed
    /\ Returns(c, "err")
    /\ UNCHANGED <<lastPauseID, osVars>>

MutantNotReaped == TRUE
MutantWaitsForExited == reaper = "closed"

(* waiter.wait returned, or its budget, if there is one, has run out.      *)
ReapingOver == proc = "reaped" \/ KillConfirmBounded

KillReaped(c) ==
    /\ pc[c] = "reaping"
    /\ ReapingOver
    /\ state' = "STOPPED"
    /\ lastPauseID' = ConfirmedPause(c)
    /\ Returns(c, "nil")
    /\ UNCHANGED osVars

killExecution(c, p) ==
    \/ KillRepeated(c, p)
    \/ KillRejected(c, p)
    \/ KillWritten(c, p)
    \/ KillWriteFails(c, p)

(* The steps of a call that is already inside the controller.              *)
FreezeGoesOn(c) == FreezeConfirmed(c) \/ FreezeTimesOut(c)
ResumeGoesOn(c) == ResumeConfirmed(c) \/ ResumeTimesOut(c)
KillGoesOn(c) == KillConfirmed(c) \/ KillTimesOut(c) \/ KillReaped(c)
CallGoesOn(c) == FreezeGoesOn(c) \/ ResumeGoesOn(c) \/ KillGoesOn(c)

MutantCloseFirst(c) == TRUE

(* The kill of Executor.Stop, the first half of it, has returned.          *)
StopKillReturned(c) == arg[c] = Shutdown /\ ret[c] # "none"

(* Close, the second half of Executor.Stop: whatever the kill returned,    *)
(* the directory is removed; rmdir fails while a process lives in it.      *)
Close(c) ==
    /\ MutexFree
    /\ StopKillReturned(c)
    /\ present' = (present /\ Populated)
    /\ arg' = [arg EXCEPT ![c] = NoPause]
    /\ ret' = [ret EXCEPT ![c] = "none"]
    /\ UNCHANGED <<state, lastPauseID, pc, knob, frozen, killSent, proc, kids, reaper>>

----------------------------------------------------------------------------
(* The kernel and the process.                                             *)
KernelFreezes ==
    /\ knob /\ ~frozen
    /\ frozen' = TRUE
    /\ UNCHANGED <<ctlVars, knob, killSent, proc, kids, reaper, present>>

KernelThaws ==
    /\ ~knob /\ frozen
    /\ frozen' = FALSE
    /\ UNCHANGED <<ctlVars, knob, killSent, proc, kids, reaper, present>>

(* The action starts a process; it is born in the same cgroup.             *)
ProcForks ==
    /\ proc = "alive" /\ ~frozen /\ ~kids
    /\ kids' = TRUE
    /\ UNCHANGED <<ctlVars, knob, frozen, killSent, proc, reaper, present>>

(* The action or its descendants end, by themselves or by the OOM killer,  *)
(* which does not care whether they are frozen.                            *)
ProcExits ==
    /\ proc = "alive"
    /\ proc' = "zombie"
    /\ UNCHANGED <<ctlVars, knob, frozen, killSent, kids, reaper, present>>

KidsExit ==
    /\ kids
    /\ kids' = FALSE
    /\ UNCHANGED <<ctlVars, knob, frozen, killSent, proc, reaper, present>>

(* The SIGKILL of cgroup.kill, perhaps long after the write, reaches every *)
(* process of the cgroup.                                                  *)
KernelKills ==
    /\ killSent /\ Populated
    /\ proc' = IF proc = "alive" THEN "zombie" ELSE proc
    /\ kids' = FALSE
    /\ UNCHANGED <<ctlVars, knob, frozen, killSent, reaper, present>>

(* cmd.Wait(), called by whichever of the waiters came first (waitOnce).   *)
Reap ==
    /\ proc = "zombie"
    /\ reaper = "wait" \/ \E c \in Callers : pc[c] = "reaping"
    /\ proc' = "reaped"
    /\ UNCHANGED <<ctlVars, knob, frozen, killSent, kids, reaper, present>>

(* The goroutine of Executor.Start: WaitForExit takes a.mu to read cmd and *)
(* waiter, waits without it, and proc.exited is closed.                    *)
ReaperLocks ==
    /\ reaper = "lock"
    /\ MutexFree
    /\ reaper' = "wait"
    /\ UNCHANGED <<ctlVars, knob, frozen, killSent, proc, kids, present>>

ReaperCloses ==
    /\ reaper = "wait"
    /\ proc = "reaped"
    /\ reaper' = "closed"
    /\ UNCHANGED <<ctlVars, knob, frozen, killSent, proc, kids, present>>

Environment ==
    \/ KernelFreezes \/ KernelThaws \/ KernelKills
    \/ ProcForks \/ ProcExits \/ KidsExit \/ Reap \/ ReaperLocks \/ ReaperCloses

(* Any client: the calls come once the process has been started, in any    *)
(* order and from any goroutine; Shutdown is only passed by Executor.Stop. *)
Call(c) ==
    /\ Started
    /\ \/ \E p \in PauseIDs : freezeExecution(c, p) \/ resumeExecution(c, p)
       \/ \E p \in AllPauseIDs : killExecution(c, p)
       \/ Close(c)

Next ==
    \/ Start
    \/ \E c \in Callers : Call(c) \/ CallGoesOn(c)
    \/ Environment

Spec == Init /\ [][Next]_vars

(* The kernel acts on its control files, the polling loops end (confirmed  *)
(* or timed out), the Go mutex hands over to a waiter (starvation mode).   *)
Fairness ==
    /\ WF_vars(KernelFreezes) /\ WF_vars(KernelThaws)
    /\ WF_vars(KernelKills) /\ WF_vars(Reap)
    /\ SF_vars(ReaperLocks) /\ WF_vars(ReaperCloses)
    /\ \A c \in Callers : WF_vars(CallGoesOn(c))

FairSpec == Spec /\ Fairness

----------------------------------------------------------------------------
(* What the state says about the kernel: FROZEN means the cgroup is        *)
(* confirmed frozen and stays so, RUNNING that it is thawed, STOPPED that  *)
(* its process is gone (reaped, unless the wait for that was bounded) with *)
(* every descendant it had.                                                *)
(* UNKNOWN promises nothing.                                               *)
StateIsTrue ==
    /\ state = "FROZEN" => knob /\ frozen
    /\ state = "RUNNING" => ~knob /\ ~frozen
    /\ state = "STOPPED" =>
           /\ proc = "reaped" \/ (KillConfirmBounded /\ proc = "zombie")
           /\ ~kids

(* Executor.Stop removes the cgroup only when no operation can use its     *)
(* files any more: none is in progress and none will be accepted.          *)
NoUseAfterClose ==
    ~present => state \in {"STOPPED", "UNKNOWN"} /\ MutexFree

(* Two operations never work on the cgroup together, and the three         *)
(* intermediate states are visible exactly while one does.                 *)
OneOperation ==
    /\ \A c, d \in Callers : pc[c] # "idle" /\ pc[d] # "idle" => c = d
    /\ state \in {"FREEZING", "RESUMING", "KILLING"}
           <=> \E c \in Callers : pc[c] # "idle"

(* What a step may never do: write cgroup.freeze=0 for any pause_id but    *)
(* the one the process was frozen under, or after a kill was sent, or      *)
(* leave STOPPED or UNKNOWN, which no operation repairs.                   *)
ThawedUnderItsPause ==
    [][/\ knob /\ ~knob' =>
             /\ ~killSent
             /\ state = "FROZEN"
             /\ \E c \in Callers : pc'[c] = "resuming" /\ arg'[c] = lastPauseID
       /\ state \in {"STOPPED", "UNKNOWN"} => state' = state]_vars

(* Every call into the controller returns.                                 *)
CallsReturn == \A c \in Callers : pc[c] # "idle" ~> pc[c] = "idle"

(* However the process ends, proc.exited is closed: Interact is released.  *)
ExitIsPublished == proc = "zombie" ~> reaper = "closed"
=============================================================================
