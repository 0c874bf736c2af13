------------------------ MODULE CgroupFreezerProofs ------------------------
(***************************************************************************)
(* Proofs about the controller, for any set of callers and pause_ids, any  *)
(* operations that may fail, and a bounded or an unbounded reaping wait.   *)
(***************************************************************************)
EXTENDS CgroupFreezerRefinement, TLAPS

(* Where a call is inside the controller fixes the state, the knob and the *)
(* process it works on.                                                    *)
CallsAgree ==
    \A c \in Callers :
        /\ pc[c] = "freezing" => state = "FREEZING" /\ knob
        /\ pc[c] = "resuming" => state = "RESUMING" /\ ~knob
        /\ pc[c] = "killing" => state = "KILLING"
        /\ pc[c] = "reaping" => state = "KILLING" /\ proc \in {"zombie", "reaped"}
                                                  /\ ~kids
        /\ pc[c] # "idle" => ret[c] = "none"
        /\ pc[c] \in {"freezing", "resuming"} => arg[c] \in PauseIDs

(* Nothing has been called before the process is started.                  *)
StartComesFirst == proc = "none" => state = "RUNNING" /\ MutexFree /\ ~kids

(* After a kill was written the controller never freezes or resumes.       *)
KillIsFinal == killSent => state \in {"KILLING", "STOPPED", "UNKNOWN"}

(* Once the kill of Executor.Stop has returned, whatever it returned, the  *)
(* controller accepts no operation any more.                               *)
ShutdownIsFinal ==
    \A c \in Callers :
        arg[c] = Shutdown /\ ret[c] # "none" => state \in {"STOPPED", "UNKNOWN"}

CloseIsFinal == ~present => state \in {"STOPPED", "UNKNOWN"}

(* The inductive invariant.                                                *)
Inv ==
    /\ TypeOK
    /\ OneOperation
    /\ StateIsTrue
    /\ CallsAgree
    /\ StartComesFirst
    /\ KillIsFinal
    /\ ShutdownIsFinal
    /\ CloseIsFinal

USE CgroupFreezerAssumption
USE DEF Unconfirmed, ConfirmedPause, ReaperLaunched, FrozenRead, PauseInForce,
        ReapingOver, StopKillReturned, Populated

(* A controller and its cgroup as NewActivationController leaves them.     *)
LEMMA InitInv == Init => Inv
  BY DEF Init, Inv, TypeOK, OneOperation, StateIsTrue, CallsAgree,
         StartComesFirst, KillIsFinal, ShutdownIsFinal, CloseIsFinal,
         MutexFree, RuntimeState, AllPauseIDs, ReaperState

(* The mutex is free exactly in the states that outlive an operation.      *)
LEMMA FreeWhenSettled ==
  ASSUME Inv, MutexFree
  PROVE  state \in {"RUNNING", "FROZEN", "STOPPED", "UNKNOWN"}
  BY DEF Inv, OneOperation, TypeOK, RuntimeState, MutexFree

(* A call that only answers, idempotent or rejected, changes nothing but   *)
(* what it returns.                                                        *)
LEMMA AnswerInv ==
  ASSUME Inv, MutexFree, NEW c \in Callers, NEW p \in AllPauseIDs,
         NEW r \in {"nil", "err"}, Answers(c, p, r),
         p = Shutdown => state \in {"STOPPED", "UNKNOWN"},
         UNCHANGED <<state, lastPauseID, osVars>>
  PROVE  Inv'
  BY DEF Inv, TypeOK, OneOperation, StateIsTrue, CallsAgree,
         StartComesFirst, KillIsFinal, ShutdownIsFinal, CloseIsFinal,
         MutexFree, RuntimeState, AllPauseIDs, ReaperState, Answers, osVars

(* A write that fails leaves the kernel alone and the state UNKNOWN.       *)
LEMMA WriteFailsInv ==
  ASSUME Inv, MutexFree, Started, NEW c \in Callers, NEW p \in AllPauseIDs,
         Answers(c, p, "err"), state' = "UNKNOWN",
         UNCHANGED <<lastPauseID, osVars>>
  PROVE  Inv'
  BY DEF Inv, TypeOK, OneOperation, StateIsTrue, CallsAgree, Started,
         StartComesFirst, KillIsFinal, ShutdownIsFinal, CloseIsFinal,
         MutexFree, RuntimeState, AllPauseIDs, ReaperState, Answers, osVars

(* freezeExecution, resumeExecution and killExecution, up to the moment    *)
(* they write or answer.                                                   *)
LEMMA FreezeInv ==
  ASSUME Inv, Started, NEW c \in Callers, NEW p \in PauseIDs,
         freezeExecution(c, p)
  PROVE  Inv'
<1>0. p \in AllPauseIDs /\ p # Shutdown
  BY DEF AllPauseIDs
<1>1. CASE FreezeRepeated(c, p)
  BY <1>0, <1>1, AnswerInv DEF FreezeRepeated
<1>2. CASE FreezeRejected(c, p)
  BY <1>0, <1>2, AnswerInv DEF FreezeRejected
<1>3. CASE FreezeWritten(c, p)
  BY <1>0, <1>3 DEF Inv, TypeOK, OneOperation, StateIsTrue, CallsAgree,
         StartComesFirst, KillIsFinal, ShutdownIsFinal, CloseIsFinal,
         MutexFree, RuntimeState, AllPauseIDs, ReaperState, FreezeWritten, Enters, Started
<1>4. CASE FreezeWriteFails(c, p)
  BY <1>0, <1>4, WriteFailsInv DEF FreezeWriteFails
<1> QED
  BY <1>1, <1>2, <1>3, <1>4 DEF freezeExecution

LEMMA ResumeInv ==
  ASSUME Inv, Started, NEW c \in Callers, NEW p \in PauseIDs,
         resumeExecution(c, p)
  PROVE  Inv'
<1>0. p \in AllPauseIDs /\ p # Shutdown
  BY DEF AllPauseIDs
<1>1. CASE ResumeRepeated(c, p)
  BY <1>0, <1>1, AnswerInv DEF ResumeRepeated
<1>2. CASE ResumeRejected(c, p)
  BY <1>0, <1>2, AnswerInv DEF ResumeRejected
<1>3. CASE ResumeWritten(c, p)
  BY <1>0, <1>3 DEF Inv, TypeOK, OneOperation, StateIsTrue, CallsAgree,
         StartComesFirst, KillIsFinal, ShutdownIsFinal, CloseIsFinal,
         MutexFree, RuntimeState, AllPauseIDs, ReaperState, ResumeWritten, Enters, Started
<1>4. CASE ResumeWriteFails(c, p)
  BY <1>0, <1>4, WriteFailsInv DEF ResumeWriteFails
<1> QED
  BY <1>1, <1>2, <1>3, <1>4 DEF resumeExecution

LEMMA KillInv ==
  ASSUME Inv, Started, NEW c \in Callers, NEW p \in AllPauseIDs,
         killExecution(c, p)
  PROVE  Inv'
<1>1. CASE KillRepeated(c, p)
  BY <1>1, AnswerInv DEF KillRepeated
<1>2. CASE KillRejected(c, p)
  BY <1>2, AnswerInv, FreeWhenSettled DEF KillRejected
<1>3. CASE KillWritten(c, p)
  BY <1>3 DEF Inv, TypeOK, OneOperation, StateIsTrue, CallsAgree,
         StartComesFirst, KillIsFinal, ShutdownIsFinal, CloseIsFinal,
         MutexFree, RuntimeState, AllPauseIDs, ReaperState, KillWritten, Enters, Started
<1>4. CASE KillWriteFails(c, p)
  BY <1>4, WriteFailsInv DEF KillWriteFails
<1> QED
  BY <1>1, <1>2, <1>3, <1>4 DEF killExecution

(* The second half of the operations: the kernel confirmed, or did not.    *)
LEMMA CallGoesOnInv ==
  ASSUME Inv, NEW c \in Callers, CallGoesOn(c)
  PROVE  Inv'
<1> USE DEF Inv, TypeOK, OneOperation, StateIsTrue, CallsAgree,
         StartComesFirst, KillIsFinal, ShutdownIsFinal, CloseIsFinal,
         MutexFree, RuntimeState, AllPauseIDs, ReaperState, Returns, osVars
<1>1. CASE FreezeConfirmed(c)
  BY <1>1 DEF FreezeConfirmed
<1>2. CASE FreezeTimesOut(c)
  BY <1>2 DEF FreezeTimesOut
<1>3. CASE ResumeConfirmed(c)
  BY <1>3 DEF ResumeConfirmed
<1>4. CASE ResumeTimesOut(c)
  BY <1>4 DEF ResumeTimesOut
<1>5. CASE KillConfirmed(c)
  BY <1>5 DEF KillConfirmed
<1>6. CASE KillTimesOut(c)
  BY <1>6 DEF KillTimesOut
<1>7. CASE KillReaped(c)
  BY <1>7 DEF KillReaped
<1> QED
  BY <1>1, <1>2, <1>3, <1>4, <1>5, <1>6, <1>7
     DEF CallGoesOn, FreezeGoesOn, ResumeGoesOn, KillGoesOn

(* Executor.Stop removes the directory only after its kill returned.       *)
LEMMA CloseInv ==
  ASSUME Inv, NEW c \in Callers, Close(c)
  PROVE  Inv'
  BY DEF Inv, TypeOK, OneOperation, StateIsTrue, CallsAgree,
         StartComesFirst, KillIsFinal, ShutdownIsFinal, CloseIsFinal,
         MutexFree, RuntimeState, AllPauseIDs, ReaperState, Close

(* The kernel, the process and the reaper, none of which needs the mutex   *)
(* but for one step of the last.                                           *)
LEMMA EnvironmentInv ==
  ASSUME Inv, Environment
  PROVE  Inv'
<1> USE DEF Inv, TypeOK, OneOperation, StateIsTrue, CallsAgree,
         StartComesFirst, KillIsFinal, ShutdownIsFinal, CloseIsFinal,
         MutexFree, RuntimeState, AllPauseIDs, ReaperState, ctlVars
<1>1. CASE KernelFreezes
  BY <1>1 DEF KernelFreezes
<1>2. CASE KernelThaws
  BY <1>2 DEF KernelThaws
<1>3. CASE KernelKills
  BY <1>3 DEF KernelKills
<1>4. CASE ProcForks \/ ProcExits \/ KidsExit
  <2>1. CASE ProcForks
    BY <2>1 DEF ProcForks
  <2>2. CASE ProcExits
    BY <2>2 DEF ProcExits
  <2>3. CASE KidsExit
    <3>1. TypeOK'
      BY <2>3 DEF KidsExit
    <3>2. StateIsTrue' /\ OneOperation'
      BY <2>3 DEF KidsExit
    <3>3. CallsAgree'
      BY <2>3 DEF KidsExit
    <3>4. StartComesFirst' /\ KillIsFinal' /\ ShutdownIsFinal' /\ CloseIsFinal'
      BY <2>3 DEF KidsExit
    <3> QED
      BY <3>1, <3>2, <3>3, <3>4
  <2> QED
    BY <1>4, <2>1, <2>2, <2>3
<1>5. CASE Reap
  BY <1>5 DEF Reap
<1>6. CASE ReaperLocks
  BY <1>6 DEF ReaperLocks
<1>7. CASE ReaperCloses
  BY <1>7 DEF ReaperCloses
<1> QED
  BY <1>1, <1>2, <1>3, <1>4, <1>5, <1>6, <1>7 DEF Environment

LEMMA StartInv ==
  ASSUME Inv, Start
  PROVE  Inv'
  BY DEF Inv, TypeOK, OneOperation, StateIsTrue, CallsAgree,
         StartComesFirst, KillIsFinal, ShutdownIsFinal, CloseIsFinal,
         MutexFree, RuntimeState, AllPauseIDs, ReaperState, Start

LEMMA CallInv ==
  ASSUME Inv, NEW c \in Callers, Call(c)
  PROVE  Inv'
  BY FreezeInv, ResumeInv, KillInv, CloseInv DEF Call

LEMMA StutterInv ==
  ASSUME Inv, UNCHANGED vars
  PROVE  Inv'
  BY DEF Inv, TypeOK, OneOperation, StateIsTrue, CallsAgree,
         StartComesFirst, KillIsFinal, ShutdownIsFinal, CloseIsFinal,
         MutexFree, RuntimeState, AllPauseIDs, ReaperState, vars, ctlVars, osVars

(* The invariant is inductive: no interleaving of callers, kernel, process *)
(* and reaper leaves it.                                                   *)
THEOREM Invariance == Spec => []Inv
<1>1. Inv /\ [Next]_vars => Inv'
  <2> SUFFICES ASSUME Inv, [Next]_vars PROVE Inv'
    OBVIOUS
  <2> QED
    BY StartInv, CallInv, CallGoesOnInv, EnvironmentInv, StutterInv DEF Next
<1> QED
  BY InitInv, <1>1, PTL DEF Spec

(* Every variable of the controller and of its cgroup keeps its type.      *)
THEOREM TypeCorrectness == Spec => []TypeOK
  BY Invariance, PTL DEF Inv

(* The state of the controller tells the truth about the kernel: FROZEN    *)
(* is frozen, RUNNING is thawed, STOPPED is gone.                          *)
THEOREM StateTruth == Spec => []StateIsTrue
  BY Invariance, PTL DEF Inv

(* a.mu keeps the multi-step operations apart.                             *)
THEOREM MutualExclusion == Spec => []OneOperation
  BY Invariance, PTL DEF Inv

(* No operation touches the files of a cgroup that Close has removed.      *)
THEOREM SafeClose == Spec => []NoUseAfterClose
<1>1. Inv => NoUseAfterClose
  BY DEF Inv, CloseIsFinal, OneOperation, MutexFree, NoUseAfterClose
<1> QED
  BY <1>1, Invariance, PTL

----------------------------------------------------------------------------
(* A step of the controller or of its environment, taken apart.            *)
LEMMA StepCases ==
  ASSUME Next
  PROVE  \/ Start
         \/ \E c \in Callers : Started /\
               \/ \E p \in PauseIDs : freezeExecution(c, p)
               \/ \E p \in PauseIDs : resumeExecution(c, p)
               \/ \E p \in AllPauseIDs : killExecution(c, p)
               \/ Close(c)
         \/ \E c \in Callers : CallGoesOn(c)
         \/ Environment
  BY DEF Next, Call

(* The body of ThawedUnderItsPause.                                        *)
ThawStep ==
    /\ knob /\ ~knob' =>
          /\ ~killSent
          /\ state = "FROZEN"
          /\ \E c \in Callers : pc'[c] = "resuming" /\ arg'[c] = lastPauseID
    /\ state \in {"STOPPED", "UNKNOWN"} => state' = state

LEMMA ThawStepHolds ==
  ASSUME Inv, [Next]_vars
  PROVE  ThawStep
<1> USE DEF ThawStep, osVars, ctlVars
<1>1. CASE Start
  BY <1>1 DEF Start, Inv, StartComesFirst
<1>2. ASSUME NEW c \in Callers, NEW p \in PauseIDs, freezeExecution(c, p)
      PROVE  ThawStep
  BY <1>2 DEF freezeExecution, FreezeRepeated, FreezeRejected, FreezeWritten,
              FreezeWriteFails
<1>3. ASSUME NEW c \in Callers, NEW p \in PauseIDs, resumeExecution(c, p)
      PROVE  ThawStep
  BY <1>3 DEF resumeExecution, ResumeRepeated, ResumeRejected, ResumeWritten,
              ResumeWriteFails, Enters, Inv, KillIsFinal, TypeOK
<1>4. ASSUME NEW c \in Callers, NEW p \in AllPauseIDs, killExecution(c, p)
      PROVE  ThawStep
  BY <1>4 DEF killExecution, KillRepeated, KillRejected, KillWritten,
              KillWriteFails
<1>5. ASSUME NEW c \in Callers, Close(c) PROVE ThawStep
  BY <1>5 DEF Close
<1>6. ASSUME NEW c \in Callers, CallGoesOn(c) PROVE ThawStep
  BY <1>6 DEF CallGoesOn, FreezeGoesOn, ResumeGoesOn, KillGoesOn,
              FreezeConfirmed, FreezeTimesOut, ResumeConfirmed, ResumeTimesOut,
              KillConfirmed, KillTimesOut, KillReaped, Inv, CallsAgree
<1>7. CASE Environment
  BY <1>7 DEF Environment, KernelFreezes, KernelThaws, KernelKills, ProcForks,
              ProcExits, KidsExit, Reap, ReaperLocks, ReaperCloses
<1>8. CASE UNCHANGED vars
  BY <1>8 DEF vars
<1> QED
  BY <1>1, <1>2, <1>3, <1>4, <1>5, <1>6, <1>7, <1>8, StepCases

(* cgroup.freeze=0 is only written under the pause_id of the freeze, never *)
(* after a kill; STOPPED and UNKNOWN are final.                            *)
THEOREM ThawDiscipline == Spec => ThawedUnderItsPause
<1>1. Inv /\ [Next]_vars => [ThawStep]_vars
  BY ThawStepHolds
<1> QED
  BY <1>1, Invariance, PTL DEF Spec, ThawedUnderItsPause, ThawStep

----------------------------------------------------------------------------
(* A step that leaves phase and pause alone is Progress, or a stutter: the *)
(* process may only start or stop executing outside a pause.               *)
LEMMA QuietStep ==
  ASSUME Inv, Inv', state' = state, lastPauseID' = lastPauseID
  PROVE  [Lifecycle!Next]_(Lifecycle!vars)
<1>1. phaseBar' = phaseBar /\ pauseBar' = pauseBar
  BY DEF phaseBar, pauseBar
<1>2. CASE state \in {"FROZEN", "STOPPED"}
  <2>1. executingBar = FALSE /\ executingBar' = FALSE
    BY <1>2 DEF Inv, StateIsTrue, executingBar
  <2> QED
    BY <1>1, <2>1 DEF Lifecycle!vars
<1>3. CASE state \notin {"FROZEN", "STOPPED"}
  <2>1. phaseBar \in {"running", "killing", "lost"}
    BY <1>3 DEF phaseBar, Inv, TypeOK, RuntimeState
  <2>2. executingBar' \in BOOLEAN
    BY DEF executingBar
  <2> QED
    BY <1>1, <2>1, <2>2 DEF Lifecycle!Next, Lifecycle!Progress
<1> QED
  BY <1>2, <1>3

(* The process keeps executing, or not, over every controller step.        *)
LEMMA LifecycleStep ==
  ASSUME Inv, Inv', [Next]_vars
  PROVE  [Lifecycle!Next]_(Lifecycle!vars)
<1> DEFINE Step == [Lifecycle!Next]_(Lifecycle!vars)
<1>0. ASSUME UNCHANGED osVars PROVE UNCHANGED executingBar
  BY <1>0 DEF osVars, executingBar
<1>1. CASE Start
  <2>1. state' = state /\ lastPauseID' = lastPauseID
    BY <1>1 DEF Start, Inv, StartComesFirst
  <2> QED
    BY <2>1, QuietStep
<1>2. ASSUME NEW c \in Callers, NEW p \in PauseIDs, freezeExecution(c, p)
      PROVE  Step
  <2>1. CASE FreezeRepeated(c, p) \/ FreezeRejected(c, p)
    BY <2>1, QuietStep DEF FreezeRepeated, FreezeRejected
  <2>2. CASE FreezeWritten(c, p)
    BY <2>2 DEF FreezeWritten, Lifecycle!vars, phaseBar, pauseBar, executingBar
  <2>3. CASE FreezeWriteFails(c, p)
    BY <1>0, <2>3 DEF FreezeWriteFails, phaseBar, pauseBar,
                      Lifecycle!Next, Lifecycle!Lose
  <2> QED
    BY <1>2, <2>1, <2>2, <2>3 DEF freezeExecution
<1>3. ASSUME NEW c \in Callers, NEW p \in PauseIDs, resumeExecution(c, p)
      PROVE  Step
  <2>1. CASE ResumeRepeated(c, p) \/ ResumeRejected(c, p)
    BY <2>1, QuietStep DEF ResumeRepeated, ResumeRejected
  <2>2. CASE ResumeWritten(c, p)
    <3>1. Lifecycle!Resume(p)
      BY <2>2 DEF ResumeWritten, Lifecycle!Resume, phaseBar, pauseBar, executingBar
    <3> QED
      BY <3>1 DEF Lifecycle!Next
  <2>3. CASE ResumeWriteFails(c, p)
    BY <1>0, <2>3 DEF ResumeWriteFails, phaseBar, pauseBar,
                      Lifecycle!Next, Lifecycle!Lose
  <2> QED
    BY <1>3, <2>1, <2>2, <2>3 DEF resumeExecution
<1>4. ASSUME NEW c \in Callers, NEW p \in AllPauseIDs, killExecution(c, p)
      PROVE  Step
  <2>1. CASE KillRepeated(c, p) \/ KillRejected(c, p)
    BY <2>1, QuietStep DEF KillRepeated, KillRejected
  <2>2. CASE KillWritten(c, p)
    BY <2>2 DEF KillWritten, phaseBar, pauseBar, executingBar,
                Lifecycle!Next, Lifecycle!Kill
  <2>3. CASE KillWriteFails(c, p)
    BY <1>0, <2>3 DEF KillWriteFails, phaseBar, pauseBar,
                      Lifecycle!Next, Lifecycle!Lose
  <2> QED
    BY <1>4, <2>1, <2>2, <2>3 DEF killExecution
<1>5. ASSUME NEW c \in Callers, Close(c) PROVE Step
  BY <1>5, QuietStep DEF Close
<1>6. ASSUME NEW c \in Callers, CallGoesOn(c) PROVE Step
  <2>1. CASE FreezeConfirmed(c)
    <3>1. arg[c] \in PauseIDs /\ state = "FREEZING"
      BY <2>1 DEF FreezeConfirmed, Inv, CallsAgree
    <3>2. Lifecycle!Pause(arg[c])
      BY <1>0, <2>1, <3>1 DEF FreezeConfirmed, Lifecycle!Pause,
                              phaseBar, pauseBar, executingBar
    <3> QED
      BY <3>1, <3>2 DEF Lifecycle!Next
  <2>2. CASE ResumeConfirmed(c)
    <3>1. state = "RESUMING"
      BY <2>2 DEF ResumeConfirmed, Inv, CallsAgree
    <3> QED
      BY <1>0, <2>2, <3>1 DEF ResumeConfirmed, Lifecycle!vars, phaseBar, pauseBar
  <2>3. CASE KillConfirmed(c)
    BY <2>3, QuietStep DEF KillConfirmed
  <2>4. CASE KillReaped(c)
    <3>1. state = "KILLING" /\ proc \in {"zombie", "reaped"} /\ ~kids
      BY <2>4 DEF KillReaped, Inv, CallsAgree
    <3> QED
      BY <1>0, <2>4, <3>1 DEF KillReaped, phaseBar, pauseBar, executingBar,
                              Lifecycle!Next, Lifecycle!Killed
  <2>5. CASE FreezeTimesOut(c) \/ ResumeTimesOut(c) \/ KillTimesOut(c)
    <3>1. state \in {"FREEZING", "RESUMING", "KILLING"} /\ state' = "UNKNOWN"
      BY <2>5 DEF FreezeTimesOut, ResumeTimesOut, KillTimesOut, Inv, CallsAgree
    <3>2. UNCHANGED executingBar
      BY <1>0, <2>5 DEF FreezeTimesOut, ResumeTimesOut, KillTimesOut
    <3> QED
      BY <3>1, <3>2 DEF phaseBar, pauseBar, Lifecycle!Next, Lifecycle!Lose
  <2> QED
    BY <1>6, <2>1, <2>2, <2>3, <2>4, <2>5
       DEF CallGoesOn, FreezeGoesOn, ResumeGoesOn, KillGoesOn
<1>7. CASE Environment
  BY <1>7, QuietStep DEF Environment, KernelFreezes, KernelThaws, KernelKills,
       ProcForks, ProcExits, KidsExit, Reap, ReaperLocks, ReaperCloses, ctlVars
<1>8. CASE UNCHANGED vars
  BY <1>8, QuietStep DEF vars, ctlVars
<1> QED
  BY <1>1, <1>2, <1>3, <1>4, <1>5, <1>6, <1>7, <1>8, StepCases

(* The controller, with its mutex, its polling and the kernel under it,    *)
(* implements the lifecycle its callers rely on.                           *)
THEOREM Refinement == Spec => KeepsLifecycle
<1>1. Init => Lifecycle!Init
  BY DEF Init, Lifecycle!Init, phaseBar, pauseBar, executingBar
<1>2. Inv /\ Inv' /\ [Next]_vars => [Lifecycle!Next]_(Lifecycle!vars)
  BY LifecycleStep
<1> QED
  BY <1>1, <1>2, Invariance, PTL DEF Spec, KeepsLifecycle, Lifecycle!Spec
=============================================================================
