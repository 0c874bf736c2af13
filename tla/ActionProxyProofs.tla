-------------------------- MODULE ActionProxyProofs -------------------------
(***************************************************************************)
(* The handlers of /init and /run, for any number of requests, any         *)
(* concurrency limit of the action, any number of attempts, and a          *)
(* collector and a scheduler that fail as they like.                       *)
(***************************************************************************)
EXTENDS ActionProxy, FiniteSetTheorems, TLAPS

(* An executor that was put in place.                                      *)
Live(i) == ipc[i] \in {"stopping", "closing", "started", "ok", "over"}
Answered(i) == ipc[i] \in {"ok", "over"}

(* One /init at a time, and, without OW_DEBUG, none after one that         *)
(* succeeded.                                                              *)
OneInit ==
    /\ \A i, j \in InitUnanswered : i = j
    /\ \A i \in Inits : Answered(i) => initialized
    /\ ~Debugging /\ initialized => InitUnanswered = {}
    /\ ~Debugging => \A i, j \in Inits : Answered(i) /\ Answered(j) => i = j

(* The upload of an /init is in the highest directory until it is started. *)
OwnCode ==
    \A i \in Inits :
        /\ ipc[i] = "loaded" =>
               dirs[i] = currentDir /\ \A j \in Inits : j # i => dirs[j] < dirs[i]
        /\ code[i] \in {i, None}
        /\ ipc[i] = "starting" => code[i] = i

(* Executors in place or in use are live; one is stopped only under        *)
(* OW_DEBUG.                                                               *)
Executors ==
    /\ theExecutor # None => Live(theExecutor)
    /\ \A i \in Inits :
           /\ ipc[i] \in {"stopping", "closing"} => cur[i] # None
           /\ cur[i] # None => Debugging
    /\ closed # {} => Debugging
    /\ \A r \in Runs : using[r] # None => Live(using[r])

(* What the phase of a run says of it.                                     *)
Entering == {"new", "accepted", "ready"}
Measuring == {"sidecar", "measure"}
Delivering == {"take", "push init", "push run", "drop", "post", "respond"}

RunPhase(r) ==
    /\ rpc[r] \in Entering => using[r] = None
    /\ rpc[r] \in Entering \union {"inside"} =>
           fate[r] = "none" /\ sidecarOn[r] = None
    /\ rpc[r] \in {"inside"} \union Measuring \union Delivering => using[r] # None
    /\ rpc[r] \in Measuring \union Delivering => fate[r] \in {"killed", "answered"}
    /\ rpc[r] \in {"drop", "post"} => fate[r] = "killed"
    /\ fate[r] = "killed" => using[r] # None

RunPhases == \A r \in Runs : RunPhase(r)

(* The entry of an /init: waiting in pending, or carried by one run, whose *)
(* points are the only ones there are.                                     *)
Carriers ==
    /\ pending # None => ipc[pending] = "over"
    /\ \A r \in Runs :
           /\ carried[r] # None => ipc[carried[r]] = "over" /\ carried[r] # pending
           /\ rpc[r] \in Entering \union {"inside", "take"} \union Measuring =>
                  carried[r] = None
           /\ rpc[r] = "push init" => carried[r] # None
    /\ \A r, s \in Runs : carried[r] = carried[s] /\ carried[r] # None => r = s
    /\ \A m \in received \union undelivered :
           m.kind = "/init" => carried[m.run] = m.of

(* What was delivered or given up by the time a run has reached a phase.   *)
Announced(r) == rpc[r] = "respond" \/ (rpc[r] = "over" /\ fate[r] \in {"killed", "answered"})
Pushed(r) == rpc[r] \in {"drop", "post"} \/ Announced(r)
PushedInit(r) == rpc[r] = "push run" \/ Pushed(r)

Deliveries(r) ==
    /\ PushedInit(r) /\ carried[r] # None => Settled(InitPoint(carried[r], r))
    /\ Pushed(r) => Settled(RunPoint(r))
    /\ Announced(r) /\ fate[r] = "killed" => Settled(KilledEvent(r))
    /\ Settled(KilledEvent(r)) =>
           fate[r] = "killed" /\ rpc[r] \in {"post", "respond", "over"}

DeliveriesInOrder == \A r \in Runs : Deliveries(r)

(* One run at a time finds its executor in place until it gives it up.     *)
Alone ==
    /\ Concurrency = 1 => \A r, s \in Active : r = s
    /\ OneRunOneExecutor =>
           \A r \in Runs :
               /\ rpc[r] # "panic"
               /\ rpc[r] \in {"accepted", "ready", "inside", "take", "push init",
                              "push run", "drop"} \union Measuring => theExecutor # None
               /\ rpc[r] \in Delivering => measuredOn[r] = using[r]
               /\ sidecarOn[r] \in {using[r], None}

(* The inductive invariant.                                                *)
PInv ==
    /\ PTypeOK /\ OneInit /\ OwnCode /\ Executors /\ RunPhases /\ Carriers
    /\ DeliveriesInOrder /\ InitPointConserved /\ Alone

----------------------------------------------------------------------------
(* The steps of /init and of /run, and what they leave alone.              *)

InitStep(i) == InitArrives(i) \/ InitGoesOn(i) \/ ProcessDies(i)
RunStep(r) == RunArrives(r) \/ RunGoesOn(r)

LEMMA NextSplits ==
  ASSUME [Next]_vars
  PROVE  \/ \E i \in Inits : InitStep(i)
         \/ \E r \in Runs : RunStep(r)
         \/ UNCHANGED vars
  BY DEF Next, InitStep, RunStep

LEMMA InitLeaves ==
  ASSUME NEW i \in Inits, InitStep(i)
  PROVE  config' = config /\ UNCHANGED runVars /\ UNCHANGED netVars
  BY DEF InitStep, InitGoesOn, InitArrives, InitLoads, InitGivesUp, InitStarts, StartFails,
     StartSucceeds, StopKillsOld, StopClosesOld, InitAnswers, InitRecords, ProcessDies,
     apVars

LEMMA RunLeaves ==
  ASSUME NEW r \in Runs, RunStep(r)
  PROVE  /\ config' = config /\ initialized' = initialized /\ closed' = closed
         /\ UNCHANGED dirVars /\ UNCHANGED initVars
<1>1. CASE \E how \in Attempts :
               PushesInit(r, how) \/ PushesRun(r, how) \/ PostsKilled(r, how)
  BY <1>1 DEF PushesInit, PushesRun, PostsKilled, apVars
<1>2. CASE ~ \E how \in Attempts :
               PushesInit(r, how) \/ PushesRun(r, how) \/ PostsKilled(r, how)
  BY <1>2 DEF RunStep, RunGoesOn, InteractReturns, RunArrives, RunChecksExit, RunInteracts,
     InteractKilled, InteractExited, InteractAnswered, InteractPanics, SidecarMeasures,
     Measures, TakesInit, DropsExecutor, Responds, apVars
<1> QED
  BY <1>1, <1>2

LEMMA ConfigKept ==
  ASSUME [Next]_vars
  PROVE  config' = config
  BY NextSplits, InitLeaves, RunLeaves DEF vars, apVars

----------------------------------------------------------------------------
(* Types.                                                                  *)

ApTypes ==
    /\ config \in Configs
    /\ theExecutor \in Inits \union {None} /\ initialized \in BOOLEAN
    /\ pending \in Inits \union {None}
    /\ proc \in [Inits -> {"none", "alive", "dead"}] /\ closed \subseteq Inits
DirTypes == currentDir \in Nat /\ dirs \in [Inits -> 0 .. currentDir]
MetricTypes ==
    /\ metrics \in [init : Seq(Inits), run : Seq(Runs)]
    /\ Len(metrics.init) <= MetricsLimit /\ Len(metrics.run) <= MetricsLimit
InitTypes ==
    /\ ipc \in [Inits -> {"new", "accepted", "loaded", "starting", "stopping",
                          "closing", "started", "ok", "over", "failed"}]
    /\ cur \in [Inits -> Inits \union {None}]
    /\ code \in [Inits -> Inits \union {None}]
RunTypes ==
    /\ rpc \in [Runs -> {"new", "accepted", "ready", "inside", "sidecar",
                         "measure", "take", "push init", "push run", "drop",
                         "post", "respond", "over", "panic"}]
    /\ using \in [Runs -> Inits \union {None}]
    /\ fate \in [Runs -> {"none", "killed", "answered", "exited", "bad"}]
    /\ sidecarOn \in [Runs -> Inits \union {None}]
    /\ measuredOn \in [Runs -> Inits \union {None}]
    /\ carried \in [Runs -> Inits \union {None}]
    /\ tries \in [Runs -> 0 .. MaxAttempts - 1]
NetTypes == received \subseteq Messages /\ undelivered \subseteq Messages

LEMMA TypesSplit ==
  PTypeOK <=> ApTypes /\ DirTypes /\ MetricTypes /\ InitTypes /\ RunTypes /\ NetTypes
  BY DEF PTypeOK, ApTypes, DirTypes, MetricTypes, InitTypes, RunTypes, NetTypes

(* Metrics.Add keeps at most MetricsLimit entries.                         *)
LEMMA AddedTrims ==
  ASSUME NEW S, NEW entries \in Seq(S), NEW x \in S, Len(entries) <= MetricsLimit
  PROVE  Added(entries, x) \in Seq(S) /\ Len(Added(entries, x)) <= MetricsLimit
<1>1. MetricsLimit \in Nat \ {0}
  BY ActionProxyAssumption DEF ActionProxyAssumption
<1>2. Append(entries, x) \in Seq(S) /\ Len(Append(entries, x)) = Len(entries) + 1
  OBVIOUS
<1>3. CASE Len(Append(entries, x)) > MetricsLimit
  <2>1. Added(entries, x) = Tail(Append(entries, x))
    BY <1>3 DEF Added
  <2>2. Append(entries, x) # <<>>
    BY <1>2
  <2>3. /\ Tail(Append(entries, x)) \in Seq(S)
        /\ Len(Tail(Append(entries, x))) = Len(Append(entries, x)) - 1
    BY <1>2, <2>2
  <2> QED
    BY <1>1, <1>2, <2>1, <2>3
<1>4. CASE ~(Len(Append(entries, x)) > MetricsLimit)
  BY <1>1, <1>2, <1>4 DEF Added
<1> QED
  BY <1>3, <1>4

LEMMA InitStepTypes ==
  ASSUME PTypeOK, OwnCode, Executors, NEW i \in Inits, InitStep(i)
  PROVE  PTypeOK'
<1>0. ApTypes /\ DirTypes /\ MetricTypes /\ InitTypes
  BY TypesSplit
<1>1. RunTypes' /\ NetTypes'
  BY InitLeaves, TypesSplit DEF runVars, netVars, RunTypes, NetTypes
<1>2. MetricTypes'
  <2>1. CASE InitRecords(i)
    <3>1. metrics' = [metrics EXCEPT !.init = Added(metrics.init, i)]
      BY <2>1, <1>0 DEF InitRecords, MetricTypes
    <3>2. Added(metrics.init, i) \in Seq(Inits) /\ Len(Added(metrics.init, i)) <= MetricsLimit
      BY <1>0, AddedTrims DEF MetricTypes
    <3> QED
      BY <1>0, <3>1, <3>2 DEF MetricTypes
  <2>2. CASE ~InitRecords(i)
    <3>1. metrics' = metrics
      BY <2>2 DEF InitStep, InitGoesOn, InitArrives, InitLoads, InitGivesUp, InitStarts,
         StartFails, StartSucceeds, StopKillsOld, StopClosesOld, InitAnswers, ProcessDies,
         apVars
    <3> QED
      BY <1>0, <3>1 DEF MetricTypes
  <2> QED
    BY <2>1, <2>2
<1>3. DirTypes'
  <2>1. CASE InitLoads(i)
    <3>1. CASE UNCHANGED dirVars
      BY <1>0, <3>1 DEF DirTypes, dirVars
    <3>2. CASE currentDir' = currentDir + 1 /\ dirs' = [dirs EXCEPT ![i] = currentDir']
      <4>1. currentDir' \in Nat /\ 0 .. currentDir \subseteq 0 .. currentDir'
            /\ currentDir' \in 0 .. currentDir'
        BY <1>0, <3>2 DEF DirTypes
      <4> QED
        BY <1>0, <3>2, <4>1 DEF DirTypes
    <3> QED
      BY <2>1, <3>1, <3>2 DEF InitLoads
  <2>2. CASE StartFails(i)
    <3>1. currentDir' = currentDir
      BY <2>2 DEF StartFails
    <3>2. 0 \in 0 .. currentDir
      BY <1>0 DEF DirTypes
    <3>3. dirs' = dirs \/ dirs' = [dirs EXCEPT ![code[i]] = 0]
      BY <2>2 DEF StartFails
    <3> QED
      BY <1>0, <3>1, <3>2, <3>3 DEF DirTypes
  <2>3. CASE ~InitLoads(i) /\ ~StartFails(i)
    <3>1. UNCHANGED dirVars
      BY <2>3 DEF InitStep, InitGoesOn, InitArrives, InitGivesUp, InitStarts,
         StartSucceeds, StopKillsOld, StopClosesOld, InitAnswers, InitRecords, ProcessDies,
         apVars
    <3> QED
      BY <1>0, <3>1 DEF DirTypes, dirVars
  <2> QED
    BY <2>1, <2>2, <2>3
<1>4. ApTypes' /\ InitTypes'
  <2>1. CASE InitArrives(i) \/ InitLoads(i) \/ InitGivesUp(i)
    BY <1>0, <2>1 DEF InitArrives, InitLoads, InitGivesUp, ApTypes, InitTypes, apVars
  <2>2. CASE InitStarts(i)
    <3>1. highestDir = i
      BY <1>0, <2>2 DEF InitStarts, OwnCode, highestDir, DirTypes
    <3> QED
      BY <1>0, <2>2, <3>1 DEF InitStarts, ApTypes, InitTypes
  <2>3. CASE StartFails(i)
    BY <1>0, <2>3 DEF StartFails, StartRefused, ApTypes, InitTypes
  <2>4. CASE StartSucceeds(i)
    BY <1>0, <2>4 DEF StartSucceeds, ApTypes, InitTypes
  <2>5. CASE StopKillsOld(i)
    BY <1>0, <2>5 DEF StopKillsOld, Killed, ApTypes, InitTypes
  <2>6. CASE StopClosesOld(i)
    <3>1. cur[i] \in Inits
      BY <1>0, <2>6 DEF StopClosesOld, Executors, InitTypes
    <3> QED
      BY <1>0, <2>6, <3>1 DEF StopClosesOld, ApTypes, InitTypes
  <2>7. CASE InitAnswers(i) \/ InitRecords(i) \/ ProcessDies(i)
    BY <1>0, <2>7 DEF InitAnswers, InitRecords, ProcessDies, ApTypes, InitTypes, initVars
  <2> QED
    BY <2>1, <2>2, <2>3, <2>4, <2>5, <2>6, <2>7 DEF InitStep, InitGoesOn
<1> QED
  BY <1>1, <1>2, <1>3, <1>4, TypesSplit, PTL

LEMMA AttemptBounds ==
  ASSUME NEW n \in Nat \ {0}, NEW t \in 0 .. n - 1
  PROVE  0 \in 0 .. n - 1 /\ (t + 1 # n => t + 1 \in 0 .. n - 1)
  OBVIOUS

(* One attempt of a delivery.                                              *)
LEMMA DeliversTypes ==
  ASSUME RunTypes, NetTypes, NEW r \in Runs, NEW m \in Messages, NEW how,
         NEW next \in {"push run", "drop", "respond"}, Delivers(r, m, how, next)
  PROVE  RunTypes' /\ NetTypes'
<1>1. MaxAttempts \in Nat \ {0} /\ tries[r] \in 0 .. MaxAttempts - 1
  BY ActionProxyAssumption DEF ActionProxyAssumption, RunTypes
<1>2. /\ 0 \in 0 .. MaxAttempts - 1
      /\ AttemptsMade(r) # MaxAttempts => AttemptsMade(r) \in 0 .. MaxAttempts - 1
  BY <1>1, AttemptBounds DEF AttemptsMade
<1>3. tries' \in [Runs -> 0 .. MaxAttempts - 1]
  BY <1>2 DEF Delivers, LastAttempt, RunTypes
<1>4. rpc' \in [Runs -> {"new", "accepted", "ready", "inside", "sidecar",
                        "measure", "take", "push init", "push run", "drop",
                        "post", "respond", "over", "panic"}]
  BY DEF Delivers, RunTypes
<1> QED
  BY <1>3, <1>4 DEF Delivers, RunTypes, NetTypes

LEMMA PointTypes ==
  ASSUME NEW r \in Runs
  PROVE  /\ RunPoint(r) \in Messages /\ KilledEvent(r) \in Messages
         /\ \A i \in Inits : InitPoint(i, r) \in Messages
  BY DEF RunPoint, KilledEvent, InitPoint, Messages

LEMMA RunStepTypes ==
  ASSUME PTypeOK, Carriers, NEW r \in Runs, RunStep(r)
  PROVE  PTypeOK'
<1>0. ApTypes /\ DirTypes /\ MetricTypes /\ InitTypes /\ RunTypes /\ NetTypes
  BY TypesSplit
<1>1. DirTypes' /\ InitTypes'
  BY <1>0, RunLeaves DEF dirVars, initVars, DirTypes, InitTypes
<1>2. CASE RunArrives(r) \/ RunChecksExit(r) \/ InteractPanics(r) \/ Responds(r)
  <2>1. UNCHANGED <<apVars, netVars, using, fate, sidecarOn, measuredOn, carried, tries>>
    BY <1>2 DEF RunArrives, RunChecksExit, InteractPanics, Responds
  <2>2. rpc' \in [Runs -> {"new", "accepted", "ready", "inside", "sidecar",
                          "measure", "take", "push init", "push run", "drop",
                          "post", "respond", "over", "panic"}]
    <3>1. CASE RunChecksExit(r)
      <4>1. \E v \in {"panic", "over", "ready"} : rpc' = [rpc EXCEPT ![r] = v]
        BY <3>1 DEF RunChecksExit
      <4> QED
        BY <1>0, <4>1 DEF RunTypes
    <3>2. CASE RunArrives(r) \/ InteractPanics(r) \/ Responds(r)
      BY <1>0, <3>2 DEF RunArrives, InteractPanics, Responds, RunTypes
    <3> QED
      BY <1>2, <3>1, <3>2
  <2> QED
    BY <1>0, <1>1, <2>1, <2>2
    DEF PTypeOK, ApTypes, DirTypes, MetricTypes, InitTypes, RunTypes, NetTypes, apVars, netVars
<1>3. CASE RunInteracts(r) \/ InteractAnswered(r) \/ SidecarMeasures(r)
  <2>1. UNCHANGED <<apVars, netVars>>
    BY <1>3 DEF RunInteracts, InteractAnswered, SidecarMeasures
  <2>2. RunTypes'
    BY <1>0, <1>3 DEF RunInteracts, InteractAnswered, SidecarMeasures, RunTypes, ApTypes
  <2> QED
    BY <1>0, <1>1, <2>1, <2>2
    DEF PTypeOK, ApTypes, DirTypes, MetricTypes, InitTypes, RunTypes, NetTypes, apVars, netVars
<1>4. CASE InteractKilled(r) \/ InteractExited(r) \/ DropsExecutor(r) \/ TakesInit(r)
  <2>1. metrics' = metrics /\ UNCHANGED netVars
    BY <1>4 DEF InteractKilled, InteractExited, DropsExecutor, TakesInit
  <2>2. RunTypes'
    BY <1>0, <1>4 DEF InteractKilled, InteractExited, DropsExecutor, TakesInit, RunTypes, ApTypes
  <2>3. ApTypes'
    BY <1>0, <1>4 DEF InteractKilled, InteractExited, DropsExecutor, TakesInit, RunTypes, ApTypes,
       WhileMeasuring, PendingTaken, Killed
  <2> QED
    BY <1>0, <1>1, <2>1, <2>2, <2>3
    DEF PTypeOK, ApTypes, DirTypes, MetricTypes, InitTypes, RunTypes, NetTypes, netVars
<1>5. CASE Measures(r)
  <2>1. metrics' = [metrics EXCEPT !.run = Added(metrics.run, r)]
    BY <1>0, <1>5 DEF Measures, MetricTypes
  <2>2. Added(metrics.run, r) \in Seq(Runs) /\ Len(Added(metrics.run, r)) <= MetricsLimit
    BY <1>0, AddedTrims DEF MetricTypes
  <2>3. MetricTypes'
    BY <1>0, <2>1, <2>2 DEF MetricTypes
  <2>4. RunTypes' /\ ApTypes' /\ NetTypes'
    BY <1>0, <1>5 DEF Measures, RunTypes, ApTypes, NetTypes, netVars
  <2> QED
    BY <1>1, <2>3, <2>4 DEF PTypeOK, ApTypes, DirTypes, MetricTypes, InitTypes, RunTypes, NetTypes
<1>6. ASSUME NEW how, NEW m \in Messages, NEW next \in {"push run", "drop", "respond"},
             Delivers(r, m, how, next), UNCHANGED apVars
      PROVE  PTypeOK'
  <2>1. RunTypes' /\ NetTypes'
    BY <1>0, <1>6, DeliversTypes
  <2> QED
    BY <1>0, <1>1, <1>6, <2>1
    DEF PTypeOK, ApTypes, DirTypes, MetricTypes, InitTypes, RunTypes, NetTypes, apVars
<1>7. ASSUME NEW how, PushesInit(r, how)
      PROVE  PTypeOK'
  <2>1. carried[r] \in Inits
    BY <1>0, <1>7 DEF PushesInit, Carriers, RunTypes
  <2> QED
    BY <1>6, <1>7, <2>1, PointTypes DEF PushesInit
<1>8. ASSUME NEW how, PushesRun(r, how) \/ PostsKilled(r, how)
      PROVE  PTypeOK'
  BY <1>6, <1>8, PointTypes DEF PushesRun, PostsKilled, AfterPush
<1> QED
  BY <1>2, <1>3, <1>4, <1>5, <1>7, <1>8 DEF RunStep, RunGoesOn, InteractReturns

----------------------------------------------------------------------------
(* What a step of one request leaves to the others.                        *)

(* An /init moves no other, and executors stay live.                       *)
LEMMA InitFrame ==
  ASSUME PTypeOK, NEW i \in Inits, InitStep(i)
  PROVE  /\ \A j \in Inits : j # i =>
                ipc'[j] = ipc[j] /\ cur'[j] = cur[j] /\ code'[j] = code[j]
         /\ \A j \in Inits :
                /\ Live(j) => Live(j)'
                /\ ipc[j] = "over" => ipc'[j] = "over"
<1>0. ApTypes /\ InitTypes
  BY TypesSplit
<1>1. CASE InitArrives(i) \/ InitLoads(i) \/ InitGivesUp(i)
  BY <1>0, <1>1 DEF InitArrives, InitLoads, InitGivesUp, ApTypes, InitTypes, Live, apVars
<1>2. CASE InitStarts(i)
  BY <1>0, <1>2 DEF InitStarts, ApTypes, InitTypes, Live
<1>3. CASE StartFails(i) \/ StartSucceeds(i)
  BY <1>0, <1>3 DEF StartFails, StartRefused, StartSucceeds, ApTypes, InitTypes, Live
<1>4. CASE StopKillsOld(i) \/ StopClosesOld(i)
  BY <1>0, <1>4 DEF StopKillsOld, Killed, StopClosesOld, ApTypes, InitTypes, Live
<1>5. CASE InitAnswers(i) \/ InitRecords(i) \/ ProcessDies(i)
  BY <1>0, <1>5 DEF InitAnswers, InitRecords, ProcessDies, initVars, ApTypes, InitTypes, Live
<1> QED
  BY <1>1, <1>2, <1>3, <1>4, <1>5 DEF InitStep, InitGoesOn

(* A /run moves no other; what is settled stays so; an executor is given   *)
(* up, never put in place.                                                 *)
LEMMA RunFrame ==
  ASSUME PTypeOK, NEW r \in Runs, RunStep(r)
  PROVE  /\ \A s \in Runs : s # r =>
                /\ rpc'[s] = rpc[s] /\ using'[s] = using[s] /\ fate'[s] = fate[s]
                /\ sidecarOn'[s] = sidecarOn[s] /\ measuredOn'[s] = measuredOn[s]
                /\ carried'[s] = carried[s]
         /\ received \subseteq received' /\ undelivered \subseteq undelivered'
         /\ theExecutor' \in {theExecutor, None}
<1>0. ApTypes /\ RunTypes
  BY TypesSplit
<1>1. CASE RunArrives(r) \/ RunChecksExit(r) \/ InteractPanics(r) \/ Responds(r)
  BY <1>0, <1>1 DEF RunArrives, RunChecksExit, InteractPanics, Responds, ApTypes, RunTypes,
     apVars, netVars
<1>2. CASE RunInteracts(r) \/ InteractAnswered(r) \/ SidecarMeasures(r)
  BY <1>0, <1>2 DEF RunInteracts, InteractAnswered, SidecarMeasures, ApTypes, RunTypes,
     apVars, netVars
<1>3. CASE InteractKilled(r) \/ InteractExited(r)
  BY <1>0, <1>3 DEF InteractKilled, Killed, InteractExited, WhileMeasuring, ApTypes, RunTypes,
     netVars
<1>4. CASE DropsExecutor(r) \/ TakesInit(r) \/ Measures(r)
  BY <1>0, <1>4 DEF DropsExecutor, TakesInit, Measures, ApTypes, RunTypes, netVars
<1>5. ASSUME NEW how, NEW m, NEW next, Delivers(r, m, how, next), UNCHANGED apVars
      PROVE  /\ \A s \in Runs : s # r =>
                    /\ rpc'[s] = rpc[s] /\ using'[s] = using[s] /\ fate'[s] = fate[s]
                    /\ sidecarOn'[s] = sidecarOn[s] /\ measuredOn'[s] = measuredOn[s]
                    /\ carried'[s] = carried[s]
             /\ received \subseteq received' /\ undelivered \subseteq undelivered'
             /\ proc' = proc /\ theExecutor' = theExecutor
  BY <1>0, <1>5 DEF Delivers, RunTypes, apVars
<1>6. CASE \E how \in Attempts :
               PushesInit(r, how) \/ PushesRun(r, how) \/ PostsKilled(r, how)
  BY <1>5, <1>6 DEF PushesInit, PushesRun, PostsKilled
<1> QED
  BY <1>1, <1>2, <1>3, <1>4, <1>6 DEF RunStep, RunGoesOn, InteractReturns

----------------------------------------------------------------------------
(* The steps of /init.                                                     *)

(* Without OW_DEBUG at most one executor was ever put in place.            *)
LEMMA OneLive ==
  ASSUME PTypeOK, OneInit, ~Debugging,
         NEW i \in Inits, NEW j \in Inits, Live(i), Live(j)
  PROVE  i = j
<1>1. \A k \in Inits : Live(k) => Answered(k) \/ k \in InitUnanswered
  BY DEF Live, Answered, InitUnanswered
<1>2. CASE Answered(i) /\ Answered(j)
  BY <1>2 DEF OneInit
<1>3. CASE i \in InitUnanswered /\ j \in InitUnanswered
  BY <1>3 DEF OneInit
<1>4. CASE (Answered(i) \/ Answered(j)) /\ InitUnanswered # {}
  BY <1>4 DEF OneInit
<1> QED
  BY <1>1, <1>2, <1>3, <1>4

(* The upload an /init starts is its own.                                  *)
LEMMA HighestIsOwn ==
  ASSUME PTypeOK, OwnCode, NEW i \in Inits, ipc[i] = "loaded"
  PROVE  highestDir = i
<1>1. \A j \in Inits : dirs[j] \in Nat
  <2>1. currentDir \in Nat /\ dirs \in [Inits -> 0 .. currentDir]
    BY TypesSplit DEF DirTypes
  <2> QED
    BY <2>1
<1>2. \A j \in Inits : j # i => dirs[j] < dirs[i]
  BY DEF OwnCode
<1>3. \A j \in Inits : dirs[j] <= dirs[i]
  BY <1>1, <1>2
<1>4. \A k \in Inits : (\A j \in Inits : dirs[j] <= dirs[k]) => k = i
  BY <1>1, <1>2
<1> QED
  BY <1>3, <1>4 DEF highestDir

LEMMA InitStepOneInit ==
  ASSUME PTypeOK, OneInit, NEW i \in Inits, InitStep(i)
  PROVE  OneInit'
<1>0. InitTypes /\ config' = config /\ (Debugging' <=> Debugging)
  BY TypesSplit, InitLeaves DEF Debugging
<1>1. CASE InitArrives(i)
  <2>1. initialized' = initialized /\ InitUnanswered = {}
    BY <1>1 DEF InitArrives, apVars
  <2>2. InitUnanswered' \subseteq {i} /\ (Forbidden => InitUnanswered' = {})
    BY <1>0, <1>1 DEF InitArrives, InitUnanswered, InitTypes
  <2>3. \A j \in Inits : Answered(j)' <=> Answered(j)
    BY <1>0, <1>1 DEF InitArrives, Answered, InitTypes
  <2> QED
    BY <1>0, <2>1, <2>2, <2>3 DEF OneInit, Forbidden
<1>2. CASE InitGoesOn(i) /\ ~InitAnswers(i)
  <2>1. /\ InitUnanswered' \subseteq InitUnanswered
        /\ \A j \in Inits : Answered(j)' <=> Answered(j)
        /\ initialized' = initialized
    <3>1. CASE InitLoads(i) \/ InitGivesUp(i) \/ InitStarts(i) \/ StartFails(i)
      BY <1>0, <3>1 DEF InitLoads, InitGivesUp, InitStarts, StartFails, InitUnanswered, Answered,
         InitTypes, apVars
    <3>2. CASE StartSucceeds(i) \/ StopKillsOld(i) \/ StopClosesOld(i) \/ InitRecords(i)
      BY <1>0, <3>2 DEF StartSucceeds, StopKillsOld, StopClosesOld, InitRecords, InitUnanswered,
         Answered, InitTypes
    <3> QED
      BY <1>2, <3>1, <3>2 DEF InitGoesOn
  <2> QED
    BY <1>0, <2>1 DEF OneInit
<1>3. CASE InitAnswers(i)
  <2>1. i \in InitUnanswered /\ initialized' = TRUE
    BY <1>3 DEF InitAnswers, InitUnanswered
  <2>2. InitUnanswered' = {}
    BY <1>0, <1>3, <2>1 DEF InitAnswers, InitUnanswered, InitTypes, OneInit
  <2>3. ~Debugging => \A j \in Inits : ~Answered(j)
    BY <2>1 DEF OneInit
  <2>4. \A j \in Inits : Answered(j)' => Answered(j) \/ j = i
    BY <1>0, <1>3 DEF InitAnswers, Answered, InitTypes
  <2> QED
    BY <1>0, <2>1, <2>2, <2>3, <2>4 DEF OneInit
<1>4. CASE ProcessDies(i)
  BY <1>0, <1>4 DEF ProcessDies, initVars, OneInit, InitUnanswered, Answered
<1> QED
  BY <1>1, <1>2, <1>3, <1>4 DEF InitStep

LEMMA InitStepOwnCode ==
  ASSUME PTypeOK, OneInit, OwnCode, NEW i \in Inits, InitStep(i)
  PROVE  OwnCode'
<1>0. DirTypes /\ InitTypes
  BY TypesSplit
<1>1. CASE InitLoads(i)
  <2>1. code' = code /\ \A j \in Inits : j # i => ipc'[j] = ipc[j]
    BY <1>0, <1>1 DEF InitLoads, InitTypes
  <2>2. \A j \in Inits : ipc[j] \in {"loaded", "starting"} => j = i
    BY <1>1 DEF OneInit, InitUnanswered, InitLoads
  <2>3. ipc'[i] \in {"failed", "loaded"}
    BY <1>0, <1>1 DEF InitLoads, InitTypes
  <2>4. ASSUME ipc'[i] = "loaded"
        PROVE  dirs'[i] = currentDir' /\ \A j \in Inits : j # i => dirs'[j] < dirs'[i]
    <3>1. currentDir' = currentDir + 1 /\ dirs' = [dirs EXCEPT ![i] = currentDir']
      BY <1>0, <1>1, <2>4 DEF InitLoads, InitTypes
    <3>2. dirs'[i] = currentDir + 1 /\ \A j \in Inits : j # i => dirs'[j] = dirs[j]
      BY <1>0, <3>1 DEF DirTypes
    <3>3. currentDir \in Nat /\ \A j \in Inits : dirs[j] \in 0 .. currentDir
      BY <1>0 DEF DirTypes
    <3> QED
      BY <3>1, <3>2, <3>3
  <2> QED
    BY <2>1, <2>2, <2>3, <2>4 DEF OwnCode
<1>2. CASE InitStarts(i)
  <2>1. highestDir = i
    BY <1>2, HighestIsOwn DEF InitStarts
  <2>2. ipc' = [ipc EXCEPT ![i] = "starting"] /\ code' = [code EXCEPT ![i] = i] /\ UNCHANGED dirVars
    BY <1>2, <2>1 DEF InitStarts
  <2> QED
    BY <1>0, <2>2 DEF OwnCode, InitTypes, dirVars
<1>3. CASE StartFails(i)
  <2>1. \A j \in Inits : ipc'[j] # "loaded" /\ ipc'[j] # "starting"
    BY <1>0, <1>3 DEF OneInit, InitUnanswered, StartFails, InitTypes
  <2>2. code' = code
    BY <1>3 DEF StartFails
  <2> QED
    BY <2>1, <2>2 DEF OwnCode
<1>4. CASE ~InitLoads(i) /\ ~InitStarts(i) /\ ~StartFails(i)
  <2>1. UNCHANGED dirVars /\ code' = code
    BY <1>4 DEF InitStep, InitGoesOn, InitArrives, InitGivesUp, StartSucceeds, StopKillsOld,
       StopClosesOld, InitAnswers, InitRecords, ProcessDies, apVars, initVars
  <2>2. \A j \in Inits : ipc'[j] \in {"loaded", "starting"} => ipc'[j] = ipc[j]
    <3>1. CASE InitArrives(i) \/ InitGivesUp(i) \/ StartSucceeds(i) \/ StopKillsOld(i)
      BY <1>0, <3>1 DEF InitArrives, InitGivesUp, StartSucceeds, StopKillsOld, InitTypes
    <3>2. CASE StopClosesOld(i) \/ InitAnswers(i) \/ InitRecords(i) \/ ProcessDies(i)
      BY <1>0, <3>2 DEF StopClosesOld, InitAnswers, InitRecords, ProcessDies, InitTypes, initVars
    <3> QED
      BY <1>4, <3>1, <3>2 DEF InitStep, InitGoesOn
  <2> QED
    BY <2>1, <2>2 DEF OwnCode, dirVars
<1> QED
  BY <1>1, <1>2, <1>3, <1>4

LEMMA InitStepExecutors ==
  ASSUME PTypeOK, OneInit, Executors, NEW i \in Inits, InitStep(i)
  PROVE  Executors'
<1>0. ApTypes /\ InitTypes /\ RunTypes /\ (Debugging' <=> Debugging) /\ using' = using
  BY TypesSplit, InitLeaves DEF Debugging, runVars
<1>1. \A r \in Runs : using'[r] # None => Live(using[r])'
  <2> SUFFICES ASSUME NEW r \in Runs, using[r] # None
               PROVE  Live(using[r])'
    BY <1>0
  <2>1. using[r] \in Inits /\ Live(using[r])
    BY <1>0 DEF Executors, RunTypes
  <2> QED
    BY <1>0, <2>1, InitFrame DEF Live
<1>2. CASE InitStarts(i)
  <2>1. ASSUME theExecutor # None
        PROVE  Debugging
    <3>1. theExecutor \in Inits /\ Live(theExecutor) /\ ~Live(i)
      BY <1>0, <1>2, <2>1 DEF Executors, ApTypes, InitStarts, Live
    <3>2. Answered(theExecutor)
      BY <1>2, <3>1 DEF OneInit, InitUnanswered, InitStarts, Live, Answered
    <3> QED
      BY <1>2, <3>1, <3>2 DEF OneInit, InitUnanswered, InitStarts
  <2>2. theExecutor' = theExecutor /\ closed' = closed
        /\ cur' = [cur EXCEPT ![i] = theExecutor] /\ ipc' = [ipc EXCEPT ![i] = "starting"]
    BY <1>2 DEF InitStarts
  <2>3. theExecutor' # None => Live(theExecutor)'
    BY <1>0, <2>2, InitFrame DEF Executors, ApTypes
  <2> QED
    BY <1>0, <1>1, <2>1, <2>2, <2>3 DEF Executors, InitTypes
<1>3. CASE StartSucceeds(i)
  <2>1. theExecutor' = i /\ closed' = closed /\ cur' = cur
        /\ ipc' = [ipc EXCEPT ![i] = IF cur[i] = None THEN "started" ELSE "stopping"]
    BY <1>3 DEF StartSucceeds
  <2>2. Live(theExecutor)'
    BY <1>0, <2>1 DEF InitTypes, Live
  <2> QED
    BY <1>0, <1>1, <2>1, <2>2 DEF Executors, InitTypes
<1>4. CASE StopClosesOld(i)
  <2>1. theExecutor' = theExecutor /\ cur' = cur /\ ipc' = [ipc EXCEPT ![i] = "started"]
    BY <1>4 DEF StopClosesOld
  <2>2. Debugging
    BY <1>4 DEF StopClosesOld, Executors
  <2>3. theExecutor' # None => Live(theExecutor)'
    BY <1>0, <2>1, InitFrame DEF Executors, ApTypes
  <2> QED
    BY <1>0, <1>1, <2>1, <2>2, <2>3 DEF Executors, InitTypes
<1>5. CASE ~InitStarts(i) /\ ~StartSucceeds(i) /\ ~StopClosesOld(i)
  <2>1. theExecutor' = theExecutor /\ closed' = closed /\ cur' = cur
    BY <1>5 DEF InitStep, InitGoesOn, InitArrives, InitLoads, InitGivesUp, StartFails,
       StopKillsOld, InitAnswers, InitRecords, ProcessDies, apVars, initVars
  <2>2. \A j \in Inits : ipc'[j] \in {"stopping", "closing"} => ipc[j] \in {"stopping", "closing"}
    <3>1. CASE InitArrives(i) \/ InitLoads(i) \/ InitGivesUp(i) \/ StartFails(i)
      BY <1>0, <3>1 DEF InitArrives, InitLoads, InitGivesUp, StartFails, InitTypes
    <3>2. CASE StopKillsOld(i) \/ InitAnswers(i) \/ InitRecords(i) \/ ProcessDies(i)
      BY <1>0, <3>2 DEF StopKillsOld, InitAnswers, InitRecords, ProcessDies, InitTypes, initVars
    <3> QED
      BY <1>5, <3>1, <3>2 DEF InitStep, InitGoesOn
  <2>3. theExecutor' # None => Live(theExecutor)'
    BY <1>0, <2>1, InitFrame DEF Executors, ApTypes
  <2> QED
    BY <1>0, <1>1, <2>1, <2>2, <2>3 DEF Executors
<1> QED
  BY <1>2, <1>3, <1>4, <1>5

LEMMA InitStepRunPhases ==
  ASSUME PTypeOK, Executors, RunPhases, NEW i \in Inits, InitStep(i)
  PROVE  RunPhases'
<1>0. RunTypes /\ UNCHANGED runVars
  BY TypesSplit, InitLeaves
<1> QED
  BY <1>0 DEF RunPhases, RunPhase, runVars

(* The entry of an /init reaches pending when the /init is over.           *)
LEMMA PendingStep ==
  ASSUME PTypeOK, NEW i \in Inits, InitStep(i)
  PROVE  \/ InitRecords(i) /\ pending' = i /\ ipc[i] = "ok" /\ ipc'[i] = "over"
         \/ pending' = pending /\ \A j \in Inits : ipc'[j] = "over" => ipc[j] = "over"
<1>0. InitTypes
  BY TypesSplit
<1>1. CASE InitRecords(i)
  BY <1>0, <1>1 DEF InitRecords, InitTypes
<1>2. CASE InitArrives(i) \/ InitLoads(i) \/ InitGivesUp(i) \/ InitStarts(i)
  BY <1>0, <1>2 DEF InitArrives, InitLoads, InitGivesUp, InitStarts, InitTypes, apVars
<1>3. CASE StartFails(i) \/ StartSucceeds(i) \/ StopKillsOld(i)
  BY <1>0, <1>3 DEF StartFails, StartSucceeds, StopKillsOld, InitTypes
<1>4. CASE StopClosesOld(i) \/ InitAnswers(i) \/ ProcessDies(i)
  BY <1>0, <1>4 DEF StopClosesOld, InitAnswers, ProcessDies, InitTypes, initVars
<1> QED
  BY <1>1, <1>2, <1>3, <1>4 DEF InitStep, InitGoesOn

LEMMA InitStepCarriers ==
  ASSUME PTypeOK, OneInit, Carriers, InitPointConserved, NEW i \in Inits, InitStep(i)
  PROVE  Carriers' /\ InitPointConserved'
<1>0. ApTypes /\ RunTypes /\ UNCHANGED runVars /\ UNCHANGED netVars /\ (Debugging' <=> Debugging)
  BY TypesSplit, InitLeaves DEF Debugging
<1>1. Carriers'
  <2>1. CASE pending' = i /\ ipc[i] = "ok" /\ ipc'[i] = "over"
    <3>1. \A r \in Runs : carried[r] # i
      BY <2>1, ActionProxyAssumption DEF ActionProxyAssumption, Carriers
    <3> QED
      BY <1>0, <2>1, <3>1, InitFrame DEF Carriers, RunTypes, runVars, netVars
  <2>2. CASE pending' = pending
    <3>1. pending # None => ipc'[pending] = "over"
      BY <1>0, InitFrame DEF Carriers, ApTypes
    <3>2. \A r \in Runs : carried[r] # None => ipc'[carried[r]] = "over"
      <4>1. \A r \in Runs : carried[r] # None => carried[r] \in Inits /\ ipc[carried[r]] = "over"
        BY <1>0 DEF Carriers, RunTypes
      <4> QED
        BY <4>1, InitFrame
    <3> QED
      BY <1>0, <2>2, <3>1, <3>2 DEF Carriers, runVars, netVars
  <2> QED
    BY <2>1, <2>2, PendingStep
<1>2. InitPointConserved'
  <2>1. CASE pending' = i /\ ipc[i] = "ok" /\ ipc'[i] = "over"
    <3>1. ~Debugging => \A j \in Inits : ipc'[j] = "over" => j = i
      BY <2>1, InitFrame DEF OneInit, Answered
    <3> QED
      BY <1>0, <2>1, <3>1 DEF InitPointConserved
  <2>2. CASE pending' = pending /\ \A j \in Inits : ipc'[j] = "over" => ipc[j] = "over"
    BY <1>0, <2>2 DEF InitPointConserved, Settled, runVars, netVars
  <2> QED
    BY <2>1, <2>2, PendingStep
<1> QED
  BY <1>1, <1>2

LEMMA InitStepDeliveries ==
  ASSUME DeliveriesInOrder, NEW i \in Inits, InitStep(i)
  PROVE  DeliveriesInOrder'
  BY InitLeaves DEF DeliveriesInOrder, Deliveries, PushedInit, Pushed, Announced, Settled,
     runVars, netVars

LEMMA InitStepAlone ==
  ASSUME PTypeOK, Alone, NEW i \in Inits, InitStep(i)
  PROVE  Alone'
<1>1. config' = config /\ UNCHANGED runVars
  BY InitLeaves
<1>2. theExecutor' \in {theExecutor, i} /\ i # None
  BY ActionProxyAssumption
  DEF ActionProxyAssumption, InitStep, InitGoesOn, InitArrives, InitLoads, InitGivesUp,
     InitStarts, StartFails, StartSucceeds, StopKillsOld, StopClosesOld, InitAnswers,
     InitRecords, ProcessDies, apVars
<1> QED
  BY <1>1, <1>2 DEF Alone, OneRunOneExecutor, Concurrency, Debugging, Active, runVars

LEMMA InitStepInv ==
  ASSUME PInv, NEW i \in Inits, InitStep(i)
  PROVE  PInv'
  BY InitStepTypes, InitStepOneInit, InitStepOwnCode, InitStepExecutors, InitStepRunPhases,
     InitStepCarriers, InitStepDeliveries, InitStepAlone DEF PInv

----------------------------------------------------------------------------
(* The steps of /run.                                                      *)

(* An attempt leaves the run where it is, or ends the delivery with the    *)
(* message delivered or given up.                                          *)
LEMMA DeliversMoves ==
  ASSUME NEW r \in Runs, NEW m, NEW how \in Attempts, NEW next, Delivers(r, m, how, next)
  PROVE  /\ UNCHANGED <<using, fate, sidecarOn, measuredOn, carried>>
         /\ received' \union undelivered' \subseteq received \union undelivered \union {m}
         /\ \/ rpc' = [rpc EXCEPT ![r] = rpc[r]]
            \/ rpc' = [rpc EXCEPT ![r] = next] /\ m \in received' \union undelivered'
<1>1. CASE LastAttempt(r, how)
  BY <1>1 DEF Delivers, Attempts
<1>2. CASE ~LastAttempt(r, how)
  BY <1>2 DEF Delivers
<1> QED
  BY <1>1, <1>2

(* The deliveries of a run; in any other step the messages stay.           *)
Pushing(r, m, next) ==
    /\ UNCHANGED apVars
    /\ UNCHANGED <<using, fate, sidecarOn, measuredOn, carried>>
    /\ received' \union undelivered' \subseteq received \union undelivered \union {m}
    /\ \/ rpc' = [rpc EXCEPT ![r] = rpc[r]]
       \/ rpc' = [rpc EXCEPT ![r] = next] /\ m \in received' \union undelivered'

PushStep(r) ==
    \/ rpc[r] = "push init" /\ Pushing(r, InitPoint(carried[r], r), "push run")
    \/ rpc[r] = "push run" /\ Pushing(r, RunPoint(r), AfterPush(r))
    \/ rpc[r] = "post" /\ Pushing(r, KilledEvent(r), "respond")

QuietStep(r) ==
    \/ RunArrives(r) \/ RunChecksExit(r) \/ RunInteracts(r) \/ InteractReturns(r)
    \/ SidecarMeasures(r) \/ Measures(r) \/ TakesInit(r) \/ DropsExecutor(r) \/ Responds(r)

LEMMA RunStepSplits ==
  ASSUME NEW r \in Runs, RunStep(r)
  PROVE  \/ PushStep(r)
         \/ QuietStep(r) /\ UNCHANGED netVars
<1>1. ASSUME NEW how \in Attempts, PushesInit(r, how)
      PROVE  PushStep(r)
  BY <1>1, DeliversMoves DEF PushesInit, PushStep, Pushing
<1>2. ASSUME NEW how \in Attempts, PushesRun(r, how)
      PROVE  PushStep(r)
  BY <1>2, DeliversMoves DEF PushesRun, PushStep, Pushing
<1>3. ASSUME NEW how \in Attempts, PostsKilled(r, how)
      PROVE  PushStep(r)
  BY <1>3, DeliversMoves DEF PostsKilled, PushStep, Pushing
<1>4. QuietStep(r) => UNCHANGED netVars
  BY DEF QuietStep, InteractReturns, RunArrives, RunChecksExit, RunInteracts, InteractKilled,
     InteractExited, InteractAnswered, InteractPanics, SidecarMeasures, Measures, TakesInit,
     DropsExecutor, Responds
<1> QED
  BY <1>1, <1>2, <1>3, <1>4 DEF RunStep, RunGoesOn, QuietStep

LEMMA RunStepInits ==
  ASSUME OneInit, OwnCode, NEW r \in Runs, RunStep(r)
  PROVE  OneInit' /\ OwnCode'
  BY RunLeaves DEF OneInit, OwnCode, InitUnanswered, Answered, Debugging, initVars, dirVars

LEMMA RunStepExecutors ==
  ASSUME PTypeOK, Executors, NEW r \in Runs, RunStep(r)
  PROVE  Executors'
<1>0. RunTypes /\ (Debugging' <=> Debugging) /\ UNCHANGED initVars /\ closed' = closed
  BY TypesSplit, RunLeaves DEF Debugging
<1>1. using'[r] \in {using[r], theExecutor}
  <2>1. CASE RunInteracts(r)
    BY <1>0, <2>1 DEF RunInteracts, RunTypes
  <2>2. CASE ~RunInteracts(r)
    BY <2>2, RunStepSplits DEF PushStep, Pushing, QuietStep, InteractReturns, RunArrives,
       RunChecksExit, InteractKilled, InteractExited, InteractAnswered, InteractPanics,
       SidecarMeasures, Measures, TakesInit, DropsExecutor, Responds
  <2> QED
    BY <2>1, <2>2
<1>2. \A s \in Runs : using'[s] # None => Live(using'[s])
  BY <1>1, RunFrame DEF Executors
<1>3. theExecutor' # None => Live(theExecutor')
  BY RunFrame DEF Executors
<1> QED
  BY <1>0, <1>2, <1>3 DEF Executors, Live, initVars

LEMMA RunStepPhases ==
  ASSUME PTypeOK, RunPhases, NEW r \in Runs, RunStep(r)
  PROVE  RunPhases'
<1>0. ApTypes /\ RunTypes
  BY TypesSplit
<1>1. ASSUME NEW s \in Runs, s # r
      PROVE  RunPhase(s)'
  <2>1. RunPhase(s)
    BY DEF RunPhases
  <2> QED
    BY <1>1, <2>1, RunFrame DEF RunPhase
<1>2. RunPhase(r)'
  <2>0. RunPhase(r)
    BY DEF RunPhases
  <2>1. CASE PushStep(r)
    BY <1>0, <2>0, <2>1 DEF PushStep, Pushing, AfterPush, RunPhase, RunTypes, apVars,
       Entering, Measuring, Delivering
  <2>2. CASE RunArrives(r) \/ InteractPanics(r) \/ Responds(r)
    BY <1>0, <2>0, <2>2 DEF RunArrives, InteractPanics, Responds, RunPhase, RunTypes, apVars,
       Entering, Measuring, Delivering
  <2>3. CASE RunChecksExit(r)
    <3>1. \E v \in {"panic", "over", "ready"} : rpc' = [rpc EXCEPT ![r] = v]
      BY <2>3 DEF RunChecksExit
    <3>2. rpc[r] = "accepted" /\ UNCHANGED <<using, fate, sidecarOn, proc>>
      BY <2>3 DEF RunChecksExit, apVars
    <3> QED
      BY <1>0, <2>0, <3>1, <3>2 DEF RunPhase, RunTypes, Entering, Measuring, Delivering
  <2>4. CASE RunInteracts(r) \/ InteractAnswered(r) \/ SidecarMeasures(r)
    BY <1>0, <2>0, <2>4 DEF RunInteracts, InteractAnswered, Inside, SidecarMeasures, RunPhase,
       RunTypes, apVars, Entering, Measuring, Delivering
  <2>5. CASE InteractKilled(r) \/ InteractExited(r)
    <3>1. rpc[r] = "inside" /\ using' = using /\ sidecarOn' = sidecarOn /\ using[r] \in Inits
      BY <1>0, <2>0, <2>5 DEF InteractKilled, InteractExited, Inside, RunPhase, RunTypes
    <3>2. CASE InteractKilled(r)
      <4>1. rpc'[r] = "measure" /\ fate'[r] = "killed"
        BY <1>0, <3>1, <3>2 DEF InteractKilled, RunTypes, ApTypes
      <4> QED
        BY <2>0, <3>1, <4>1, ActionProxyAssumption
        DEF ActionProxyAssumption, RunPhase, Entering, Measuring, Delivering
    <3>3. CASE InteractExited(r)
      <4>1. rpc'[r] = "over" /\ fate'[r] = "exited"
        BY <1>0, <3>3 DEF InteractExited, RunTypes
      <4> QED
        BY <2>0, <4>1 DEF RunPhase, Entering, Measuring, Delivering
    <3> QED
      BY <2>5, <3>2, <3>3
  <2>6. CASE Measures(r) \/ TakesInit(r) \/ DropsExecutor(r)
    BY <1>0, <2>0, <2>6 DEF Measures, TakesInit, DropsExecutor, RunPhase, RunTypes,
       Entering, Measuring, Delivering
  <2> QED
    BY <2>1, <2>2, <2>3, <2>4, <2>5, <2>6, RunStepSplits DEF QuietStep, InteractReturns
<1> QED
  BY <1>1, <1>2 DEF RunPhases

(* Only the step that takes the pending entry moves it.                    *)
LEMMA EntryStays ==
  ASSUME PTypeOK, NEW r \in Runs, RunStep(r), ~TakesInit(r)
  PROVE  /\ pending' = pending /\ carried' = carried
         /\ LET before == Entering \union {"inside", "take"} \union Measuring
            IN rpc'[r] \in before => rpc[r] \in before
         /\ rpc'[r] = "push init" => rpc[r] = "push init"
<1>0. RunTypes
  BY TypesSplit
<1>1. CASE PushStep(r)
  BY <1>0, <1>1 DEF PushStep, Pushing, AfterPush, RunTypes, apVars, Entering, Measuring
<1>2. CASE RunArrives(r) \/ InteractPanics(r) \/ Responds(r) \/ RunInteracts(r)
  BY <1>0, <1>2 DEF RunArrives, InteractPanics, Responds, RunInteracts, RunTypes, apVars,
     Entering, Measuring
<1>3. CASE RunChecksExit(r)
  <2>1. \E v \in {"panic", "over", "ready"} : rpc' = [rpc EXCEPT ![r] = v]
    BY <1>3 DEF RunChecksExit
  <2>2. rpc[r] = "accepted" /\ UNCHANGED <<pending, carried>>
    BY <1>3 DEF RunChecksExit, apVars
  <2> QED
    BY <1>0, <2>1, <2>2 DEF RunTypes, Entering
<1>4. CASE InteractKilled(r) \/ InteractExited(r) \/ InteractAnswered(r)
  BY <1>0, <1>4 DEF InteractKilled, InteractExited, InteractAnswered, Inside, RunTypes, apVars,
     Entering, Measuring
<1>5. CASE SidecarMeasures(r) \/ Measures(r) \/ DropsExecutor(r)
  BY <1>0, <1>5 DEF SidecarMeasures, Measures, DropsExecutor, RunTypes, apVars, Entering,
     Measuring
<1> QED
  BY <1>1, <1>2, <1>3, <1>4, <1>5, RunStepSplits DEF QuietStep, InteractReturns

(* What the step that takes it does.                                       *)
LEMMA EntryTaken ==
  ASSUME PTypeOK, Carriers, NEW r \in Runs, TakesInit(r)
  PROVE  /\ carried[r] = None /\ carried'[r] = pending /\ pending' = None
         /\ rpc'[r] = IF pending = None THEN "push run" ELSE "push init"
         /\ UNCHANGED netVars
         /\ UNCHANGED initVars
<1>0. RunTypes
  BY TypesSplit
<1> QED
  BY <1>0 DEF TakesInit, PendingTaken, Carriers, RunTypes

LEMMA RunStepCarriers ==
  ASSUME PTypeOK, Carriers, NEW r \in Runs, RunStep(r)
  PROVE  Carriers'
<1>0. ApTypes /\ RunTypes /\ NetTypes /\ UNCHANGED initVars
  BY TypesSplit, RunLeaves
<1>1. CASE TakesInit(r)
  <2>1. /\ carried[r] = None /\ carried'[r] = pending /\ pending' = None
        /\ rpc'[r] = IF pending = None THEN "push run" ELSE "push init"
        /\ UNCHANGED netVars /\ ipc' = ipc
    BY <1>1, EntryTaken DEF initVars
  <2>2. \A s \in Runs : s # r => carried'[s] = carried[s] /\ rpc'[s] = rpc[s]
    BY RunFrame
  <2>3. \A s \in Runs :
           /\ carried'[s] # None => ipc'[carried'[s]] = "over" /\ carried'[s] # pending'
           /\ rpc'[s] \in Entering \union {"inside", "take"} \union Measuring =>
                  carried'[s] = None
           /\ rpc'[s] = "push init" => carried'[s] # None
    BY <2>1, <2>2 DEF Carriers, Entering, Measuring
  <2>4. \A s, t \in Runs : carried'[s] = carried'[t] /\ carried'[s] # None => s = t
    BY <2>1, <2>2 DEF Carriers
  <2>5. ASSUME NEW m \in received' \union undelivered', m.kind = "/init"
        PROVE  carried'[m.run] = m.of
    <3>1. m \in received \union undelivered /\ m \in Messages
      BY <1>0, <2>1 DEF netVars, NetTypes
    <3>2. m.of \in Inits /\ m.run \in Runs
      BY <2>5, <3>1 DEF Messages
    <3>3. carried[m.run] = m.of
      BY <2>5, <3>1 DEF Carriers
    <3>4. m.run # r
      BY <2>1, <3>2, <3>3, ActionProxyAssumption DEF ActionProxyAssumption
    <3> QED
      BY <2>2, <3>2, <3>3, <3>4
  <2> QED
    BY <2>1, <2>3, <2>4, <2>5 DEF Carriers
<1>2. CASE ~TakesInit(r)
  <2>1. pending' = pending /\ carried' = carried /\ ipc' = ipc
    BY <1>0, <1>2, EntryStays DEF initVars
  <2>2. \A s \in Runs :
           /\ rpc'[s] \in Entering \union {"inside", "take"} \union Measuring =>
                  carried[s] = None
           /\ rpc'[s] = "push init" => carried[s] # None
    <3>1. ASSUME NEW s \in Runs, s = r
          PROVE  /\ rpc'[s] \in Entering \union {"inside", "take"} \union Measuring =>
                        carried[s] = None
                 /\ rpc'[s] = "push init" => carried[s] # None
      BY <1>2, <3>1, EntryStays DEF Carriers
    <3>2. \A s \in Runs : s # r => rpc'[s] = rpc[s]
      BY RunFrame
    <3> QED
      BY <3>1, <3>2 DEF Carriers
  <2>3. ASSUME NEW m \in received' \union undelivered', m.kind = "/init"
        PROVE  carried[m.run] = m.of
    <3>1. \/ m \in received \union undelivered
          \/ m \in {InitPoint(carried[r], r), RunPoint(r), KilledEvent(r)}
      BY RunStepSplits DEF PushStep, Pushing, netVars
    <3>2. CASE m \in received \union undelivered
      BY <2>3, <3>2 DEF Carriers
    <3>3. CASE m = InitPoint(carried[r], r)
      BY <3>3 DEF InitPoint
    <3>4. CASE m = RunPoint(r) \/ m = KilledEvent(r)
      BY <2>3, <3>4 DEF RunPoint, KilledEvent
    <3> QED
      BY <3>1, <3>2, <3>3, <3>4
  <2> QED
    BY <2>1, <2>2, <2>3 DEF Carriers
<1> QED
  BY <1>1, <1>2

LEMMA RunStepConserved ==
  ASSUME PTypeOK, Carriers, InitPointConserved, NEW r \in Runs, RunStep(r)
  PROVE  InitPointConserved'
<1>0. RunTypes /\ (Debugging' <=> Debugging) /\ UNCHANGED initVars
  BY TypesSplit, RunLeaves DEF Debugging
<1> SUFFICES ASSUME NEW i \in Inits, ipc[i] = "over", ~Debugging
             PROVE  \/ pending' = i
                    \/ \E s \in Runs :
                           /\ carried'[s] = i
                           /\ rpc'[s] = "push init" \/ Settled(InitPoint(i, s))'
  BY <1>0 DEF InitPointConserved, initVars
<1>1. i # None
  BY ActionProxyAssumption DEF ActionProxyAssumption
<1>2. CASE pending = i
  <2>1. CASE TakesInit(r)
    BY <1>1, <1>2, <2>1, EntryTaken
  <2>2. CASE ~TakesInit(r)
    BY <1>2, <2>2, EntryStays
  <2> QED
    BY <2>1, <2>2
<1>3. CASE pending # i
  <2>1. PICK s \in Runs :
            carried[s] = i /\ (rpc[s] = "push init" \/ Settled(InitPoint(i, s)))
    BY <1>3 DEF InitPointConserved
  <2>2. Settled(InitPoint(i, s)) => Settled(InitPoint(i, s))'
    BY RunFrame DEF Settled
  <2>3. CASE s # r
    BY <2>1, <2>2, <2>3, RunFrame
  <2>4. CASE s = r
    <3>1. ~TakesInit(r)
      BY <1>1, <2>1, <2>4, EntryTaken
    <3>2. carried'[r] = i
      BY <2>1, <2>4, <3>1, EntryStays
    <3>3. CASE rpc[r] = "push init"
      <4>1. Pushing(r, InitPoint(i, r), "push run")
        BY <2>1, <2>4, <3>3, RunStepSplits DEF PushStep, QuietStep, InteractReturns, RunArrives,
           RunChecksExit, RunInteracts, InteractKilled, InteractExited, InteractAnswered, Inside,
           InteractPanics, SidecarMeasures, Measures, TakesInit, DropsExecutor, Responds
      <4>2. rpc'[r] = "push init" \/ Settled(InitPoint(i, r))'
        <5>1. CASE rpc' = [rpc EXCEPT ![r] = rpc[r]]
          BY <1>0, <3>3, <5>1 DEF RunTypes
        <5>2. CASE InitPoint(i, r) \in received' \union undelivered'
          BY <5>2 DEF Settled, InitPoint
        <5> QED
          BY <4>1, <5>1, <5>2 DEF Pushing
      <4> QED
        BY <3>2, <4>2
    <3> QED
      BY <2>1, <2>2, <2>4, <3>2, <3>3
  <2> QED
    BY <2>3, <2>4
<1> QED
  BY <1>2, <1>3

LEMMA RunStepDeliveries ==
  ASSUME PTypeOK, RunPhases, DeliveriesInOrder, NEW r \in Runs, RunStep(r)
  PROVE  DeliveriesInOrder'
<1>0. RunTypes
  BY TypesSplit
<1>1. ASSUME NEW m, Settled(m)
      PROVE  m \in received' \union undelivered'
  BY <1>1, RunFrame DEF Settled
<1>2. ASSUME NEW s \in Runs, s # r
      PROVE  Deliveries(s)'
  <2>1. rpc'[s] = rpc[s] /\ fate'[s] = fate[s] /\ carried'[s] = carried[s]
    BY <1>2, RunFrame
  <2>2. KilledEvent(s) \in received' \union undelivered' =>
            KilledEvent(s) \in received \union undelivered
    <3>1. received' \union undelivered' \subseteq
              received \union undelivered
                  \union {InitPoint(carried[r], r), RunPoint(r), KilledEvent(r)}
      BY RunStepSplits DEF PushStep, Pushing, netVars
    <3>2. KilledEvent(s) \notin {InitPoint(carried[r], r), RunPoint(r), KilledEvent(r)}
      BY <1>2 DEF InitPoint, RunPoint, KilledEvent
    <3> QED
      BY <3>1, <3>2
  <2>3. /\ Settled(InitPoint(carried[s], s)) =>
               InitPoint(carried[s], s) \in received' \union undelivered'
        /\ Settled(RunPoint(s)) => RunPoint(s) \in received' \union undelivered'
        /\ Settled(KilledEvent(s)) => KilledEvent(s) \in received' \union undelivered'
    BY <1>1
  <2>4. Deliveries(s)
    BY DEF DeliveriesInOrder
  <2> QED
    BY <2>1, <2>2, <2>3, <2>4
    DEF Deliveries, PushedInit, Pushed, Announced, Settled, InitPoint, RunPoint, KilledEvent
<1>3. Deliveries(r)'
  <2>0. Deliveries(r) /\ RunPhase(r)
    BY DEF DeliveriesInOrder, RunPhases
  <2>1. CASE rpc[r] = "push init" /\ Pushing(r, InitPoint(carried[r], r), "push run")
    <3>1. fate' = fate /\ carried' = carried
      BY <2>1 DEF Pushing
    <3>2. KilledEvent(r) \notin received' \union undelivered'
      <4>1. KilledEvent(r) \notin received \union undelivered
        BY <2>0, <2>1 DEF Deliveries, Settled
      <4>2. KilledEvent(r) # InitPoint(carried[r], r)
        BY DEF KilledEvent, InitPoint
      <4> QED
        BY <2>1, <4>1, <4>2 DEF Pushing
    <3>3. \/ rpc'[r] = "push init"
          \/ rpc'[r] = "push run" /\ InitPoint(carried[r], r) \in received' \union undelivered'
      BY <1>0, <2>1 DEF Pushing, RunTypes
    <3> QED
      BY <3>1, <3>2, <3>3
      DEF Deliveries, PushedInit, Pushed, Announced, Settled, InitPoint, KilledEvent
  <2>2. CASE rpc[r] = "push run" /\ Pushing(r, RunPoint(r), AfterPush(r))
    <3>1. fate' = fate /\ carried' = carried
      BY <2>2 DEF Pushing
    <3>2. KilledEvent(r) \notin received' \union undelivered'
      <4>1. KilledEvent(r) \notin received \union undelivered
        BY <2>0, <2>2 DEF Deliveries, Settled
      <4>2. KilledEvent(r) # RunPoint(r)
        BY DEF KilledEvent, RunPoint
      <4> QED
        BY <2>2, <4>1, <4>2 DEF Pushing
    <3>3. carried[r] # None => InitPoint(carried[r], r) \in received' \union undelivered'
      BY <1>1, <2>0, <2>2 DEF Deliveries, PushedInit
    <3>4. \/ rpc'[r] = "push run"
          \/ /\ rpc'[r] = IF fate[r] = "killed" THEN "drop" ELSE "respond"
             /\ RunPoint(r) \in received' \union undelivered'
      BY <1>0, <2>2 DEF Pushing, RunTypes, AfterPush
    <3> QED
      BY <3>1, <3>2, <3>3, <3>4
      DEF Deliveries, PushedInit, Pushed, Announced, Settled, InitPoint, RunPoint, KilledEvent
  <2>3. CASE rpc[r] = "post" /\ Pushing(r, KilledEvent(r), "respond")
    <3>1. fate' = fate /\ carried' = carried /\ fate[r] = "killed"
      BY <2>0, <2>3 DEF Pushing, RunPhase
    <3>2. /\ carried[r] # None => InitPoint(carried[r], r) \in received' \union undelivered'
          /\ RunPoint(r) \in received' \union undelivered'
      BY <1>1, <2>0, <2>3 DEF Deliveries, PushedInit, Pushed
    <3>3. \/ rpc'[r] = "post"
          \/ rpc'[r] = "respond" /\ KilledEvent(r) \in received' \union undelivered'
      BY <1>0, <2>3 DEF Pushing, RunTypes
    <3> QED
      BY <3>1, <3>2, <3>3
      DEF Deliveries, PushedInit, Pushed, Announced, Settled, InitPoint, RunPoint, KilledEvent
  <2>4. CASE QuietStep(r) /\ UNCHANGED netVars
    <3>1. received' = received /\ undelivered' = undelivered
      BY <2>4 DEF netVars
    <3>2. CASE DropsExecutor(r) \/ Responds(r)
      <4>1. /\ fate' = fate /\ carried' = carried
            /\ \/ rpc[r] = "drop" /\ rpc'[r] = "post"
               \/ rpc[r] = "respond" /\ rpc'[r] = "over"
        BY <1>0, <3>2 DEF DropsExecutor, Responds, RunTypes
      <4>2. rpc[r] = "respond" => fate[r] \in {"killed", "answered"}
        BY <2>0 DEF RunPhase, Delivering
      <4> QED
        BY <2>0, <3>1, <4>1, <4>2
        DEF Deliveries, PushedInit, Pushed, Announced, Settled, InitPoint, RunPoint, KilledEvent
    <3>3. CASE TakesInit(r)
      <4>1. /\ fate' = fate /\ carried'[r] = pending
            /\ rpc[r] = "take" /\ rpc'[r] = IF pending = None THEN "push run" ELSE "push init"
        BY <1>0, <3>3 DEF TakesInit, RunTypes
      <4> QED
        BY <2>0, <3>1, <4>1
        DEF Deliveries, PushedInit, Pushed, Announced, Settled, InitPoint, RunPoint, KilledEvent
    <3>4. CASE ~DropsExecutor(r) /\ ~Responds(r) /\ ~TakesInit(r)
      <4>1. /\ rpc[r] \in Entering \union {"inside"} \union Measuring
            /\ \/ rpc'[r] \in {"accepted", "ready", "inside", "take", "panic"} \union Measuring
               \/ rpc'[r] = "over" /\ fate'[r] \notin {"killed", "answered"}
        <5>1. CASE RunArrives(r) \/ RunInteracts(r) \/ InteractPanics(r)
          BY <1>0, <2>0, <5>1 DEF RunArrives, RunInteracts, InteractPanics, RunTypes, RunPhase,
             Entering, Measuring
        <5>2. CASE RunChecksExit(r)
          <6>1. \E v \in {"panic", "over", "ready"} : rpc' = [rpc EXCEPT ![r] = v]
            BY <5>2 DEF RunChecksExit
          <6>2. rpc[r] = "accepted" /\ fate' = fate
            BY <5>2 DEF RunChecksExit
          <6>3. fate[r] = "none"
            BY <2>0, <6>2 DEF RunPhase, Entering
          <6> QED
            BY <1>0, <6>1, <6>2, <6>3 DEF RunTypes, Entering
        <5>3. CASE InteractKilled(r) \/ InteractExited(r) \/ InteractAnswered(r)
          BY <1>0, <5>3 DEF InteractKilled, InteractExited, InteractAnswered, Inside, RunTypes,
             Entering, Measuring
        <5>4. CASE SidecarMeasures(r) \/ Measures(r)
          BY <1>0, <5>4 DEF SidecarMeasures, Measures, RunTypes, Measuring
        <5> QED
          BY <2>4, <3>4, <5>1, <5>2, <5>3, <5>4 DEF QuietStep, InteractReturns
      <4>2. KilledEvent(r) \notin received \union undelivered
        BY <2>0, <4>1 DEF Deliveries, Settled, Entering, Measuring
      <4> QED
        BY <3>1, <4>1, <4>2
        DEF Deliveries, PushedInit, Pushed, Announced, Settled, KilledEvent, Measuring
    <3> QED
      BY <3>2, <3>3, <3>4
  <2> QED
    BY <2>1, <2>2, <2>3, <2>4, RunStepSplits DEF PushStep
<1> QED
  BY <1>2, <1>3 DEF DeliveriesInOrder

(* A run comes in alone when the limit is one.                             *)
LEMMA ArrivesAlone ==
  ASSUME PTypeOK, Concurrency = 1, NEW r \in Runs, RunArrives(r)
  PROVE  Active = {}
<1>1. IsFiniteSet(Active)
  BY FS_Subset, ActionProxyAssumption DEF ActionProxyAssumption, Active
<1>2. Cardinality(Active) \in Nat /\ Cardinality(Active) < 1
  BY <1>1, FS_CardinalityType DEF RunArrives
<1>3. Cardinality(Active) = 0
  BY <1>2
<1> QED
  BY <1>1, <1>3, FS_EmptySet

LEMMA RunStepOneActive ==
  ASSUME PTypeOK, Alone, NEW r \in Runs, RunStep(r)
  PROVE  Concurrency' = 1 => \A s, t \in Active' : s = t
<1>0. RunTypes /\ config' = config
  BY TypesSplit, RunLeaves
<1> SUFFICES ASSUME Concurrency = 1
             PROVE  \A s, t \in Active' : s = t
  BY <1>0 DEF Concurrency
<1>1. Active' \subseteq Active \union {r}
  BY RunFrame DEF Active
<1>2. CASE RunArrives(r)
  BY <1>1, <1>2, ArrivesAlone
<1>3. CASE ~RunArrives(r)
  <2>1. rpc[r] \notin {"new", "over", "panic"}
    BY <1>3, RunStepSplits DEF PushStep, QuietStep, InteractReturns, RunChecksExit, RunInteracts,
       InteractKilled, InteractExited, InteractAnswered, Inside, InteractPanics, SidecarMeasures,
       Measures, TakesInit, DropsExecutor, Responds
  <2>2. r \in Active
    BY <2>1 DEF Active
  <2> QED
    BY <1>1, <2>2 DEF Alone
<1> QED
  BY <1>2, <1>3

(* The phases in which a lone run finds its executor in place.             *)
Attached == {"accepted", "ready", "inside", "take", "push init", "push run", "drop"}
                \union Measuring

AloneAt(r) ==
    /\ rpc[r] # "panic"
    /\ rpc[r] \in Attached => theExecutor # None
    /\ rpc[r] \in Delivering => measuredOn[r] = using[r]
    /\ sidecarOn[r] \in {using[r], None}

LEMMA RunStepAlone ==
  ASSUME PTypeOK, OneInit, Executors, RunPhases, Alone, NEW r \in Runs, RunStep(r)
  PROVE  Alone'
<1>0. RunTypes /\ ApTypes /\ config' = config
  BY TypesSplit, RunLeaves
<1>1. ASSUME OneRunOneExecutor
      PROVE  \A s \in Runs : AloneAt(s)'
  <2>0. /\ Concurrency = 1 /\ ~Debugging
        /\ \A s \in Runs : AloneAt(s)
        /\ \A s, t \in Active : s = t
    BY <1>1 DEF OneRunOneExecutor, Alone, AloneAt, Attached
  <2>1. ASSUME theExecutor # None, using[r] # None
        PROVE  theExecutor = using[r]
    BY <1>0, <2>0, <2>1, OneLive DEF Executors, RunTypes, ApTypes
  <2>2. ASSUME NEW s \in Runs, s # r
        PROVE  AloneAt(s)'
    <3>1. ~(rpc[s] \in Attached)
      <4>1. s \in Active => Active # {} /\ r \notin Active
        BY <2>0, <2>2
      <4>2. r \notin Active => RunArrives(r)
        BY RunStepSplits DEF PushStep, QuietStep, InteractReturns, RunChecksExit, RunInteracts,
           InteractKilled, InteractExited, InteractAnswered, Inside, InteractPanics,
           SidecarMeasures, Measures, TakesInit, DropsExecutor, Responds, Active
      <4>3. s \notin Active
        BY <2>0, <4>1, <4>2, ArrivesAlone
      <4> QED
        BY <4>3 DEF Active, Attached, Measuring
    <3> QED
      BY <2>0, <2>2, <3>1, RunFrame DEF AloneAt
  <2>3. AloneAt(r)'
    <3>0. AloneAt(r) /\ RunPhase(r)
      BY <2>0 DEF RunPhases
    <3>1. CASE PushStep(r)
      BY <1>0, <3>0, <3>1 DEF PushStep, Pushing, AfterPush, AloneAt, RunTypes, apVars, Attached,
         Measuring, Delivering
    <3>2. CASE RunArrives(r) \/ Responds(r)
      BY <1>0, <3>0, <3>2 DEF RunArrives, Responds, AloneAt, RunTypes, apVars, Attached,
         Measuring, Delivering
    <3>3. CASE RunChecksExit(r)
      <4>1. theExecutor # None /\ rpc[r] = "accepted"
        BY <3>0, <3>3 DEF RunChecksExit, AloneAt, Attached
      <4>2. \E v \in {"over", "ready"} : rpc' = [rpc EXCEPT ![r] = v]
        BY <3>3, <4>1 DEF RunChecksExit
      <4>3. UNCHANGED <<theExecutor, measuredOn, using, sidecarOn>>
        BY <3>3 DEF RunChecksExit, apVars
      <4> QED
        BY <1>0, <3>0, <4>1, <4>2, <4>3 DEF AloneAt, RunTypes, Delivering
    <3>4. CASE RunInteracts(r)
      <4>1. theExecutor # None /\ sidecarOn[r] = None
        BY <3>0, <3>4 DEF RunInteracts, AloneAt, Attached, RunPhase, Entering
      <4>2. rpc'[r] = "inside" /\ theExecutor' = theExecutor /\ sidecarOn' = sidecarOn
        BY <1>0, <3>4, <4>1 DEF RunInteracts, RunTypes, apVars
      <4> QED
        BY <4>1, <4>2 DEF AloneAt, Delivering
    <3>5. CASE InteractPanics(r)
      BY <2>0, <3>5 DEF InteractPanics, Executors
    <3>6. CASE InteractKilled(r) \/ InteractAnswered(r)
      BY <1>0, <3>0, <3>6 DEF InteractKilled, InteractAnswered, Inside, WhileMeasuring, AloneAt,
         RunTypes, apVars, Attached, Measuring, Delivering
    <3>7. CASE InteractExited(r) \/ DropsExecutor(r) \/ TakesInit(r)
      BY <1>0, <3>0, <3>7 DEF InteractExited, Inside, DropsExecutor, TakesInit, AloneAt, RunTypes,
         Attached, Measuring, Delivering
    <3>8. CASE SidecarMeasures(r) \/ Measures(r)
      <4>1. theExecutor = using[r]
        BY <2>1, <3>0, <3>8 DEF SidecarMeasures, Measures, AloneAt, RunPhase, Attached, Measuring
      <4> QED
        BY <1>0, <3>0, <3>8, <4>1 DEF SidecarMeasures, Measures, AloneAt, RunTypes, apVars,
           Attached, Measuring, Delivering
    <3> QED
      BY <3>1, <3>2, <3>3, <3>4, <3>5, <3>6, <3>7, <3>8, RunStepSplits
      DEF QuietStep, InteractReturns
  <2> QED
    BY <2>2, <2>3
<1>2. OneRunOneExecutor' <=> OneRunOneExecutor
  BY <1>0 DEF OneRunOneExecutor, Concurrency, Debugging
<1> QED
  BY <1>1, <1>2, RunStepOneActive DEF Alone, AloneAt, Attached

LEMMA RunStepInv ==
  ASSUME PInv, NEW r \in Runs, RunStep(r)
  PROVE  PInv'
  BY RunStepTypes, RunStepInits, RunStepExecutors, RunStepPhases, RunStepCarriers,
     RunStepConserved, RunStepDeliveries, RunStepAlone DEF PInv

----------------------------------------------------------------------------
(* The invariant of the specification.                                     *)

LEMMA PInvInit ==
  ASSUME Init
  PROVE  PInv
<1>1. PTypeOK
  <2>1. 0 \in 0 .. MaxAttempts - 1 /\ 0 \in 0 .. 0 /\ 0 <= MetricsLimit
    BY AttemptBounds, ActionProxyAssumption DEF ActionProxyAssumption
  <2>2. metrics \in [init : Seq(Inits), run : Seq(Runs)]
        /\ Len(metrics.init) = 0 /\ Len(metrics.run) = 0
    BY DEF Init
  <2>3. currentDir \in Nat /\ dirs \in [Inits -> 0 .. currentDir]
    BY <2>1 DEF Init
  <2>4. tries \in [Runs -> 0 .. MaxAttempts - 1]
    BY <2>1 DEF Init
  <2> QED
    BY <2>1, <2>2, <2>3, <2>4 DEF Init, PTypeOK
<1>2. OneInit
  BY DEF Init, OneInit, InitUnanswered, Answered
<1>3. OwnCode /\ Executors
  BY DEF Init, OwnCode, Executors
<1>4. RunPhases /\ Carriers
  BY DEF Init, RunPhases, RunPhase, Carriers, Measuring, Delivering
<1>5. DeliveriesInOrder /\ InitPointConserved
  BY DEF Init, DeliveriesInOrder, Deliveries, PushedInit, Pushed, Announced, Settled,
     InitPointConserved
<1>6. Alone
  BY DEF Init, Alone, Active, Measuring, Delivering
<1> QED
  BY <1>1, <1>2, <1>3, <1>4, <1>5, <1>6 DEF PInv

LEMMA PInvStep ==
  ASSUME PInv, [Next]_vars
  PROVE  PInv'
<1>1. CASE UNCHANGED vars
  <2>1. UNCHANGED apVars /\ UNCHANGED initVars /\ UNCHANGED runVars /\ UNCHANGED netVars
    BY <1>1 DEF vars
  <2>2. PTypeOK' /\ OneInit' /\ OwnCode'
    BY <2>1 DEF PInv, PTypeOK, OneInit, OwnCode, InitUnanswered, Answered, Debugging,
       apVars, dirVars, initVars, runVars, netVars
  <2>3. Executors' /\ RunPhases' /\ Carriers'
    BY <2>1 DEF PInv, Executors, Live, RunPhases, RunPhase, Carriers, Debugging,
       apVars, dirVars, initVars, runVars, netVars
  <2>4. DeliveriesInOrder' /\ InitPointConserved' /\ Alone'
    BY <2>1 DEF PInv, DeliveriesInOrder, Deliveries, PushedInit, Pushed, Announced, Settled,
       InitPointConserved, Alone, Active, OneRunOneExecutor, Concurrency, Debugging,
       apVars, dirVars, initVars, runVars, netVars
  <2> QED
    BY <2>2, <2>3, <2>4 DEF PInv
<1> QED
  BY <1>1, NextSplits, InitStepInv, RunStepInv

LEMMA PInvHolds == Spec => []PInv
  BY PInvInit, PInvStep, PTL DEF Spec

(* The fields of the proxy stay of their types; in particular the entries  *)
(* kept for /metric never pass the limit, whatever the mix of requests.    *)
THEOREM ProxyIsTyped == Spec => []PTypeOK
<1>1. PInv => PTypeOK
  BY DEF PInv
<1> QED
  BY <1>1, PInvHolds, PTL

(* No two points of the collector are about the same /init: whoever takes  *)
(* pendingInitEntry takes it from the others, retries and lost answers of  *)
(* the collector included.                                                 *)
THEOREM InitIsCountedOnce == Spec => []InitPointOnce
<1>1. PInv => InitPointOnce
  <2> SUFFICES ASSUME PInv, NEW m \in received, NEW n \in received,
                      m.kind = "/init", n.kind = "/init", m.of = n.of
               PROVE  m = n
    BY DEF InitPointOnce
  <2>1. m \in Messages /\ n \in Messages
    BY DEF PInv, PTypeOK
  <2>2. /\ m \in [kind : {"/init"}, of : Inits, run : Runs]
        /\ n \in [kind : {"/init"}, of : Inits, run : Runs]
    BY <2>1 DEF Messages
  <2>3. carried[m.run] = m.of /\ carried[n.run] = n.of
    BY DEF PInv, Carriers
  <2>4. m.of # None
    BY <2>2, ActionProxyAssumption DEF ActionProxyAssumption
  <2>5. m.run = n.run
    BY <2>2, <2>3, <2>4 DEF PInv, Carriers
  <2> QED
    BY <2>2, <2>5
<1> QED
  BY <1>1, PInvHolds, PTL

(* The entry of an /init that is over is in pendingInitEntry, in the hands *)
(* of the one run that took it, delivered, or logged as given up.          *)
THEOREM InitIsNeverLost == Spec => []InitPointConserved
<1>1. PInv => InitPointConserved
  BY DEF PInv
<1> QED
  BY <1>1, PInvHolds, PTL

(* The measurements of a run settle before EXECUTION_KILLED can reach the  *)
(* scheduler, and all of them before the response.                         *)
THEOREM MeasurementsComeFirst == Spec => []MeasuredThenAnnounced
<1>1. PInv => MeasuredThenAnnounced
  <2> SUFFICES ASSUME PInv, NEW r \in Runs
               PROVE  /\ \/ Settled(KilledEvent(r))
                         \/ rpc[r] = "over" /\ fate[r] \in {"killed", "answered"}
                         => /\ Settled(RunPoint(r))
                            /\ carried[r] # None => Settled(InitPoint(carried[r], r))
                      /\ rpc[r] = "over" /\ fate[r] = "killed" => Settled(KilledEvent(r))
    BY DEF MeasuredThenAnnounced
  <2>1. Deliveries(r)
    BY DEF PInv, DeliveriesInOrder
  <2>2. Settled(KilledEvent(r)) => Pushed(r)
    BY <2>1 DEF Deliveries, Pushed, Announced
  <2> QED
    BY <2>1, <2>2 DEF Deliveries, PushedInit, Pushed, Announced
<1> QED
  BY <1>1, PInvHolds, PTL

(* With one run at a time and no OW_DEBUG, no /run handler dereferences an *)
(* executor that was given up or the command of one that was stopped.      *)
THEOREM LoneRunNeverPanics == Spec => []NoPanic
<1>1. PInv => NoPanic
  BY DEF PInv, Alone, NoPanic
<1> QED
  BY <1>1, PInvHolds, PTL

(* And its energy, for the collector and for the next step of the          *)
(* sequence, is read from the cgroup of the process that ran it, although  *)
(* each read of ap.theExecutor is a new one.                               *)
THEOREM LoneRunIsMeasured == Spec => []MeasuredAlone
<1>1. PInv => MeasuredAlone
  BY DEF PInv, Alone, MeasuredAlone, MeasuredOnItsProcess, Delivering
<1> QED
  BY <1>1, PInvHolds, PTL

(* Without OW_DEBUG a handler that sets ap.theExecutor to nil gives up the *)
(* executor its own Interact ran on, whose process is dead or was reported *)
(* killed to this handler, for any number of runs at a time.               *)
THEOREM HandlersGiveUpTheirOwn == Spec => GivesUpItsOwn
<1>1. ASSUME PInv, [Next]_vars, NEW e \in Inits, theExecutor = e, theExecutor' = None,
             ~Debugging
      PROVE  \E r \in Runs : /\ using[r] = e /\ rpc'[r] # rpc[r]
                             /\ proc[e] = "dead" \/ fate[r] = "killed"
  <2>0. PTypeOK /\ OneInit /\ Executors /\ RunPhases
    BY <1>1 DEF PInv
  <2>1. None \notin Inits
    BY ActionProxyAssumption DEF ActionProxyAssumption
  <2>2. ASSUME NEW r \in Runs, using[r] # None
        PROVE  e = using[r]
    <3>1. using[r] \in Inits
      BY <2>2, <2>0 DEF PTypeOK
    <3> QED
      BY <1>1, <2>0, <2>2, <2>1, <3>1, OneLive DEF Executors
  <2>3. ASSUME NEW r \in Runs, InteractExited(r)
        PROVE  using[r] = e /\ rpc'[r] # rpc[r] /\ proc[e] = "dead"
    <3>1. RunPhase(r) /\ rpc[r] = "inside" /\ rpc'[r] = "over"
      BY <2>0, <2>3 DEF InteractExited, Inside, RunPhases, PTypeOK
    <3>2. using[r] = e
      BY <2>2, <3>1 DEF RunPhase
    <3> QED
      BY <2>3, <3>1, <3>2 DEF InteractExited
  <2>4. ASSUME NEW r \in Runs, DropsExecutor(r)
        PROVE  using[r] = e /\ rpc'[r] # rpc[r] /\ fate[r] = "killed"
    BY <2>0, <2>2, <2>4 DEF DropsExecutor, RunPhases, RunPhase, PTypeOK
  <2>5. ASSUME NEW r \in Runs, RunStep(r), ~InteractExited(r), ~DropsExecutor(r)
        PROVE  theExecutor' = theExecutor
    BY <2>5, RunStepSplits DEF PushStep, Pushing, QuietStep, InteractReturns, RunArrives,
       RunChecksExit, RunInteracts, InteractKilled, WhileMeasuring, InteractAnswered,
       InteractPanics, SidecarMeasures, Measures, TakesInit, Responds, apVars
  <2>6. ASSUME NEW i \in Inits, InitStep(i)
        PROVE  theExecutor' \in {theExecutor, i}
    BY <2>6 DEF InitStep, InitGoesOn, InitArrives, InitLoads, InitGivesUp, InitStarts,
       StartFails, StartSucceeds, StopKillsOld, StopClosesOld, InitAnswers, InitRecords,
       ProcessDies, apVars
  <2>7. UNCHANGED vars => theExecutor' = theExecutor
    BY DEF vars, apVars
  <2> QED
    BY <1>1, <2>1, <2>3, <2>4, <2>5, <2>6, <2>7, NextSplits
<1>2. ASSUME PInv, [Next]_vars
      PROVE  [\A e \in Inits :
                  theExecutor = e /\ theExecutor' = None /\ ~Debugging
                      => \E r \in Runs :
                             /\ using[r] = e /\ rpc'[r] # rpc[r]
                             /\ proc[e] = "dead" \/ fate[r] = "killed"]_vars
  BY <1>1, <1>2
<1> QED
  BY <1>2, PInvHolds, PTL DEF Spec, GivesUpItsOwn

(* Without a lock on ap.currentDir, StartLatestAction starts the upload of *)
(* the /init that called it, never an older one or another's, as the       *)
(* invoker sends one /init at a time.                                      *)
StartsItsOwnCode == \A i \in Inits : code[i] \in {i, None}

THEOREM InitStartsItsOwnCode == Spec => []StartsItsOwnCode
<1>1. PInv => StartsItsOwnCode
  BY DEF PInv, OwnCode, StartsItsOwnCode
<1> QED
  BY <1>1, PInvHolds, PTL
=============================================================================
