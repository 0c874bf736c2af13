---------------------------- MODULE ActionProxy ----------------------------
(***************************************************************************)
(* The HTTP proxy of openwhisk/actionProxy.go: the handlers of /init and   *)
(* /run, each request in a goroutine of its own, over the state they       *)
(* share without a lock (theExecutor, initialized, the directories of the  *)
(* uploaded actions) and the one field that has a lock (pendingInitEntry). *)
(* With them, the deliveries that end a run: the measurement to the        *)
(* collector, EXECUTION_KILLED to the scheduler, the HTTP response.        *)
(*                                                                         *)
(* The insides of Interact and of a kill are in EnergyMonitor.             *)
(* An executor is named by the /init request that created it.  A           *)
(* measurement is abstracted to the executor whose cgroup was read.        *)
(***************************************************************************)
EXTENDS Naturals, FiniteSets, Sequences

CONSTANTS
    Inits,          \* /init requests
    Runs,           \* /run requests
    None,           \* nil
    Configs,        \* the containers considered, and the runs they get
    MaxAttempts,    \* *_MAX_ATTEMPTS of the two deliveries
    MetricsLimit    \* entries kept for /metric

ASSUME ActionProxyAssumption ==
    /\ None \notin Inits \union Runs
    /\ IsFiniteSet(Runs)
    /\ Configs \subseteq [debugging : BOOLEAN, concurrency : Nat \ {0},
                         managed : SUBSET Runs]
    /\ MaxAttempts \in Nat \ {0}
    /\ MetricsLimit \in Nat \ {0}

VARIABLES
    config,       \* of this container, fixed when it starts
    theExecutor,  \* ap.theExecutor
    initialized,  \* ap.initialized
    currentDir,   \* ap.currentDir
    dirs,         \* the number of the directory of each upload, 0 if there is none
    pending,      \* ap.pendingInitEntry: the init it measures, or None
    metrics,      \* ap.metrics: the last entries of each endpoint
    proc,         \* the process of each executor: "none", "alive" or "dead"
    closed,       \* the executors stopped: cgroup removed, proc.cmd nil
    ipc,          \* where each /init handler is
    cur,          \* curExecutor of each /init handler
    code,         \* the upload whose directory its StartLatestAction chose
    rpc,          \* where each /run handler is
    using,        \* the executor its Interact runs on
    fate,         \* how Interact returned, "none" before it does
    sidecarOn,    \* the executor measured for the next step of the sequence
    measuredOn,   \* the executor measured for the collector
    carried,      \* the pending init entry the run took, or None
    tries,        \* attempts of the delivery under way
    received,     \* what reached the collector and the scheduler
    undelivered   \* what was logged as given up

dirVars == <<currentDir, dirs>>
apVars == <<config, theExecutor, initialized, dirVars, pending, metrics, proc, closed>>
initVars == <<ipc, cur, code>>
runVars == <<rpc, using, fate, sidecarOn, measuredOn, carried, tries>>
netVars == <<received, undelivered>>
vars == <<apVars, initVars, runVars, netVars>>

Debugging == config.debugging       \* OW_DEBUG: /init may come again
Concurrency == config.concurrency   \* the limit of the action
Managed == config.managed           \* the runs with an energy state: may be killed

(* Requests are named in the order they come in.                           *)
FirstOf(requests) == CHOOSE x \in requests : TRUE

(* A point of the collector, or an event of the scheduler: what it is      *)
(* about, and the run whose trace it carries.                              *)
Messages == [kind : {"/init"}, of : Inits, run : Runs]
                \union [kind : {"/run", "EXECUTION_KILLED"}, of : Runs, run : Runs]

PTypeOK ==
    /\ config \in Configs
    /\ theExecutor \in Inits \union {None}
    /\ initialized \in BOOLEAN
    /\ currentDir \in Nat /\ dirs \in [Inits -> 0 .. currentDir]
    /\ pending \in Inits \union {None}
    /\ metrics \in [init : Seq(Inits), run : Seq(Runs)]
    /\ Len(metrics.init) <= MetricsLimit /\ Len(metrics.run) <= MetricsLimit
    /\ proc \in [Inits -> {"none", "alive", "dead"}]
    /\ closed \subseteq Inits
    /\ ipc \in [Inits -> {"new", "accepted", "loaded", "starting", "stopping",
                          "closing", "started", "ok", "over", "failed"}]
    /\ cur \in [Inits -> Inits \union {None}]
    /\ code \in [Inits -> Inits \union {None}]
    /\ rpc \in [Runs -> {"new", "accepted", "ready", "inside", "sidecar",
                         "measure", "take", "push init", "push run", "drop",
                         "post", "respond", "over", "panic"}]
    /\ using \in [Runs -> Inits \union {None}]
    /\ fate \in [Runs -> {"none", "killed", "answered", "exited", "bad"}]
    /\ sidecarOn \in [Runs -> Inits \union {None}]
    /\ measuredOn \in [Runs -> Inits \union {None}]
    /\ carried \in [Runs -> Inits \union {None}]
    /\ tries \in [Runs -> 0 .. MaxAttempts - 1]
    /\ received \subseteq Messages
    /\ undelivered \subseteq Messages

Init ==
    /\ config \in Configs
    /\ theExecutor = None
    /\ initialized = FALSE
    /\ currentDir = 0
    /\ dirs = [i \in Inits |-> 0]
    /\ pending = None
    /\ metrics = [init |-> <<>>, run |-> <<>>]
    /\ proc = [i \in Inits |-> "none"]
    /\ closed = {}
    /\ ipc = [i \in Inits |-> "new"]
    /\ cur = [i \in Inits |-> None]
    /\ code = [i \in Inits |-> None]
    /\ rpc = [r \in Runs |-> "new"]
    /\ using = [r \in Runs |-> None]
    /\ fate = [r \in Runs |-> "none"]
    /\ sidecarOn = [r \in Runs |-> None]
    /\ measuredOn = [r \in Runs |-> None]
    /\ carried = [r \in Runs |-> None]
    /\ tries = [r \in Runs |-> 0]
    /\ received = {}
    /\ undelivered = {}

(* killExecution on e returned.  It may have been refused, or not have     *)
(* been confirmed: its error is logged, and the caller goes on alike.      *)
Killed(e) == {proc, [proc EXCEPT ![e] = "dead"]}

MutantUntrimmed(entries, x) == Append(entries, x)

(* Metrics.Add: the oldest entry leaves when the limit is passed.          *)
Added(entries, x) ==
    LET all == Append(entries, x)
    IN IF Len(all) > MetricsLimit THEN Tail(all) ELSE all

----------------------------------------------------------------------------
(* /init                                                                   *)
InitUnanswered == {i \in Inits : ipc[i] \notin {"new", "ok", "over", "failed"}}

MutantInitAgain == FALSE

(* The check at the top of initHandler.                                    *)
Forbidden == initialized /\ ~Debugging

(* The invoker sends one /init at a time.                                  *)
InitArrives(i) ==
    /\ ipc[i] = "new" /\ i = FirstOf({j \in Inits : ipc[j] = "new"})
    /\ InitUnanswered = {}
    /\ ipc' = [ipc EXCEPT ![i] = IF Forbidden THEN "failed" ELSE "accepted"]
    /\ UNCHANGED <<apVars, cur, code, runVars, netVars>>

(* The request is read and decoded, the code extracted to a new directory  *)
(* and compiled.  A compilation that fails leaves its directory.           *)
InitLoads(i) ==
    /\ ipc[i] = "accepted"
    /\ \/ ipc' = [ipc EXCEPT ![i] = "failed"] /\ UNCHANGED dirVars
       \/ /\ ipc' \in {[ipc EXCEPT ![i] = "failed"], [ipc EXCEPT ![i] = "loaded"]}
          /\ currentDir' = currentDir + 1
          /\ dirs' = [dirs EXCEPT ![i] = currentDir']
    /\ UNCHANGED <<config, theExecutor, initialized, pending, metrics, proc, closed,
                   cur, code, runVars, netVars>>

(* exec.env does not match, or NewExecutor gets no cgroup.                 *)
InitGivesUp(i) ==
    /\ ipc[i] = "loaded"
    /\ ipc' = [ipc EXCEPT ![i] = "failed"]
    /\ UNCHANGED <<apVars, cur, code, runVars, netVars>>

(* Whose directory has the highest number.                                 *)
highestDir == CHOOSE i \in Inits : \A j \in Inits : dirs[j] <= dirs[i]

(* StartLatestAction up to the wait of Executor.Start: the highest         *)
(* directory is chosen, the current executor remembered.                   *)
InitStarts(i) ==
    /\ ipc[i] = "loaded"
    /\ code' = [code EXCEPT ![i] = highestDir]
    /\ cur' = [cur EXCEPT ![i] = theExecutor]
    /\ proc' = [proc EXCEPT ![i] = "alive"]
    /\ ipc' = [ipc EXCEPT ![i] = "starting"]
    /\ UNCHANGED <<config, theExecutor, initialized, dirVars, pending, metrics, closed,
                   runVars, netVars>>

(* Executor.Start returns an error: no process, an early exit, or an ack   *)
(* that says no, from a process that lives on.                             *)
StartRefused(i) == {proc, [proc EXCEPT ![i] = "dead"]}

(* The directory of the action goes, unless OW_DEBUG is set; the executor  *)
(* the proxy had, if any, stays in place.                                  *)
StartFails(i) ==
    /\ ipc[i] = "starting"
    /\ proc' \in StartRefused(i)
    /\ dirs' = IF Debugging THEN dirs
               ELSE [dirs EXCEPT ![code[i]] = 0]
    /\ ipc' = [ipc EXCEPT ![i] = "failed"]
    /\ UNCHANGED <<config, theExecutor, initialized, currentDir, pending, metrics, closed,
                   cur, code, runVars, netVars>>

StartSucceeds(i) ==
    /\ ipc[i] = "starting"
    /\ theExecutor' = i
    /\ ipc' = [ipc EXCEPT ![i] = IF cur[i] = None THEN "started" ELSE "stopping"]
    /\ UNCHANGED <<config, initialized, dirVars, pending, metrics, proc, closed,
                   cur, code, runVars, netVars>>

(* Stop of the replaced executor: the kill; then the cgroup is removed and *)
(* proc.cmd set to nil.                                                    *)
StopKillsOld(i) ==
    /\ ipc[i] = "stopping"
    /\ proc' \in Killed(cur[i])
    /\ ipc' = [ipc EXCEPT ![i] = "closing"]
    /\ UNCHANGED <<config, theExecutor, initialized, dirVars, pending, metrics, closed,
                   cur, code, runVars, netVars>>

StopClosesOld(i) ==
    /\ ipc[i] = "closing"
    /\ closed' = closed \union {cur[i]}
    /\ ipc' = [ipc EXCEPT ![i] = "started"]
    /\ UNCHANGED <<config, theExecutor, initialized, dirVars, pending, metrics, proc,
                   cur, code, runVars, netVars>>

(* initialized = true and the answer; the entry is recorded only later.    *)
InitAnswers(i) ==
    /\ ipc[i] = "started"
    /\ initialized' = TRUE
    /\ ipc' = [ipc EXCEPT ![i] = "ok"]
    /\ UNCHANGED <<config, theExecutor, dirVars, pending, metrics, proc, closed,
                   cur, code, runVars, netVars>>

InitRecords(i) ==
    /\ ipc[i] = "ok"
    /\ metrics' = [metrics EXCEPT !.init = Added(@, i)]
    /\ pending' = i
    /\ ipc' = [ipc EXCEPT ![i] = "over"]
    /\ UNCHANGED <<config, theExecutor, initialized, dirVars, proc, closed, cur, code,
                   runVars, netVars>>

----------------------------------------------------------------------------
(* /run: the checks.  Each line reads theExecutor again.                   *)
Active == {r \in Runs : rpc[r] \notin {"new", "over", "panic"}}

RunArrives(r) ==
    /\ rpc[r] = "new" /\ r = FirstOf({s \in Runs : rpc[s] = "new"})
    /\ Cardinality(Active) < Concurrency
    /\ rpc' = [rpc EXCEPT ![r] = IF theExecutor = None THEN "over" ELSE "accepted"]
    /\ UNCHANGED <<apVars, initVars, using, fate, sidecarOn, measuredOn, carried,
                   tries, netVars>>

(* ap.theExecutor.Exited(), a nil dereference if it is nil by now.         *)
RunChecksExit(r) ==
    /\ rpc[r] = "accepted"
    /\ rpc' = [rpc EXCEPT ![r] = CASE theExecutor = None -> "panic"
                                   [] theExecutor # None
                                      /\ proc[theExecutor] = "dead" -> "over"
                                   [] OTHER -> "ready"]
    /\ UNCHANGED <<apVars, initVars, using, fate, sidecarOn, measuredOn, carried,
                   tries, netVars>>

(* ap.theExecutor.Interact(...), the same.                                 *)
RunInteracts(r) ==
    /\ rpc[r] = "ready"
    /\ IF theExecutor = None
       THEN /\ rpc' = [rpc EXCEPT ![r] = "panic"]
            /\ UNCHANGED using
       ELSE /\ rpc' = [rpc EXCEPT ![r] = "inside"]
            /\ using' = [using EXCEPT ![r] = theExecutor]
    /\ UNCHANGED <<apVars, initVars, fate, sidecarOn, measuredOn, carried, tries,
                   netVars>>

(* The process of the action ends, by itself or by the OOM killer.         *)
ProcessDies(e) ==
    /\ proc[e] = "alive"
    /\ proc' = [proc EXCEPT ![e] = "dead"]
    /\ UNCHANGED <<config, theExecutor, initialized, dirVars, pending, metrics, closed,
                   initVars, runVars, netVars>>

----------------------------------------------------------------------------
(* /run: the returns of Interact.  Each first writes the output guard to   *)
(* proc.cmd.Stdout, a nil dereference once the executor is stopped.        *)
Inside(r) == rpc[r] = "inside" /\ using[r] \notin closed

InteractPanics(r) ==
    /\ rpc[r] = "inside" /\ using[r] \in closed
    /\ rpc' = [rpc EXCEPT ![r] = "panic"]
    /\ UNCHANGED <<apVars, initVars, using, fate, sidecarOn, measuredOn, carried,
                   tries, netVars>>

MutantDroppedFirst == None

(* theExecutor while a killed run is measured: it is given up only later.  *)
WhileMeasuring == theExecutor

(* killInfo # nil: the energy monitor killed the process, found it dead    *)
(* when it came to kill it, or could not kill it.                          *)
InteractKilled(r) ==
    /\ Inside(r) /\ r \in Managed
    /\ theExecutor' = WhileMeasuring
    /\ proc' \in Killed(using[r])
    /\ fate' = [fate EXCEPT ![r] = "killed"]
    /\ rpc' = [rpc EXCEPT ![r] = "measure"]
    /\ UNCHANGED <<config, initialized, dirVars, pending, metrics, closed, initVars,
                   using, sidecarOn, measuredOn, carried, tries, netVars>>

(* err # nil: the executor is given up, nothing is measured.               *)
InteractExited(r) ==
    /\ Inside(r) /\ proc[using[r]] = "dead"
    /\ theExecutor' = None
    /\ fate' = [fate EXCEPT ![r] = "exited"]
    /\ rpc' = [rpc EXCEPT ![r] = "over"]
    /\ UNCHANGED <<config, initialized, dirVars, pending, metrics, proc, closed, initVars,
                   using, sidecarOn, measuredOn, carried, tries, netVars>>

(* The energy state goes into an object, not into an array.  An answer     *)
(* that is neither ends the run at once.                                   *)
InteractAnswered(r) ==
    /\ Inside(r) /\ proc[using[r]] = "alive"
    /\ \/ /\ r \in Managed
          /\ fate' = [fate EXCEPT ![r] = "answered"]
          /\ rpc' = [rpc EXCEPT ![r] = "sidecar"]
       \/ /\ fate' = [fate EXCEPT ![r] = "answered"]
          /\ rpc' = [rpc EXCEPT ![r] = "measure"]
       \/ /\ fate' = [fate EXCEPT ![r] = "bad"]
          /\ rpc' = [rpc EXCEPT ![r] = "over"]
    /\ UNCHANGED <<apVars, initVars, using, sidecarOn, measuredOn, carried, tries,
                   netVars>>

----------------------------------------------------------------------------
(* /run: measurement and deliveries.                                       *)

(* The energy reinjected in __energy_state.                                *)
SidecarMeasures(r) ==
    /\ rpc[r] = "sidecar"
    /\ sidecarOn' = [sidecarOn EXCEPT ![r] = theExecutor]
    /\ rpc' = [rpc EXCEPT ![r] = "measure"]
    /\ UNCHANGED <<apVars, initVars, using, fate, measuredOn, carried, tries,
                   netVars>>

(* recordMetricsImpl: the entry is computed and added to the metrics.      *)
Measures(r) ==
    /\ rpc[r] = "measure"
    /\ measuredOn' = [measuredOn EXCEPT ![r] = theExecutor]
    /\ metrics' = [metrics EXCEPT !.run = Added(@, r)]
    /\ rpc' = [rpc EXCEPT ![r] = "take"]
    /\ UNCHANGED <<config, theExecutor, initialized, dirVars, pending, proc, closed,
                   initVars, using, fate, sidecarOn, carried, tries, netVars>>

MutantInitKept == pending

(* What the run that takes the entry of the init leaves behind.            *)
PendingTaken == None

(* Under pendingInitMu: the first run to come takes the entry of the init. *)
TakesInit(r) ==
    /\ rpc[r] = "take"
    /\ carried' = [carried EXCEPT ![r] = pending]
    /\ pending' = PendingTaken
    /\ rpc' = [rpc EXCEPT ![r] = IF pending = None THEN "push run" ELSE "push init"]
    /\ UNCHANGED <<config, theExecutor, initialized, dirVars, metrics, proc, closed,
                   initVars, using, fate, sidecarOn, measuredOn, tries, netVars>>

(* One attempt of a bounded delivery: 2xx, 4xx, which is not retried, any  *)
(* other failure, or an answer that is lost after the message arrived.     *)
Attempts == {"accepted", "refused", "failed", "unheard"}

MutantCountedAgain(r) == (tries[r] + 1) % MaxAttempts

(* The attempts made, once this one has ended.                             *)
AttemptsMade(r) == tries[r] + 1

(* No further attempt follows.                                             *)
LastAttempt(r, how) ==
    how \in {"accepted", "refused"} \/ AttemptsMade(r) = MaxAttempts

Delivers(r, m, how, next) ==
    /\ received' = IF how \in {"accepted", "unheard"} THEN received \union {m}
                                                      ELSE received
    /\ undelivered' = IF how # "accepted" /\ LastAttempt(r, how)
                      THEN undelivered \union {m} ELSE undelivered
    /\ tries' = [tries EXCEPT ![r] = IF LastAttempt(r, how) THEN 0
                                                             ELSE AttemptsMade(r)]
    /\ rpc' = [rpc EXCEPT ![r] = IF LastAttempt(r, how) THEN next ELSE @]
    /\ UNCHANGED <<using, fate, sidecarOn, measuredOn, carried>>

InitPoint(i, r) == [kind |-> "/init", of |-> i, run |-> r]
RunPoint(r) == [kind |-> "/run", of |-> r, run |-> r]
KilledEvent(r) == [kind |-> "EXECUTION_KILLED", of |-> r, run |-> r]

PushesInit(r, how) ==
    /\ rpc[r] = "push init"
    /\ Delivers(r, InitPoint(carried[r], r), how, "push run")
    /\ UNCHANGED <<apVars, initVars>>

MutantNotAnnounced(r) == "respond"

(* A killed run gives the executor up and announces the kill, any other    *)
(* answers: both after the measurement is delivered or given up.           *)
AfterPush(r) == IF fate[r] = "killed" THEN "drop" ELSE "respond"

PushesRun(r, how) ==
    /\ rpc[r] = "push run"
    /\ Delivers(r, RunPoint(r), how, AfterPush(r))
    /\ UNCHANGED <<apVars, initVars>>

DropsExecutor(r) ==
    /\ rpc[r] = "drop"
    /\ theExecutor' = None
    /\ rpc' = [rpc EXCEPT ![r] = "post"]
    /\ UNCHANGED <<config, initialized, dirVars, pending, metrics, proc, closed, initVars,
                   using, fate, sidecarOn, measuredOn, carried, tries, netVars>>

PostsKilled(r, how) ==
    /\ rpc[r] = "post"
    /\ Delivers(r, KilledEvent(r), how, "respond")
    /\ UNCHANGED <<apVars, initVars>>

Responds(r) ==
    /\ rpc[r] = "respond"
    /\ rpc' = [rpc EXCEPT ![r] = "over"]
    /\ UNCHANGED <<apVars, initVars, using, fate, sidecarOn, measuredOn, carried,
                   tries, netVars>>

----------------------------------------------------------------------------
InitGoesOn(i) ==
    \/ InitLoads(i) \/ InitGivesUp(i) \/ InitStarts(i) \/ StartFails(i)
    \/ StartSucceeds(i) \/ StopKillsOld(i) \/ StopClosesOld(i)
    \/ InitAnswers(i) \/ InitRecords(i)

InteractReturns(r) ==
    \/ InteractKilled(r) \/ InteractExited(r) \/ InteractAnswered(r)
    \/ InteractPanics(r)

RunGoesOn(r) ==
    \/ RunChecksExit(r) \/ RunInteracts(r) \/ InteractReturns(r)
    \/ SidecarMeasures(r) \/ Measures(r) \/ TakesInit(r)
    \/ \E how \in Attempts :
           PushesInit(r, how) \/ PushesRun(r, how) \/ PostsKilled(r, how)
    \/ DropsExecutor(r) \/ Responds(r)

Next ==
    \/ \E i \in Inits : InitArrives(i) \/ InitGoesOn(i) \/ ProcessDies(i)
    \/ \E r \in Runs : RunArrives(r) \/ RunGoesOn(r)

Spec == Init /\ [][Next]_vars

(* The goroutines of the handlers run.  That Interact returns is           *)
(* InvocationReturns of EnergyMonitor; the deliveries have timeouts.       *)
FairSpec ==
    /\ Spec
    /\ \A i \in Inits : WF_vars(InitGoesOn(i))
    /\ \A r \in Runs : WF_vars(RunGoesOn(r))

----------------------------------------------------------------------------
(* Delivered, or given up and logged as such.                              *)
Settled(m) == m \in received \union undelivered

(* The scheduler settles a killed run on what the collector holds when     *)
(* EXECUTION_KILLED arrives, and the container may be deleted as soon as   *)
(* the response is out: the points of the run come first, the event next,  *)
(* the response last.                                                      *)
MeasuredThenAnnounced ==
    \A r \in Runs :
        LET points == {RunPoint(r)} \union
                          {InitPoint(i, r) : i \in {carried[r]} \ {None}}
            over == rpc[r] = "over"
        IN /\ Settled(KilledEvent(r)) \/ (over /\ fate[r] \in {"killed", "answered"})
                  => \A m \in points : Settled(m)
           /\ over /\ fate[r] = "killed" => Settled(KilledEvent(r))

(* The measurement of an /init is never counted for two runs.              *)
InitPointOnce ==
    \A m, n \in received :
        m.kind = "/init" /\ n.kind = "/init" /\ m.of = n.of => m = n

(* Once recorded, the measurement of the /init is never lost: it waits for *)
(* a run, or one run has it in hand, delivered it or gave it up aloud.     *)
(* (Under OW_DEBUG the next /init may overwrite it.)                       *)
InitPointConserved ==
    \A i \in Inits : ipc[i] = "over" /\ ~Debugging =>
        \/ pending = i
        \/ \E r \in Runs :
               /\ carried[r] = i
               /\ rpc[r] = "push init" \/ Settled(InitPoint(i, r))

(* A handler gives up no executor but the one its own Interact ran on, and *)
(* then the process is dead or the handler was told that it was killed:    *)
(* not a warm one of another run, although theExecutor is read anew each   *)
(* time.  The process may live on where the kill was not confirmed (the    *)
(* run reported_kill of EnergyMonitor).  (Under OW_DEBUG it may be the one *)
(* that replaced it meanwhile.)                                            *)
GivesUpItsOwn ==
    [][\A e \in Inits :
           theExecutor = e /\ theExecutor' = None /\ ~Debugging
               => \E r \in Runs :
                      /\ using[r] = e /\ rpc'[r] # rpc[r]
                      /\ proc[e] = "dead" \/ fate[r] = "killed"]_vars

(* One run at a time, of one executor.                                     *)
OneRunOneExecutor == Concurrency = 1 /\ ~Debugging

(* Then no /run handler dereferences nil: an executor given up after its   *)
(* nil check, or the command of one that was stopped under it.  A run      *)
(* whose process ended is told so: "command exited".                       *)
NoPanic == OneRunOneExecutor => \A r \in Runs : rpc[r] # "panic"

(* The energy of a run, for the collector and for the next step, is read   *)
(* from the cgroup of the process that ran it.                             *)
MeasuredOnItsProcess ==
    \A r \in Runs :
        /\ rpc[r] \in {"take", "push init", "push run", "drop", "post", "respond"}
               => measuredOn[r] = using[r]
        /\ sidecarOn[r] \in {using[r], None}

(* It is, when one run at a time uses one executor.                        *)
MeasuredAlone == OneRunOneExecutor => MeasuredOnItsProcess

(* Every request is answered, whatever the collector and the scheduler do, *)
(* and by then every run that was killed has been announced, or logged as  *)
(* not announced.                                                          *)
RequestsEnd ==
    <>[](/\ \A r \in Runs :
                /\ rpc[r] \in {"new", "over", "panic"}
                /\ fate[r] = "killed" => Settled(KilledEvent(r))
         /\ \A i \in Inits : ipc[i] \in {"new", "over", "failed"})
=============================================================================
