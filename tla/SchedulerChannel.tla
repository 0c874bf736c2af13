-------------------------- MODULE SchedulerChannel --------------------------
(***************************************************************************)
(* The channel to the scheduler of openwhisk/schedulerChannel.go: the kept *)
(* address (addrCache) and its background resolution, the dial of a new    *)
(* connection (schedulerDialContext), the pool of connections all calls    *)
(* share (schedulerTransport), the call that reports a freeze              *)
(* (postExecutionPaused) and the recorder of what it cost and why it       *)
(* failed (connRecorder).                                                  *)
(*                                                                         *)
(* A dial is a goroutine of net/http.  It is not cancelled when the call   *)
(* that asked for it is over, and a call that waits takes the first        *)
(* connection that comes: its own, or one another call gives back.         *)
(* An address is abstracted to its number in the order the scheduler had   *)
(* them.  Of the recorder, the durations and the marks that only feed them *)
(* are left out; what decides the cause of a failure is kept.              *)
(***************************************************************************)
EXTENDS Naturals, FiniteSets

CONSTANTS
    Calls,         \* the reports of a freeze that may be under way at once
    Resolvers,     \* names for the goroutines of resolveAsync
    NoAddr,        \* no address
    Urls,          \* what SCHEDULER_URL may hold
    MaxAttempts,   \* SCHEDULER_ADDRESS_RESOLVE_MAX_ATTEMPTS
    MaxIdle,       \* MaxIdleConnsPerHost
    MaxMoves,      \* how often the scheduler gets another address
    MaxCalls       \* how many reports are made

ASSUME SchedulerChannelAssumption ==
    /\ IsFiniteSet(Calls) /\ Resolvers # {}
    /\ MaxAttempts \in Nat \ {0}
    /\ MaxIdle \in Nat \ {0}
    /\ MaxMoves \in Nat
    /\ MaxCalls \in Nat
    /\ NoAddr \notin Nat
    /\ Urls \subseteq {"name", "address", "bad"}

VARIABLES
    url,        \* SCHEDULER_URL: a host name, an IP address, or not a URL
    up,         \* NewActionProxy has been called
    home,       \* where the scheduler is
    cache,      \* schedulerAddr.ipport
    resolving,  \* schedulerAddr.resolving
    res,        \* the goroutines of resolveAsync
    call,       \* where each report is
    dial,       \* the dial each report asked for
    rec,        \* its connRecorder
    stage,      \* the step it had reached when it returned
    made,       \* how many reports were begun
    idle,       \* idle connections of the pool
    open        \* connections open

addrVars == <<cache, resolving, res>>
envVars == <<url, up, home>>
poolVars == <<idle, open>>
callVars == <<call, rec, stage, made>>
vars == <<envVars, addrVars, callVars, dial, poolVars>>

Addrs == 0 .. MaxMoves
Failures == {"", "resolve", "connect", "timeout", "unreadable_response"}

NewRecorder == [closed |-> FALSE, resolve |-> "no", gotConn |-> FALSE,
                reused |-> FALSE, failure |-> ""]
NoDial == [pc |-> "off", addr |-> NoAddr, kept |-> FALSE, attempt |-> 1]
NoResolver == [pc |-> "off", ip |-> NoAddr, attempt |-> 1]

Goroutines == [pc : {"off", "try", "found", "ending"}, ip : Addrs \union {NoAddr},
               attempt : 1 .. MaxAttempts]
Dials == [pc : {"off", "begin", "resolve", "connect", "keep", "forget", "respawn",
                "opened", "unresolved", "failed"},
          addr : Addrs \union {NoAddr}, kept : BOOLEAN, attempt : 1 .. MaxAttempts]
Recorders == [closed : BOOLEAN, resolve : {"no", "begun", "ok", "failed"},
              gotConn : BOOLEAN, reused : BOOLEAN, failure : Failures]

(* The types of the state: attempts and idle connections within bounds.    *)
CTypeOK ==
    /\ url \in Urls /\ up \in BOOLEAN /\ home \in Addrs
    /\ cache \in Addrs \union {NoAddr}
    /\ resolving \in BOOLEAN
    /\ res \in [Resolvers -> Goroutines]
    /\ call \in [Calls -> {"none", "waiting", "sent", "reading", "returned"}]
    /\ dial \in [Calls -> Dials]
    /\ rec \in [Calls -> Recorders]
    /\ stage \in [Calls -> Failures \union {"unbuilt"}]
    /\ made \in 0 .. MaxCalls
    /\ idle \in 0 .. MaxIdle
    /\ open \in Nat

Init ==
    /\ url \in Urls
    /\ up = FALSE
    /\ home = 0
    /\ cache = NoAddr
    /\ resolving = FALSE
    /\ res = [r \in Resolvers |-> NoResolver]
    /\ call = [c \in Calls |-> "none"]
    /\ dial = [c \in Calls |-> NoDial]
    /\ rec = [c \in Calls |-> NewRecorder]
    /\ stage = [c \in Calls |-> ""]
    /\ made = 0
    /\ idle = 0
    /\ open = 0

----------------------------------------------------------------------------
(* The kept address and its resolution in the background.                  *)

MutantSpawnsAnyway == TRUE

(* No resolution is under way, as far as resolveAsync can tell.            *)
NotResolving == ~resolving

(* No effect for a host that is an address, or while a resolution goes on. *)
resolveAsync ==
    IF url = "name" /\ NotResolving
    THEN /\ resolving' = TRUE
         /\ LET r == CHOOSE x \in Resolvers : res[x].pc = "off"
            IN res' = [res EXCEPT ![r] = [NoResolver EXCEPT !.pc = "try"]]
    ELSE UNCHANGED <<resolving, res>>

(* warmSchedulerAddress, as the container starts.                          *)
NewActionProxy ==
    /\ ~up
    /\ up' = TRUE
    /\ IF cache = NoAddr THEN resolveAsync ELSE UNCHANGED <<resolving, res>>
    /\ UNCHANGED <<url, home, cache, callVars, dial, poolVars>>

NextAttempt(n) == n + 1

(* resolveOnce finds an address, fails and is tried again after a while,   *)
(* or fails for the last time.                                             *)
ResolverTries(r) ==
    /\ res[r].pc = "try"
    /\ \/ res' = [res EXCEPT ![r] = [NoResolver EXCEPT !.pc = "found", !.ip = home]]
       \/ /\ res[r].attempt < MaxAttempts
          /\ res' = [res EXCEPT ![r].attempt = NextAttempt(@)]
       \/ /\ res[r].attempt = MaxAttempts
          /\ res' = [res EXCEPT ![r] = [NoResolver EXCEPT !.pc = "ending"]]
    /\ UNCHANGED <<envVars, cache, resolving, callVars, dial, poolVars>>

(* set                                                                     *)
ResolverSets(r) ==
    /\ res[r].pc = "found"
    /\ cache' = res[r].ip
    /\ res' = [res EXCEPT ![r] = [NoResolver EXCEPT !.pc = "ending"]]
    /\ UNCHANGED <<envVars, resolving, callVars, dial, poolVars>>

(* The deferred function: resolving goes down after the address was set.   *)
ResolverEnds(r) ==
    /\ res[r].pc = "ending"
    /\ resolving' = FALSE
    /\ res' = [res EXCEPT ![r] = NoResolver]
    /\ UNCHANGED <<envVars, cache, callVars, dial, poolVars>>

ResolverStep(r) == ResolverTries(r) \/ ResolverSets(r) \/ ResolverEnds(r)

----------------------------------------------------------------------------
(* The recorder.                                                           *)

MutantNotSealed(r, new) == new

(* connRecorder.update: nothing is written once the call has returned.     *)
Noted(r, new) == IF r.closed THEN r ELSE new

(* noteResolveStart, noteResolveDone.                                      *)
Notes(c, step) == rec' = [rec EXCEPT ![c] = Noted(@, [@ EXCEPT !.resolve = step])]

MutantConnectFirst(r, how) ==
    CASE how = "unreadable" -> "unreadable_response"
      [] how = "command" -> ""
      [] OTHER -> IF ~r.gotConn THEN "connect"
                  ELSE IF r.resolve \in {"begun", "failed"} THEN "resolve"
                  ELSE IF how = "timeout" THEN "timeout" ELSE "connect"

(* The switch of finish.                                                   *)
Failure(r, how) ==
    CASE how = "unreadable" -> "unreadable_response"
      [] how = "command" -> ""
      [] OTHER -> IF r.resolve \in {"begun", "failed"} THEN "resolve"
                  ELSE IF r.gotConn /\ how = "timeout" THEN "timeout"
                  ELSE "connect"

(* finish: the recorder is closed, with the cause of the failure.          *)
Finished(r, how) == [r EXCEPT !.closed = TRUE, !.failure = Failure(r, how)]

GotConn(r, reused) == Noted(r, [r EXCEPT !.gotConn = TRUE, !.reused = reused])

----------------------------------------------------------------------------
(* The pool of net/http: a connection that is free goes to a call that     *)
(* waits for one, else to the pool, and is closed when the pool is full.   *)
Waiting == {c \in Calls : call[c] = "waiting"}
Receivers == IF Waiting = {} THEN {{}} ELSE {{w} : w \in Waiting}

MutantUncapped(to) ==
    /\ idle' = IF to = {} THEN idle + 1 ELSE idle
    /\ UNCHANGED open

GivesBack(to) ==
    /\ idle' = IF to = {} /\ idle < MaxIdle THEN idle + 1 ELSE idle
    /\ open' = IF to = {} /\ idle = MaxIdle THEN open - 1 ELSE open

CallsServed(to) == [c \in Calls |-> IF c \in to THEN "sent" ELSE call[c]]
RecsServed(to) == [c \in Calls |-> IF c \in to THEN GotConn(rec[c], TRUE) ELSE rec[c]]

----------------------------------------------------------------------------
(* postExecutionPaused                                                     *)

(* The step a call that has no connection is at.                           *)
DialStage(c) ==
    IF dial[c].pc \in {"resolve", "unresolved"} THEN "resolve" ELSE "connect"

(* The call returns by a command, an unreadable answer, a timeout or an    *)
(* error; `at` is the step it was at.                                      *)
Returns(c, how, at) ==
    /\ call' = [call EXCEPT ![c] = "returned"]
    /\ rec' = [rec EXCEPT ![c] = Finished(@, how)]
    /\ stage' = [stage EXCEPT ![c] = at]
    /\ UNCHANGED made

MutantNotDrained(to) == UNCHANGED poolVars

(* The deferred end of the call: the body is read to its end and closed,   *)
(* which gives the connection back.                                        *)
Drains(to) == GivesBack(to)

ReturnsDrained(c, how, at) ==
    \E to \in Receivers :
        /\ call' = [CallsServed(to) EXCEPT ![c] = "returned"]
        /\ rec' = [RecsServed(to) EXCEPT ![c] = Finished(@, how)]
        /\ stage' = [stage EXCEPT ![c] = at]
        /\ UNCHANGED made
        /\ Drains(to)

MayCall(c) ==
    /\ up /\ made < MaxCalls
    /\ call[c] \in {"none", "returned"} /\ dial[c].pc = "off"

(* The request cannot be built: finish is called without an error.         *)
PausedUnbuilt(c) ==
    /\ MayCall(c) /\ url = "bad"
    /\ call' = [call EXCEPT ![c] = "returned"]
    /\ rec' = [rec EXCEPT ![c] = Finished(NewRecorder, "command")]
    /\ stage' = [stage EXCEPT ![c] = "unbuilt"]
    /\ made' = made + 1
    /\ UNCHANGED <<envVars, addrVars, dial, poolVars>>

(* client.Do: an idle connection is taken, or a dial started and waited for. *)
PausedBegins(c) ==
    /\ MayCall(c) /\ url # "bad"
    /\ IF idle > 0
       THEN /\ idle' = idle - 1
            /\ call' = [call EXCEPT ![c] = "sent"]
            /\ rec' = [rec EXCEPT ![c] = GotConn(NewRecorder, TRUE)]
            /\ UNCHANGED dial
       ELSE /\ call' = [call EXCEPT ![c] = "waiting"]
            /\ rec' = [rec EXCEPT ![c] = NewRecorder]
            /\ dial' = [dial EXCEPT ![c].pc = "begin"]
            /\ UNCHANGED idle
    /\ stage' = [stage EXCEPT ![c] = ""]
    /\ made' = made + 1
    /\ UNCHANGED <<envVars, addrVars, open>>

(* The scheduler begins to answer.                                         *)
Answers(c) ==
    /\ call[c] = "sent"
    /\ call' = [call EXCEPT ![c] = "reading"]
    /\ UNCHANGED <<envVars, addrVars, rec, stage, made, dial, poolVars>>

Decodes(c) ==
    /\ call[c] = "reading"
    /\ ReturnsDrained(c, "command", "")
    /\ UNCHANGED <<envVars, addrVars, dial>>

(* The answer is not a command, or is cut short; then nothing is left to   *)
(* drain and the connection is closed.                                     *)
CannotDecode(c) ==
    /\ call[c] = "reading"
    /\ \/ ReturnsDrained(c, "unreadable", "unreadable_response")
       \/ /\ Returns(c, "unreadable", "unreadable_response")
          /\ open' = open - 1
          /\ UNCHANGED idle
    /\ UNCHANGED <<envVars, addrVars, dial>>

(* The connection is lost before an answer comes.                          *)
Lost(c) ==
    /\ call[c] = "sent"
    /\ Returns(c, "error", "connect")
    /\ open' = open - 1
    /\ UNCHANGED <<envVars, addrVars, dial, idle>>

(* The delay of pausedEventTimeout passes before a connection is obtained. *)
TimesOutWaiting(c) ==
    /\ call[c] = "waiting"
    /\ Returns(c, "timeout", DialStage(c))
    /\ UNCHANGED <<envVars, addrVars, dial, poolVars>>

MutantUpToHeaders == {"sent"}

(* The client's timeout covers the reading of the body.                    *)
Timed == {"sent", "reading"}

TimesOutSent(c) ==
    /\ call[c] \in Timed
    /\ Returns(c, "timeout", "timeout")
    /\ open' = open - 1
    /\ UNCHANGED <<envVars, addrVars, dial, idle>>

TimesOut(c) == TimesOutWaiting(c) \/ TimesOutSent(c)

----------------------------------------------------------------------------
(* schedulerDialContext, in a goroutine of the transport.                  *)
dialKeeps == <<envVars, addrVars, call, stage, made, poolVars>>

(* A dial whose call is over before it starts is not made.                 *)
DialSkipped(c) ==
    /\ dial[c].pc = "begin" /\ call[c] # "waiting"
    /\ dial' = [dial EXCEPT ![c] = NoDial]
    /\ UNCHANGED <<dialKeeps, rec>>

DialKeptAddress(c) ==
    /\ dial[c].pc = "begin" /\ call[c] = "waiting"
    /\ cache # NoAddr
    /\ dial' = [dial EXCEPT ![c].pc = "connect", ![c].addr = cache, ![c].kept = TRUE]
    /\ UNCHANGED <<dialKeeps, rec>>

(* Without a kept address: the name is resolved here; an address needs no  *)
(* resolution.                                                             *)
DialInPlace(c) ==
    /\ dial[c].pc = "begin" /\ call[c] = "waiting"
    /\ cache = NoAddr
    /\ \/ /\ url = "name"
          /\ dial' = [dial EXCEPT ![c].pc = "resolve"]
          /\ Notes(c, "begun")
       \/ /\ url = "address"
          /\ dial' = [dial EXCEPT ![c].pc = "connect", ![c].addr = 0]
          /\ UNCHANGED rec
    /\ UNCHANGED dialKeeps

(* resolveOnce, again and again without a wait; the context of the dial is *)
(* not the one that expires with the call.                                 *)
DialResolves(c) ==
    /\ dial[c].pc = "resolve"
    /\ \/ /\ dial' = [dial EXCEPT ![c] = [NoDial EXCEPT !.pc = "connect", !.addr = home]]
          /\ Notes(c, "ok")
       \/ /\ dial[c].attempt < MaxAttempts
          /\ dial' = [dial EXCEPT ![c].attempt = NextAttempt(@)]
          /\ UNCHANGED rec
       \/ /\ dial[c].attempt = MaxAttempts
          /\ dial' = [dial EXCEPT ![c] = [NoDial EXCEPT !.pc = "unresolved"]]
          /\ Notes(c, "failed")
    /\ UNCHANGED dialKeeps

(* The address resolved here is kept only once it answered.                *)
DialConnects(c) ==
    /\ dial[c].pc = "connect" /\ dial[c].addr = home
    /\ dial' = [dial EXCEPT ![c] =
                    IF dial[c].kept \/ url = "address"
                    THEN [NoDial EXCEPT !.pc = "opened"]
                    ELSE [NoDial EXCEPT !.pc = "keep", !.addr = home]]
    /\ open' = open + 1
    /\ UNCHANGED <<envVars, addrVars, callVars, idle>>

DialCannotConnect(c) ==
    /\ dial[c].pc = "connect"
    /\ dial' = [dial EXCEPT ![c] = [NoDial EXCEPT
                    !.pc = IF dial[c].kept THEN "forget" ELSE "failed"]]
    /\ UNCHANGED <<dialKeeps, rec>>

DialKeeps(c) ==
    /\ dial[c].pc = "keep"
    /\ cache' = dial[c].addr
    /\ dial' = [dial EXCEPT ![c] = [NoDial EXCEPT !.pc = "opened"]]
    /\ UNCHANGED <<envVars, resolving, res, callVars, poolVars>>

(* forget, then resolveAsync.                                              *)
DialForgets(c) ==
    /\ dial[c].pc = "forget"
    /\ cache' = NoAddr
    /\ dial' = [dial EXCEPT ![c].pc = "respawn"]
    /\ UNCHANGED <<envVars, resolving, res, callVars, poolVars>>

DialRespawns(c) ==
    /\ dial[c].pc = "respawn"
    /\ resolveAsync
    /\ dial' = [dial EXCEPT ![c].pc = "failed"]
    /\ UNCHANGED <<envVars, cache, callVars, poolVars>>

(* The connection goes to the call that asked for it, if it still waits.   *)
DialDelivers(c) ==
    /\ dial[c].pc = "opened"
    /\ dial' = [dial EXCEPT ![c] = NoDial]
    /\ \/ /\ call[c] = "waiting"
          /\ call' = [call EXCEPT ![c] = "sent"]
          /\ rec' = [rec EXCEPT ![c] = GotConn(@, FALSE)]
          /\ UNCHANGED poolVars
       \/ /\ call[c] # "waiting"
          /\ \E to \in Receivers :
                 call' = CallsServed(to) /\ rec' = RecsServed(to) /\ GivesBack(to)
    /\ UNCHANGED <<envVars, addrVars, stage, made>>

DialFails(c) ==
    /\ dial[c].pc \in {"unresolved", "failed"}
    /\ dial' = [dial EXCEPT ![c] = NoDial]
    /\ IF call[c] = "waiting" THEN Returns(c, "error", DialStage(c))
                              ELSE UNCHANGED callVars
    /\ UNCHANGED <<envVars, addrVars, poolVars>>

DialStep(c) ==
    \/ DialSkipped(c) \/ DialKeptAddress(c) \/ DialInPlace(c) \/ DialResolves(c)
    \/ DialConnects(c) \/ DialCannotConnect(c) \/ DialKeeps(c) \/ DialForgets(c)
    \/ DialRespawns(c) \/ DialDelivers(c) \/ DialFails(c)

----------------------------------------------------------------------------
(* The scheduler restarts under another address.                           *)
SchedulerMoves ==
    /\ home < MaxMoves
    /\ home' = home + 1
    /\ UNCHANGED <<url, up, addrVars, callVars, dial, poolVars>>

(* An idle connection is closed, by the other side or after 90 s.          *)
IdleCloses ==
    /\ idle > 0
    /\ idle' = idle - 1
    /\ open' = open - 1
    /\ UNCHANGED <<envVars, addrVars, callVars, dial>>

Next ==
    \/ NewActionProxy \/ SchedulerMoves \/ IdleCloses
    \/ \E r \in Resolvers : ResolverStep(r)
    \/ \E c \in Calls :
           \/ PausedUnbuilt(c) \/ PausedBegins(c) \/ Answers(c) \/ Decodes(c)
           \/ CannotDecode(c) \/ Lost(c) \/ TimesOut(c) \/ DialStep(c)

Spec == Init /\ [][Next]_vars

(* The goroutines run; each resolution attempt and each connection attempt *)
(* ends, by its own timeout at the latest; so does the call, by its own.   *)
FairSpec ==
    /\ Spec
    /\ \A r \in Resolvers : WF_vars(ResolverStep(r))
    /\ \A c \in Calls : WF_vars(DialStep(c)) /\ WF_vars(TimesOut(c))

----------------------------------------------------------------------------
(* addrCache.resolving tells the truth: at most one goroutine resolves in  *)
(* the background, and the flag is up exactly as long as it lives.  Were   *)
(* it left up, no address would ever be resolved again.                    *)
OneResolver ==
    LET live == {r \in Resolvers : res[r].pc # "off"}
    IN Cardinality(live) = IF resolving THEN 1 ELSE 0

(* "Chaque appel dit ... s'il echoue, a quelle etape": the cause recorded  *)
(* is the step the call was at when it returned, although the dial goes on *)
(* in a goroutine of its own.  One case is blamed on the wrong step: a     *)
(* call served by a connection another gave back, which fails while its    *)
(* own dial still resolves, or has failed to.                              *)
FailureIsTrue ==
    \A c \in Calls :
        call[c] = "returned" /\ url # "bad" =>
            \/ rec[c].failure = stage[c]
            \/ /\ rec[c].failure = "resolve" /\ rec[c].reused
               /\ stage[c] \in {"timeout", "connect"}

(* Every open connection is idle in the pool, in use by one call, or about *)
(* to be delivered: no way out of a call leaks one, or uses one twice.     *)
NoConnectionLeaks ==
    open = idle + Cardinality({c \in Calls : call[c] \in {"sent", "reading"}})
                + Cardinality({c \in Calls : dial[c].pc \in {"keep", "opened"}})

(* "ses rappels ne doivent plus rien ecrire une fois l'appel revenu": a    *)
(* recorder that is closed stays as it is until the next call replaces it. *)
RecorderSealed ==
    [][\A c \in Calls : rec[c].closed => rec'[c] = rec[c] \/ MayCall(c)]_vars

(* Everything started here ends, the reports being finitely many: the      *)
(* resolution in the background, whatever the name server does; a dial     *)
(* nobody waits for any more; a report, within the delay of its freeze.    *)
ChannelEnds ==
    <>[](/\ ~resolving
         /\ \A c \in Calls : call[c] \in {"none", "returned"} /\ dial[c].pc = "off")
=============================================================================
