----------------------- MODULE SchedulerChannelProofs -----------------------
(***************************************************************************)
(* The channel to the scheduler, for any number of reports under way, any  *)
(* number of attempts, any size of the pool and a scheduler that moves at  *)
(* any time.                                                               *)
(***************************************************************************)
EXTENDS SchedulerChannel, FiniteSetTheorems, TLAPS

Dialing == {"resolve", "unresolved"}
Unresolved == {"begun", "failed"}
Connected == {"sent", "reading"}

(* CTypeOK, but for the number of open connections: that it never becomes  *)
(* negative is not a matter of types.                                      *)
AddrTypes ==
    /\ url \in Urls /\ up \in BOOLEAN /\ home \in Addrs
    /\ cache \in Addrs \union {NoAddr} /\ resolving \in BOOLEAN
    /\ res \in [Resolvers -> Goroutines]
CallTypes ==
    /\ call \in [Calls -> {"none", "waiting", "sent", "reading", "returned"}]
    /\ rec \in [Calls -> Recorders]
    /\ stage \in [Calls -> Failures \union {"unbuilt"}]
    /\ made \in 0 .. MaxCalls
DialTypes == dial \in [Calls -> Dials]
Types == AddrTypes /\ CallTypes /\ DialTypes /\ idle \in 0 .. MaxIdle

(* The goroutine that resolves, if any, is the only one, and the flag of   *)
(* addrCache is its own.  So a name is always free when resolveAsync needs *)
(* one.                                                                    *)
FlagIsOwned ==
    /\ \A r \in Resolvers : res[r].pc # "off" => resolving
    /\ resolving => \E r \in Resolvers : res[r].pc # "off"
    /\ \A r, q \in Resolvers : res[r].pc # "off" /\ res[q].pc # "off" => r = q

(* The recorder of a call, its dial and the call itself agree: it is open  *)
(* until the call returns; a call that waits is at the step of its dial;   *)
(* one that has a connection while its own dial goes on, or after it gave  *)
(* up, was served by another.                                              *)
RecorderAgrees(c) ==
    /\ call[c] \in {"waiting", "sent", "reading"} => ~rec[c].closed
    /\ call[c] = "returned" => rec[c].closed
    /\ call[c] = "waiting" =>
           /\ ~rec[c].gotConn
           /\ rec[c].resolve \in Unresolved <=> dial[c].pc \in Dialing
    /\ call[c] \in Connected =>
           /\ rec[c].gotConn
           /\ dial[c].pc # "off" \/ rec[c].resolve \in Unresolved => rec[c].reused

(* The failure of a call that has returned, as FailureIsTrue states it.    *)
FailureAgrees(c) ==
    call[c] = "returned" /\ url # "bad" =>
        \/ rec[c].failure = stage[c]
        \/ /\ rec[c].failure = "resolve" /\ rec[c].reused
           /\ stage[c] \in {"timeout", "connect"}

Agrees(c) == RecorderAgrees(c) /\ FailureAgrees(c)
RecordersAgree == \A c \in Calls : Agrees(c)

InUse == {c \in Calls : call[c] \in {"sent", "reading"}}
Opened == {c \in Calls : dial[c].pc \in {"keep", "opened"}}

(* The inductive invariant.                                                *)
CInv == Types /\ open \in Nat /\ FlagIsOwned /\ RecordersAgree /\ NoConnectionLeaks

----------------------------------------------------------------------------
(* The values the records take.                                            *)

LEMMA NewRecords ==
  /\ NewRecorder \in Recorders
  /\ NoDial \in Dials
  /\ NoResolver \in Goroutines
<1>1. 1 \in 1 .. MaxAttempts
  BY SchedulerChannelAssumption DEF SchedulerChannelAssumption
<1> QED
  BY <1>1 DEF NewRecorder, NoDial, NoResolver, Recorders, Dials, Goroutines, Failures

(* What the recorder becomes when a connection is had, a resolution noted  *)
(* and the call finished.                                                  *)
LEMMA RecorderOps ==
  ASSUME NEW r \in Recorders
  PROVE  /\ \A b \in BOOLEAN :
               /\ GotConn(r, b) \in Recorders
               /\ ~r.closed => GotConn(r, b) = [r EXCEPT !.gotConn = TRUE, !.reused = b]
         /\ \A step \in {"no", "begun", "ok", "failed"} :
               /\ Noted(r, [r EXCEPT !.resolve = step]) \in Recorders
               /\ ~r.closed => Noted(r, [r EXCEPT !.resolve = step])
                                  = [r EXCEPT !.resolve = step]
  BY DEF Recorders, GotConn, Noted

LEMMA FailureType ==
  ASSUME NEW r, NEW how
  PROVE  Failure(r, how) \in Failures
<1>1. CASE how = "unreadable"
  BY <1>1 DEF Failure, Failures
<1>2. CASE how = "command"
  BY <1>2 DEF Failure, Failures
<1>3. CASE how # "unreadable" /\ how # "command"
  BY <1>3 DEF Failure, Failures
<1> QED
  BY <1>1, <1>2, <1>3

LEMMA FinishedType ==
  ASSUME NEW r \in Recorders, NEW how
  PROVE  /\ Finished(r, how) \in Recorders
         /\ Finished(r, how).closed
         /\ Finished(r, how).failure = Failure(r, how)
         /\ Finished(r, how).reused = r.reused
  BY FailureType DEF Finished, Recorders

LEMMA ServedType ==
  ASSUME CallTypes, NEW to \in SUBSET Calls
  PROVE  /\ CallsServed(to) \in [Calls -> {"none", "waiting", "sent", "reading", "returned"}]
         /\ RecsServed(to) \in [Calls -> Recorders]
  BY RecorderOps DEF CallTypes, CallsServed, RecsServed

LEMMA ReceiversAre ==
  ASSUME NEW to \in Receivers
  PROVE  /\ to \in SUBSET Calls
         /\ to \subseteq Waiting
         /\ to = {} \/ \E w \in Waiting : to = {w}
  BY DEF Receivers, Waiting

----------------------------------------------------------------------------
(* The steps, by what they are steps of.                                   *)

CallStep(c) ==
    \/ PausedUnbuilt(c) \/ PausedBegins(c) \/ Answers(c) \/ Decodes(c)
    \/ CannotDecode(c) \/ Lost(c) \/ TimesOut(c)

(* The steps of a dial that leave the kept address and its resolution.     *)
DialQuiet(c) ==
    \/ DialSkipped(c) \/ DialKeptAddress(c) \/ DialInPlace(c) \/ DialResolves(c)
    \/ DialConnects(c) \/ DialCannotConnect(c) \/ DialDelivers(c) \/ DialFails(c)

LEMMA NextSplits ==
  ASSUME [Next]_vars
  PROVE  \/ NewActionProxy \/ SchedulerMoves \/ IdleCloses \/ UNCHANGED vars
         \/ \E r \in Resolvers : ResolverStep(r)
         \/ \E c \in Calls : CallStep(c) \/ DialQuiet(c) \/ DialKeeps(c)
                              \/ DialForgets(c) \/ DialRespawns(c)
  BY DEF Next, CallStep, DialQuiet, DialStep

LEMMA AddrLeft ==
  ASSUME NEW c \in Calls, CallStep(c) \/ DialQuiet(c)
  PROVE  url' = url /\ up' = up /\ home' = home /\ UNCHANGED addrVars
<1>1. CASE CallStep(c)
  BY <1>1 DEF CallStep, PausedUnbuilt, PausedBegins, Answers, Decodes, CannotDecode, Lost,
     TimesOut, TimesOutWaiting, TimesOutSent, envVars
<1>2. CASE DialQuiet(c)
  BY <1>2 DEF DialQuiet, DialSkipped, DialKeptAddress, DialInPlace, DialResolves,
     DialConnects, DialCannotConnect, DialDelivers, DialFails, dialKeeps, envVars
<1> QED
  BY <1>1, <1>2

LEMMA CallsLeft ==
  ASSUME \/ NewActionProxy \/ SchedulerMoves \/ IdleCloses \/ UNCHANGED vars
         \/ \E r \in Resolvers : ResolverStep(r)
  PROVE  UNCHANGED callVars /\ dial' = dial /\ url' = url
  BY DEF NewActionProxy, SchedulerMoves, IdleCloses, vars, ResolverStep, ResolverTries,
     ResolverSets, ResolverEnds, envVars

LEMMA ResolverGone ==
  ASSUME NEW f \in [Resolvers -> Goroutines], NEW g \in Goroutines, NEW r
  PROVE  [f EXCEPT ![r] = g] \in [Resolvers -> Goroutines]
  OBVIOUS

LEMMA ResolveAsyncTypes ==
  ASSUME AddrTypes, resolveAsync
  PROVE  resolving' \in BOOLEAN /\ res' \in [Resolvers -> Goroutines]
<1>1. [NoResolver EXCEPT !.pc = "try"] \in Goroutines
  BY NewRecords DEF Goroutines
<1> QED
  BY <1>1, ResolverGone DEF AddrTypes, resolveAsync

LEMMA AddrTypesStep ==
  ASSUME Types, [Next]_vars
  PROVE  AddrTypes'
<1>1. CASE NewActionProxy
  BY <1>1, ResolveAsyncTypes DEF NewActionProxy, Types, AddrTypes
<1>2. CASE SchedulerMoves
  BY <1>2, SchedulerChannelAssumption
  DEF SchedulerChannelAssumption, SchedulerMoves, Types, AddrTypes, Addrs, addrVars
<1>3. CASE IdleCloses \/ UNCHANGED vars
  BY <1>3 DEF IdleCloses, vars, envVars, addrVars, Types, AddrTypes
<1>4. ASSUME NEW r \in Resolvers, ResolverStep(r)
      PROVE  AddrTypes'
  <2>1. /\ [NoResolver EXCEPT !.pc = "found", !.ip = home] \in Goroutines
        /\ [NoResolver EXCEPT !.pc = "ending"] \in Goroutines
        /\ NoResolver \in Goroutines
    BY NewRecords DEF Goroutines, Types, AddrTypes
  <2>2. res[r] \in Goroutines /\ url' = url /\ up' = up /\ home' = home
    BY <1>4 DEF Types, AddrTypes, ResolverStep, ResolverTries, ResolverSets,
       ResolverEnds, envVars
  <2>3. CASE ResolverTries(r)
    <3>1. res[r].attempt < MaxAttempts =>
              [res[r] EXCEPT !.attempt = NextAttempt(res[r].attempt)] \in Goroutines
      <4>1. res[r].attempt < MaxAttempts => NextAttempt(res[r].attempt) \in 1 .. MaxAttempts
        BY <2>2, SchedulerChannelAssumption
        DEF SchedulerChannelAssumption, Goroutines, NextAttempt
      <4> QED
        BY <2>2, <4>1 DEF Goroutines
    <3>2. \/ res' = [res EXCEPT ![r] = [NoResolver EXCEPT !.pc = "found", !.ip = home]]
          \/ /\ res[r].attempt < MaxAttempts
             /\ res' = [res EXCEPT ![r] =
                            [res[r] EXCEPT !.attempt = NextAttempt(res[r].attempt)]]
          \/ res' = [res EXCEPT ![r] = [NoResolver EXCEPT !.pc = "ending"]]
      BY <2>3 DEF ResolverTries, Types, AddrTypes
    <3>3. res' \in [Resolvers -> Goroutines]
      BY <2>1, <3>1, <3>2, ResolverGone DEF Types, AddrTypes
    <3> QED
      BY <2>2, <2>3, <3>3 DEF ResolverTries, Types, AddrTypes
  <2>4. CASE ResolverSets(r)
    <3>1. res' \in [Resolvers -> Goroutines] /\ cache' \in Addrs \union {NoAddr}
      BY <2>1, <2>2, <2>4, ResolverGone DEF ResolverSets, Types, AddrTypes, Goroutines
    <3> QED
      BY <2>2, <2>4, <3>1 DEF ResolverSets, Types, AddrTypes
  <2>5. CASE ResolverEnds(r)
    BY <2>1, <2>2, <2>5, ResolverGone DEF ResolverEnds, Types, AddrTypes
  <2> QED
    BY <1>4, <2>3, <2>4, <2>5 DEF ResolverStep
<1>5. ASSUME NEW c \in Calls, CallStep(c) \/ DialQuiet(c)
      PROVE  AddrTypes'
  BY <1>5, AddrLeft DEF Types, AddrTypes, addrVars
<1>6. ASSUME NEW c \in Calls, DialKeeps(c) \/ DialForgets(c)
      PROVE  AddrTypes'
  <2>1. dial[c].addr \in Addrs \union {NoAddr}
    BY DEF Types, DialTypes, Dials
  <2> QED
    BY <1>6, <2>1 DEF DialKeeps, DialForgets, envVars, Types, AddrTypes
<1>7. ASSUME NEW c \in Calls, DialRespawns(c)
      PROVE  AddrTypes'
  BY <1>7, ResolveAsyncTypes DEF DialRespawns, envVars, Types, AddrTypes
<1> QED
  BY <1>1, <1>2, <1>3, <1>4, <1>5, <1>6, <1>7, NextSplits

LEMMA DialTypesStep ==
  ASSUME Types, [Next]_vars
  PROVE  DialTypes'
<1> DEFINE Pcs == {"off", "begin", "resolve", "connect", "keep", "forget", "respawn",
                   "opened", "unresolved", "failed"}
<1>1. ASSUME NEW d \in Dials, NEW pc \in Pcs
      PROVE  /\ [d EXCEPT !.pc = pc] \in Dials
             /\ \A a \in Addrs : [d EXCEPT !.pc = pc, !.addr = a] \in Dials
             /\ \A a \in Addrs : [d EXCEPT !.pc = pc, !.addr = a, !.kept = TRUE] \in Dials
  BY DEF Dials
<1>2. ASSUME NEW c \in Calls, NEW d \in Dials, dial' = [dial EXCEPT ![c] = d]
      PROVE  DialTypes'
  BY <1>2 DEF Types, DialTypes
<1>3. ASSUME NEW c \in Calls
      PROVE  dial[c] \in Dials /\ NoDial \in Dials /\ dial \in [Calls -> Dials]
             /\ home \in Addrs
  BY NewRecords DEF Types, DialTypes, AddrTypes
<1>4. ASSUME dial' = dial
      PROVE  DialTypes'
  BY <1>4 DEF Types, DialTypes
<1>5. ASSUME NEW c \in Calls, CallStep(c)
      PROVE  DialTypes'
  <2>1. dial' = dial \/ dial' = [dial EXCEPT ![c] = [dial[c] EXCEPT !.pc = "begin"]]
    BY <1>3, <1>5 DEF CallStep, PausedUnbuilt, PausedBegins, Answers, Decodes, CannotDecode,
       Lost, TimesOut, TimesOutWaiting, TimesOutSent
  <2> QED
    BY <1>1, <1>2, <1>3, <1>4, <2>1
<1>6. ASSUME NEW c \in Calls, \/ DialSkipped(c) \/ DialKeptAddress(c)
                              \/ DialInPlace(c) \/ DialDelivers(c) \/ DialFails(c)
      PROVE  DialTypes'
  <2>1. 0 \in Addrs
    BY SchedulerChannelAssumption DEF SchedulerChannelAssumption, Addrs
  <2>2. \/ dial' = [dial EXCEPT ![c] = NoDial]
        \/ cache \in Addrs /\ dial' = [dial EXCEPT ![c] =
               [dial[c] EXCEPT !.pc = "connect", !.addr = cache, !.kept = TRUE]]
        \/ dial' = [dial EXCEPT ![c] = [dial[c] EXCEPT !.pc = "resolve"]]
        \/ dial' = [dial EXCEPT ![c] = [dial[c] EXCEPT !.pc = "connect", !.addr = 0]]
    BY <1>3, <1>6 DEF DialSkipped, DialKeptAddress, DialInPlace, DialDelivers, DialFails,
       Types, AddrTypes
  <2> QED
    BY <1>1, <1>2, <1>3, <2>1, <2>2
<1>7. ASSUME NEW c \in Calls, DialResolves(c)
      PROVE  DialTypes'
  <2>1. dial[c].attempt < MaxAttempts =>
            [dial[c] EXCEPT !.attempt = NextAttempt(dial[c].attempt)] \in Dials
    <3>1. dial[c].attempt < MaxAttempts => NextAttempt(dial[c].attempt) \in 1 .. MaxAttempts
      BY <1>3, SchedulerChannelAssumption DEF SchedulerChannelAssumption, Dials, NextAttempt
    <3> QED
      BY <1>3, <3>1 DEF Dials
  <2>2. \/ dial' = [dial EXCEPT ![c] = [NoDial EXCEPT !.pc = "connect", !.addr = home]]
        \/ dial[c].attempt < MaxAttempts /\ dial' = [dial EXCEPT ![c] =
               [dial[c] EXCEPT !.attempt = NextAttempt(dial[c].attempt)]]
        \/ dial' = [dial EXCEPT ![c] = [NoDial EXCEPT !.pc = "unresolved"]]
    BY <1>3, <1>7 DEF DialResolves
  <2> QED
    BY <1>1, <1>2, <1>3, <2>1, <2>2
<1>8. ASSUME NEW c \in Calls, DialConnects(c) \/ DialCannotConnect(c)
      PROVE  DialTypes'
  <2>1. \/ dial' = [dial EXCEPT ![c] = [NoDial EXCEPT !.pc = "opened"]]
        \/ dial' = [dial EXCEPT ![c] = [NoDial EXCEPT !.pc = "keep", !.addr = home]]
        \/ dial' = [dial EXCEPT ![c] = [NoDial EXCEPT !.pc = "forget"]]
        \/ dial' = [dial EXCEPT ![c] = [NoDial EXCEPT !.pc = "failed"]]
    BY <1>3, <1>8 DEF DialConnects, DialCannotConnect
  <2> QED
    BY <1>1, <1>2, <1>3, <2>1
<1>9. ASSUME NEW c \in Calls, DialKeeps(c) \/ DialForgets(c) \/ DialRespawns(c)
      PROVE  DialTypes'
  <2>1. \/ dial' = [dial EXCEPT ![c] = [NoDial EXCEPT !.pc = "opened"]]
        \/ dial' = [dial EXCEPT ![c] = [dial[c] EXCEPT !.pc = "respawn"]]
        \/ dial' = [dial EXCEPT ![c] = [dial[c] EXCEPT !.pc = "failed"]]
    BY <1>3, <1>9 DEF DialKeeps, DialForgets, DialRespawns
  <2> QED
    BY <1>1, <1>2, <1>3, <2>1
<1> QED
  BY <1>4, <1>5, <1>6, <1>7, <1>8, <1>9, NextSplits, CallsLeft DEF DialQuiet

(* A call that returns.                                                    *)
LEMMA ReturnsTypes ==
  ASSUME Types, NEW c \in Calls, NEW how, NEW at \in Failures,
         Returns(c, how, at) \/ ReturnsDrained(c, how, at)
  PROVE  CallTypes'
<1>1. CASE Returns(c, how, at)
  BY <1>1, FinishedType DEF Returns, Types, CallTypes
<1>2. CASE ReturnsDrained(c, how, at)
  <2>1. PICK to \in Receivers :
          /\ call' = [CallsServed(to) EXCEPT ![c] = "returned"]
          /\ rec' = [RecsServed(to) EXCEPT ![c] = Finished(@, how)]
          /\ stage' = [stage EXCEPT ![c] = at]
          /\ made' = made
    BY <1>2 DEF ReturnsDrained
  <2>2. /\ CallsServed(to) \in [Calls -> {"none", "waiting", "sent", "reading", "returned"}]
        /\ RecsServed(to) \in [Calls -> Recorders]
    BY ReceiversAre, ServedType DEF Types
  <2> QED
    BY <2>1, <2>2, FinishedType DEF Types, CallTypes
<1> QED
  BY <1>1, <1>2

LEMMA CallTypesStep ==
  ASSUME Types, [Next]_vars
  PROVE  CallTypes'
<1>1. ASSUME UNCHANGED callVars
      PROVE  CallTypes'
  BY <1>1 DEF callVars, Types, CallTypes
<1>2. ASSUME NEW c \in Calls, CallStep(c)
      PROVE  CallTypes'
  <2>1. CASE PausedUnbuilt(c) \/ PausedBegins(c)
    <3>1. made + 1 \in 0 .. MaxCalls
      <4>1. made < MaxCalls /\ made \in 0 .. MaxCalls
        BY <2>1 DEF PausedUnbuilt, PausedBegins, MayCall, Types, CallTypes
      <4> QED
        BY <4>1, SchedulerChannelAssumption DEF SchedulerChannelAssumption
    <3>2. Finished(NewRecorder, "command") \in Recorders
          /\ GotConn(NewRecorder, TRUE) \in Recorders /\ NewRecorder \in Recorders
      BY NewRecords, FinishedType, RecorderOps
    <3> QED
      BY <2>1, <3>1, <3>2 DEF PausedUnbuilt, PausedBegins, Types, CallTypes, Failures
  <2>2. CASE Answers(c)
    BY <2>2 DEF Answers, Types, CallTypes
  <2>3. CASE Decodes(c) \/ CannotDecode(c)
    BY <2>3, ReturnsTypes DEF Decodes, CannotDecode, Failures
  <2>4. CASE Lost(c) \/ TimesOut(c)
    <3>1. DialStage(c) \in Failures
      BY DEF DialStage, Failures
    <3> QED
      BY <2>4, <3>1, ReturnsTypes
      DEF Lost, TimesOut, TimesOutWaiting, TimesOutSent, Failures
  <2> QED
    BY <1>2, <2>1, <2>2, <2>3, <2>4 DEF CallStep
<1>3. ASSUME NEW c \in Calls, DialInPlace(c) \/ DialResolves(c)
      PROVE  CallTypes'
  <2>1. \/ rec' = rec
        \/ \E step \in {"no", "begun", "ok", "failed"} : Notes(c, step)
    BY <1>3 DEF DialInPlace, DialResolves
  <2>2. ASSUME NEW step \in {"no", "begun", "ok", "failed"}, Notes(c, step)
        PROVE  rec' \in [Calls -> Recorders]
    <3>1. rec \in [Calls -> Recorders] /\ rec[c] \in Recorders
      BY DEF Types, CallTypes
    <3>2. Noted(rec[c], [rec[c] EXCEPT !.resolve = step]) \in Recorders
      BY <3>1, RecorderOps
    <3> QED
      BY <2>2, <3>1, <3>2 DEF Notes
  <2>3. rec' \in [Calls -> Recorders]
    BY <2>1, <2>2 DEF Types, CallTypes
  <2> QED
    BY <1>3, <2>3 DEF DialInPlace, DialResolves, dialKeeps, Types, CallTypes
<1>4. ASSUME NEW c \in Calls, DialDelivers(c)
      PROVE  CallTypes'
  <2>1. CASE call' = [call EXCEPT ![c] = "sent"] /\ rec' = [rec EXCEPT ![c] = GotConn(@, FALSE)]
    BY <1>4, <2>1, RecorderOps DEF DialDelivers, Types, CallTypes
  <2>2. ASSUME NEW to \in Receivers, call' = CallsServed(to), rec' = RecsServed(to)
        PROVE  CallTypes'
    BY <1>4, <2>2, ReceiversAre, ServedType DEF DialDelivers, Types, CallTypes
  <2> QED
    BY <1>4, <2>1, <2>2 DEF DialDelivers
<1>5. ASSUME NEW c \in Calls, DialFails(c)
      PROVE  CallTypes'
  <2>1. DialStage(c) \in Failures
    BY DEF DialStage, Failures
  <2> QED
    BY <1>1, <1>5, <2>1, ReturnsTypes DEF DialFails
<1>6. ASSUME NEW c \in Calls,
             \/ DialSkipped(c) \/ DialKeptAddress(c) \/ DialConnects(c)
             \/ DialCannotConnect(c) \/ DialKeeps(c) \/ DialForgets(c) \/ DialRespawns(c)
      PROVE  UNCHANGED callVars
  BY <1>6 DEF DialSkipped, DialKeptAddress, DialConnects, DialCannotConnect, DialKeeps,
     DialForgets, DialRespawns, dialKeeps, callVars
<1> QED
  BY <1>1, <1>2, <1>3, <1>4, <1>5, <1>6, NextSplits, CallsLeft DEF DialQuiet

----------------------------------------------------------------------------
(* The flag of addrCache.                                                  *)

LEMMA ResolveAsyncOwned ==
  ASSUME AddrTypes, FlagIsOwned, resolveAsync
  PROVE  FlagIsOwned'
<1>1. CASE url = "name" /\ ~resolving
  <2> DEFINE r == CHOOSE x \in Resolvers : res[x].pc = "off"
  <2>1. \A x \in Resolvers : res[x].pc = "off"
    BY <1>1 DEF FlagIsOwned
  <2>2. r \in Resolvers
    BY <2>1, SchedulerChannelAssumption DEF SchedulerChannelAssumption
  <2>3. resolving' /\ res' = [res EXCEPT ![r] = [NoResolver EXCEPT !.pc = "try"]]
    BY <1>1 DEF resolveAsync, NotResolving
  <2> HIDE DEF r
  <2>4. \A x \in Resolvers : res'[x].pc # "off" <=> x = r
    BY <2>1, <2>2, <2>3 DEF AddrTypes, NoResolver
  <2> QED
    BY <2>2, <2>3, <2>4 DEF FlagIsOwned
<1>2. CASE ~(url = "name" /\ ~resolving)
  BY <1>2 DEF resolveAsync, NotResolving, FlagIsOwned
<1> QED
  BY <1>1, <1>2

LEMMA FlagStep ==
  ASSUME Types, FlagIsOwned, [Next]_vars
  PROVE  FlagIsOwned'
<1>1. ASSUME resolving' = resolving, res' = res
      PROVE  FlagIsOwned'
  BY <1>1 DEF FlagIsOwned
<1>2. ASSUME NEW r \in Resolvers, ResolverStep(r)
      PROVE  FlagIsOwned'
  <2>1. CASE ResolverTries(r) \/ ResolverSets(r)
    <3>1. /\ resolving' = resolving
          /\ \A x \in Resolvers : res'[x].pc # "off" <=> res[x].pc # "off"
      BY <2>1 DEF ResolverTries, ResolverSets, Types, AddrTypes, Goroutines, NoResolver
    <3> QED
      BY <3>1 DEF FlagIsOwned
  <2>2. CASE ResolverEnds(r)
    <3>1. ~resolving' /\ \A x \in Resolvers : res'[x].pc = "off"
      BY <2>2 DEF ResolverEnds, Types, AddrTypes, NoResolver, FlagIsOwned
    <3> QED
      BY <3>1 DEF FlagIsOwned
  <2> QED
    BY <1>2, <2>1, <2>2 DEF ResolverStep
<1>3. CASE NewActionProxy
  BY <1>1, <1>3, ResolveAsyncOwned DEF NewActionProxy, Types
<1>4. CASE SchedulerMoves \/ IdleCloses \/ UNCHANGED vars
  BY <1>1, <1>4 DEF SchedulerMoves, IdleCloses, vars, addrVars
<1>5. ASSUME NEW c \in Calls, CallStep(c) \/ DialQuiet(c)
      PROVE  FlagIsOwned'
  BY <1>1, <1>5, AddrLeft DEF addrVars
<1>6. ASSUME NEW c \in Calls, DialKeeps(c) \/ DialForgets(c) \/ DialRespawns(c)
      PROVE  FlagIsOwned'
  BY <1>1, <1>6, ResolveAsyncOwned DEF DialKeeps, DialForgets, DialRespawns, Types
<1> QED
  BY <1>2, <1>3, <1>4, <1>5, <1>6, NextSplits

LEMMA FlagMeans ==
  ASSUME FlagIsOwned
  PROVE  OneResolver
<1> DEFINE live == {r \in Resolvers : res[r].pc # "off"}
<1>1. CASE resolving
  <2>1. PICK r \in Resolvers : res[r].pc # "off"
    BY <1>1 DEF FlagIsOwned
  <2>2. live = {r}
    BY <2>1 DEF FlagIsOwned
  <2>3. Cardinality(live) = 1
    BY <2>2, FS_Singleton
  <2> QED
    BY <1>1, <2>3 DEF OneResolver
<1>2. CASE ~resolving
  <2>1. live = {}
    BY <1>2 DEF FlagIsOwned
  <2>2. Cardinality(live) = 0
    BY <2>1, FS_EmptySet
  <2> QED
    BY <1>2, <2>2 DEF OneResolver
<1> QED
  BY <1>1, <1>2

----------------------------------------------------------------------------
(* Calls, dials and recorders.                                             *)

LEMMA AgreesKept ==
  ASSUME NEW c \in Calls, Agrees(c), url' = url, call'[c] = call[c], rec'[c] = rec[c],
         stage'[c] = stage[c], dial'[c].pc = dial[c].pc
  PROVE  Agrees(c)'
  BY DEF Agrees, RecorderAgrees, FailureAgrees

(* A call that does not wait is not concerned by the end of its dial.      *)
LEMMA AgreesDialOver ==
  ASSUME NEW c \in Calls, Agrees(c), url' = url, call'[c] = call[c], rec'[c] = rec[c],
         stage'[c] = stage[c], call[c] # "waiting", dial'[c].pc = "off"
  PROVE  Agrees(c)'
  BY DEF Agrees, RecorderAgrees, FailureAgrees

(* A connection another call gave back, or one's own.                      *)
LEMMA AgreesServed ==
  ASSUME Types, NEW c \in Calls, Agrees(c), call[c] = "waiting", call'[c] = "sent",
         NEW reused \in BOOLEAN, rec'[c] = GotConn(rec[c], reused),
         reused \/ (dial'[c].pc = "off" /\ dial[c].pc \notin Dialing)
  PROVE  Agrees(c)'
<1>1. /\ ~rec[c].closed /\ rec[c] \in Recorders
      /\ rec[c].resolve \in Unresolved <=> dial[c].pc \in Dialing
  BY DEF Types, CallTypes, Agrees, RecorderAgrees
<1>2. rec'[c] = [rec[c] EXCEPT !.gotConn = TRUE, !.reused = reused]
  BY <1>1, RecorderOps
<1>3. /\ rec'[c].gotConn /\ rec'[c].reused = reused /\ ~rec'[c].closed
      /\ rec'[c].resolve = rec[c].resolve
  BY <1>1, <1>2 DEF Recorders
<1> QED
  BY <1>1, <1>3 DEF Agrees, RecorderAgrees, FailureAgrees, Connected

(* The ways a call returns, with the step it was at.                       *)
WayOut(c, how, at) ==
    \/ how = "command" /\ at = "" /\ call[c] \in Connected
    \/ how = "unreadable" /\ at = "unreadable_response" /\ call[c] \in Connected
    \/ how = "error" /\ at = "connect" /\ call[c] \in Connected
    \/ how = "timeout" /\ at = "timeout" /\ call[c] \in Connected
    \/ how \in {"timeout", "error"} /\ at = DialStage(c) /\ call[c] = "waiting"

LEMMA AgreesReturned ==
  ASSUME Types, NEW c \in Calls, Agrees(c), NEW how, NEW at, WayOut(c, how, at),
         call'[c] = "returned", rec'[c] = Finished(rec[c], how), stage'[c] = at
  PROVE  Agrees(c)'
<1>1. rec[c] \in Recorders
  BY DEF Types, CallTypes
<1>2. rec'[c].closed /\ rec'[c].failure = Failure(rec[c], how)
      /\ rec'[c].reused = rec[c].reused
  BY <1>1, FinishedType
<1>3. CASE how = "command" \/ how = "unreadable"
  <2>1. rec'[c].failure = stage'[c]
    BY <1>2, <1>3 DEF WayOut, Failure
  <2> QED
    BY <1>2, <2>1 DEF Agrees, RecorderAgrees, FailureAgrees, Connected
<1>4. CASE how \in {"timeout", "error"}
  <2>1. Failure(rec[c], how) = IF rec[c].resolve \in {"begun", "failed"} THEN "resolve"
                               ELSE IF rec[c].gotConn /\ how = "timeout" THEN "timeout"
                               ELSE "connect"
    BY <1>4 DEF Failure
  <2>2. CASE call[c] = "waiting"
    <3>1. rec'[c].failure = stage'[c]
      BY <1>2, <1>4, <2>1, <2>2
      DEF WayOut, DialStage, Agrees, RecorderAgrees, Connected, Unresolved, Dialing
    <3> QED
      BY <1>2, <3>1 DEF Agrees, RecorderAgrees, FailureAgrees, Connected
  <2>3. CASE call[c] \in Connected
    <3>1. /\ stage'[c] = IF how = "timeout" THEN "timeout" ELSE "connect"
          /\ rec[c].gotConn
          /\ rec[c].resolve \in {"begun", "failed"} => rec[c].reused
      BY <1>4, <2>3 DEF WayOut, Agrees, RecorderAgrees, Connected, Unresolved
    <3>2. \/ rec'[c].failure = stage'[c]
          \/ rec'[c].failure = "resolve" /\ rec'[c].reused
             /\ stage'[c] \in {"timeout", "connect"}
      BY <1>2, <1>4, <2>1, <3>1
    <3> QED
      BY <1>2, <3>2 DEF Agrees, RecorderAgrees, FailureAgrees, Connected
  <2> QED
    BY <1>4, <2>2, <2>3 DEF WayOut
<1> QED
  BY <1>3, <1>4 DEF WayOut

LEMMA ReturnsAgree ==
  ASSUME Types, RecordersAgree, NEW c \in Calls, NEW how, NEW at, WayOut(c, how, at),
         Returns(c, how, at), url' = url,
         dial' = dial \/ dial' = [dial EXCEPT ![c] = NoDial]
  PROVE  RecordersAgree'
<1>1. /\ call' = [call EXCEPT ![c] = "returned"]
      /\ rec' = [rec EXCEPT ![c] = Finished(rec[c], how)]
      /\ stage' = [stage EXCEPT ![c] = at]
  BY DEF Returns, Types, CallTypes
<1>2. Agrees(c)'
  <2>1. call'[c] = "returned" /\ rec'[c] = Finished(rec[c], how) /\ stage'[c] = at
    BY <1>1 DEF Types, CallTypes
  <2> QED
    BY <2>1, AgreesReturned DEF RecordersAgree
<1>3. ASSUME NEW x \in Calls, x # c
      PROVE  Agrees(x)'
  <2>1. /\ call'[x] = call[x] /\ rec'[x] = rec[x] /\ stage'[x] = stage[x]
        /\ dial'[x].pc = dial[x].pc
    BY <1>1, <1>3 DEF Types, CallTypes, DialTypes
  <2> QED
    BY <2>1, AgreesKept DEF RecordersAgree
<1> QED
  BY <1>2, <1>3 DEF RecordersAgree

LEMMA DrainedAgree ==
  ASSUME Types, RecordersAgree, NEW c \in Calls, NEW how, NEW at, WayOut(c, how, at),
         call[c] # "waiting", ReturnsDrained(c, how, at), url' = url, dial' = dial
  PROVE  RecordersAgree'
<1>1. PICK to \in Receivers :
        /\ call' = [CallsServed(to) EXCEPT ![c] = "returned"]
        /\ rec' = [RecsServed(to) EXCEPT ![c] = Finished(@, how)]
        /\ stage' = [stage EXCEPT ![c] = at]
  BY DEF ReturnsDrained
<1>2. to \subseteq Waiting /\ c \notin to
  BY ReceiversAre DEF Waiting
<1>3. Agrees(c)'
  <2>1. call'[c] = "returned" /\ rec'[c] = Finished(rec[c], how) /\ stage'[c] = at
    BY <1>1, <1>2 DEF Types, CallTypes, CallsServed, RecsServed
  <2> QED
    BY <2>1, AgreesReturned DEF RecordersAgree
<1>4. ASSUME NEW x \in Calls, x # c, x \notin to
      PROVE  Agrees(x)'
  <2>1. call'[x] = call[x] /\ rec'[x] = rec[x] /\ stage'[x] = stage[x]
    BY <1>1, <1>4 DEF Types, CallTypes, CallsServed, RecsServed
  <2> QED
    BY <2>1, AgreesKept DEF RecordersAgree
<1>5. ASSUME NEW x \in to, x \in Calls
      PROVE  Agrees(x)'
  <2>1. call[x] = "waiting" /\ call'[x] = "sent" /\ rec'[x] = GotConn(rec[x], TRUE)
    BY <1>1, <1>2, <1>5 DEF Waiting, CallsServed, RecsServed
  <2> QED
    BY <1>5, <2>1, AgreesServed DEF RecordersAgree
<1> QED
  BY <1>3, <1>4, <1>5 DEF RecordersAgree

LEMMA CallStepAgree ==
  ASSUME Types, RecordersAgree, NEW c \in Calls, CallStep(c)
  PROVE  RecordersAgree'
<1>0. url' = url
  BY AddrLeft
<1>1. ASSUME PausedUnbuilt(c) \/ PausedBegins(c) \/ Answers(c), NEW x \in Calls, x # c
      PROVE  Agrees(x)'
  <2>1. /\ call'[x] = call[x] /\ rec'[x] = rec[x] /\ stage'[x] = stage[x]
        /\ dial'[x].pc = dial[x].pc
    BY <1>1 DEF PausedUnbuilt, PausedBegins, Answers, Types, CallTypes, DialTypes
  <2> QED
    BY <1>0, <2>1, AgreesKept DEF RecordersAgree
<1>2. CASE PausedUnbuilt(c)
  <2>1. /\ url = "bad" /\ call'[c] = "returned"
        /\ rec'[c] = Finished(NewRecorder, "command")
    BY <1>2 DEF PausedUnbuilt, Types, CallTypes
  <2>2. rec'[c].closed
    BY <2>1, NewRecords, FinishedType
  <2>3. Agrees(c)'
    BY <1>0, <2>1, <2>2 DEF Agrees, RecorderAgrees, FailureAgrees, Connected
  <2> QED
    BY <1>1, <1>2, <2>3 DEF RecordersAgree
<1>3. CASE PausedBegins(c)
  <2>1. CASE idle > 0
    <3>1. /\ call'[c] = "sent" /\ rec'[c] = GotConn(NewRecorder, TRUE)
      BY <1>3, <2>1 DEF PausedBegins, Types, CallTypes
    <3>2. rec'[c] = [NewRecorder EXCEPT !.gotConn = TRUE, !.reused = TRUE]
      BY <3>1, NewRecords, RecorderOps DEF NewRecorder
    <3>3. rec'[c].gotConn /\ rec'[c].reused /\ ~rec'[c].closed
      BY <3>2 DEF NewRecorder
    <3> QED
      BY <1>1, <1>3, <3>1, <3>3
      DEF RecordersAgree, Agrees, RecorderAgrees, FailureAgrees, Connected
  <2>2. CASE ~(idle > 0)
    <3>1. call'[c] = "waiting" /\ rec'[c] = NewRecorder /\ dial'[c].pc = "begin"
      BY <1>3, <2>2 DEF PausedBegins, Types, CallTypes, DialTypes, Dials
    <3>2. ~rec'[c].closed /\ ~rec'[c].gotConn /\ rec'[c].resolve = "no"
      <4>1. ~NewRecorder.closed /\ ~NewRecorder.gotConn /\ NewRecorder.resolve = "no"
        BY DEF NewRecorder
      <4> QED
        BY <3>1, <4>1
    <3>3. Agrees(c)'
      BY <3>1, <3>2 DEF Agrees, RecorderAgrees, FailureAgrees, Connected,
         Unresolved, Dialing
    <3> QED
      BY <1>1, <1>3, <3>3 DEF RecordersAgree
  <2> QED
    BY <2>1, <2>2
<1>4. CASE Answers(c)
  <2>1. /\ call[c] = "sent" /\ call'[c] = "reading" /\ rec' = rec /\ dial' = dial
    BY <1>4 DEF Answers, Types, CallTypes
  <2>2. Agrees(c)'
    BY <2>1 DEF RecordersAgree, Agrees, RecorderAgrees, FailureAgrees, Connected
  <2> QED
    BY <1>1, <1>4, <2>2 DEF RecordersAgree
<1>5. CASE Decodes(c)
  <2>1. WayOut(c, "command", "") /\ call[c] # "waiting"
    BY <1>5 DEF Decodes, WayOut, Connected
  <2> QED
    BY <1>0, <1>5, <2>1, DrainedAgree DEF Decodes
<1>6. CASE CannotDecode(c)
  <2>1. WayOut(c, "unreadable", "unreadable_response") /\ call[c] # "waiting"
    BY <1>6 DEF CannotDecode, WayOut, Connected
  <2> QED
    BY <1>0, <1>6, <2>1, DrainedAgree, ReturnsAgree DEF CannotDecode
<1>7. CASE Lost(c)
  <2>1. WayOut(c, "error", "connect")
    BY <1>7 DEF Lost, WayOut, Connected
  <2> QED
    BY <1>0, <1>7, <2>1, ReturnsAgree DEF Lost
<1>8. CASE TimesOutWaiting(c)
  <2>1. WayOut(c, "timeout", DialStage(c))
    BY <1>8 DEF TimesOutWaiting, WayOut
  <2> QED
    BY <1>0, <1>8, <2>1, ReturnsAgree DEF TimesOutWaiting
<1>9. CASE TimesOutSent(c)
  <2>1. WayOut(c, "timeout", "timeout")
    BY <1>9 DEF TimesOutSent, Timed, WayOut, Connected
  <2> QED
    BY <1>0, <1>9, <2>1, ReturnsAgree DEF TimesOutSent
<1> QED
  BY <1>2, <1>3, <1>4, <1>5, <1>6, <1>7, <1>8, <1>9 DEF CallStep, TimesOut

(* A dial that notes where its resolution is.                              *)
LEMMA NotesAgree ==
  ASSUME Types, NEW c \in Calls, Agrees(c), url' = url, call'[c] = call[c],
         stage'[c] = stage[c], NEW step \in {"no", "begun", "ok", "failed"},
         rec'[c] = Noted(rec[c], [rec[c] EXCEPT !.resolve = step]),
         dial[c].pc # "off", call[c] = "waiting" \/ dial[c].pc = "resolve",
         step \in Unresolved <=> dial'[c].pc \in Dialing
  PROVE  Agrees(c)'
<1>1. rec[c] \in Recorders
  BY DEF Types, CallTypes
<1>2. CASE rec[c].closed
  <2>1. rec'[c] = rec[c]
    BY <1>2 DEF Noted
  <2>2. call[c] \notin {"waiting", "sent", "reading"}
    BY <1>2 DEF Agrees, RecorderAgrees
  <2> QED
    BY <2>1, <2>2 DEF Agrees, RecorderAgrees, FailureAgrees, Connected
<1>3. CASE ~rec[c].closed
  <2>1. rec'[c] = [rec[c] EXCEPT !.resolve = step]
    BY <1>1, <1>3, RecorderOps
  <2>2. /\ rec'[c].resolve = step /\ rec'[c].gotConn = rec[c].gotConn
        /\ rec'[c].reused = rec[c].reused /\ rec'[c].closed = rec[c].closed
    BY <1>1, <2>1 DEF Recorders
  <2> QED
    BY <1>3, <2>2 DEF Agrees, RecorderAgrees, FailureAgrees, Connected
<1> QED
  BY <1>2, <1>3

LEMMA DialStepAgree ==
  ASSUME Types, RecordersAgree, NEW c \in Calls,
         DialQuiet(c) \/ DialKeeps(c) \/ DialForgets(c) \/ DialRespawns(c)
  PROVE  RecordersAgree'
<1>0. url' = url
  BY AddrLeft DEF DialKeeps, DialForgets, DialRespawns, envVars
<1>1. ASSUME NEW x \in Calls, x # c, call' = call, stage' = stage,
             rec'[x] = rec[x], NEW d, dial' = [dial EXCEPT ![c] = d]
      PROVE  Agrees(x)'
  <2>1. call'[x] = call[x] /\ stage'[x] = stage[x] /\ dial'[x].pc = dial[x].pc
    BY <1>1 DEF Types, DialTypes
  <2> QED
    BY <1>0, <1>1, <2>1, AgreesKept DEF RecordersAgree
<1>2. CASE DialSkipped(c)
  <2>1. /\ call' = call /\ stage' = stage /\ rec' = rec /\ call[c] # "waiting"
        /\ dial' = [dial EXCEPT ![c] = NoDial]
    BY <1>2 DEF DialSkipped, dialKeeps
  <2>2. dial'[c].pc = "off"
    BY <2>1 DEF Types, DialTypes, NoDial
  <2>3. Agrees(c)'
    BY <1>0, <2>1, <2>2, AgreesDialOver DEF RecordersAgree
  <2> QED
    BY <1>1, <2>1, <2>3 DEF RecordersAgree
<1>3. ASSUME UNCHANGED callVars, NEW d, dial' = [dial EXCEPT ![c] = d],
             d.pc \notin Dialing, d.pc # "off", dial[c].pc \notin Dialing, dial[c].pc # "off"
      PROVE  RecordersAgree'
  <2>1. call' = call /\ stage' = stage /\ rec' = rec /\ dial'[c] = d
    BY <1>3 DEF callVars, Types, DialTypes
  <2>2. Agrees(c)'
    BY <1>0, <1>3, <2>1 DEF RecordersAgree, Agrees, RecorderAgrees, FailureAgrees
  <2> QED
    BY <1>1, <1>3, <2>1, <2>2 DEF RecordersAgree
<1>4. CASE DialKeptAddress(c)
  <2>1. dial' = [dial EXCEPT ![c] =
                    [dial[c] EXCEPT !.pc = "connect", !.addr = cache, !.kept = TRUE]]
    BY <1>4 DEF DialKeptAddress, Types, DialTypes
  <2>2. dial[c] \in Dials /\ UNCHANGED callVars /\ dial[c].pc = "begin"
    BY <1>4 DEF DialKeptAddress, dialKeeps, callVars, Types, DialTypes
  <2>3. [dial[c] EXCEPT !.pc = "connect", !.addr = cache, !.kept = TRUE].pc = "connect"
    BY <2>2 DEF Dials
  <2> QED
    BY <1>3, <2>1, <2>2, <2>3 DEF Dialing
<1>5. CASE DialInPlace(c)
  <2>1. /\ call' = call /\ stage' = stage /\ dial[c] \in Dials /\ dial[c].pc = "begin"
        /\ call[c] = "waiting"
    BY <1>5 DEF DialInPlace, dialKeeps, Types, DialTypes
  <2>2. CASE dial' = [dial EXCEPT ![c].pc = "resolve"] /\ Notes(c, "begun")
    <3>1. /\ dial' = [dial EXCEPT ![c] = [dial[c] EXCEPT !.pc = "resolve"]]
          /\ dial'[c].pc = "resolve"
      BY <2>1, <2>2 DEF Types, DialTypes, Dials
    <3>2. /\ rec'[c] = Noted(rec[c], [rec[c] EXCEPT !.resolve = "begun"])
          /\ \A x \in Calls : x # c => rec'[x] = rec[x]
      BY <2>2 DEF Notes, Types, CallTypes
    <3>3. Agrees(c)'
      BY <1>0, <2>1, <3>1, <3>2, NotesAgree DEF RecordersAgree, Unresolved, Dialing
    <3> QED
      BY <1>1, <2>1, <3>1, <3>2, <3>3 DEF RecordersAgree
  <2>3. CASE dial' = [dial EXCEPT ![c].pc = "connect", ![c].addr = 0] /\ rec' = rec
    <3>1. /\ dial' = [dial EXCEPT ![c] = [dial[c] EXCEPT !.pc = "connect", !.addr = 0]]
          /\ [dial[c] EXCEPT !.pc = "connect", !.addr = 0].pc = "connect"
      BY <2>1, <2>3 DEF Types, DialTypes, Dials
    <3>2. UNCHANGED callVars
      BY <1>5, <2>3 DEF DialInPlace, dialKeeps, callVars
    <3> QED
      BY <1>3, <2>1, <3>1, <3>2 DEF Dialing
  <2> QED
    BY <1>5, <2>2, <2>3 DEF DialInPlace
<1>6. CASE DialResolves(c)
  <2>1. /\ call' = call /\ stage' = stage /\ dial[c] \in Dials /\ dial[c].pc = "resolve"
    BY <1>6 DEF DialResolves, dialKeeps, Types, DialTypes
  <2>2. ASSUME NEW step \in {"ok", "failed"}, Notes(c, step), NEW d \in Dials,
               dial' = [dial EXCEPT ![c] = d], step = "failed" <=> d.pc \in Dialing
        PROVE  RecordersAgree'
    <3>1. dial'[c] = d
      BY <2>2 DEF Types, DialTypes
    <3>2. /\ rec'[c] = Noted(rec[c], [rec[c] EXCEPT !.resolve = step])
          /\ \A x \in Calls : x # c => rec'[x] = rec[x]
      BY <2>2 DEF Notes, Types, CallTypes
    <3>3. Agrees(c)'
      BY <1>0, <2>1, <2>2, <3>1, <3>2, NotesAgree DEF RecordersAgree, Unresolved
    <3> QED
      BY <1>1, <2>1, <2>2, <3>2, <3>3 DEF RecordersAgree
  <2>3. /\ [NoDial EXCEPT !.pc = "connect", !.addr = home] \in Dials
        /\ [NoDial EXCEPT !.pc = "connect", !.addr = home].pc = "connect"
        /\ [NoDial EXCEPT !.pc = "unresolved"] \in Dials
        /\ [NoDial EXCEPT !.pc = "unresolved"].pc = "unresolved"
    BY NewRecords DEF Dials, Types, AddrTypes
  <2>4. CASE dial' = [dial EXCEPT ![c] = [NoDial EXCEPT !.pc = "connect", !.addr = home]]
             /\ Notes(c, "ok")
    BY <2>2, <2>3, <2>4 DEF Dialing
  <2>5. CASE dial' = [dial EXCEPT ![c] = [NoDial EXCEPT !.pc = "unresolved"]]
             /\ Notes(c, "failed")
    BY <2>2, <2>3, <2>5 DEF Dialing
  <2>6. CASE dial' = [dial EXCEPT ![c].attempt = NextAttempt(@)] /\ rec' = rec
    <3>1. \A x \in Calls : dial'[x].pc = dial[x].pc
      BY <2>6 DEF Types, DialTypes, Dials
    <3> QED
      BY <1>0, <2>1, <2>6, <3>1, AgreesKept DEF RecordersAgree
  <2> QED
    BY <1>6, <2>4, <2>5, <2>6 DEF DialResolves
<1>7. CASE \/ DialConnects(c) \/ DialCannotConnect(c) \/ DialKeeps(c)
           \/ DialForgets(c) \/ DialRespawns(c)
  <2>1. /\ UNCHANGED callVars /\ dial[c] \in Dials
        /\ dial[c].pc \in {"connect", "keep", "forget", "respawn"}
    BY <1>7 DEF DialConnects, DialCannotConnect, DialKeeps, DialForgets, DialRespawns,
       dialKeeps, callVars, Types, DialTypes
  <2>2. \/ dial' = [dial EXCEPT ![c] = [NoDial EXCEPT !.pc = "opened"]]
        \/ dial' = [dial EXCEPT ![c] = [NoDial EXCEPT !.pc = "keep", !.addr = home]]
        \/ dial' = [dial EXCEPT ![c] = [NoDial EXCEPT !.pc = "forget"]]
        \/ dial' = [dial EXCEPT ![c] = [NoDial EXCEPT !.pc = "failed"]]
        \/ dial' = [dial EXCEPT ![c] = [dial[c] EXCEPT !.pc = "respawn"]]
        \/ dial' = [dial EXCEPT ![c] = [dial[c] EXCEPT !.pc = "failed"]]
    BY <1>7 DEF DialConnects, DialCannotConnect, DialKeeps, DialForgets, DialRespawns,
       Types, DialTypes
  <2>3. /\ [NoDial EXCEPT !.pc = "opened"].pc = "opened"
        /\ [NoDial EXCEPT !.pc = "keep", !.addr = home].pc = "keep"
        /\ [NoDial EXCEPT !.pc = "forget"].pc = "forget"
        /\ [NoDial EXCEPT !.pc = "failed"].pc = "failed"
        /\ [dial[c] EXCEPT !.pc = "respawn"].pc = "respawn"
        /\ [dial[c] EXCEPT !.pc = "failed"].pc = "failed"
    BY <2>1 DEF NoDial, Dials
  <2> QED
    BY <1>3, <2>1, <2>2, <2>3 DEF Dialing
<1>8. CASE DialDelivers(c)
  <2>1. /\ stage' = stage /\ dial[c].pc = "opened" /\ dial' = [dial EXCEPT ![c] = NoDial]
        /\ dial'[c].pc = "off" /\ \A x \in Calls : x # c => dial'[x] = dial[x]
    BY <1>8 DEF DialDelivers, NoDial, Types, DialTypes
  <2>2. CASE /\ call[c] = "waiting" /\ call' = [call EXCEPT ![c] = "sent"]
             /\ rec' = [rec EXCEPT ![c] = GotConn(@, FALSE)]
    <3>1. /\ call'[c] = "sent" /\ rec'[c] = GotConn(rec[c], FALSE)
          /\ \A x \in Calls : x # c => call'[x] = call[x] /\ rec'[x] = rec[x]
      BY <2>2 DEF Types, CallTypes
    <3>2. Agrees(c)'
      BY <2>1, <2>2, <3>1, AgreesServed DEF RecordersAgree, Dialing
    <3>3. ASSUME NEW x \in Calls, x # c
          PROVE  Agrees(x)'
      BY <1>0, <2>1, <3>1, <3>3, AgreesKept DEF RecordersAgree
    <3> QED
      BY <3>2, <3>3 DEF RecordersAgree
  <2>3. ASSUME call[c] # "waiting", NEW to \in Receivers, call' = CallsServed(to),
               rec' = RecsServed(to)
        PROVE  RecordersAgree'
    <3>1. to \subseteq Waiting /\ c \notin to
      BY <2>3, ReceiversAre DEF Waiting
    <3>2. ASSUME NEW x \in Calls, x \notin to
          PROVE  Agrees(x)'
      <4>1. call'[x] = call[x] /\ rec'[x] = rec[x]
        BY <2>3, <3>2 DEF CallsServed, RecsServed
      <4> QED
        BY <1>0, <2>1, <2>3, <4>1, AgreesKept, AgreesDialOver DEF RecordersAgree
    <3>3. ASSUME NEW x \in Calls, x \in to
          PROVE  Agrees(x)'
      <4>1. call[x] = "waiting" /\ call'[x] = "sent" /\ rec'[x] = GotConn(rec[x], TRUE)
        BY <2>3, <3>1, <3>3 DEF Waiting, CallsServed, RecsServed
      <4> QED
        BY <4>1, AgreesServed DEF RecordersAgree
    <3> QED
      BY <3>2, <3>3 DEF RecordersAgree
  <2> QED
    BY <1>8, <2>2, <2>3 DEF DialDelivers
<1>9. CASE DialFails(c)
  <2>1. dial' = [dial EXCEPT ![c] = NoDial] /\ dial'[c].pc = "off"
    BY <1>9 DEF DialFails, NoDial, Types, DialTypes
  <2>2. CASE call[c] = "waiting"
    <3>1. WayOut(c, "error", DialStage(c)) /\ Returns(c, "error", DialStage(c))
      BY <1>9, <2>2 DEF DialFails, WayOut
    <3> QED
      BY <1>0, <2>1, <3>1, ReturnsAgree
  <2>3. CASE call[c] # "waiting"
    <3>1. call' = call /\ rec' = rec /\ stage' = stage
      BY <1>9, <2>3 DEF DialFails, callVars
    <3>2. Agrees(c)'
      BY <1>0, <2>1, <2>3, <3>1, AgreesDialOver DEF RecordersAgree
    <3> QED
      BY <1>1, <2>1, <3>1, <3>2 DEF RecordersAgree
  <2> QED
    BY <2>2, <2>3
<1> QED
  BY <1>2, <1>4, <1>5, <1>6, <1>7, <1>8, <1>9 DEF DialQuiet

LEMMA AgreeStep ==
  ASSUME Types, RecordersAgree, [Next]_vars
  PROVE  RecordersAgree'
<1>1. CASE UNCHANGED callVars /\ dial' = dial /\ url' = url
  BY <1>1 DEF callVars, RecordersAgree, Agrees, RecorderAgrees, FailureAgrees
<1> QED
  BY <1>1, CallsLeft, CallStepAgree, DialStepAgree, NextSplits

----------------------------------------------------------------------------
(* The connections.                                                        *)

LEMMA CallsFinite ==
  /\ IsFiniteSet(InUse) /\ Cardinality(InUse) \in Nat
  /\ IsFiniteSet(Opened) /\ Cardinality(Opened) \in Nat
<1>1. IsFiniteSet(Calls) /\ InUse \subseteq Calls /\ Opened \subseteq Calls
  BY SchedulerChannelAssumption DEF SchedulerChannelAssumption, InUse, Opened
<1>2. IsFiniteSet(InUse) /\ IsFiniteSet(Opened)
  BY <1>1, FS_Subset
<1> QED
  BY <1>2, FS_CardinalityType

LEMMA CallsFinitePrime ==
  Cardinality(InUse') \in Nat /\ Cardinality(Opened') \in Nat
<1>1. IsFiniteSet(Calls) /\ InUse' \subseteq Calls /\ Opened' \subseteq Calls
  BY SchedulerChannelAssumption DEF SchedulerChannelAssumption, InUse, Opened
<1> QED
  BY <1>1, FS_Subset, FS_CardinalityType

LEMMA OneMore ==
  ASSUME NEW S, IsFiniteSet(S), NEW x, x \notin S
  PROVE  IsFiniteSet(S \union {x}) /\ Cardinality(S \union {x}) = Cardinality(S) + 1
  BY FS_AddElement

LEMMA OneLess ==
  ASSUME NEW S, IsFiniteSet(S), NEW x \in S
  PROVE  /\ IsFiniteSet(S \ {x}) /\ Cardinality(S) \in Nat
         /\ Cardinality(S \ {x}) = Cardinality(S) - 1
  BY FS_RemoveElement, FS_CardinalityType

LEMMA InUsePrime == InUse' = {c \in Calls : call'[c] \in {"sent", "reading"}}
  BY DEF InUse

LEMMA OpenedPrime == Opened' = {c \in Calls : dial'[c].pc \in {"keep", "opened"}}
  BY DEF Opened

Balanced == open = idle + Cardinality(InUse) + Cardinality(Opened)

LEMMA BalancedMeans == Balanced <=> NoConnectionLeaks
  BY DEF Balanced, NoConnectionLeaks, InUse, Opened

Connections == Types /\ open \in Nat /\ Balanced

LEMMA SameUse ==
  ASSUME Connections, InUse' = InUse, Opened' = Opened, idle' = idle, open' = open
  PROVE  idle' \in 0 .. MaxIdle /\ Balanced'
  BY DEF Connections, Types, Balanced

(* A connection is given back, by a call that ends, the rest going on, or  *)
(* by a dial nobody waits for.                                             *)
LEMMA GivenBack ==
  ASSUME Connections, NEW to \in Receivers, GivesBack(to),
         NEW rest, IsFiniteSet(rest), rest \subseteq InUse,
         InUse' = rest \union to, Cardinality(Opened') \in Nat, Cardinality(rest) \in Nat,
         Cardinality(rest) + Cardinality(Opened') + 1
             = Cardinality(InUse) + Cardinality(Opened)
  PROVE  idle' \in 0 .. MaxIdle /\ Balanced'
<1>1. /\ idle \in 0 .. MaxIdle /\ open \in Nat /\ MaxIdle \in Nat
      /\ open = idle + Cardinality(rest) + Cardinality(Opened') + 1
  <2>1. /\ idle \in 0 .. MaxIdle /\ open \in Nat /\ MaxIdle \in Nat
        /\ open = idle + Cardinality(InUse) + Cardinality(Opened)
    BY SchedulerChannelAssumption
    DEF SchedulerChannelAssumption, Connections, Types, Balanced
  <2> QED
    BY <2>1, CallsFinite
<1>2. CASE to = {}
  <2>1. /\ idle' = IF idle < MaxIdle THEN idle + 1 ELSE idle
        /\ open' = IF idle = MaxIdle THEN open - 1 ELSE open
    BY <1>2 DEF GivesBack
  <2>2. InUse' = rest
    BY <1>2
  <2>3. open' = idle' + Cardinality(rest) + Cardinality(Opened') /\ idle' \in 0 .. MaxIdle
    BY <1>1, <2>1
  <2> QED
    BY <2>2, <2>3 DEF Balanced
<1>3. ASSUME NEW w \in Waiting, to = {w}
      PROVE  idle' \in 0 .. MaxIdle /\ Balanced'
  <2>1. idle' = idle /\ open' = open
    BY <1>3 DEF GivesBack
  <2>2. w \notin rest
    BY <1>3 DEF Waiting, InUse
  <2>3. Cardinality(InUse') = Cardinality(rest) + 1
    BY <1>3, <2>2, OneMore
  <2> QED
    BY <1>1, <2>1, <2>3 DEF Balanced
<1> QED
  BY <1>2, <1>3, ReceiversAre

(* A call that ends with its connection closed.                            *)
LEMMA ClosedWith ==
  ASSUME Connections, NEW c \in InUse, InUse' = InUse \ {c}, Opened' = Opened,
         idle' = idle, open' = open - 1
  PROVE  idle' \in 0 .. MaxIdle /\ Balanced'
<1>1. Cardinality(InUse \ {c}) = Cardinality(InUse) - 1
  BY CallsFinite, OneLess
<1> QED
  BY <1>1, CallsFinite DEF Connections, Types, Balanced

LEMMA CallStepBalanced ==
  ASSUME Connections, NEW c \in Calls, CallStep(c)
  PROVE  idle' \in 0 .. MaxIdle /\ Balanced'
<1> USE DEF Connections, Types, CallTypes, DialTypes
<1>1. CASE \/ PausedUnbuilt(c) \/ Answers(c) \/ TimesOutWaiting(c)
           \/ PausedBegins(c) /\ ~(idle > 0)
  <2>1. InUse' = InUse
    BY <1>1, InUsePrime
    DEF InUse, PausedUnbuilt, Answers, TimesOutWaiting, PausedBegins, MayCall, Returns
  <2>2. Opened' = Opened
    <3>1. CASE dial' = dial
      BY <3>1 DEF Opened
    <3>2. CASE PausedBegins(c) /\ ~(idle > 0)
      <4>1. /\ dial[c] \in Dials /\ dial[c].pc = "off"
            /\ dial' = [dial EXCEPT ![c] = [dial[c] EXCEPT !.pc = "begin"]]
        BY <3>2 DEF PausedBegins, MayCall
      <4>2. dial'[c].pc = "begin" /\ \A x \in Calls : x # c => dial'[x] = dial[x]
        BY <4>1 DEF Dials
      <4> QED
        BY <4>1, <4>2, OpenedPrime DEF Opened
    <3> QED
      BY <1>1, <3>1, <3>2 DEF PausedUnbuilt, Answers, TimesOutWaiting
  <2>3. idle' = idle /\ open' = open
    BY <1>1 DEF PausedUnbuilt, Answers, TimesOutWaiting, PausedBegins, poolVars
  <2> QED
    BY <2>1, <2>2, <2>3, SameUse
<1>2. CASE PausedBegins(c) /\ idle > 0
  <2>1. InUse' = InUse \union {c} /\ c \notin InUse
    BY <1>2, InUsePrime DEF InUse, PausedBegins, MayCall
  <2>2. Opened' = Opened
    BY <1>2 DEF Opened, PausedBegins
  <2>3. idle' = idle - 1 /\ open' = open
    BY <1>2 DEF PausedBegins
  <2>4. Cardinality(InUse \union {c}) = Cardinality(InUse) + 1
    BY <2>1, CallsFinite, OneMore
  <2> QED
    BY <1>2, <2>1, <2>2, <2>3, <2>4, CallsFinite, SchedulerChannelAssumption
    DEF SchedulerChannelAssumption, Balanced
<1>3. ASSUME NEW how, NEW at, call[c] = "reading", ReturnsDrained(c, how, at), dial' = dial
      PROVE  idle' \in 0 .. MaxIdle /\ Balanced'
  <2>1. PICK to \in Receivers :
          call' = [CallsServed(to) EXCEPT ![c] = "returned"] /\ GivesBack(to)
    BY <1>3 DEF ReturnsDrained, Drains
  <2>2. to \subseteq Waiting
    BY ReceiversAre
  <2>3. InUse' = (InUse \ {c}) \union to
    BY <1>3, <2>1, <2>2, InUsePrime DEF InUse, Waiting, CallsServed
  <2>4. c \in InUse /\ Opened' = Opened
    BY <1>3 DEF InUse, Opened
  <2>5. /\ IsFiniteSet(InUse \ {c}) /\ Cardinality(InUse \ {c}) \in Nat
        /\ Cardinality(InUse \ {c}) = Cardinality(InUse) - 1
    BY <2>4, CallsFinite, OneLess, FS_CardinalityType
  <2>6. Cardinality(InUse \ {c}) + Cardinality(Opened') + 1
            = Cardinality(InUse) + Cardinality(Opened)
    BY <2>4, <2>5, CallsFinite
  <2>7. Cardinality(Opened') \in Nat /\ InUse \ {c} \subseteq InUse
    BY <2>4, CallsFinite
  <2> QED
    BY <2>1, <2>3, <2>5, <2>6, <2>7, GivenBack
<1>4. ASSUME NEW how, NEW at, call[c] \in Connected, Returns(c, how, at), dial' = dial,
             idle' = idle, open' = open - 1
      PROVE  idle' \in 0 .. MaxIdle /\ Balanced'
  <2>1. c \in InUse /\ InUse' = InUse \ {c} /\ Opened' = Opened
    BY <1>4, InUsePrime DEF InUse, Opened, Returns, Connected
  <2> QED
    BY <1>4, <2>1, ClosedWith
<1>5. CASE Decodes(c)
  BY <1>3, <1>5 DEF Decodes
<1>6. CASE CannotDecode(c)
  <2>1. call[c] = "reading" /\ call[c] \in Connected /\ dial' = dial
    BY <1>6 DEF CannotDecode, Connected
  <2>2. \/ ReturnsDrained(c, "unreadable", "unreadable_response")
        \/ /\ Returns(c, "unreadable", "unreadable_response")
           /\ open' = open - 1 /\ idle' = idle
    BY <1>6 DEF CannotDecode
  <2> QED
    BY <1>3, <1>4, <2>1, <2>2
<1>7. CASE Lost(c)
  <2>1. call[c] \in Connected /\ dial' = dial /\ Returns(c, "error", "connect")
        /\ idle' = idle /\ open' = open - 1
    BY <1>7 DEF Lost, Connected
  <2> QED
    BY <1>4, <2>1
<1>8. CASE TimesOutSent(c)
  <2>1. call[c] \in Connected /\ dial' = dial /\ Returns(c, "timeout", "timeout")
        /\ idle' = idle /\ open' = open - 1
    BY <1>8 DEF TimesOutSent, Timed, Connected
  <2> QED
    BY <1>4, <2>1
<1> QED
  BY <1>1, <1>2, <1>5, <1>6, <1>7, <1>8 DEF CallStep, TimesOut

LEMMA DialStepBalanced ==
  ASSUME Connections, NEW c \in Calls,
         DialQuiet(c) \/ DialKeeps(c) \/ DialForgets(c) \/ DialRespawns(c)
  PROVE  idle' \in 0 .. MaxIdle /\ Balanced'
<1> USE DEF Connections, Types, CallTypes, DialTypes
<1>1. CASE \/ DialSkipped(c) \/ DialKeptAddress(c) \/ DialInPlace(c) \/ DialResolves(c)
           \/ DialCannotConnect(c) \/ DialKeeps(c) \/ DialForgets(c) \/ DialRespawns(c)
  <2>1. call' = call /\ idle' = idle /\ open' = open
    BY <1>1 DEF DialSkipped, DialKeptAddress, DialInPlace, DialResolves, DialCannotConnect,
       DialKeeps, DialForgets, DialRespawns, dialKeeps, callVars, poolVars
  <2>2. /\ \A x \in Calls : x # c => dial'[x] = dial[x]
        /\ dial'[c].pc \in {"keep", "opened"} <=> dial[c].pc \in {"keep", "opened"}
    <3>1. CASE DialSkipped(c) \/ DialKeptAddress(c) \/ DialInPlace(c)
      BY <3>1 DEF DialSkipped, DialKeptAddress, DialInPlace, Dials, NoDial
    <3>2. CASE DialResolves(c)
      BY <3>2 DEF DialResolves, Dials, NoDial
    <3>3. CASE DialCannotConnect(c) \/ DialKeeps(c)
      BY <3>3 DEF DialCannotConnect, DialKeeps, Dials, NoDial
    <3>4. CASE DialForgets(c) \/ DialRespawns(c)
      BY <3>4 DEF DialForgets, DialRespawns, Dials
    <3> QED
      BY <1>1, <3>1, <3>2, <3>3, <3>4
  <2>3. InUse' = InUse /\ Opened' = Opened
    BY <2>1, <2>2, InUsePrime, OpenedPrime DEF InUse, Opened
  <2> QED
    BY <2>1, <2>3, SameUse
<1>2. CASE DialConnects(c)
  <2>1. Opened' = Opened \union {c} /\ c \notin Opened
    BY <1>2, OpenedPrime DEF Opened, DialConnects, NoDial
  <2>2. InUse' = InUse /\ idle' = idle /\ open' = open + 1
    BY <1>2 DEF InUse, DialConnects, callVars
  <2>3. Cardinality(Opened \union {c}) = Cardinality(Opened) + 1
    BY <2>1, CallsFinite, OneMore
  <2> QED
    BY <2>1, <2>2, <2>3, CallsFinite DEF Balanced
<1>3. CASE DialDelivers(c)
  <2>1. c \in Opened /\ Opened' = Opened \ {c}
    BY <1>3, OpenedPrime DEF Opened, DialDelivers, NoDial
  <2>2. /\ Cardinality(Opened') = Cardinality(Opened) - 1
        /\ Cardinality(Opened') \in Nat
    BY <2>1, CallsFinite, OneLess, FS_CardinalityType
  <2>3. CASE /\ call[c] = "waiting" /\ call' = [call EXCEPT ![c] = "sent"]
             /\ idle' = idle /\ open' = open
    <3>1. InUse' = InUse \union {c} /\ c \notin InUse
      BY <2>3, InUsePrime DEF InUse
    <3>2. Cardinality(InUse') = Cardinality(InUse) + 1
      BY <3>1, CallsFinite, OneMore
    <3> QED
      BY <2>2, <2>3, <3>2, CallsFinite DEF Balanced
  <2>4. ASSUME NEW to \in Receivers, call' = CallsServed(to), GivesBack(to)
        PROVE  idle' \in 0 .. MaxIdle /\ Balanced'
    <3>1. InUse' = InUse \union to
      BY <2>4, ReceiversAre, InUsePrime DEF InUse, Waiting, CallsServed
    <3>2. Cardinality(InUse) + Cardinality(Opened') + 1
              = Cardinality(InUse) + Cardinality(Opened)
      BY <2>2, CallsFinite
    <3> QED
      BY <2>2, <2>4, <3>1, <3>2, CallsFinite, GivenBack
  <2> QED
    BY <1>3, <2>3, <2>4 DEF DialDelivers, poolVars
<1>4. CASE DialFails(c)
  <2>1. idle' = idle /\ open' = open
    BY <1>4 DEF DialFails, poolVars
  <2>2. Opened' = Opened
    BY <1>4, OpenedPrime DEF Opened, DialFails, NoDial
  <2>3. InUse' = InUse
    BY <1>4, InUsePrime DEF InUse, DialFails, Returns, callVars
  <2> QED
    BY <2>1, <2>2, <2>3, SameUse
<1> QED
  BY <1>1, <1>2, <1>3, <1>4 DEF DialQuiet

LEMMA BalancedStep ==
  ASSUME Connections, [Next]_vars
  PROVE  idle' \in 0 .. MaxIdle /\ Balanced'
<1>1. ASSUME \/ NewActionProxy \/ SchedulerMoves \/ UNCHANGED vars
             \/ \E r \in Resolvers : ResolverStep(r)
      PROVE  idle' \in 0 .. MaxIdle /\ Balanced'
  <2>1. idle' = idle /\ open' = open
    BY <1>1 DEF NewActionProxy, SchedulerMoves, vars, poolVars, ResolverStep, ResolverTries,
       ResolverSets, ResolverEnds
  <2>2. InUse' = InUse /\ Opened' = Opened
    BY <1>1, CallsLeft DEF InUse, Opened, callVars
  <2> QED
    BY <2>1, <2>2, SameUse
<1>2. CASE IdleCloses
  <2>1. InUse' = InUse /\ Opened' = Opened
    BY <1>2, CallsLeft DEF InUse, Opened, callVars
  <2>2. /\ idle > 0 /\ idle' = idle - 1 /\ open' = open - 1
        /\ idle \in 0 .. MaxIdle /\ MaxIdle \in Nat /\ open \in Nat
        /\ open = idle + Cardinality(InUse) + Cardinality(Opened)
    BY <1>2, SchedulerChannelAssumption
    DEF SchedulerChannelAssumption, IdleCloses, Connections, Types, Balanced
  <2>3. /\ idle' \in 0 .. MaxIdle
        /\ open' = idle' + Cardinality(InUse) + Cardinality(Opened)
    BY <2>2, CallsFinite
  <2> QED
    BY <2>1, <2>3 DEF Balanced
<1> QED
  BY <1>1, <1>2, CallStepBalanced, DialStepBalanced, NextSplits

----------------------------------------------------------------------------
LEMMA CInvInit ==
  ASSUME Init
  PROVE  CInv
<1>1. Types /\ open \in Nat
  <2>1. /\ home \in Addrs /\ made \in 0 .. MaxCalls /\ idle \in 0 .. MaxIdle
        /\ open \in Nat
    <3>1. home = 0 /\ made = 0 /\ idle = 0 /\ open = 0
      BY DEF Init
    <3> QED
      BY <3>1, SchedulerChannelAssumption DEF SchedulerChannelAssumption, Addrs
  <2>2. AddrTypes
    BY <2>1, NewRecords DEF Init, AddrTypes
  <2>3. CallTypes /\ DialTypes
    BY <2>1, NewRecords DEF Init, CallTypes, DialTypes, Failures
  <2> QED
    BY <2>1, <2>2, <2>3 DEF Types
<1>2. FlagIsOwned
  BY DEF Init, FlagIsOwned, NoResolver
<1>3. RecordersAgree
  BY DEF Init, RecordersAgree, Agrees, RecorderAgrees, FailureAgrees, Connected
<1>4. NoConnectionLeaks
  <2>1. InUse = {} /\ Opened = {}
    BY DEF Init, InUse, Opened, NoDial
  <2>2. Cardinality(InUse) = 0 /\ Cardinality(Opened) = 0
    BY <2>1, FS_EmptySet
  <2>3. open = idle + Cardinality(InUse) + Cardinality(Opened)
    <3>1. idle = 0 /\ open = 0
      BY DEF Init
    <3> QED
      BY <2>2, <3>1
  <2> QED
    BY <2>3, BalancedMeans DEF Balanced
<1> QED
  BY <1>1, <1>2, <1>3, <1>4 DEF CInv

LEMMA CInvStep ==
  ASSUME CInv, [Next]_vars
  PROVE  CInv'
<1>1. Connections
  BY BalancedMeans DEF CInv, Connections
<1>2. idle' \in 0 .. MaxIdle /\ Balanced'
  BY <1>1, BalancedStep
<1>3. Types'
  BY <1>2, AddrTypesStep, CallTypesStep, DialTypesStep DEF CInv, Types
<1>4. open' \in Nat
  <2>1. /\ Cardinality(InUse') \in Nat /\ Cardinality(Opened') \in Nat
        /\ open' = idle' + Cardinality(InUse') + Cardinality(Opened')
    BY <1>2, CallsFinitePrime DEF Balanced
  <2> QED
    BY <1>2, <2>1, SchedulerChannelAssumption DEF SchedulerChannelAssumption
<1>5. NoConnectionLeaks'
  BY <1>2, BalancedMeans, PTL
<1> QED
  BY <1>3, <1>4, <1>5, FlagStep, AgreeStep DEF CInv

LEMMA CInvHolds == Spec => []CInv
<1>1. Init => CInv
  BY CInvInit
<1>2. CInv /\ [Next]_vars => CInv'
  BY CInvStep
<1> QED
  BY <1>1, <1>2, PTL DEF Spec

(* The types hold; the number of open connections never becomes negative.  *)
THEOREM ChannelIsTyped == Spec => []CTypeOK
<1>1. CInv => CTypeOK
  BY DEF CInv, CTypeOK, Types, AddrTypes, CallTypes, DialTypes
<1> QED
  BY <1>1, CInvHolds, PTL

(* addrCache.resolveAsync: at most one goroutine resolves the name, and    *)
(* resolving is up exactly as long as it lives.                            *)
THEOREM OneResolution == Spec => []OneResolver
<1>1. CInv => OneResolver
  BY FlagMeans DEF CInv
<1> QED
  BY <1>1, CInvHolds, PTL

(* postExecutionPaused, however it returns, and a dial nobody waits for:   *)
(* every open connection is idle, used by one call or about to be          *)
(* delivered.                                                              *)
THEOREM ConnectionsAddUp == Spec => []NoConnectionLeaks
<1>1. CInv => NoConnectionLeaks
  BY DEF CInv
<1> QED
  BY <1>1, CInvHolds, PTL

(* connRecorder.finish names the step the call was at, but for a call that *)
(* another's connection served while its own dial resolves or has failed   *)
(* to.                                                                     *)
THEOREM CauseIsTrue == Spec => []FailureIsTrue
<1>1. CInv => FailureIsTrue
  BY DEF CInv, RecordersAgree, Agrees, FailureAgrees, FailureIsTrue
<1> QED
  BY <1>1, CInvHolds, PTL

(* A recorder that is closed, in any step.                                 *)
LEMMA SealedStep ==
  ASSUME CInv, [Next]_vars, NEW x \in Calls, rec[x].closed
  PROVE  rec'[x] = rec[x] \/ MayCall(x)
<1>1. /\ call[x] \notin {"waiting", "sent", "reading"}
      /\ call \in [Calls -> {"none", "waiting", "sent", "reading", "returned"}]
      /\ rec \in [Calls -> Recorders]
  BY DEF CInv, Types, CallTypes, RecordersAgree, Agrees, RecorderAgrees
<1>2. ASSUME NEW to \in Receivers
      PROVE  x \notin to /\ RecsServed(to)[x] = rec[x]
  BY <1>1, ReceiversAre DEF Waiting, RecsServed
<1>3. ASSUME NEW c \in Calls, NEW how, NEW at, call[c] \in {"waiting", "sent", "reading"},
             Returns(c, how, at) \/ ReturnsDrained(c, how, at)
      PROVE  rec'[x] = rec[x]
  <2>1. x # c
    BY <1>1, <1>3
  <2>2. CASE Returns(c, how, at)
    BY <1>1, <2>1, <2>2 DEF Returns
  <2>3. CASE ReturnsDrained(c, how, at)
    <3>1. PICK to \in Receivers : rec' = [RecsServed(to) EXCEPT ![c] = Finished(@, how)]
      BY <2>3 DEF ReturnsDrained
    <3>2. rec'[x] = RecsServed(to)[x]
      BY <2>1, <3>1 DEF RecsServed
    <3> QED
      BY <1>2, <3>2
  <2> QED
    BY <1>3, <2>2, <2>3
<1>4. ASSUME NEW c \in Calls, CallStep(c)
      PROVE  rec'[x] = rec[x] \/ MayCall(x)
  <2>1. CASE PausedUnbuilt(c) \/ PausedBegins(c)
    BY <1>1, <2>1 DEF PausedUnbuilt, PausedBegins
  <2>2. CASE Answers(c)
    BY <2>2 DEF Answers
  <2>3. CASE Decodes(c) \/ CannotDecode(c) \/ Lost(c) \/ TimesOut(c)
    <3>1. /\ call[c] \in {"waiting", "sent", "reading"}
          /\ \E how, at : Returns(c, how, at) \/ ReturnsDrained(c, how, at)
      BY <2>3 DEF Decodes, CannotDecode, Lost, TimesOut, TimesOutWaiting, TimesOutSent, Timed
    <3> QED
      BY <1>3, <3>1
  <2> QED
    BY <1>4, <2>1, <2>2, <2>3 DEF CallStep
<1>5. ASSUME NEW c \in Calls,
             DialQuiet(c) \/ DialKeeps(c) \/ DialForgets(c) \/ DialRespawns(c)
      PROVE  rec'[x] = rec[x]
  <2>1. CASE rec' = rec
    BY <2>1
  <2>2. ASSUME NEW step, Notes(c, step)
        PROVE  rec'[x] = rec[x]
    BY <1>1, <2>2 DEF Notes, Noted
  <2>3. CASE DialInPlace(c) \/ DialResolves(c)
    BY <2>1, <2>2, <2>3 DEF DialInPlace, DialResolves
  <2>4. CASE DialDelivers(c)
    BY <1>1, <1>2, <2>4 DEF DialDelivers
  <2>5. CASE DialFails(c)
    BY <1>3, <2>1, <2>5 DEF DialFails, callVars
  <2>6. CASE \/ DialSkipped(c) \/ DialKeptAddress(c) \/ DialConnects(c)
             \/ DialCannotConnect(c) \/ DialKeeps(c) \/ DialForgets(c) \/ DialRespawns(c)
    BY <2>6 DEF DialSkipped, DialKeptAddress, DialConnects, DialCannotConnect, DialKeeps,
       DialForgets, DialRespawns, callVars
  <2> QED
    BY <1>5, <2>3, <2>4, <2>5, <2>6 DEF DialQuiet
<1> QED
  BY <1>4, <1>5, CallsLeft, NextSplits DEF callVars

(* connRecorder.update: what the callbacks of a dial that goes on after    *)
(* its call has returned note is dropped, whatever they note and whenever. *)
THEOREM RecorderIsSealed == Spec => RecorderSealed
<1>1. CInv /\ [Next]_vars
          => [\A c \in Calls : rec[c].closed => rec'[c] = rec[c] \/ MayCall(c)]_vars
  BY SealedStep
<1> QED
  BY <1>1, CInvHolds, PTL DEF Spec, RecorderSealed
=============================================================================
