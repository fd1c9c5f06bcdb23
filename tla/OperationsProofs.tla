-------------------------- MODULE OperationsProofs --------------------------
(***************************************************************************)
(* What holds of what runs around the trading core: of live start-up and   *)
(* the health monitor for every number of callers, attempts and failures   *)
(* and for every threshold; of the message bus, through failing callbacks, *)
(* lost replies and restarts, for any number of consumer groups,           *)
(* messages, restarts, and any batch size; of recovery, for any orders,    *)
(* trades by hand and crashes; of the metrics, for any window; of the web  *)
(* sockets, for any number of them; and of all these side by side.         *)
(***************************************************************************)
EXTENDS MCOperations, SequenceTheorems, FiniteSetTheorems, TLAPS

allVars == <<healthVars, startupVars>>

-----------------------------------------------------------------------------
(* The monitor.  Its counters are the failures since the last success, a   *)
(* channel is healthy below its threshold, and the modes follow from that. *)
HealthInv ==
    /\ HealthTypeOK
    /\ health.failures = unanswered
    /\ \A c \in Channels : health.healthy[c] <=> unanswered[c] < Threshold[c]
    /\ health.authority_mode = (IF health.healthy["report"] THEN "event_primary" ELSE "query_primary")
    /\ health.degradation_mode = Degradation(health.healthy)

(* _recompute() gives a status of the right type whose modes follow from   *)
(* the channels, whatever was counted.                                     *)
LEMMA RecomputedType ==
    ASSUME NEW healthy \in [Channels -> BOOLEAN], NEW failures \in [Channels -> 0..MaxFailures]
    PROVE  /\ Recomputed(healthy, failures) \in HealthStatus
           /\ Recomputed(healthy, failures).healthy = healthy
           /\ Recomputed(healthy, failures).failures = failures
           /\ Recomputed(healthy, failures).authority_mode =
                (IF healthy["report"] THEN "event_primary" ELSE "query_primary")
           /\ Recomputed(healthy, failures).degradation_mode = Degradation(healthy)
<1>1. Degradation(healthy) \in Modes
  BY DEF Degradation, Modes, Channels
<1> QED
  BY <1>1 DEF Recomputed, HealthStatus

LEMMA HealthInitInv == HealthInit => HealthInv
<1> SUFFICES ASSUME HealthInit PROVE HealthInv
  OBVIOUS
<1> USE HealthAssumption
<1> DEFINE well == [c \in Channels |-> TRUE]
           none == [c \in Channels |-> 0]
<1>1. well \in [Channels -> BOOLEAN] /\ none \in [Channels -> 0..MaxFailures]
  OBVIOUS
<1>2. \A c \in Channels : well[c] <=> none[c] < Threshold[c]
  BY DEF Channels, Threshold
<1>3. health = Recomputed(well, none)
  BY DEF HealthInit, Recomputed, Degradation, Channels
<1>4. lastReport = "never" /\ unanswered = none
  BY DEF HealthInit
<1> HIDE DEF well, none
<1> QED
  BY <1>1, <1>2, <1>3, <1>4, RecomputedType DEF HealthInv, HealthTypeOK

LEMMA SuccessInv ==
    ASSUME HealthInv, NEW c \in Channels, RecordSuccess(c)
    PROVE  HealthInv'
<1> USE HealthAssumption
<1> DEFINE well == [health.healthy EXCEPT ![c] = TRUE]
           left == [health.failures EXCEPT ![c] = 0]
<1>1. well \in [Channels -> BOOLEAN] /\ left \in [Channels -> 0..MaxFailures]
  BY DEF HealthInv, HealthTypeOK, HealthStatus
<1>2. left = unanswered' /\ unanswered' \in [Channels -> 0..MaxFailures]
  BY DEF HealthInv, HealthTypeOK, HealthStatus, RecordSuccess
<1>3. \A d \in Channels : well[d] <=> unanswered'[d] < Threshold[d]
  BY DEF HealthInv, HealthTypeOK, HealthStatus, RecordSuccess, Threshold, Channels
<1>4. lastReport' \in {"never", "recent", "old"}
  BY DEF HealthInv, HealthTypeOK, RecordSuccess
<1>5. health' = Recomputed(well, left)
  BY DEF RecordSuccess
<1> HIDE DEF well, left
<1> QED
  BY <1>1, <1>2, <1>3, <1>4, <1>5, RecomputedType DEF HealthInv, HealthTypeOK

LEMMA FailureInv ==
    ASSUME HealthInv, NEW c \in Channels, RecordFailure(c)
    PROVE  HealthInv'
<1> USE HealthAssumption
<1> DEFINE well == [health.healthy EXCEPT ![c] = @ /\ health.failures[c] + 1 < Threshold[c]]
           left == [health.failures EXCEPT ![c] = @ + 1]
<1>1. well \in [Channels -> BOOLEAN] /\ left \in [Channels -> 0..MaxFailures]
  BY DEF HealthInv, HealthTypeOK, HealthStatus, RecordFailure
<1>2. left = unanswered' /\ unanswered' \in [Channels -> 0..MaxFailures]
  BY DEF HealthInv, HealthTypeOK, HealthStatus, RecordFailure
<1>3. ASSUME NEW d \in Channels PROVE well[d] <=> unanswered'[d] < Threshold[d]
  <2>1. unanswered[d] \in 0..MaxFailures /\ health.failures[d] = unanswered[d] /\ Threshold[d] \in Nat
    BY DEF HealthInv, HealthTypeOK, Threshold, Channels
  <2>2. health.healthy[d] <=> unanswered[d] < Threshold[d]
    BY DEF HealthInv
  <2>3. health.healthy \in [Channels -> BOOLEAN] /\ unanswered \in [Channels -> 0..MaxFailures]
    BY DEF HealthInv, HealthTypeOK, HealthStatus
  <2>4. CASE d = c
    <3>1. well[d] <=> health.healthy[d] /\ health.failures[d] + 1 < Threshold[d]
      BY <2>3, <2>4
    <3>2. unanswered'[d] = unanswered[d] + 1
      BY <2>3, <2>4 DEF RecordFailure
    <3> QED
      BY <2>1, <2>2, <3>1, <3>2
  <2>5. CASE d # c
    BY <2>2, <2>3, <2>5 DEF RecordFailure
  <2> QED
    BY <2>4, <2>5
<1>4. lastReport' \in {"never", "recent", "old"}
  BY DEF HealthInv, HealthTypeOK, RecordFailure
<1>5. health' = Recomputed(well, left)
  BY DEF RecordFailure, Failed
<1> HIDE DEF well, left
<1> QED
  BY <1>1, <1>2, <1>3, <1>4, <1>5, RecomputedType DEF HealthInv, HealthTypeOK

LEMMA HealthInvStep == HealthInv /\ [HealthNext]_healthVars => HealthInv'
<1> SUFFICES ASSUME HealthInv, [HealthNext]_healthVars PROVE HealthInv'
  OBVIOUS
<1>1. ASSUME NEW c \in Channels, RecordSuccess(c) PROVE HealthInv'
  BY <1>1, SuccessInv
<1>2. ASSUME NEW c \in Channels, RecordFailure(c) PROVE HealthInv'
  BY <1>2, FailureInv
<1>3. CASE ReportsFallSilent
  BY <1>3 DEF ReportsFallSilent, HealthInv, HealthTypeOK
<1>4. CASE CheckReportTimeout
  BY <1>4, FailureInv DEF CheckReportTimeout, Channels
<1>5. CASE UNCHANGED healthVars
  BY <1>5 DEF healthVars, HealthInv, HealthTypeOK
<1> QED
  BY <1>1, <1>2, <1>3, <1>4, <1>5 DEF HealthNext

LEMMA InvRestricts == HealthInv => DegradedForCause
<1> SUFFICES ASSUME HealthInv PROVE DegradedForCause
  OBVIOUS
<1> USE HealthAssumption
<1>1. \A c \in Channels : Down(c) <=> ~health.healthy[c]
  BY DEF HealthInv, HealthTypeOK, Down, Threshold, Channels
<1>2. health.healthy["report"] \in BOOLEAN /\ health.healthy["query"] \in BOOLEAN
  BY DEF HealthInv, HealthTypeOK, HealthStatus, Channels
<1> QED
  BY <1>1, <1>2 DEF HealthInv, Degradation, Channels, DegradedForCause

(* The health monitor's state keeps its type, whatever the thresholds.     *)
THEOREM HealthTypeCorrect == HealthSpec => []HealthTypeOK
<1>1. HealthInv => HealthTypeOK
  BY DEF HealthInv
<1> QED
  BY <1>1, HealthInitInv, HealthInvStep, PTL DEF HealthSpec

(* qmt_health.py:39-41: trading is restricted exactly as long as a channel *)
(* has failed its threshold of times with no success since.                *)
THEOREM RestrictedForCause == HealthSpec => []DegradedForCause
  BY HealthInitInv, HealthInvStep, InvRestricts, PTL DEF HealthSpec

-----------------------------------------------------------------------------
(* Start-up.  That a ready system with a broker is connected, but for the  *)
(* two exceptions, is inductive as it stands.                              *)
StartupInv == HealthInv /\ StartupTypeOK /\ CacheTellsReadiness /\ ReadyIsConnected

LEMMA StepsAre == StartupSteps = {"prepare", "connect_qmt", "verify_qmt_health", "assemble", "mark_live_ready"}
<1>1. 1..Len(Steps) = 1..5
  BY DEF Steps
<1> QED
  BY <1>1 DEF StartupSteps, Steps

LEMMA StartupInitInv == HealthInit /\ StartupInit => StartupInv
<1> SUFFICES ASSUME HealthInit, StartupInit PROVE StartupInv
  OBVIOUS
<1>1. HealthInv
  BY HealthInitInv
<1>2. StartupTypeOK
  <2>1. Fresh \in Readiness
    BY DEF Readiness, Fresh
  <2>2. 0 \in 0..MaxCalls
    BY StartupAssumption
  <2> QED
    BY <2>1, <2>2 DEF StartupInit, StartupTypeOK, CallState
<1>3. CacheTellsReadiness /\ ReadyIsConnected
  BY DEF StartupInit, CacheTellsReadiness, ReadyIsConnected, Fresh
<1> QED
  BY <1>1, <1>2, <1>3 DEF StartupInv

(* What a call does next, apart from its effect: the pieces of the type.   *)
LEMMA CallsTyped ==
    ASSUME calls \in [Callers -> CallState], NEW c \in Callers, NEW state \in CallState, Waits(c, state)
    PROVE  /\ calls' \in [Callers -> CallState]
           /\ calls'[c] = state
           /\ \A d \in Callers : d # c => calls'[d] = calls[d]
BY DEF Waits

LEMMA ConnectingIs ==
    ASSUME calls \in [Callers -> CallState], NEW c \in Callers, calls[c].at = "connecting"
    PROVE  /\ calls[c] \in [at: {"connecting"}, attempt: 1..MaxConnects]
           /\ calls[c] # Idle
           /\ calls[c].attempt < MaxConnects =>
                [calls[c] EXCEPT !.attempt = @ + 1] \in [at: {"connecting"}, attempt: 1..MaxConnects]
<1>1. calls[c] \in [at: {"connecting"}, attempt: 1..MaxConnects]
  BY DEF CallState, Idle
<1>2. calls[c].attempt \in 1..MaxConnects
  BY <1>1
<1> QED
  BY <1>1, <1>2, StartupAssumption DEF Idle

LEMMA CallStates ==
    /\ Idle \in CallState /\ Idle.at = "idle"
    /\ [at |-> "connecting", attempt |-> 1] \in CallState
    /\ [at |-> "rolling_back"] \in CallState /\ [at |-> "shutting_down"] \in CallState
    /\ [at: {"connecting"}, attempt: 1..MaxConnects] \subseteq CallState
BY StartupAssumption DEF CallState, Idle

LEMMA StartupTypeStep ==
    ASSUME StartupTypeOK, StartupStep, UNCHANGED given
    PROVE  StartupTypeOK'
<1> USE StepsAre, CallStates DEF StartupTypeOK
<1> PICK c \in Callers :
        \/ StartupCached(c) \/ Startup(c) \/ StartupSkipping(c)
        \/ ConnectFails(c) \/ ConnectSucceeds(c) \/ ConnectUnhealthy(c)
        \/ Disconnects(c) \/ RolledBack(c)
        \/ Shutdown(c) \/ ShutDown(c)
  BY DEF StartupStep
<1>1. CASE StartupCached(c)
  BY <1>1, StartupAssumption DEF StartupCached, Calls
<1>2. CASE Startup(c)
  <2>1. calls' \in [Callers -> CallState]
    BY <1>2 DEF Startup, Waits
  <2>2. readiness' \in Readiness
    BY <1>2 DEF Startup, Readiness, Fresh
  <2> QED
    BY <2>1, <2>2, <1>2, StartupAssumption DEF Startup, Calls
<1>3. CASE ConnectFails(c)
  <2>1. calls' \in [Callers -> CallState]
    BY <1>3, ConnectingIs DEF ConnectFails, Waits, Returns
  <2>2. readiness' \in Readiness
    BY <1>3 DEF ConnectFails, Readiness
  <2> QED
    BY <2>1, <2>2, <1>3 DEF ConnectFails
<1>4. CASE ConnectSucceeds(c)
  <2>1. calls' \in [Callers -> CallState]
    BY <1>4 DEF ConnectSucceeds, Waits, Returns
  <2>2. readiness' \in Readiness
    BY <1>4 DEF ConnectSucceeds, Readiness
  <2> QED
    BY <2>1, <2>2, <1>4 DEF ConnectSucceeds
<1>5. CASE ConnectUnhealthy(c)
  <2>1. calls' \in [Callers -> CallState]
    BY <1>5 DEF ConnectUnhealthy, Waits
  <2>2. readiness' \in Readiness
    BY <1>5 DEF ConnectUnhealthy, Readiness
  <2> QED
    BY <2>1, <2>2, <1>5 DEF ConnectUnhealthy
<1>6. CASE RolledBack(c)
  <2>1. calls' \in [Callers -> CallState]
    BY <1>6 DEF RolledBack, Waits, Returns
  <2>2. readiness' \in Readiness
    BY <1>6 DEF RolledBack, Readiness
  <2> QED
    BY <2>1, <2>2, <1>6 DEF RolledBack
<1>7. CASE Shutdown(c)
  <2>1. calls' \in [Callers -> CallState]
    BY <1>7 DEF Shutdown, Waits
  <2>2. readiness' \in Readiness /\ cached' \in BOOLEAN /\ undone' \in BOOLEAN
    BY <1>7 DEF Shutdown, Stopped, Readiness
  <2> QED
    BY <2>1, <2>2, <1>7, StartupAssumption DEF Shutdown, Calls
<1>8. CASE ShutDown(c)
  <2>1. calls' \in [Callers -> CallState]
    BY <1>8 DEF ShutDown, Waits, Returns
  <2>2. readiness' \in Readiness /\ cached' \in BOOLEAN /\ undone' \in BOOLEAN
    BY <1>8 DEF ShutDown, Stopped, Readiness
  <2> QED
    BY <2>1, <2>2, <1>8 DEF ShutDown
<1>9. CASE Disconnects(c)
  <2>1. undone' \in BOOLEAN
    BY <1>9 DEF Disconnects, Readiness
  <2> QED
    BY <2>1, <1>9 DEF Disconnects
<1>10. CASE StartupSkipping(c)
  <2>1. readiness' \in Readiness
    <3>1. CASE HealthyForLive
      <4>1. readiness' = [is_ready |-> TRUE, completed |-> StartupSteps, failed |-> "none"]
        BY <1>10, <3>1 DEF StartupSkipping
      <4> QED
        BY <4>1 DEF Readiness
    <3>2. CASE ~HealthyForLive
      <4>1. readiness' = [is_ready |-> FALSE, completed |-> {"prepare", "connect_qmt"},
                          failed |-> "verify_qmt_health"]
        BY <1>10, <3>2 DEF StartupSkipping
      <4> QED
        BY <4>1 DEF Readiness
    <3> QED
      BY <3>1, <3>2
  <2>2. cached' \in BOOLEAN
    BY <1>10 DEF StartupSkipping
  <2> QED
    BY <2>1, <2>2, <1>10, StartupAssumption DEF StartupSkipping, Calls
<1> QED
  BY <1>1, <1>2, <1>3, <1>4, <1>5, <1>6, <1>7, <1>8, <1>9, <1>10

(* The cache and readiness come and go in the same steps.                  *)
LEMMA CacheStep ==
    ASSUME StartupTypeOK, CacheTellsReadiness, StartupStep
    PROVE  CacheTellsReadiness'
<1> USE StepsAre DEF StartupTypeOK, CacheTellsReadiness, Readiness, Fresh, Stopped
<1> PICK c \in Callers :
        \/ StartupCached(c) \/ Startup(c) \/ StartupSkipping(c)
        \/ ConnectFails(c) \/ ConnectSucceeds(c) \/ ConnectUnhealthy(c)
        \/ Disconnects(c) \/ RolledBack(c)
        \/ Shutdown(c) \/ ShutDown(c)
  BY DEF StartupStep
<1>1. CASE StartupCached(c) \/ Startup(c)
  BY <1>1 DEF StartupCached, Startup
<1>2. CASE ConnectFails(c)
  BY <1>2 DEF ConnectFails
<1>3. CASE ConnectSucceeds(c)
  BY <1>3 DEF ConnectSucceeds
<1>4. CASE ConnectUnhealthy(c)
  BY <1>4 DEF ConnectUnhealthy
<1>5. CASE Disconnects(c) \/ RolledBack(c)
  BY <1>5 DEF Disconnects, RolledBack
<1>6. CASE Shutdown(c)
  BY <1>6 DEF Shutdown
<1>7. CASE ShutDown(c)
  BY <1>7 DEF ShutDown
<1>8. CASE StartupSkipping(c)
  <2>1. CASE HealthyForLive
    BY <1>8, <2>1 DEF StartupSkipping
  <2>2. CASE ~HealthyForLive
    <3>1. cached' = FALSE /\ readiness'.is_ready = FALSE
      BY <1>8, <2>2 DEF StartupSkipping
    <3> QED
      BY <3>1
  <2> QED
    BY <2>1, <2>2
<1> QED
  BY <1>1, <1>2, <1>3, <1>4, <1>5, <1>6, <1>7, <1>8

(* A call that is not shutting down goes on, or ends, and the others stay. *)
LEMMA OthersStay ==
    ASSUME calls \in [Callers -> CallState], NEW c \in Callers, NEW state \in CallState,
           calls[c].at # "shutting_down", Waits(c, state)
    PROVE  \A d \in Callers : calls[d].at = "shutting_down" => calls'[d].at = "shutting_down"
BY CallsTyped

(* A rollback that disconnects a ready system is noted; a shutdown that    *)
(* does is still under way; and whoever connects settles both.             *)
LEMMA ConnectedStep ==
    ASSUME StartupTypeOK, CacheTellsReadiness, ReadyIsConnected, StartupStep, UNCHANGED given
    PROVE  ReadyIsConnected'
<1> SUFFICES ASSUME given.broker, readiness'.is_ready
    PROVE  connected' \/ undone' \/ \E c \in Callers : calls'[c].at = "shutting_down"
  BY DEF ReadyIsConnected
<1> USE StepsAre, CallStates
<1>0. calls \in [Callers -> CallState] /\ readiness \in Readiness
  BY DEF StartupTypeOK
<1> DEFINE Kept == \A d \in Callers : calls[d].at = "shutting_down" => calls'[d].at = "shutting_down"
<1>a. ASSUME Kept, readiness.is_ready, connected => connected', undone => undone'
      PROVE  connected' \/ undone' \/ \E c \in Callers : calls'[c].at = "shutting_down"
  BY <1>a DEF ReadyIsConnected
<1> PICK c \in Callers :
        \/ StartupCached(c) \/ Startup(c) \/ StartupSkipping(c)
        \/ ConnectFails(c) \/ ConnectSucceeds(c) \/ ConnectUnhealthy(c)
        \/ Disconnects(c) \/ RolledBack(c)
        \/ Shutdown(c) \/ ShutDown(c)
  BY DEF StartupStep
<1>1. CASE StartupCached(c)
  BY <1>1, <1>a DEF StartupCached
<1>2. CASE Startup(c) \/ StartupSkipping(c)
  BY <1>2 DEF Startup, StartupSkipping, Fresh
<1>3. CASE ConnectFails(c)
  <2>1. PICK state \in CallState : Waits(c, state)
    BY <1>0, <1>3, ConnectingIs DEF ConnectFails, Returns
  <2>2. Kept
    BY <1>0, <1>3, <2>1, OthersStay DEF ConnectFails
  <2>3. readiness.is_ready
    BY <1>0, <1>3 DEF ConnectFails, Readiness
  <2> QED
    BY <1>3, <1>a, <2>2, <2>3 DEF ConnectFails
<1>4. CASE ConnectSucceeds(c) \/ ConnectUnhealthy(c)
  BY <1>4 DEF ConnectSucceeds, ConnectUnhealthy
<1>5. CASE Disconnects(c)
  <2>1. readiness.is_ready /\ UNCHANGED calls /\ calls[c].at \in {"rolling_back", "shutting_down"}
    BY <1>5 DEF Disconnects
  <2> QED
    BY <1>5, <2>1 DEF Disconnects
<1>6. CASE RolledBack(c)
  <2>1. Kept
    BY <1>0, <1>6, OthersStay DEF RolledBack, Returns
  <2>2. readiness.is_ready
    BY <1>0, <1>6 DEF RolledBack, Readiness
  <2> QED
    BY <1>6, <1>a, <2>1, <2>2 DEF RolledBack
<1>7. CASE Shutdown(c)
  <2>1. UNCHANGED readiness \/ Stopped
    BY <1>7 DEF Shutdown
  <2>2. ~Stopped
    BY <1>0 DEF Stopped, Readiness
  <2>3. Waits(c, [at |-> "shutting_down"])
    BY <1>7, <2>2 DEF Shutdown
  <2> QED
    BY <1>0, <2>3, CallsTyped
<1>8. CASE ShutDown(c)
  BY <1>0, <1>8 DEF ShutDown, Stopped, Readiness
<1> QED
  BY <1>1, <1>2, <1>3, <1>4, <1>5, <1>6, <1>7, <1>8

LEMMA StartupInvStep == StartupInv /\ [StartupNext]_allVars => StartupInv'
<1> SUFFICES ASSUME StartupInv, [StartupNext]_allVars PROVE StartupInv'
  OBVIOUS
<1>1. HealthInv'
  BY HealthInvStep DEF StartupInv, StartupNext, allVars, healthVars, startupVars, HealthInv, HealthTypeOK
<1>2. CASE StartupStep /\ UNCHANGED given
  BY <1>1, <1>2, StartupTypeStep, CacheStep, ConnectedStep DEF StartupInv
<1>3. CASE UNCHANGED startupVars
  BY <1>1, <1>3 DEF startupVars, StartupInv, StartupTypeOK, CacheTellsReadiness, ReadyIsConnected
<1> QED
  BY <1>2, <1>3 DEF StartupNext, allVars

(* The state of start-up and shutdown keeps its type, for any number of    *)
(* callers and attempts.                                                   *)
THEOREM StartupTypeCorrect == StartupSpec => []StartupTypeOK
<1>1. StartupInv => StartupTypeOK
  BY DEF StartupInv
<1> QED
  BY <1>1, StartupInitInv, StartupInvStep, PTL DEF StartupSpec, allVars

(* "Idempotent: returns cached result": what the cache answers is what the *)
(* system is, however many calls of startup() and shutdown() overlap.      *)
THEOREM CacheIsTruthful == StartupSpec => []CacheTellsReadiness
<1>1. StartupInv => CacheTellsReadiness
  BY DEF StartupInv
<1> QED
  BY <1>1, StartupInitInv, StartupInvStep, PTL DEF StartupSpec, allVars

(* A system that has a broker and is ready is connected, whatever failed   *)
(* and overlapped, but while a shutdown is under way or after the rollback *)
(* of one start-up has hit the success of another.                         *)
THEOREM ReadyMeansConnected == StartupSpec => []ReadyIsConnected
<1>1. StartupInv => ReadyIsConnected
  BY DEF StartupInv
<1> QED
  BY <1>1, StartupInitInv, StartupInvStep, PTL DEF StartupSpec, allVars

(* Both together: the readiness that the orchestrator reports is real.     *)
THEOREM ReadinessStaysReal == StartupSpec => []ReadinessIsReal
<1>1. CacheTellsReadiness /\ ReadyIsConnected => ReadinessIsReal
  BY DEF ReadinessIsReal
<1> QED
  BY <1>1, CacheIsTruthful, ReadyMeansConnected, PTL

(* The system becomes ready only in a step that finds it connected, if it  *)
(* has a broker, and both channels answering, if it has a monitor to tell. *)
THEOREM ReadyOnlyWhenHealthy == StartupSpec => ReadyWhenHealthy
<1>1. ASSUME StartupInv, [StartupNext]_allVars
      PROVE  [readiness'.is_ready /\ ~readiness.is_ready =>
                /\ given.monitor => ~Down("report") /\ ~Down("query")
                /\ given.broker => connected']_<<readiness, connected, unanswered, given>>
  <2> SUFFICES ASSUME readiness'.is_ready, ~readiness.is_ready
      PROVE  /\ given.monitor => ~Down("report") /\ ~Down("query")
             /\ given.broker => connected'
    OBVIOUS
  <2>1. StartupStep
    BY <1>1 DEF StartupNext, allVars, startupVars
  <2>2. PICK c \in Callers : ConnectSucceeds(c) \/ StartupSkipping(c)
    BY <1>1, <2>1 DEF StartupStep, StartupCached, Startup, ConnectFails, ConnectUnhealthy,
       Disconnects, RolledBack, Shutdown, ShutDown, Stopped, Fresh,
       StartupInv, StartupTypeOK, Readiness
  <2>3. HealthyForLive
    BY <2>2 DEF ConnectSucceeds, StartupSkipping, Fresh
  <2>4. given.broker => connected'
    BY <2>2 DEF ConnectSucceeds, StartupSkipping
  <2> QED
    BY <1>1, <2>3, <2>4, InvRestricts DEF HealthyForLive, DegradedForCause, StartupInv
<1> QED
  BY <1>1, StartupInitInv, StartupInvStep, PTL DEF StartupSpec, allVars, ReadyWhenHealthy

-----------------------------------------------------------------------------
(* What is in a sequence, when an element comes behind and one leaves in   *)
(* front.                                                                  *)
Listing(s) == {s[n] : n \in 1..Len(s)}

LEMMA AppendedIs ==
    ASSUME NEW S, NEW s \in Seq(S), NEW x \in S
    PROVE  /\ Append(s, x) \in Seq(S) /\ Len(Append(s, x)) = Len(s) + 1
           /\ \A i \in 1..Len(s) : Append(s, x)[i] = s[i]
           /\ Append(s, x)[Len(s) + 1] = x
           /\ Listing(Append(s, x)) = Listing(s) \cup {x}
BY DEF Listing

LEMMA TakenIs ==
    ASSUME NEW S, NEW s \in Seq(S), s # <<>>
    PROVE  /\ Head(s) \in S /\ Tail(s) \in Seq(S)
           /\ Listing(s) = {Head(s)} \cup Listing(Tail(s))
<1>1. Head(s) = s[1] /\ Tail(s) \in Seq(S) /\ Len(Tail(s)) = Len(s) - 1 /\ Len(s) \in Nat \ {0}
      /\ \A i \in 1..Len(Tail(s)) : Tail(s)[i] = s[i + 1]
  OBVIOUS
<1>2. \A i \in 1..Len(s) : i = 1 \/ (i - 1 \in 1..Len(Tail(s)) /\ Tail(s)[i - 1] = s[i])
  BY <1>1
<1>3. \A i \in 1..Len(Tail(s)) : i + 1 \in 1..Len(s) /\ Tail(s)[i] = s[i + 1]
  BY <1>1
<1>4. 1 \in 1..Len(s) /\ s[1] \in S
  BY <1>1
<1>5. ASSUME NEW x \in Listing(s)
      PROVE  x \in {Head(s)} \cup Listing(Tail(s))
  <2>1. PICK i \in 1..Len(s) : x = s[i]
    BY <1>5 DEF Listing
  <2>2. CASE i = 1
    BY <1>1, <2>1, <2>2
  <2>3. CASE i # 1
    <3>1. PICK n \in 1..Len(Tail(s)) : Tail(s)[n] = s[i]
      BY <1>2, <2>1, <2>3
    <3> QED
      BY <2>1, <3>1 DEF Listing
  <2> QED
    BY <2>2, <2>3
<1>6. ASSUME NEW x \in {Head(s)} \cup Listing(Tail(s))
      PROVE  x \in Listing(s)
  <2>1. CASE x = Head(s)
    BY <1>1, <1>4, <2>1 DEF Listing
  <2>2. CASE x \in Listing(Tail(s))
    <3>1. PICK n \in 1..Len(Tail(s)) : x = Tail(s)[n]
      BY <2>2 DEF Listing
    <3> QED
      BY <1>3, <3>1 DEF Listing
  <2> QED
    BY <1>6, <2>1, <2>2
<1>7. Listing(s) = {Head(s)} \cup Listing(Tail(s))
  BY <1>5, <1>6
<1> QED
  BY <1>1, <1>4, <1>7

-----------------------------------------------------------------------------
(* The message bus.  The numbers of a sequence go up.                      *)
Ordered(p) == \A m, n \in 1..Len(p) : m < n => p[m] < p[n]

(* A worker that stands at "at" with batch b, of a group that was given    *)
(* the messages up to d and handled those of p: the batch is the end of    *)
(* what was given, what was handled lies before it, and a message being    *)
(* acknowledged is the last handled.                                       *)
BatchInv(b, at, d) ==
    /\ b \in Seq(Nat)
    /\ Len(b) <= d
    /\ \A n \in 1..Len(b) : b[n] = d - Len(b) + n
    /\ at \in {"stopped", "reading"} => b = <<>>
    /\ at \in {"calling", "acknowledging"} => b # <<>>

HandledInv(b, at, d, p) ==
    /\ p \in Seq(Nat)
    /\ Ordered(p)
    /\ at # "acknowledging" => \A n \in 1..Len(p) : p[n] <= d - Len(b)
    /\ at = "acknowledging" => p # <<>> /\ p[Len(p)] = b[1]

WorkerInv(b, at, d, p) == BatchInv(b, at, d) /\ HandledInv(b, at, d, p)

-----------------------------------------------------------------------------
(* Lemmas about one worker. *)

(* The numbers in a batch and among the handled messages. *)
Numbers(b, d, p) ==
    /\ Len(b) \in Nat /\ Len(p) \in Nat
    /\ b # <<>> => Len(b) >= 1 /\ b[1] = d - Len(b) + 1 /\ b[1] \in Nat /\ Head(b) = b[1]
    /\ p # <<>> => Len(p) >= 1
    /\ \A n \in 1..Len(p) : p[n] \in Nat

LEMMA WorkerNumbers ==
    ASSUME NEW b, NEW at, NEW d \in Nat, NEW p, WorkerInv(b, at, d, p)
    PROVE  Numbers(b, d, p)
<1>1. b \in Seq(Nat) /\ p \in Seq(Nat)
  BY DEF WorkerInv, BatchInv, HandledInv
<1>2. Len(b) \in Nat /\ (b # <<>> => Len(b) >= 1)
  BY <1>1, EmptySeq, LenProperties
<1>3. Len(p) \in Nat /\ (p # <<>> => Len(p) >= 1)
  BY <1>1, EmptySeq, LenProperties
<1>4. \A n \in 1..Len(p) : p[n] \in Nat
  BY <1>1, ElementOfSeq
<1>5. ASSUME b # <<>> PROVE b[1] = d - Len(b) + 1 /\ b[1] \in Nat /\ Head(b) = b[1]
  <2>1. 1 \in 1..Len(b)
    BY <1>2, <1>5
  <2>2. b[1] = d - Len(b) + 1 /\ Len(b) <= d
    BY <2>1 DEF WorkerInv, BatchInv
  <2>3. Head(b) = b[1]
    BY <1>1, <1>5
  <2> QED
    BY <1>2, <2>2, <2>3
<1> QED
  BY <1>2, <1>3, <1>4, <1>5 DEF Numbers

(* What was handled lies before the rest of the batch. *)
LEMMA HandledBeforeRest ==
    ASSUME NEW b, NEW at, NEW d \in Nat, NEW p, WorkerInv(b, at, d, p)
    PROVE  \A n \in 1..Len(p) : p[n] <= d /\ (b # <<>> => p[n] <= b[1])
<1> SUFFICES ASSUME NEW n \in 1..Len(p)
    PROVE p[n] <= d /\ (b # <<>> => p[n] <= b[1])
  OBVIOUS
<1>0. Numbers(b, d, p)
  BY WorkerNumbers
<1>1. CASE at # "acknowledging"
  BY <1>0, <1>1 DEF Numbers, WorkerInv, HandledInv
<1>2. CASE at = "acknowledging"
  <2>1. b # <<>> /\ p # <<>> /\ p[Len(p)] = b[1] /\ Ordered(p)
    BY <1>2 DEF WorkerInv, BatchInv, HandledInv
  <2>2. n <= Len(p) /\ n \in 1..Len(p) /\ Len(p) \in 1..Len(p) /\ n \in Nat /\ Len(p) \in Nat
    BY <1>0, <2>1 DEF Numbers
  <2>3. n # Len(p) => p[n] < p[Len(p)]
    BY <2>1, <2>2 DEF Ordered
  <2>4. p[n] \in Nat /\ p[Len(p)] \in Nat /\ b[1] <= d
    BY <1>0, <2>1, <2>2 DEF Numbers
  <2> QED
    BY <2>1, <2>2, <2>3, <2>4
<1> QED
  BY <1>1, <1>2

(* A worker that has nothing in hand, started, stopped or done. *)
LEMMA EmptyHanded ==
    ASSUME NEW b, NEW at, NEW d \in Nat, NEW p, WorkerInv(b, at, d, p)
    PROVE  WorkerInv(<<>>, "stopped", d, p) /\ WorkerInv(<<>>, "reading", d, p)
<1>1. Len(<<>>) = 0 /\ <<>> \in Seq(Nat)
  BY EmptySeq
<1>2. Numbers(b, d, p)
  BY WorkerNumbers
<1>3. \A n \in 1..Len(p) : p[n] <= d - 0
  BY <1>2, HandledBeforeRest DEF Numbers
<1> QED
  BY <1>1, <1>3 DEF WorkerInv, BatchInv, HandledInv

(* The worker goes on to the rest of its batch. *)
LEMMA WorkerGoesOn ==
    ASSUME NEW b, NEW at \in {"calling", "acknowledging"}, NEW d \in Nat, NEW p,
           WorkerInv(b, at, d, p), Len(b) # 1
    PROVE  WorkerInv(Tail(b), "calling", d, p)
<1> DEFINE rest == Tail(b)
<1>1. b # <<>> /\ b \in Seq(Nat) /\ Numbers(b, d, p)
  BY WorkerNumbers DEF WorkerInv, BatchInv
<1>2. /\ rest \in Seq(Nat) /\ Len(rest) = Len(b) - 1
      /\ \A n \in 1..Len(rest) : rest[n] = b[n + 1]
  BY <1>1, HeadTailProperties
<1> HIDE DEF rest
<1>3. \A n \in 1..Len(rest) : n + 1 \in 1..Len(b) /\ rest[n] = d - Len(rest) + n
  BY <1>1, <1>2 DEF Numbers, WorkerInv, BatchInv
<1>4. \A n \in 1..Len(p) : p[n] <= d - Len(rest)
  <2> SUFFICES ASSUME NEW n \in 1..Len(p) PROVE p[n] <= d - Len(rest)
    OBVIOUS
  <2>1. p[n] <= b[1]
    BY <1>1, HandledBeforeRest
  <2> QED
    BY <1>1, <1>2, <2>1 DEF Numbers
<1>5. Len(rest) > 0 /\ Len(rest) <= d
  BY <1>1, <1>2 DEF Numbers, WorkerInv, BatchInv
<1>6. rest # <<>>
  BY <1>5, EmptySeq
<1>7. p \in Seq(Nat) /\ Ordered(p)
  BY DEF WorkerInv, HandledInv
<1>8. WorkerInv(rest, "calling", d, p)
  BY <1>2, <1>3, <1>4, <1>5, <1>6, <1>7 DEF WorkerInv, BatchInv, HandledInv
<1> QED
  BY <1>8 DEF rest

(* The callback succeeded: the message is the last one handled. *)
LEMMA WorkerHandles ==
    ASSUME NEW b, NEW d \in Nat, NEW p, WorkerInv(b, "calling", d, p)
    PROVE  WorkerInv(b, "acknowledging", d, Append(p, Head(b)))
<1> DEFINE m == Head(b)
           q == Append(p, m)
<1>1. b # <<>> /\ Numbers(b, d, p)
  BY WorkerNumbers DEF WorkerInv, BatchInv
<1>2. m = b[1] /\ m = d - Len(b) + 1 /\ m \in Nat
  BY <1>1 DEF Numbers
<1> HIDE DEF m
<1>3. /\ p \in Seq(Nat) /\ Ordered(p) /\ Len(p) \in Nat
      /\ \A n \in 1..Len(p) : p[n] \in Nat /\ p[n] < m
  BY <1>1, <1>2 DEF Numbers, WorkerInv, HandledInv
<1>4. /\ q \in Seq(Nat) /\ q # <<>> /\ Len(q) = Len(p) + 1 /\ q[Len(p) + 1] = m
      /\ \A n \in 1..Len(p) : q[n] = p[n]
  BY <1>2, <1>3, AppendProperties
<1> HIDE DEF q
<1>5. Ordered(q)
  <2> SUFFICES ASSUME NEW i \in 1..Len(q), NEW j \in 1..Len(q), i < j PROVE q[i] < q[j]
    BY DEF Ordered
  <2>1. i \in 1..Len(p)
    BY <1>3, <1>4
  <2>2. CASE j = Len(p) + 1
    BY <1>3, <1>4, <2>1, <2>2
  <2>3. CASE j # Len(p) + 1
    <3>1. j \in 1..Len(p)
      <4>1. j \in 1..(Len(p) + 1)
        BY <1>4
      <4> QED
        BY <1>3, <2>3, <4>1
    <3>2. p[i] < p[j]
      BY <1>3, <2>1, <3>1 DEF Ordered
    <3> QED
      BY <1>4, <2>1, <3>1, <3>2
  <2> QED
    BY <2>2, <2>3
<1>6. q[Len(q)] = b[1]
  BY <1>2, <1>4
<1>7. WorkerInv(b, "acknowledging", d, q)
  BY <1>1, <1>4, <1>5, <1>6 DEF WorkerInv, BatchInv, HandledInv
<1> QED
  BY <1>7 DEF q, m

(* The worker is given the n messages after d. *)
LEMMA WorkerReads ==
    ASSUME NEW d \in Nat, NEW p, WorkerInv(<<>>, "reading", d, p), NEW n \in Nat \ {0}
    PROVE  WorkerInv([k \in 1..n |-> d + k], "calling", d + n, p)
<1> DEFINE b == [k \in 1..n |-> d + k]
<1>1. \A k \in 1..n : d + k \in Nat
  OBVIOUS
<1>2. b \in Seq(Nat) /\ Len(b) = n /\ \A k \in 1..n : b[k] = d + k
  BY <1>1
<1>3. b # <<>>
  BY <1>2, EmptySeq
<1> HIDE DEF b
<1>4. Numbers(<<>>, d, p) /\ p \in Seq(Nat) /\ Ordered(p) /\ \A k \in 1..Len(p) : p[k] <= d
  BY HandledBeforeRest, WorkerNumbers DEF WorkerInv, HandledInv
<1>5. \A k \in 1..Len(p) : p[k] <= d + n - Len(b)
  BY <1>2, <1>4 DEF Numbers
<1>6. WorkerInv(b, "calling", d + n, p)
  BY <1>2, <1>3, <1>4, <1>5 DEF WorkerInv, BatchInv, HandledInv
<1> QED
  BY <1>6 DEF b

-----------------------------------------------------------------------------
WorkerStates == [batch: Seq(Nat), at: {"stopped", "reading", "calling", "acknowledging"}]
USE DEF WorkerStates

(* The bus: its types, its workers, and what was acknowledged. *)
BusTypes ==
    /\ published \in 0..MaxPublished /\ starts \in 0..MaxStarts
    /\ created \subseteq Groups /\ subscribers \in Seq(Groups)
    /\ delivered \in [Groups -> 0..published]
    /\ pending \in [Groups -> SUBSET (1..published)]
    /\ workers \in [Groups -> WorkerStates]
    /\ processed \in [Groups -> Seq(Nat)]

WorkersInv == \A g \in Groups : WorkerInv(workers[g].batch, workers[g].at, delivered[g], processed[g])

BusInv == BusTypes /\ WorkersInv /\ AckedIsProcessed

LEMMA BusInitInv == BusInit => BusInv
<1> SUFFICES ASSUME BusInit PROVE BusInv
  OBVIOUS
<1>1. <<>> \in Seq(Nat) /\ Len(<<>>) = 0 /\ <<>> \in Seq(Groups)
  BY EmptySeq
<1>2. WorkerInv(<<>>, "stopped", 0, <<>>)
  BY <1>1 DEF WorkerInv, BatchInv, HandledInv, Ordered
<1>3. BusTypes
  BY <1>1, BusAssumption DEF BusInit, BusTypes, NoWorker
<1>4. WorkersInv
  BY <1>2 DEF BusInit, WorkersInv, NoWorker
<1>5. AckedIsProcessed
  <2>1. \A g \in Groups : delivered[g] = 0
    BY DEF BusInit
  <2>2. 1..0 = {}
    OBVIOUS
  <2> QED
    BY <2>1, <2>2 DEF AckedIsProcessed
<1> QED
  BY <1>3, <1>4, <1>5 DEF BusInv

(* A step that leaves deliveries, acknowledgements and what was handled    *)
(* alone keeps the last part of the invariant.                             *)
LEMMA SameAcked ==
    ASSUME AckedIsProcessed, UNCHANGED <<delivered, pending, processed>>
    PROVE  AckedIsProcessed'
BY DEF AckedIsProcessed, Processed

LEMMA SameWorkers ==
    ASSUME WorkersInv, UNCHANGED <<delivered, workers, processed>>
    PROVE  WorkersInv'
BY DEF WorkersInv

LEMMA PublishStep ==
    ASSUME BusInv, Publish
    PROVE  BusInv'
<1>1. published' = published + 1 /\ published \in Nat /\ published' \in 0..MaxPublished
  BY BusAssumption DEF Publish, BusInv, BusTypes
<1>2. 0..published \subseteq 0..published' /\ 1..published \subseteq 1..published'
  BY <1>1
<1>3. delivered' \in [Groups -> 0..published'] /\ pending' \in [Groups -> SUBSET (1..published')]
  BY <1>2 DEF Publish, BusInv, BusTypes
<1>4. UNCHANGED <<delivered, pending, processed, workers, starts, created, subscribers>>
  BY DEF Publish
<1>5. BusTypes'
  BY <1>1, <1>3, <1>4 DEF BusInv, BusTypes
<1> QED
  BY <1>4, <1>5, SameAcked, SameWorkers DEF BusInv

LEMMA SubscribeStep ==
    ASSUME BusInv, NEW g \in Groups, Subscribe(g)
    PROVE  BusInv'
<1>1. subscribers' \in Seq(Groups)
  BY AppendProperties DEF Subscribe, BusInv, BusTypes
<1>2. UNCHANGED <<published, created, delivered, pending, processed, workers, starts>>
  BY DEF Subscribe, serverVars
<1>3. BusTypes'
  BY <1>1, <1>2 DEF BusInv, BusTypes
<1> QED
  BY <1>2, <1>3, SameAcked, SameWorkers DEF BusInv

(* start() and stop() leave the workers with nothing in hand.              *)
LEMMA RestartStep ==
    ASSUME BusInv, BusStart \/ BusStop
    PROVE  BusInv'
<1>1. /\ starts' \in 0..MaxStarts
      /\ UNCHANGED <<published, subscribers, delivered, pending, processed>>
  BY BusAssumption DEF BusStart, BusStop, BusInv, BusTypes, serverVars
<1>2. created' \subseteq Groups
  <2>1. CASE BusStop
    BY <2>1 DEF BusStop, serverVars, BusInv, BusTypes
  <2>2. CASE BusStart
    <3>1. Len(subscribers) \in Nat \ {0}
      BY <2>2, EmptySeq DEF BusStart, BusInv, BusTypes
    <3>2. subscribers[1] \in Groups
      BY <3>1, ElementOfSeq DEF BusInv, BusTypes
    <3> QED
      BY <2>2, <3>2 DEF BusStart, BusInv, BusTypes
  <2> QED
    BY <2>1, <2>2
<1>3. workers' \in [Groups -> {NoWorker, Reading}]
  BY DEF BusStart, BusStop
<1>4. WorkersInv'
  <2> SUFFICES ASSUME NEW g \in Groups
      PROVE WorkerInv(workers'[g].batch, workers'[g].at, delivered[g], processed[g])
    BY <1>1 DEF WorkersInv
  <2>1. /\ WorkerInv(<<>>, "stopped", delivered[g], processed[g])
        /\ WorkerInv(<<>>, "reading", delivered[g], processed[g])
    BY EmptyHanded DEF BusInv, BusTypes, WorkersInv
  <2> QED
    BY <1>3, <2>1 DEF NoWorker, Reading
<1>5. workers' \in [Groups -> WorkerStates]
  <2>1. <<>> \in Seq(Nat)
    BY EmptySeq
  <2>2. {NoWorker, Reading} \subseteq WorkerStates
    BY <2>1 DEF NoWorker, Reading
  <2> QED
    BY <1>3, <2>2
<1>6. BusTypes'
  BY <1>1, <1>2, <1>5 DEF BusInv, BusTypes
<1> QED
  BY <1>1, <1>4, <1>6, SameAcked DEF BusInv

(* One worker moves, and the others stay. *)
LEMMA OneWorker ==
    ASSUME BusTypes, WorkersInv, NEW g \in Groups,
           NEW w \in WorkerStates,
           NEW d \in 0..published, NEW p \in Seq(Nat),
           WorkerInv(w.batch, w.at, d, p),
           workers' = [workers EXCEPT ![g] = w],
           delivered' = [delivered EXCEPT ![g] = d],
           processed' = [processed EXCEPT ![g] = p]
    PROVE  /\ WorkersInv'
           /\ workers' \in [Groups -> WorkerStates]
           /\ delivered' \in [Groups -> 0..published]
           /\ processed' \in [Groups -> Seq(Nat)]
<1>1. /\ workers' \in [Groups -> WorkerStates]
      /\ delivered' \in [Groups -> 0..published]
      /\ processed' \in [Groups -> Seq(Nat)]
  BY DEF BusTypes
<1>2. workers'[g] = w /\ delivered'[g] = d /\ processed'[g] = p
  BY DEF BusTypes
<1>3. \A h \in Groups : h # g =>
        workers'[h] = workers[h] /\ delivered'[h] = delivered[h] /\ processed'[h] = processed[h]
  BY DEF BusTypes
<1>4. WorkersInv'
  <2> SUFFICES ASSUME NEW h \in Groups
      PROVE WorkerInv(workers'[h].batch, workers'[h].at, delivered'[h], processed'[h])
    BY DEF WorkersInv
  <2>1. CASE h = g
    BY <1>2, <2>1
  <2>2. CASE h # g
    BY <1>3, <2>2 DEF WorkersInv
  <2> QED
    BY <2>1, <2>2
<1> QED
  BY <1>1, <1>4

(* What the server gives out: the n messages behind those given before,    *)
(* all of them pending.                                                    *)
LEMMA GivenIs ==
    ASSUME BusInv, NEW g \in Groups, Gives(g)
    PROVE  \E n \in Nat \ {0} :
              /\ delivered[g] + n <= published
              /\ Batch(LastRead(g)) = [k \in 1..n |-> delivered[g] + k]
              /\ Listing(Batch(LastRead(g))) = (delivered[g] + 1)..(delivered[g] + n)
              /\ delivered' = [delivered EXCEPT ![g] = delivered[g] + n]
              /\ pending' = [pending EXCEPT ![g] = @ \cup ((delivered[g] + 1)..(delivered[g] + n))]
<1> DEFINE d == delivered[g]
           n == IF published - d < BatchSize THEN published - d ELSE BatchSize
           new == [k \in 1..n |-> d + k]
<1>1. d \in Nat /\ published \in Nat /\ d <= published /\ BatchSize \in Nat \ {0}
  BY BusAssumption DEF BusInv, BusTypes
<1>2. n \in Nat /\ d + n <= published
  BY <1>1
<1>3. /\ new = Batch(LastRead(g)) /\ new # <<>>
      /\ delivered' = [delivered EXCEPT ![g] = new[Len(new)]]
      /\ pending' = [pending EXCEPT ![g] = @ \cup {new[k] : k \in 1..Len(new)}]
  BY DEF Gives, Batch, LastRead
<1> HIDE DEF d, n
<1>4. Len(new) = n /\ new \in Seq(Nat)
  <2>1. \A k \in 1..n : d + k \in Nat
    BY <1>1, <1>2
  <2> QED
    BY <1>2, <2>1
<1>5. n # 0
  BY <1>3, <1>4, EmptySeq
<1>6. new[Len(new)] = d + n
  BY <1>2, <1>4, <1>5
<1>7. {new[k] : k \in 1..Len(new)} = (d + 1)..(d + n)
  <2>1. ASSUME NEW m \in (d + 1)..(d + n) PROVE m \in {new[k] : k \in 1..Len(new)}
    <3>1. m - d \in 1..n /\ new[m - d] = m
      BY <1>1, <1>2, <2>1
    <3> QED
      BY <1>4, <3>1
  <2>2. ASSUME NEW k \in 1..Len(new) PROVE new[k] \in (d + 1)..(d + n)
    BY <1>1, <1>2, <1>4, <2>2
  <2> QED
    BY <2>1, <2>2
<1>8. Batch(LastRead(g)) = [k \in 1..n |-> d + k]
  BY <1>3
<1> HIDE DEF new
<1>9. Listing(Batch(LastRead(g))) = (d + 1)..(d + n)
  BY <1>3, <1>7 DEF Listing
<1> QED
  BY <1>2, <1>3, <1>5, <1>6, <1>7, <1>8, <1>9 DEF d

(* What is given out is pending, so nothing more is acknowledged.          *)
LEMMA GivenIsPending ==
    ASSUME BusInv, NEW g \in Groups, Gives(g), NEW h \in Groups
    PROVE  (1..delivered'[h]) \ pending'[h] = (1..delivered[h]) \ pending[h]
<1> DEFINE d == delivered[g]
<1>1. PICK n \in Nat \ {0} :
          /\ delivered' = [delivered EXCEPT ![g] = d + n]
          /\ pending' = [pending EXCEPT ![g] = @ \cup ((d + 1)..(d + n))]
  BY GivenIs
<1>2. CASE h # g
  BY <1>1, <1>2 DEF BusInv, BusTypes
<1>3. CASE h = g
  <2>1. delivered'[h] = d + n /\ pending'[h] = pending[h] \cup ((d + 1)..(d + n))
    BY <1>1, <1>3 DEF BusInv, BusTypes
  <2>2. (1..(d + n)) \ ((d + 1)..(d + n)) = 1..d
    BY DEF BusInv, BusTypes
  <2> QED
    BY <1>3, <2>1, <2>2
<1> QED
  BY <1>2, <1>3

LEMMA ReadStep ==
    ASSUME BusInv, NEW g \in Groups, XReadGroup(g) \/ ReadLost(g)
    PROVE  BusInv'
<1> DEFINE d == delivered[g]
           new == Batch(LastRead(g))
           w == IF ReadLost(g) THEN Reading ELSE [batch |-> new, at |-> "calling"]
<1>0. Gives(g)
  BY DEF XReadGroup, ReadLost
<1>1. d \in Nat /\ published \in Nat /\ d <= published
      /\ workers \in [Groups -> WorkerStates] /\ processed \in [Groups -> Seq(Nat)]
  BY DEF BusInv, BusTypes
<1>2. PICK n \in Nat \ {0} :
          /\ d + n <= published
          /\ new = [k \in 1..n |-> d + k]
          /\ delivered' = [delivered EXCEPT ![g] = d + n]
          /\ pending' = [pending EXCEPT ![g] = @ \cup ((d + 1)..(d + n))]
  BY <1>0, GivenIs
<1>3. workers[g] = Reading /\ UNCHANGED <<published, created, subscribers, starts, processed>>
  BY <1>0 DEF Gives
<1>4. workers' = [workers EXCEPT ![g] = w]
  <2>1. CASE ReadLost(g)
    BY <1>1, <1>3, <2>1 DEF ReadLost
  <2>2. CASE ~ReadLost(g)
    BY <2>2 DEF XReadGroup
  <2> QED
    BY <2>1, <2>2
<1> HIDE DEF d, new
<1>5. WorkerInv(<<>>, "reading", d, processed[g])
  BY EmptyHanded, <1>1 DEF BusInv, WorkersInv, d
<1>6. WorkerInv(new, "calling", d + n, processed[g])
  BY <1>1, <1>2, <1>5, WorkerReads
<1>7. d + n \in Nat /\ d + n \in 0..published /\ (d + 1)..(d + n) \subseteq 1..published
  BY <1>1, <1>2
<1>8. new \in Seq(Nat)
  BY <1>6 DEF WorkerInv, BatchInv
<1>9. w \in WorkerStates /\ WorkerInv(w.batch, w.at, d + n, processed[g])
  <2>1. CASE ReadLost(g)
    <3>1. WorkerInv(<<>>, "reading", d + n, processed[g])
      BY <1>6, <1>7, EmptyHanded
    <3>2. w = Reading /\ <<>> \in Seq(Nat)
      BY <2>1, EmptySeq
    <3> QED
      BY <3>1, <3>2 DEF Reading
  <2>2. CASE ~ReadLost(g)
    <3>1. w = [batch |-> new, at |-> "calling"]
      BY <2>2
    <3> QED
      BY <1>6, <1>8, <3>1
  <2> QED
    BY <2>1, <2>2
<1> HIDE DEF w
<1>10. pending' \in [Groups -> SUBSET (1..published)]
  BY <1>2, <1>7 DEF BusInv, BusTypes
<1>11. /\ WorkersInv'
       /\ workers' \in [Groups -> WorkerStates]
       /\ delivered' \in [Groups -> 0..published]
  <2>1. processed' = [processed EXCEPT ![g] = processed[g]] /\ processed[g] \in Seq(Nat)
    BY <1>1, <1>3
  <2> QED
    BY <1>2, <1>4, <1>7, <1>9, <2>1, OneWorker DEF BusInv
<1>12. AckedIsProcessed'
  BY <1>0, <1>3, GivenIsPending DEF BusInv, AckedIsProcessed, Processed
<1>13. BusTypes'
  BY <1>3, <1>10, <1>11 DEF BusInv, BusTypes
<1> QED
  BY <1>11, <1>12, <1>13 DEF BusInv

(* A worker that calls or acknowledges goes on: with nothing in hand, or   *)
(* with the rest of its batch.                                             *)
LEMMA GoingOn ==
    ASSUME BusTypes, WorkersInv, NEW g \in Groups, workers[g].at \in {"calling", "acknowledging"},
           GoesOn(g), UNCHANGED <<published, created, subscribers, delivered, starts, processed>>,
           pending' \in [Groups -> SUBSET (1..published)]
    PROVE  BusTypes' /\ WorkersInv'
<1> DEFINE b == workers[g].batch
           w == IF Len(b) = 1 THEN Reading ELSE [batch |-> Tail(b), at |-> "calling"]
<1>1. workers' = [workers EXCEPT ![g] = w]
  BY DEF GoesOn, BusTypes
<1>2. WorkerInv(b, workers[g].at, delivered[g], processed[g]) /\ delivered[g] \in Nat
  BY DEF WorkersInv, BusTypes
<1>3. b \in Seq(Nat) /\ b # <<>>
  BY <1>2 DEF WorkerInv, BatchInv
<1>4. Tail(b) \in Seq(Nat) /\ <<>> \in Seq(Nat)
  BY <1>3, HeadTailProperties, EmptySeq
<1>5. w \in WorkerStates
  BY <1>4 DEF Reading
<1>6. WorkerInv(w.batch, w.at, delivered[g], processed[g])
  <2>1. CASE Len(b) = 1
    BY <1>2, <2>1, EmptyHanded DEF Reading
  <2>2. CASE Len(b) # 1
    BY <1>2, <2>2, WorkerGoesOn
  <2> QED
    BY <2>1, <2>2
<1> HIDE DEF w
<1>7. /\ delivered' = [delivered EXCEPT ![g] = delivered[g]]
      /\ processed' = [processed EXCEPT ![g] = processed[g]]
      /\ delivered[g] \in 0..published /\ processed[g] \in Seq(Nat)
  BY DEF BusTypes
<1>8. /\ WorkersInv'
      /\ workers' \in [Groups -> WorkerStates]
  BY <1>1, <1>5, <1>6, <1>7, OneWorker
<1>9. BusTypes'
  BY <1>8 DEF BusTypes
<1> QED
  BY <1>8, <1>9

LEMMA RaisesStep ==
    ASSUME BusInv, NEW g \in Groups, CallbackRaises(g)
    PROVE  BusInv'
<1>1. UNCHANGED <<published, created, delivered, pending, subscribers, starts, processed>>
  BY DEF CallbackRaises, serverVars
<1>2. pending' \in [Groups -> SUBSET (1..published)]
  BY <1>1 DEF BusInv, BusTypes
<1>3. BusTypes' /\ WorkersInv'
  BY <1>1, <1>2, GoingOn DEF CallbackRaises, BusInv
<1> QED
  BY <1>1, <1>3, SameAcked DEF BusInv

LEMMA ReturnsStep ==
    ASSUME BusInv, NEW g \in Groups, CallbackReturns(g)
    PROVE  BusInv'
<1> DEFINE b == workers[g].batch
           p == Append(processed[g], Head(b))
           w == [workers[g] EXCEPT !.at = "acknowledging"]
<1>1. workers[g].at = "calling" /\ UNCHANGED <<published, created, delivered, pending, subscribers, starts>>
  BY DEF CallbackReturns, serverVars
<1>2. workers[g] \in WorkerStates
  BY DEF BusInv, BusTypes
<1>3. w \in WorkerStates
      /\ w.batch = b /\ w.at = "acknowledging"
  BY <1>2
<1>4. WorkerInv(b, "calling", delivered[g], processed[g]) /\ delivered[g] \in 0..published
      /\ delivered[g] \in Nat
  BY <1>1 DEF BusInv, BusTypes, WorkersInv
<1>5. WorkerInv(b, "acknowledging", delivered[g], p)
  BY <1>4, WorkerHandles
<1>6. p \in Seq(Nat)
  BY <1>5 DEF WorkerInv, HandledInv
<1>7. /\ workers' = [workers EXCEPT ![g] = w]
      /\ processed' = [processed EXCEPT ![g] = p]
      /\ delivered' = [delivered EXCEPT ![g] = delivered[g]]
  BY <1>1 DEF CallbackReturns, BusInv, BusTypes
<1> HIDE DEF w, p
<1>8. /\ WorkersInv'
      /\ workers' \in [Groups -> WorkerStates]
      /\ processed' \in [Groups -> Seq(Nat)]
  BY <1>3, <1>4, <1>5, <1>6, <1>7, OneWorker DEF BusInv
<1>9. BusTypes'
  BY <1>1, <1>8 DEF BusInv, BusTypes
<1>10. AckedIsProcessed'
  <2> SUFFICES ASSUME NEW h \in Groups PROVE (1..delivered[h]) \ pending[h] \subseteq Processed(h)'
    BY <1>1 DEF AckedIsProcessed
  <2>1. (1..delivered[h]) \ pending[h] \subseteq Processed(h)
    BY DEF BusInv, AckedIsProcessed
  <2>2. CASE h # g
    BY <1>7, <2>1, <2>2 DEF BusInv, BusTypes, Processed
  <2>3. CASE h = g
    <3>1. Head(b) \in Nat /\ processed[g] \in Seq(Nat)
      BY <1>4, WorkerNumbers DEF BusInv, BusTypes, Numbers, WorkerInv, BatchInv
    <3>2. /\ Len(p) = Len(processed[g]) + 1 /\ Len(processed[g]) \in Nat
          /\ \A n \in 1..Len(processed[g]) : p[n] = processed[g][n]
      BY <3>1, AppendProperties, LenProperties DEF p
    <3>3. processed'[g] = p
      BY <1>7 DEF BusInv, BusTypes
    <3>4. Processed(g) \subseteq Processed(g)'
      BY <3>2, <3>3 DEF Processed
    <3> QED
      BY <2>1, <2>3, <3>4
  <2> QED
    BY <2>2, <2>3
<1> QED
  BY <1>8, <1>9, <1>10 DEF BusInv

LEMMA AckStep ==
    ASSUME BusInv, NEW g \in Groups, NEW raises \in BOOLEAN, XAck(g, raises)
    PROVE  BusInv'
<1> DEFINE b == workers[g].batch
<1>1. workers[g].at = "acknowledging"
      /\ UNCHANGED <<published, created, delivered, subscribers, starts, processed>>
  BY DEF XAck
<1>2. pending' = pending \/ pending' = [pending EXCEPT ![g] = @ \ {Head(b)}]
  BY DEF XAck
<1>3. pending' \in [Groups -> SUBSET (1..published)]
  BY <1>2 DEF BusInv, BusTypes
<1>4. BusTypes' /\ WorkersInv'
  BY <1>1, <1>3, GoingOn DEF XAck, BusInv
<1>5. Head(b) \in Processed(g)
  <2>1. WorkerInv(b, "acknowledging", delivered[g], processed[g]) /\ delivered[g] \in Nat
    BY <1>1 DEF BusInv, BusTypes, WorkersInv
  <2>2. Numbers(b, delivered[g], processed[g])
    BY <2>1, WorkerNumbers
  <2>3. b # <<>> /\ processed[g] # <<>> /\ processed[g][Len(processed[g])] = b[1]
    BY <2>1 DEF WorkerInv, BatchInv, HandledInv
  <2>4. Head(b) = b[1] /\ Len(processed[g]) \in 1..Len(processed[g])
    BY <2>2, <2>3 DEF Numbers
  <2> QED
    BY <2>3, <2>4 DEF Processed
<1>6. AckedIsProcessed'
  <2> SUFFICES ASSUME NEW h \in Groups, NEW m \in 1..delivered[h], m \notin pending'[h]
      PROVE m \in Processed(h)
    BY <1>1 DEF AckedIsProcessed, Processed
  <2>1. CASE m \notin pending[h]
    BY <2>1 DEF BusInv, AckedIsProcessed
  <2>2. CASE m \in pending[h]
    BY <1>2, <1>5, <2>2 DEF BusInv, BusTypes
  <2> QED
    BY <2>1, <2>2
<1> QED
  BY <1>4, <1>6 DEF BusInv

LEMMA BusInvStep == BusInv /\ [BusNext]_busVars => BusInv'
<1> SUFFICES ASSUME BusInv, [BusNext]_busVars PROVE BusInv'
  OBVIOUS
<1>1. CASE Publish
  BY <1>1, PublishStep
<1>2. ASSUME NEW g \in Groups, Subscribe(g) PROVE BusInv'
  BY <1>2, SubscribeStep
<1>3. ASSUME NEW g \in Groups, XReadGroup(g) \/ ReadLost(g) PROVE BusInv'
  BY <1>3, ReadStep
<1>4. ASSUME NEW g \in Groups, CallbackReturns(g) PROVE BusInv'
  BY <1>4, ReturnsStep
<1>5. ASSUME NEW g \in Groups, CallbackRaises(g) PROVE BusInv'
  BY <1>5, RaisesStep
<1>6. ASSUME NEW g \in Groups, NEW raises \in BOOLEAN, XAck(g, raises) PROVE BusInv'
  BY <1>6, AckStep
<1>7. CASE BusStart \/ BusStop
  BY <1>7, RestartStep
<1>8. CASE UNCHANGED busVars
  <2>1. UNCHANGED <<published, created, delivered, pending, subscribers, workers, starts, processed>>
    BY <1>8 DEF busVars, serverVars
  <2>2. BusTypes'
    BY <2>1 DEF BusInv, BusTypes
  <2> QED
    BY <2>1, <2>2, SameAcked, SameWorkers DEF BusInv
<1> QED
  BY <1>1, <1>2, <1>3, <1>4, <1>5, <1>6, <1>7, <1>8 DEF BusNext

(* A group handles the messages in the order of the stream, and none of    *)
(* them twice, however callbacks, acknowledgements and workers fail.       *)
THEOREM HandledInOrder == BusSpec => []ProcessedInOrder
<1>1. BusInv => ProcessedInOrder
  BY DEF BusInv, WorkersInv, WorkerInv, HandledInv, Ordered, ProcessedInOrder
<1> QED
  BY <1>1, BusInitInv, BusInvStep, PTL DEF BusSpec

(* A message that was delivered and is not pending was handled.            *)
THEOREM AcknowledgedWasHandled == BusSpec => []AckedIsProcessed
<1>1. BusInv => AckedIsProcessed
  BY DEF BusInv
<1> QED
  BY <1>1, BusInitInv, BusInvStep, PTL DEF BusSpec

(* Both together: what was acknowledged was handled, once and in order.    *)
THEOREM AcknowledgedOnceInOrder == BusSpec => []HandledExactly
<1>1. ProcessedInOrder /\ AckedIsProcessed => HandledExactly
  BY DEF HandledExactly
<1> QED
  BY <1>1, HandledInOrder, AcknowledgedWasHandled, PTL

(* The refinement, one action of the bus at a time.  What a read adds to   *)
(* the deliveries is pending at once: no acknowledgement changes.          *)
LEMMA ReadGives ==
    ASSUME BusInv, NEW g \in Groups, XReadGroup(g) \/ ReadLost(g)
    PROVE  Log!Give(g)
<1> DEFINE d == delivered[g]
<1>0. Gives(g)
  BY DEF XReadGroup, ReadLost
<1>1. PICK n \in Nat \ {0} : d + n <= published /\ delivered' = [delivered EXCEPT ![g] = d + n]
  BY <1>0, GivenIs
<1>2. UNCHANGED <<published, processed>>
  BY <1>0 DEF Gives
<1>3. d \in Nat /\ published \in Nat
  BY DEF BusInv, BusTypes
<1>4. d + n \in (d + 1)..published
  BY <1>1, <1>3
<1>5. acknowledged' = acknowledged
  BY <1>0, GivenIsPending DEF acknowledged
<1> QED
  BY <1>1, <1>2, <1>4, <1>5 DEF Log!Give

(* The message at hand lies behind all that the group has handled.         *)
LEMMA ReturnsHandles ==
    ASSUME BusInv, NEW g \in Groups, CallbackReturns(g)
    PROVE  Log!Handle(g)
<1> DEFINE b == workers[g].batch
           d == delivered[g]
           p == processed[g]
<1>1. workers[g].at = "calling" /\ UNCHANGED <<published, delivered, pending>>
      /\ processed' = [processed EXCEPT ![g] = Append(@, Head(b))]
  BY DEF CallbackReturns, serverVars
<1>2. WorkerInv(b, "calling", d, p) /\ d \in Nat
  BY <1>1 DEF BusInv, BusTypes, WorkersInv
<1>3. Numbers(b, d, p)
  BY <1>2, WorkerNumbers
<1>4. b # <<>> /\ Len(b) <= d /\ \A n \in 1..Len(p) : p[n] <= d - Len(b)
  BY <1>2 DEF WorkerInv, BatchInv, HandledInv
<1> HIDE DEF b, d, p
<1>5. Head(b) \in 1..d
  BY <1>2, <1>3, <1>4 DEF Numbers
<1>6. \A n \in 1..Len(p) : p[n] < Head(b)
  <2> SUFFICES ASSUME NEW n \in 1..Len(p) PROVE p[n] < Head(b)
    OBVIOUS
  <2>1. p[n] \in Nat /\ p[n] <= d - Len(b) /\ Len(b) \in Nat /\ Head(b) = d - Len(b) + 1
    BY <1>3, <1>4 DEF Numbers
  <2> QED
    BY <1>2, <2>1
<1>7. \A earlier \in Log!Done(g) : earlier < Head(b)
  BY <1>6 DEF Log!Done, p
<1>8. acknowledged' = acknowledged
  BY <1>1 DEF acknowledged
<1> QED
  BY <1>1, <1>5, <1>7, <1>8 DEF Log!Handle, d

(* An acknowledgement takes the message handled last from the pending ones.*)
LEMMA AckAcknowledges ==
    ASSUME BusInv, NEW g \in Groups, NEW raises \in BOOLEAN, XAck(g, raises)
    PROVE  [Log!Next]_(Log!logVars)
<1> DEFINE b == workers[g].batch
           d == delivered[g]
           p == processed[g]
           m == Head(b)
<1>1. workers[g].at = "acknowledging" /\ UNCHANGED <<published, delivered, processed>>
  BY DEF XAck
<1>2. CASE raises
  <2>1. pending' = pending
    BY <1>2 DEF XAck
  <2> QED
    BY <1>1, <2>1 DEF acknowledged, Log!logVars
<1>3. CASE ~raises
  <2>1. pending' = [pending EXCEPT ![g] = @ \ {m}]
    BY <1>3 DEF XAck
  <2>2. WorkerInv(b, "acknowledging", d, p) /\ d \in Nat
    BY <1>1 DEF BusInv, BusTypes, WorkersInv
  <2>3. Numbers(b, d, p)
    BY <2>2, WorkerNumbers
  <2>4. b # <<>> /\ Len(b) <= d /\ p # <<>> /\ p[Len(p)] = b[1]
    BY <2>2 DEF WorkerInv, BatchInv, HandledInv
  <2>5. m = b[1] /\ Len(p) \in 1..Len(p)
    BY <2>3, <2>4 DEF Numbers
  <2>6. m \in Log!Done(g)
    BY <2>4, <2>5 DEF Log!Done
  <2>7. m \in 1..d
    BY <2>2, <2>3, <2>4 DEF Numbers
  <2> HIDE DEF m
  <2>8. ASSUME NEW h \in Groups
        PROVE  (1..delivered[h]) \ pending'[h]
                 = IF h = g THEN acknowledged[g] \cup {m} ELSE acknowledged[h]
    <3>1. CASE h # g
      BY <2>1, <3>1 DEF BusInv, BusTypes, acknowledged
    <3>2. CASE h = g
      <4>1. pending'[h] = pending[g] \ {m}
        BY <2>1, <3>2 DEF BusInv, BusTypes
      <4> QED
        BY <2>7, <3>2, <4>1 DEF acknowledged
    <3> QED
      BY <3>1, <3>2
  <2>9. acknowledged' = [acknowledged EXCEPT ![g] = @ \cup {m}]
    BY <1>1, <2>8 DEF acknowledged
  <2>10. Log!Acknowledge(g)
    BY <1>1, <2>6, <2>9 DEF Log!Acknowledge
  <2> QED
    BY <2>10 DEF Log!Next
<1> QED
  BY <1>2, <1>3

(* The bus implements the log: to a consumer group, workers, batches,      *)
(* failures, cancellations and restarts of the process show only in which  *)
(* messages were passed over and which were never acknowledged.            *)
THEOREM BusImplementsGroupLog == BusSpec => ImplementsGroupLog
<1>1. BusInit => Log!Init
  <2> SUFFICES ASSUME BusInit PROVE Log!Init
    OBVIOUS
  <2>1. \A g \in Groups : (1..delivered[g]) \ pending[g] = {}
    BY DEF BusInit
  <2> QED
    BY <2>1 DEF BusInit, Log!Init, acknowledged
<1>2. BusInv /\ [BusNext]_busVars => [Log!Next]_(Log!logVars)
  <2> SUFFICES ASSUME BusInv, [BusNext]_busVars PROVE [Log!Next]_(Log!logVars)
    OBVIOUS
  <2>1. CASE Publish
    BY <2>1 DEF Publish, acknowledged, Log!Publish, Log!Next
  <2>2. ASSUME NEW g \in Groups, XReadGroup(g) \/ ReadLost(g) PROVE Log!Next
    BY <2>2, ReadGives DEF Log!Next
  <2>3. ASSUME NEW g \in Groups, CallbackReturns(g) PROVE Log!Next
    BY <2>3, ReturnsHandles DEF Log!Next
  <2>4. ASSUME NEW g \in Groups, NEW raises \in BOOLEAN, XAck(g, raises)
        PROVE  [Log!Next]_(Log!logVars)
    BY <2>4, AckAcknowledges
  <2>5. ASSUME UNCHANGED <<published, delivered, pending, processed>>
        PROVE  UNCHANGED Log!logVars
    BY <2>5 DEF acknowledged, Log!logVars
  <2>6. ASSUME NEW g \in Groups, Subscribe(g) \/ CallbackRaises(g)
        PROVE  UNCHANGED Log!logVars
    <3>1. UNCHANGED <<published, delivered, pending, processed>>
      BY <2>6 DEF Subscribe, CallbackRaises, serverVars
    <3> QED
      BY <2>5, <3>1
  <2>7. CASE BusStart \/ BusStop \/ UNCHANGED busVars
    <3>1. UNCHANGED <<published, delivered, pending, processed>>
      BY <2>7 DEF BusStart, BusStop, busVars, serverVars
    <3> QED
      BY <2>5, <3>1
  <2> QED
    BY <2>1, <2>2, <2>3, <2>4, <2>6, <2>7 DEF BusNext
<1> QED
  BY <1>1, <1>2, BusInitInv, BusInvStep, PTL DEF BusSpec, ImplementsGroupLog, Log!Spec

(* What a group has passed over, one worker at a time. *)
LEMMA SamePassedOver ==
    ASSUME NEW g \in Groups, delivered'[g] = delivered[g], processed'[g] = processed[g],
           workers'[g].batch = workers[g].batch
    PROVE  PassedOver(g)' = PassedOver(g)
BY DEF PassedOver, Processed, InHand

(* A worker that goes on has all but the first message of its batch left.  *)
LEMMA HandGoesOn ==
    ASSUME BusTypes, WorkersInv, NEW g \in Groups, GoesOn(g),
           workers[g].at \in {"calling", "acknowledging"}
    PROVE  /\ InHand(g) = {Head(workers[g].batch)} \cup InHand(g)'
           /\ \A h \in Groups \ {g} : workers'[h] = workers[h]
<1> DEFINE b == workers[g].batch
<1>1. /\ workers[g] \in WorkerStates
      /\ \A h \in Groups \ {g} : workers'[h] = workers[h]
      /\ workers'[g] = IF Len(b) = 1 THEN Reading ELSE [batch |-> Tail(b), at |-> "calling"]
  BY DEF GoesOn, BusTypes
<1>2. b \in Seq(Nat) /\ b # <<>>
  BY <1>1 DEF WorkersInv, WorkerInv, BatchInv
<1>3. Listing(b) = {Head(b)} \cup Listing(Tail(b)) /\ Tail(b) \in Seq(Nat)
      /\ Len(Tail(b)) = Len(b) - 1
  BY <1>2, TakenIs
<1>4. InHand(g) = Listing(b) /\ InHand(g)' = Listing(workers'[g].batch)
  BY DEF InHand, Listing
<1> HIDE DEF b
<1>5. CASE Len(b) = 1
  <2>1. workers'[g].batch = <<>>
    BY <1>1, <1>5 DEF Reading
  <2>2. Listing(<<>>) = {} /\ Listing(Tail(b)) = {}
    <3>1. \A s : Len(s) = 0 => Listing(s) = {}
      BY DEF Listing
    <3>2. Len(Tail(b)) = 0 /\ Len(<<>>) = 0
      BY <1>3, <1>5, EmptySeq
    <3> QED
      BY <3>1, <3>2
  <2> QED
    BY <1>1, <1>3, <1>4, <2>1, <2>2 DEF b
<1>6. CASE Len(b) # 1
  <2>1. workers'[g].batch = Tail(b)
    BY <1>1, <1>6
  <2> QED
    BY <1>1, <1>3, <1>4, <2>1 DEF b
<1> QED
  BY <1>5, <1>6

(* Of the messages given out, those in the worker's hand are not passed    *)
(* over; if the reply was lost, all of them are.                           *)
LEMMA ReadPassesOver ==
    ASSUME BusInv, NEW g \in Groups, XReadGroup(g) \/ ReadLost(g), NEW h \in Groups
    PROVE  \/ PassedOver(h)' = PassedOver(h)
           \/ ReadLost(h) /\ PassedOver(h) \subseteq PassedOver(h)'
<1> DEFINE d == delivered[g]
<1>0. Gives(g)
  BY DEF XReadGroup, ReadLost
<1>1. PICK n \in Nat \ {0} :
          /\ Listing(Batch(LastRead(g))) = (d + 1)..(d + n)
          /\ delivered' = [delivered EXCEPT ![g] = d + n]
  BY <1>0, GivenIs
<1>2. d \in Nat /\ DOMAIN delivered = Groups /\ DOMAIN workers = Groups
  BY DEF BusInv, BusTypes
<1>3. workers[g] = Reading /\ processed' = processed
  BY <1>0 DEF Gives
<1>4. \A x \in Groups \ {g} : workers'[x] = workers[x]
  BY <1>2 DEF XReadGroup, ReadLost
<1>5. CASE h # g
  BY <1>1, <1>2, <1>3, <1>4, <1>5, SamePassedOver
<1>6. delivered'[g] = d + n /\ Processed(g)' = Processed(g)
  BY <1>1, <1>2, <1>3 DEF Processed
<1>7. CASE h = g /\ ReadLost(g)
  <2>1. InHand(g)' = InHand(g)
    BY <1>7 DEF ReadLost, InHand
  <2>2. 1..d \subseteq 1..(d + n)
    BY <1>2
  <2> QED
    BY <1>6, <1>7, <2>1, <2>2 DEF PassedOver
<1>8. CASE h = g /\ XReadGroup(g)
  <2>1. InHand(g) = {}
    <3>1. Len(<<>>) = 0
      BY EmptySeq
    <3> QED
      BY <1>3, <3>1 DEF InHand, Reading
  <2>2. InHand(g)' = (d + 1)..(d + n)
    <3>1. workers'[g].batch = Batch(LastRead(g))
      BY <1>2, <1>8 DEF XReadGroup
    <3> QED
      BY <1>1, <3>1 DEF InHand, Listing
  <2>3. (1..(d + n)) \ ((d + 1)..(d + n)) = 1..d
    BY <1>2
  <2>4. PassedOver(g)' = (1..(d + n)) \ (Processed(g) \cup ((d + 1)..(d + n)))
    BY <1>6, <2>2 DEF PassedOver
  <2>5. PassedOver(g) = (1..d) \ Processed(g)
    BY <2>1 DEF PassedOver
  <2> QED
    BY <1>8, <2>3, <2>4, <2>5
<1> QED
  BY <1>5, <1>7, <1>8

(* The message handled was in the worker's hand. *)
LEMMA ReturnPassesNothing ==
    ASSUME BusInv, NEW g \in Groups, CallbackReturns(g), NEW h \in Groups
    PROVE  PassedOver(h)' = PassedOver(h)
<1> DEFINE b == workers[g].batch
<1>1. /\ workers[g].at = "calling" /\ delivered' = delivered
      /\ processed' = [processed EXCEPT ![g] = Append(@, Head(b))]
      /\ workers' = [workers EXCEPT ![g].at = "acknowledging"]
  BY DEF CallbackReturns, serverVars
<1>2. DOMAIN processed = Groups /\ DOMAIN workers = Groups /\ workers[g] \in WorkerStates
      /\ processed[g] \in Seq(Nat)
  BY DEF BusInv, BusTypes
<1>3. b \in Seq(Nat) /\ b # <<>>
  BY <1>1 DEF BusInv, WorkersInv, WorkerInv, BatchInv
<1>4. Head(b) \in InHand(g) /\ Head(b) \in Nat
  <2>1. Head(b) \in Nat /\ Listing(b) = {Head(b)} \cup Listing(Tail(b))
    BY <1>3, TakenIs
  <2> QED
    BY <2>1 DEF InHand, Listing
<1>5. workers'[g].batch = workers[g].batch
  BY <1>1, <1>2
<1>6. CASE h # g
  BY <1>1, <1>2, <1>6, SamePassedOver
<1>7. CASE h = g
  <2>1. processed'[g] = Append(processed[g], Head(b))
    BY <1>1, <1>2
  <2> HIDE DEF b
  <2>2. Listing(processed'[g]) = Listing(processed[g]) \cup {Head(b)}
    BY <1>2, <1>4, <2>1, AppendedIs
  <2>3. Processed(g)' = Processed(g) \cup {Head(b)}
    BY <2>2 DEF Processed, Listing
  <2>4. InHand(g)' = InHand(g)
    BY <1>5 DEF InHand
  <2> QED
    BY <1>1, <1>4, <1>7, <2>3, <2>4 DEF PassedOver
<1> QED
  BY <1>6, <1>7

(* A message whose callback raised is passed over, and nothing else.       *)
LEMMA RaisePassesOver ==
    ASSUME BusInv, NEW g \in Groups, CallbackRaises(g), NEW h \in Groups
    PROVE  PassedOver(h) \subseteq PassedOver(h)'
<1>1. workers[g].at = "calling" /\ GoesOn(g) /\ delivered' = delivered /\ processed' = processed
  BY DEF CallbackRaises, serverVars
<1>2. /\ InHand(g) = {Head(workers[g].batch)} \cup InHand(g)'
      /\ \A x \in Groups \ {g} : workers'[x] = workers[x]
  BY <1>1, HandGoesOn DEF BusInv
<1>3. CASE h # g
  BY <1>1, <1>2, <1>3, SamePassedOver
<1>4. CASE h = g
  <2>1. InHand(g)' \subseteq InHand(g) /\ Processed(g)' = Processed(g)
    BY <1>1, <1>2 DEF Processed
  <2> QED
    BY <1>1, <1>4, <2>1 DEF PassedOver
<1> QED
  BY <1>3, <1>4

(* The message a worker acknowledges, or fails to, was handled.            *)
LEMMA AckPassesNothing ==
    ASSUME BusInv, NEW g \in Groups, NEW raises \in BOOLEAN, XAck(g, raises), NEW h \in Groups
    PROVE  PassedOver(h)' = PassedOver(h)
<1> DEFINE m == Head(workers[g].batch)
<1>1. workers[g].at = "acknowledging" /\ GoesOn(g) /\ delivered' = delivered
      /\ processed' = processed
  BY DEF XAck
<1>2. /\ InHand(g) = {m} \cup InHand(g)'
      /\ \A x \in Groups \ {g} : workers'[x] = workers[x]
  BY <1>1, HandGoesOn DEF BusInv
<1>3. m \in Processed(g)
  <2> DEFINE b == workers[g].batch
  <2>1. WorkerInv(b, "acknowledging", delivered[g], processed[g]) /\ delivered[g] \in Nat
    BY <1>1 DEF BusInv, BusTypes, WorkersInv
  <2>2. Numbers(b, delivered[g], processed[g])
    BY <2>1, WorkerNumbers
  <2>3. b # <<>> /\ processed[g] # <<>> /\ processed[g][Len(processed[g])] = b[1]
    BY <2>1 DEF WorkerInv, BatchInv, HandledInv
  <2>4. Head(b) = b[1] /\ Len(processed[g]) \in 1..Len(processed[g])
    BY <2>2, <2>3 DEF Numbers
  <2> QED
    BY <2>3, <2>4 DEF Processed
<1> HIDE DEF m
<1>4. CASE h # g
  BY <1>1, <1>2, <1>4, SamePassedOver
<1>5. CASE h = g
  <2>1. Processed(g)' = Processed(g)
    BY <1>1 DEF Processed
  <2>2. Processed(g) \cup InHand(g) = Processed(g)' \cup InHand(g)'
    BY <1>2, <1>3, <2>1
  <2> QED
    BY <1>1, <1>5, <2>2 DEF PassedOver
<1> QED
  BY <1>4, <1>5

(* Workers that start have nothing in hand, as those that were stopped.    *)
LEMMA StartPassesNothing ==
    ASSUME BusInv, BusStart, NEW h \in Groups
    PROVE  PassedOver(h)' = PassedOver(h)
<1>1. /\ workers[h].at = "stopped" /\ delivered' = delivered /\ processed' = processed
      /\ workers'[h] \in {Reading, NoWorker}
  BY DEF BusStart, BusRunning
<1>2. workers[h].batch = <<>>
  BY <1>1 DEF BusInv, WorkersInv, WorkerInv, BatchInv
<1>3. workers'[h].batch = <<>>
  BY <1>1 DEF Reading, NoWorker
<1> QED
  BY <1>1, <1>2, <1>3, SamePassedOver

LEMMA StopPassesOver ==
    ASSUME BusStop, NEW h \in Groups
    PROVE  PassedOver(h) \subseteq PassedOver(h)'
<1>1. delivered' = delivered /\ processed' = processed /\ workers'[h].batch = <<>>
  BY DEF BusStop, serverVars, NoWorker
<1>2. InHand(h)' = {}
  <2>1. Len(<<>>) = 0
    BY EmptySeq
  <2> QED
    BY <1>1, <2>1 DEF InHand
<1>3. Processed(h)' = Processed(h)
  BY <1>1 DEF Processed
<1> QED
  BY <1>1, <1>2, <1>3 DEF PassedOver

(* A message is passed over only by a callback that raises, the lost reply *)
(* to a read, or a stop, and then no restart, no other worker and no       *)
(* acknowledgement brings it back: what the stream keeps as pending is     *)
(* never read again.                                                       *)
THEOREM PassedOverForGood == BusSpec => LostByFailureForGood
<1> DEFINE Fate == \A g \in Groups : /\ PassedOver(g) \subseteq PassedOver(g)'
                                     /\ PassedOver(g)' # PassedOver(g) =>
                                          CallbackRaises(g) \/ ReadLost(g) \/ BusStop
<1>1. BusInv /\ [BusNext]_busVars => Fate
  <2> SUFFICES ASSUME BusInv, [BusNext]_busVars, NEW h \in Groups
               PROVE  \/ PassedOver(h)' = PassedOver(h)
                      \/ PassedOver(h) \subseteq PassedOver(h)' 
                         /\ (CallbackRaises(h) \/ ReadLost(h) \/ BusStop)
    OBVIOUS
  <2>1. ASSUME NEW g \in Groups, Subscribe(g) PROVE PassedOver(h)' = PassedOver(h)
    BY <2>1, SamePassedOver DEF Subscribe, serverVars
  <2>2. ASSUME NEW g \in Groups, CallbackRaises(g), g # h PROVE PassedOver(h)' = PassedOver(h)
    <3>1. workers[g].at = "calling" /\ GoesOn(g) /\ delivered' = delivered /\ processed' = processed
      BY <2>2 DEF CallbackRaises, serverVars
    <3>2. \A x \in Groups \ {g} : workers'[x] = workers[x]
      BY <3>1, HandGoesOn DEF BusInv
    <3> QED
      BY <2>2, <3>1, <3>2, SamePassedOver
  <2>3. CASE Publish
    BY <2>3, SamePassedOver DEF Publish
  <2>4. CASE UNCHANGED busVars
    BY <2>4, SamePassedOver DEF busVars, serverVars
  <2>5. CASE \E g \in Groups : XReadGroup(g) \/ ReadLost(g)
    BY <2>5, ReadPassesOver
  <2>6. CASE \E g \in Groups : CallbackReturns(g)
    BY <2>6, ReturnPassesNothing
  <2>7. CASE \E g \in Groups, raises \in BOOLEAN : XAck(g, raises)
    BY <2>7, AckPassesNothing
  <2>8. CASE \E g \in Groups : CallbackRaises(g)
    BY <2>2, <2>8, RaisePassesOver
  <2>9. CASE BusStart
    BY <2>9, StartPassesNothing
  <2>10. CASE BusStop
    BY <2>10, StopPassesOver
  <2> QED
    BY <2>1, <2>3, <2>4, <2>5, <2>6, <2>7, <2>8, <2>9, <2>10 DEF BusNext
<1> QED
  BY <1>1, BusInitInv, BusInvStep, PTL DEF BusSpec, LostByFailureForGood

(* The types of the bus: every batch has messages of the stream.           *)
THEOREM BusTypeCorrect == BusSpec => []BusTypeOK
<1>1. ASSUME BusInv PROVE BusTypeOK
  <2>1. published \in 0..MaxPublished /\ MaxPublished \in Nat
    BY <1>1, BusAssumption DEF BusInv, BusTypes
  <2>2. 0..published \subseteq 0..MaxPublished /\ 1..published \subseteq 1..MaxPublished
    BY <2>1
  <2>3. ASSUME NEW g \in Groups PROVE workers[g].batch \in Seq(1..MaxPublished)
    <3> DEFINE b == workers[g].batch
               d == delivered[g]
    <3>1. /\ b \in Seq(Nat) /\ Len(b) <= d /\ \A n \in 1..Len(b) : b[n] = d - Len(b) + n
          /\ d \in 0..MaxPublished
      BY <1>1, <2>2 DEF BusInv, BusTypes, WorkersInv, WorkerInv, BatchInv
    <3> HIDE DEF b, d
    <3>2. Len(b) \in Nat
      BY <3>1
    <3>3. \A n \in 1..Len(b) : b[n] \in 1..MaxPublished
      BY <2>1, <3>1, <3>2
    <3>4. b \in [1..Len(b) -> 1..MaxPublished]
      BY <3>1, <3>2, <3>3
    <3>5. b \in Seq(1..MaxPublished)
      BY <3>2, <3>4, SeqDef
    <3> QED
      BY <3>5 DEF b
  <2>4. workers \in [Groups -> [batch: Seq(1..MaxPublished),
                                at: {"stopped", "reading", "calling", "acknowledging"}]]
    <3>1. \A g \in Groups : workers[g] \in [batch: Seq(1..MaxPublished),
                                             at: {"stopped", "reading", "calling", "acknowledging"}]
      <4> TAKE g \in Groups
      <4>1. workers[g] \in [batch: Seq(Nat), at: {"stopped", "reading", "calling", "acknowledging"}]
        BY <1>1 DEF BusInv, BusTypes
      <4>2. workers[g] = [batch |-> workers[g].batch, at |-> workers[g].at]
        BY <4>1
      <4>3. workers[g].batch \in Seq(1..MaxPublished)
            /\ workers[g].at \in {"stopped", "reading", "calling", "acknowledging"}
        BY <2>3, <4>1
      <4> QED
        BY <4>2, <4>3
    <3> QED
      BY <1>1, <3>1 DEF BusInv, BusTypes
  <2> QED
    BY <1>1, <2>2, <2>4 DEF BusInv, BusTypes, BusTypeOK
<1> QED
  BY <1>1, BusInitInv, BusInvStep, PTL DEF BusSpec

-----------------------------------------------------------------------------
(* Recovery.                                                               *)

BrokerIds == Orders \cup Manual

RowType == [status: RowStatus, known: BOOLEAN, filled: 0..Quantity]

(* The fill reports of an order that are under way.                        *)
ReportsOf(o) == {n \in 1..Quantity : <<o, n>> \in reports}

(* A row shows the fills that were heard: those at the broker but for the  *)
(* reports that are under way or lost.                                     *)
FillsHeard ==
    \A o \in Orders : rows[o].filled + Cardinality(ReportsOf(o)) <= atBroker[o].filled

(* What step 7 has read, while the broker is asked, is behind the rows at  *)
(* most: they know the order, and show the fills that it read or more.     *)
ReadBehind ==
    \A r \in reading : r.at = "asked" =>
        \A o \in DOMAIN r.known :
            o \in Orders /\ rows[o].known /\ r.known[o].filled_quantity \in 0..rows[o].filled

(* A list under way that will be found without a critical difference was   *)
(* made when the table agreed with it.                                     *)
ListsJudged ==
    \A r \in reading : r.at = "listed" =>
        HasCritical(OrderDiffs(r.known, r.listed)) \/ r.agreed

(* The system's own trades, read for a comparison, are heard of.           *)
NotedHeard == \A r \in reading : r.at = "internal" => r.trades \subseteq heard

(* One comparison is under way at a time.                                  *)
OneReading == \A q, r \in reading : q = r

ReadingTyped ==
    \A r \in reading : \/ r.at \in {"asked", "listed"} /\ DOMAIN r.known \subseteq Orders
                       \/ r.at \in {"internal", "broker"} /\ r.trades \subseteq BrokerTrades

RecoveryInv ==
    /\ RecoveryTypeOK
    /\ rows \in [Orders -> RowType]
    /\ atBroker \in [BrokerIds -> [status: {"absent", "accepted", "partial_filled", "filled"},
                                   filled: 0..Quantity]]
    /\ \A o \in BrokerIds : atBroker[o].status = "absent" => atBroker[o] = Absent
    /\ \A t \in reports : t[1] \in Orders
    /\ FillsHeard /\ ReadBehind /\ ListsJudged /\ NotedHeard /\ OneReading

LEMMA StatusesOfRows ==
    {"absent", "submitted", "accepted", "partial_filled", "filled", "canceled"} \subseteq RowStatus
BY DEF RowStatus, OrderTransitions

LEMMA RecoveryInvInit == RecoveryInit => RecoveryInv
<1> SUFFICES ASSUME RecoveryInit
             PROVE  RecoveryInv
  OBVIOUS
<1> USE RecoveryAssumption
<1>1. /\ rows = [o \in Orders |-> NoRow] /\ atBroker = [o \in BrokerIds |-> Absent]
      /\ heard = {} /\ reports = {} /\ reading = {} /\ awaiting = {} /\ events = {} /\ handled = {}
      /\ up = TRUE /\ crashes = 0 /\ session = "none" /\ answer = NoAnswer
  BY DEF RecoveryInit, BrokerIds
<1>2. 0 \in 0..Quantity /\ NoRow \in RowType
  BY StatusesOfRows DEF NoRow, RowType
<1>3. up \in BOOLEAN
  BY <1>1, Zenon
<1>4. RecoveryTypeOK /\ rows \in [Orders -> RowType]
  BY <1>1, <1>2, <1>3 DEF RecoveryTypeOK, RowType
<1>5. /\ atBroker \in [BrokerIds -> [status: {"absent", "accepted", "partial_filled", "filled"},
                                     filled: 0..Quantity]]
      /\ \A o \in BrokerIds : atBroker[o].status = "absent" => atBroker[o] = Absent
  BY <1>1, <1>2 DEF Absent
<1>6. FillsHeard
  <2>1. \A o \in Orders : ReportsOf(o) = {}
    BY <1>1 DEF ReportsOf
  <2>2. \A o \in Orders : rows[o].filled = 0 /\ atBroker[o].filled = 0
    BY <1>1 DEF NoRow, Absent, BrokerIds
  <2>3. \A o \in Orders : Cardinality(ReportsOf(o)) = 0
    BY <2>1, FS_EmptySet
  <2> QED
    BY <2>2, <2>3 DEF FillsHeard
<1>7. ReadBehind /\ ListsJudged /\ NotedHeard /\ OneReading
  BY <1>1 DEF ReadBehind, ListsJudged, NotedHeard, OneReading
<1> QED
  BY <1>1, <1>4, <1>5, <1>6, <1>7 DEF RecoveryInv

LEMMA ReportsAreFinite ==
    ASSUME NEW o
    PROVE  IsFiniteSet(ReportsOf(o)) /\ Cardinality(ReportsOf(o)) \in Nat
<1>1. ReportsOf(o) \subseteq 1..Quantity /\ IsFiniteSet(1..Quantity)
  BY RecoveryAssumption, FS_Interval DEF ReportsOf
<1> QED
  BY <1>1, FS_Subset, FS_CardinalityType

(* A row that moves, fills, or is canceled stays a row.                    *)
LEMMA RowsMove ==
    ASSUME NEW o \in Orders, rows \in [Orders -> RowType],
           NEW row \in RowType, rows' = [rows EXCEPT ![o] = row],
           rows[o].known => row.known, rows[o].filled <= row.filled, ReadBehind, reading' = reading
    PROVE  rows' \in [Orders -> RowType] /\ ReadBehind'
<1>1. \A p \in Orders : /\ rows[p].known => rows'[p].known
                        /\ rows[p].filled \in 0..rows'[p].filled
  BY RecoveryAssumption DEF RowType
<1>2. \A p \in Orders : rows'[p].filled \in Nat
  BY DEF RowType
<1>3. ReadBehind'
  <2> SUFFICES ASSUME NEW r \in reading, r.at = "asked", NEW p \in DOMAIN r.known
               PROVE  p \in Orders /\ rows'[p].known /\ r.known[p].filled_quantity \in 0..rows'[p].filled
    BY DEF ReadBehind
  <2>1. p \in Orders /\ rows[p].known /\ r.known[p].filled_quantity \in 0..rows[p].filled
    BY DEF ReadBehind
  <2> QED
    BY <1>1, <1>2, <2>1
<1> QED
  BY <1>3

BrokerType == [status: {"absent", "accepted", "partial_filled", "filled"}, filled: 0..Quantity]

(* What is left to show of a step of orders, the rest being unchanged.     *)
OrdersFine ==
    /\ rows \in [Orders -> RowType] /\ atBroker \in [BrokerIds -> BrokerType]
    /\ \A o \in BrokerIds : atBroker[o].status = "absent" => atBroker[o] = Absent
    /\ awaiting \subseteq Orders /\ heard \subseteq BrokerTrades /\ reports \subseteq BrokerTrades
    /\ \A t \in reports : t[1] \in Orders
    /\ FillsHeard /\ ReadBehind

LEMMA TradesGrow ==
    ASSUME atBroker \in [BrokerIds -> BrokerType], atBroker' \in [BrokerIds -> BrokerType],
           \A o \in BrokerIds : atBroker[o].filled <= atBroker'[o].filled
    PROVE  BrokerTrades \subseteq BrokerTrades'
<1> SUFFICES ASSUME NEW o \in BrokerIds, NEW t \in TradesOf(o)
             PROVE  t \in TradesOf(o)'
  BY DEF BrokerTrades, BrokerIds
<1>1. atBroker[o].filled \in Nat /\ atBroker'[o].filled \in Nat
  BY RecoveryAssumption DEF BrokerType
<1>2. 1..atBroker[o].filled \subseteq 1..atBroker'[o].filled
  BY <1>1
<1> QED
  BY <1>2 DEF TradesOf

LEMMA TradesSmall ==
    ASSUME atBroker \in [BrokerIds -> BrokerType], NEW o \in BrokerIds, NEW n
    PROVE  <<o, n>> \in BrokerTrades <=> n \in 1..atBroker[o].filled
BY DEF BrokerTrades, TradesOf, BrokerIds

(* A step that only touches one row.                                       *)
LEMMA RowStep ==
    ASSUME RecoveryInv, reading' = reading, NEW o \in Orders, NEW row \in RowType,
           rows' = [rows EXCEPT ![o] = row], rows[o].known => row.known,
           row.filled = rows[o].filled, awaiting' \subseteq Orders,
           UNCHANGED <<heard, reports, atBroker>>
    PROVE  OrdersFine'
<1>1. rows' \in [Orders -> RowType] /\ ReadBehind'
  <2>1. rows \in [Orders -> RowType] /\ ReadBehind
    BY DEF RecoveryInv
  <2>2. row.filled \in Nat
    BY RecoveryAssumption DEF RowType
  <2>3. rows[o].filled <= row.filled
    BY <2>2
  <2> QED
    BY <2>1, <2>3, RowsMove
<1>2. \A p \in Orders : rows'[p].filled = rows[p].filled /\ ReportsOf(p)' = ReportsOf(p)
  BY DEF RecoveryInv, ReportsOf
<1>3. FillsHeard'
  BY <1>2 DEF RecoveryInv, FillsHeard
<1>4. BrokerTrades' = BrokerTrades
  BY DEF BrokerTrades, TradesOf
<1> QED
  BY <1>1, <1>3, <1>4 DEF RecoveryInv, RecoveryTypeOK, OrdersFine, BrokerType

LEMMA OrderStepFine ==
    ASSUME RecoveryInv, OrderStep, UNCHANGED <<up, crashes, stepVars, eventVars>>
    PROVE  OrdersFine'
<1> USE RecoveryAssumption
<1>1. /\ rows \in [Orders -> RowType] /\ atBroker \in [BrokerIds -> BrokerType]
      /\ reading' = reading /\ ReadBehind /\ FillsHeard /\ Orders \subseteq BrokerIds
      /\ awaiting \subseteq Orders /\ heard \subseteq BrokerTrades /\ reports \subseteq BrokerTrades
      /\ \A t \in reports : t[1] \in Orders
      /\ \A o \in BrokerIds : atBroker[o].status = "absent" => atBroker[o] = Absent
      /\ Manual \subseteq BrokerIds
  BY DEF RecoveryInv, RecoveryTypeOK, BrokerType, stepVars, BrokerIds
<1>2. \A o \in Orders : rows[o].filled \in 0..Quantity
  BY <1>1 DEF RowType
<1>3. ASSUME NEW o \in Orders, Submit(o) PROVE OrdersFine'
  <2> DEFINE row == [rows[o] EXCEPT !.status = "submitted"]
  <2>1. rows' = [rows EXCEPT ![o] = row] /\ row \in RowType
    BY <1>1, <1>3, StatusesOfRows DEF Submit, RowType
  <2>2. row.filled = rows[o].filled /\ row.known = rows[o].known
    BY <1>1 DEF RowType
  <2> HIDE DEF row
  <2> QED
    BY <1>1, <1>3, <2>1, <2>2, RowStep DEF Submit
<1>4. ASSUME NEW o \in Orders, LearnId(o) PROVE OrdersFine'
  <2>1. PICK row \in RowType : /\ rows' = [rows EXCEPT ![o] = row]
                               /\ row.known /\ row.filled = rows[o].filled
    <3>1. CASE rows[o].status = "submitted"
      <4> DEFINE row == [status |-> "accepted", known |-> TRUE, filled |-> rows[o].filled]
      <4>1. rows' = [rows EXCEPT ![o] = row]
        BY <1>4, <3>1 DEF LearnId, Moves
      <4>2. row \in RowType /\ row.known /\ row.filled = rows[o].filled
        <5>1. "accepted" \in RowStatus /\ rows[o].filled \in 0..Quantity
          BY <1>2, StatusesOfRows
        <5> QED
          BY <5>1 DEF RowType
      <4> HIDE DEF row
      <4> QED
        BY <4>1, <4>2
    <3>2. CASE rows[o].status # "submitted"
      <4> DEFINE row == [rows[o] EXCEPT !.known = TRUE]
      <4>1. rows' = [rows EXCEPT ![o] = row]
        BY <1>1, <1>4, <3>2 DEF LearnId
      <4>2. row \in RowType /\ row.known /\ row.filled = rows[o].filled
        <5>1. rows[o] \in RowType
          BY <1>1
        <5> QED
          BY <5>1 DEF RowType
      <4> HIDE DEF row
      <4> QED
        BY <4>1, <4>2
    <3> QED
      BY <3>1, <3>2
  <2>2. awaiting' \subseteq Orders /\ UNCHANGED <<heard, reports, atBroker>>
    BY <1>1, <1>4 DEF LearnId
  <2> QED
    BY <1>1, <2>1, <2>2, RowStep
<1>5. ASSUME NEW o \in Orders, CancelRoute(o) PROVE OrdersFine'
  <2> DEFINE row == [rows[o] EXCEPT !.status = "canceled"]
  <2>1. rows' = [rows EXCEPT ![o] = row] /\ row \in RowType
    BY <1>1, <1>5, StatusesOfRows DEF CancelRoute, RowType
  <2>2. row.filled = rows[o].filled /\ row.known = rows[o].known
    BY <1>1 DEF RowType
  <2> HIDE DEF row
  <2> QED
    BY <1>1, <1>5, <2>1, <2>2, RowStep DEF CancelRoute
<1>6. ASSUME NEW o \in BrokerIds, NEW new \in BrokerType, atBroker[o].filled <= new.filled,
             atBroker' = [atBroker EXCEPT ![o] = new], new.status # "absent",
             UNCHANGED <<rows, awaiting, heard>>, reports' \subseteq BrokerTrades', FillsHeard',
             \A t \in reports' : t[1] \in Orders
      PROVE  OrdersFine'
  <2>1. /\ atBroker' \in [BrokerIds -> BrokerType]
        /\ \A p \in BrokerIds : atBroker[p].filled <= atBroker'[p].filled
        /\ \A p \in BrokerIds : atBroker'[p].status = "absent" => atBroker'[p] = Absent
    BY <1>1, <1>6 DEF BrokerType
  <2>2. heard' \subseteq BrokerTrades'
    BY <1>1, <1>6, <2>1, TradesGrow
  <2>3. ReadBehind'
    BY <1>1, <1>6 DEF ReadBehind
  <2> QED
    BY <1>1, <1>6, <2>1, <2>2, <2>3 DEF OrdersFine
<1>7. ASSUME NEW o \in Orders, BrokerTakes(o) PROVE OrdersFine'
  <2> DEFINE new == [atBroker[o] EXCEPT !.status = "accepted"]
  <2>1. /\ atBroker' = [atBroker EXCEPT ![o] = new] /\ new \in BrokerType
        /\ new.filled = atBroker[o].filled /\ new.status = "accepted"
        /\ UNCHANGED <<rows, awaiting, heard, reports>>
    BY <1>1, <1>7 DEF BrokerTakes, BrokerType
  <2> HIDE DEF new
  <2>2. /\ atBroker' \in [BrokerIds -> BrokerType]
        /\ \A p \in BrokerIds : atBroker'[p].filled = atBroker[p].filled
    BY <1>1, <2>1 DEF BrokerType
  <2>3. reports' \subseteq BrokerTrades'
    BY <1>1, <2>1, <2>2, TradesGrow DEF BrokerType
  <2>4. FillsHeard'
    <3>1. \A p \in Orders : ReportsOf(p)' = ReportsOf(p)
      BY <2>1 DEF ReportsOf
    <3> QED
      BY <1>1, <2>1, <2>2, <3>1 DEF FillsHeard
  <2>5. atBroker[o].filled <= new.filled
    BY <1>1, <2>1 DEF BrokerType
  <2> QED
    BY <1>1, <1>6, <2>1, <2>3, <2>4, <2>5
<1>8. ASSUME NEW o \in Orders, BrokerFills(o) PROVE OrdersFine'
  <2> DEFINE filled == atBroker[o].filled + 1
             new == [status |-> FillStatus(filled), filled |-> filled]
  <2>1. /\ atBroker' = [atBroker EXCEPT ![o] = new] /\ filled \in 1..Quantity
        /\ new.filled = filled /\ new.status # "absent" /\ new \in BrokerType
        /\ reports' = reports \cup {<<o, filled>>} /\ UNCHANGED <<rows, awaiting, heard>>
    BY <1>1, <1>8 DEF BrokerFills, BrokerType, FillStatus
  <2>2. atBroker[o].filled \in Nat /\ filled = atBroker[o].filled + 1
    BY <1>1 DEF BrokerType
  <2> HIDE DEF new, filled
  <2>3. /\ atBroker' \in [BrokerIds -> BrokerType] /\ atBroker'[o].filled = filled
        /\ \A p \in BrokerIds \ {o} : atBroker'[p] = atBroker[p]
    BY <1>1, <2>1 DEF BrokerType
  <2>4. \A p \in BrokerIds : atBroker[p].filled <= atBroker'[p].filled
    BY <1>1, <2>2, <2>3 DEF BrokerType
  <2>5. reports' \subseteq BrokerTrades'
    <3>1. <<o, filled>> \in BrokerTrades'
      BY <1>1, <2>1, <2>3 DEF BrokerTrades, TradesOf, BrokerIds
    <3> QED
      BY <1>1, <2>1, <2>3, <2>4, <3>1, TradesGrow
  <2>6. FillsHeard'
    <3> SUFFICES ASSUME NEW p \in Orders
                 PROVE  rows[p].filled + Cardinality(ReportsOf(p)') <= atBroker'[p].filled
      BY <2>1 DEF FillsHeard
    <3>1. rows[p].filled + Cardinality(ReportsOf(p)) <= atBroker[p].filled
      BY <1>1 DEF FillsHeard
    <3>2. CASE p # o
      <4>1. ReportsOf(p)' = ReportsOf(p)
        BY <2>1, <3>2 DEF ReportsOf
      <4> QED
        BY <1>1, <2>3, <3>1, <3>2, <4>1
    <3>3. CASE p = o
      <4>1. ReportsOf(o)' = ReportsOf(o) \cup {filled}
        BY <2>1 DEF ReportsOf
      <4>2. filled \notin ReportsOf(o)
        <5>1. <<o, filled>> \notin BrokerTrades
          BY <1>1, <2>2, TradesSmall
        <5> QED
          BY <1>1, <5>1 DEF ReportsOf
      <4>3. Cardinality(ReportsOf(o)') = Cardinality(ReportsOf(o)) + 1
        BY <4>1, <4>2, ReportsAreFinite, FS_AddElement
      <4>4. Cardinality(ReportsOf(o)) \in Nat /\ rows[o].filled \in Nat
        BY <1>2, ReportsAreFinite
      <4> QED
        BY <2>2, <2>3, <3>1, <3>3, <4>3, <4>4
    <3> QED
      BY <3>2, <3>3
  <2>7. atBroker[o].filled <= new.filled
    BY <2>1, <2>2
  <2>8. \A t \in reports' : t[1] \in Orders
    BY <1>1, <2>1
  <2> QED
    BY <1>1, <1>6, <2>1, <2>5, <2>6, <2>7, <2>8
<1>9. ASSUME NEW t \in reports, HearFill(t) PROVE OrdersFine'
  <2>1. t \in BrokerTrades
    BY <1>1
  <2>2. PICK o \in BrokerIds, n \in Nat : n \in 1..atBroker[o].filled /\ t = <<o, n>>
    BY <1>1, <2>1 DEF BrokerTrades, TradesOf, BrokerIds, BrokerType
  <2>3. o = t[1] /\ n \in 1..Quantity
    BY <1>1, <2>2 DEF BrokerType
  <2>4. /\ reports' = reports \ {t} /\ UNCHANGED <<awaiting, atBroker>>
        /\ \/ rows' = rows /\ heard' = heard
           \/ /\ rows[o].known /\ CanTransition(OrderTransitions, rows[o].status,
                                                FillStatus(rows[o].filled + 1))
              /\ Moves(o, FillStatus(rows[o].filled + 1), TRUE, rows[o].filled + 1)
              /\ heard' = heard \cup {t}
    BY <1>9, <2>3 DEF HearFill
  <2>5. BrokerTrades' = BrokerTrades
    BY <2>4 DEF BrokerTrades, TradesOf
  <2>6. ReportsOf(o)' = ReportsOf(o) \ {n} /\ n \in ReportsOf(o)
    BY <2>2, <2>3, <2>4 DEF ReportsOf
  <2>7. Cardinality(ReportsOf(o)') = Cardinality(ReportsOf(o)) - 1
        /\ Cardinality(ReportsOf(o)) \in Nat
    <3>1. PICK before : before = ReportsOf(o)
      OBVIOUS
    <3>2. IsFiniteSet(before) /\ Cardinality(before) \in Nat /\ n \in before
      BY <2>6, <3>1, ReportsAreFinite
    <3>3. Cardinality(before \ {n}) = Cardinality(before) - 1
      BY <3>2, FS_RemoveElement
    <3>4. ReportsOf(o)' = before \ {n}
      BY <2>6, <3>1
    <3> QED
      BY <3>1, <3>2, <3>3, <3>4
  <2>8. \A p \in Orders \ {o} : ReportsOf(p)' = ReportsOf(p)
    BY <2>2, <2>4 DEF ReportsOf
  <2>9. CASE rows' = rows /\ heard' = heard
    <3>1. FillsHeard'
      <4> SUFFICES ASSUME NEW p \in Orders
                   PROVE  rows[p].filled + Cardinality(ReportsOf(p)') <= atBroker[p].filled
        BY <2>4, <2>9 DEF FillsHeard
      <4>1. rows[p].filled + Cardinality(ReportsOf(p)) <= atBroker[p].filled
        BY <1>1 DEF FillsHeard
      <4>2. rows[p].filled \in Nat /\ atBroker[p].filled \in Nat
        BY <1>1, <1>2 DEF BrokerType
      <4> QED
        BY <2>7, <2>8, <4>1, <4>2
    <3>2. ReadBehind'
      BY <1>1, <2>9 DEF ReadBehind
    <3> QED
      BY <1>1, <2>4, <2>5, <2>9, <3>1, <3>2 DEF OrdersFine
  <2>10. CASE /\ rows[o].known
              /\ CanTransition(OrderTransitions, rows[o].status, FillStatus(rows[o].filled + 1))
              /\ Moves(o, FillStatus(rows[o].filled + 1), TRUE, rows[o].filled + 1)
              /\ heard' = heard \cup {t}
    <3> DEFINE filled == rows[o].filled + 1
               row == [status |-> FillStatus(filled), known |-> TRUE, filled |-> filled]
    <3>1. o \in Orders
      BY <1>1, <2>3
    <3>2. /\ rows[o].filled + Cardinality(ReportsOf(o)) <= atBroker[o].filled
          /\ rows[o].filled \in Nat /\ atBroker[o].filled \in 0..Quantity
          /\ Cardinality(ReportsOf(o)) >= 1
      <4>1. Cardinality(ReportsOf(o)) # 0
        BY <2>6, ReportsAreFinite, FS_EmptySet
      <4> QED
        BY <1>1, <1>2, <2>7, <3>1, <4>1 DEF FillsHeard, BrokerType
    <3>3. rows' = [rows EXCEPT ![o] = row] /\ filled \in 0..Quantity /\ filled = rows[o].filled + 1
      BY <2>7, <2>10, <3>2 DEF Moves
    <3>4. row \in RowType /\ row.known /\ row.filled = filled
      BY <3>3, StatusesOfRows DEF RowType, FillStatus
    <3> HIDE DEF row, filled
    <3>5. rows' \in [Orders -> RowType] /\ ReadBehind'
      <4>1. rows[o].filled <= row.filled
        BY <3>2, <3>3, <3>4
      <4> QED
        BY <1>1, <3>1, <3>3, <3>4, <4>1, RowsMove
    <3>6. FillsHeard'
      <4> SUFFICES ASSUME NEW p \in Orders
                   PROVE  rows'[p].filled + Cardinality(ReportsOf(p)') <= atBroker[p].filled
        BY <2>4 DEF FillsHeard
      <4>1. CASE p # o
        BY <1>1, <2>8, <3>3, <4>1 DEF FillsHeard
      <4>2. CASE p = o
        <5>1. rows'[p].filled = rows[o].filled + 1
          BY <1>1, <3>3, <3>4, <4>2
        <5> QED
          BY <2>7, <3>2, <4>2, <5>1
      <4> QED
        BY <4>1, <4>2
    <3> QED
      BY <1>1, <2>1, <2>4, <2>5, <2>10, <3>5, <3>6 DEF OrdersFine
  <2> QED
    BY <2>4, <2>9, <2>10
<1>10. ASSUME NEW m \in Manual, ManualTrade(m) PROVE OrdersFine'
  <2> DEFINE new == [status |-> "filled", filled |-> 1]
  <2>1. /\ atBroker' = [atBroker EXCEPT ![m] = new] /\ new \in BrokerType
        /\ new.status # "absent" /\ new.filled = 1
        /\ UNCHANGED <<rows, awaiting, heard, reports>>
        /\ m \in BrokerIds /\ atBroker[m].filled = 0
    BY <1>1, <1>10 DEF ManualTrade, BrokerType, Absent
  <2> HIDE DEF new
  <2>2. /\ atBroker' \in [BrokerIds -> BrokerType]
        /\ \A p \in BrokerIds : atBroker[p].filled <= atBroker'[p].filled
    BY <1>1, <2>1 DEF BrokerType
  <2>3. reports' \subseteq BrokerTrades'
    BY <1>1, <2>1, <2>2, TradesGrow
  <2>4. FillsHeard'
    <3>1. \A p \in Orders : ReportsOf(p)' = ReportsOf(p) /\ atBroker'[p] = atBroker[p]
      BY <1>1, <2>1 DEF ReportsOf
    <3> QED
      BY <1>1, <2>1, <3>1 DEF FillsHeard
  <2>5. atBroker[m].filled <= new.filled
    BY <2>1
  <2>6. \A t \in reports' : t[1] \in Orders
    BY <1>1, <2>1
  <2> QED
    BY <1>6, <2>1, <2>3, <2>4, <2>5, <2>6
<1> QED
  BY <1>3, <1>4, <1>5, <1>7, <1>8, <1>9, <1>10 DEF OrderStep

(* Orders go on: what was heard of stays heard of, and no trade at the     *)
(* broker goes away.                                                       *)
LEMMA OrderStepGrows ==
    ASSUME RecoveryInv, OrderStep, OrdersFine'
    PROVE  heard \subseteq heard' /\ BrokerTrades \subseteq BrokerTrades'
<1> USE RecoveryAssumption
<1>1. atBroker \in [BrokerIds -> BrokerType] /\ atBroker' \in [BrokerIds -> BrokerType]
      /\ Orders \subseteq BrokerIds /\ Manual \subseteq BrokerIds
  BY DEF RecoveryInv, OrdersFine, BrokerType, BrokerIds
<1>2. \A o \in BrokerIds : atBroker[o].filled \in Nat /\ atBroker'[o].filled \in Nat
  BY <1>1 DEF BrokerType
<1> DEFINE Grows == \A o \in BrokerIds : atBroker[o].filled <= atBroker'[o].filled
<1>3. ASSUME atBroker' = atBroker PROVE Grows
  BY <1>2, <1>3
<1>4. ASSUME NEW o \in Orders, Submit(o) \/ LearnId(o) \/ CancelRoute(o) PROVE Grows /\ heard' = heard
  BY <1>3, <1>4 DEF Submit, LearnId, CancelRoute
<1>5. ASSUME NEW o \in Orders, BrokerTakes(o) PROVE Grows /\ heard' = heard
  <2>1. atBroker' = [atBroker EXCEPT ![o] = [@ EXCEPT !.status = "accepted"]] /\ heard' = heard
    BY <1>5 DEF BrokerTakes
  <2>2. \A p \in BrokerIds : atBroker'[p].filled = atBroker[p].filled
    BY <1>1, <2>1 DEF BrokerType
  <2> QED
    BY <1>2, <2>1, <2>2
<1>6. ASSUME NEW o \in Orders, BrokerFills(o) PROVE Grows /\ heard' = heard
  <2>1. atBroker'[o].filled = atBroker[o].filled + 1
    BY <1>1, <1>6 DEF BrokerFills
  <2>2. \A p \in BrokerIds \ {o} : atBroker'[p] = atBroker[p]
    BY <1>1, <1>6 DEF BrokerFills
  <2>3. heard' = heard
    BY <1>6 DEF BrokerFills
  <2>4. ASSUME NEW p \in BrokerIds PROVE atBroker[p].filled <= atBroker'[p].filled
    BY <1>2, <2>1, <2>2, <2>4
  <2> QED
    BY <2>3, <2>4
<1>7. ASSUME NEW t \in reports, HearFill(t) PROVE Grows /\ heard \subseteq heard'
  BY <1>3, <1>7 DEF HearFill
<1>8. ASSUME NEW m \in Manual, ManualTrade(m) PROVE Grows /\ heard' = heard
  <2>1. atBroker[m].filled = 0 /\ atBroker'[m].filled = 1 /\ heard' = heard
    BY <1>1, <1>8 DEF ManualTrade, Absent
  <2>2. \A p \in BrokerIds \ {m} : atBroker'[p] = atBroker[p]
    BY <1>1, <1>8 DEF ManualTrade
  <2>3. ASSUME NEW p \in BrokerIds PROVE atBroker[p].filled <= atBroker'[p].filled
    BY <1>2, <2>1, <2>2, <2>3
  <2> QED
    BY <2>1, <2>3
<1>9. Grows /\ heard \subseteq heard'
  BY <1>4, <1>5, <1>6, <1>7, <1>8 DEF OrderStep
<1>10. BrokerTrades \subseteq BrokerTrades'
  BY <1>1, <1>9, TradesGrow
<1> QED
  BY <1>9, <1>10

(* What a comparison under way has read stays right while it waits.        *)
LEMMA ReadingKept ==
    ASSUME reading' = reading, heard \subseteq heard', BrokerTrades \subseteq BrokerTrades',
           ReadingTyped, ListsJudged, NotedHeard, OneReading
    PROVE  ReadingTyped' /\ ListsJudged' /\ NotedHeard' /\ OneReading'
BY DEF ReadingTyped, ListsJudged, NotedHeard, OneReading

(* Of nothing read there is nothing to show.                               *)
LEMMA NothingRead ==
    ASSUME reading' = {}
    PROVE  ReadBehind' /\ ReadingTyped' /\ ListsJudged' /\ NotedHeard' /\ OneReading'
BY DEF ReadBehind, ReadingTyped, ListsJudged, NotedHeard, OneReading

(* What a comparison without critical differences says of both sides.      *)
LEMMA NoCriticalDiff ==
    ASSUME NEW local, NEW broker, ~HasCritical(OrderDiffs(local, broker))
    PROVE  /\ DOMAIN local = DOMAIN broker
           /\ \A o \in DOMAIN broker : local[o].filled_quantity = broker[o].filled_quantity
<1>1. \A d \in OrderDiffs(local, broker) : d[1] \notin CriticalFields
  BY DEF HasCritical
<1>2. {"existence", "filled_quantity", "external_order"} \subseteq CriticalFields
  BY DEF CriticalFields
<1>3. ASSUME NEW o \in DOMAIN local \ DOMAIN broker PROVE FALSE
  <2>1. <<"existence", o>> \in OrderDiffs(local, broker)
    BY <1>3 DEF OrderDiffs, Missing
  <2> QED
    BY <1>1, <1>2, <2>1
<1>4. ASSUME NEW o \in DOMAIN broker \ DOMAIN local PROVE FALSE
  <2>1. <<"external_order", o>> \in OrderDiffs(local, broker)
    BY <1>4 DEF OrderDiffs, Missing
  <2> QED
    BY <1>1, <1>2, <2>1
<1>5. ASSUME NEW o \in DOMAIN local \cap DOMAIN broker,
             local[o].filled_quantity # broker[o].filled_quantity
      PROVE  FALSE
  <2>1. <<"filled_quantity", o>> \in OrderDiffs(local, broker)
    BY <1>5 DEF OrderDiffs, Differing
  <2> QED
    BY <1>1, <1>2, <2>1
<1> QED
  BY <1>3, <1>4, <1>5

(* If the rows that step 7 read show no critical difference from the list  *)
(* of the broker, the table agrees with it when it is made: since then the *)
(* rows can only have gained fills, but never show more than the broker.   *)
LEMMA ReconciledAgrees ==
    ASSUME RecoveryInv, NEW r \in reading, r.at = "asked",
           ~HasCritical(OrderDiffs(r.known, Listed))
    PROVE  TableAgrees
<1>1. /\ DOMAIN r.known = DOMAIN Listed
      /\ \A o \in DOMAIN Listed : r.known[o].filled_quantity = Listed[o].filled_quantity
  BY NoCriticalDiff
<1> SUFFICES ASSUME NEW o \in DOMAIN Listed
             PROVE  o \in Orders /\ rows[o].known /\ rows[o].filled = atBroker[o].filled
  BY DEF TableAgrees
<1>2. o \in Orders /\ rows[o].known /\ r.known[o].filled_quantity \in 0..rows[o].filled
  BY <1>1 DEF RecoveryInv, ReadBehind
<1>3. r.known[o].filled_quantity = atBroker[o].filled
  BY <1>1 DEF Listed
<1>4. rows[o].filled + Cardinality(ReportsOf(o)) <= atBroker[o].filled
  BY <1>2 DEF RecoveryInv, FillsHeard
<1>5. Cardinality(ReportsOf(o)) \in Nat /\ rows[o].filled \in Nat /\ atBroker[o].filled \in Nat
  BY <1>2, ReportsAreFinite, RecoveryAssumption DEF RecoveryInv, RowType, BrokerIds
<1> QED
  BY <1>2, <1>3, <1>4, <1>5

LEMMA RecoveryInvNext == RecoveryInv /\ [RecoveryNext]_recoveryVars => RecoveryInv'
<1> SUFFICES ASSUME RecoveryInv, [RecoveryNext]_recoveryVars
             PROVE  RecoveryInv'
  OBVIOUS
<1> USE RecoveryAssumption
<1>1. RecoveryTypeOK /\ ReadingTyped
  BY DEF RecoveryInv, RecoveryTypeOK, ReadingTyped
<1>2. CASE OrderStep /\ UNCHANGED <<up, crashes, stepVars, eventVars>>
  <2>1. OrdersFine'
    BY <1>2, OrderStepFine
  <2>2. reading' = reading
    BY <1>2 DEF stepVars
  <2>3. ReadingTyped' /\ ListsJudged' /\ NotedHeard' /\ OneReading'
    BY <1>1, <1>2, <2>1, <2>2, OrderStepGrows, ReadingKept DEF RecoveryInv
  <2>4. RecoveryTypeOK'
    BY <1>1, <1>2, <2>1, <2>3
    DEF RecoveryTypeOK, ReadingTyped, OrdersFine, RowType, stepVars, eventVars
  <2> QED
    BY <2>1, <2>3, <2>4 DEF RecoveryInv, OrdersFine, BrokerType
<1>3. CASE Crash
  <2>1. /\ rows' = rows /\ heard' = heard /\ atBroker' = atBroker /\ awaiting' = {} /\ reports' = {}
        /\ up' = FALSE /\ reading' = {} /\ answer' = NoAnswer /\ events' = events /\ handled' = handled
        /\ session' \in {session, "none"} /\ crashes' = crashes + 1 /\ crashes < MaxCrashes
    BY <1>3 DEF Crash, eventVars
  <2>2. FillsHeard'
    <3> SUFFICES ASSUME NEW o \in Orders
                 PROVE  rows[o].filled + Cardinality(ReportsOf(o)') <= atBroker[o].filled
      BY <2>1 DEF FillsHeard
    <3>1. rows[o].filled + Cardinality(ReportsOf(o)) <= atBroker[o].filled
      BY DEF RecoveryInv, FillsHeard
    <3>2. ReportsOf(o)' = {}
      BY <2>1 DEF ReportsOf
    <3>3. Cardinality(ReportsOf(o)') = 0
      BY <3>2, FS_EmptySet
    <3>4. Cardinality(ReportsOf(o)) \in Nat /\ rows[o].filled \in Nat /\ atBroker[o].filled \in Nat
      BY ReportsAreFinite DEF RecoveryInv, RowType, BrokerIds
    <3> QED
      BY <3>1, <3>3, <3>4
  <2>3. BrokerTrades' = BrokerTrades
    BY <2>1 DEF BrokerTrades, TradesOf
  <2>4. up' \in BOOLEAN
    BY <2>1, Zenon
  <2>5. crashes' \in 0..MaxCrashes
    BY <1>1, <2>1 DEF RecoveryTypeOK
  <2>6. RecoveryTypeOK'
    BY <1>1, <2>1, <2>3, <2>4, <2>5 DEF RecoveryTypeOK
  <2> QED
    BY <2>1, <2>2, <2>6, NothingRead DEF RecoveryInv
<1>4. CASE Restart
  <2>1. up' \in BOOLEAN
    BY <1>4, Zenon DEF Restart
  <2>2. /\ UNCHANGED <<rows, heard, atBroker, awaiting, reports>>
        /\ UNCHANGED <<reading, answer, session, crashes, events, handled>>
    BY <1>4 DEF Restart, orderVars, stepVars, eventVars
  <2>3. BrokerTrades' = BrokerTrades /\ FillsHeard' = FillsHeard /\ ReadBehind' = ReadBehind
    BY <2>2 DEF BrokerTrades, TradesOf, FillsHeard, ReportsOf, ReadBehind
  <2>4. ListsJudged' = ListsJudged /\ NotedHeard' = NotedHeard /\ OneReading' = OneReading
    BY <2>2 DEF ListsJudged, NotedHeard, OneReading
  <2> QED
    BY <2>1, <2>2, <2>3, <2>4 DEF RecoveryInv, RecoveryTypeOK
<1>5. CASE RecoveryStep /\ UNCHANGED <<up, crashes, orderVars, eventVars>>
  <2>1. /\ UNCHANGED <<rows, heard, atBroker, awaiting, reports>>
        /\ UNCHANGED <<up, crashes, events, handled>>
    BY <1>5 DEF orderVars, eventVars
  <2>2. BrokerTrades' = BrokerTrades /\ FillsHeard' = FillsHeard
    BY <2>1 DEF BrokerTrades, TradesOf, FillsHeard, ReportsOf
  <2>3. /\ session' \in {"none", "created", "recovering"}
        /\ \/ answer' = answer
           \/ answer' \in RecoverySteps \X {"pending", "completed", "failed", "close_only", "pause_open"}
        /\ reading' \in {reading, {}} \/ ReadRows \/ BrokerLists
    <3>1. session \in {"none", "created", "recovering"}
      BY <1>1 DEF RecoveryTypeOK
    <3>2. \A diffs : Completed(diffs) \in {"completed", "failed"}
      BY DEF Completed
    <3>3. ASSUME NEW step, NEW status, Answers(step, status), step \in RecoverySteps,
                 status \in {"pending", "completed", "failed", "close_only", "pause_open"}
          PROVE  answer' \in RecoverySteps \X {"pending", "completed", "failed", "close_only", "pause_open"}
      BY <3>3 DEF Answers
    <3>4. CASE CreateSession
      BY <3>4 DEF CreateSession
    <3>5. CASE ReadRows \/ BrokerLists \/ QueryFails
      BY <3>1, <3>5 DEF ReadRows, BrokerLists, QueryFails
    <3>6. ASSUME NEW step \in {"connect_qmt", "query_broker_state"},
                 NEW status \in {"completed", "failed"}, AskBroker(step, status)
          PROVE  <2>3
      BY <3>1, <3>3, <3>6 DEF AskBroker, RecoverySteps
    <3>7. CASE ReconcileOrders
      BY <3>1, <3>2, <3>3, <3>7 DEF ReconcileOrders, RecoverySteps
    <3>8. CASE ReconcileTrades
      BY <3>1, <3>2, <3>3, <3>8 DEF ReconcileTrades, RecoverySteps
    <3>9. CASE ReconcilePositions
      BY <3>1, <3>2, <3>3, <3>9 DEF ReconcilePositions, RecoverySteps
    <3>10. CASE CheckExternalEvents
      BY <3>1, <3>3, <3>10 DEF CheckExternalEvents, RecoverySteps
    <3>11. CASE EstablishSession
      BY <3>1, <3>3, <3>11 DEF EstablishSession, RecoverySteps
    <3>12. CASE WaitApproval
      BY <3>1, <3>3, <3>12 DEF WaitApproval, RecoverySteps
    <3>13. ASSUME NEW flags, DefaultMode(flags) PROVE <2>3
      BY <3>1, <3>3, <3>13 DEF DefaultMode, RecoverySteps
    <3> QED
      BY <1>5, <3>4, <3>5, <3>6, <3>7, <3>8, <3>9, <3>10, <3>11, <3>12, <3>13 DEF RecoveryStep
  <2>4. ReadBehind' /\ ReadingTyped' /\ ListsJudged' /\ NotedHeard' /\ OneReading'
    <3>1. CASE reading' = reading
      <4>1. ReadBehind'
        BY <2>1, <3>1 DEF RecoveryInv, ReadBehind
      <4> QED
        BY <1>1, <2>1, <2>2, <3>1, <4>1, ReadingKept DEF RecoveryInv
    <3>2. CASE reading' = {}
      BY <3>2, NothingRead
    <3>3. CASE ReadRows
      <4> DEFINE r == [at |-> "asked", known |-> KnownRows]
      <4>1. reading' = {r} /\ r.at = "asked" /\ r.known = KnownRows
        BY <3>3 DEF ReadRows
      <4> HIDE DEF r
      <4>2. \A o \in DOMAIN KnownRows : o \in Orders /\ rows[o].known
                                        /\ KnownRows[o].filled_quantity = rows[o].filled
        BY DEF KnownRows
      <4>3. \A o \in Orders : rows[o].filled \in 0..rows[o].filled
        BY DEF RecoveryInv, RowType
      <4>4. ReadBehind'
        BY <2>1, <4>1, <4>2, <4>3 DEF ReadBehind
      <4>5. ReadingTyped'
        BY <4>1, <4>2 DEF ReadingTyped
      <4> QED
        BY <4>1, <4>4, <4>5 DEF ListsJudged, NotedHeard, OneReading
    <3>4. CASE BrokerLists
      <4>1. PICK q \in reading :
                /\ q.at = "asked"
                /\ reading' = {[at |-> "listed", known |-> q.known, listed |-> Listed, agreed |-> TableAgrees]}
        BY <3>4 DEF BrokerLists
      <4> DEFINE r == [at |-> "listed", known |-> q.known, listed |-> Listed, agreed |-> TableAgrees]
      <4>2. /\ reading' = {r} /\ r.at = "listed" /\ r.known = q.known
            /\ r.listed = Listed /\ r.agreed = TableAgrees
        BY <4>1
      <4> HIDE DEF r
      <4>3. HasCritical(OrderDiffs(r.known, r.listed)) \/ r.agreed
        <5>1. HasCritical(OrderDiffs(q.known, Listed)) \/ TableAgrees
          BY <4>1, ReconciledAgrees
        <5> QED
          BY <4>2, <5>1
      <4>4. DOMAIN q.known \subseteq Orders
        BY <1>1, <4>1 DEF ReadingTyped
      <4>5. ReadingTyped'
        BY <4>2, <4>4 DEF ReadingTyped
      <4>6. ListsJudged'
        BY <4>2, <4>3 DEF ListsJudged
      <4> QED
        BY <4>2, <4>5, <4>6 DEF ReadBehind, NotedHeard, OneReading
    <3> QED
      BY <2>3, <3>1, <3>2, <3>3, <3>4
  <2>5. RecoveryTypeOK'
    BY <1>1, <2>1, <2>2, <2>3, <2>4 DEF RecoveryTypeOK, ReadingTyped
  <2> QED
    BY <2>1, <2>2, <2>4, <2>5 DEF RecoveryInv
<1>6. CASE EventStep /\ UNCHANGED <<up, crashes, orderVars, session, answer>>
  <2>1. /\ UNCHANGED <<rows, heard, atBroker, awaiting, reports>>
        /\ UNCHANGED <<answer, session, crashes, up>>
    BY <1>6 DEF orderVars
  <2>2. handled' \subseteq events'
    BY <1>1, <1>6 DEF RecoveryTypeOK, EventStep, ReadTrades, Detect, Handle, eventVars
  <2>3. BrokerTrades' = BrokerTrades /\ FillsHeard' = FillsHeard
    BY <2>1 DEF BrokerTrades, TradesOf, FillsHeard, ReportsOf
  <2>4. ReadBehind' /\ ReadingTyped' /\ ListsJudged' /\ NotedHeard' /\ OneReading'
    <3>1. CASE reading' = reading
      <4>1. ReadBehind'
        BY <2>1, <3>1 DEF RecoveryInv, ReadBehind
      <4> QED
        BY <1>1, <2>1, <2>3, <3>1, <4>1, ReadingKept DEF RecoveryInv
    <3>2. CASE reading' = {}
      BY <3>2, NothingRead
    <3>3. ASSUME NEW side \in {"internal", "broker"}, ReadTrades(side)
          PROVE  <2>4
      <4> DEFINE r == [at |-> side, trades |-> IF side = "internal" THEN heard ELSE BrokerTrades]
      <4>1. reading' = {r} /\ r.at = side
            /\ r.trades = IF side = "internal" THEN heard ELSE BrokerTrades
        BY <3>3 DEF ReadTrades
      <4> HIDE DEF r
      <4>2. r.trades \subseteq BrokerTrades
        BY <1>1, <4>1 DEF RecoveryTypeOK
      <4>3. ReadingTyped'
        BY <2>3, <3>3, <4>1, <4>2 DEF ReadingTyped
      <4> QED
        BY <2>1, <3>3, <4>1, <4>3 DEF ReadBehind, ListsJudged, NotedHeard, OneReading
    <3> QED
      BY <1>6, <3>1, <3>2, <3>3 DEF EventStep, Detect, Handle
  <2>5. RecoveryTypeOK'
    BY <1>1, <2>1, <2>2, <2>3, <2>4 DEF RecoveryTypeOK, ReadingTyped
  <2> QED
    BY <2>1, <2>3, <2>4, <2>5 DEF RecoveryInv
<1>7. CASE UNCHANGED recoveryVars
  <2>1. /\ UNCHANGED <<rows, heard, atBroker, awaiting, reports>>
        /\ UNCHANGED <<reading, answer, session, crashes, up, events, handled>>
    BY <1>7 DEF recoveryVars, orderVars, stepVars, eventVars
  <2>2. BrokerTrades' = BrokerTrades /\ FillsHeard' = FillsHeard /\ ReadBehind' = ReadBehind
    BY <2>1 DEF BrokerTrades, TradesOf, FillsHeard, ReportsOf, ReadBehind
  <2>3. ListsJudged' = ListsJudged /\ NotedHeard' = NotedHeard /\ OneReading' = OneReading
    BY <2>1 DEF ListsJudged, NotedHeard, OneReading
  <2> QED
    BY <2>1, <2>2, <2>3 DEF RecoveryInv, RecoveryTypeOK
<1> QED
  BY <1>2, <1>3, <1>4, <1>5, <1>6, <1>7 DEF RecoveryNext

LEMMA RecoveryInvHolds == RecoverySpec => []RecoveryInv
  BY RecoveryInvInit, RecoveryInvNext, PTL DEF RecoverySpec

(* The types of the recovery: rows, the broker's list, session and answer  *)
(* stay in their tables, the rows that step 7 holds are rows of orders,    *)
(* and only trades at the broker are heard of or reported.                 *)
THEOREM RecoveryTypeCorrect == RecoverySpec => []RecoveryTypeOK
<1>1. RecoveryInv => RecoveryTypeOK
  BY DEF RecoveryInv
<1> QED
  BY <1>1, RecoveryInvHolds, PTL

(* A completed step 7 had a list without a critical difference.            *)
LEMMA CompletedAgreed ==
    ASSUME RecoveryInv, RecoveryNext, NEW r \in reading, r.at = "listed", reading' = {},
           answer' = <<"reconcile_orders", "completed">>,
           \A q \in reading : q = r
    PROVE  r.agreed
<1>1. CASE Crash
  BY <1>1 DEF Crash, NoAnswer
<1>2. CASE RecoveryStep /\ ~ReconcileOrders
  BY <1>2 DEF RecoveryStep, CreateSession, AskBroker, ReadRows, BrokerLists, QueryFails, ReconcileTrades,
              ReconcilePositions, CheckExternalEvents, EstablishSession, WaitApproval, DefaultMode
<1>3. CASE ReconcileOrders
  <2>1. Answers("reconcile_orders", Completed(OrderDiffs(r.known, r.listed)))
    BY <1>3 DEF ReconcileOrders
  <2>2. Completed(OrderDiffs(r.known, r.listed)) = "completed"
    BY <2>1 DEF Answers
  <2>3. ~HasCritical(OrderDiffs(r.known, r.listed))
    BY <2>2 DEF Completed
  <2> QED
    BY <2>3 DEF RecoveryInv, ListsJudged
<1>4. CASE EventStep
  BY <1>4 DEF EventStep, ReadTrades, Detect, Handle
<1>5. CASE ~Crash /\ ~RecoveryStep /\ ~EventStep
  BY <1>5 DEF RecoveryNext, Restart, stepVars
<1> QED
  BY <1>1, <1>2, <1>3, <1>4, <1>5

LEMMA DetectedIsExternal ==
    ASSUME RecoveryInv, RecoveryNext, NEW r \in reading, r.at \in {"internal", "broker"},
           reading' = {}, up', \A q \in reading : q = r
    PROVE  /\ \A t \in (events' \ events) \cap heard : r.at = "internal" /\ t \notin r.trades
           /\ \A t \in Reported(r) \ events' : t \in heard \/ \E u \in heard : <<t, u>> \in Alike
<1>1. Detect
  <2>1. ~Crash
    BY DEF Crash
  <2>2. ~RecoveryStep
    BY DEF RecoveryStep, CreateSession, AskBroker, ReadRows, BrokerLists, QueryFails, ReconcileOrders,
           ReconcileTrades, ReconcilePositions, CheckExternalEvents, EstablishSession, WaitApproval,
           DefaultMode
  <2> QED
    BY <2>1, <2>2 DEF RecoveryNext, Restart, stepVars, EventStep, ReadTrades, Handle
<1>2. events' = events \cup Unmatched(Internal(r), Reported(r), Alike)
  BY <1>1 DEF Detect
<1>3. Internal(r) \subseteq heard
  BY DEF Internal, RecoveryInv, NotedHeard
<1>4. ASSUME NEW t \in (events' \ events) \cap heard PROVE r.at = "internal" /\ t \notin r.trades
  BY <1>2, <1>4 DEF Unmatched, Internal
<1>5. ASSUME NEW t \in Reported(r) \ events' PROVE t \in heard \/ \E u \in heard : <<t, u>> \in Alike
  BY <1>2, <1>3, <1>5 DEF Unmatched
<1> QED
  BY <1>4, <1>5

(* What the recovery tells an operator is so, however orders, crashes and  *)
(* steps interleave, and whatever happens between two reads and before the *)
(* comparison.  A completed step 7 means that the order table and the      *)
(* broker agreed when the broker made its list, and an event is a trade    *)
(* that the system had not heard of when it read its own.                  *)
THEOREM RecoveryToldTrue == RecoverySpec => RecoveryTells
<1>1. RecoveryInv /\ [RecoveryNext]_recoveryVars =>
        [\A r \in reading :
            r.at = "listed" /\ reading' = {} /\ answer' = <<"reconcile_orders", "completed">> =>
                r.agreed]_recoveryVars
  BY CompletedAgreed DEF RecoveryInv, OneReading
<1>2. RecoveryInv /\ [RecoveryNext]_recoveryVars =>
        [\A r \in reading : r.at \in {"internal", "broker"} /\ reading' = {} /\ up' =>
          /\ \A t \in (events' \ events) \cap heard : r.at = "internal" /\ t \notin r.trades
          /\ \A t \in Reported(r) \ events' :
                t \in heard \/ \E u \in heard : <<t, u>> \in Alike]_recoveryVars
  BY DetectedIsExternal DEF RecoveryInv, OneReading
<1>3. RecoverySpec => AgreedWhenReconciled
  BY <1>1, RecoveryInvHolds, PTL DEF RecoverySpec, AgreedWhenReconciled
<1>4. RecoverySpec => DetectionIsSound
  BY <1>2, RecoveryInvHolds, PTL DEF RecoverySpec, DetectionIsSound
<1> QED
  BY <1>3, <1>4 DEF RecoveryTells

-----------------------------------------------------------------------------
(* Metrics.                                                                *)

Points == (0..MaxTime) \X (Nat \ {0})

(* The history: the points of a metric are numbered.                       *)
Numbering ==
    /\ recorded \in [Counted -> SUBSET Points]
    /\ \A m \in Counted : /\ IsFiniteSet(recorded[m])
                          /\ \A p \in recorded[m] : p[1] <= now /\ p[2] <= Cardinality(recorded[m])
                          /\ \A p, q \in recorded[m] : p[2] = q[2] => p = q

(* The points kept are points recorded, and of those in the window none is *)
(* missing, whatever was evicted when.                                     *)
PointsKept ==
    \A m \in Counted : /\ points[m] \subseteq recorded[m]
                       /\ \A p \in recorded[m] : p[1] >= now - Window => p \in points[m]

(* What the last evaluation left is true until the next event.             *)
RatesFresh ==
    evaluated = "now" => /\ \A m \in DOMAIN latest : latest[m] = TrueValue(m)
                         /\ routed = Alerts(latest)

MetricsInv == MetricsTypeOK /\ Numbering /\ PointsKept /\ RatesFresh

LEMMA RulesAre ==
    \A r \in AllRules : /\ r.level \in 0..3 /\ r.threshold \in Int
                        /\ r.comparison \in {"gt", "lt", "eq"}
BY SMTT(60) DEF AllRules, Rule

LEMMA NoAlertIsNoRule == NoAlert \notin AllRules
BY RulesAre DEF NoAlert

(* evaluate() finds an alert exactly when a rule matches, of the most      *)
(* severe level that does.                                                 *)
LEMMA AlertOnIsWorst ==
    ASSUME NEW metric, NEW value
    PROVE  /\ Matching(metric, value) = {} => AlertOn(metric, value) = NoAlert
           /\ Matching(metric, value) # {} =>
                /\ AlertOn(metric, value) \in Matching(metric, value)
                /\ AlertOn(metric, value) # NoAlert
                /\ \A r \in Matching(metric, value) : AlertOn(metric, value).level <= r.level
                /\ AlertOn(metric, value).level \in 0..3
<1> DEFINE M == Matching(metric, value)
<1>1. M \subseteq AllRules
  BY DEF Matching, RulesOn
<1>2. \A r \in M : r.level \in 0..3
  BY <1>1, RulesAre
<1>3. NoAlert \notin M
  BY <1>1, NoAlertIsNoRule
<1>4. AlertOn(metric, value) = IF M = {} THEN NoAlert
                               ELSE CHOOSE r \in M : \A other \in M : r.level <= other.level
  BY DEF AlertOn
<1> HIDE DEF M
<1>5. ASSUME M # {} PROVE \E r \in M : \A other \in M : r.level <= other.level
  <2>1. CASE \E r \in M : r.level = 0
    BY <1>2, <2>1
  <2>2. CASE (\A r \in M : r.level # 0) /\ \E r \in M : r.level = 1
    BY <1>2, <2>2
  <2>3. CASE (\A r \in M : r.level \notin {0, 1}) /\ \E r \in M : r.level = 2
    BY <1>2, <2>3
  <2>4. CASE (\A r \in M : r.level \notin {0, 1, 2})
    BY <1>2, <1>5, <2>4
  <2> QED
    BY <2>1, <2>2, <2>3, <2>4
<1>6. ASSUME M # {}
      PROVE  /\ AlertOn(metric, value) \in M
             /\ \A r \in M : AlertOn(metric, value).level <= r.level
  BY <1>4, <1>5, <1>6
<1>7. ASSUME M # {}
      PROVE  AlertOn(metric, value) # NoAlert /\ AlertOn(metric, value).level \in 0..3
  BY <1>2, <1>3, <1>6, <1>7
<1>8. M = {} => AlertOn(metric, value) = NoAlert
  BY <1>4
<1> QED
  BY <1>6, <1>7, <1>8 DEF M

LEMMA PercentageIsNat ==
    ASSUME NEW n \in Nat, NEW d \in Nat, NEW otherwise \in Nat
    PROVE  Percentage(n, d, otherwise) \in Nat
<1>1. CASE d = 0
  BY <1>1 DEF Percentage
<1>2. CASE d # 0
  <2>1. d \in Nat \ {0} /\ n * 100 \in Nat
    BY <1>2
  <2>2. (n * 100) \div d \in Nat
    BY <2>1, Z3
  <2> QED
    BY <1>2, <2>2 DEF Percentage
<1> QED
  BY <1>1, <1>2

(* Two metrics never share a point's place: the point that comes in is new.*)
LEMMA PointIsNew ==
    ASSUME MetricsInv, NEW m \in Counted
    PROVE  /\ NewPoint(m) \notin recorded[m] /\ NewPoint(m) \in Points
           /\ IsFiniteSet(recorded[m] \cup {NewPoint(m)})
           /\ Cardinality(recorded[m] \cup {NewPoint(m)}) = Cardinality(recorded[m]) + 1
<1>1. IsFiniteSet(recorded[m]) /\ \A p \in recorded[m] : p[2] <= Cardinality(recorded[m])
  BY DEF MetricsInv, Numbering
<1>2. Cardinality(recorded[m]) \in Nat
  BY <1>1, FS_CardinalityType
<1>3. NewPoint(m) \notin recorded[m]
  BY <1>1, <1>2 DEF NewPoint
<1>4. NewPoint(m) \in Points
  BY <1>2 DEF NewPoint, Points, MetricsInv, MetricsTypeOK
<1> QED
  BY <1>1, <1>3, <1>4, FS_AddElement

(* The points within the window are those that happened in it.             *)
LEMMA CountIsTrue ==
    ASSUME MetricsInv, NEW m
    PROVE  Count(m) = InWindow(m) /\ Count(m) \in Nat
<1>1. CASE m \in Counted
  <2>1. Evicted(points[m]) = {p \in recorded[m] : now - p[1] <= Window}
    <3>1. now \in Int /\ Window \in Int /\ \A p \in recorded[m] : p[1] \in Int
      BY <1>1, MetricsAssumption DEF MetricsInv, MetricsTypeOK, Numbering, Points
    <3>2. \A p \in recorded[m] : now - p[1] <= Window <=> p[1] >= now - Window
      BY <3>1
    <3> QED
      BY <1>1, <3>2 DEF MetricsInv, PointsKept, Evicted
  <2>2. IsFiniteSet(Evicted(points[m]))
    BY <1>1, FS_Subset DEF MetricsInv, PointsKept, Numbering, Evicted
  <2> QED
    BY <1>1, <2>1, <2>2, FS_CardinalityType DEF Count, InWindow
<1>2. CASE m \notin Counted
  BY <1>2 DEF Count, InWindow
<1> QED
  BY <1>1, <1>2

LEMMA RateIsTrue ==
    ASSUME MetricsInv, NEW m \in Rates
    PROVE  Rate(m) = TrueValue(m) /\ Rate(m) \in Nat
<1>1. \A x : Count(x) = InWindow(x) /\ Count(x) \in Nat
  BY CountIsTrue
<1>2. CASE m = "order_failure_rate_pct"
  BY <1>1, <1>2, PercentageIsNat DEF Rate, TrueValue
<1>3. CASE m = "fill_rate_pct"
  BY <1>1, <1>3, PercentageIsNat DEF Rate, TrueValue
<1>4. CASE m = "strategy_error_rate_pct"
  BY <1>1, <1>4, PercentageIsNat DEF Rate, TrueValue
<1> QED
  BY <1>2, <1>3, <1>4 DEF Rates

LEMMA MetricsInvInit == MetricsInit => MetricsInv
<1> SUFFICES ASSUME MetricsInit
             PROVE  MetricsInv
  OBVIOUS
<1> USE MetricsAssumption DEF MetricsInit
<1>1. MetricsTypeOK
  BY DEF MetricsTypeOK
<1>2. Numbering
  <2>1. \A m \in Counted : recorded[m] = {}
    OBVIOUS
  <2> QED
    BY <2>1, FS_EmptySet DEF Numbering
<1>3. PointsKept /\ RatesFresh
  BY DEF PointsKept, RatesFresh
<1> QED
  BY <1>1, <1>2, <1>3 DEF MetricsInv

LEMMA MetricsInvNext == MetricsInv /\ [MetricsNext]_metricVars => MetricsInv'
<1> SUFFICES ASSUME MetricsInv, [MetricsNext]_metricVars
             PROVE  MetricsInv'
  OBVIOUS
<1> USE MetricsAssumption
<1>1. /\ now \in 0..MaxTime /\ Window \in Nat /\ points \in [Counted -> SUBSET Points]
      /\ recorded \in [Counted -> SUBSET Points]
      /\ DOMAIN latest \subseteq Counted \cup Gauges \cup Rates
      /\ \A m \in DOMAIN latest : latest[m] \in Nat
      /\ \A a \in routed : a.level \in 0..3
      /\ evaluated \in {"never", "before", "now"}
  BY DEF MetricsInv, MetricsTypeOK, Numbering, Points
<1>2. \A m \in Counted : \A p \in recorded[m] : p[1] \in 0..MaxTime
  BY <1>1 DEF Points
<1>3. CASE Tick
  <2>1. /\ now' = now + 1 /\ now' \in 0..MaxTime /\ evaluated' = "before"
        /\ UNCHANGED <<points, latest, routed, recorded>>
    BY <1>1, <1>3 DEF Tick
  <2>2. MetricsTypeOK'
    BY <1>1, <2>1 DEF MetricsTypeOK, Points
  <2>3. Numbering'
    BY <1>1, <1>2, <2>1 DEF MetricsInv, Numbering
  <2>4. PointsKept'
    BY <1>1, <1>2, <2>1 DEF MetricsInv, PointsKept
  <2> QED
    BY <2>1, <2>2, <2>3, <2>4 DEF MetricsInv, RatesFresh
<1>4. ASSUME NEW m \in Counted, RecordEvent(m) PROVE MetricsInv'
  <2> DEFINE p == NewPoint(m)
             kept == {q \in points[m] \cup {p} : q[1] >= now - Window}
             all == recorded[m] \cup {p}
  <2>1. /\ p \notin recorded[m] /\ p \in Points /\ p[1] = now
        /\ p[2] = Cardinality(recorded[m]) + 1 /\ Cardinality(recorded[m]) \in Nat
        /\ IsFiniteSet(all) /\ Cardinality(all) = Cardinality(recorded[m]) + 1
    BY PointIsNew, FS_CardinalityType DEF NewPoint, MetricsInv, Numbering
  <2>2. /\ points' = [points EXCEPT ![m] = kept] /\ recorded' = [recorded EXCEPT ![m] = all]
        /\ latest' = WithLatest(m, 1) /\ evaluated' = "before" /\ now' = now /\ routed' = routed
    BY <1>4 DEF RecordEvent, Evicted
  <2>3. kept \subseteq all /\ kept \subseteq Points /\ all \subseteq Points
        /\ \A q \in all : q[1] >= now - Window => q \in kept
    BY <1>1, <2>1 DEF MetricsInv, PointsKept
  <2>4. /\ \A q \in all : q[1] <= now /\ q[2] <= Cardinality(all)
        /\ \A q, r \in all : q[2] = r[2] => q = r
    <3>1. \A q \in recorded[m] : q[1] <= now /\ q[2] <= Cardinality(recorded[m]) /\ q[2] \in Nat
      BY <1>1 DEF MetricsInv, Numbering, Points
    <3>2. \A q, r \in recorded[m] : q[2] = r[2] => q = r
      BY DEF MetricsInv, Numbering
    <3>3. \A q \in recorded[m] : q[2] # p[2]
      BY <2>1, <3>1
    <3>4. \A q, r \in all : q[2] = r[2] => q = r
      BY <3>2, <3>3
    <3>5. \A q \in all : q[1] <= now /\ q[2] <= Cardinality(all)
      BY <1>1, <2>1, <3>1
    <3> QED
      BY <3>4, <3>5
  <2> HIDE DEF p, kept, all
  <2>5. Numbering'
    BY <1>1, <2>1, <2>2, <2>3, <2>4 DEF MetricsInv, Numbering
  <2>6. PointsKept'
    BY <1>1, <2>2, <2>3 DEF MetricsInv, PointsKept
  <2>7. MetricsTypeOK'
    <3>1. points' \in [Counted -> SUBSET Points]
      BY <1>1, <2>2, <2>3
    <3>2. /\ DOMAIN latest' \subseteq Counted \cup Gauges \cup Rates
          /\ \A x \in DOMAIN latest' : latest'[x] \in Nat
      BY <1>1, <2>2 DEF WithLatest
    <3> QED
      BY <1>1, <2>2, <3>1, <3>2 DEF MetricsTypeOK, Points
  <2> QED
    BY <2>2, <2>5, <2>6, <2>7 DEF MetricsInv, RatesFresh
<1>5. ASSUME NEW m \in Gauges, NEW value \in GaugeValues(m), RecordGauge(m, value)
      PROVE  MetricsInv'
  <2>1. /\ UNCHANGED <<now, points, routed, recorded>>
        /\ latest' = WithLatest(m, value) /\ evaluated' = "before"
    BY <1>5 DEF RecordGauge
  <2>2. value \in Nat
    BY DEF GaugeValues
  <2>3. /\ DOMAIN latest' \subseteq Counted \cup Gauges \cup Rates
        /\ \A x \in DOMAIN latest' : latest'[x] \in Nat
    BY <1>1, <2>1, <2>2 DEF WithLatest
  <2>4. MetricsTypeOK'
    BY <1>1, <2>1, <2>3 DEF MetricsTypeOK, Points
  <2>5. Numbering' /\ PointsKept'
    BY <2>1 DEF MetricsInv, Numbering, PointsKept
  <2> QED
    BY <2>1, <2>4, <2>5 DEF MetricsInv, RatesFresh
<1>6. CASE EvaluateMetrics
  <2>1. /\ UNCHANGED <<now, recorded>> /\ latest' = Snapshot /\ evaluated' = "now"
        /\ points' = [m \in Counted |-> Evicted(points[m])] /\ routed' = Alerts(Snapshot)
    BY <1>6 DEF EvaluateMetrics
  <2>2. /\ DOMAIN Snapshot \subseteq Counted \cup Gauges \cup Rates
        /\ \A x \in DOMAIN Snapshot : Snapshot[x] \in Nat
    BY <1>1, RateIsTrue DEF Snapshot
  <2>3. \A a \in Alerts(Snapshot) : a.level \in 0..3
    BY AlertOnIsWorst DEF Alerts
  <2>4. points' \in [Counted -> SUBSET Points]
    BY <1>1, <2>1 DEF Evicted
  <2>5. MetricsTypeOK'
    BY <1>1, <2>1, <2>2, <2>3, <2>4 DEF MetricsTypeOK, Points
  <2>6. PointsKept'
    BY <2>1 DEF MetricsInv, PointsKept, Evicted
  <2>7. Numbering'
    BY <2>1 DEF MetricsInv, Numbering
  <2>8. ASSUME NEW m \in DOMAIN Snapshot PROVE Snapshot[m] = TrueValue(m)'
    <3>1. \A x : InWindow(x)' = InWindow(x)
      BY <2>1 DEF InWindow
    <3>2. CASE m \in Rates
      <4>1. TrueValue(m)' = TrueValue(m)
        BY <3>1, <3>2 DEF TrueValue, Rates
      <4> QED
        BY <3>2, <4>1, RateIsTrue DEF Snapshot
    <3>3. CASE m \notin Rates
      BY <2>1, <3>3 DEF TrueValue, Rates
    <3> QED
      BY <3>2, <3>3
  <2>9. Alerts(latest') = Alerts(Snapshot) /\ Alerts(latest)' = Alerts(latest')
    BY <2>1 DEF Alerts
  <2>10. RatesFresh'
    BY <2>1, <2>8, <2>9 DEF RatesFresh
  <2> QED
    BY <2>5, <2>6, <2>7, <2>10 DEF MetricsInv
<1>7. CASE UNCHANGED metricVars
  <2>1. UNCHANGED <<now, points, latest, routed, evaluated, recorded>>
    BY <1>7 DEF metricVars
  <2>2. \A m : TrueValue(m)' = TrueValue(m)
    BY <2>1 DEF TrueValue, InWindow
  <2>3. Alerts(latest)' = Alerts(latest)
    BY <2>1 DEF Alerts
  <2> QED
    BY <2>1, <2>2, <2>3 DEF MetricsInv, MetricsTypeOK, Numbering, PointsKept, RatesFresh
<1> QED
  BY <1>3, <1>4, <1>5, <1>6, <1>7 DEF MetricsNext

LEMMA MetricsInvHolds == MetricsSpec => []MetricsInv
  BY MetricsInvInit, MetricsInvNext, PTL DEF MetricsSpec

(* The types of the metrics: points have a time that was reached, values   *)
(* are natural, and an alert has one of the four levels.                   *)
THEOREM MetricsTypeCorrect == MetricsSpec => []MetricsTypeOK
<1>1. MetricsInv => MetricsTypeOK
  BY DEF MetricsInv
<1> QED
  BY <1>1, MetricsInvHolds, PTL

(* What an evaluation raises is what is true at that moment: for every     *)
(* window and any number of points, an alert on a metric exactly if a rule *)
(* on it matches what was recorded within the window, of the most severe   *)
(* such level, and no alert of an earlier evaluation.                      *)
THEOREM AlertsAreTrue == MetricsSpec => []AlertsTell
<1>1. MetricsInv => AlertsTell
  <2> SUFFICES ASSUME MetricsInv, evaluated = "now", NEW m \in DOMAIN latest
               PROVE  LET matching == Matching(m, TrueValue(m))
                          alerts == {a \in routed : a.metric = m}
                      IN  /\ matching = {} => alerts = {}
                          /\ matching # {} => \E a \in alerts :
                                /\ alerts = {a} /\ a.target = Target(a.level)
                                /\ \E r \in matching : a.level = r.level
                                /\ \A r \in matching : a.level <= r.level
    BY DEF AlertsTell
  <2> DEFINE matching == Matching(m, latest[m])
             best == AlertOn(m, latest[m])
             alert == [metric |-> m, level |-> best.level, target |-> Target(best.level)]
             alerts == {a \in routed : a.metric = m}
  <2>1. latest[m] = TrueValue(m) /\ routed = Alerts(latest)
    BY DEF MetricsInv, RatesFresh
  <2>2. \A a \in alerts : a = alert /\ best # NoAlert
    BY <2>1 DEF Alerts
  <2>3. best # NoAlert => alert \in alerts
    BY <2>1 DEF Alerts
  <2>4. CASE matching = {}
    <3>1. best = NoAlert
      BY <2>4, AlertOnIsWorst
    <3> QED
      BY <2>1, <2>2, <2>4, <3>1
  <2>5. CASE matching # {}
    <3>1. best \in matching /\ best # NoAlert /\ \A r \in matching : best.level <= r.level
      BY <2>5, AlertOnIsWorst
    <3>2. alerts = {alert} /\ alert.level = best.level /\ alert.target = Target(alert.level)
      BY <2>2, <2>3, <3>1
    <3> HIDE DEF alert, best, matching
    <3>3. \E a \in alerts : /\ alerts = {a} /\ a.target = Target(a.level)
                            /\ \E r \in matching : a.level = r.level
                            /\ \A r \in matching : a.level <= r.level
      BY <3>1, <3>2
    <3> QED
      BY <2>1, <2>5, <3>3 DEF matching
  <2> QED
    BY <2>4, <2>5
<1> QED
  BY <1>1, MetricsInvHolds, PTL

-----------------------------------------------------------------------------
(* Web sockets.                                                            *)

UserOf(k) == tokens[k].user

(* Every message of a user that is in his buffer, in a replay, or received *)
(* by one of his clients.                                                  *)
MessagesOf(u) ==
    {m \in Numbered : \/ m \in Listing(buffers[u])
                      \/ \E k \in Sockets : /\ UserOf(k) = u
                                            /\ m \in received[k] \cup Listing(replays[k])}

(* A number names one event, and none is ahead of the sequence.            *)
OneEventPerNumber ==
    \A u \in WsUsers : \A m \in MessagesOf(u) :
        /\ m[1] <= sequences[u]
        /\ \A other \in MessagesOf(u) : m[1] = other[1] => m = other

(* What is kept of a user's messages is what his role may see.             *)
MayBeSeen ==
    \A k \in Sockets : \A m \in MessagesOf(UserOf(k)) : ShouldDeliver(TypeOf[m[2]], tokens[k].role)

MayBeForwarded ==
    \A s \in Streams : \A k \in forwarding[s].todo :
        forwarding[s].event \in Events /\ ShouldDeliver(TypeOf[forwarding[s].event], tokens[k].role)

Contiguous ==
    \A u \in WsUsers : \A n \in 1..Len(buffers[u]) :
        buffers[u][n][1] = sequences[u] - Len(buffers[u]) + n

(* What a client is to have it has, or it is in the replay or on its way.  *)
OwedComes ==
    \A k \in Sockets : clients[k] = "there" =>
        owed[k] \subseteq {m[2] : m \in received[k] \cup Listing(replays[k])} \cup InFlight(k)

SocketsStand ==
    \A k \in Sockets : /\ clients[k] = "there" => sockets[k] \in {"replaying", "serving"}
                       /\ sockets[k] = "serving" => replays[k] = <<>>

BridgeTypes ==
    /\ BridgeTypeOK
    /\ tokens \in [Sockets -> Tokens]
    /\ forwarding \in [Streams -> [event: Events \cup {"none"}, todo: SUBSET Sockets]]
    /\ replays \in [Sockets -> Seq(Numbered)]
    /\ received \in [Sockets -> SUBSET Numbered]
    /\ owed \in [Sockets -> SUBSET Events]

BridgeInv ==
    /\ BridgeTypes
    /\ OneEventPerNumber /\ MayBeSeen /\ MayBeForwarded
    /\ Contiguous /\ OwedComes /\ SocketsStand

LEMMA UsersOfSockets ==
    ASSUME BridgeTypes, NEW k \in Sockets
    PROVE  UserOf(k) \in WsUsers /\ tokens[k] \in Tokens /\ tokens[k].session \in Sessions
BY DEF BridgeTypes, UserOf, WsUsers, Sessions

(* The end of a sequence.                                                  *)
LEMMA LastOfIs ==
    ASSUME NEW S, NEW s \in Seq(S), NEW n \in Nat
    PROVE  /\ LastOf(s, n) \in Seq(S)
           /\ Len(LastOf(s, n)) = IF Len(s) <= n THEN Len(s) ELSE n
           /\ \A i \in 1..Len(LastOf(s, n)) : LastOf(s, n)[i] = s[Len(s) - Len(LastOf(s, n)) + i]
           /\ Listing(LastOf(s, n)) \subseteq Listing(s)
<1>1. CASE Len(s) <= n
  BY <1>1 DEF LastOf
<1>2. CASE n < Len(s)
  <2> DEFINE t == SubSeq(s, Len(s) - n + 1, Len(s))
  <2>1. LastOf(s, n) = t
    BY <1>2 DEF LastOf
  <2>2. Len(s) \in Nat /\ Len(s) - n + 1 \in 1..Len(s) + 1
    BY <1>2
  <2>3. \A i \in (Len(s) - n + 1)..Len(s) : s[i] \in S
    BY <2>2
  <2>4. t \in Seq(S) /\ Len(t) = n /\ \A i \in 1..n : t[i] = s[Len(s) - n + i]
    BY <1>2, <2>2, <2>3
  <2>5. \A i \in 1..n : Len(s) - n + i \in 1..Len(s)
    BY <1>2, <2>2
  <2> QED
    BY <1>2, <2>1, <2>4, <2>5 DEF Listing
<1> QED
  BY <1>1, <1>2

LEMMA BridgeInvInit == BridgeInit => BridgeInv
<1> SUFFICES ASSUME BridgeInit
             PROVE  BridgeInv
  OBVIOUS
<1> USE DEF BridgeInit
<1>1. BridgeTypes
  BY BridgeAssumption DEF BridgeTypes, BridgeTypeOK, NoEvent
<1>2. \A u \in WsUsers : MessagesOf(u) = {}
  BY DEF MessagesOf, Listing
<1>3. OneEventPerNumber
  BY <1>2 DEF OneEventPerNumber
<1>4. MayBeSeen
  BY <1>1, <1>2, UsersOfSockets DEF MayBeSeen
<1>5. MayBeForwarded
  BY DEF MayBeForwarded, NoEvent
<1>6. Contiguous /\ OwedComes /\ SocketsStand
  BY DEF Contiguous, OwedComes, SocketsStand
<1> QED
  BY <1>1, <1>3, <1>4, <1>5, <1>6 DEF BridgeInv

(* As long as nothing is buffered, no message of a user is new.            *)
LEMMA KeepsMessages ==
    ASSUME BridgeInv, tokens' = tokens, sequences' = sequences, buffers' = buffers,
           \A k \in Sockets :
              received'[k] \cup Listing(replays'[k])
                \subseteq received[k] \cup Listing(replays[k]) \cup Listing(buffers[UserOf(k)])
    PROVE  OneEventPerNumber' /\ MayBeSeen' /\ Contiguous'
<1>1. \A k : UserOf(k)' = UserOf(k)
  BY DEF UserOf
<1>2. ASSUME NEW u PROVE MessagesOf(u)' \subseteq MessagesOf(u)
  <2> SUFFICES ASSUME NEW m \in Numbered,
                      \/ m \in Listing(buffers[u])
                      \/ \E k \in Sockets : /\ UserOf(k) = u
                                            /\ m \in received'[k] \cup Listing(replays'[k])
               PROVE  m \in MessagesOf(u)
    BY <1>1 DEF MessagesOf
  <2>1. CASE m \in Listing(buffers[u])
    BY <2>1 DEF MessagesOf
  <2>2. ASSUME NEW k \in Sockets, UserOf(k) = u, m \in received'[k] \cup Listing(replays'[k])
        PROVE  m \in MessagesOf(u)
    BY <2>2 DEF MessagesOf
  <2> QED
    BY <2>1, <2>2
<1>3. OneEventPerNumber'
  <2> SUFFICES ASSUME NEW u \in WsUsers, NEW m \in MessagesOf(u)'
               PROVE  /\ m[1] <= sequences[u]
                      /\ \A other \in MessagesOf(u)' : m[1] = other[1] => m = other
    BY DEF OneEventPerNumber
  <2> QED
    BY <1>2 DEF BridgeInv, OneEventPerNumber
<1>4. MayBeSeen'
  <2> SUFFICES ASSUME NEW k \in Sockets, NEW m \in MessagesOf(UserOf(k))'
               PROVE  ShouldDeliver(TypeOf[m[2]], tokens[k].role)
    BY DEF MayBeSeen
  <2>1. ASSUME NEW u, u = UserOf(k) PROVE m \in MessagesOf(u)
    <3>1. u = UserOf(k)'
      BY <1>1, <2>1
    <3>2. m \in MessagesOf(u)'
      BY <3>1 DEF MessagesOf
    <3> QED
      BY <1>2, <3>2
  <2> QED
    BY <2>1 DEF BridgeInv, MayBeSeen
<1>5. Contiguous'
  BY DEF BridgeInv, Contiguous
<1> QED
  BY <1>3, <1>4, <1>5

LEMMA PublishKeeps ==
    ASSUME BridgeInv, NEW e \in Events, PublishEvent(e)
    PROVE  BridgeInv'
<1>1. /\ UNCHANGED <<tokens, forwarding, connections, sequences, buffers>>
      /\ UNCHANGED <<sockets, replays, clients, received, owed>>
  BY DEF PublishEvent, managerVars, socketVars
<1>2. queues' \in [Streams -> Seq(Events)]
  <2>1. StreamOf[e] \in Streams /\ queues \in [Streams -> Seq(Events)]
    BY DEF BridgeInv, BridgeTypes, BridgeTypeOK, Streams
  <2>2. Append(queues[StreamOf[e]], e) \in Seq(Events)
    BY <2>1
  <2> QED
    BY <2>1, <2>2 DEF PublishEvent
<1>3. BridgeTypes'
  BY <1>1, <1>2 DEF BridgeInv, BridgeTypes, BridgeTypeOK
<1>4. OneEventPerNumber' /\ MayBeSeen' /\ Contiguous'
  BY <1>1, KeepsMessages
<1>5. MayBeForwarded' /\ OwedComes' /\ SocketsStand'
  BY <1>1 DEF BridgeInv, MayBeForwarded, OwedComes, SocketsStand, InFlight, Listing
<1> QED
  BY <1>3, <1>4, <1>5 DEF BridgeInv

LEMMA TakeKeeps ==
    ASSUME BridgeInv, NEW s \in Streams, TakeMessage(s)
    PROVE  BridgeInv'
<1> DEFINE e == Head(queues[s])
           listed == {connections[i] : i \in Sessions} \ {"none"}
           todo == {k \in listed : ShouldDeliver(TypeOf[e], tokens[k].role)}
           taken == IF todo = {} THEN NoEvent ELSE [event |-> e, todo |-> todo]
<1>1. /\ UNCHANGED <<tokens, connections, sequences, buffers>>
      /\ UNCHANGED <<sockets, replays, clients, received>>
      /\ forwarding[s] = NoEvent /\ queues[s] # <<>>
      /\ queues' = [queues EXCEPT ![s] = Tail(queues[s])]
      /\ forwarding' = [forwarding EXCEPT ![s] = taken]
      /\ owed' = [k \in Sockets |-> IF k \in todo /\ clients[k] = "there"
                                    THEN owed[k] \cup {e} ELSE owed[k]]
  BY DEF TakeMessage, managerVars
<1>2. /\ queues \in [Streams -> Seq(Events)]
      /\ forwarding \in [Streams -> [event: Events \cup {"none"}, todo: SUBSET Sockets]]
      /\ connections \in [Sessions -> Sockets \cup {"none"}]
      /\ owed \in [Sockets -> SUBSET Events]
  BY DEF BridgeInv, BridgeTypes, BridgeTypeOK
<1>3. e \in Events /\ Tail(queues[s]) \in Seq(Events)
  BY <1>1, <1>2, TakenIs
<1>4. todo \subseteq Sockets
  BY <1>2
<1>5. /\ taken \in [event: Events \cup {"none"}, todo: SUBSET Sockets]
      /\ taken.todo = todo /\ (todo # {} => taken.event = e)
  BY <1>3, <1>4 DEF NoEvent
<1>6. \A k \in todo : ShouldDeliver(TypeOf[e], tokens[k].role)
  OBVIOUS
<1> HIDE DEF taken, todo, e
<1>7. /\ queues' \in [Streams -> Seq(Events)]
      /\ forwarding' \in [Streams -> [event: Events \cup {"none"}, todo: SUBSET Sockets]]
      /\ owed' \in [Sockets -> SUBSET Events]
  BY <1>1, <1>2, <1>3, <1>5
<1>8. BridgeTypes'
  BY <1>1, <1>7 DEF BridgeInv, BridgeTypes, BridgeTypeOK
<1>9. OneEventPerNumber' /\ MayBeSeen' /\ Contiguous'
  BY <1>1, KeepsMessages
<1>10. MayBeForwarded'
  BY <1>1, <1>2, <1>3, <1>5, <1>6 DEF BridgeInv, MayBeForwarded
<1>11. OwedComes'
  <2> SUFFICES ASSUME NEW k \in Sockets, clients[k] = "there", NEW x \in owed'[k]
               PROVE  x \in {m[2] : m \in received[k] \cup Listing(replays[k])} \cup InFlight(k)'
    BY <1>1 DEF OwedComes, Listing
  <2>1. InFlight(k) \subseteq InFlight(k)'
    <3>1. \A t \in Streams : k \in forwarding[t].todo =>
            k \in forwarding'[t].todo /\ forwarding'[t].event = forwarding[t].event
      BY <1>1, <1>2 DEF NoEvent
    <3> QED
      BY <3>1 DEF InFlight
  <2>2. CASE x \in owed[k]
    BY <2>1, <2>2 DEF BridgeInv, OwedComes
  <2>3. CASE x \notin owed[k]
    <3>1. k \in todo /\ x = e
      BY <1>1, <2>3
    <3>2. k \in forwarding'[s].todo /\ forwarding'[s].event = e
      BY <1>1, <1>2, <1>5, <3>1
    <3> QED
      BY <3>1, <3>2 DEF InFlight
  <2> QED
    BY <2>2, <2>3
<1>12. SocketsStand'
  BY <1>1 DEF BridgeInv, SocketsStand
<1> QED
  BY <1>8, <1>9, <1>10, <1>11, <1>12 DEF BridgeInv

(* A message that is buffered gets the next number of its user.            *)
LEMMA BufferedIs ==
    ASSUME BridgeInv, NEW u \in WsUsers, NEW e \in Events, NEW n, n = sequences[u] + 1,
           Buffered(u, e)
    PROVE  /\ sequences' \in [WsUsers -> Nat] /\ buffers' \in [WsUsers -> Seq(Numbered)]
           /\ \A v \in WsUsers : Len(buffers'[v]) <= BufferSize
           /\ Contiguous' /\ <<n, e>> \in Numbered
           /\ Listing(buffers'[u]) \subseteq Listing(buffers[u]) \cup {<<n, e>>}
           /\ sequences' = [sequences EXCEPT ![u] = n]
           /\ \A v \in WsUsers \ {u} : buffers'[v] = buffers[v] /\ sequences'[v] = sequences[v]
<1> DEFINE long == Append(buffers[u], <<n, e>>)
           new == LastOf(long, BufferSize)
<1>1. /\ sequences \in [WsUsers -> Nat] /\ buffers \in [WsUsers -> Seq(Numbered)]
      /\ \A v \in WsUsers : Len(buffers[v]) <= BufferSize
      /\ BufferSize \in Nat /\ Contiguous
  BY BridgeAssumption DEF BridgeInv, BridgeTypes, BridgeTypeOK
<1>2. sequences' = [sequences EXCEPT ![u] = n] /\ buffers' = [buffers EXCEPT ![u] = new]
  BY DEF Buffered
<1>3. n \in Nat \ {0} /\ <<n, e>> \in Numbered
  BY <1>1 DEF Numbered
<1>4. /\ long \in Seq(Numbered) /\ Len(long) = Len(buffers[u]) + 1
      /\ \A i \in 1..Len(buffers[u]) : long[i] = buffers[u][i]
      /\ long[Len(buffers[u]) + 1] = <<n, e>>
      /\ Listing(long) = Listing(buffers[u]) \cup {<<n, e>>}
  <2> DEFINE x == <<n, e>>
             s == buffers[u]
  <2>1. x \in Numbered /\ s \in Seq(Numbered)
    BY <1>1, <1>3
  <2> HIDE DEF x, s
  <2>2. /\ Append(s, x) \in Seq(Numbered) /\ Len(Append(s, x)) = Len(s) + 1
        /\ \A i \in 1..Len(s) : Append(s, x)[i] = s[i]
        /\ Append(s, x)[Len(s) + 1] = x
        /\ Listing(Append(s, x)) = Listing(s) \cup {x}
    BY <2>1, AppendedIs
  <2> QED
    BY <2>2 DEF x, s
<1> HIDE DEF long
<1>5. /\ new \in Seq(Numbered) /\ Len(new) = IF Len(long) <= BufferSize THEN Len(long) ELSE BufferSize
      /\ \A i \in 1..Len(new) : new[i] = long[Len(long) - Len(new) + i]
      /\ Listing(new) \subseteq Listing(long)
  BY <1>1, <1>4, LastOfIs
<1> HIDE DEF new
<1>6. Len(buffers[u]) \in Nat /\ Len(new) \in Nat /\ Len(long) \in Nat /\ Len(new) <= Len(long)
  BY <1>1, <1>4, <1>5
<1>7. \A i \in 1..Len(new) : new[i][1] = n - Len(new) + i
  <2> SUFFICES ASSUME NEW i \in 1..Len(new)
               PROVE  new[i][1] = n - Len(new) + i
    OBVIOUS
  <2> DEFINE j == Len(long) - Len(new) + i
  <2>1. j \in 1..Len(long) /\ new[i] = long[j]
    BY <1>5, <1>6
  <2>4. j = Len(long) - Len(new) + i /\ i \in Int
    OBVIOUS
  <2> HIDE DEF j
  <2>2. CASE j = Len(long)
    BY <1>3, <1>4, <1>6, <2>1, <2>2, <2>4
  <2>3. CASE j # Len(long)
    <3>1. j \in 1..Len(buffers[u]) /\ long[j] = buffers[u][j]
      BY <1>4, <1>6, <2>1, <2>3
    <3>2. buffers[u][j][1] = sequences[u] - Len(buffers[u]) + j
      BY <1>1, <3>1 DEF Contiguous
    <3>3. new[i][1] = sequences[u] - Len(buffers[u]) + j
      BY <2>1, <3>1, <3>2
    <3>4. Len(long) = Len(buffers[u]) + 1 /\ n = sequences[u] + 1 /\ sequences[u] \in Int
      BY <1>1, <1>4
    <3> QED
      BY <1>6, <2>4, <3>3, <3>4
  <2> QED
    BY <2>2, <2>3
<1>8. Contiguous'
  <2> SUFFICES ASSUME NEW v \in WsUsers, NEW i \in 1..Len(buffers'[v])
               PROVE  buffers'[v][i][1] = sequences'[v] - Len(buffers'[v]) + i
    BY DEF Contiguous
  <2>1. CASE v = u
    BY <1>1, <1>2, <1>7, <2>1
  <2>2. CASE v # u
    BY <1>1, <1>2, <2>2 DEF Contiguous
  <2> QED
    BY <2>1, <2>2
<1>9. Len(new) <= BufferSize
  BY <1>1, <1>5, <1>6
<1>10. /\ sequences' \in [WsUsers -> Nat] /\ buffers' \in [WsUsers -> Seq(Numbered)]
       /\ \A v \in WsUsers : Len(buffers'[v]) <= BufferSize
  BY <1>1, <1>2, <1>3, <1>5, <1>9
<1> QED
  BY <1>1, <1>2, <1>3, <1>4, <1>5, <1>8, <1>10

(* A message that is buffered and sent is new, and its user may see it.    *)
LEMMA NewMessageIsFine ==
    ASSUME BridgeInv, NEW u \in WsUsers, NEW e \in Events, NEW n, n = sequences[u] + 1,
           Buffered(u, e), tokens' = tokens, replays' = replays,
           \A k \in Sockets : UserOf(k) = u => ShouldDeliver(TypeOf[e], tokens[k].role),
           \A k \in Sockets : \/ received'[k] = received[k]
                              \/ UserOf(k) = u /\ received'[k] = received[k] \cup {<<n, e>>}
    PROVE  OneEventPerNumber' /\ MayBeSeen'
<1>1. /\ \A k : UserOf(k)' = UserOf(k)
      /\ sequences \in [WsUsers -> Nat] /\ sequences' = [sequences EXCEPT ![u] = n]
      /\ Listing(buffers'[u]) \subseteq Listing(buffers[u]) \cup {<<n, e>>}
      /\ \A v \in WsUsers \ {u} : buffers'[v] = buffers[v]
  BY BufferedIs DEF UserOf, BridgeInv, BridgeTypes, BridgeTypeOK
<1>2. ASSUME NEW v \in WsUsers, NEW m \in MessagesOf(v)'
      PROVE  m \in MessagesOf(v) \/ (v = u /\ m = <<n, e>>)
  <2>1. m \in Numbered /\ (\/ m \in Listing(buffers'[v])
                           \/ \E k \in Sockets : /\ UserOf(k) = v
                                                 /\ m \in received'[k] \cup Listing(replays[k]))
    BY <1>1, <1>2 DEF MessagesOf
  <2>2. CASE m \in Listing(buffers'[v])
    BY <1>1, <2>1, <2>2 DEF MessagesOf
  <2>3. ASSUME NEW k \in Sockets, UserOf(k) = v, m \in received'[k] \cup Listing(replays[k])
        PROVE  m \in MessagesOf(v) \/ (v = u /\ m = <<n, e>>)
    <3>1. m \in received[k] \cup Listing(replays[k]) \/ (v = u /\ m = <<n, e>>)
      BY <2>3
    <3> QED
      BY <2>1, <2>3, <3>1 DEF MessagesOf
  <2> QED
    BY <2>1, <2>2, <2>3
<1>3. OneEventPerNumber'
  <2> SUFFICES ASSUME NEW v \in WsUsers, NEW m \in MessagesOf(v)'
               PROVE  /\ m[1] <= sequences'[v]
                      /\ \A other \in MessagesOf(v)' : m[1] = other[1] => m = other
    BY DEF OneEventPerNumber
  <2>1. \A x \in MessagesOf(v) : /\ x[1] <= sequences[v] /\ x[1] \in Nat
                                 /\ \A other \in MessagesOf(v) : x[1] = other[1] => x = other
    BY DEF BridgeInv, OneEventPerNumber, MessagesOf, Numbered
  <2>2. CASE v # u
    BY <1>1, <1>2, <2>1, <2>2
  <2>3. CASE v = u
    <3>1. \A x \in MessagesOf(v) : x[1] < n
      BY <1>1, <2>1, <2>3
    <3>2. sequences'[v] = n /\ n \in Nat /\ <<n, e>>[1] = n
      BY <1>1, <2>3
    <3>3. m \in MessagesOf(v) \/ m = <<n, e>>
      BY <1>2
    <3>4. \A other \in MessagesOf(v)' : other \in MessagesOf(v) \/ other = <<n, e>>
      BY <1>2
    <3>5. m[1] <= n
      BY <2>1, <3>1, <3>2, <3>3
    <3>6. ASSUME NEW other \in MessagesOf(v)', m[1] = other[1] PROVE m = other
      <4>1. CASE m \in MessagesOf(v) /\ other \in MessagesOf(v)
        BY <2>1, <3>6, <4>1
      <4>2. CASE m \in MessagesOf(v) /\ other = <<n, e>>
        BY <2>1, <3>1, <3>2, <3>6, <4>2
      <4>3. CASE m = <<n, e>> /\ other \in MessagesOf(v)
        BY <2>1, <3>1, <3>2, <3>6, <4>3
      <4> QED
        BY <3>3, <3>4, <4>1, <4>2, <4>3
    <3> QED
      BY <3>2, <3>5, <3>6
  <2> QED
    BY <2>2, <2>3
<1>4. MayBeSeen'
  <2> SUFFICES ASSUME NEW k \in Sockets, NEW m \in MessagesOf(UserOf(k))'
               PROVE  ShouldDeliver(TypeOf[m[2]], tokens[k].role)
    BY DEF MayBeSeen
  <2>1. ASSUME NEW v, v = UserOf(k) PROVE m \in MessagesOf(v) \/ (v = u /\ m = <<n, e>>)
    <3>1. v = UserOf(k)' /\ v \in WsUsers
      BY <1>1, <2>1, UsersOfSockets DEF BridgeInv
    <3>2. m \in MessagesOf(v)'
      BY <3>1 DEF MessagesOf
    <3> QED
      BY <1>2, <3>1, <3>2
  <2>2. m \in MessagesOf(UserOf(k)) \/ (UserOf(k) = u /\ m = <<n, e>>)
    BY <2>1
  <2> QED
    BY <2>2 DEF BridgeInv, MayBeSeen
<1> QED
  BY <1>3, <1>4

LEMMA ForwardKeeps ==
    ASSUME BridgeInv, NEW s \in Streams, NEW k \in Sockets, ForwardTo(s, k)
    PROVE  BridgeInv'
<1> DEFINE e == forwarding[s].event
           u == UserOf(k)
           n == sequences[u] + 1
           rest == IF forwarding[s].todo = {k} THEN NoEvent
                   ELSE [event |-> e, todo |-> forwarding[s].todo \ {k}]
<1>1. /\ UNCHANGED <<tokens, queues, sent, sockets, replays, clients, owed>>
      /\ k \in forwarding[s].todo /\ Buffered(u, e)
      /\ \/ /\ Reachable(k) /\ received' = [received EXCEPT ![k] = received[k] \cup {<<n, e>>}]
            /\ connections' = connections
         \/ /\ ~Reachable(k) /\ received' = received
            /\ connections' = [connections EXCEPT ![tokens[k].session] = "none"]
  BY DEF ForwardTo, Disconnected, UserOf
<1>2. /\ queues \in [Streams -> Seq(Events)]
      /\ forwarding \in [Streams -> [event: Events \cup {"none"}, todo: SUBSET Sockets]]
      /\ connections \in [Sessions -> Sockets \cup {"none"}]
      /\ received \in [Sockets -> SUBSET Numbered]
      /\ owed \in [Sockets -> SUBSET Events]
      /\ u \in WsUsers /\ tokens[k].session \in Sessions
      /\ e \in Events /\ ShouldDeliver(TypeOf[e], tokens[k].role)
  BY <1>1, UsersOfSockets DEF BridgeInv, BridgeTypes, BridgeTypeOK, MayBeForwarded
<1>3. /\ forwarding' = [forwarding EXCEPT ![s] = rest]
      /\ rest \in [event: Events \cup {"none"}, todo: SUBSET Sockets]
      /\ rest.todo = forwarding[s].todo \ {k}
      /\ rest.todo # {} => rest.event = e
  <2>1. rest \in [event: Events \cup {"none"}, todo: SUBSET Sockets]
        /\ rest.todo = forwarding[s].todo \ {k} /\ (rest.todo # {} => rest.event = e)
    BY <1>1, <1>2 DEF NoEvent
  <2>2. forwarding' = [forwarding EXCEPT ![s] = rest]
    BY DEF ForwardTo
  <2> QED
    BY <2>1, <2>2
<1>4. \A l \in Sockets : UserOf(l) = u => ShouldDeliver(TypeOf[e], tokens[l].role)
  <2> SUFFICES ASSUME NEW l \in Sockets, UserOf(l) = u
               PROVE  tokens[l].role = tokens[k].role
    BY <1>2
  <2>1. tokens[l] \in Tokens /\ tokens[k] \in Tokens
    BY UsersOfSockets DEF BridgeInv
  <2> QED
    BY <2>1, BridgeAssumption DEF UserOf
<1>5. n = sequences[u] + 1
  OBVIOUS
<1> HIDE DEF e, u, n, rest
<1>6. ASSUME NEW a, a = u, NEW b, b = e, NEW c, c = n
      PROVE  /\ sequences' \in [WsUsers -> Nat] /\ buffers' \in [WsUsers -> Seq(Numbered)]
             /\ \A v \in WsUsers : Len(buffers'[v]) <= BufferSize
             /\ Contiguous' /\ <<n, e>> \in Numbered
             /\ OneEventPerNumber' /\ MayBeSeen'
  <2>1. a \in WsUsers /\ b \in Events /\ c = sequences[a] + 1 /\ Buffered(a, b)
    BY <1>1, <1>2, <1>5, <1>6
  <2>2. /\ sequences' \in [WsUsers -> Nat] /\ buffers' \in [WsUsers -> Seq(Numbered)]
        /\ \A v \in WsUsers : Len(buffers'[v]) <= BufferSize
        /\ Contiguous' /\ <<c, b>> \in Numbered
    BY <2>1, BufferedIs
  <2>3. \A l \in Sockets : UserOf(l) = a => ShouldDeliver(TypeOf[b], tokens[l].role)
    BY <1>4, <1>6
  <2>4. \A l \in Sockets : \/ received'[l] = received[l]
                           \/ UserOf(l) = a /\ received'[l] = received[l] \cup {<<c, b>>}
    BY <1>1, <1>2, <1>6 DEF u
  <2>5. OneEventPerNumber' /\ MayBeSeen'
    BY <1>1, <2>1, <2>3, <2>4, NewMessageIsFine
  <2> QED
    BY <1>6, <2>2, <2>5
<1>7. /\ sequences' \in [WsUsers -> Nat] /\ buffers' \in [WsUsers -> Seq(Numbered)]
      /\ \A v \in WsUsers : Len(buffers'[v]) <= BufferSize
      /\ Contiguous' /\ <<n, e>> \in Numbered
      /\ OneEventPerNumber' /\ MayBeSeen'
  BY <1>6
<1>8. /\ received' \in [Sockets -> SUBSET Numbered]
      /\ connections' \in [Sessions -> Sockets \cup {"none"}]
      /\ forwarding' \in [Streams -> [event: Events \cup {"none"}, todo: SUBSET Sockets]]
  <2>1. received' \in [Sockets -> SUBSET Numbered]
    <3>1. received[k] \cup {<<n, e>>} \in SUBSET Numbered
      BY <1>2, <1>7
    <3> QED
      BY <1>1, <1>2, <3>1
  <2>2. connections' \in [Sessions -> Sockets \cup {"none"}]
    BY <1>1, <1>2
  <2>3. forwarding' \in [Streams -> [event: Events \cup {"none"}, todo: SUBSET Sockets]]
    BY <1>2, <1>3
  <2> QED
    BY <2>1, <2>2, <2>3
<1>9. BridgeTypes'
  BY <1>1, <1>7, <1>8 DEF BridgeInv, BridgeTypes, BridgeTypeOK
<1>10. MayBeForwarded'
  <2> SUFFICES ASSUME NEW t \in Streams, NEW l \in forwarding'[t].todo
               PROVE  /\ forwarding'[t].event \in Events
                      /\ ShouldDeliver(TypeOf[forwarding'[t].event], tokens[l].role)
    BY <1>1 DEF MayBeForwarded
  <2>1. l \in forwarding[t].todo /\ forwarding'[t].event = forwarding[t].event
    BY <1>2, <1>3 DEF e
  <2> QED
    BY <2>1 DEF BridgeInv, MayBeForwarded
<1>11. OwedComes'
  <2> SUFFICES ASSUME NEW l \in Sockets, clients[l] = "there", NEW x \in owed[l]
               PROVE  x \in {m[2] : m \in received'[l] \cup Listing(replays[l])} \cup InFlight(l)'
    BY <1>1 DEF OwedComes, Listing
  <2>1. received[l] \subseteq received'[l]
    BY <1>1, <1>2
  <2>2. CASE x \in {m[2] : m \in received[l] \cup Listing(replays[l])}
    BY <2>1, <2>2
  <2>3. CASE x \in InFlight(l)
    <3>1. PICK t \in Streams : l \in forwarding[t].todo /\ x = forwarding[t].event
      BY <2>3 DEF InFlight
    <3>2. CASE t = s /\ l = k
      <4>1. Reachable(k)
        BY <3>2 DEF BridgeInv, SocketsStand, Reachable
      <4>2. <<n, e>> \in received'[l] /\ x = e
        BY <1>1, <1>2, <3>1, <3>2, <4>1 DEF e
      <4> QED
        BY <4>2
    <3>3. CASE ~(t = s /\ l = k)
      <4>1. l \in forwarding'[t].todo /\ forwarding'[t].event = x
        BY <1>2, <1>3, <3>1, <3>3 DEF e
      <4> QED
        BY <4>1 DEF InFlight
    <3> QED
      BY <3>2, <3>3
  <2> QED
    BY <2>2, <2>3 DEF BridgeInv, OwedComes
<1>12. SocketsStand'
  BY <1>1 DEF BridgeInv, SocketsStand
<1> QED
  BY <1>7, <1>9, <1>10, <1>11, <1>12 DEF BridgeInv

LEMMA DisconnectedTyped ==
    ASSUME BridgeInv, NEW k \in Sockets, Disconnected(tokens[k].session)
    PROVE  connections' \in [Sessions -> Sockets \cup {"none"}]
<1>1. tokens[k].session \in Sessions /\ connections \in [Sessions -> Sockets \cup {"none"}]
  BY UsersOfSockets DEF BridgeInv, BridgeTypes, BridgeTypeOK
<1> QED
  BY <1>1 DEF Disconnected

LEMMA ConnectKeeps ==
    ASSUME BridgeInv, NEW k \in Sockets, ConnectSocket(k)
    PROVE  BridgeInv'
<1> DEFINE again == LastOf(buffers[UserOf(k)], ReplaySize)
<1>1. /\ UNCHANGED <<tokens, queues, sent, forwarding, sequences, buffers, received>>
      /\ clients' = [clients EXCEPT ![k] = "there"]
      /\ connections' = [connections EXCEPT ![tokens[k].session] = k]
      /\ sockets' = [sockets EXCEPT ![k] = "replaying"]
      /\ replays' = [replays EXCEPT ![k] = again]
      /\ owed' = [owed EXCEPT ![k] = EventsIn(again)]
  BY DEF ConnectSocket, InitialReplay, UserOf
<1>2. /\ connections \in [Sessions -> Sockets \cup {"none"}]
      /\ sockets \in [Sockets -> {"new", "replaying", "serving", "closed"}]
      /\ clients \in [Sockets -> {"absent", "there", "gone"}]
      /\ replays \in [Sockets -> Seq(Numbered)] /\ owed \in [Sockets -> SUBSET Events]
      /\ received \in [Sockets -> SUBSET Numbered]
      /\ tokens[k].session \in Sessions /\ UserOf(k) \in WsUsers
      /\ buffers \in [WsUsers -> Seq(Numbered)]
  BY UsersOfSockets DEF BridgeInv, BridgeTypes, BridgeTypeOK
<1>3. again \in Seq(Numbered) /\ Listing(again) \subseteq Listing(buffers[UserOf(k)])
  BY <1>2, LastOfIs, BridgeAssumption
<1> HIDE DEF again
<1>4. EventsIn(again) \subseteq Events /\ EventsIn(again) = {m[2] : m \in Listing(again)}
  <2>1. \A i \in 1..Len(again) : again[i] \in Numbered
    BY <1>3
  <2>2. \A m \in Numbered : m[2] \in Events
    BY DEF Numbered
  <2> QED
    BY <2>1, <2>2 DEF EventsIn, Listing
<1>5. /\ connections' \in [Sessions -> Sockets \cup {"none"}]
      /\ sockets' \in [Sockets -> {"new", "replaying", "serving", "closed"}]
      /\ clients' \in [Sockets -> {"absent", "there", "gone"}]
      /\ replays' \in [Sockets -> Seq(Numbered)] /\ owed' \in [Sockets -> SUBSET Events]
  BY <1>1, <1>2, <1>3, <1>4
<1>6. BridgeTypes'
  BY <1>1, <1>5 DEF BridgeInv, BridgeTypes, BridgeTypeOK
<1>7. \A l \in Sockets :
        received'[l] \cup Listing(replays'[l])
          \subseteq received[l] \cup Listing(replays[l]) \cup Listing(buffers[UserOf(l)])
  <2> TAKE l \in Sockets
  <2>1. replays'[l] = IF l = k THEN again ELSE replays[l]
    BY <1>1, <1>2
  <2> QED
    BY <1>1, <1>3, <2>1
<1>8. OneEventPerNumber' /\ MayBeSeen' /\ Contiguous'
  BY <1>1, <1>7, KeepsMessages
<1>9. MayBeForwarded'
  BY <1>1 DEF BridgeInv, MayBeForwarded
<1>10. OwedComes'
  <2> SUFFICES ASSUME NEW l \in Sockets, clients'[l] = "there"
               PROVE  owed'[l] \subseteq {m[2] : m \in received'[l] \cup Listing(replays'[l])}
                                         \cup InFlight(l)
    BY <1>1 DEF OwedComes, Listing, InFlight
  <2>1. CASE l = k
    <3>1. owed'[l] = EventsIn(again) /\ replays'[l] = again
      BY <1>1, <1>2, <2>1
    <3> QED
      BY <1>4, <3>1
  <2>2. CASE l # k
    <3>1. owed'[l] = owed[l] /\ replays'[l] = replays[l] /\ clients[l] = "there"
      BY <1>1, <1>2, <2>2
    <3> QED
      BY <1>1, <3>1 DEF BridgeInv, OwedComes
  <2> QED
    BY <2>1, <2>2
<1>11. SocketsStand'
  BY <1>1, <1>2 DEF BridgeInv, SocketsStand
<1> QED
  BY <1>6, <1>8, <1>9, <1>10, <1>11 DEF BridgeInv

LEMMA ReplayKeeps ==
    ASSUME BridgeInv, NEW k \in Sockets, ReplayNext(k)
    PROVE  BridgeInv'
<1> DEFINE first == Head(replays[k])
           others == Tail(replays[k])
<1>1. /\ UNCHANGED <<tokens, queues, sent, forwarding, sequences, buffers, clients, owed>>
      /\ sockets[k] = "replaying" /\ replays[k] # <<>>
      /\ \/ /\ clients[k] = "there"
            /\ received' = [received EXCEPT ![k] = received[k] \cup {first}]
            /\ replays' = [replays EXCEPT ![k] = others]
            /\ UNCHANGED <<sockets, connections>>
         \/ /\ clients[k] # "there"
            /\ Disconnected(tokens[k].session)
            /\ sockets' = [sockets EXCEPT ![k] = "closed"]
            /\ replays' = [replays EXCEPT ![k] = <<>>]
            /\ received' = received
  BY DEF ReplayNext
<1>2. /\ connections \in [Sessions -> Sockets \cup {"none"}]
      /\ sockets \in [Sockets -> {"new", "replaying", "serving", "closed"}]
      /\ replays \in [Sockets -> Seq(Numbered)] /\ received \in [Sockets -> SUBSET Numbered]
  BY DEF BridgeInv, BridgeTypes, BridgeTypeOK
<1>3. first \in Numbered /\ others \in Seq(Numbered)
      /\ Listing(replays[k]) = {first} \cup Listing(others)
  BY <1>1, <1>2, TakenIs
<1> HIDE DEF first, others
<1>4. Listing(<<>>) = {}
  BY DEF Listing
<1>5. /\ connections' \in [Sessions -> Sockets \cup {"none"}]
      /\ sockets' \in [Sockets -> {"new", "replaying", "serving", "closed"}]
  BY <1>1, <1>2, DisconnectedTyped
<1>6. replays' \in [Sockets -> Seq(Numbered)] /\ received' \in [Sockets -> SUBSET Numbered]
  <2>1. received[k] \cup {first} \in SUBSET Numbered /\ <<>> \in Seq(Numbered)
    BY <1>2, <1>3
  <2>2. received' \in [Sockets -> SUBSET Numbered]
    BY <1>1, <1>2, <2>1
  <2>3. replays' \in [Sockets -> Seq(Numbered)]
    BY <1>1, <1>2, <1>3, <2>1
  <2> QED
    BY <2>2, <2>3
<1>7. BridgeTypes'
  BY <1>1, <1>5, <1>6 DEF BridgeInv, BridgeTypes, BridgeTypeOK
<1>8. \A l \in Sockets :
        /\ received'[l] \cup Listing(replays'[l]) \subseteq received[l] \cup Listing(replays[l])
        /\ clients[l] = "there" =>
             received'[l] \cup Listing(replays'[l]) = received[l] \cup Listing(replays[l])
  <2> TAKE l \in Sockets
  <2>1. CASE l # k
    BY <1>1, <1>2, <2>1
  <2>2. CASE l = k /\ clients[k] = "there"
    <3>1. received'[l] = received[k] \cup {first} /\ replays'[l] = others
      BY <1>1, <1>2, <2>2
    <3> QED
      BY <1>3, <2>2, <3>1
  <2>3. CASE l = k /\ clients[k] # "there"
    <3>1. received'[l] = received[k] /\ replays'[l] = <<>>
      BY <1>1, <1>2, <2>3
    <3> QED
      BY <1>4, <2>3, <3>1
  <2> QED
    BY <2>1, <2>2, <2>3
<1>9. OneEventPerNumber' /\ MayBeSeen' /\ Contiguous'
  BY <1>1, <1>8, KeepsMessages
<1>10. MayBeForwarded'
  BY <1>1 DEF BridgeInv, MayBeForwarded
<1>11. OwedComes'
  <2> SUFFICES ASSUME NEW l \in Sockets, clients[l] = "there"
               PROVE  owed[l] \subseteq {m[2] : m \in received'[l] \cup Listing(replays'[l])}
                                        \cup InFlight(l)
    BY <1>1 DEF OwedComes, Listing, InFlight
  <2> QED
    BY <1>8 DEF BridgeInv, OwedComes
<1>12. SocketsStand'
  BY <1>1, <1>2 DEF BridgeInv, SocketsStand
<1> QED
  BY <1>7, <1>9, <1>10, <1>11, <1>12 DEF BridgeInv

LEMMA ReconnectKeeps ==
    ASSUME BridgeInv, NEW k \in Sockets, ReconnectMessage(k)
    PROVE  BridgeInv'
<1> DEFINE again == Missed(k)
<1>1. /\ UNCHANGED <<tokens, queues, sent, forwarding, connections, sequences, buffers>>
      /\ UNCHANGED <<clients, received, owed>>
      /\ sockets' = [sockets EXCEPT ![k] = "replaying"]
      /\ replays' = [replays EXCEPT ![k] = again]
      /\ sockets[k] = "serving"
  BY DEF ReconnectMessage, managerVars
<1>2. /\ sockets \in [Sockets -> {"new", "replaying", "serving", "closed"}]
      /\ replays \in [Sockets -> Seq(Numbered)] /\ buffers \in [WsUsers -> Seq(Numbered)]
      /\ UserOf(k) \in WsUsers
  BY UsersOfSockets DEF BridgeInv, BridgeTypes, BridgeTypeOK
<1>3. again \in Seq(Numbered) /\ Listing(again) \subseteq Listing(buffers[UserOf(k)])
  <2> DEFINE buffer == buffers[UserOf(k)]
             later == {n \in 1..Len(buffer) : buffer[n][1] > Highest(k)}
  <2>1. buffer \in Seq(Numbered) /\ again = LastOf(buffer, Cardinality(later))
    BY <1>2 DEF Missed, UserOf
  <2>2. Cardinality(later) \in Nat
    <3>1. IsFiniteSet(1..Len(buffer))
      BY <2>1, FS_Interval
    <3> QED
      BY <3>1, FS_Subset, FS_CardinalityType
  <2> HIDE DEF later, again
  <2> QED
    BY <2>1, <2>2, LastOfIs
<1> HIDE DEF again
<1>4. replays[k] = <<>> /\ Listing(<<>>) = {}
  BY <1>1 DEF BridgeInv, SocketsStand, Listing
<1>5. /\ sockets' \in [Sockets -> {"new", "replaying", "serving", "closed"}]
      /\ replays' \in [Sockets -> Seq(Numbered)]
  BY <1>1, <1>2, <1>3
<1>6. BridgeTypes'
  BY <1>1, <1>5 DEF BridgeInv, BridgeTypes, BridgeTypeOK
<1>7. \A l \in Sockets : replays'[l] = IF l = k THEN again ELSE replays[l]
  BY <1>1, <1>2
<1>8. OneEventPerNumber' /\ MayBeSeen' /\ Contiguous'
  BY <1>1, <1>3, <1>7, KeepsMessages
<1>9. MayBeForwarded'
  BY <1>1 DEF BridgeInv, MayBeForwarded
<1>10. OwedComes'
  <2> SUFFICES ASSUME NEW l \in Sockets, clients[l] = "there"
               PROVE  owed[l] \subseteq {m[2] : m \in received[l] \cup Listing(replays'[l])}
                                        \cup InFlight(l)
    BY <1>1 DEF OwedComes, Listing, InFlight
  <2>1. Listing(replays[l]) \subseteq Listing(replays'[l])
    BY <1>4, <1>7
  <2> QED
    BY <2>1 DEF BridgeInv, OwedComes
<1>11. SocketsStand'
  BY <1>1, <1>2 DEF BridgeInv, SocketsStand
<1> QED
  BY <1>6, <1>8, <1>9, <1>10, <1>11 DEF BridgeInv

(* The steps that move no message.                                         *)
LEMMA QuietKeeps ==
    ASSUME BridgeInv, NEW k \in Sockets,
           Replayed(k) \/ ClientLeaves(k) \/ HeartbeatFails(k) \/ EndpointEnds(k)
    PROVE  BridgeInv'
<1>1. /\ UNCHANGED <<tokens, queues, sent, forwarding, sequences, buffers, replays>>
      /\ connections' = connections \/ Disconnected(tokens[k].session)
      /\ \/ UNCHANGED <<clients, received, owed>>
         \/ /\ clients[k] = "there" /\ clients' = [clients EXCEPT ![k] = "gone"]
            /\ received' = [received EXCEPT ![k] = {}] /\ owed' = [owed EXCEPT ![k] = {}]
      /\ \/ sockets' = sockets
         \/ sockets' = [sockets EXCEPT ![k] = "serving"] /\ replays[k] = <<>>
         \/ sockets' = [sockets EXCEPT ![k] = "closed"] /\ clients[k] = "gone" /\ clients' = clients
  BY DEF Replayed, ClientLeaves, HeartbeatFails, EndpointEnds, managerVars, socketVars
<1>2. /\ connections \in [Sessions -> Sockets \cup {"none"}]
      /\ sockets \in [Sockets -> {"new", "replaying", "serving", "closed"}]
      /\ clients \in [Sockets -> {"absent", "there", "gone"}]
      /\ received \in [Sockets -> SUBSET Numbered] /\ owed \in [Sockets -> SUBSET Events]
  BY DEF BridgeInv, BridgeTypes, BridgeTypeOK
<1>3. /\ connections' \in [Sessions -> Sockets \cup {"none"}]
      /\ sockets' \in [Sockets -> {"new", "replaying", "serving", "closed"}]
  BY <1>1, <1>2, DisconnectedTyped
<1>4. /\ clients' \in [Sockets -> {"absent", "there", "gone"}]
      /\ received' \in [Sockets -> SUBSET Numbered] /\ owed' \in [Sockets -> SUBSET Events]
  BY <1>1, <1>2
<1>5. BridgeTypes'
  BY <1>1, <1>3, <1>4 DEF BridgeInv, BridgeTypes, BridgeTypeOK
<1>6. \A l \in Sockets : /\ received'[l] \subseteq received[l]
                         /\ clients'[l] = "there" => /\ clients[l] = "there"
                                                     /\ received'[l] = received[l]
                                                     /\ owed'[l] = owed[l]
  BY <1>1, <1>2
<1>7. OneEventPerNumber' /\ MayBeSeen' /\ Contiguous'
  BY <1>1, <1>6, KeepsMessages
<1>8. MayBeForwarded'
  BY <1>1 DEF BridgeInv, MayBeForwarded
<1>9. OwedComes'
  <2> SUFFICES ASSUME NEW l \in Sockets, clients'[l] = "there"
               PROVE  owed'[l] \subseteq {m[2] : m \in received'[l] \cup Listing(replays[l])}
                                         \cup InFlight(l)
    BY <1>1 DEF OwedComes, Listing, InFlight
  <2> QED
    BY <1>6 DEF BridgeInv, OwedComes
<1>10. SocketsStand'
  BY <1>1, <1>2 DEF BridgeInv, SocketsStand
<1> QED
  BY <1>5, <1>7, <1>8, <1>9, <1>10 DEF BridgeInv

LEMMA BridgeInvNext == BridgeInv /\ [BridgeNext]_bridgeVars => BridgeInv'
<1> SUFFICES ASSUME BridgeInv, [BridgeNext]_bridgeVars
             PROVE  BridgeInv'
  OBVIOUS
<1>1. CASE UNCHANGED bridgeVars
  <2>1. /\ UNCHANGED <<tokens, queues, forwarding, connections, sequences, buffers>>
        /\ UNCHANGED <<sockets, replays, clients, received, owed>>
    BY <1>1 DEF bridgeVars
  <2>2. BridgeTypes'
    BY <2>1 DEF BridgeInv, BridgeTypes, BridgeTypeOK
  <2>3. OneEventPerNumber' /\ MayBeSeen' /\ Contiguous'
    BY <2>1, KeepsMessages
  <2>4. MayBeForwarded' /\ OwedComes' /\ SocketsStand'
    BY <2>1 DEF BridgeInv, MayBeForwarded, OwedComes, SocketsStand, InFlight, Listing
  <2> QED
    BY <2>2, <2>3, <2>4 DEF BridgeInv
<1> QED
  BY <1>1, PublishKeeps, TakeKeeps, ForwardKeeps, ConnectKeeps, ReplayKeeps, ReconnectKeeps,
     QuietKeeps DEF BridgeNext

LEMMA BridgeInvHolds == BridgeSpec => []BridgeInv
  BY BridgeInvInit, BridgeInvNext, PTL DEF BridgeSpec

(* The types of the web sockets: a session has one connection or none, and *)
(* no user's buffer exceeds its size.                                      *)
THEOREM BridgeTypeCorrect == BridgeSpec => []BridgeTypeOK
<1>1. BridgeInv => BridgeTypeOK
  BY DEF BridgeInv, BridgeTypes
<1> QED
  BY <1>1, BridgeInvHolds, PTL

(* For any number of sockets, users and events, and any sizes of buffer    *)
(* and replay: a client gets nothing that its role may not see, has all    *)
(* that it is owed once it has caught up, and a sequence number of a user  *)
(* names one event on all his sockets.                                     *)
THEOREM SocketsAlwaysCatchUp == BridgeSpec => []SocketsCatchUp
<1>1. BridgeInv => RoleFiltered
  <2> SUFFICES ASSUME BridgeInv, NEW k \in Sockets, NEW m \in received[k]
               PROVE  ShouldDeliver(TypeOf[m[2]], tokens[k].role)
    BY DEF RoleFiltered, ShouldDeliver
  <2>1. m \in MessagesOf(UserOf(k))
    BY DEF BridgeInv, BridgeTypes, MessagesOf
  <2> QED
    BY <2>1 DEF BridgeInv, MayBeSeen
<1>2. BridgeInv => CaughtUp
  <2> SUFFICES ASSUME BridgeInv, NEW k \in Sockets, clients[k] = "there", sockets[k] = "serving"
               PROVE  owed[k] \subseteq {m[2] : m \in received[k]} \cup InFlight(k)
    BY DEF CaughtUp
  <2>1. replays[k] = <<>> /\ Listing(<<>>) = {}
    BY DEF BridgeInv, SocketsStand, Listing
  <2>2. owed[k] \subseteq {m[2] : m \in received[k] \cup Listing(replays[k])} \cup InFlight(k)
    BY DEF BridgeInv, OwedComes
  <2>3. received[k] \cup Listing(replays[k]) = received[k]
    BY <2>1
  <2> QED
    BY <2>2, <2>3
<1>3. BridgeInv => SequencesTell
  <2> SUFFICES ASSUME BridgeInv, NEW u \in WsUsers
               PROVE  \A k, l \in {x \in Sockets : tokens[x].user = u} :
                         \A m \in received[k], n \in received[l] : m[1] = n[1] => m[2] = n[2]
    BY DEF SequencesTell, BridgeInv, Contiguous
  <2>1. \A k \in {x \in Sockets : tokens[x].user = u} : received[k] \subseteq MessagesOf(u)
    BY DEF BridgeInv, BridgeTypes, MessagesOf, UserOf
  <2> QED
    BY <2>1 DEF BridgeInv, OneEventPerNumber
<1>4. BridgeInv => SocketsCatchUp
  BY <1>1, <1>2, <1>3 DEF SocketsCatchUp
<1> QED
  BY <1>4, BridgeInvHolds, PTL

-----------------------------------------------------------------------------
(* The five together: each step is one of one of them, and leaves the      *)
(* state of the others alone.                                              *)

LEMMA EachPartStarts ==
    Init => HealthInit /\ StartupInit /\ RecoveryInit /\ BusInit /\ BridgeInit /\ MetricsInit
BY DEF Init

LEMMA EachPartSteps ==
    [Next]_vars => /\ [StartupNext]_<<healthVars, startupVars>> /\ [HealthNext]_healthVars
                   /\ [RecoveryNext]_recoveryVars /\ [BusNext]_busVars
                   /\ [BridgeNext]_bridgeVars /\ [MetricsNext]_metricVars
<1> SUFFICES ASSUME [Next]_vars
             PROVE  /\ [StartupNext]_<<healthVars, startupVars>>
                    /\ [RecoveryNext]_recoveryVars /\ [BusNext]_busVars
                    /\ [BridgeNext]_bridgeVars /\ [MetricsNext]_metricVars
  BY DEF StartupNext
<1> QED
  BY DEF Next, vars, liveVars

(* The state of every part keeps its type, whatever the sizes.             *)
THEOREM OperationsTypesCorrect == Spec => []TypesOK
<1>1. Spec => HealthSpec /\ StartupSpec /\ RecoverySpec /\ BusSpec /\ BridgeSpec /\ MetricsSpec
  BY EachPartStarts, EachPartSteps, PTL
     DEF Spec, HealthSpec, StartupSpec, RecoverySpec, BusSpec, BridgeSpec, MetricsSpec
<1>2. HealthTypeOK /\ StartupTypeOK /\ RecoveryTypeOK /\ BusTypeOK /\ BridgeTypeOK
        /\ MetricsTypeOK => TypesOK
  BY DEF TypesOK
<1> QED
  BY <1>1, <1>2, HealthTypeCorrect, StartupTypeCorrect, RecoveryTypeCorrect, BusTypeCorrect,
     BridgeTypeCorrect, MetricsTypeCorrect, PTL
=============================================================================
