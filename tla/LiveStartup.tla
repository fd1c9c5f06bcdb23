----------------------------- MODULE LiveStartup -----------------------------
(***************************************************************************)
(* The live orchestrator (hqmts/live/orchestrator.py): startup() with its  *)
(* fourteen steps and its rollback, and shutdown(), called by tasks that   *)
(* may overlap, next to the health monitor that step 5 reads.  Only the    *)
(* calls of the broker adapter wait; everything between two waits is one   *)
(* action.  Steps without a handler pass, and so do the steps of a         *)
(* dependency that the orchestrator was built without.                     *)
(***************************************************************************)
EXTENDS QmtHealth, Sequences

CONSTANTS
    Callers,        \* tasks that call startup() and shutdown()
    MaxConnects,    \* max_retries of step 4
    MaxCalls        \* bound: calls made in all

ASSUME StartupAssumption == {MaxConnects, MaxCalls} \subseteq Nat \ {0}

(* _STEP_DEFINITIONS, as far as the steps differ: before step 4, the       *)
(* connection, the health check, the rest, and the last one.               *)
Steps == <<"prepare", "connect_qmt", "verify_qmt_health", "assemble", "mark_live_ready">>
StartupSteps == {Steps[n] : n \in 1..Len(Steps)}

VARIABLES
    given,      \* the dependencies __init__() got: a broker adapter, a health monitor
    calls,      \* calls[c]: where the call of c stands
    readiness,  \* the SystemReadiness that self._readiness is at the moment
    cached,     \* _cached_result holds a success
    connected,  \* the broker's side: the adapter is connected
    made,       \* how many calls were made
    undone      \* history: a rollback has disconnected a system that was ready

startupVars == <<given, calls, readiness, cached, connected, made, undone>>

Idle == [at |-> "idle"]

CallState ==
    {Idle} \cup [at: {"connecting"}, attempt: 1..MaxConnects]
           \cup [at: {"rolling_back", "shutting_down"}]

Readiness == [is_ready: BOOLEAN, completed: SUBSET StartupSteps, failed: StartupSteps \cup {"none"}]

Fresh == [is_ready |-> FALSE, completed |-> {}, failed |-> "none"]

StartupInit ==
    /\ given \in [broker: BOOLEAN, monitor: BOOLEAN]
    /\ calls = [c \in Callers |-> Idle]
    /\ readiness = Fresh
    /\ cached = FALSE
    /\ connected = FALSE
    /\ made = 0
    /\ undone = FALSE

Waits(c, state) == calls' = [calls EXCEPT ![c] = state]
Returns(c) == Waits(c, Idle)

Calls(c) ==
    /\ calls[c] = Idle
    /\ made < MaxCalls
    /\ made' = made + 1

(* startup() when it was successful already. *)
StartupCached(c) ==
    /\ Calls(c)
    /\ cached
    /\ UNCHANGED <<calls, readiness, cached, connected, undone>>

(* startup() up to the first connect(): a new SystemReadiness replaces the *)
(* old one.                                                                *)
Startup(c) ==
    /\ Calls(c)
    /\ ~cached /\ given.broker
    /\ readiness' = [Fresh EXCEPT !.completed = {"prepare"}]
    /\ Waits(c, [at |-> "connecting", attempt |-> 1])
    /\ UNCHANGED <<cached, connected, undone>>

(* Step 5; without a monitor there is nothing to verify. *)
HealthyForLive == given.monitor => health.degradation_mode = "normal"

(* startup() without a broker adapter: step 4 is completed as skipped, and *)
(* nothing waits, not even the rollback of a degraded system.              *)
StartupSkipping(c) ==
    /\ Calls(c)
    /\ ~cached /\ ~given.broker
    /\ IF HealthyForLive
       THEN /\ readiness' = [is_ready |-> TRUE, completed |-> StartupSteps, failed |-> "none"]
            /\ cached' = TRUE
       ELSE /\ readiness' = [is_ready |-> FALSE, completed |-> {"prepare", "connect_qmt"},
                             failed |-> "verify_qmt_health"]
            /\ UNCHANGED cached
    /\ UNCHANGED <<calls, connected, undone>>

(* connect() answers False or raises; the third time startup() gives up.   *)
(* The steps before have nothing to tear down.                             *)
ConnectFails(c) ==
    /\ calls[c].at = "connecting"
    /\ IF calls[c].attempt < MaxConnects
       THEN /\ Waits(c, [calls[c] EXCEPT !.attempt = @ + 1])
            /\ UNCHANGED readiness
       ELSE /\ Returns(c)
            /\ readiness' = [readiness EXCEPT !.failed = "connect_qmt"]
    /\ UNCHANGED <<cached, connected, made, undone>>

(* connect() succeeds and the broker is healthy: the remaining steps run   *)
(* without waiting, and the result is cached.                              *)
ConnectSucceeds(c) ==
    /\ calls[c].at = "connecting"
    /\ HealthyForLive
    /\ connected' = TRUE
    /\ readiness' = [readiness EXCEPT !.is_ready = TRUE, !.completed = @ \cup (StartupSteps \ {"prepare"})]
    /\ cached' = TRUE
    /\ undone' = FALSE
    /\ Returns(c)
    /\ UNCHANGED made

(* It succeeds, and step 5 finds the broker degraded: _rollback() tears    *)
(* down what this call completed, the connection.                          *)
ConnectUnhealthy(c) ==
    /\ calls[c].at = "connecting"
    /\ ~HealthyForLive
    /\ connected' = TRUE
    /\ readiness' = [readiness EXCEPT !.completed = @ \cup {"connect_qmt"}]
    /\ Waits(c, [at |-> "rolling_back"])
    /\ UNCHANGED <<cached, made, undone>>

(* The disconnect() that a rollback or a shutdown waits for takes effect,  *)
(* or it never does and raises.                                            *)
Disconnects(c) ==
    /\ calls[c].at \in {"rolling_back", "shutting_down"}
    /\ connected' = FALSE
    /\ undone' = (undone \/ (calls[c].at = "rolling_back" /\ readiness.is_ready))
    /\ UNCHANGED <<calls, readiness, cached, made>>

(* disconnect() returns or raises, which is logged, and the failure is     *)
(* noted in whatever self._readiness is by now.                            *)
RolledBack(c) ==
    /\ calls[c].at = "rolling_back"
    /\ readiness' = [readiness EXCEPT !.failed = "verify_qmt_health"]
    /\ Returns(c)
    /\ UNCHANGED <<connected, cached, made, undone>>

(* Mutant: the connection is lost while the success stays cached. *)
StoppedCached == readiness' = Fresh /\ undone' = FALSE /\ UNCHANGED cached

Stopped ==
    /\ readiness' = [readiness EXCEPT !.is_ready = FALSE, !.completed = {}]
    /\ cached' = FALSE
    /\ undone' = FALSE

(* shutdown(): with a connection among the completed steps it waits for    *)
(* disconnect(), else, or without an adapter, it is done at once.          *)
Shutdown(c) ==
    /\ Calls(c)
    /\ IF given.broker /\ "connect_qmt" \in readiness.completed
       THEN Waits(c, [at |-> "shutting_down"]) /\ UNCHANGED <<readiness, cached, undone>>
       ELSE Stopped /\ UNCHANGED calls
    /\ UNCHANGED connected

(* disconnect() returns or raises. *)
ShutDown(c) ==
    /\ calls[c].at = "shutting_down"
    /\ Stopped
    /\ Returns(c)
    /\ UNCHANGED <<connected, made>>

StartupStep ==
    \E c \in Callers :
        \/ StartupCached(c) \/ Startup(c) \/ StartupSkipping(c)
        \/ ConnectFails(c) \/ ConnectSucceeds(c) \/ ConnectUnhealthy(c)
        \/ Disconnects(c) \/ RolledBack(c)
        \/ Shutdown(c) \/ ShutDown(c)

StartupNext ==
    \/ StartupStep /\ UNCHANGED <<given, healthVars>>
    \/ HealthNext /\ UNCHANGED startupVars

StartupSpec == HealthInit /\ StartupInit /\ [][StartupNext]_<<healthVars, startupVars>>

-----------------------------------------------------------------------------

StartupTypeOK ==
    /\ given \in [broker: BOOLEAN, monitor: BOOLEAN]
    /\ calls \in [Callers -> CallState]
    /\ readiness \in Readiness
    /\ cached \in BOOLEAN /\ connected \in BOOLEAN /\ undone \in BOOLEAN
    /\ made \in 0..MaxCalls

(* orchestrator.py: "Idempotent: returns cached result if already started  *)
(* successfully".  What the cache answers is what the system is: however   *)
(* the calls interleave, a cached success and readiness come and go        *)
(* together, with a connection that shutdown() will tear down.             *)
CacheTellsReadiness ==
    /\ cached <=> readiness.is_ready
    /\ cached => "connect_qmt" \in readiness.completed

(* A system that has a broker adapter and is ready is connected, whatever  *)
(* failed on the way and whatever calls overlap, with two exceptions and   *)
(* no third: the disconnect() of a shutdown that has not returned yet, and *)
(* the rollback of one startup that hits the success of another.  (Without *)
(* an adapter a ready system has no connection at all.)                    *)
ReadyIsConnected ==
    given.broker /\ readiness.is_ready =>
        connected \/ undone \/ \E c \in Callers : calls[c].at = "shutting_down"

(* The system becomes ready only at a moment its broker is healthy, if it  *)
(* has a health monitor to tell, and connected, if it has an adapter.      *)
ReadyWhenHealthy ==
    [][readiness'.is_ready /\ ~readiness.is_ready =>
          /\ given.monitor => ~Down("report") /\ ~Down("query")
          /\ given.broker => connected']_<<readiness, connected, unanswered, given>>

(* Readiness is real: what the cache answers is what the system is, and a  *)
(* system that is ready and has a broker is connected, but as said.        *)
ReadinessIsReal == CacheTellsReadiness /\ ReadyIsConnected
=============================================================================
