---------------------------- MODULE AgentGateway ----------------------------
(***************************************************************************)
(* The gateway that every tool call of an agent goes through               *)
(* (hqmts/agent/gateway.py with policy.py and the tool registry of         *)
(* types.py).  invoke() has no await, so a call is one step; what several  *)
(* calls share is the table of call times behind the rate limit, which is  *)
(* pruned, and evicted when it holds too many agent tasks.                 *)
(*                                                                         *)
(* The gateway gives the policy engine neither a target nor a proposal     *)
(* type, so its checks 3 and 6 never apply here.                           *)
(*                                                                         *)
(* The list of call times of an agent task is in the order of the calls,   *)
(* which is the order of time; all that the code asks of it is how many    *)
(* are young enough.  It is kept as a set of calls.                        *)
(***************************************************************************)
EXTENDS Integers, FiniteSets

CONSTANTS
    AgentTasks,   \* agent_task_id of the callers
    RateLimit,        \* rate_limit_per_minute
    RateWindow,       \* 60 seconds, in clock ticks
    EvictAfter,   \* 120 seconds
    MaxKeys,      \* 1000 agent tasks
    MaxClock      \* bound: the clock stops here

ASSUME GatewayAssumption ==
    /\ {RateLimit, MaxKeys, MaxClock} \subseteq Nat
    /\ RateWindow \in Nat \ {0}
    /\ EvictAfter \in Nat /\ EvictAfter >= RateWindow

VARIABLES
    stamps,      \* _call_timestamps: the calls <<time, number>> of the agent tasks it has
    now,         \* time.monotonic()
    halted,      \* PolicyEngine._global_kill_switch
    liveAllowed, \* PolicyEngine._live_trading_allowed
    reply,       \* the call that has just returned: status, reason, and the request of one not refused
    counted      \* history: the calls let through in the last RateWindow

gatewayVars == <<stamps, now, halted, liveAllowed, reply, counted>>

(* One tool of the registry for each combination of category, approval and *)
(* idempotency that it has, and of the environments that matter.           *)
Tool(category, envs, approval, idempotent) ==
    [category |-> category, envs |-> envs, approval |-> approval, idempotent |-> idempotent]

ALL_TOOLS ==
    [query_order_status |-> Tool("read_only", {"paper", "live"}, FALSE, FALSE),
     query_factor_values |-> Tool("read_only", {"paper"}, FALSE, FALSE),
     start_reconciliation |-> Tool("task_trigger", {"paper", "live"}, FALSE, TRUE),
     generate_report |-> Tool("task_trigger", {"paper", "live"}, FALSE, FALSE),
     propose_correction |-> Tool("controlled_operation", {"paper", "live"}, TRUE, FALSE),
     propose_strategy_promotion |-> Tool("controlled_operation", {"paper"}, TRUE, FALSE),
     propose_live_release |-> Tool("controlled_operation", {"live"}, TRUE, TRUE)]

FORBIDDEN_TOOLS == {"qmt_submit_order"}

ToolNames == DOMAIN ALL_TOOLS \cup FORBIDDEN_TOOLS \cup {"no_such_tool"}

(* A ToolCallRequest; role_allowed tells whether the agent's role is one   *)
(* of the tool's.                                                          *)
CallRequest ==
    [task: AgentTasks, tool: ToolNames, env: {"paper", "live"}, role_allowed: BOOLEAN,
     binding: BOOLEAN, trading_time: BOOLEAN, unresolved: BOOLEAN, key: BOOLEAN]

CallStatuses == {"success", "failed", "denied", "pending_approval"}
Reasons == {"forbidden", "unknown", "policy", "rate_limit", "no_key", "approval", "none"}

NoReply == [status |-> "idle"]
Reply == [status: {"denied", "failed"}, reason: {"forbidden", "unknown", "policy"}]
         \cup [request: CallRequest, status: CallStatuses, reason: Reasons]

-----------------------------------------------------------------------------

Flag(condition, name) == IF condition THEN {name} ELSE {}

(* PolicyEngine.evaluate(): the violations of a call of a registered tool. *)
Violations(r) ==
    LET tool == ALL_TOOLS[r.tool]
        live == r.env = "live"
        controlled == tool.category = "controlled_operation"
    IN  UNION {
          Flag(r.env \notin tool.envs, "env_not_allowed"),
          Flag(~r.role_allowed, "role_not_allowed"),
          Flag(live /\ halted /\ tool.category # "read_only", "kill_switch_active"),
          Flag(live /\ ~liveAllowed /\ tool.approval, "live_trading_not_allowed"),
          Flag(live /\ controlled /\ ~r.binding, "version_binding_required_for_live"),
          Flag(r.unresolved /\ tool.category # "read_only", "unresolved_exceptions"),
          Flag(live /\ controlled /\ ~r.trading_time, "non_trading_time_blocked")}

ReviewRequired(r) == ALL_TOOLS[r.tool].approval /\ r.env = "live"

-----------------------------------------------------------------------------

Full == Cardinality(DOMAIN stamps) > MaxKeys

(* Mutant: a full table is emptied. *)
EvictedAll == IF Full THEN [t \in {} |-> {}] ELSE stamps

(* _check_rate_limit(): a table with too many agent tasks loses those that *)
(* have not called for EvictAfter; the last call is the youngest.          *)
Evicted ==
    LET stale == {t \in DOMAIN stamps : \A call \in stamps[t] : now - call[1] > EvictAfter}
    IN  IF Full THEN [t \in DOMAIN stamps \ stale |-> stamps[t]] ELSE stamps

(* The calls that still count, and those of them of a task. *)
Young(calls) == {call \in calls : now - call[1] < RateWindow}

Recent(table, t) == IF t \in DOMAIN table THEN Young(table[t]) ELSE {}

WithinRate(t) == Cardinality(Recent(Evicted, t)) < RateLimit

(* This call of t: the number tells it from others at the same time. *)
ThisCall(t) == <<now, Cardinality(counted[t])>>

(* A refused call leaves the table evicted, but not pruned. *)
Stamped(t) ==
    IF ~WithinRate(t) THEN Evicted
    ELSE [u \in DOMAIN Evicted \cup {t} |->
            IF u = t THEN Recent(Evicted, t) \cup {ThisCall(t)} ELSE Evicted[u]]

-----------------------------------------------------------------------------

GatewayInit ==
    /\ stamps = [t \in {} |-> {}]
    /\ now = 0
    /\ halted = FALSE
    /\ liveAllowed = TRUE
    /\ reply = NoReply
    /\ counted = [t \in AgentTasks |-> {}]

Answers(r, status, reason) ==
    reply' = [request |-> r, status |-> status, reason |-> reason]

(* The caller takes its result; nothing happens while invoke() runs. *)
TakeReply ==
    /\ reply # NoReply
    /\ reply' = NoReply
    /\ UNCHANGED <<stamps, now, halted, liveAllowed, counted>>

Refuses(status, reason) == reply' = [status |-> status, reason |-> reason]

(* Steps 1 to 3 of invoke() refuse the call before it is counted. *)
InvokeRefused(r) ==
    /\ reply = NoReply
    /\ \/ r.tool \in FORBIDDEN_TOOLS /\ Refuses("denied", "forbidden")
       \/ r.tool = "no_such_tool" /\ Refuses("failed", "unknown")
       \/ /\ r.tool \in DOMAIN ALL_TOOLS
          /\ Violations(r) # {}
          /\ Refuses("denied", "policy")
    /\ UNCHANGED <<stamps, now, halted, liveAllowed, counted>>

(* Steps 4 to 7.  The call is counted even if it then lacks its key. *)
InvokeCounted(r) ==
    /\ reply = NoReply
    /\ r.tool \in DOMAIN ALL_TOOLS
    /\ Violations(r) = {}
    /\ stamps' = Stamped(r.task)
    /\ counted' = IF WithinRate(r.task)
                  THEN [counted EXCEPT ![r.task] = @ \cup {ThisCall(r.task)}]
                  ELSE counted
    /\ IF ~WithinRate(r.task) THEN Answers(r, "denied", "rate_limit")
       ELSE IF ALL_TOOLS[r.tool].idempotent /\ ~r.key THEN Answers(r, "failed", "no_key")
       ELSE IF ReviewRequired(r) THEN Answers(r, "pending_approval", "approval")
       ELSE Answers(r, "success", "none")
    /\ UNCHANGED <<now, halted, liveAllowed>>

(* set_kill_switch() *)
HaltTrading ==
    /\ reply = NoReply
    /\ halted' = ~halted
    /\ UNCHANGED <<stamps, now, liveAllowed, reply, counted>>

SetLiveTradingAllowed ==
    /\ reply = NoReply
    /\ liveAllowed' = ~liveAllowed
    /\ UNCHANGED <<stamps, now, halted, reply, counted>>

(* Time passes. *)
TimePasses ==
    /\ now < MaxClock
    /\ reply = NoReply
    /\ now' = now + 1
    /\ counted' = [t \in AgentTasks |-> {call \in counted[t] : now' - call[1] < RateWindow}]
    /\ UNCHANGED <<stamps, halted, liveAllowed, reply>>

GatewayNext ==
    \/ \E r \in CallRequest : InvokeRefused(r) \/ InvokeCounted(r)
    \/ TakeReply
    \/ HaltTrading
    \/ SetLiveTradingAllowed
    \/ TimePasses

GatewaySpec == GatewayInit /\ [][GatewayNext]_gatewayVars

-----------------------------------------------------------------------------

GatewayTypeOK ==
    /\ DOMAIN stamps \subseteq AgentTasks
    /\ \A t \in DOMAIN stamps : Cardinality(stamps[t]) \in 1..RateLimit
    /\ now \in 0..MaxClock
    /\ {halted, liveAllowed} \subseteq BOOLEAN
    /\ reply = NoReply \/ reply \in Reply

(* However tasks come and go, the table fills up and is evicted, no agent  *)
(* task gets more than RateLimit calls through within any RateWindow.              *)
RateLimited == \A t \in AgentTasks : Cardinality(counted[t]) <= RateLimit

(* And it is told to wait only when it really has used up its RateWindow: the  *)
(* times left unpruned by refused calls are not held against it.           *)
ThrottledForCause ==
    (reply # NoReply /\ reply.reason = "rate_limit") =>
       Cardinality(counted[reply.request.task]) = RateLimit

(* What a call may do in Live, by the checks of the policy and what comes  *)
(* after them together: nothing but reading with the kill switch on,       *)
(* nothing that needs approval without it, and nothing that changes state  *)
(* while exceptions are unresolved or by a role that the tool is not for.  *)
LivePermitted ==
    (reply # NoReply /\ reply.status \in {"success", "pending_approval"}
       /\ reply.request.env = "live") =>
       LET r == reply.request
           tool == ALL_TOOLS[r.tool]
       IN  /\ r.tool \in DOMAIN ALL_TOOLS /\ r.role_allowed
           /\ tool.category # "read_only" => ~halted /\ ~r.unresolved
           /\ tool.approval => /\ reply.status = "pending_approval" /\ liveAllowed
                               /\ r.binding /\ r.trading_time
           /\ tool.idempotent => r.key

(* The gateway as a whole: the rate limit holds, throttles nobody without  *)
(* cause, and nothing happens in Live that the policy forbids, whatever    *)
(* the order of calls, switches and evictions.                             *)
GatewayHolds == RateLimited /\ ThrottledForCause /\ LivePermitted
=============================================================================
