----------------------------- MODULE FinalCheck -----------------------------
(***************************************************************************)
(* The 12-point Final Pre-Submit Check (hqmts/risk/final_check.py), as a   *)
(* function of the FinalCheckContext.  Comparisons of times, prices and    *)
(* counters that the check only looks at once are kept as the Boolean they *)
(* produce; "missing" stands for a field left at None.                     *)
(***************************************************************************)
EXTENDS Integers

CONSTANT MaxQuantity   \* bound: quantities of the context

ASSUME QuantityAssumption == MaxQuantity \in Nat

Quantities == 0..MaxQuantity

(* The fields of FinalCheckContext and their values. *)
FieldType ==
    [strategy_status |-> {"missing", "live_running", "close_only", "pause_open", "stopped"},
     signal_expired |-> BOOLEAN,
     qmt_adapter_available |-> {"missing", "yes", "no"},
     account_risk_status |-> {"missing", "normal", "warning", "frozen"},
     available_quantity |-> Quantities,
     today_bought_quantity |-> Quantities,
     quantity |-> Quantities,
     side |-> {"buy", "sell"},
     reservation_status |-> {"missing", "active", "released"},
     reservation_expired |-> BOOLEAN,
     has_conflicting_inflight |-> {"missing", "yes", "no"},
     kill_switch_active |-> {"missing", "yes", "no"},
     close_only_mode |-> BOOLEAN,
     pause_open_mode |-> BOOLEAN,
     frequency_ok |-> BOOLEAN,
     price_positive |-> BOOLEAN,
     price_stale |-> BOOLEAN,
     source_is_deterministic |-> BOOLEAN,
     request_from_execution_service |-> BOOLEAN,
     is_flatten |-> BOOLEAN]

Fields == DOMAIN FieldType

Fail(condition, name) == IF condition THEN {name} ELSE {}

(* 1. StrategyInstance status: running, or winding down while selling. *)
StrategyAllows(ctx) ==
    \/ ctx.strategy_status = "live_running"
    \/ ctx.strategy_status \in {"close_only", "pause_open"}
       /\ (ctx.is_flatten \/ ctx.side = "sell")

(* 5. Position sufficiency of a sell: shares bought today do not count. *)
Sellable(ctx) == ctx.available_quantity - ctx.today_bought_quantity

PositionSuffices(ctx) ==
    \/ ctx.side = "buy"
    \/ /\ Sellable(ctx) >= 0
       /\ ~(Sellable(ctx) = 0 /\ ctx.today_bought_quantity > 0)
       /\ Sellable(ctx) >= ctx.quantity

(* 6. Reservation: no reservation at all counts as "not applicable". *)
ReservationFails(ctx) ==
    \/ ctx.reservation_status = "active" /\ ctx.reservation_expired
    \/ ctx.reservation_status = "released"

(* 8. Kill switch, then the account's close-only mode.  pause_open_mode is *)
(* a field of the context that the check does not read.                    *)
KillSwitchBlocks(ctx) == ctx.kill_switch_active = "yes" /\ ~ctx.is_flatten

CloseOnlyBlocks(ctx) ==
    /\ ctx.kill_switch_active = "no"
    /\ ctx.close_only_mode
    /\ ~ctx.is_flatten
    /\ ctx.side = "buy"

(* The names of the checks that failed. *)
FailedChecks(ctx) == UNION {
    Fail(~StrategyAllows(ctx), "strategy_status"),
    Fail(ctx.signal_expired, "signal_expired"),
    Fail(ctx.qmt_adapter_available = "missing", "qmt_status_not_provided"),
    Fail(ctx.qmt_adapter_available = "no", "qmt_unavailable"),
    Fail(ctx.account_risk_status \notin {"normal", "warning"}, "account"),
    Fail(~PositionSuffices(ctx), "position_insufficient"),
    Fail(ReservationFails(ctx), IF ctx.reservation_status = "active"
                                THEN "reservation_expired" ELSE "reservation_inactive"),
    Fail(ctx.has_conflicting_inflight # "no", "conflicting_inflight"),
    Fail(ctx.kill_switch_active = "missing", "kill_switch_status_not_provided"),
    Fail(KillSwitchBlocks(ctx), "kill_switch_active"),
    Fail(CloseOnlyBlocks(ctx), "close_only_no_buy"),
    Fail(~ctx.frequency_ok, "frequency_exceeded"),
    Fail(~(ctx.price_positive /\ ctx.quantity > 0), "params_invalid"),
    Fail(ctx.price_stale, "stale_price"),
    Fail(~ctx.source_is_deterministic, "source_non_deterministic"),
    Fail(~ctx.request_from_execution_service, "unauthorized_source")}

CriticalFailures == {"unauthorized_source", "source_non_deterministic",
                     "kill_switch_active", "params_invalid"}

(* Mutant: an unavailable broker is looked at before the critical checks.  *)
VerdictRetryFirst(ctx, failed) ==
    IF failed = {} THEN "allow"
    ELSE IF "qmt_unavailable" \in failed THEN "retry_later"
    ELSE IF failed \cap CriticalFailures # {} THEN "reject" ELSE "escalate_manual"

(* The verdict that the failures lead to, the first that applies. *)
Verdict(ctx, failed) ==
    IF KillSwitchBlocks(ctx) THEN "reject"
    ELSE IF failed = {} THEN "allow"
    ELSE IF failed \cap CriticalFailures # {} THEN "reject"
    ELSE IF "qmt_unavailable" \in failed THEN "retry_later"
    ELSE IF failed \cap {"signal_expired", "reservation_expired"} # {} THEN "reject"
    ELSE "escalate_manual"

Execute(ctx) == Verdict(ctx, FailedChecks(ctx))

(* A context in which every check passes for a buy. *)
PassingContext ==
    [strategy_status |-> "live_running", signal_expired |-> FALSE,
     qmt_adapter_available |-> "yes", account_risk_status |-> "normal",
     available_quantity |-> 0, today_bought_quantity |-> 0, quantity |-> MaxQuantity,
     side |-> "buy", reservation_status |-> "missing", reservation_expired |-> FALSE,
     has_conflicting_inflight |-> "no", kill_switch_active |-> "no",
     close_only_mode |-> FALSE, pause_open_mode |-> FALSE, frequency_ok |-> TRUE,
     price_positive |-> TRUE, price_stale |-> FALSE, source_is_deterministic |-> TRUE,
     request_from_execution_service |-> TRUE, is_flatten |-> FALSE]
=============================================================================
