--------------------------- MODULE FinalCheckGate ---------------------------
(***************************************************************************)
(* The final check as a gate: its caller assembles the context field by    *)
(* field, starting from one that passes, and asks for the verdict.         *)
(***************************************************************************)
EXTENDS FinalCheck

CONSTANT MaxChanges   \* bound: fields the caller moves away from the passing context

ASSUME GateAssumption == MaxChanges \in Nat

VARIABLES
    request,       \* the FinalCheckContext being assembled
    changes,   \* how many fields the caller has set
    verdict    \* "none" until execute() has run, then its result

gateVars == <<request, changes, verdict>>

Verdicts == {"allow", "reject", "retry_later", "escalate_manual"}

GateInit ==
    /\ request = PassingContext
    /\ changes = 0
    /\ verdict = "none"

(* The caller sets a field of the context. *)
Populate(f, v) ==
    /\ verdict = "none"
    /\ changes < MaxChanges
    /\ request[f] # v
    /\ request' = [request EXCEPT ![f] = v]
    /\ changes' = changes + 1
    /\ UNCHANGED verdict

(* FinalPreSubmitCheck.execute(request). *)
Run ==
    /\ verdict = "none"
    /\ verdict' = Execute(request)
    /\ UNCHANGED <<request, changes>>

GateNext ==
    \/ \E f \in Fields : \E v \in FieldType[f] : Populate(f, v)
    \/ Run

GateSpec == GateInit /\ [][GateNext]_gateVars

GateTypeOK ==
    /\ \A f \in Fields : request[f] \in FieldType[f]
    /\ changes \in 0..MaxChanges
    /\ verdict \in Verdicts \cup {"none"}

-----------------------------------------------------------------------------

Opening(c) == c.side = "buy" /\ ~c.is_flatten

(* An order the gate lets through is one the trading rules allow: with the *)
(* kill switch on or in a wind-down mode nothing is opened, T+1 shares are *)
(* never sold, nothing the check needs was left unset, and the request     *)
(* comes from the execution service itself.                                *)
AllowedIsSafe ==
    verdict = "allow" =>
       /\ request.kill_switch_active = "yes" => request.is_flatten
       /\ Opening(request) => request.strategy_status = "live_running" /\ ~request.close_only_mode
       /\ request.side = "sell" =>
             request.quantity + request.today_bought_quantity <= request.available_quantity
       /\ \A f \in {"strategy_status", "qmt_adapter_available", "account_risk_status",
                   "has_conflicting_inflight", "kill_switch_active"} : request[f] # "missing"
       /\ request.reservation_status # "missing" =>
             request.reservation_status = "active" /\ ~request.reservation_expired
       /\ request.quantity > 0 /\ request.price_positive /\ ~request.price_stale /\ ~request.signal_expired
       /\ request.source_is_deterministic /\ request.request_from_execution_service

(* retry_later invites the caller to try the same request again: it is     *)
(* given only for a broker that is down, never for a request that the kill *)
(* switch, its origin or its parameters already condemn.                   *)
RetryOnlyForBroker ==
    verdict = "retry_later" =>
       /\ request.qmt_adapter_available = "no"
       /\ ~KillSwitchBlocks(request)
       /\ request.source_is_deterministic /\ request.request_from_execution_service
       /\ request.quantity > 0 /\ request.price_positive

(* The verdict is right both ways: what is let through is safe, and what   *)
(* may come back later is not condemned already.                           *)
VerdictIsRight == AllowedIsSafe /\ RetryOnlyForBroker
=============================================================================
