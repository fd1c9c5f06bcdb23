----------------------------- MODULE Admission -----------------------------
(***************************************************************************)
(* The admission of a strategy from paper to live trading: the lifecycle   *)
(* of one admission record (hqmts/validation/admission.py and its routes)  *)
(* and the readiness score (hqmts/governance/readiness.py).  The service   *)
(* keeps its records in memory and awaits nothing inside a method, so that *)
(* each method is one step.                                                *)
(***************************************************************************)
EXTENDS Naturals, FiniteSets

CONSTANT MaxDecided   \* bound: human decisions

ASSUME AdmissionAssumption == MaxDecided \in Nat

VARIABLES
    admission,  \* its status and whether it has an approval request
    collected,  \* the checks that the collected paper metrics pass
    score,      \* readiness_score as <<passed weight>>, <<>> before it is assessed
    ready,      \* readiness_passed
    passing,    \* all checks that passed when readiness was assessed
    decided     \* counts human decisions up to MaxDecided

admissionVars == <<admission, collected, score, ready, passing, decided>>

(* The weight of a check, doubled; critical are those of at least 2.0. *)
Weight == [positive_return |-> 4, sufficient_sharpe |-> 4, sufficient_trades |-> 3,
           reasonable_drawdown |-> 4, win_rate_above_threshold |-> 2,
           daily_loss_within_limit |-> 4, single_order_within_limit |-> 3,
           backtest_paper_consistency |-> 4, param_stability |-> 3,
           sufficient_paper_duration |-> 3, kill_switch_tested |-> 4,
           recovery_drill_completed |-> 4, approval_obtained |-> 6,
           version_binding_complete |-> 4]
Checks == DOMAIN Weight
Critical == {c \in Checks : Weight[c] >= 4}

(* The checks that rest on the collected metrics alone; the others rest on *)
(* what the caller of evaluate_readiness() passes, of which the route      *)
(* passes nothing: its assessment passes only single_order_within_limit    *)
(* and perhaps the consistency with a backtest of no return.               *)
OfMetrics == {"positive_return", "sufficient_sharpe", "sufficient_trades",
              "reasonable_drawdown", "win_rate_above_threshold",
              "daily_loss_within_limit", "sufficient_paper_duration"}

(* total_score: a check weighs 1.0, 1.5, 2.0 or 3.0. *)
Weighing(w, checks) == {c \in checks : Weight[c] = w}
WeightOf(checks) == 2 * Cardinality(Weighing(2, checks)) + 3 * Cardinality(Weighing(3, checks))
                    + 4 * Cardinality(Weighing(4, checks)) + 6 * Cardinality(Weighing(6, checks))
Total == WeightOf(Checks)

(* Mutant: a score of 70 is enough. *)
IsReadyAtSeventy(passed) ==
    /\ Critical \subseteq passed
    /\ WeightOf(passed) * 100 >= 70 * Total

(* ReadinessReport.is_ready *)
IsReady(passed) ==
    /\ Critical \subseteq passed
    /\ WeightOf(passed) * 100 >= 80 * Total

AdmissionInit ==
    /\ admission = [status |-> "pending_metrics", request |-> FALSE]
    /\ collected = {} /\ passing = {} /\ score = <<>> /\ ready = FALSE /\ decided = 0

CollectMetrics(passed) ==
    /\ admission.status = "pending_metrics"
    /\ collected' = passed
    /\ admission' = [admission EXCEPT !.status = "metrics_collected"]
    /\ UNCHANGED <<score, ready, passing, decided>>

EvaluateReadiness(others) ==
    /\ admission.status = "metrics_collected"
    /\ passing' = collected \cup others
    /\ score' = <<WeightOf(collected \cup others)>>
    /\ ready' = IsReady(collected \cup others)
    /\ admission' = [admission EXCEPT !.status = "pending_review"]
    /\ UNCHANGED <<collected, decided>>

(* With an approval service a request is created; none is needed. *)
SubmitForApproval(service) ==
    /\ admission.status = "pending_review"
    /\ admission' = [admission EXCEPT !.request = @ \/ service]
    /\ UNCHANGED <<collected, score, ready, passing, decided>>

(* The decision is taken in any status. *)
ProcessDecision(decision) ==
    /\ decided < MaxDecided
    /\ decided' = decided + 1
    /\ admission' = [admission EXCEPT !.status = decision]
    /\ UNCHANGED <<collected, score, ready, passing>>

AdmissionNext ==
    \/ \E passed \in SUBSET OfMetrics : CollectMetrics(passed)
    \/ \E others \in SUBSET (Checks \ OfMetrics) : EvaluateReadiness(others)
    \/ \E service \in BOOLEAN : SubmitForApproval(service)
    \/ \E decision \in {"approved", "rejected"} : ProcessDecision(decision)

AdmissionSpec == AdmissionInit /\ [][AdmissionNext]_admissionVars

-----------------------------------------------------------------------------
AdmissionTypeOK ==
    /\ admission \in [status: {"pending_metrics", "metrics_collected", "pending_review",
                               "approved", "rejected"}, request: BOOLEAN]
    /\ collected \in SUBSET OfMetrics /\ passing \in SUBSET Checks
    /\ score = <<>> \/ \E n \in 0..Total : score = <<n>>
    /\ ready \in BOOLEAN /\ decided \in 0..MaxDecided
    /\ admission.status = "pending_metrics" => collected = {} /\ score = <<>>

(* A strategy that is ready fails no critical check and at most three of   *)
(* the five others: the score of 80 is reached with neither trades, nor    *)
(* paper days, nor a stable parameter, but not with less.                  *)
ReadyFailsFew == ready => Critical \subseteq passing /\ Cardinality(Checks \ passing) <= 3

(* The score that a reviewer sees is that of the metrics on the record:    *)
(* they do not change once they are collected.                             *)
ScoreOfMetrics == score # <<>> => /\ collected = passing \cap OfMetrics
                                  /\ score = <<WeightOf(passing)>>

(* What a reviewer reads of a readiness report can be relied upon: its     *)
(* verdict and its score are those of the record.                          *)
ReadinessTold == ReadyFailsFew /\ ScoreOfMetrics
=============================================================================
