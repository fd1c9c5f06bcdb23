------------------------------ MODULE QmtHealth ------------------------------
(***************************************************************************)
(* The broker health monitor (hqmts/monitoring/qmt_health.py): two         *)
(* channels, the pushed reports and the queries, each unhealthy after a    *)
(* number of consecutive failures and healthy again after one success; the *)
(* degradation mode follows from the two.  Time is kept as whether the     *)
(* last report is older than report_timeout_seconds.                       *)
(***************************************************************************)
EXTENDS Integers

CONSTANTS
    ReportThreshold,    \* report_failure_threshold
    QueryThreshold,     \* query_failure_threshold
    MaxFailures         \* bound: consecutive failures counted

ASSUME HealthAssumption ==
    /\ ReportThreshold \in Nat \ {0}
    /\ QueryThreshold \in Nat \ {0}
    /\ MaxFailures \in Nat
    /\ ReportThreshold <= MaxFailures /\ QueryThreshold <= MaxFailures

VARIABLES
    health,     \* QMTHealthStatus
    lastReport, \* last_report_time: never, within the timeout, or older
    unanswered  \* history, per channel: failures since its last success

healthVars == <<health, lastReport, unanswered>>

Channels == {"report", "query"}
Threshold == [report |-> ReportThreshold, query |-> QueryThreshold]

Modes == {"normal", "degraded_query_primary", "close_only", "pause_open"}

HealthStatus ==
    [healthy: [Channels -> BOOLEAN], failures: [Channels -> 0..MaxFailures],
     authority_mode: {"event_primary", "query_primary"}, degradation_mode: Modes]

HealthInit ==
    /\ health = [healthy |-> [c \in Channels |-> TRUE], failures |-> [c \in Channels |-> 0],
                 authority_mode |-> "event_primary", degradation_mode |-> "normal"]
    /\ lastReport = "never"
    /\ unanswered = [c \in Channels |-> 0]

Degradation(healthy) ==
    CASE healthy["report"] /\ healthy["query"] -> "normal"
      [] ~healthy["report"] /\ healthy["query"] -> "degraded_query_primary"
      [] ~healthy["report"] /\ ~healthy["query"] -> "close_only"
      [] healthy["report"] /\ ~healthy["query"] -> "pause_open"

(* _recompute() after a channel's health and failures changed. *)
Recomputed(healthy, failures) ==
    [healthy |-> healthy, failures |-> failures,
     authority_mode |-> IF healthy["report"] THEN "event_primary" ELSE "query_primary",
     degradation_mode |-> Degradation(healthy)]

(* record_report_received(), record_query_success() *)
RecordSuccess(c) ==
    /\ health' = Recomputed([health.healthy EXCEPT ![c] = TRUE], [health.failures EXCEPT ![c] = 0])
    /\ lastReport' = IF c = "report" THEN "recent" ELSE lastReport
    /\ unanswered' = [unanswered EXCEPT ![c] = 0]

Failed(c) ==
    Recomputed([health.healthy EXCEPT ![c] = @ /\ health.failures[c] + 1 < Threshold[c]],
               [health.failures EXCEPT ![c] = @ + 1])

(* record_report_failure(), record_query_failure() *)
RecordFailure(c) ==
    /\ health.failures[c] < MaxFailures
    /\ health' = Failed(c)
    /\ unanswered' = [unanswered EXCEPT ![c] = @ + 1]
    /\ UNCHANGED lastReport

(* The time since the last report passes report_timeout_seconds. *)
ReportsFallSilent ==
    /\ lastReport = "recent"
    /\ lastReport' = "old"
    /\ UNCHANGED <<health, unanswered>>

(* check_report_timeout(): each call on a silent stream counts as one more *)
(* failure; a stream that never reported does not time out.                *)
CheckReportTimeout == lastReport = "old" /\ RecordFailure("report")

HealthNext ==
    \/ \E c \in Channels : RecordSuccess(c)
    \/ \E c \in Channels : RecordFailure(c)
    \/ ReportsFallSilent
    \/ CheckReportTimeout

HealthSpec == HealthInit /\ [][HealthNext]_healthVars

-----------------------------------------------------------------------------

HealthTypeOK ==
    /\ health \in HealthStatus
    /\ lastReport \in {"never", "recent", "old"}
    /\ unanswered \in [Channels -> 0..MaxFailures]

(* qmt_health.py:39-41: trading is restricted exactly as long as a channel *)
(* has failed its threshold of times with no success since: a success of   *)
(* either channel at any moment, in any order with the other's failures,   *)
(* may neither be outlived by a restriction nor lift the other's.          *)
Down(c) == unanswered[c] >= Threshold[c]

DegradedForCause ==
    /\ health.degradation_mode = "normal" <=> ~Down("report") /\ ~Down("query")
    /\ health.degradation_mode = "close_only" <=> Down("report") /\ Down("query")
    /\ health.authority_mode = "query_primary" <=> Down("report")
=============================================================================
