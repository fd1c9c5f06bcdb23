------------------------------- MODULE Metrics -------------------------------
(***************************************************************************)
(* The metrics pipeline (hqmts/monitoring/metrics.py) and the alert rules  *)
(* (hqmts/monitoring/alerts.py): events and gauges are recorded with their *)
(* time, points that fall out of the sliding window are evicted when their *)
(* metric is used next, and evaluate() computes three rates, compares      *)
(* every latest value with the rules on its metric and routes an alert per *)
(* metric.  Percentages are rounded down, which the thresholds do not      *)
(* notice on counts as small as MaxRecords.                                *)
(***************************************************************************)
EXTENDS Integers, FiniteSets

CONSTANTS
    Counted,        \* event metrics recorded
    Gauges,         \* gauge metrics recorded
    Window,         \* window_seconds
    MaxTime,        \* bound
    MaxRecords      \* bound: points recorded in all

ASSUME MetricsAssumption == {Window, MaxTime, MaxRecords} \subseteq Nat

Rule(metric, level, comparison, threshold) ==
    [metric |-> metric, level |-> level, comparison |-> comparison, threshold |-> threshold]

(* ALL_RULES *)
AllRules == {
    Rule("kill_switch_active", 0, "eq", 1),
    Rule("account_drawdown_pct", 0, "gt", 15),
    Rule("order_failure_rate_pct", 0, "gt", 50),
    Rule("position_mismatch_count", 0, "gt", 0),
    Rule("qmt_connected", 0, "lt", 1),
    Rule("order_failure_rate_pct", 1, "gt", 20),
    Rule("signal_anomaly_count", 1, "gt", 0),
    Rule("data_delay_ms", 1, "gt", 5000),
    Rule("bar_aggregation_error_count", 1, "gt", 0),
    Rule("strategy_error_rate_pct", 1, "gt", 5),
    Rule("qmt_latency_ms", 1, "gt", 3000),
    Rule("agent_unauthorized_attempt_count", 1, "gt", 0),
    Rule("fill_rate_pct", 2, "lt", 80),
    Rule("system_cpu_pct", 2, "gt", 85),
    Rule("system_memory_pct", 2, "gt", 90),
    Rule("daily_pnl_drawdown_pct", 2, "gt", 3),
    Rule("agent_task_timeout_count", 3, "gt", 0),
    Rule("agent_tool_failure_count", 3, "gt", 0),
    Rule("agent_task_backlog_count", 3, "gt", 10)}

RulesOn(metric) == {r \in AllRules : r.metric = metric}

Compare(value, rule) ==
    CASE rule.comparison = "gt" -> value > rule.threshold
      [] rule.comparison = "lt" -> value < rule.threshold
      [] rule.comparison = "eq" -> value = rule.threshold

NoAlert == [level |-> 99]

Matching(metric, value) == {r \in RulesOn(metric) : Compare(value, r)}

(* AlertService.evaluate() keeps the alert of the most severe rule that    *)
(* matches; of two as severe it names the first, which nobody looks at.    *)
AlertOn(metric, value) ==
    IF Matching(metric, value) = {} THEN NoAlert
    ELSE CHOOSE r \in Matching(metric, value) :
            \A other \in Matching(metric, value) : r.level <= other.level

(* _route() *)
Target(level) ==
    CASE level = 0 -> "immediate_halt" [] level = 1 -> "human_intervention"
      [] level = 2 -> "intraday_watch" [] level = 3 -> "info_log"

-----------------------------------------------------------------------------

VARIABLES
    now,        \* time.monotonic()
    points,     \* _points: of each metric, a point being its time and its number
    latest,     \* _latest, for the metrics that were recorded
    routed,     \* the alerts of the last evaluate(): metric, level, target
    evaluated,  \* when that was, or "never"
    recorded    \* history: the points of a metric that were ever recorded

metricVars == <<now, points, latest, routed, evaluated, recorded>>

Rates == {"order_failure_rate_pct", "fill_rate_pct", "strategy_error_rate_pct"}

MetricsInit ==
    /\ now = 0
    /\ points = [m \in Counted |-> {}]
    /\ latest = [m \in {} |-> 0]
    /\ routed = {}
    /\ evaluated = "never"
    /\ recorded = [m \in Counted |-> {}]

Tick ==
    /\ now < MaxTime
    /\ now' = now + 1
    /\ evaluated' = "before"
    /\ UNCHANGED <<points, latest, routed, recorded>>

(* _evict(): the points are in the order of their times. *)
Evicted(pts) == {p \in pts : p[1] >= now - Window}

Recorded == Cardinality(UNION {{m} \X recorded[m] : m \in Counted})

WithLatest(metric, value) ==
    [m \in DOMAIN latest \cup {metric} |-> IF m = metric THEN value ELSE latest[m]]

NewPoint(m) == <<now, Cardinality(recorded[m]) + 1>>

(* The record_*() methods of events: a point of value 1. *)
RecordEvent(m) ==
    /\ Recorded < MaxRecords
    /\ points' = [points EXCEPT ![m] = Evicted(@ \cup {NewPoint(m)})]
    /\ latest' = WithLatest(m, 1)
    /\ recorded' = [recorded EXCEPT ![m] = @ \cup {NewPoint(m)}]
    /\ evaluated' = "before"
    /\ UNCHANGED <<now, routed>>

(* The record_*() methods of gauges, whose points nothing counts. *)
RecordGauge(m, value) ==
    /\ latest' = WithLatest(m, value)
    /\ evaluated' = "before"
    /\ UNCHANGED <<now, points, routed, recorded>>

Percentage(n, d, otherwise) == IF d = 0 THEN otherwise ELSE (n * 100) \div d

Count(m) == IF m \in Counted THEN Cardinality(Evicted(points[m])) ELSE 0

(* compute_order_failure_rate(), compute_fill_rate(),                      *)
(* compute_strategy_error_rate()                                           *)
Rate(metric) ==
    CASE metric = "order_failure_rate_pct" ->
            Percentage(Count("order_failed"), Count("order_submitted"), 0)
      [] metric = "fill_rate_pct" ->
            Percentage(Count("order_filled"), Count("order_accepted"), 100)
      [] metric = "strategy_error_rate_pct" ->
            Percentage(Count("strategy_error_count"), Count("signal_generated"), 0)

(* Mutant: the rates are those that were computed before. *)
SnapshotBefore ==
    [m \in DOMAIN latest \cup Rates |-> IF m \in DOMAIN latest THEN latest[m] ELSE Rate(m)]

(* snapshot() once the rates are recorded. *)
Snapshot ==
    [m \in DOMAIN latest \cup Rates |-> IF m \in Rates THEN Rate(m) ELSE latest[m]]

(* evaluate_all() *)
Alerts(values) ==
    {[metric |-> m, level |-> AlertOn(m, values[m]).level,
      target |-> Target(AlertOn(m, values[m]).level)] :
     m \in {x \in DOMAIN values : AlertOn(x, values[x]) # NoAlert}}

(* MetricsCollector.evaluate() *)
EvaluateMetrics ==
    /\ evaluated # "now"
    /\ points' = [m \in Counted |-> Evicted(points[m])]
    /\ latest' = Snapshot
    /\ routed' = Alerts(Snapshot)
    /\ evaluated' = "now"
    /\ UNCHANGED <<now, recorded>>

(* The values of a gauge around the thresholds of its rules. *)
GaugeValues(m) == {r.threshold + d : r \in RulesOn(m), d \in {-1, 0, 1}} \cap Nat

MetricsNext ==
    \/ Tick
    \/ \E m \in Counted : RecordEvent(m)
    \/ \E m \in Gauges : \E value \in GaugeValues(m) : RecordGauge(m, value)
    \/ EvaluateMetrics

MetricsSpec == MetricsInit /\ [][MetricsNext]_metricVars

-----------------------------------------------------------------------------

MetricsTypeOK ==
    /\ now \in 0..MaxTime
    /\ points \in [Counted -> SUBSET ((0..MaxTime) \X (Nat \ {0}))]
    /\ DOMAIN latest \subseteq Counted \cup Gauges \cup Rates
    /\ \A m \in DOMAIN latest : latest[m] \in Nat
    /\ \A a \in routed : a.level \in 0..3
    /\ evaluated \in {"never", "before", "now"}

(* What happened to m within the window. *)
InWindow(m) ==
    IF m \in Counted THEN Cardinality({p \in recorded[m] : now - p[1] <= Window}) ELSE 0

TrueValue(m) ==
    CASE m = "order_failure_rate_pct" ->
            Percentage(InWindow("order_failed"), InWindow("order_submitted"), 0)
      [] m = "fill_rate_pct" ->
            Percentage(InWindow("order_filled"), InWindow("order_accepted"), 100)
      [] m = "strategy_error_rate_pct" ->
            Percentage(InWindow("strategy_error_count"), InWindow("signal_generated"), 0)
      [] OTHER -> latest[m]

(* When evaluate() has run, there is an alert on a metric exactly if one   *)
(* of its rules matches what is true at that moment - for a rate, what was *)
(* recorded within the window, although points are evicted only when their *)
(* metric is touched and the rates of earlier evaluations stay among the   *)
(* latest values - and its level is the most severe of those rules.        *)
AlertsTell ==
    evaluated = "now" =>
        \A m \in DOMAIN latest :
            LET matching == Matching(m, TrueValue(m))
                alerts == {a \in routed : a.metric = m}
            IN  /\ matching = {} => alerts = {}
                /\ matching # {} => \E a \in alerts :
                      /\ alerts = {a} /\ a.target = Target(a.level)
                      /\ \E r \in matching : a.level = r.level
                      /\ \A r \in matching : a.level <= r.level
=============================================================================
