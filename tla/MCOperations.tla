---------------------------- MODULE MCOperations ----------------------------
(* What runs around the trading core, on small instances: start-up with    *)
(* its health monitor, recovery, the message bus, the web sockets and the  *)
(* metrics.  They share no state: a behaviour is one of them, so that      *)
(* their states add up instead of multiplying.  Of recovery, a behaviour   *)
(* has the recovery steps or the comparisons of trades, which share the    *)
(* orders and no more.                                                     *)
EXTENDS LiveStartup, Recovery, PipelineBus, WebSocketBridge, Metrics, TLC

CONSTANTS o1, m1, m2, k1, k2, e1, e2, e3

MCLookalikes == {<<o1, m1>>}

MCTokens == {[session |-> "s1", user |-> "u1", role |-> "trader"],
             [session |-> "s2", user |-> "u1", role |-> "trader"],
             [session |-> "s3", user |-> "u2", role |-> "quant_researcher"]}
MCStream == (e1 :> "alerts") @@ (e2 :> "alerts") @@ (e3 :> "orders")
MCType == (e1 :> "P1") @@ (e2 :> "P2") @@ (e3 :> "order_update")

VARIABLE part

liveVars == <<healthVars, startupVars>>
vars == <<part, liveVars, recoveryVars, busVars, bridgeVars, metricVars>>

(* One socket brings the token of s1 and the other any: the other choices  *)
(* are the same up to names.  What another part is given does not matter.  *)
Init ==
    /\ part \in {"startup", "recovery", "detection", "bus", "sockets", "metrics"}
    /\ HealthInit /\ StartupInit /\ RecoveryInit /\ BusInit /\ BridgeInit /\ MetricsInit
    /\ tokens[k1].session = "s1"
    /\ part # "sockets" => tokens[k2] = tokens[k1]
    /\ part # "startup" => given = [broker |-> TRUE, monitor |-> TRUE]

Next ==
    /\ UNCHANGED part
    /\ \/ /\ part = "startup" /\ StartupNext
          /\ UNCHANGED <<recoveryVars, busVars, bridgeVars, metricVars>>
       \/ /\ RecoveryNext
          /\ \/ part = "recovery" /\ \A r \in reading' : r.at \in {"asked", "listed"}
             \/ part = "detection" /\ session' = "none"
          /\ UNCHANGED <<liveVars, busVars, bridgeVars, metricVars>>
       \/ /\ part = "bus" /\ BusNext
          /\ UNCHANGED <<liveVars, recoveryVars, bridgeVars, metricVars>>
       \/ /\ part = "sockets" /\ BridgeNext
          /\ UNCHANGED <<liveVars, recoveryVars, busVars, metricVars>>
       \/ /\ part = "metrics" /\ MetricsNext
          /\ UNCHANGED <<liveVars, recoveryVars, busVars, bridgeVars>>

Spec == Init /\ [][Next]_vars

(* The state of every part keeps its type: statuses, counters, buffers and *)
(* windows stay within their bounds.                                       *)
TypesOK == 
    /\ HealthTypeOK /\ StartupTypeOK /\ RecoveryTypeOK
    /\ BusTypeOK /\ BridgeTypeOK /\ MetricsTypeOK
=============================================================================
