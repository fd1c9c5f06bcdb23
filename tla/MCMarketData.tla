---------------------------- MODULE MCMarketData ----------------------------
(* The market data pipeline, the client it fetches with, and the requests  *)
(* for backtests, on small instances.  They share no state: a behaviour is *)
(* one of the three.                                                       *)
EXTENDS MarketData, TushareClient, BacktestRuns

CONSTANTS f1, f2, b1, b2

Row(minute, open, high, low, close) ==
    [minute |-> minute, open |-> open, high |-> high, low |-> low, close |-> close,
     volume |-> minute + 1]

(* Whole windows, parts of them, the same minute twice, in the wrong       *)
(* order, in the lunch break, with wrong extremes, and without a price.    *)
MCBatches ==
    {<<>>,
     <<Row(0, 10, 12, 9, 11), Row(1, 11, 11, 8, 10)>>,
     <<Row(0, 11, 11, 10, 10)>>,
     <<Row(1, 12, 13, 12, 12), Row(0, 10, 12, 10, 12), Row(1, 9, 9, 9, 9)>>,
     <<Row(2, 10, 10, 10, 10), Row(3, 10, 9, 11, 10)>>,
     <<Row(1, 10, 10, 10, 10), Row(4, 0, 10, 0, 10)>>}

VARIABLE part

vars == <<part, marketVars, clientVars, runsVars>>

Init == part \in {"market", "client", "backtests"} /\ MarketInit /\ ClientInit /\ RunsInit

Next ==
    /\ UNCHANGED part
    /\ \/ part = "market" /\ MarketNext /\ UNCHANGED <<clientVars, runsVars>>
       \/ part = "client" /\ ClientNext /\ UNCHANGED <<marketVars, runsVars>>
       \/ part = "backtests" /\ RunsNext /\ UNCHANGED <<marketVars, clientVars>>

Spec == Init /\ [][Next]_vars
        /\ (part = "client" => ClientFairness)

(* RequestsEnd in the behaviours that are the client's. *)
AllRequestsEnd == part = "client" => RequestsEnd

(* The state of every part keeps its type: sessions, tokens and grids stay *)
(* within their bounds.                                                    *)
TypesOK == MarketTypeOK /\ ClientTypeOK /\ RunsTypeOK
=============================================================================
