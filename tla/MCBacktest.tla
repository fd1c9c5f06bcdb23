----------------------------- MODULE MCBacktest -----------------------------
(* Backtest on a small instance: a stop, a limit order, sales of some and  *)
(* of all shares.                                                          *)
EXTENDS Backtest

CONSTANTS i1, i2

MCOrders ==
    {[instrument |-> i1, side |-> "buy", quantity |-> 2, limit |-> None, stop |-> 100, take |-> None],
     [instrument |-> i1, side |-> "buy", quantity |-> 0, limit |-> None, stop |-> None, take |-> 110],
     [instrument |-> i1, side |-> "sell", quantity |-> 0, limit |-> None, stop |-> None, take |-> None],
     [instrument |-> i1, side |-> "sell", quantity |-> 1, limit |-> 110, stop |-> None, take |-> None],
     [instrument |-> i2, side |-> "buy", quantity |-> 0, limit |-> 100, stop |-> None, take |-> None]}

MCLimitPercent == [i \in Instruments |-> IF i = i1 THEN 10 ELSE 5]
=============================================================================
