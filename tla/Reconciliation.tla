--------------------------- MODULE Reconciliation ---------------------------
(***************************************************************************)
(* The comparisons of the reconciliation service                           *)
(* (hqmts/reconciliation/service.py) and of the external event detector    *)
(* (hqmts/monitoring/external_detector.py), as operators.  What both sides *)
(* hold is a function on broker ids; a difference is a pair of its field   *)
(* and the id.  The table of order states (statemachine/order_fsm.py) is   *)
(* here too, with the guard that the engine of the tables applies.         *)
(***************************************************************************)
EXTENDS Integers

(* Differences that make has_critical true. *)
CriticalFields == {"existence", "filled_quantity", "external_order", "position_existence",
                   "total_quantity", "available_cash", "trade_existence", "trade", "external_trade"}

HasCritical(diffs) == \E d \in diffs : d[1] \in CriticalFields

(* local is the rows with a broker id, broker what the broker lists. *)
Missing(field, local, broker) == {field} \X (DOMAIN local \ DOMAIN broker)

Differing(field, local, broker) ==
    {field} \X {k \in DOMAIN local \cap DOMAIN broker : local[k][field] # broker[k][field]}

(* Mutant: what only the broker has goes unnoticed. *)
OrderDiffsLocalOnly(local, broker) ==
    Missing("existence", local, broker)
    \cup Differing("status", local, broker)
    \cup Differing("filled_quantity", local, broker)

(* reconcile_orders() *)
OrderDiffs(local, broker) ==
    Missing("existence", local, broker)
    \cup Differing("status", local, broker)
    \cup Differing("filled_quantity", local, broker)
    \cup Missing("external_order", broker, local)

(* reconcile_trades(); a trade is compared by its quantity and its price. *)
TradeDiffs(local, broker) ==
    Missing("trade_existence", local, broker)
    \cup {"trade"} \X {t \in DOMAIN local \cap DOMAIN broker : local[t] # broker[t]}
    \cup Missing("external_trade", broker, local)

(* reconcile_positions(): positions only the broker has are not looked for.*)
PositionDiffs(local, broker) ==
    Missing("position_existence", local, broker)
    \cup Differing("total_quantity", local, broker)
    \cup Differing("available_quantity", local, broker)

-----------------------------------------------------------------------------
(* detect_from_trades(): the broker's trades with neither the id of an     *)
(* internal trade nor, when all its details are known, the look of one     *)
(* (instrument, side, quantity and price, within the time window); alike   *)
(* has the pairs of trades that look the same.                             *)

Unmatched(internal, broker, alike) ==
    {t \in broker \ internal : ~\E u \in internal : <<t, u>> \in alike}

-----------------------------------------------------------------------------
(* StateMachine.can_transition() over a table: terminal states have no     *)
(* successors, and a state that the table lacks has none either.           *)
CanTransition(table, current, target) ==
    current \in DOMAIN table /\ target \in table[current]

OrderTransitions ==
    [created |-> {"pending_submit", "canceled"},
     pending_submit |-> {"submitted", "canceled"},
     submitted |-> {"accepted", "rejected", "canceled"},
     accepted |-> {"partial_filled", "filled", "canceled"},
     partial_filled |-> {"partial_filled", "filled", "canceled"},
     filled |-> {}, canceled |-> {}, rejected |-> {}, expired |-> {},
     error |-> {"accepted", "partial_filled", "filled", "canceled", "rejected", "expired"},
     suspended |-> {"accepted", "canceled"}]

(* get_active_orders_by_account() *)
ActiveOrders == {"created", "pending_submit", "submitted", "accepted", "partial_filled",
                 "suspended", "error"}

(* _CANCELLABLE_STATUSES of the orders route *)
Cancellable == {"created", "pending_submit", "submitted", "accepted", "partial_filled"}

RecoveryTransitions ==
    [created |-> {"diagnosing", "canceled"},
     diagnosing |-> {"recovering", "failed", "canceled"},
     recovering |-> {"verifying", "failed"},
     verifying |-> {"completed", "recovering", "failed"},
     completed |-> {}, failed |-> {}, canceled |-> {}]
=============================================================================
