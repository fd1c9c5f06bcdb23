----------------------------- MODULE RiskEngine -----------------------------
(***************************************************************************)
(* The pre-trade risk engine and its rules (hqmts/risk/engine.py and       *)
(* hqmts/risk/rules).  Rules are registered in any order; evaluate() runs  *)
(* them layer by layer and keeps the most restrictive result.              *)
(*                                                                         *)
(* A threshold that a rule compares with one field of the RiskContext is   *)
(* kept as a fact that holds or not; quantity, price and cash are numbers, *)
(* because two rules compute a new quantity from them.                     *)
(***************************************************************************)
EXTENDS Integers, Sequences

CONSTANTS
    RuleSet,        \* the rules that may be registered
    MaxRegistered,  \* bound: rules registered at once
    MaxShares,    \* bound: context.quantity
    MaxPrice,       \* bound: context.price
    MaxCash,        \* bound: context.account_available_cash
    MinCash,        \* min_cash of MinAvailableCashRule
    LotSize         \* lot_size of MinLotSizeCheckRule

(* The layer of each rule (its layer property). *)
LayerOf ==
    [index_drop_halt |-> "market", extreme_volatility_halt |-> "market",
     special_time_restriction |-> "market",
     total_position_limit |-> "account", daily_loss_limit |-> "account",
     intraday_drawdown |-> "account", min_available_cash |-> "account",
     strategy_position_limit |-> "strategy", consecutive_loss_halt |-> "strategy",
     cooldown_period |-> "strategy", strategy_daily_loss_limit |-> "strategy",
     single_instrument_max_exposure |-> "instrument", liquidity_filter |-> "instrument",
     blacklist |-> "instrument", st_filter |-> "instrument",
     invalid_price_check |-> "order", min_lot_size_check |-> "order",
     duplicate_order_check |-> "order", frequent_cancel_limit |-> "order"]

ASSUME RiskAssumption ==
    /\ RuleSet \subseteq DOMAIN LayerOf
    /\ {MaxRegistered, MaxShares, MaxPrice, MaxCash, MinCash} \subseteq Nat
    /\ LotSize \in Nat \ {0}

VARIABLES
    rules,      \* the registered rules, in the order of registration
    pc,         \* idle, checking the rules, or answered
    ctx,        \* the RiskContext under evaluation
    unchecked,  \* the places in rules of those evaluate() has still to check
    most,       \* most_restrictive, and the RiskCheckResult made of it
    triggered   \* triggered_rules

riskVars == <<rules, pc, ctx, unchecked, most, triggered>>

NoQuantity == -1                               \* resized_quantity is None
Result(type) == [type |-> type, qty |-> NoQuantity]
NoResult == Result("allow")                    \* no rule had a concern
Resize(qty) == [type |-> "resize", qty |-> qty]

(* _priority_value *)
Priority == [force_flatten |-> 5, reject |-> 4, resize |-> 3, delay |-> 2, allow |-> 1]

NoConcern == Result("none")                    \* check() returned None

-----------------------------------------------------------------------------
(* rule.check(), one operator per layer.  A rule whose threshold is one    *)
(* comparison is concerned when its name is among the facts of the         *)
(* context; most rules spare an order that flattens.                       *)

Concern(condition, result) == IF condition THEN result ELSE NoConcern

MarketCheck(r, c) ==
    Concern(r \in c.facts /\ ~c.is_flatten,
            Result(IF r = "special_time_restriction" THEN "delay" ELSE "reject"))

(* MinAvailableCashRule: int() truncates the quotient, max(0, _) cuts it.  *)
CashLeft(c) == c.cash - c.price * c.quantity

Affordable(c) == IF c.cash >= MinCash THEN (c.cash - MinCash) \div c.price ELSE 0

(* The others divide by account_total_asset and give up unless it is       *)
(* positive.  No account rule looks at is_flatten.                         *)
AccountCheck(r, c) ==
    IF r = "min_available_cash"
    THEN Concern(c.side = "buy" /\ c.price > 0 /\ c.quantity > 0 /\ CashLeft(c) < MinCash,
                 Resize(Affordable(c)))
    ELSE Concern(r \in c.facts /\ c.hasAsset,
                 Result(IF r = "daily_loss_limit" THEN "force_flatten" ELSE "reject"))

StrategyCheck(r, c) ==
    Concern(/\ r \in c.facts /\ ~c.is_flatten
            /\ r = "strategy_daily_loss_limit" => c.hasAsset,
            Result(IF r = "cooldown_period" THEN "delay" ELSE "reject"))

(* An instrument on the blacklist is refused even to a flatten. *)
InstrumentCheck(r, c) ==
    Concern(r \in c.facts /\ (c.is_flatten => r = "blacklist"),
            IF r = "single_instrument_max_exposure" THEN Resize(0) ELSE Result("reject"))

LotFloor(q) == (q \div LotSize) * LotSize

(* A quantity is rounded down to whole lots; less than one is rejected. *)
OrderCheck(r, c) ==
    CASE r = "invalid_price_check" -> Concern(c.price <= 0, Result("reject"))
      [] r = "min_lot_size_check" ->
            Concern(c.quantity <= 0 \/ c.quantity % LotSize # 0,
                    IF LotFloor(c.quantity) > 0 THEN Resize(LotFloor(c.quantity))
                                                ELSE Result("reject"))
      [] r = "duplicate_order_check" -> Concern(r \in c.facts, Result("reject"))
      [] r = "frequent_cancel_limit" -> Concern(r \in c.facts, Result("delay"))

Check(r, c) ==
    CASE LayerOf[r] = "market" -> MarketCheck(r, c)
      [] LayerOf[r] = "account" -> AccountCheck(r, c)
      [] LayerOf[r] = "strategy" -> StrategyCheck(r, c)
      [] LayerOf[r] = "instrument" -> InstrumentCheck(r, c)
      [] LayerOf[r] = "order" -> OrderCheck(r, c)

Triggers(r, c) == Check(r, c) # NoConcern

-----------------------------------------------------------------------------

(* Rules that compute their concern from numbers of the context. *)
Computed == {"min_available_cash", "invalid_price_check", "min_lot_size_check"}

Contexts(registered) ==
    [facts: SUBSET (registered \ Computed), hasAsset: BOOLEAN, is_flatten: BOOLEAN,
     side: {"buy", "sell"}, quantity: 0..MaxShares, price: 0..MaxPrice, cash: 0..MaxCash]

NoContext == [facts |-> {}]

RiskInit ==
    /\ rules = <<>>
    /\ pc = "idle"
    /\ ctx = NoContext
    /\ unchecked = {}
    /\ most = NoResult
    /\ triggered = <<>>

Registered == {rules[i] : i \in 1..Len(rules)}

(* register_rule() *)
Register(r) ==
    /\ pc = "idle"
    /\ Len(rules) < MaxRegistered
    /\ r \notin Registered
    /\ rules' = Append(rules, r)
    /\ UNCHANGED <<pc, ctx, unchecked, most, triggered>>

(* layer_order of evaluate() *)
LayerOrder == [market |-> 1, account |-> 2, strategy |-> 3, instrument |-> 4, order |-> 5]

LayerPlace(i) == LayerOrder[LayerOf[rules[i]]]

(* The rule at i runs before the one at j: get_rules_by_layer() keeps the  *)
(* order of registration within a layer.                                   *)
Precedes(i, j) ==
    LayerPlace(i) < LayerPlace(j) \/ (LayerPlace(i) = LayerPlace(j) /\ i < j)

(* evaluate() is called. *)
Evaluate(c) ==
    /\ pc = "idle"
    /\ pc' = "checking"
    /\ ctx' = c
    /\ unchecked' = DOMAIN rules
    /\ UNCHANGED <<rules, most, triggered>>

(* Mutant: the last result wins. *)
MoreRestrictiveLast(result) == result

(* most_restrictive after a result: replaced only by a higher priority. *)
MoreRestrictive(result) ==
    IF triggered = <<>> \/ Priority[result.type] > Priority[most.type] THEN result ELSE most

(* The next rule is checked; a force_flatten ends the evaluation. *)
CheckRule(i) ==
    LET r == rules[i]
        result == Check(r, ctx)
    IN  /\ pc = "checking" /\ i \in unchecked
        /\ \A j \in unchecked \ {i} : Precedes(i, j)
        /\ IF Triggers(r, ctx)
           THEN /\ triggered' = Append(triggered, r)
                /\ most' = MoreRestrictive(result)
           ELSE UNCHANGED <<triggered, most>>
        /\ unchecked' = IF result.type = "force_flatten" THEN {} ELSE unchecked \ {i}
        /\ UNCHANGED <<rules, pc, ctx>>

(* _build_result() *)
BuildResult ==
    /\ pc = "checking" /\ unchecked = {}
    /\ pc' = "answered"
    /\ UNCHANGED <<rules, ctx, unchecked, most, triggered>>

(* The caller has the answer; the locals of evaluate() are gone. *)
Return ==
    /\ pc = "answered"
    /\ pc' = "idle"
    /\ ctx' = NoContext /\ most' = NoResult /\ triggered' = <<>>
    /\ UNCHANGED <<rules, unchecked>>

RiskNext ==
    \/ \E r \in RuleSet : Register(r)
    \/ \E c \in Contexts(Registered) : Evaluate(c)
    \/ \E i \in DOMAIN rules : CheckRule(i)
    \/ BuildResult
    \/ Return

RiskSpec == RiskInit /\ [][RiskNext]_riskVars

-----------------------------------------------------------------------------

Results == [type: {"resize"}, qty: Nat]
           \cup [type: DOMAIN Priority \ {"resize"}, qty: {NoQuantity}]

RiskTypeOK ==
    /\ rules \in Seq(RuleSet) /\ triggered \in Seq(RuleSet)
    /\ unchecked \subseteq DOMAIN rules
    /\ pc \in {"idle", "checking", "answered"}
    /\ ctx \in Contexts(Registered) \cup {NoContext}
    /\ most \in Results

(* The rules that have something to say of the context, whatever their     *)
(* order.                                                                  *)
Concerned == {r \in Registered : Triggers(r, ctx)}

(* The answer is the most restrictive among all concerned rules (SAD 18.2),*)
(* wherever evaluate() stopped; among equals it is the first in the order  *)
(* of the layers and, within one, of registration - also when a later      *)
(* resize would leave fewer shares.                                        *)
MostRestrictiveWins ==
    pc = "answered" =>
       /\ Concerned = {} => most.type = "allow"
       /\ Concerned # {} =>
             \E i \in DOMAIN rules :
                /\ Check(rules[i], ctx) = most
                /\ \A j \in DOMAIN rules :
                      LET other == Check(rules[j], ctx)
                      IN  other # NoConcern =>
                             \/ Priority[other.type] < Priority[most.type]
                             \/ Priority[other.type] = Priority[most.type] /\ ~Precedes(j, i)

(* The answer reports every concerned rule, once - except that a flatten   *)
(* order of the account hides the rules after it.                          *)
TriggeredIsComplete ==
    (pc = "answered" /\ most.type # "force_flatten") =>
       /\ {triggered[i] : i \in 1..Len(triggered)} = Concerned
       /\ \A i, j \in 1..Len(triggered) : triggered[i] = triggered[j] => i = j

(* A resize only ever reduces the order: the quotient of MinAvailableCash  *)
(* and the lot rounding stay below the quantity asked for.                 *)
ResizeReduces ==
    (pc = "answered" /\ most.type = "resize" /\ ctx.quantity > 0) =>
       most.qty \in 0..(ctx.quantity - 1)

(* What evaluate() answers is right in all respects: it is the most        *)
(* restrictive result, it hides no concerned rule, and a resize is one.    *)
AnswerIsRight == MostRestrictiveWins /\ TriggeredIsComplete /\ ResizeReduces
=============================================================================
