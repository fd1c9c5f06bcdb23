---------------------------- MODULE PaperTrading ----------------------------
(***************************************************************************)
(* The simulated account (hqmts/execution/paper_trading.py): signals become*)
(* pending orders sized by the cash or the shares of the moment, and are   *)
(* filled later, at another price, in any order and more than once if the  *)
(* caller asks twice.  Shares bought today are sold tomorrow (T+1).        *)
(* stop() is left out: it sets a flag that nothing reads.                  *)
(*                                                                         *)
(* The reservation manager is used as ReservationProofs shows it to behave *)
(* (GrantsWithinSnapshot, RefinesCashPool): a grant leaves the holds in    *)
(* force within the snapshot of its caller, and a hold that is given up is *)
(* gone.  Money is counted in units in which the rates leave no remainder. *)
(***************************************************************************)
EXTENDS Integers, FiniteSets

CONSTANTS
    Signals,         \* signals submitted to the session
    Instruments,
    SignalTypes,     \* signal types in use
    Prices,          \* reference and fill prices
    InitialCash,
    CommissionDiv,   \* commission_rate is 1 / CommissionDiv
    CommissionMin,
    StampDiv,        \* stamp_tax_rate is 1 / StampDiv
    LotSize,
    Resizes,         \* resized_quantity of a RESIZE result
    HasManager       \* whether a reservation manager and an account are given

ASSUME PaperAssumption ==
    /\ SignalTypes \subseteq {"open_long", "close_long", "open_short", "close_short",
                              "flatten", "hold"}
    /\ {CommissionDiv, StampDiv, LotSize} \subseteq Nat \ {0}
    /\ {InitialCash, CommissionMin} \subseteq Nat
    /\ Resizes \subseteq Nat
    /\ Prices \subseteq Nat
    /\ \A p \in Prices : p % CommissionDiv = 0 /\ p % StampDiv = 0
    /\ HasManager \in BOOLEAN

VARIABLES
    cash,       \* PaperTradingState.cash
    positions,  \* a function on the instruments with a position
    orders,     \* orders[s]: submit_signal() of s and the PaperOrder it made
    holds,      \* holds[s]: the reservation made for s, as the manager keeps it
    linked,     \* signals whose order is a key of _active_reservations
    settling,   \* signals whose fill_order() awaits consume() or release()
    charged,    \* history: how often fill_order() moved cash for s
    forgotten,  \* history: signals whose consume() or release() failed
    overlap     \* history: two sales of one instrument were outstanding together

paperVars == <<cash, positions, orders, holds, linked, settling, charged, forgotten, overlap>>

SideOf(type) == IF type \in {"open_long", "close_short"} THEN "buy" ELSE "sell"

New == [status |-> "new"]
Refused == [status |-> "refused"]      \* a REJECTED order that is not kept

Outstanding(s) == orders[s].status \in {"reserving", "pending"}

OrderState ==
    {New, Refused} \cup
    [status: {"reserving", "pending", "filled", "rejected"}, instrument: Instruments,
     side: {"buy", "sell"}, price: Prices, quantity: Nat, snapshot: Int, fill_price: Prices]

Position == [quantity: Nat, available: Nat, today: Nat]

NoHold == [state |-> "none", amount |-> 0]

HeldUnits == UNION {{s} \X (1..holds[s].amount) : s \in {t \in Signals : holds[t].state = "held"}}

Least(a, b) == IF a < b THEN a ELSE b
Largest(a, b) == IF a < b THEN b ELSE a

-----------------------------------------------------------------------------

Init ==
    /\ cash = InitialCash
    /\ positions = [i \in {} |-> 0]
    /\ orders = [s \in Signals |-> New]
    /\ holds = [s \in Signals |-> NoHold]
    /\ linked = {}
    /\ settling = {}
    /\ charged = [s \in Signals |-> 0]
    /\ forgotten = {}
    /\ overlap = FALSE

Goes(s, order) == orders' = [orders EXCEPT ![s] = order]

(* The quantity of a new order: the lots the cash affords with a buffer    *)
(* for the commission, or the shares that can be sold today.               *)
Size(i, side, price) ==
    IF side = "sell" THEN IF i \in DOMAIN positions THEN positions[i].available ELSE 0
    ELSE IF price > 0
    THEN ((cash * CommissionDiv) \div ((CommissionDiv + 1) * price * LotSize)) * LotSize
    ELSE 0

(* submit_signal() returns a REJECTED order that nothing keeps: no side,   *)
(* nothing to trade, or risk says reject or delay.                         *)
SubmitRefused(s) ==
    /\ orders[s] = New
    /\ Goes(s, Refused)
    /\ UNCHANGED <<cash, positions, holds, linked, settling, charged, forgotten, overlap>>

Sized(i, type, price, quantity) ==
    [status |-> "pending", instrument |-> i, side |-> SideOf(type), price |-> price,
     quantity |-> quantity, snapshot |-> cash, fill_price |-> price]

Overlaps(s, i, type) ==
    /\ SideOf(type) = "sell"
    /\ \E u \in Signals \ {s} :
          Outstanding(u) /\ orders[u].side = "sell" /\ orders[u].instrument = i

(* It has a quantity that risk allows or has resized - to 0 too, which the *)
(* test for nothing to trade came too early to see.  An opening signal     *)
(* then reserves its cash; any other becomes a pending order at once.      *)
SubmitSignal(s, i, type, price, cap) ==
    LET size == Size(i, SideOf(type), price)
        order == Sized(i, type, price, Least(size, cap))
        reserves == HasManager /\ type \in {"open_long", "open_short"} /\ price > 0
    IN  /\ orders[s] = New
        /\ type # "hold"
        /\ size > 0
        /\ Goes(s, IF reserves THEN [order EXCEPT !.status = "reserving"] ELSE order)
        /\ overlap' = (overlap \/ Overlaps(s, i, type))
        /\ UNCHANGED <<cash, positions, holds, linked, settling, charged, forgotten>>

(* reserve() grants: the order is kept and linked to its reservation. *)
ReserveGranted(s) ==
    LET amount == orders[s].price * orders[s].quantity
    IN  /\ orders[s].status = "reserving"
        /\ Cardinality(HeldUnits) + amount <= orders[s].snapshot
        /\ holds' = [holds EXCEPT ![s] = [state |-> "held", amount |-> amount]]
        /\ linked' = linked \cup {s}
        /\ Goes(s, [orders[s] EXCEPT !.status = "pending"])
        /\ UNCHANGED <<cash, positions, settling, charged, forgotten, overlap>>

(* reserve() raises: too little is free, by a sum it may have read before  *)
(* others were released, or the database failed.                           *)
ReserveFails(s) ==
    /\ orders[s].status = "reserving"
    /\ Goes(s, Refused)
    /\ UNCHANGED <<cash, positions, holds, linked, settling, charged, forgotten, overlap>>

-----------------------------------------------------------------------------

Value(o, price) == price * o.quantity
Commission(o, price) == Largest(Value(o, price) \div CommissionDiv, CommissionMin)
StampTax(o, price) == IF o.side = "sell" THEN Value(o, price) \div StampDiv ELSE 0

TotalCost(o, price) == Value(o, price) + Commission(o, price) + StampTax(o, price)

(* _update_position_buy() *)
Bought(o) ==
    [i \in DOMAIN positions \cup {o.instrument} |->
       IF i # o.instrument THEN positions[i]
       ELSE IF i \in DOMAIN positions
       THEN [positions[i] EXCEPT !.quantity = @ + o.quantity, !.today = @ + o.quantity]
       ELSE [quantity |-> o.quantity, available |-> 0, today |-> o.quantity]]

(* Mutant: the counters may fall below zero. *)
SoldUnclamped(o) ==
    LET left == [positions EXCEPT ![o.instrument].quantity = @ - o.quantity,
                                  ![o.instrument].available = @ - o.quantity]
    IN  IF o.instrument \notin DOMAIN positions THEN positions
        ELSE IF left[o.instrument].quantity # 0 THEN left
        ELSE [i \in DOMAIN positions \ {o.instrument} |-> positions[i]]

(* _update_position_sell(): never below zero; an empty position goes. *)
Sold(o) ==
    LET left == [positions EXCEPT ![o.instrument].quantity = Largest(0, @ - o.quantity),
                                  ![o.instrument].available = Largest(0, @ - o.quantity)]
    IN  IF o.instrument \notin DOMAIN positions THEN positions
        ELSE IF left[o.instrument].quantity > 0 THEN left
        ELSE [i \in DOMAIN positions \ {o.instrument} |-> positions[i]]

(* The link is popped, and the manager called for a linked order only. *)
Settles(s) ==
    /\ settling' = IF s \in linked THEN settling \cup {s} ELSE settling
    /\ linked' = linked \ {s}

Filled(s, price) == [orders[s] EXCEPT !.status = "filled", !.fill_price = price]

(* fill_order() up to its await.  A purchase that the cash no longer pays  *)
(* is rejected.                                                            *)
FillRejected(s, price) ==
    LET o == orders[s]
    IN  /\ o.status = "pending" /\ o.side = "buy"
        /\ TotalCost(o, price) > cash
        /\ Goes(s, [o EXCEPT !.status = "rejected"])
        /\ Settles(s)
        /\ UNCHANGED <<cash, positions, holds, charged, forgotten, overlap>>

(* The average cost of a position without shares divides by zero. *)
AverageRaises(o) ==
    /\ o.instrument \in DOMAIN positions
    /\ positions[o.instrument].quantity + o.quantity = 0

(* Mutant: the order is FILLED only once consume() has returned. *)
FillBuyLate(s, price) ==
    LET o == orders[s]
    IN  /\ o.status = "pending" /\ o.side = "buy"
        /\ TotalCost(o, price) <= cash
        /\ ~AverageRaises(o)
        /\ cash' = cash - TotalCost(o, price)
        /\ positions' = Bought(o)
        /\ charged' = [charged EXCEPT ![s] = @ + 1]
        /\ IF s \in linked THEN UNCHANGED orders ELSE Goes(s, Filled(s, price))
        /\ Settles(s)
        /\ UNCHANGED <<holds, forgotten, overlap>>

FillBuy(s, price) ==
    LET o == orders[s]
    IN  /\ o.status = "pending" /\ o.side = "buy"
        /\ TotalCost(o, price) <= cash
        /\ ~AverageRaises(o)
        /\ cash' = cash - TotalCost(o, price)
        /\ positions' = Bought(o)
        /\ charged' = [charged EXCEPT ![s] = @ + 1]
        /\ Goes(s, Filled(s, price))
        /\ Settles(s)
        /\ UNCHANGED <<holds, forgotten, overlap>>

(* The exception comes after the cash is gone and before the order is      *)
(* FILLED.                                                                 *)
FillBuyRaises(s, price) ==
    LET o == orders[s]
    IN  /\ o.status = "pending" /\ o.side = "buy"
        /\ TotalCost(o, price) <= cash
        /\ AverageRaises(o)
        /\ cash' = cash - TotalCost(o, price)
        /\ charged' = [charged EXCEPT ![s] = @ + 1]
        /\ UNCHANGED <<positions, orders, holds, linked, settling, forgotten, overlap>>

FillSell(s, price) ==
    LET o == orders[s]
    IN  /\ o.status = "pending" /\ o.side = "sell"
        /\ cash' = cash + Value(o, price) - Commission(o, price) - StampTax(o, price)
        /\ positions' = Sold(o)
        /\ charged' = [charged EXCEPT ![s] = @ + 1]
        /\ Goes(s, Filled(s, price))
        /\ Settles(s)
        /\ UNCHANGED <<holds, forgotten, overlap>>

GivenUp(s) == [holds EXCEPT ![s].state = IF @ = "held" THEN "gone" ELSE @]

(* Mutant: release() of a rejected order is not awaited. *)
SettleFilledOnly(s) ==
    /\ s \in settling
    /\ settling' = settling \ {s}
    /\ holds' = IF orders[s].status = "filled" THEN GivenUp(s) ELSE holds
    /\ UNCHANGED <<cash, positions, orders, linked, charged, forgotten, overlap>>

(* consume() or release() returns, or raises for a row no longer ACTIVE. *)
Settle(s) ==
    /\ s \in settling
    /\ settling' = settling \ {s}
    /\ holds' = GivenUp(s)
    /\ UNCHANGED <<cash, positions, orders, linked, charged, forgotten, overlap>>

(* The database fails under it: logged, and never tried again. *)
SettleFails(s) ==
    /\ s \in settling
    /\ settling' = settling \ {s}
    /\ forgotten' = forgotten \cup {s}
    /\ UNCHANGED <<cash, positions, orders, holds, linked, charged, overlap>>

(* The manager's expiry sweep. *)
Expire(s) ==
    /\ holds[s].state = "held"
    /\ holds' = GivenUp(s)
    /\ UNCHANGED <<cash, positions, orders, linked, settling, charged, forgotten, overlap>>

EndOfDayReset ==
    /\ positions' = [i \in DOMAIN positions |->
                       [positions[i] EXCEPT !.available = positions[i].quantity, !.today = 0]]
    /\ UNCHANGED <<cash, orders, holds, linked, settling, charged, forgotten, overlap>>

-----------------------------------------------------------------------------

Fill(s) ==
    \E price \in Prices :
       \/ FillRejected(s, price)
       \/ FillBuy(s, price)
       \/ FillBuyRaises(s, price)
       \/ FillSell(s, price)

(* Without a resize the cap is the size itself. *)
Caps(i, type, price) == Resizes \cup {Size(i, SideOf(type), price)}

Next ==
    \/ \E s \in Signals :
          \/ SubmitRefused(s)
          \/ \E i \in Instruments, type \in SignalTypes, price \in Prices :
                \E cap \in Caps(i, type, price) : SubmitSignal(s, i, type, price, cap)
          \/ ReserveGranted(s)
          \/ ReserveFails(s)
          \/ Fill(s)
          \/ Settle(s)
          \/ SettleFails(s)
          \/ Expire(s)
    \/ EndOfDayReset

Spec == Init /\ [][Next]_paperVars

-----------------------------------------------------------------------------

TypeOK ==
    /\ cash \in Int
    /\ DOMAIN positions \subseteq Instruments
    /\ positions \in [DOMAIN positions -> Position]
    /\ orders \in [Signals -> OrderState]
    /\ holds \in [Signals -> [state: {"none", "held", "gone"}, amount: Nat]]
    /\ linked \subseteq Signals
    /\ settling \subseteq Signals
    /\ charged \in [Signals -> Nat]
    /\ forgotten \subseteq Signals
    /\ overlap \in BOOLEAN

(* T+1, kept by three counters that different methods write: as long as no *)
(* two sales of an instrument were outstanding together, what can be sold  *)
(* is exactly what was not bought today, however fills, new orders and the *)
(* end of the day interleave.                                              *)
TPlusOneExact ==
    ~overlap => \A i \in DOMAIN positions :
                   positions[i].available + positions[i].today = positions[i].quantity

(* An order for shares moves the account once, when it is FILLED, though   *)
(* fill_order() may be called again while the first call awaits consume(). *)
ChargedOnce ==
    \A s \in Signals :
       (Outstanding(s) \/ orders[s].status = "filled") /\ orders[s].quantity > 0 =>
          charged[s] = IF orders[s].status = "filled" THEN 1 ELSE 0

(* Sales that bring in more than their fees leave no way into debt: what a *)
(* purchase costs at the fill price is checked when it is paid, not when   *)
(* it was sized.                                                           *)
Worthwhile(o) ==
    Value(o, o.fill_price) >= Commission(o, o.fill_price) + StampTax(o, o.fill_price)

NoOverdraft ==
    (\A s \in Signals : (orders[s].status = "filled" /\ orders[s].side = "sell")
                           => Worthwhile(orders[s]))
       => cash >= 0

(* Cash is set aside only for an order that may still be filled or whose   *)
(* settlement is under way: no fill, rejection or repeated fill leaves a   *)
(* reservation behind, unless the manager's own call failed.               *)
HeldForPending ==
    \A s \in Signals : holds[s].state = "held" =>
       \/ orders[s].status = "pending" /\ s \in linked
       \/ s \in settling \cup forgotten

(* The account of a session is exact: shares bought today stay, no order   *)
(* moves it twice, and no purchase overdraws it.                           *)
AccountIsExact == TPlusOneExact /\ ChargedOnce /\ NoOverdraft
=============================================================================
