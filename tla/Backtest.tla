------------------------------ MODULE Backtest ------------------------------
(***************************************************************************)
(* The backtest engine (hqmts/backtest: engine, matcher, portfolio, cost,  *)
(* risk_adapter): bars are replayed in the order of their start; each may  *)
(* begin a day, trigger stops, make the strategy emit orders, and fill the *)
(* orders of its instrument that are in the buffer.  One run() is a chain  *)
(* of small steps here; nothing runs beside it.  The strategy, the risk    *)
(* engine (see RiskEngine) and the market are free.  Prices and money are  *)
(* counted in units in which the rates leave no remainder, and a bar's     *)
(* volume is given as the shares that participation_rate leaves of it.     *)
(* Average costs and the statistics of the result are left out.            *)
(***************************************************************************)
EXTENDS Integers, Sequences

CONSTANTS
    Instruments,    \* instruments with bars
    Traded,         \* those of them in config.instruments
    Orders,         \* BacktestOrders a strategy may emit
    Prices,         \* opening and closing prices
    Volumes,        \* shares of a bar that may be traded
    InitialCash,
    CommissionDiv,  \* commission_rate is 1 / CommissionDiv
    CommissionMin,
    StampDiv,       \* stamp_tax_rate is 1 / StampDiv
    Slippage,
    LimitPercent,   \* PriceLimitRule.get_limit() of the instrument, in percent
    LotSize,
    Resizes,        \* resized_quantity of a RESIZE result
    MaxDelay,       \* MAX_DELAY_ATTEMPTS
    MaxBars         \* bound: bars in all_bars

None == 0           \* no price: the quality gate refuses bars with a price of 0

ASSUME BacktestAssumption ==
    /\ Traded \subseteq Instruments
    /\ Prices \subseteq Nat \ {0}
    /\ Volumes \subseteq Nat
    /\ {CommissionDiv, StampDiv, LotSize} \subseteq Nat \ {0}
    /\ {InitialCash, CommissionMin, Slippage, MaxDelay, MaxBars} \subseteq Nat
    /\ \A p \in Prices : Slippage < p
    /\ LimitPercent \in [Instruments -> 1..100]
    /\ Resizes \subseteq Nat
    /\ Orders \subseteq [instrument: Instruments, side: {"buy", "sell"}, quantity: Nat,
                         limit: Prices \cup {None}, stop: Prices \cup {None},
                         take: Prices \cup {None}]

VARIABLES
    cash,       \* PortfolioState.cash
    pos,        \* PortfolioState.positions; an empty Position is as good as none
    prevClose,  \* _prev_close
    latest,     \* _latest_prices
    bar,        \* the bar of this round of the loop, or NoBar between rounds
    closing,    \* calls of _process_sl_tp() that this bar still has to make
    buffer,     \* orders_buffer, or the list `remaining' while it is rebuilt
    todo,       \* what is left of orders_buffer while it is gone through
    bars,       \* how many bars were replayed
    days,       \* how many daily_values were taken
    trade,      \* history: the last trade, with the cap and the order it had to keep
    held        \* history: shares of earlier days that are still there

btVars == <<cash, pos, prevClose, latest, bar, closing, buffer, todo, bars, days,
            trade, held>>

NoBar == [phase |-> "between", day |-> 0]
Done == [phase |-> "done", day |-> 0]
NoTrade == [side |-> "none"]

Phases == {"triggers", "signals", "matching"}
Bar == [phase: Phases, instrument: Instruments, open: Prices, close: Prices,
        volume: Volumes, completed: BOOLEAN, day: Nat]

Position == [quantity: Nat, today_bought: Nat, stop_loss: Prices \cup {None},
             take_profit: Prices \cup {None}, market_value: Nat]

Least(a, b) == IF a < b THEN a ELSE b
Largest(a, b) == IF a < b THEN b ELSE a

-----------------------------------------------------------------------------

Init ==
    /\ cash = InitialCash
    /\ pos = [i \in Instruments |-> [quantity |-> 0, today_bought |-> 0, stop_loss |-> None,
                                     take_profit |-> None, market_value |-> 0]]
    /\ prevClose = [i \in Instruments |-> None]
    /\ latest = [i \in Instruments |-> None]
    /\ bar = NoBar
    /\ closing = {}
    /\ buffer = <<>>
    /\ todo = <<>>
    /\ bars = 0
    /\ days = 0
    /\ trade = NoTrade
    /\ held = [i \in Instruments |-> 0]

(* max(amount * rate, minimum), and the stamp tax of sales. *)
Commission(amount) == Largest(amount \div CommissionDiv, CommissionMin)
StampTax(amount) == amount \div StampDiv

WithinLimit(i, price) ==
    LET previous == IF prevClose[i] = None THEN bar.open ELSE prevClose[i]
    IN  /\ previous * (100 - LimitPercent[i]) <= price * 100
        /\ price * 100 <= previous * (100 + LimitPercent[i])

FillPrice(side) == IF side = "buy" THEN bar.open + Slippage ELSE bar.open - Slippage

(* A limit order that the opening price does not reach is refused. *)
LimitReached(o) ==
    o.limit # None => IF o.side = "buy" THEN bar.open <= o.limit ELSE bar.open >= o.limit

Sellable(i) == pos[i].quantity - pos[i].today_bought

(* Mutant: the volume alone limits a purchase. *)
AffordableAnything(price) == bar.volume

Affordable(price) == IF cash >= 0 THEN cash \div price ELSE 0

Asked(quantity, most) == IF quantity > 0 THEN Least(quantity, most) ELSE most

Lots(quantity) == (quantity \div LotSize) * LotSize

(* match_order_from_bt(): what is filled of an order at this bar; 0 shares *)
(* stand for every reason to reject.  A quantity of 0 asks for all there   *)
(* is - when buying, too.                                                  *)
Match(o) ==
    LET price == FillPrice(o.side)
        most == IF o.side = "buy" THEN Affordable(price) ELSE Sellable(o.instrument)
    IN  IF LimitReached(o) /\ WithinLimit(o.instrument, price)
        THEN Lots(Asked(o.quantity, Least(most, bar.volume)))
        ELSE 0

Entry == [order: Orders, delay_count: 0..MaxDelay, at: Nat]

(* origin says when the order was decided on and what it asked for before  *)
(* the risk engine resized it to what it is now given.                     *)
TradeOf(o, origin, shares) ==
    [side |-> o.side, instrument |-> o.instrument, quantity |-> shares, price |-> FillPrice(o.side),
     on |-> bar.instrument, at |-> bars, decided |-> origin.at, asked |-> origin.asked,
     given |-> o.quantity, fee |-> Commission(FillPrice(o.side) * shares)]

(* Mutant: today's purchases are forgotten. *)
BoughtUntracked(i, shares) == [pos[i] EXCEPT !.quantity = @ + shares]

Bought(i, shares) == [pos[i] EXCEPT !.quantity = @ + shares, !.today_bought = @ + shares]

(* apply_fill(): cash and position move, and the trade is recorded.  The   *)
(* cash that was affordable leaves the commission out.  A sale takes its   *)
(* shares from the position in the form `from', with its stops or without. *)
ApplyFill(o, origin, from) ==
    LET i == o.instrument
        shares == Match(o)
        amount == FillPrice(o.side) * shares
    IN  /\ trade' = TradeOf(o, origin, shares)
        /\ IF o.side = "buy"
           THEN /\ cash' = cash - amount - Commission(amount)
                /\ pos' = [pos EXCEPT ![i] = Bought(i, shares)]
                /\ UNCHANGED held
           ELSE /\ cash' = cash + amount - Commission(amount) - StampTax(amount)
                /\ pos' = [pos EXCEPT ![i] = [from EXCEPT !.quantity = @ - shares]]
                /\ held' = [held EXCEPT ![i] = @ - shares]

Cleared(position) == [position EXCEPT !.stop_loss = None, !.take_profit = None]

-----------------------------------------------------------------------------
(* One round of the loop of run(). *)

Marked(position, i) ==
    IF latest[i] = None THEN position
    ELSE [position EXCEPT !.market_value = latest[i] * position.quantity]

(* Mutant: the snapshot is taken of values left from the day before. *)
NewDayUnmarked(day) ==
    IF bars = 0 \/ day = 0 THEN pos
    ELSE [i \in Instruments |-> [pos[i] EXCEPT !.today_bought = 0]]

(* A change of day values the positions, takes the snapshot of the day     *)
(* that ended, and lets all shares be sold.                                *)
NewDay(day) ==
    IF bars = 0 \/ day = 0 THEN pos
    ELSE [i \in Instruments |-> [Marked(pos[i], i) EXCEPT !.today_bought = 0]]

(* Which stops and profits the latest closes trigger, for all positions,   *)
(* on a completed bar of any instrument.                                   *)
Triggered(positions, closes) ==
    LET Reached(kind, position, close) ==
            \/ /\ kind = "stop" /\ position.stop_loss # None
               /\ close <= position.stop_loss
            \/ /\ kind = "take" /\ position.take_profit # None
               /\ close >= position.take_profit
    IN  {t \in {"stop", "take"} \X Traded :
            /\ positions[t[2]].quantity > 0
            /\ closes[t[2]] # None
            /\ Reached(t[1], positions[t[2]], closes[t[2]])}

(* The next bar; day is 1 when it opens another day than the one before. *)
NextBar(i, open, close, volume, completed, day) ==
    LET positions == NewDay(day)
        closes == [latest EXCEPT ![i] = close]
    IN  /\ bar = NoBar
        /\ bars < MaxBars
        /\ bars = 0 => day = 0
        /\ bar' = [phase |-> "triggers", instrument |-> i, open |-> open, close |-> close,
                   volume |-> volume, completed |-> completed, day |-> day]
        /\ latest' = closes
        /\ pos' = positions
        /\ closing' = IF completed THEN Triggered(positions, closes) ELSE {}
        /\ held' = IF day = 1 THEN [j \in Instruments |-> pos[j].quantity] ELSE held
        /\ days' = days + day
        /\ bars' = bars + 1
        /\ UNCHANGED <<cash, prevClose, buffer, todo, trade>>

(* _process_sl_tp(): all sellable shares go at this bar, whosesoever it    *)
(* is; a sale of any size clears the stops.                                *)
CloseOut(kind, i) ==
    LET o == [instrument |-> i, side |-> "sell", quantity |-> 0, limit |-> None,
              stop |-> None, take |-> None]
    IN  /\ <<kind, i>> \in closing
        /\ closing' = closing \ {<<kind, i>>}
        /\ IF pos[i].quantity > 0 /\ Match(o) > 0
           THEN ApplyFill(o, [at |-> bars - 1, asked |-> 0], Cleared(pos[i]))
           ELSE UNCHANGED <<cash, pos, held, trade>>
        /\ UNCHANGED <<prevClose, latest, bar, buffer, todo, bars, days>>

Triggers == bar.phase = "triggers" /\ closing = {}

(* The first bar of an instrument only seeds its previous close. *)
WarmUp ==
    /\ Triggers
    /\ prevClose[bar.instrument] = None
    /\ prevClose' = [prevClose EXCEPT ![bar.instrument] = bar.close]
    /\ bar' = NoBar
    /\ UNCHANGED <<cash, pos, latest, closing, buffer, todo, bars, days, trade, held>>

WithStops(o) ==
    [pos EXCEPT ![o.instrument].stop_loss = IF o.stop = None THEN @ ELSE o.stop,
                ![o.instrument].take_profit = IF o.take = None THEN @ ELSE o.take]

(* The strategy sees the bar and emits an order or none; stops are set at  *)
(* once, whatever becomes of the order.                                    *)
Emit(emitted) ==
    /\ Triggers
    /\ prevClose[bar.instrument] # None
    /\ emitted # {} => bar.instrument \in Traded
    /\ bar' = [bar EXCEPT !.phase = "matching"]
    /\ todo' = IF emitted = {} THEN buffer
               ELSE LET o == CHOOSE x \in emitted : TRUE
                    IN  Append(buffer, [order |-> o, delay_count |-> 0, at |-> bars])
    /\ pos' = IF emitted = {} THEN pos ELSE WithStops(CHOOSE x \in emitted : TRUE)
    /\ buffer' = <<>>
    /\ UNCHANGED <<cash, prevClose, latest, closing, bars, days, trade, held>>

Matching == bar.phase = "matching" /\ closing = {} /\ todo # <<>>

Takes(entry) == entry.order.instrument = bar.instrument /\ bar.completed

(* Orders of other instruments, and all on a bar still open, stay. *)
KeepOrder ==
    /\ Matching
    /\ ~Takes(Head(todo))
    /\ todo' = Tail(todo)
    /\ buffer' = Append(buffer, Head(todo))
    /\ UNCHANGED <<cash, pos, prevClose, latest, bar, closing, bars, days, trade, held>>

(* Rejected by risk, or an instrument that is not configured. *)
DropOrder ==
    /\ Matching
    /\ Takes(Head(todo))
    /\ todo' = Tail(todo)
    /\ UNCHANGED <<cash, pos, prevClose, latest, bar, closing, buffer, bars, days, trade, held>>

(* Mutant: delayed for ever. *)
DelayOrderAlways ==
    /\ Matching
    /\ Takes(Head(todo))
    /\ Head(todo).order.instrument \in Traded
    /\ todo' = Tail(todo)
    /\ buffer' = Append(buffer, [Head(todo) EXCEPT !.delay_count = @ + 1])
    /\ UNCHANGED <<cash, pos, prevClose, latest, bar, closing, bars, days, trade, held>>

(* Risk delays it: it waits for another bar, MaxDelay times. *)
DelayOrder ==
    /\ Matching
    /\ Takes(Head(todo))
    /\ Head(todo).order.instrument \in Traded
    /\ todo' = Tail(todo)
    /\ buffer' = IF Head(todo).delay_count < MaxDelay
                 THEN Append(buffer, [Head(todo) EXCEPT !.delay_count = @ + 1])
                 ELSE buffer
    /\ UNCHANGED <<cash, pos, prevClose, latest, bar, closing, bars, days, trade, held>>

(* Risk allows or resizes it: it is matched with this bar, once. *)
FillOrder(resized) ==
    LET entry == Head(todo)
        origin == [at |-> entry.at, asked |-> entry.order.quantity]
        o == IF resized = {} THEN entry.order
             ELSE [entry.order EXCEPT !.quantity = CHOOSE q \in resized : TRUE]
    IN  /\ Matching
        /\ Takes(entry)
        /\ o.instrument \in Traded
        /\ todo' = Tail(todo)
        /\ IF Match(o) > 0 THEN ApplyFill(o, origin, pos[o.instrument])
           ELSE UNCHANGED <<cash, pos, held, trade>>
        /\ UNCHANGED <<prevClose, latest, bar, closing, buffer, bars, days>>

(* FORCE_FLATTEN: every position is closed out at this bar, and the order  *)
(* counts as filled.                                                       *)
FlattenAll ==
    /\ Matching
    /\ Takes(Head(todo))
    /\ Head(todo).order.instrument \in Traded
    /\ todo' = Tail(todo)
    /\ closing' = {<<"flatten", i>> : i \in {j \in Traded : pos[j].quantity > 0}}
    /\ UNCHANGED <<cash, pos, prevClose, latest, bar, buffer, bars, days, trade, held>>

EndBar ==
    /\ bar.phase = "matching" /\ closing = {} /\ todo = <<>>
    /\ prevClose' = [prevClose EXCEPT ![bar.instrument] = bar.close]
    /\ bar' = NoBar
    /\ UNCHANGED <<cash, pos, latest, closing, buffer, todo, bars, days, trade, held>>

(* The last snapshot is taken without valuing the positions again. *)
Finish ==
    /\ bar = NoBar
    /\ bars > 0
    /\ days' = days + 1
    /\ bar' = Done
    /\ UNCHANGED <<cash, pos, prevClose, latest, closing, buffer, todo, bars, trade, held>>

Next ==
    \/ \E i \in Instruments, open, close \in Prices, volume \in Volumes,
          completed \in BOOLEAN, day \in {0, 1} : NextBar(i, open, close, volume, completed, day)
    \/ \E kind \in {"stop", "take", "flatten"}, i \in Traded : CloseOut(kind, i)
    \/ WarmUp
    \/ Emit({})
    \/ \E o \in Orders : Emit({o})
    \/ KeepOrder
    \/ DropOrder
    \/ DelayOrder
    \/ FillOrder({})
    \/ \E q \in Resizes : FillOrder({q})
    \/ FlattenAll
    \/ EndBar
    \/ Finish

Spec == Init /\ [][Next]_btVars

-----------------------------------------------------------------------------

TypeOK ==
    /\ cash \in Int
    /\ pos \in [Instruments -> Position]
    /\ prevClose \in [Instruments -> Prices \cup {None}]
    /\ latest \in [Instruments -> Prices \cup {None}]
    /\ bar \in Bar \cup {NoBar, Done}
    /\ closing \subseteq {"stop", "take", "flatten"} \X Traded
    /\ buffer \in Seq(Entry) /\ todo \in Seq(Entry)
    /\ bars \in 0..MaxBars
    /\ days \in Nat
    /\ held \in [Instruments -> Nat]

(* T+1 (matcher.py: "cannot sell shares bought today"): what may be sold   *)
(* of a position is what is left of the shares of earlier days, whatever   *)
(* stops, flattenings and orders sold of them meanwhile.                   *)
TPlusOne ==
    \A i \in Instruments : held[i] >= 0 /\ pos[i].quantity - pos[i].today_bought = held[i]

(* A purchase may leave the cash below zero (the affordable quantity does  *)
(* not count the commission), but by no more than that commission, and no  *)
(* purchase follows until a sale brings cash in.                           *)
OverdrawnByFeeOnly ==
    [][cash' < cash /\ trade'.side = "buy" => cash' >= -trade'.fee]_btVars

(* matcher.py, rules 4 and 5: a trade is of whole lots, and of no more     *)
(* shares than its order asked for, however often it was delayed and met   *)
(* by bars with more volume, unless the order was open-ended or the risk   *)
(* engine resized it: to no shares, which the matcher takes for an         *)
(* open-ended order, or to more than it asked for.                         *)
TradeWithinOrder ==
    trade # NoTrade =>
        /\ trade.quantity > 0 /\ trade.quantity % LotSize = 0
        /\ trade.given > 0 => trade.quantity <= trade.given
        /\ trade.asked > 0 /\ trade.quantity > trade.asked =>
              trade.given \in Resizes /\ (trade.given = 0 \/ trade.given > trade.asked)

(* portfolio.py, DailyValue: "Portfolio value snapshot at end of a trading *)
(* day".  The snapshot a change of day takes values every position at the  *)
(* last close before the change.                                           *)
DaysValuedAtTheirClose ==
    [][days' # days /\ bar' # Done =>
          \A i \in Instruments : pos'[i].market_value = latest[i] * pos[i].quantity]_btVars

(* matcher.py: "Matched at next tradeable bar's open price": an order is   *)
(* filled by a later bar than the one whose close led to it.               *)
FilledLater == trade # NoTrade => trade.at > trade.decided

=============================================================================
