--------------------------- MODULE BacktestProofs ---------------------------
(***************************************************************************)
(* T+1, the size of the trades, the cash, the types and the value of a day *)
(* of the backtest engine, for any instruments, orders, prices, volumes,   *)
(* rates, lots and delays.                                                 *)
(***************************************************************************)
EXTENDS Backtest, SequenceTheorems, TLAPS

LEMMA LotsBelow ==
    ASSUME NEW q \in Nat
    PROVE  Lots(q) \in Nat /\ Lots(q) <= q /\ Lots(q) % LotSize = 0
<1>1. LotSize \in Nat /\ LotSize > 0
  BY BacktestAssumption
<1> DEFINE n == q \div LotSize
<1>2. n \in Nat /\ n * LotSize <= q
  BY <1>1
<1>3. n * LotSize \in Nat
  BY <1>1, <1>2
<1> HIDE DEF n
<1>4. (n * LotSize) % LotSize = 0
  BY <1>1, <1>2
<1> QED
  BY <1>2, <1>3, <1>4 DEF Lots, n

LEMMA AffordableIsNat ==
    ASSUME NEW price \in Nat \ {0}, cash \in Int
    PROVE  Affordable(price) \in Nat
<1>1. ASSUME cash >= 0
      PROVE  cash \div price \in Nat
  BY <1>1
<1> QED
  BY <1>1 DEF Affordable

LEMMA AffordablePays ==
    ASSUME NEW price \in Nat \ {0}, NEW n \in Nat, n <= Affordable(price), cash \in Int, n > 0
    PROVE  price * n <= cash
<1>1. cash >= 0 /\ n <= cash \div price
  BY DEF Affordable
<1> DEFINE most == cash \div price
<1>2. most \in Nat /\ price * most <= cash
  BY <1>1
<1> HIDE DEF most
<1>3. price * n <= price * most
  BY <1>1, <1>2 DEF most
<1>4. price * n \in Int /\ price * most \in Int
  BY <1>2
<1> QED
  BY <1>2, <1>3, <1>4

-----------------------------------------------------------------------------

SoundOrder(o) ==
    /\ o.instrument \in Instruments /\ o.side \in {"buy", "sell"} /\ o.quantity \in Nat

SoundEntry(entry) == SoundOrder(entry.order)

(* Shares bought today are among the shares there are, and those that are  *)
(* not are exactly what is left of earlier days.                           *)
SoundPosition(position, left) ==
    /\ {"quantity", "today_bought", "stop_loss", "take_profit", "market_value"}
          \subseteq DOMAIN position
    /\ position.quantity \in Nat /\ position.today_bought \in Nat /\ left \in Nat
    /\ position.quantity - position.today_bought = left

SoundBar == bar.phase \in Phases => bar.open \in Prices /\ bar.volume \in Nat

BtInv ==
    /\ cash \in Int
    /\ DOMAIN pos = Instruments /\ DOMAIN held = Instruments
    /\ \A i \in Instruments : SoundPosition(pos[i], held[i])
    /\ buffer \in Seq([order: Orders, delay_count: Int, at: Int])
    /\ todo \in Seq([order: Orders, delay_count: Int, at: Int])
    /\ bars \in Int
    /\ SoundBar
    /\ closing \subseteq {"stop", "take", "flatten"} \X Traded
    /\ bar.phase \notin Phases => closing = {}
    /\ TradeWithinOrder

(* What is filled of an order that a bar may take.                         *)
LEMMA MatchBounds ==
    ASSUME NEW o, SoundOrder(o), BtInv, bar.phase \in Phases
    PROVE  /\ Match(o) \in Nat /\ Match(o) % LotSize = 0
           /\ o.quantity > 0 => Match(o) <= o.quantity
           /\ o.side = "sell" => Match(o) <= Sellable(o.instrument)
           /\ o.side = "buy" => Match(o) <= Affordable(FillPrice("buy"))
<1> DEFINE price == FillPrice(o.side)
           most == IF o.side = "buy" THEN Affordable(price) ELSE Sellable(o.instrument)
<1>1. price \in Nat \ {0} /\ bar.volume \in Nat
  <2>1. bar.open \in Prices /\ bar.volume \in Nat
    BY DEF BtInv, SoundBar
  <2>2. bar.open \in Nat /\ Slippage \in Nat /\ Slippage < bar.open
    BY <2>1, BacktestAssumption
  <2> QED
    BY <2>1, <2>2 DEF FillPrice
<1>2. Affordable(price) \in Nat
  <2> HIDE DEF price, most
  <2>1. cash \in Int
    BY DEF BtInv
  <2> QED
    BY <1>1, <2>1, AffordableIsNat
<1>3. Sellable(o.instrument) \in Nat
  BY DEF Sellable, BtInv, SoundPosition, SoundOrder
<1>4. most \in Nat
  BY <1>2, <1>3
<1> DEFINE asked == Asked(o.quantity, Least(most, bar.volume))
<1> HIDE DEF most, price
<1>5. /\ asked \in Nat /\ asked <= most /\ (o.quantity > 0 => asked <= o.quantity)
  BY <1>1, <1>4 DEF Asked, Least, SoundOrder
<1> HIDE DEF asked
<1>6. Lots(asked) \in Nat /\ Lots(asked) <= asked /\ Lots(asked) % LotSize = 0
  BY <1>5, LotsBelow
<1>7. 0 % LotSize = 0
  BY BacktestAssumption
<1>8. Match(o) = Lots(asked) \/ Match(o) = 0
  BY DEF Match, asked, most, price
<1>9. /\ Match(o) \in Nat /\ Match(o) <= most /\ Match(o) % LotSize = 0
      /\ o.quantity > 0 => Match(o) <= o.quantity
  BY <1>4, <1>5, <1>6, <1>7, <1>8 DEF SoundOrder
<1>10. /\ o.side = "sell" => most = Sellable(o.instrument)
       /\ o.side = "buy" => most = Affordable(FillPrice("buy"))
  BY DEF most, price
<1> QED
  BY <1>9, <1>10

LEMMA BtInvInit == Init => BtInv
BY BacktestAssumption DEF Init, BtInv, SoundPosition, SoundBar, NoBar, Phases, TradeWithinOrder

LEMMA FillPriceIsNat ==
    ASSUME BtInv, bar.phase \in Phases, NEW side \in {"buy", "sell"}
    PROVE  FillPrice(side) \in Nat \ {0}
<1>1. bar.open \in Prices
  BY DEF BtInv, SoundBar
<1>2. bar.open \in Nat /\ Slippage \in Nat /\ Slippage < bar.open
  BY <1>1, BacktestAssumption
<1> QED
  BY <1>2 DEF FillPrice

LEMMA FeesAreInt ==
    ASSUME NEW amount \in Nat
    PROVE  Commission(amount) \in Int /\ StampTax(amount) \in Int
<1>1. /\ CommissionDiv \in Nat /\ CommissionDiv > 0 /\ StampDiv \in Nat /\ StampDiv > 0
      /\ CommissionMin \in Nat
  BY BacktestAssumption
<1>2. amount \div CommissionDiv \in Int /\ amount \div StampDiv \in Int
  BY <1>1
<1> QED
  BY <1>1, <1>2 DEF Commission, StampTax, Largest

(* A fill keeps the cash a number and the positions sound, whatever        *)
(* becomes of the stops.                                                   *)
LEMMA FillIsSound ==
    ASSUME BtInv, bar.phase \in Phases, NEW o, SoundOrder(o), NEW entry, Match(o) > 0,
           \/ ApplyFill(o, entry, pos[o.instrument])
           \/ ApplyFill(o, entry, Cleared(pos[o.instrument]))
    PROVE  /\ cash' \in Int
           /\ DOMAIN pos' = Instruments /\ DOMAIN held' = Instruments
           /\ \A i \in Instruments : SoundPosition(pos'[i], held'[i])
           /\ trade' = TradeOf(o, entry, Match(o))
           /\ o.side = "buy" =>
                 LET amount == FillPrice("buy") * Match(o)
                 IN  cash' = cash - amount - Commission(amount)
<1> DEFINE n == Match(o)
           i == o.instrument
           amount == FillPrice(o.side) * n
<1>1. /\ n \in Nat /\ n > 0 /\ i \in Instruments
      /\ o.side = "sell" => n <= pos[i].quantity - pos[i].today_bought
  BY MatchBounds DEF Sellable, SoundOrder
<1>2. amount \in Nat
  BY <1>1, FillPriceIsNat DEF SoundOrder
<1>3. Commission(amount) \in Int /\ StampTax(amount) \in Int /\ cash \in Int
  <2> HIDE DEF amount
  <2> QED
    BY <1>2, FeesAreInt DEF BtInv
<1>4. SoundPosition(pos[i], held[i]) /\ DOMAIN pos = Instruments /\ DOMAIN held = Instruments
      /\ \A j \in Instruments : SoundPosition(pos[j], held[j])
  BY <1>1 DEF BtInv
<1>5. CASE o.side = "buy"
  <2>1. /\ cash' = cash - amount - Commission(amount) /\ UNCHANGED held
        /\ pos' = [pos EXCEPT ![i] = Bought(i, n)] /\ trade' = TradeOf(o, entry, n)
    BY <1>5 DEF ApplyFill
  <2>2. SoundPosition(Bought(i, n), held[i])
    BY <1>1, <1>4 DEF Bought, SoundPosition
  <2> HIDE DEF n, amount
  <2>3. cash' \in Int
    BY <1>2, <1>3, <2>1
  <2>4. /\ DOMAIN pos' = Instruments /\ DOMAIN held' = Instruments
        /\ \A j \in Instruments : SoundPosition(pos'[j], held'[j])
    BY <1>4, <2>1, <2>2
  <2> QED
    BY <1>5, <2>1, <2>3, <2>4 DEF n, amount
<1>6. CASE o.side = "sell"
  <2> DEFINE sold == [pos[i] EXCEPT !.quantity = @ - n]
             closed == [Cleared(pos[i]) EXCEPT !.quantity = @ - n]
  <2>1. /\ cash' = cash + amount - Commission(amount) - StampTax(amount)
        /\ held' = [held EXCEPT ![i] = @ - n] /\ trade' = TradeOf(o, entry, n)
        /\ pos' = [pos EXCEPT ![i] = sold] \/ pos' = [pos EXCEPT ![i] = closed]
    BY <1>6 DEF ApplyFill
  <2>2. SoundPosition(sold, held[i] - n) /\ SoundPosition(closed, held[i] - n)
    BY <1>1, <1>4, <1>6 DEF SoundPosition, Cleared
  <2> HIDE DEF n, amount, sold, closed
  <2>3. cash' \in Int
    BY <1>2, <1>3, <2>1
  <2>4. /\ DOMAIN pos' = Instruments /\ DOMAIN held' = Instruments
        /\ \A j \in Instruments : SoundPosition(pos'[j], held'[j])
    BY <1>1, <1>4, <2>1, <2>2
  <2> QED
    BY <1>6, <2>1, <2>3, <2>4 DEF n, amount
<1> QED
  BY <1>5, <1>6 DEF SoundOrder

LEMMA OrdersAreSound ==
    /\ \A o \in Orders : SoundOrder(o)
    /\ \A o \in Orders, q \in Resizes : SoundOrder([o EXCEPT !.quantity = q])
<1>1. /\ Orders \subseteq [instrument: Instruments, side: {"buy", "sell"}, quantity: Nat,
                          limit: Prices \cup {None}, stop: Prices \cup {None},
                          take: Prices \cup {None}]
      /\ Resizes \subseteq Nat
  BY BacktestAssumption
<1> QED
  BY <1>1 DEF SoundOrder

LEMMA TradeIsWithinOrder ==
    ASSUME BtInv, bar.phase \in Phases, NEW o, SoundOrder(o), NEW origin, Match(o) > 0,
           origin.asked \in Nat, o.quantity # origin.asked => o.quantity \in Resizes,
           trade' = TradeOf(o, origin, Match(o))
    PROVE  TradeWithinOrder'
<1>1. /\ Match(o) \in Nat /\ Match(o) % LotSize = 0 /\ o.quantity \in Nat
      /\ o.quantity > 0 => Match(o) <= o.quantity
  BY MatchBounds DEF SoundOrder
<1>2. /\ trade'.quantity = Match(o) /\ trade'.asked = origin.asked
      /\ trade'.given = o.quantity
  BY DEF TradeOf
<1>3. origin.asked > 0 /\ Match(o) > origin.asked =>
         o.quantity \in Resizes /\ (o.quantity = 0 \/ o.quantity > origin.asked)
  BY <1>1
<1> QED
  BY <1>1, <1>2, <1>3 DEF TradeWithinOrder

(* A purchase leaves no more missing than its commission.                  *)
LEMMA PurchaseIsPaid ==
    ASSUME BtInv, bar.phase \in Phases, NEW o, SoundOrder(o), NEW entry, Match(o) > 0,
           \/ ApplyFill(o, entry, pos[o.instrument])
           \/ ApplyFill(o, entry, Cleared(pos[o.instrument])), trade'.side = "buy"
    PROVE  cash' >= -trade'.fee
<1> DEFINE price == FillPrice("buy")
           n == Match(o)
<1>1. trade' = TradeOf(o, entry, n)
  BY FillIsSound
<1>2. o.side = "buy" /\ trade'.fee = Commission(FillPrice(o.side) * n)
  BY <1>1 DEF TradeOf
<1>3. cash' = cash - price * n - Commission(price * n)
  BY <1>2, FillIsSound
<1>4. price \in Nat \ {0} /\ n \in Nat /\ n > 0 /\ n <= Affordable(price) /\ cash \in Int
  BY <1>2, FillPriceIsNat, MatchBounds DEF BtInv
<1> HIDE DEF price, n
<1> DEFINE amount == price * n
<1>5. amount <= cash /\ amount \in Nat
  BY <1>4, AffordablePays
<1>6. trade'.fee = Commission(amount)
  BY <1>2 DEF price
<1> HIDE DEF amount
<1>7. Commission(amount) \in Int
  BY <1>5, FeesAreInt
<1>8. cash' = cash - amount - Commission(amount)
  BY <1>3 DEF amount
<1> QED
  BY <1>4, <1>5, <1>6, <1>7, <1>8

-----------------------------------------------------------------------------
(* The steps of a round.                                                   *)

Entries == Seq([order: Orders, delay_count: Int, at: Int])

LEMMA NextBarStep ==
    ASSUME BtInv, NEW i \in Instruments, NEW open \in Prices, NEW close \in Prices,
           NEW volume \in Volumes, NEW completed \in BOOLEAN, NEW day \in {0, 1},
           NextBar(i, open, close, volume, completed, day)
    PROVE  BtInv'
<1>1. /\ UNCHANGED <<cash, prevClose, buffer, todo, trade>>
      /\ bar'.phase = "triggers" /\ bar'.open = open /\ bar'.volume = volume
      /\ pos' = NewDay(day) /\ bars' = bars + 1 /\ (bars = 0 => day = 0)
      /\ held' = IF day = 1 THEN [j \in Instruments |-> pos[j].quantity] ELSE held
  BY DEF NextBar
<1>2. closing' \subseteq {"stop", "take", "flatten"} \X Traded
  BY DEF NextBar, Triggered
<1>3. volume \in Nat
  BY BacktestAssumption
<1>4. \A j \in Instruments : SoundPosition(pos[j], held[j])
  BY DEF BtInv
<1>5. CASE day = 0
  BY <1>1, <1>2, <1>3, <1>5 DEF BtInv, NewDay, SoundBar, Phases, TradeWithinOrder
<1>6. CASE day = 1
  <2>1. pos' = [j \in Instruments |-> [Marked(pos[j], j) EXCEPT !.today_bought = 0]]
    BY <1>1, <1>6 DEF NewDay
  <2>2. \A j \in Instruments : /\ DOMAIN Marked(pos[j], j) = DOMAIN pos[j]
                                /\ Marked(pos[j], j).quantity = pos[j].quantity
    BY <1>4 DEF Marked, SoundPosition
  <2>3. \A j \in Instruments : SoundPosition(pos'[j], held'[j])
    BY <1>1, <1>4, <1>6, <2>1, <2>2 DEF SoundPosition
  <2>4. DOMAIN pos' = Instruments /\ DOMAIN held' = Instruments
    BY <1>1, <1>6, <2>1
  <2> QED
    BY <1>1, <1>2, <1>3, <2>3, <2>4 DEF BtInv, SoundBar, Phases, TradeWithinOrder
<1> QED
  BY <1>5, <1>6

LEMMA CloseOutStep ==
    ASSUME BtInv, NEW kind \in {"stop", "take", "flatten"}, NEW i \in Traded, CloseOut(kind, i)
    PROVE  BtInv' /\ (cash' < cash /\ trade'.side = "buy" => cash' >= -trade'.fee)
<1> DEFINE o == [instrument |-> i, side |-> "sell", quantity |-> 0, limit |-> None,
                 stop |-> None, take |-> None]
           origin == [at |-> bars - 1, asked |-> 0]
<1>1. SoundOrder(o) /\ o.side = "sell" /\ origin.asked = o.quantity /\ origin.asked \in Nat
  BY BacktestAssumption DEF SoundOrder
<1>2. /\ bar.phase \in Phases /\ closing' \subseteq closing
      /\ UNCHANGED <<prevClose, latest, bar, buffer, todo, bars, days>>
      /\ \/ Match(o) > 0 /\ ApplyFill(o, origin, Cleared(pos[o.instrument]))
         \/ UNCHANGED <<cash, pos, held, trade>>
  BY DEF CloseOut, BtInv
<1> HIDE DEF o, origin
<1>3. CASE UNCHANGED <<cash, pos, held, trade>>
  <2>1. BtInv'
    BY <1>2, <1>3 DEF BtInv, SoundBar, TradeWithinOrder
  <2> QED
    BY <1>3, <2>1 DEF BtInv
<1>4. CASE Match(o) > 0 /\ ApplyFill(o, origin, Cleared(pos[o.instrument]))
  <2>1. /\ cash' \in Int
        /\ DOMAIN pos' = Instruments /\ DOMAIN held' = Instruments
        /\ \A j \in Instruments : SoundPosition(pos'[j], held'[j])
        /\ trade' = TradeOf(o, origin, Match(o))
    BY <1>1, <1>2, <1>4, FillIsSound
  <2>2. TradeWithinOrder'
    BY <1>1, <1>2, <1>4, <2>1, TradeIsWithinOrder
  <2>3. trade'.side # "buy"
    BY <1>1, <2>1 DEF TradeOf
  <2> QED
    BY <1>2, <2>1, <2>2, <2>3 DEF BtInv, SoundBar
<1> QED
  BY <1>2, <1>3, <1>4

LEMMA FillOrderStep ==
    ASSUME BtInv, NEW resized, resized = {} \/ \E q \in Resizes : resized = {q}, FillOrder(resized)
    PROVE  BtInv' /\ (cash' < cash /\ trade'.side = "buy" => cash' >= -trade'.fee)
<1> DEFINE entry == Head(todo)
           origin == [at |-> entry.at, asked |-> entry.order.quantity]
           o == IF resized = {} THEN entry.order
                ELSE [entry.order EXCEPT !.quantity = CHOOSE q \in resized : TRUE]
<1>1. todo \in Entries /\ todo # <<>>
  BY DEF FillOrder, Matching, BtInv, Entries
<1>2. entry \in [order: Orders, delay_count: Int, at: Int] /\ Tail(todo) \in Entries
  BY <1>1, HeadTailProperties DEF Entries
<1>3. /\ SoundOrder(o) /\ origin.asked \in Nat
      /\ o.quantity # origin.asked => o.quantity \in Resizes
  <2> DEFINE given == o.quantity # origin.asked => o.quantity \in Resizes
  <2>1. CASE resized = {}
    BY <1>2, <2>1, OrdersAreSound DEF SoundOrder
  <2>2. ASSUME NEW q \in Resizes, resized = {q}
        PROVE  SoundOrder(o) /\ origin.asked \in Nat /\ given
    <3>1. o = [entry.order EXCEPT !.quantity = q]
      BY <2>2
    <3>2. SoundOrder(o) /\ SoundOrder(entry.order)
      BY <1>2, <3>1, OrdersAreSound
    <3>3. o.quantity = q
      BY <1>2, <3>1, BacktestAssumption
    <3> QED
      BY <3>2, <3>3 DEF SoundOrder
  <2> QED
    BY <2>1, <2>2
<1>4. /\ bar.phase \in Phases /\ todo' = Tail(todo)
      /\ UNCHANGED <<prevClose, latest, bar, closing, buffer, bars, days>>
      /\ \/ Match(o) > 0 /\ ApplyFill(o, origin, pos[o.instrument])
         \/ UNCHANGED <<cash, pos, held, trade>>
  BY DEF FillOrder, Matching, Phases
<1> HIDE DEF o, entry, origin
<1>5. CASE UNCHANGED <<cash, pos, held, trade>>
  <2>1. BtInv'
    BY <1>2, <1>4, <1>5 DEF BtInv, SoundBar, TradeWithinOrder, Entries
  <2> QED
    BY <1>5, <2>1 DEF BtInv
<1>6. CASE Match(o) > 0 /\ ApplyFill(o, origin, pos[o.instrument])
  <2>1. /\ cash' \in Int
        /\ DOMAIN pos' = Instruments /\ DOMAIN held' = Instruments
        /\ \A j \in Instruments : SoundPosition(pos'[j], held'[j])
        /\ trade' = TradeOf(o, origin, Match(o))
    BY <1>3, <1>4, <1>6, FillIsSound
  <2>2. TradeWithinOrder'
    BY <1>3, <1>4, <1>6, <2>1, TradeIsWithinOrder
  <2>3. trade'.side = "buy" => cash' >= -trade'.fee
    BY <1>3, <1>4, <1>6, PurchaseIsPaid
  <2> QED
    BY <1>2, <1>4, <2>1, <2>2, <2>3 DEF BtInv, SoundBar, Entries
<1> QED
  BY <1>4, <1>5, <1>6

(* The strategy's orders set the stops of their positions, and wait.       *)
LEMMA EmitStep ==
    ASSUME BtInv, NEW emitted, emitted = {} \/ \E o \in Orders : emitted = {o}, Emit(emitted)
    PROVE  BtInv'
<1>1. /\ UNCHANGED <<cash, latest, closing, bars, trade, held>> /\ buffer' = <<>>
      /\ bar' = [bar EXCEPT !.phase = "matching"] /\ bar.phase = "triggers" /\ closing = {}
  BY DEF Emit, Triggers
<1>2. SoundBar' /\ TradeWithinOrder' /\ buffer' \in Entries
  <2>1. bar'.open = bar.open /\ bar'.volume = bar.volume
    BY <1>1
  <2> QED
    BY <1>1, <2>1, EmptySeq DEF BtInv, SoundBar, TradeWithinOrder, Phases, Entries
<1>3. CASE emitted = {}
  BY <1>1, <1>2, <1>3 DEF Emit, BtInv, Entries
<1>4. ASSUME NEW o \in Orders, emitted = {o}
      PROVE  BtInv'
  <2> DEFINE entry == [order |-> o, delay_count |-> 0, at |-> bars]
  <2>1. (CHOOSE x \in emitted : TRUE) = o /\ emitted # {}
    BY <1>4
  <2>2. todo' = Append(buffer, entry) /\ pos' = WithStops(o)
    BY <2>1 DEF Emit
  <2>3. entry \in [order: Orders, delay_count: Int, at: Int]
    BY DEF BtInv
  <2> HIDE DEF entry
  <2>4. todo' \in Entries
    BY <2>2, <2>3, AppendProperties DEF BtInv, Entries
  <2>5. DOMAIN pos' = Instruments /\ \A i \in Instruments : SoundPosition(pos'[i], held[i])
    BY <2>2 DEF WithStops, BtInv, SoundPosition
  <2> QED
    BY <1>1, <1>2, <2>4, <2>5 DEF BtInv, Entries
<1> QED
  BY <1>3, <1>4

(* An order of the list waits for another bar, or is dropped.              *)
LEMMA PassOverStep ==
    ASSUME BtInv, Matching, todo' = Tail(todo),
           UNCHANGED <<cash, pos, bar, bars, trade, held>>,
           closing' \subseteq {"stop", "take", "flatten"} \X Traded,
           \/ buffer' = buffer
           \/ buffer' = Append(buffer, Head(todo))
           \/ buffer' = Append(buffer, [Head(todo) EXCEPT !.delay_count = @ + 1])
    PROVE  BtInv'
<1>1. todo \in Entries /\ todo # <<>> /\ buffer \in Entries
  BY DEF Matching, BtInv, Entries
<1>2. Head(todo) \in [order: Orders, delay_count: Int, at: Int] /\ Tail(todo) \in Entries
  BY <1>1, HeadTailProperties DEF Entries
<1>3. [Head(todo) EXCEPT !.delay_count = @ + 1] \in [order: Orders, delay_count: Int, at: Int]
  BY <1>2
<1> DEFINE E == [order: Orders, delay_count: Int, at: Int]
<1>4. buffer' \in Entries
  <2>1. buffer \in Seq(E) /\ Head(todo) \in E /\ [Head(todo) EXCEPT !.delay_count = @ + 1] \in E
    BY <1>1, <1>2, <1>3 DEF Entries
  <2>2. Entries = Seq(E)
    BY DEF Entries
  <2> HIDE DEF E
  <2>3. \A e \in E : Append(buffer, e) \in Seq(E)
    BY <2>1, AppendProperties
  <2> QED
    BY <2>1, <2>2, <2>3
<1> QED
  BY <1>2, <1>4 DEF BtInv, Entries, SoundBar, TradeWithinOrder, Matching, Phases

LEMMA BtInvNext == BtInv /\ [Next]_btVars => BtInv'
<1> SUFFICES ASSUME BtInv, [Next]_btVars
             PROVE  BtInv'
  OBVIOUS
<1>1. CASE WarmUp
  BY <1>1 DEF WarmUp, BtInv, SoundBar, NoBar, Phases, Triggers, TradeWithinOrder
<1>2. CASE KeepOrder
  BY <1>2, PassOverStep DEF KeepOrder, BtInv
<1>3. CASE DropOrder
  BY <1>3, PassOverStep DEF DropOrder, BtInv
<1>4. CASE DelayOrder
  BY <1>4, PassOverStep DEF DelayOrder, BtInv
<1>5. CASE FlattenAll
  <2>1. closing' \subseteq {"stop", "take", "flatten"} \X Traded
    BY <1>5 DEF FlattenAll
  <2> QED
    BY <1>5, <2>1, PassOverStep DEF FlattenAll
<1>6. CASE EndBar
  BY <1>6 DEF EndBar, BtInv, SoundBar, NoBar, Phases, TradeWithinOrder
<1>7. CASE Finish
  BY <1>7 DEF Finish, BtInv, SoundBar, NoBar, Done, Phases, TradeWithinOrder
<1>8. CASE UNCHANGED btVars
  BY <1>8 DEF btVars, BtInv, SoundBar, TradeWithinOrder
<1>9. CASE \E kind \in {"stop", "take", "flatten"}, i \in Traded : CloseOut(kind, i)
  BY <1>9, CloseOutStep
<1>10. CASE FillOrder({}) \/ \E q \in Resizes : FillOrder({q})
  BY <1>10, FillOrderStep
<1>11. CASE Emit({}) \/ \E o \in Orders : Emit({o})
  BY <1>11, EmitStep
<1>12. CASE \E i \in Instruments, open, close \in Prices, volume \in Volumes,
              completed \in BOOLEAN, day \in {0, 1} :
                  NextBar(i, open, close, volume, completed, day)
  BY <1>12, NextBarStep
<1> QED
  BY <1>1, <1>2, <1>3, <1>4, <1>5, <1>6, <1>7, <1>8, <1>9, <1>10, <1>11, <1>12 DEF Next

LEMMA BtSafe == Spec => []BtInv
BY BtInvInit, BtInvNext, PTL DEF Spec

(* T+1: whatever stops, flattenings and orders sell, what may be sold of a *)
(* position is what is left of the shares of earlier days, and never less  *)
(* than none.                                                              *)
THEOREM SellableIsOlder == Spec => []TPlusOne
<1>1. ASSUME BtInv, NEW i \in Instruments
      PROVE  held[i] >= 0 /\ pos[i].quantity - pos[i].today_bought = held[i]
  BY <1>1 DEF BtInv, SoundPosition
<1>2. BtInv => TPlusOne
  BY <1>1 DEF TPlusOne
<1> QED
  BY <1>2, BtSafe, PTL

(* A trade is of whole lots and of no more shares than its order asked for *)
(* when it was emitted, except that an order which the risk engine resized *)
(* to 0 is filled as an open-ended one, and one it resized upwards is      *)
(* filled to that.                                                         *)
THEOREM TradesKeepToOrders == Spec => []TradeWithinOrder
<1>1. BtInv => TradeWithinOrder
  BY DEF BtInv
<1> QED
  BY <1>1, BtSafe, PTL

(* A purchase never spends more than there is, but for its commission.     *)
THEOREM OverdrawnByFee == Spec => OverdrawnByFeeOnly
<1>1. ASSUME BtInv, [Next]_btVars
      PROVE  [cash' < cash /\ trade'.side = "buy" => cash' >= -trade'.fee]_btVars
  <2>1. CASE cash' = cash
    BY <1>1, <2>1 DEF BtInv
  <2>2. CASE \E kind \in {"stop", "take", "flatten"}, i \in Traded : CloseOut(kind, i)
    BY <1>1, <2>2, CloseOutStep
  <2>3. CASE FillOrder({}) \/ \E q \in Resizes : FillOrder({q})
    BY <1>1, <2>3, FillOrderStep
  <2>4. ASSUME NEW i \in Instruments, NEW open \in Prices, NEW close \in Prices,
               NEW volume \in Volumes, NEW completed \in BOOLEAN, NEW day \in {0, 1},
               NextBar(i, open, close, volume, completed, day)
        PROVE  cash' = cash
    BY <2>4 DEF NextBar
  <2>5. ASSUME NEW left, Emit(left) PROVE cash' = cash
    BY <2>5 DEF Emit
  <2>6. CASE \/ WarmUp \/ KeepOrder \/ DropOrder \/ DelayOrder \/ FlattenAll \/ EndBar
             \/ Finish \/ UNCHANGED btVars
    <3>1. cash' = cash
      BY <2>6 DEF WarmUp, KeepOrder, DropOrder, DelayOrder, FlattenAll, EndBar, Finish, btVars
    <3> QED
      BY <2>1, <3>1
  <2> QED
    BY <1>1, <2>1, <2>2, <2>3, <2>4, <2>5, <2>6 DEF Next
<1> QED
  BY <1>1, BtSafe, PTL DEF Spec, OverdrawnByFeeOnly

-----------------------------------------------------------------------------
(* The types, and what the positions are worth: nothing while there is no  *)
(* price of the instrument, and whatever it was when they were valued.     *)
Unpriced == \A i \in Instruments : latest[i] = None => pos[i].market_value = 0

TypesInv == BtInv /\ TypeOK /\ Unpriced

(* The marks of a position, and which positions there are.                 *)
Kept == /\ pos' \in [Instruments -> Position]
        /\ held' \in [Instruments -> Nat]
        /\ \A i \in Instruments : pos'[i].market_value = pos[i].market_value

LEMMA NumbersAre ==
    /\ LotSize \in Nat /\ MaxDelay \in Nat /\ MaxBars \in Nat /\ Traded \subseteq Instruments
    /\ Prices \subseteq Nat \ {0} /\ Volumes \subseteq Nat
BY BacktestAssumption

(* A fill moves shares of one position, and leaves its value for later.    *)
LEMMA FillKeepsTypes ==
    ASSUME TypesInv, bar.phase \in Phases, NEW o, SoundOrder(o), NEW entry, Match(o) > 0,
           \/ ApplyFill(o, entry, pos[o.instrument])
           \/ ApplyFill(o, entry, Cleared(pos[o.instrument]))
    PROVE  cash' \in Int /\ Kept
<1>1. cash' \in Int
  BY FillIsSound DEF TypesInv
<1>2. PICK n, i : n = Match(o) /\ i = o.instrument
  OBVIOUS
<1>3. /\ n \in Nat /\ i \in Instruments
      /\ o.side = "sell" => n <= pos[i].quantity - pos[i].today_bought
  BY <1>2, MatchBounds DEF Sellable, SoundOrder, TypesInv
<1>4. pos \in [Instruments -> Position] /\ held \in [Instruments -> Nat]
  BY DEF TypesInv, TypeOK
<1>5. /\ pos[i] \in Position /\ held[i] \in Nat
      /\ pos[i].quantity \in Nat /\ pos[i].today_bought \in Nat
      /\ pos[i].quantity - pos[i].today_bought = held[i]
  BY <1>3, <1>4 DEF Position, TypesInv, BtInv, SoundPosition
<1>6. CASE o.side = "buy"
  <2>1. PICK more : more = [pos[i] EXCEPT !.quantity = @ + n]
    OBVIOUS
  <2>2. PICK row : row = [more EXCEPT !.today_bought = @ + n]
    OBVIOUS
  <2>3. pos' = [pos EXCEPT ![i] = row] /\ held' = held
    BY <1>2, <1>3, <1>5, <1>6, <2>1, <2>2 DEF ApplyFill, Bought, Position
  <2>4. more \in Position /\ more.market_value = pos[i].market_value
    BY <1>3, <1>5, <2>1 DEF Position
  <2>5. row \in Position /\ row.market_value = pos[i].market_value
    BY <1>3, <2>2, <2>4 DEF Position
  <2> QED
    BY <1>3, <1>4, <2>3, <2>5, <1>1 DEF Kept
<1>7. CASE o.side = "sell"
  <2>1. PICK from : /\ from = pos[i] \/ from = Cleared(pos[i])
                    /\ pos' = [pos EXCEPT ![i] = [from EXCEPT !.quantity = @ - n]]
                    /\ held' = [held EXCEPT ![i] = @ - n]
    BY <1>2, <1>7 DEF ApplyFill
  <2>2. /\ from \in Position /\ from.quantity = pos[i].quantity
        /\ from.market_value = pos[i].market_value
    <3>1. PICK one : one = [pos[i] EXCEPT !.stop_loss = None]
      OBVIOUS
    <3>2. PICK two : two = [one EXCEPT !.take_profit = None]
      OBVIOUS
    <3>3. Cleared(pos[i]) = two
      BY <1>5, <3>1, <3>2 DEF Cleared, Position
    <3>4. one \in Position /\ one.quantity = pos[i].quantity /\ one.market_value = pos[i].market_value
      BY <1>5, <3>1 DEF Position
    <3>5. two \in Position /\ two.quantity = pos[i].quantity /\ two.market_value = pos[i].market_value
      BY <3>2, <3>4 DEF Position
    <3> QED
      BY <1>5, <2>1, <3>3, <3>5
  <2>3. held[i] - n \in Nat /\ pos[i].quantity - n \in Nat
    BY <1>3, <1>5, <1>7
  <2>4. PICK row : row = [from EXCEPT !.quantity = @ - n]
    OBVIOUS
  <2>5. row \in Position /\ row.market_value = pos[i].market_value
    BY <2>2, <2>3, <2>4 DEF Position
  <2>6. pos' = [pos EXCEPT ![i] = row] /\ held' = [held EXCEPT ![i] = held[i] - n]
    BY <2>1, <2>4
  <2> QED
    BY <1>1, <1>3, <1>4, <2>3, <2>5, <2>6 DEF Kept
<1> QED
  BY <1>6, <1>7 DEF SoundOrder

(* A change of day values the positions at the closes before it.           *)
LEMMA MarkedIsWorth ==
    ASSUME NEW position \in Position, NEW i \in Instruments,
           latest[i] \in Nat, latest[i] = None => position.market_value = 0
    PROVE  /\ Marked(position, i) \in Position
           /\ Marked(position, i).quantity = position.quantity
           /\ Marked(position, i).market_value = latest[i] * position.quantity
<1>1. position.quantity \in Nat /\ position.market_value \in Nat
  BY DEF Position
<1>2. latest[i] * position.quantity \in Nat
  BY <1>1
<1>3. CASE latest[i] = None
  <2>1. latest[i] * position.quantity = 0
    BY <1>1, <1>3 DEF None
  <2> QED
    BY <1>3, <2>1 DEF Marked
<1>4. CASE latest[i] # None
  <2>1. PICK worth \in Nat : worth = latest[i] * position.quantity
    BY <1>2
  <2>2. Marked(position, i) = [position EXCEPT !.market_value = worth]
    BY <1>4, <2>1 DEF Marked
  <2> QED
    BY <2>1, <2>2 DEF Position
<1> QED
  BY <1>3, <1>4

LEMMA NewDayIsWorth ==
    ASSUME TypesInv, NEW day \in {0, 1}, bars = 0 => day = 0
    PROVE  /\ NewDay(day) \in [Instruments -> Position]
           /\ day = 0 => NewDay(day) = pos
           /\ day = 1 => \A i \in Instruments :
                            NewDay(day)[i].market_value = latest[i] * pos[i].quantity
<1>1. /\ pos \in [Instruments -> Position] /\ latest \in [Instruments -> Prices \cup {None}]
      /\ Unpriced
  BY DEF TypesInv, TypeOK
<1>2. CASE day = 0
  BY <1>1, <1>2 DEF NewDay
<1>3. CASE day = 1
  <2>1. NewDay(day) = [i \in Instruments |-> [Marked(pos[i], i) EXCEPT !.today_bought = 0]]
    BY <1>3 DEF NewDay
  <2>2. ASSUME NEW i \in Instruments
        PROVE  /\ [Marked(pos[i], i) EXCEPT !.today_bought = 0] \in Position
               /\ [Marked(pos[i], i) EXCEPT !.today_bought = 0].market_value = latest[i] * pos[i].quantity
    <3>1. latest[i] \in Nat /\ pos[i] \in Position
      <4>1. latest[i] \in Prices \cup {0} /\ pos[i] \in Position
        BY <1>1 DEF None
      <4>2. \A price \in Prices : price \in Nat
        BY NumbersAre
      <4> QED
        BY <4>1, <4>2
    <3>2. PICK marked : marked = Marked(pos[i], i)
      OBVIOUS
    <3>3. marked \in Position /\ marked.market_value = latest[i] * pos[i].quantity
      BY <1>1, <3>1, <3>2, MarkedIsWorth DEF Unpriced
    <3>4. /\ [marked EXCEPT !.today_bought = 0] \in Position
          /\ [marked EXCEPT !.today_bought = 0].market_value = marked.market_value
      BY <3>3 DEF Position
    <3> QED
      BY <3>2, <3>3, <3>4
  <2>3. \A i \in Instruments : NewDay(day)[i] = [Marked(pos[i], i) EXCEPT !.today_bought = 0]
    BY <2>1
  <2>4. NewDay(day) \in [Instruments -> Position]
    BY <2>1, <2>2
  <2>5. ASSUME NEW i \in Instruments
        PROVE  NewDay(day)[i].market_value = latest[i] * pos[i].quantity
    <3>1. NewDay(day)[i] = [Marked(pos[i], i) EXCEPT !.today_bought = 0]
      BY <2>3
    <3> QED
      BY <2>2, <3>1
  <2>6. day # 0
    BY <1>3
  <2> QED
    BY <2>4, <2>5, <2>6
<1> QED
  BY <1>2, <1>3

LEMMA NextBarTypes ==
    ASSUME TypesInv, NEW i \in Instruments, NEW open \in Prices, NEW close \in Prices,
           NEW volume \in Volumes, NEW completed \in BOOLEAN, NEW day \in {0, 1},
           NextBar(i, open, close, volume, completed, day)
    PROVE  /\ TypeOK' /\ Unpriced'
           /\ days' # days => \A j \in Instruments :
                                 pos'[j].market_value = latest[j] * pos[j].quantity
<1>1. /\ pos' = NewDay(day) /\ (bars = 0 => day = 0) /\ bars < MaxBars /\ bars' = bars + 1
      /\ latest' = [latest EXCEPT ![i] = close] /\ days' = days + day
      /\ bar' = [phase |-> "triggers", instrument |-> i, open |-> open, close |-> close,
                 volume |-> volume, completed |-> completed, day |-> day]
      /\ held' = IF day = 1 THEN [j \in Instruments |-> pos[j].quantity] ELSE held
      /\ UNCHANGED <<cash, prevClose, buffer, todo, trade>>
  BY DEF NextBar
<1>2. /\ pos' \in [Instruments -> Position] /\ (day = 0 => pos' = pos)
      /\ day = 1 => \A j \in Instruments : pos'[j].market_value = latest[j] * pos[j].quantity
  BY <1>1, NewDayIsWorth
<1>3. closing' \subseteq {"stop", "take", "flatten"} \X Traded
  BY DEF NextBar, Triggered
<1>4. bar' \in Bar
  BY <1>1 DEF Bar, Phases
<1>5. held' \in [Instruments -> Nat]
  BY <1>1 DEF TypesInv, TypeOK, Position
<1>6. latest' \in [Instruments -> Prices \cup {None}] /\ bars' \in 0..MaxBars /\ days' \in Nat
  BY <1>1, NumbersAre DEF TypesInv, TypeOK
<1>7. TypeOK'
  BY <1>1, <1>2, <1>3, <1>4, <1>5, <1>6 DEF TypesInv, TypeOK, Entry, Bar, Position
<1>8. Unpriced'
  <2> SUFFICES ASSUME NEW j \in Instruments, latest'[j] = None
               PROVE  pos'[j].market_value = 0
    BY DEF Unpriced
  <2>1. j # i /\ latest[j] = None
    BY <1>1, NumbersAre DEF TypesInv, TypeOK, None
  <2>2. pos[j].market_value = 0 /\ pos[j].quantity \in Nat
    BY <2>1 DEF TypesInv, Unpriced, TypeOK, Position
  <2>3. latest[j] * pos[j].quantity = 0
    BY <2>1, <2>2 DEF None
  <2> QED
    BY <1>2, <2>2, <2>3
<1>9. days' # days => day = 1
  BY <1>1 DEF TypesInv, TypeOK
<1> QED
  BY <1>2, <1>7, <1>8, <1>9

LEMMA FillStepTypes ==
    ASSUME TypesInv, Kept, cash' \in Int, todo' \in Seq(Entry), closing' \subseteq closing,
           UNCHANGED <<prevClose, latest, bar, buffer, bars, days>>
    PROVE  TypeOK' /\ Unpriced'
BY DEF TypesInv, TypeOK, Unpriced, Kept, Entry, Bar, Position

LEMMA KeptStill ==
    ASSUME TypesInv, UNCHANGED <<cash, pos, held>>
    PROVE  Kept /\ cash' \in Int
BY DEF TypesInv, TypeOK, Kept

LEMMA CloseOutTypes ==
    ASSUME TypesInv, NEW kind \in {"stop", "take", "flatten"}, NEW i \in Traded, CloseOut(kind, i)
    PROVE  TypeOK' /\ Unpriced'
<1> DEFINE o == [instrument |-> i, side |-> "sell", quantity |-> 0, limit |-> None,
                 stop |-> None, take |-> None]
<1>1. SoundOrder(o)
  BY BacktestAssumption DEF SoundOrder
<1>2. /\ bar.phase \in Phases /\ closing' \subseteq closing
      /\ UNCHANGED <<prevClose, latest, bar, buffer, todo, bars, days>>
      /\ \/ Match(o) > 0 /\ ApplyFill(o, [at |-> bars - 1, asked |-> 0],
                                     Cleared(pos[o.instrument]))
         \/ UNCHANGED <<cash, pos, held, trade>>
  BY DEF CloseOut, TypesInv, BtInv
<1> HIDE DEF o
<1>3. Kept /\ cash' \in Int
  BY <1>1, <1>2, FillKeepsTypes, KeptStill
<1>4. todo' \in Seq(Entry)
  BY <1>2 DEF TypesInv, TypeOK
<1> QED
  BY <1>2, <1>3, <1>4, FillStepTypes

(* What is gone through are entries, and so is what is left.               *)
LEMMA RestOfTodo ==
    ASSUME TypesInv, todo # <<>>
    PROVE  Head(todo) \in Entry /\ Tail(todo) \in Seq(Entry)
<1>1. todo \in Seq(Entry)
  BY DEF TypesInv, TypeOK
<1> DEFINE E == Entry
<1> HIDE DEF E
<1>2. todo \in Seq(E)
  BY <1>1 DEF E
<1>3. Head(todo) \in E /\ Tail(todo) \in Seq(E)
  BY <1>2, HeadTailProperties
<1> QED
  BY <1>3 DEF E

LEMMA OneMore ==
    ASSUME NEW s \in Seq(Entry), NEW entry \in Entry
    PROVE  Append(s, entry) \in Seq(Entry)
BY AppendProperties

LEMMA FillOrderTypes ==
    ASSUME TypesInv, NEW resized, resized = {} \/ \E q \in Resizes : resized = {q}, FillOrder(resized)
    PROVE  TypeOK' /\ Unpriced'
<1> DEFINE entry == Head(todo)
           origin == [at |-> entry.at, asked |-> entry.order.quantity]
           o == IF resized = {} THEN entry.order
                ELSE [entry.order EXCEPT !.quantity = CHOOSE q \in resized : TRUE]
<1>1. entry \in Entry /\ Tail(todo) \in Seq(Entry)
  BY RestOfTodo DEF FillOrder, Matching
<1>2. entry.order \in Orders
  BY <1>1 DEF Entry
<1>3. SoundOrder(o)
  <2>1. CASE resized = {}
    BY <1>2, <2>1, OrdersAreSound
  <2>2. ASSUME NEW q \in Resizes, resized = {q}
        PROVE  SoundOrder(o)
    <3>1. o = [entry.order EXCEPT !.quantity = q]
      BY <2>2
    <3> QED
      BY <1>2, <3>1, OrdersAreSound
  <2> QED
    BY <2>1, <2>2
<1>4. /\ bar.phase \in Phases /\ todo' = Tail(todo)
      /\ UNCHANGED <<prevClose, latest, bar, closing, buffer, bars, days>>
      /\ \/ Match(o) > 0 /\ ApplyFill(o, origin, pos[o.instrument])
         \/ UNCHANGED <<cash, pos, held, trade>>
  BY DEF FillOrder, Matching, Phases
<1> HIDE DEF o, entry, origin
<1>5. Kept /\ cash' \in Int
  BY <1>3, <1>4, FillKeepsTypes, KeptStill
<1> QED
  BY <1>1, <1>4, <1>5, FillStepTypes

LEMMA StoppedIsPosition ==
    ASSUME NEW position \in Position, NEW o \in Orders
    PROVE  /\ [position EXCEPT !.stop_loss = IF o.stop = None THEN @ ELSE o.stop,
                              !.take_profit = IF o.take = None THEN @ ELSE o.take] \in Position
           /\ [position EXCEPT !.stop_loss = IF o.stop = None THEN @ ELSE o.stop,
                              !.take_profit = IF o.take = None THEN @ ELSE o.take].market_value
                 = position.market_value
<1>1. o.stop \in Prices \cup {None} /\ o.take \in Prices \cup {None}
  BY BacktestAssumption
<1>2. PICK stop \in Prices \cup {None}, take \in Prices \cup {None} :
         /\ stop = IF o.stop = None THEN position.stop_loss ELSE o.stop
         /\ take = IF o.take = None THEN position.take_profit ELSE o.take
  BY <1>1 DEF Position
<1>3. PICK one : one = [position EXCEPT !.stop_loss = stop]
  OBVIOUS
<1>4. PICK two : two = [one EXCEPT !.take_profit = take]
  OBVIOUS
<1>5. one \in Position /\ one.market_value = position.market_value
  BY <1>2, <1>3 DEF Position
<1>6. two \in Position /\ two.market_value = position.market_value
  BY <1>2, <1>4, <1>5 DEF Position
<1>7. [position EXCEPT !.stop_loss = IF o.stop = None THEN @ ELSE o.stop,
                       !.take_profit = IF o.take = None THEN @ ELSE o.take] = two
  BY <1>2, <1>3, <1>4 DEF Position
<1> QED
  BY <1>6, <1>7

LEMMA EmitTypes ==
    ASSUME TypesInv, NEW emitted, emitted = {} \/ \E o \in Orders : emitted = {o}, Emit(emitted)
    PROVE  TypeOK' /\ Unpriced'
<1>1. /\ UNCHANGED <<cash, prevClose, latest, closing, bars, days, trade, held>> /\ buffer' = <<>>
      /\ bar' = [bar EXCEPT !.phase = "matching"] /\ bar.phase = "triggers"
  BY DEF Emit, Triggers
<1>2. bar' \in Bar
  <2>1. bar \in Bar
    BY <1>1 DEF TypesInv, TypeOK, NoBar, Done
  <2> QED
    BY <1>1, <2>1 DEF Bar, Phases
<1>3. /\ pos' \in [Instruments -> Position] /\ todo' \in Seq(Entry)
      /\ \A i \in Instruments : pos'[i].market_value = pos[i].market_value
  <2>1. /\ pos \in [Instruments -> Position] /\ buffer \in Seq(Entry) /\ bars \in Nat
    BY NumbersAre DEF TypesInv, TypeOK
  <2>2. CASE emitted = {}
    BY <2>1, <2>2 DEF Emit
  <2>3. ASSUME NEW o \in Orders, emitted = {o}
        PROVE  /\ pos' \in [Instruments -> Position] /\ todo' \in Seq(Entry)
               /\ \A i \in Instruments : pos'[i].market_value = pos[i].market_value
    <3>1. (CHOOSE x \in emitted : TRUE) = o /\ emitted # {}
      BY <2>3
    <3>2. PICK entry : entry = [order |-> o, delay_count |-> 0, at |-> bars]
      OBVIOUS
    <3>3. todo' = Append(buffer, entry) /\ pos' = WithStops(o)
      BY <3>1, <3>2 DEF Emit
    <3>4. entry \in Entry
      BY <2>1, <3>2, NumbersAre DEF Entry
    <3>5. o.instrument \in Instruments
      BY BacktestAssumption
    <3>6. PICK row : row = [pos[o.instrument] EXCEPT !.stop_loss = IF o.stop = None THEN @ ELSE o.stop,
                                                    !.take_profit = IF o.take = None THEN @ ELSE o.take]
      OBVIOUS
    <3>7. row \in Position /\ row.market_value = pos[o.instrument].market_value
      BY <2>1, <3>5, <3>6, StoppedIsPosition
    <3>8. pos' = [pos EXCEPT ![o.instrument] = row]
      BY <2>1, <3>3, <3>5, <3>6 DEF WithStops, Position
    <3> QED
      BY <2>1, <3>3, <3>4, <3>5, <3>7, <3>8, OneMore
  <2> QED
    BY <2>2, <2>3
<1>4. buffer' \in Seq(Entry)
  BY <1>1, EmptySeq
<1> QED
  BY <1>1, <1>2, <1>3, <1>4 DEF TypesInv, TypeOK, Unpriced

LEMMA PassOverTypes ==
    ASSUME TypesInv, Matching, todo' = Tail(todo),
           UNCHANGED <<cash, pos, prevClose, latest, bar, bars, days, held>>,
           closing' \subseteq {"stop", "take", "flatten"} \X Traded,
           \/ buffer' = buffer
           \/ buffer' = Append(buffer, Head(todo))
           \/ /\ Head(todo).delay_count < MaxDelay
              /\ buffer' = Append(buffer, [Head(todo) EXCEPT !.delay_count = @ + 1])
    PROVE  TypeOK' /\ Unpriced'
<1>1. Head(todo) \in Entry /\ Tail(todo) \in Seq(Entry)
  BY RestOfTodo DEF Matching
<1>2. PICK entry : entry = Head(todo)
  OBVIOUS
<1>3. entry.delay_count < MaxDelay => [entry EXCEPT !.delay_count = @ + 1] \in Entry
  <2>1. PICK count : count = entry.delay_count
    OBVIOUS
  <2>2. count \in 0..MaxDelay
    BY <1>1, <1>2, <2>1 DEF Entry
  <2>3. count < MaxDelay => count + 1 \in 0..MaxDelay
    BY <2>2, NumbersAre
  <2> QED
    BY <1>1, <1>2, <2>1, <2>3 DEF Entry
<1>4. buffer \in Seq(Entry)
  BY DEF TypesInv, TypeOK
<1>5. buffer' \in Seq(Entry)
  BY <1>1, <1>2, <1>3, <1>4, OneMore
<1> QED
  BY <1>1, <1>5 DEF TypesInv, TypeOK, Unpriced

LEMMA BetweenTypes ==
    ASSUME TypesInv, prevClose' \in [Instruments -> Prices \cup {None}], bar' \in {NoBar, Done},
           days' \in Nat, UNCHANGED <<cash, pos, latest, closing, buffer, todo, bars, held>>
    PROVE  TypeOK' /\ Unpriced'
BY DEF TypesInv, TypeOK, Unpriced, Entry, Position

LEMMA TypesStep ==
    ASSUME TypesInv, [Next]_btVars
    PROVE  /\ TypesInv'
           /\ days' # days /\ bar' # Done =>
                 \A i \in Instruments : pos'[i].market_value = latest[i] * pos[i].quantity
<1> DEFINE Valued == days' # days /\ bar' # Done =>
                        \A i \in Instruments : pos'[i].market_value = latest[i] * pos[i].quantity
<1>1. BtInv'
  BY BtInvNext DEF TypesInv
<1>2. bar.phase \in Phases => bar \in Bar /\ bar.instrument \in Instruments /\ bar.close \in Prices
  BY DEF TypesInv, TypeOK, Bar, NoBar, Done, Phases
<1>3. CASE WarmUp
  <2>1. prevClose' \in [Instruments -> Prices \cup {None}]
    BY <1>2, <1>3 DEF WarmUp, Triggers, Phases, TypesInv, TypeOK
  <2> QED
    BY <1>1, <1>3, <2>1, BetweenTypes DEF WarmUp, TypesInv, TypeOK
<1>4. CASE EndBar
  <2>1. prevClose' \in [Instruments -> Prices \cup {None}]
    BY <1>2, <1>4 DEF EndBar, Phases, TypesInv, TypeOK
  <2> QED
    BY <1>1, <1>4, <2>1, BetweenTypes DEF EndBar, TypesInv, TypeOK
<1>5. CASE Finish
  BY <1>1, <1>5, BetweenTypes DEF Finish, TypesInv, TypeOK
<1>6. CASE KeepOrder \/ DropOrder \/ DelayOrder
  <2>1. closing' \subseteq {"stop", "take", "flatten"} \X Traded
    BY <1>6 DEF KeepOrder, DropOrder, DelayOrder, TypesInv, TypeOK
  <2>2. /\ Matching /\ todo' = Tail(todo)
        /\ UNCHANGED <<cash, pos, prevClose, latest, bar, bars, days, held>>
        /\ \/ buffer' = buffer
           \/ buffer' = Append(buffer, Head(todo))
           \/ /\ Head(todo).delay_count < MaxDelay
              /\ buffer' = Append(buffer, [Head(todo) EXCEPT !.delay_count = @ + 1])
    BY <1>6 DEF KeepOrder, DropOrder, DelayOrder
  <2> QED
    BY <1>1, <2>1, <2>2, PassOverTypes DEF TypesInv
<1>7. CASE FlattenAll
  <2>1. closing' \subseteq {"stop", "take", "flatten"} \X Traded
    BY <1>7 DEF FlattenAll
  <2>2. /\ Matching /\ todo' = Tail(todo) /\ buffer' = buffer
        /\ UNCHANGED <<cash, pos, prevClose, latest, bar, bars, days, held>>
    BY <1>7 DEF FlattenAll
  <2> QED
    BY <1>1, <2>1, <2>2, PassOverTypes DEF TypesInv
<1>8. CASE UNCHANGED btVars
  <2>1. TypeOK' /\ Unpriced'
    BY <1>8 DEF btVars, TypesInv, TypeOK, Unpriced, Entry, Position, Bar
  <2> QED
    BY <1>1, <1>8, <2>1 DEF btVars, TypesInv
<1>9. CASE \E kind \in {"stop", "take", "flatten"}, i \in Traded : CloseOut(kind, i)
  <2>1. TypeOK' /\ Unpriced' /\ days' = days
    BY <1>9, CloseOutTypes DEF CloseOut
  <2> QED
    BY <1>1, <2>1 DEF TypesInv
<1>10. CASE FillOrder({}) \/ \E q \in Resizes : FillOrder({q})
  <2>1. TypeOK' /\ Unpriced' /\ days' = days
    BY <1>10, FillOrderTypes DEF FillOrder
  <2> QED
    BY <1>1, <2>1 DEF TypesInv
<1>11. CASE Emit({}) \/ \E o \in Orders : Emit({o})
  <2>1. TypeOK' /\ Unpriced' /\ days' = days
    BY <1>11, EmitTypes DEF Emit
  <2> QED
    BY <1>1, <2>1 DEF TypesInv
<1>12. CASE \E i \in Instruments, open, close \in Prices, volume \in Volumes,
              completed \in BOOLEAN, day \in {0, 1} :
                  NextBar(i, open, close, volume, completed, day)
  <2>1. PICK i \in Instruments, open \in Prices, close \in Prices, volume \in Volumes,
             completed \in BOOLEAN, day \in {0, 1} : NextBar(i, open, close, volume, completed, day)
    BY <1>12
  <2> QED
    BY <1>1, <2>1, NextBarTypes DEF TypesInv
<1> QED
  BY <1>3, <1>4, <1>5, <1>6, <1>7, <1>8, <1>9, <1>10, <1>11, <1>12 DEF Next

LEMMA TypesStart == Init => TypesInv
<1> SUFFICES ASSUME Init PROVE TypesInv
  OBVIOUS
<1>1. BtInv
  BY BtInvInit
<1>2. TypeOK
  BY BacktestAssumption, EmptySeq DEF Init, TypeOK, Position
<1>3. Unpriced
  BY DEF Init, Unpriced
<1> QED
  BY <1>1, <1>2, <1>3 DEF TypesInv

(* The state of the engine keeps its type: no position is ever short, no   *)
(* order waits more often than it may.                                     *)
THEOREM BacktestTypeCorrect == Spec => []TypeOK
<1>1. TypesInv => TypeOK
  BY DEF TypesInv
<1>2. TypesInv /\ [Next]_btVars => TypesInv'
  BY TypesStep
<1> QED
  BY <1>1, <1>2, TypesStart, PTL DEF Spec

(* The snapshot of a day takes every position at its last close before the *)
(* change of day, whether or not the instrument had a bar that day.        *)
THEOREM DaysAreValued == Spec => DaysValuedAtTheirClose
<1>1. ASSUME TypesInv, [Next]_btVars
      PROVE  [days' # days /\ bar' # Done =>
                 \A i \in Instruments : pos'[i].market_value = latest[i] * pos[i].quantity]_btVars
  BY <1>1, TypesStep
<1>2. TypesInv /\ [Next]_btVars => TypesInv'
  BY TypesStep
<1> QED
  BY <1>1, <1>2, TypesStart, PTL DEF Spec, DaysValuedAtTheirClose
=============================================================================
