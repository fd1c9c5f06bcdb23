----------------------------- MODULE PaperProofs -----------------------------
(***************************************************************************)
(* Proofs about the simulated account, for any signals, instruments,       *)
(* prices, rates and resizes: its types, that no cash stays set aside for  *)
(* nothing, and that the account is exact.                                 *)
(***************************************************************************)
EXTENDS PaperTrading, TLAPS

-----------------------------------------------------------------------------
(* Facts about the operators.                                              *)

(* Least and Largest choose one of two integers.                           *)
LEMMA Choice ==
    ASSUME NEW a \in Int, NEW b \in Int
    PROVE  /\ Least(a, b) \in {a, b} /\ Least(a, b) <= a /\ Least(a, b) <= b
           /\ Largest(a, b) \in {a, b} /\ Largest(a, b) >= a /\ Largest(a, b) >= b
BY DEF Least, Largest

(* What a fill moves is a whole number of units, and a fee is no gift.     *)
LEMMA MoneyTypes ==
    ASSUME NEW o, o.quantity \in Nat, NEW price \in Prices
    PROVE  /\ Value(o, price) \in Nat
           /\ Commission(o, price) \in Nat
           /\ StampTax(o, price) \in Nat
           /\ TotalCost(o, price) \in Nat
<1>1. price \in Nat /\ CommissionDiv \in Nat \ {0} /\ StampDiv \in Nat \ {0} /\ CommissionMin \in Nat
  BY PaperAssumption
<1>2. Value(o, price) \in Nat
  BY <1>1 DEF Value
<1> DEFINE v == Value(o, price)
<1>3. v \div CommissionDiv \in Nat /\ v \div StampDiv \in Nat
  BY <1>1, <1>2
<1>4. Commission(o, price) \in Nat
  BY <1>1, <1>3, Choice DEF Commission
<1>5. StampTax(o, price) \in Nat
  BY <1>3 DEF StampTax
<1> QED
  BY <1>2, <1>4, <1>5 DEF TotalCost

(* The size of an order is a whole number of shares.                       *)
LEMMA SizeType ==
    ASSUME TypeOK, NEW i \in Instruments, NEW type, NEW price \in Prices
    PROVE  /\ Size(i, SideOf(type), price) \in Int
           /\ SideOf(type) = "sell" /\ Size(i, SideOf(type), price) > 0 =>
                 i \in DOMAIN positions /\ Size(i, SideOf(type), price) = positions[i].available
<1>1. price \in Nat /\ CommissionDiv \in Nat \ {0} /\ LotSize \in Nat \ {0} /\ cash \in Int
  BY PaperAssumption DEF TypeOK
<1>2. i \in DOMAIN positions => positions[i].available \in Nat
  BY DEF TypeOK, Position
<1> DEFINE d == (CommissionDiv + 1) * price * LotSize
           n == cash * CommissionDiv
<1>3. price > 0 => d \in Nat \ {0} /\ n \in Int
  <2>1. (CommissionDiv + 1) \in Nat \ {0}
    BY <1>1
  <2>2. ASSUME NEW x \in Nat \ {0}, NEW y \in Nat \ {0} PROVE x * y \in Nat \ {0}
    OBVIOUS
  <2>3. n \in Int
    BY <1>1
  <2> QED
    BY <1>1, <2>1, <2>2, <2>3
<1>4. price > 0 => (n \div d) * LotSize \in Int
  <2>1. ASSUME NEW x \in Int, NEW y \in Nat \ {0} PROVE x \div y \in Int
    OBVIOUS
  <2> HIDE DEF n, d
  <2>2. price > 0 => n \div d \in Int
    BY <1>3, <2>1
  <2> QED
    BY <1>1, <2>2
<1> QED
  BY <1>1, <1>2, <1>4 DEF Size, SideOf

-----------------------------------------------------------------------------
(* Type correctness.                                                       *)

(* An order that was sized is an order, with a quantity that is less than  *)
(* the size and the cap.                                                   *)
LEMMA SizedOrder ==
    ASSUME TypeOK, NEW i \in Instruments, NEW type \in SignalTypes, NEW price \in Prices,
           NEW cap \in Caps(i, type, price), Size(i, SideOf(type), price) > 0
    PROVE  LET size == Size(i, SideOf(type), price)
               order == Sized(i, type, price, Least(size, cap))
           IN  /\ order \in OrderState /\ [order EXCEPT !.status = "reserving"] \in OrderState
               /\ order.quantity \in Nat /\ order.quantity <= size
               /\ order.instrument = i /\ order.side = SideOf(type) /\ order.status = "pending"
<1> DEFINE size == Size(i, SideOf(type), price)
           order == Sized(i, type, price, Least(size, cap))
<1>1. size \in Nat /\ cap \in Nat
  BY SizeType, PaperAssumption DEF Caps
<1>2. Least(size, cap) \in Nat /\ Least(size, cap) <= size
  BY <1>1, Choice
<1>3. SideOf(type) \in {"buy", "sell"} /\ cash \in Int
  BY DEF SideOf, TypeOK
<1>4. order \in [status: {"reserving", "pending", "filled", "rejected"}, instrument: Instruments,
                 side: {"buy", "sell"}, price: Prices, quantity: Nat, snapshot: Int,
                 fill_price: Prices]
  BY <1>2, <1>3 DEF Sized
<1>5. [order EXCEPT !.status = "reserving"] \in OrderState
  BY <1>4 DEF OrderState
<1>6. /\ order.quantity = Least(size, cap) /\ order.instrument = i
      /\ order.side = SideOf(type) /\ order.status = "pending"
  BY DEF Sized
<1> QED
  BY <1>2, <1>4, <1>5, <1>6 DEF OrderState

KeptOrder == [status: {"reserving", "pending", "filled", "rejected"}, instrument: Instruments,
              side: {"buy", "sell"}, price: Prices, quantity: Nat, snapshot: Int,
              fill_price: Prices]

(* Only an order that was kept is outstanding, filled or rejected.         *)
LEMMA KeptHasFields ==
    ASSUME TypeOK, NEW s \in Signals,
           orders[s].status \in {"reserving", "pending", "filled", "rejected"}
    PROVE  orders[s] \in KeptOrder
BY DEF TypeOK, OrderState, KeptOrder, New, Refused

LEMMA KeptIsOrder == KeptOrder \subseteq OrderState
BY DEF KeptOrder, OrderState

(* A purchase and a sale leave positions that are positions.               *)
LEMMA BoughtType ==
    ASSUME TypeOK, NEW o \in KeptOrder
    PROVE  /\ DOMAIN Bought(o) \subseteq Instruments
           /\ Bought(o) \in [DOMAIN Bought(o) -> Position]
<1>1. o.instrument \in Instruments /\ o.quantity \in Nat
  BY DEF KeptOrder
<1>2. DOMAIN Bought(o) = DOMAIN positions \cup {o.instrument}
  BY DEF Bought
<1>3. ASSUME NEW i \in DOMAIN positions
      PROVE  /\ positions[i] \in Position
             /\ [positions[i] EXCEPT !.quantity = @ + o.quantity, !.today = @ + o.quantity]
                   \in Position
  <2>1. positions[i] \in Position
    BY DEF TypeOK
  <2>2. ASSUME NEW q \in Nat, NEW p \in Position
        PROVE  [p EXCEPT !.quantity = @ + q, !.today = @ + q] \in Position
    <3> DEFINE a == p.quantity + q
               b == p.today + q
    <3>1. a \in Nat /\ b \in Nat
      BY DEF Position
    <3>2. [p EXCEPT !.quantity = @ + q, !.today = @ + q]
             = [p EXCEPT !.quantity = a, !.today = b]
      BY DEF Position
    <3>3. ASSUME NEW x \in Nat, NEW y \in Nat
          PROVE  [p EXCEPT !.quantity = x, !.today = y] \in Position
      BY DEF Position
    <3> HIDE DEF a, b
    <3> QED
      BY <3>1, <3>2, <3>3
  <2> QED
    BY <1>1, <2>1, <2>2
<1>4. [quantity |-> o.quantity, available |-> 0, today |-> o.quantity] \in Position
  BY <1>1 DEF Position
<1>5. \A i \in DOMAIN Bought(o) : Bought(o)[i] \in Position
  BY <1>2, <1>3, <1>4 DEF Bought
<1>6. Bought(o) = [i \in DOMAIN Bought(o) |-> Bought(o)[i]]
  BY DEF Bought
<1>7. DOMAIN Bought(o) \subseteq Instruments
  BY <1>1, <1>2 DEF TypeOK
<1>8. Bought(o) \in [DOMAIN Bought(o) -> Position]
  BY <1>5, <1>6
<1> QED
  BY <1>7, <1>8

LEMMA SoldType ==
    ASSUME TypeOK, NEW o \in KeptOrder
    PROVE  /\ DOMAIN Sold(o) \subseteq DOMAIN positions
           /\ Sold(o) \in [DOMAIN Sold(o) -> Position]
<1>1. o.quantity \in Nat
  BY DEF KeptOrder
<1> DEFINE i == o.instrument
           left == [positions EXCEPT ![i].quantity = Largest(0, @ - o.quantity),
                                     ![i].available = Largest(0, @ - o.quantity)]
<1>2. positions \in [DOMAIN positions -> Position]
  BY DEF TypeOK
<1>3. CASE i \notin DOMAIN positions
  BY <1>2, <1>3 DEF Sold
<1>4. CASE i \in DOMAIN positions
  <2>1. positions[i].quantity \in Nat /\ positions[i].available \in Nat /\ positions[i] \in Position
    BY <1>2, <1>4 DEF Position
  <2>2. /\ Largest(0, positions[i].quantity - o.quantity) \in Nat
        /\ Largest(0, positions[i].available - o.quantity) \in Nat
    BY <1>1, <2>1, Choice
  <2>3. left \in [DOMAIN positions -> Position]
    BY <1>2, <1>4, <2>1, <2>2 DEF Position
  <2>4. Sold(o) = IF left[i].quantity > 0 THEN left
                  ELSE [j \in DOMAIN positions \ {i} |-> positions[j]]
    BY <1>4 DEF Sold
  <2>5. [j \in DOMAIN positions \ {i} |-> positions[j]] \in [DOMAIN positions \ {i} -> Position]
    BY <1>2
  <2> HIDE DEF left
  <2> QED
    BY <2>3, <2>4, <2>5
<1> QED
  BY <1>3, <1>4

(* A kept order stays an order when it changes status or gets its price.   *)
LEMMA NextOrder ==
    ASSUME TypeOK, NEW s \in Signals, orders[s].status \in {"reserving", "pending"},
           NEW price \in Prices
    PROVE  /\ orders[s] \in KeptOrder
           /\ [orders[s] EXCEPT !.status = "pending"] \in OrderState
           /\ [orders[s] EXCEPT !.status = "rejected"] \in OrderState
           /\ Filled(s, price) \in OrderState
           /\ Value(orders[s], orders[s].price) \in Nat
           /\ TotalCost(orders[s], price) \in Nat
           /\ Value(orders[s], price) - Commission(orders[s], price) - StampTax(orders[s], price) \in Int
<1>1. orders[s] \in KeptOrder
  BY KeptHasFields
<1>2. /\ orders[s].quantity \in Nat /\ orders[s].price \in Prices
  BY <1>1 DEF KeptOrder
<1>3. /\ Value(orders[s], orders[s].price) \in Nat
      /\ TotalCost(orders[s], price) \in Nat
      /\ Value(orders[s], price) \in Nat
      /\ Commission(orders[s], price) \in Nat
      /\ StampTax(orders[s], price) \in Nat
  BY <1>2, MoneyTypes
<1>4. ASSUME NEW o \in KeptOrder
      PROVE  /\ [o EXCEPT !.status = "pending"] \in KeptOrder
             /\ [o EXCEPT !.status = "rejected"] \in KeptOrder
             /\ [o EXCEPT !.status = "filled", !.fill_price = price] \in KeptOrder
  BY DEF KeptOrder
<1>5. /\ [orders[s] EXCEPT !.status = "pending"] \in OrderState
      /\ [orders[s] EXCEPT !.status = "rejected"] \in OrderState
      /\ [orders[s] EXCEPT !.status = "filled", !.fill_price = price] \in OrderState
  BY <1>1, <1>4, KeptIsOrder
<1> QED
  BY <1>1, <1>3, <1>5 DEF Filled

(* Replacing one order keeps the table of orders.                          *)
LEMMA GoesType ==
    ASSUME TypeOK, NEW s \in Signals, NEW order \in OrderState, Goes(s, order)
    PROVE  orders' \in [Signals -> OrderState]
BY DEF TypeOK, Goes

(* Counting a movement of cash, and giving up a hold, keep their tables.   *)
LEMMA TablesType ==
    ASSUME TypeOK, NEW s \in Signals
    PROVE  /\ [charged EXCEPT ![s] = @ + 1] \in [Signals -> Nat]
           /\ GivenUp(s) \in [Signals -> [state: {"none", "held", "gone"}, amount: Nat]]
<1>1. [charged EXCEPT ![s] = @ + 1] \in [Signals -> Nat]
  BY DEF TypeOK
<1>2. holds[s] \in [state: {"none", "held", "gone"}, amount: Nat]
  BY DEF TypeOK
<1>3. [holds EXCEPT ![s] = [holds[s] EXCEPT !.state = IF @ = "held" THEN "gone" ELSE @]]
         \in [Signals -> [state: {"none", "held", "gone"}, amount: Nat]]
  BY <1>2 DEF TypeOK
<1>4. GivenUp(s) = [holds EXCEPT ![s] = [holds[s] EXCEPT !.state = IF @ = "held" THEN "gone" ELSE @]]
  BY DEF GivenUp
<1> QED
  BY <1>1, <1>3, <1>4

(* An empty account without orders is well typed.                          *)
LEMMA TypeInit ==
    ASSUME Init
    PROVE  TypeOK
<1>1. cash \in Int /\ DOMAIN positions = {} /\ positions \in [DOMAIN positions -> Position]
  BY PaperAssumption DEF Init
<1>2. orders \in [Signals -> OrderState]
  BY DEF Init, OrderState
<1>3. /\ holds \in [Signals -> [state: {"none", "held", "gone"}, amount: Nat]]
      /\ charged \in [Signals -> Nat]
      /\ overlap \in BOOLEAN
  BY DEF Init, NoHold
<1> QED
  BY <1>1, <1>2, <1>3 DEF Init, TypeOK

(* Every step keeps the types.                                             *)
LEMMA TypeStep ==
    ASSUME TypeOK, [Next]_paperVars
    PROVE  TypeOK'
<1>1. ASSUME NEW s \in Signals, SubmitRefused(s)
      PROVE  TypeOK'
  <2>1. orders' \in [Signals -> OrderState]
    BY <1>1, GoesType DEF SubmitRefused, OrderState
  <2> QED
    BY <1>1, <2>1 DEF SubmitRefused, TypeOK
<1>2. ASSUME NEW s \in Signals, NEW i \in Instruments, NEW type \in SignalTypes,
             NEW price \in Prices, NEW cap \in Caps(i, type, price),
             SubmitSignal(s, i, type, price, cap)
      PROVE  TypeOK'
  <2> DEFINE order == Sized(i, type, price, Least(Size(i, SideOf(type), price), cap))
             kept == IF HasManager /\ type \in {"open_long", "open_short"} /\ price > 0
                     THEN [order EXCEPT !.status = "reserving"] ELSE order
  <2>1. Size(i, SideOf(type), price) > 0
    BY <1>2 DEF SubmitSignal
  <2>2. order \in OrderState /\ [order EXCEPT !.status = "reserving"] \in OrderState
    BY <2>1, SizedOrder
  <2>3. kept \in OrderState
    BY <2>2
  <2>4. Goes(s, kept) /\ overlap' = (overlap \/ Overlaps(s, i, type))
    BY <1>2 DEF SubmitSignal
  <2>5. orders' \in [Signals -> OrderState]
    BY <2>3, <2>4, GoesType
  <2>6. overlap' \in BOOLEAN
    BY <2>4
  <2> QED
    BY <1>2, <2>5, <2>6 DEF SubmitSignal, TypeOK
<1>3. ASSUME NEW s \in Signals, ReserveGranted(s)
      PROVE  TypeOK'
  <2>1. orders[s].status = "reserving"
    BY <1>3 DEF ReserveGranted
  <2>2. \E price \in Prices : TRUE
    BY <2>1, KeptHasFields DEF KeptOrder
  <2>3. orders' \in [Signals -> OrderState]
    BY <1>3, <2>1, <2>2, NextOrder, GoesType DEF ReserveGranted
  <2>4. orders[s].price * orders[s].quantity \in Nat
    BY <2>1, <2>2, NextOrder DEF Value
  <2>5. holds' \in [Signals -> [state: {"none", "held", "gone"}, amount: Nat]]
    BY <1>3, <2>4 DEF ReserveGranted, TypeOK
  <2> QED
    BY <1>3, <2>3, <2>5 DEF ReserveGranted, TypeOK
<1>4. ASSUME NEW s \in Signals, ReserveFails(s)
      PROVE  TypeOK'
  <2>1. orders' \in [Signals -> OrderState]
    BY <1>4, GoesType DEF ReserveFails, OrderState
  <2> QED
    BY <1>4, <2>1 DEF ReserveFails, TypeOK
<1>5. ASSUME NEW s \in Signals, NEW price \in Prices, FillRejected(s, price)
      PROVE  TypeOK'
  <2>1. orders' \in [Signals -> OrderState]
    BY <1>5, NextOrder, GoesType DEF FillRejected
  <2> QED
    BY <1>5, <2>1 DEF FillRejected, Settles, TypeOK
<1>6. ASSUME NEW s \in Signals, NEW price \in Prices, FillBuy(s, price)
      PROVE  TypeOK'
  <2>1. orders' \in [Signals -> OrderState]
    BY <1>6, NextOrder, GoesType DEF FillBuy
  <2>2. cash' \in Int /\ orders[s] \in KeptOrder
    <3>1. orders[s] \in KeptOrder /\ TotalCost(orders[s], price) \in Nat
      BY <1>6, NextOrder DEF FillBuy
    <3>2. cash \in Int /\ cash' = cash - TotalCost(orders[s], price)
      BY <1>6 DEF FillBuy, TypeOK
    <3> QED
      BY <3>1, <3>2
  <2>3. DOMAIN positions' \subseteq Instruments /\ positions' \in [DOMAIN positions' -> Position]
    BY <1>6, <2>2, BoughtType DEF FillBuy
  <2>4. charged' \in [Signals -> Nat]
    BY <1>6, TablesType DEF FillBuy
  <2> QED
    BY <1>6, <2>1, <2>2, <2>3, <2>4 DEF FillBuy, Settles, TypeOK
<1>7. ASSUME NEW s \in Signals, NEW price \in Prices, FillBuyRaises(s, price)
      PROVE  TypeOK'
  <2>1. cash' \in Int
    <3>1. TotalCost(orders[s], price) \in Nat
      BY <1>7, NextOrder DEF FillBuyRaises
    <3>2. cash \in Int /\ cash' = cash - TotalCost(orders[s], price)
      BY <1>7 DEF FillBuyRaises, TypeOK
    <3> QED
      BY <3>1, <3>2
  <2>2. charged' \in [Signals -> Nat]
    BY <1>7, TablesType DEF FillBuyRaises
  <2> QED
    BY <1>7, <2>1, <2>2 DEF FillBuyRaises, TypeOK
<1>8. ASSUME NEW s \in Signals, NEW price \in Prices, FillSell(s, price)
      PROVE  TypeOK'
  <2>1. orders' \in [Signals -> OrderState]
    BY <1>8, NextOrder, GoesType DEF FillSell
  <2>2. orders[s] \in KeptOrder
    BY <1>8, NextOrder DEF FillSell
  <2>3. cash' \in Int
    <3>1. orders[s].quantity \in Nat
      BY <2>2 DEF KeptOrder
    <3> QED
      BY <1>8, <3>1, MoneyTypes DEF FillSell, TypeOK
  <2>4. DOMAIN positions' \subseteq Instruments /\ positions' \in [DOMAIN positions' -> Position]
    BY <1>8, <2>2, SoldType DEF FillSell, TypeOK
  <2>5. charged' \in [Signals -> Nat]
    BY <1>8, TablesType DEF FillSell
  <2> QED
    BY <1>8, <2>1, <2>3, <2>4, <2>5 DEF FillSell, Settles, TypeOK
<1>9. ASSUME NEW s \in Signals, Settle(s)
      PROVE  TypeOK'
  BY <1>9, TablesType DEF Settle, TypeOK
<1>10. ASSUME NEW s \in Signals, SettleFails(s)
       PROVE  TypeOK'
  BY <1>10 DEF SettleFails, TypeOK
<1>11. ASSUME NEW s \in Signals, Expire(s)
       PROVE  TypeOK'
  BY <1>11, TablesType DEF Expire, TypeOK
<1>12. CASE EndOfDayReset
  <2>1. \A i \in DOMAIN positions :
           [positions[i] EXCEPT !.available = positions[i].quantity, !.today = 0] \in Position
    BY DEF TypeOK, Position
  <2>2. DOMAIN positions' = DOMAIN positions /\ positions' \in [DOMAIN positions -> Position]
    BY <1>12, <2>1 DEF EndOfDayReset
  <2> QED
    BY <1>12, <2>2 DEF EndOfDayReset, TypeOK
<1>13. CASE UNCHANGED paperVars
  BY <1>13 DEF paperVars, TypeOK
<1> QED
  BY <1>1, <1>2, <1>3, <1>4, <1>5, <1>6, <1>7, <1>8, <1>9, <1>10, <1>11, <1>12, <1>13
     DEF Next, Fill

(* The account, its orders and its reservations keep their types.          *)
THEOREM PaperTypeCorrect == Spec => []TypeOK
<1>1. Init => TypeOK
  BY TypeInit
<1>2. TypeOK /\ [Next]_paperVars => TypeOK'
  BY TypeStep
<1> QED
  BY <1>1, <1>2, PTL DEF Spec

-----------------------------------------------------------------------------
(* No cash stays set aside for nothing.                                    *)

(* A step writes only the order it is about; the others stay as they were. *)
LEMMA OneOrderMoves ==
    ASSUME TypeOK, NEW s \in Signals, NEW order, Goes(s, order)
    PROVE  /\ orders'[s] = order
           /\ \A u \in Signals \ {s} : orders'[u] = orders[u]
BY DEF TypeOK, Goes

(* A hold is given up or left as it is.                                    *)
LEMMA GivenUpHolds ==
    ASSUME TypeOK, NEW s \in Signals, holds' = GivenUp(s)
    PROVE  /\ holds'[s].state # "held"
           /\ \A u \in Signals \ {s} : holds'[u] = holds[u]
<1>1. holds \in [Signals -> [state: {"none", "held", "gone"}, amount: Nat]]
  BY DEF TypeOK
<1>2. GivenUp(s) = [holds EXCEPT ![s] = [holds[s] EXCEPT !.state = IF @ = "held" THEN "gone" ELSE @]]
  BY DEF GivenUp
<1>3. [holds[s] EXCEPT !.state = IF @ = "held" THEN "gone" ELSE @].state # "held"
  BY <1>1
<1> QED
  BY <1>1, <1>2, <1>3

(* Every step keeps each hold with a pending order, a settlement under way *)
(* or a failed one.                                                        *)
LEMMA HeldStep ==
    ASSUME TypeOK, HeldForPending, [Next]_paperVars
    PROVE  HeldForPending'
<1> USE DEF HeldForPending
<1>1. ASSUME NEW s \in Signals, SubmitRefused(s)
      PROVE  HeldForPending'
  <2>1. orders[s].status = "new"
    BY <1>1 DEF SubmitRefused, New
  <2> QED
    BY <1>1, <2>1, OneOrderMoves DEF SubmitRefused
<1>2. ASSUME NEW s \in Signals, NEW i \in Instruments, NEW type \in SignalTypes,
             NEW price \in Prices, NEW cap \in Caps(i, type, price),
             SubmitSignal(s, i, type, price, cap)
      PROVE  HeldForPending'
  <2>1. orders[s].status = "new"
    BY <1>2 DEF SubmitSignal, New
  <2>2. \A u \in Signals \ {s} : orders'[u] = orders[u]
    BY <1>2, OneOrderMoves DEF SubmitSignal
  <2> QED
    BY <1>2, <2>1, <2>2 DEF SubmitSignal
<1>3. ASSUME NEW s \in Signals, ReserveGranted(s)
      PROVE  HeldForPending'
  <2>1. orders'[s] = [orders[s] EXCEPT !.status = "pending"]
    BY <1>3, OneOrderMoves DEF ReserveGranted
  <2>2. orders[s] \in KeptOrder
    BY <1>3, KeptHasFields DEF ReserveGranted
  <2>3. orders'[s].status = "pending" /\ s \in linked'
    BY <1>3, <2>1, <2>2 DEF ReserveGranted, KeptOrder
  <2>4. \A u \in Signals \ {s} : orders'[u] = orders[u] /\ holds'[u] = holds[u]
    BY <1>3, OneOrderMoves DEF ReserveGranted, TypeOK
  <2> QED
    BY <1>3, <2>3, <2>4 DEF ReserveGranted
<1>4. ASSUME NEW s \in Signals, ReserveFails(s)
      PROVE  HeldForPending'
  BY <1>4, OneOrderMoves DEF ReserveFails
<1>5. ASSUME NEW s \in Signals, NEW price \in Prices, FillRejected(s, price)
      PROVE  HeldForPending'
  BY <1>5, OneOrderMoves DEF FillRejected, Settles
<1>6. ASSUME NEW s \in Signals, NEW price \in Prices, FillBuy(s, price)
      PROVE  HeldForPending'
  BY <1>6, OneOrderMoves DEF FillBuy, Settles
<1>7. ASSUME NEW s \in Signals, NEW price \in Prices, FillBuyRaises(s, price)
      PROVE  HeldForPending'
  BY <1>7 DEF FillBuyRaises
<1>8. ASSUME NEW s \in Signals, NEW price \in Prices, FillSell(s, price)
      PROVE  HeldForPending'
  BY <1>8, OneOrderMoves DEF FillSell, Settles
<1>9. ASSUME NEW s \in Signals, Settle(s)
      PROVE  HeldForPending'
  BY <1>9, GivenUpHolds DEF Settle
<1>10. ASSUME NEW s \in Signals, SettleFails(s)
       PROVE  HeldForPending'
  BY <1>10 DEF SettleFails
<1>11. ASSUME NEW s \in Signals, Expire(s)
       PROVE  HeldForPending'
  BY <1>11, GivenUpHolds DEF Expire
<1>12. CASE EndOfDayReset
  BY <1>12 DEF EndOfDayReset
<1>13. CASE UNCHANGED paperVars
  BY <1>13 DEF paperVars
<1> QED
  BY <1>1, <1>2, <1>3, <1>4, <1>5, <1>6, <1>7, <1>8, <1>9, <1>10, <1>11, <1>12, <1>13
     DEF Next, Fill

(* Cash is set aside only for an order that may still be filled or whose   *)
(* settlement is under way, unless the manager's own call failed:          *)
(* HeldForPending, inductive with the types, in every reachable state.     *)
THEOREM HeldOnlyForPending == Spec => []HeldForPending
<1>1. Init => TypeOK /\ HeldForPending
  <2> SUFFICES ASSUME Init PROVE TypeOK /\ HeldForPending
    OBVIOUS
  <2>1. \A s \in Signals : holds[s].state = "none"
    BY DEF Init, NoHold
  <2> QED
    BY <2>1, TypeInit DEF HeldForPending
<1>2. TypeOK /\ HeldForPending /\ [Next]_paperVars => (TypeOK /\ HeldForPending)'
  BY TypeStep, HeldStep
<1> QED
  BY <1>1, <1>2, PTL DEF Spec

-----------------------------------------------------------------------------
(* The account is exact.                                                   *)

(* An order that was not submitted yet has moved no cash.                  *)
NewUncharged == \A s \in Signals : orders[s].status = "new" => charged[s] = 0

(* Unless two sales of an instrument were outstanding together, what an    *)
(* outstanding sale will take is there to be sold, and no other takes it.  *)
SaleOf(s) == Outstanding(s) /\ orders[s].side = "sell"

SalesCovered ==
    ~overlap =>
       /\ \A s \in Signals : SaleOf(s) =>
             /\ orders[s].instrument \in DOMAIN positions
             /\ orders[s].quantity <= positions[orders[s].instrument].available
       /\ \A s, u \in Signals :
             SaleOf(s) /\ SaleOf(u) /\ orders[s].instrument = orders[u].instrument => s = u

AccountInv ==
    TypeOK /\ TPlusOneExact /\ SalesCovered /\ ChargedOnce /\ NewUncharged /\ NoOverdraft

(* A filled order stays as it is: every step is about an order that is     *)
(* new, waiting for its reservation or pending.                            *)
LEMMA FilledStays ==
    ASSUME TypeOK, [Next]_paperVars, NEW u \in Signals, orders[u].status = "filled"
    PROVE  orders'[u] = orders[u]
<1>1. ASSUME NEW s \in Signals,
             \/ SubmitRefused(s)
             \/ \E i \in Instruments, type \in SignalTypes, price \in Prices :
                   \E cap \in Caps(i, type, price) : SubmitSignal(s, i, type, price, cap)
      PROVE  orders'[u] = orders[u]
  <2>1. orders[s] = New /\ \E order : Goes(s, order)
    <3>1. ASSUME SubmitRefused(s)
          PROVE  orders[s] = New /\ Goes(s, Refused)
      BY <3>1 DEF SubmitRefused
    <3>2. ASSUME NEW i \in Instruments, NEW type \in SignalTypes, NEW price \in Prices,
                 NEW cap, SubmitSignal(s, i, type, price, cap)
          PROVE  orders[s] = New /\ \E order : Goes(s, order)
      BY <3>2 DEF SubmitSignal
    <3> QED
      BY <1>1, <3>1, <3>2
  <2>2. orders[s].status = "new"
    BY <2>1 DEF New
  <2> QED
    BY <2>1, <2>2, OneOrderMoves
<1>2. ASSUME NEW s \in Signals, ReserveGranted(s) \/ ReserveFails(s)
      PROVE  orders'[u] = orders[u]
  BY <1>2, OneOrderMoves DEF ReserveGranted, ReserveFails
<1>3. ASSUME NEW s \in Signals, NEW price \in Prices,
             \/ FillRejected(s, price) \/ FillBuy(s, price)
             \/ FillBuyRaises(s, price) \/ FillSell(s, price)
      PROVE  orders'[u] = orders[u]
  BY <1>3, OneOrderMoves DEF FillRejected, FillBuy, FillBuyRaises, FillSell
<1>4. CASE \/ \E s \in Signals : Settle(s) \/ SettleFails(s) \/ Expire(s)
           \/ EndOfDayReset
           \/ UNCHANGED paperVars
  BY <1>4 DEF Settle, SettleFails, Expire, EndOfDayReset, paperVars
<1> QED
  BY <1>1, <1>2, <1>3, <1>4 DEF Next, Fill

(* Cash that moved for an order is counted once: another fill_order() of   *)
(* the order finds it FILLED.  Only an order for no shares can be charged  *)
(* twice, because its exception comes before that.                         *)
LEMMA ChargeStep ==
    ASSUME TypeOK, ChargedOnce, NewUncharged, [Next]_paperVars
    PROVE  ChargedOnce' /\ NewUncharged'
<1> USE DEF ChargedOnce, NewUncharged, Outstanding
<1>1. ASSUME NEW s \in Signals, NEW o, Goes(s, o), charged' = charged,
             o.status \notin {"new", "filled"},
             o.status \in {"reserving", "pending"} => charged[s] = 0
      PROVE  ChargedOnce' /\ NewUncharged'
  <2>1. orders'[s] = o /\ \A u \in Signals \ {s} : orders'[u] = orders[u]
    BY <1>1, OneOrderMoves
  <2>2. \A u \in Signals \ {s} :
           /\ (orders'[u].status \in {"reserving", "pending"} \/ orders'[u].status = "filled")
                 /\ orders'[u].quantity > 0 =>
                    charged'[u] = IF orders'[u].status = "filled" THEN 1 ELSE 0
           /\ orders'[u].status = "new" => charged'[u] = 0
    BY <1>1, <2>1
  <2> QED
    BY <1>1, <2>1, <2>2
<1>2. ASSUME NEW s \in Signals, NEW price \in Prices,
             orders[s].status = "pending",
             charged' = [charged EXCEPT ![s] = @ + 1],
             Goes(s, Filled(s, price))
      PROVE  ChargedOnce' /\ NewUncharged'
  <2>1. orders'[s] = Filled(s, price) /\ \A u \in Signals \ {s} : orders'[u] = orders[u]
    BY <1>2, OneOrderMoves
  <2>2. orders'[s].status = "filled" /\ orders'[s].quantity = orders[s].quantity
    BY <1>2, <2>1, NextOrder DEF Filled, KeptOrder
  <2>3. charged'[s] = charged[s] + 1 /\ \A u \in Signals \ {s} : charged'[u] = charged[u]
    BY <1>2 DEF TypeOK
  <2>4. orders[s].quantity > 0 => charged'[s] = 1
    BY <1>2, <2>3
  <2> QED
    BY <2>1, <2>2, <2>3, <2>4
<1>3. ASSUME NEW s \in Signals, SubmitRefused(s) \/ ReserveFails(s)
      PROVE  ChargedOnce' /\ NewUncharged'
  BY <1>1, <1>3 DEF SubmitRefused, ReserveFails, Refused
<1>4. ASSUME NEW s \in Signals, NEW i \in Instruments, NEW type \in SignalTypes,
             NEW price \in Prices, NEW cap \in Caps(i, type, price),
             SubmitSignal(s, i, type, price, cap)
      PROVE  ChargedOnce' /\ NewUncharged'
  <2> DEFINE order == Sized(i, type, price, Least(Size(i, SideOf(type), price), cap))
             kept == IF HasManager /\ type \in {"open_long", "open_short"} /\ price > 0
                     THEN [order EXCEPT !.status = "reserving"] ELSE order
  <2>1. Goes(s, kept) /\ charged' = charged /\ orders[s] = New
    BY <1>4 DEF SubmitSignal
  <2>2. kept.status \in {"reserving", "pending"}
    BY DEF Sized
  <2>3. charged[s] = 0
    BY <2>1 DEF New
  <2> HIDE DEF kept
  <2> QED
    BY <1>1, <2>1, <2>2, <2>3
<1>5. ASSUME NEW s \in Signals, ReserveGranted(s)
      PROVE  ChargedOnce' /\ NewUncharged'
  <2> DEFINE o == [orders[s] EXCEPT !.status = "pending"]
  <2>1. orders[s] \in KeptOrder /\ Goes(s, o) /\ charged' = charged
    BY <1>5, KeptHasFields DEF ReserveGranted
  <2>2. o.status = "pending" /\ o.quantity = orders[s].quantity
    BY <2>1 DEF KeptOrder
  <2>3. orders'[s] = o /\ \A u \in Signals \ {s} : orders'[u] = orders[u]
    BY <2>1, OneOrderMoves
  <2>4. orders[s].status = "reserving"
    BY <1>5 DEF ReserveGranted
  <2> HIDE DEF o
  <2> QED
    BY <2>1, <2>2, <2>3, <2>4
<1>6. ASSUME NEW s \in Signals, NEW price \in Prices, FillRejected(s, price)
      PROVE  ChargedOnce' /\ NewUncharged'
  <2> DEFINE o == [orders[s] EXCEPT !.status = "rejected"]
  <2>1. orders[s] \in KeptOrder /\ Goes(s, o) /\ charged' = charged
    BY <1>6, KeptHasFields DEF FillRejected
  <2>2. o.status = "rejected"
    BY <2>1 DEF KeptOrder
  <2> HIDE DEF o
  <2> QED
    BY <1>1, <2>1, <2>2
<1>7. ASSUME NEW s \in Signals, NEW price \in Prices, FillBuy(s, price) \/ FillSell(s, price)
      PROVE  ChargedOnce' /\ NewUncharged'
  BY <1>2, <1>7 DEF FillBuy, FillSell
<1>8. ASSUME NEW s \in Signals, NEW price \in Prices, FillBuyRaises(s, price)
      PROVE  ChargedOnce' /\ NewUncharged'
  <2>1. /\ orders' = orders /\ orders[s].status = "pending"
        /\ charged' = [charged EXCEPT ![s] = @ + 1]
    BY <1>8 DEF FillBuyRaises
  <2>2. orders[s].quantity = 0
    <3> DEFINE i == orders[s].instrument
    <3>1. i \in DOMAIN positions /\ positions[i].quantity + orders[s].quantity = 0
      BY <1>8 DEF FillBuyRaises, AverageRaises
    <3>2. orders[s].quantity \in Nat
      BY <2>1, KeptHasFields DEF KeptOrder
    <3>3. positions[i].quantity \in Nat
      BY <3>1 DEF TypeOK, Position
    <3> HIDE DEF i
    <3> QED
      BY <3>1, <3>2, <3>3
  <2>3. \A u \in Signals \ {s} : charged'[u] = charged[u]
    BY <2>1 DEF TypeOK
  <2> QED
    BY <2>1, <2>2, <2>3
<1>9. CASE \/ \E s \in Signals : Settle(s) \/ SettleFails(s) \/ Expire(s)
           \/ EndOfDayReset
           \/ UNCHANGED paperVars
  BY <1>9 DEF Settle, SettleFails, Expire, EndOfDayReset, paperVars
<1> QED
  BY <1>3, <1>4, <1>5, <1>6, <1>7, <1>8, <1>9 DEF Next, Fill

(* No purchase is paid with cash that is not there.                        *)
LEMMA OverdraftStep ==
    ASSUME TypeOK, NoOverdraft, [Next]_paperVars
    PROVE  NoOverdraft'
<1> DEFINE Pays(u) == (orders[u].status = "filled" /\ orders[u].side = "sell")
                         => Worthwhile(orders[u])
<1> SUFFICES ASSUME \A u \in Signals : Pays(u)'
             PROVE  cash' >= 0
  BY DEF NoOverdraft
<1>1. \A u \in Signals : Pays(u)
  BY FilledStays
<1>2. cash >= 0 /\ cash \in Int
  BY <1>1 DEF NoOverdraft, TypeOK
<1>3. ASSUME NEW s \in Signals, NEW price \in Prices,
             FillBuy(s, price) \/ FillBuyRaises(s, price)
      PROVE  cash' >= 0
  <2>1. /\ TotalCost(orders[s], price) <= cash
        /\ cash' = cash - TotalCost(orders[s], price)
        /\ orders[s].status = "pending"
    BY <1>3 DEF FillBuy, FillBuyRaises
  <2>2. TotalCost(orders[s], price) \in Nat
    BY <2>1, NextOrder
  <2> QED
    BY <1>2, <2>1, <2>2
<1>4. ASSUME NEW s \in Signals, NEW price \in Prices, FillSell(s, price)
      PROVE  cash' >= 0
  <2> DEFINE o == orders[s]
             f == Filled(s, price)
  <2>1. o \in KeptOrder /\ o.side = "sell" /\ orders'[s] = f
    BY <1>4, NextOrder, OneOrderMoves DEF FillSell
  <2>2. f.status = "filled" /\ f.side = "sell" /\ f.fill_price = price /\ f.quantity = o.quantity
    BY <2>1 DEF Filled, KeptOrder
  <2>3. Worthwhile(f)
    BY <2>1, <2>2
  <2>4. /\ Value(f, price) = Value(o, price)
        /\ Commission(f, price) = Commission(o, price)
        /\ StampTax(f, price) = StampTax(o, price)
    BY <2>1, <2>2 DEF Value, Commission, StampTax
  <2>5. Value(o, price) >= Commission(o, price) + StampTax(o, price)
    BY <2>2, <2>3, <2>4 DEF Worthwhile
  <2>6. o.quantity \in Nat
    BY <2>1 DEF KeptOrder
  <2>7. Value(o, price) \in Nat /\ Commission(o, price) \in Nat /\ StampTax(o, price) \in Nat
    BY <2>6, MoneyTypes
  <2>8. cash' = cash + Value(o, price) - Commission(o, price) - StampTax(o, price)
    BY <1>4 DEF FillSell
  <2> HIDE DEF o, f
  <2> QED
    BY <1>2, <2>5, <2>7, <2>8
<1>5. ASSUME NEW s \in Signals,
             \/ SubmitRefused(s) \/ ReserveGranted(s) \/ ReserveFails(s)
             \/ Settle(s) \/ SettleFails(s) \/ Expire(s)
             \/ \E i \in Instruments, type \in SignalTypes, price \in Prices :
                   \E cap \in Caps(i, type, price) : SubmitSignal(s, i, type, price, cap)
             \/ \E price \in Prices : FillRejected(s, price)
      PROVE  cash' >= 0
  <2>1. cash' = cash
    BY <1>5 DEF SubmitRefused, SubmitSignal, ReserveGranted, ReserveFails, FillRejected,
                Settle, SettleFails, Expire
  <2> QED
    BY <1>2, <2>1
<1>6. CASE EndOfDayReset \/ UNCHANGED paperVars
  BY <1>2, <1>6 DEF EndOfDayReset, paperVars
<1> HIDE DEF Pays
<1> QED
  BY <1>3, <1>4, <1>5, <1>6 DEF Next, Fill

(* T+1 through every step: while no two sales of an instrument overlap, a  *)
(* fill takes no more than is there, so no counter is clamped.             *)
LEMMA TPlusOneStep ==
    ASSUME TypeOK, TPlusOneExact, SalesCovered, [Next]_paperVars
    PROVE  TPlusOneExact' /\ SalesCovered'
<1> DEFINE Exact == \A i \in DOMAIN positions :
                       positions[i].available + positions[i].today = positions[i].quantity
           Covered(s) == SaleOf(s) =>
                            /\ orders[s].instrument \in DOMAIN positions
                            /\ orders[s].quantity <= positions[orders[s].instrument].available
           Alone(s, u) == SaleOf(s) /\ SaleOf(u) /\ orders[s].instrument = orders[u].instrument
                             => s = u
<1> SUFFICES ASSUME ~overlap'
             PROVE  /\ Exact'
                    /\ \A s \in Signals : Covered(s)'
                    /\ \A s, u \in Signals : Alone(s, u)'
  BY DEF TPlusOneExact, SalesCovered
<1>o. ~overlap
  <2>1. ASSUME NEW s \in Signals, NEW i \in Instruments, NEW type \in SignalTypes,
               NEW price \in Prices, NEW cap \in Caps(i, type, price),
               SubmitSignal(s, i, type, price, cap)
        PROVE  ~overlap
    BY <2>1 DEF SubmitSignal
  <2>2. CASE UNCHANGED overlap
    BY <2>2
  <2>3. ASSUME NEW s \in Signals,
               \/ SubmitRefused(s) \/ ReserveGranted(s) \/ ReserveFails(s)
               \/ Settle(s) \/ SettleFails(s) \/ Expire(s)
               \/ \E price \in Prices : \/ FillRejected(s, price) \/ FillBuy(s, price)
                                        \/ FillBuyRaises(s, price) \/ FillSell(s, price)
        PROVE  UNCHANGED overlap
    BY <2>3 DEF SubmitRefused, ReserveGranted, ReserveFails, Settle, SettleFails, Expire,
                FillRejected, FillBuy, FillBuyRaises, FillSell
  <2>4. CASE EndOfDayReset \/ UNCHANGED paperVars
    BY <2>4 DEF EndOfDayReset, paperVars
  <2> QED
    BY <2>1, <2>2, <2>3, <2>4 DEF Next, Fill
<1>e. Exact /\ (\A s \in Signals : Covered(s)) /\ (\A s, u \in Signals : Alone(s, u))
  BY <1>o DEF TPlusOneExact, SalesCovered
<1>p. \A i \in DOMAIN positions : positions[i] \in Position
  BY DEF TypeOK
(* A step that leaves the positions and starts no sale. *)
<1>1. ASSUME positions' = positions,
             \A u \in Signals : SaleOf(u)' => /\ SaleOf(u)
                                              /\ orders'[u].instrument = orders[u].instrument
                                              /\ orders'[u].quantity = orders[u].quantity
      PROVE  /\ Exact'
             /\ \A s \in Signals : Covered(s)'
             /\ \A s, u \in Signals : Alone(s, u)'
  <2>1. Exact'
    BY <1>e, <1>1
  <2>2. \A s \in Signals : Covered(s)'
    BY <1>e, <1>1
  <2>3. \A s, u \in Signals : Alone(s, u)'
    BY <1>e, <1>1
  <2> QED
    BY <2>1, <2>2, <2>3
<1>2. ASSUME NEW s \in Signals, SubmitRefused(s) \/ ReserveFails(s)
      PROVE  /\ Exact'
             /\ \A u \in Signals : Covered(u)'
             /\ \A u, v \in Signals : Alone(u, v)'
  <2>1. Goes(s, Refused) /\ positions' = positions
    BY <1>2 DEF SubmitRefused, ReserveFails
  <2>2. orders'[s] = Refused /\ \A u \in Signals \ {s} : orders'[u] = orders[u]
    BY <2>1, OneOrderMoves
  <2> HIDE DEF Exact, Covered, Alone
  <2> QED
    BY <1>1, <2>1, <2>2 DEF SaleOf, Outstanding, Refused
<1>3. ASSUME NEW s \in Signals, NEW i \in Instruments, NEW type \in SignalTypes,
             NEW price \in Prices, NEW cap \in Caps(i, type, price),
             SubmitSignal(s, i, type, price, cap)
      PROVE  /\ Exact'
             /\ \A u \in Signals : Covered(u)'
             /\ \A u, v \in Signals : Alone(u, v)'
  <2> DEFINE size == Size(i, SideOf(type), price)
             order == Sized(i, type, price, Least(size, cap))
             kept == IF HasManager /\ type \in {"open_long", "open_short"} /\ price > 0
                     THEN [order EXCEPT !.status = "reserving"] ELSE order
  <2>1. /\ Goes(s, kept) /\ positions' = positions /\ size > 0
        /\ ~Overlaps(s, i, type)
    BY <1>3 DEF SubmitSignal
  <2>2. /\ order.side = SideOf(type) /\ order.instrument = i
        /\ order.quantity \in Nat /\ order.quantity <= size
    BY <2>1, SizedOrder
  <2>3. kept.side = SideOf(type) /\ kept.instrument = i /\ kept.quantity = order.quantity
    BY <2>2 DEF Sized
  <2>4. orders'[s] = kept /\ \A u \in Signals \ {s} : orders'[u] = orders[u]
    BY <2>1, OneOrderMoves
  <2>5. Exact'
    BY <1>e, <2>1
  <2>6. ASSUME NEW u \in Signals \ {s} PROVE Covered(u)' /\ SaleOf(u)' = SaleOf(u)
    BY <1>e, <2>1, <2>4 DEF SaleOf, Outstanding
  <2>7. Covered(s)'
    <3> SUFFICES ASSUME SideOf(type) = "sell"
                 PROVE  /\ i \in DOMAIN positions
                        /\ order.quantity <= positions[i].available
      BY <2>1, <2>3, <2>4 DEF SaleOf
    <3>1. i \in DOMAIN positions /\ size = positions[i].available
      BY <2>1, SizeType
    <3> QED
      BY <2>2, <3>1
  <2>8. ASSUME NEW u \in Signals \ {s}, SaleOf(u)', SaleOf(s)',
               orders'[u].instrument = orders'[s].instrument
        PROVE  FALSE
    <3>1. SideOf(type) = "sell" /\ orders[u].instrument = i /\ SaleOf(u)
      BY <2>3, <2>4, <2>6, <2>8 DEF SaleOf
    <3> QED
      BY <2>1, <3>1 DEF Overlaps, SaleOf
  <2>9. ASSUME NEW u \in Signals, NEW v \in Signals PROVE Alone(u, v)'
    <3>1. CASE u = s \/ v = s
      BY <2>8, <3>1
    <3>2. CASE u # s /\ v # s
      BY <1>e, <2>4, <2>6, <3>2
    <3> QED
      BY <3>1, <3>2
  <2> HIDE DEF Exact, Covered, Alone
  <2> QED
    BY <2>5, <2>6, <2>7, <2>9
<1>4. ASSUME NEW s \in Signals, ReserveGranted(s)
      PROVE  /\ Exact'
             /\ \A u \in Signals : Covered(u)'
             /\ \A u, v \in Signals : Alone(u, v)'
  <2> DEFINE o == [orders[s] EXCEPT !.status = "pending"]
  <2>1. /\ Goes(s, o) /\ positions' = positions /\ orders[s].status = "reserving"
        /\ orders[s] \in KeptOrder
    BY <1>4, KeptHasFields DEF ReserveGranted
  <2>2. o.side = orders[s].side /\ o.instrument = orders[s].instrument /\ o.quantity = orders[s].quantity
    BY <2>1 DEF KeptOrder
  <2>3. orders'[s] = o /\ \A u \in Signals \ {s} : orders'[u] = orders[u]
    BY <2>1, OneOrderMoves
  <2>4. ASSUME NEW u \in Signals, SaleOf(u)'
        PROVE  /\ SaleOf(u)
               /\ orders'[u].instrument = orders[u].instrument
               /\ orders'[u].quantity = orders[u].quantity
    <3> HIDE DEF o
    <3> QED
      BY <2>1, <2>2, <2>3, <2>4 DEF SaleOf, Outstanding
  <2> HIDE DEF Exact, Covered, Alone, o
  <2> QED
    BY <1>1, <2>1, <2>4
<1>5. ASSUME NEW s \in Signals, NEW price \in Prices, FillRejected(s, price)
      PROVE  /\ Exact'
             /\ \A u \in Signals : Covered(u)'
             /\ \A u, v \in Signals : Alone(u, v)'
  <2> DEFINE o == [orders[s] EXCEPT !.status = "rejected"]
  <2>1. Goes(s, o) /\ positions' = positions /\ orders[s] \in KeptOrder
    BY <1>5, KeptHasFields DEF FillRejected
  <2>2. o.status = "rejected"
    BY <2>1 DEF KeptOrder
  <2>3. orders'[s] = o /\ \A u \in Signals \ {s} : orders'[u] = orders[u]
    BY <2>1, OneOrderMoves
  <2> HIDE DEF Exact, Covered, Alone, o
  <2> QED
    BY <1>1, <2>1, <2>2, <2>3 DEF SaleOf, Outstanding
<1>6. ASSUME NEW s \in Signals, NEW price \in Prices, FillBuy(s, price)
      PROVE  /\ Exact'
             /\ \A u \in Signals : Covered(u)'
             /\ \A u, v \in Signals : Alone(u, v)'
  <2> DEFINE o == orders[s]
  <2>1. /\ o \in KeptOrder /\ o.side = "buy" /\ positions' = Bought(o) /\ Goes(s, Filled(s, price))
    BY <1>6, KeptHasFields DEF FillBuy
  <2>2. o.instrument \in Instruments /\ o.quantity \in Nat
    BY <2>1 DEF KeptOrder
  <2>3. orders'[s].status = "filled" /\ \A u \in Signals \ {s} : orders'[u] = orders[u]
    <3>1. Filled(s, price).status = "filled"
      BY <2>1 DEF Filled, KeptOrder
    <3> QED
      BY <2>1, <3>1, OneOrderMoves
  <2>4. ASSUME NEW i \in DOMAIN positions
        PROVE  /\ i \in DOMAIN positions'
               /\ positions'[i].available = positions[i].available
               /\ positions'[i].available + positions'[i].today = positions'[i].quantity
    <3>1. positions[i] \in Position /\ positions[i].available + positions[i].today = positions[i].quantity
      BY <1>e, <1>p
    <3>2. CASE i # o.instrument
      BY <2>1, <3>1, <3>2 DEF Bought
    <3>3. CASE i = o.instrument
      <4>1. positions'[i] = [positions[i] EXCEPT !.quantity = @ + o.quantity, !.today = @ + o.quantity]
        BY <2>1, <3>3 DEF Bought
      <4>2. /\ positions'[i].quantity = positions[i].quantity + o.quantity
            /\ positions'[i].today = positions[i].today + o.quantity
            /\ positions'[i].available = positions[i].available
        BY <3>1, <4>1 DEF Position
      <4>3. positions[i].quantity \in Nat /\ positions[i].today \in Nat /\ positions[i].available \in Nat
        BY <3>1 DEF Position
      <4>4. i \in DOMAIN positions'
        BY <2>1 DEF Bought
      <4> HIDE DEF o
      <4> QED
        BY <2>2, <3>1, <4>2, <4>3, <4>4
    <3> QED
      BY <3>2, <3>3
  <2>5. ASSUME NEW i \in DOMAIN positions' \ DOMAIN positions
        PROVE  positions'[i].available + positions'[i].today = positions'[i].quantity
    <3>1. positions'[i] = [quantity |-> o.quantity, available |-> 0, today |-> o.quantity]
      BY <2>1, <2>5 DEF Bought
    <3> QED
      BY <2>2, <3>1
  <2>6. Exact'
    BY <2>4, <2>5
  <2>7. ASSUME NEW u \in Signals, SaleOf(u)'
        PROVE  SaleOf(u) /\ orders'[u] = orders[u]
    BY <2>3, <2>7 DEF SaleOf, Outstanding
  <2>8. \A u \in Signals : Covered(u)'
    <3> HIDE DEF o
    <3> QED
      BY <1>e, <2>4, <2>7
  <2>9. \A u, v \in Signals : Alone(u, v)'
    BY <1>e, <2>7
  <2> HIDE DEF Exact, Covered, Alone, o
  <2> QED
    BY <2>6, <2>8, <2>9
<1>7. ASSUME NEW s \in Signals, NEW price \in Prices, FillSell(s, price)
      PROVE  /\ Exact'
             /\ \A u \in Signals : Covered(u)'
             /\ \A u, v \in Signals : Alone(u, v)'
  <2> DEFINE o == orders[s]
             i == o.instrument
             q == o.quantity
             left == [positions EXCEPT ![i].quantity = Largest(0, @ - q),
                                       ![i].available = Largest(0, @ - q)]
  <2>1. /\ o \in KeptOrder /\ SaleOf(s) /\ positions' = Sold(o) /\ Goes(s, Filled(s, price))
    BY <1>7, KeptHasFields DEF FillSell, SaleOf, Outstanding
  <2>2. orders'[s].status = "filled" /\ \A u \in Signals \ {s} : orders'[u] = orders[u]
    <3>1. Filled(s, price).status = "filled"
      BY <2>1 DEF Filled, KeptOrder
    <3> QED
      BY <2>1, <3>1, OneOrderMoves
  <2>3. q \in Nat /\ i \in DOMAIN positions /\ q <= positions[i].available
    BY <1>e, <2>1 DEF KeptOrder
  <2>4. /\ positions[i] \in Position
        /\ positions[i].quantity \in Nat /\ positions[i].today \in Nat /\ positions[i].available \in Nat
        /\ positions[i].available + positions[i].today = positions[i].quantity
    BY <1>e, <1>p, <2>3 DEF Position
  <2>5. ASSUME NEW u \in Signals, SaleOf(u)'
        PROVE  SaleOf(u) /\ orders'[u] = orders[u] /\ orders[u].instrument # i
    <3>1. u # s
      BY <2>2, <2>5 DEF SaleOf, Outstanding
    <3>2. SaleOf(u) /\ orders'[u] = orders[u]
      BY <2>2, <2>5, <3>1 DEF SaleOf, Outstanding
    <3> QED
      BY <1>e, <2>1, <3>1, <3>2
  <2>6. /\ Largest(0, positions[i].quantity - q) = positions[i].quantity - q
        /\ Largest(0, positions[i].available - q) = positions[i].available - q
    <3> HIDE DEF q, i
    <3> QED
      BY <2>3, <2>4 DEF Largest
  <2>7. /\ DOMAIN left = DOMAIN positions
        /\ \A j \in DOMAIN positions \ {i} : left[j] = positions[j]
    OBVIOUS
  <2>8. /\ left[i].quantity = positions[i].quantity - q
        /\ left[i].available = positions[i].available - q
        /\ left[i].today = positions[i].today
    <3>1. left[i] = [positions[i] EXCEPT !.quantity = Largest(0, @ - q),
                                         !.available = Largest(0, @ - q)]
      BY <2>3
    <3>2. /\ left[i].quantity = Largest(0, positions[i].quantity - q)
          /\ left[i].available = Largest(0, positions[i].available - q)
          /\ left[i].today = positions[i].today
      <4> HIDE DEF left, q, i
      <4> QED
        BY <2>4, <3>1 DEF Position
    <3> HIDE DEF left, q, i
    <3> QED
      BY <2>6, <3>2
  <2>9. positions' = IF left[i].quantity > 0 THEN left
                     ELSE [j \in DOMAIN positions \ {i} |-> positions[j]]
    BY <2>1, <2>3 DEF Sold
  <2>10. \A j \in DOMAIN positions \ {i} : j \in DOMAIN positions' /\ positions'[j] = positions[j]
    <3> HIDE DEF left, q, i
    <3> QED
      BY <2>7, <2>9
  <2>11. i \in DOMAIN positions' => positions'[i].available + positions'[i].today = positions'[i].quantity
    <3> HIDE DEF left, q, i
    <3>1. i \in DOMAIN positions' => positions' = left
      BY <2>9
    <3>2. left[i].available + left[i].today = left[i].quantity
      BY <2>3, <2>4, <2>8
    <3> QED
      BY <3>1, <3>2
  <2>12. DOMAIN positions' \subseteq DOMAIN positions
    <3> HIDE DEF left, q, i
    <3> QED
      BY <2>7, <2>9
  <2>13. Exact'
    <3> HIDE DEF left, q, i
    <3> QED
      BY <1>e, <2>10, <2>11, <2>12
  <2>14. \A u \in Signals : Covered(u)'
    <3> HIDE DEF left, q, i
    <3> QED
      BY <1>e, <2>5, <2>10
  <2>15. \A u, v \in Signals : Alone(u, v)'
    BY <1>e, <2>5
  <2> HIDE DEF Exact, Covered, Alone
  <2> QED
    BY <2>13, <2>14, <2>15
<1>8. CASE EndOfDayReset
  <2>1. /\ orders' = orders /\ DOMAIN positions' = DOMAIN positions
        /\ \A i \in DOMAIN positions :
              positions'[i] = [positions[i] EXCEPT !.available = positions[i].quantity, !.today = 0]
    BY <1>8 DEF EndOfDayReset
  <2>2. ASSUME NEW i \in DOMAIN positions
        PROVE  /\ positions'[i].available + positions'[i].today = positions'[i].quantity
               /\ positions'[i].available >= positions[i].available
               /\ positions'[i].available \in Nat /\ positions[i].available \in Nat
    <3>1. /\ positions[i].quantity \in Nat /\ positions[i].today \in Nat /\ positions[i].available \in Nat
          /\ positions[i].available + positions[i].today = positions[i].quantity
      BY <1>e, <1>p DEF Position
    <3>2. /\ positions'[i].available = positions[i].quantity /\ positions'[i].today = 0
          /\ positions'[i].quantity = positions[i].quantity
      BY <1>p, <2>1 DEF Position
    <3> QED
      BY <3>1, <3>2
  <2>3. Exact'
    BY <2>1, <2>2
  <2>4. ASSUME NEW s \in Signals PROVE Covered(s)'
    <3> SUFFICES ASSUME SaleOf(s)
                 PROVE  /\ orders[s].instrument \in DOMAIN positions'
                        /\ orders[s].quantity <= positions'[orders[s].instrument].available
      BY <2>1 DEF SaleOf, Outstanding
    <3>1. orders[s].quantity \in Nat
      BY KeptHasFields DEF SaleOf, Outstanding, KeptOrder
    <3>2. /\ orders[s].instrument \in DOMAIN positions
          /\ orders[s].quantity <= positions[orders[s].instrument].available
      BY <1>e
    <3> DEFINE i == orders[s].instrument
    <3>3. /\ positions'[i].available >= positions[i].available
          /\ positions'[i].available \in Nat /\ positions[i].available \in Nat
      BY <2>2, <3>2
    <3>4. i \in DOMAIN positions' /\ orders[s].quantity <= positions[i].available
      BY <2>1, <3>2
    <3> HIDE DEF i
    <3>5. orders[s].quantity <= positions'[i].available
      BY <3>1, <3>3, <3>4
    <3> QED
      BY <3>4, <3>5 DEF i
  <2>5. \A s, u \in Signals : Alone(s, u)'
    BY <1>e, <2>1 DEF SaleOf, Outstanding
  <2> HIDE DEF Exact, Covered, Alone
  <2> QED
    BY <2>3, <2>4, <2>5
<1>9. CASE UNCHANGED <<orders, positions>>
  <2> HIDE DEF Exact, Covered, Alone
  <2> QED
    BY <1>1, <1>9 DEF SaleOf, Outstanding
<1> HIDE DEF Exact, Covered, Alone
<1>10. ASSUME NEW s \in Signals,
              \/ Settle(s) \/ SettleFails(s) \/ Expire(s)
              \/ \E price \in Prices : FillBuyRaises(s, price)
       PROVE  UNCHANGED <<orders, positions>>
  BY <1>10 DEF Settle, SettleFails, Expire, FillBuyRaises
<1>11. CASE UNCHANGED paperVars
  BY <1>9, <1>11 DEF paperVars
<1> QED
  BY <1>2, <1>3, <1>4, <1>5, <1>6, <1>7, <1>8, <1>9, <1>10, <1>11 DEF Next, Fill

(* The account of a session is exact in every reachable state: shares      *)
(* bought today stay, no order moves it twice and no purchase overdraws    *)
(* it.  AccountIsExact alone is not inductive; AccountInv adds what the    *)
(* outstanding sales will take and that a new order has moved no cash.     *)
THEOREM AccountStaysExact == Spec => []AccountIsExact
<1>1. Init => AccountInv
  <2> SUFFICES ASSUME Init PROVE AccountInv
    OBVIOUS
  <2>1. TypeOK
    BY TypeInit
  <2>2. \A s \in Signals : orders[s] = New /\ charged[s] = 0
    BY DEF Init
  <2>3. \A s \in Signals : orders[s].status = "new"
    BY <2>2 DEF New
  <2>4. DOMAIN positions = {} /\ cash \in Nat
    BY PaperAssumption DEF Init
  <2> QED
    BY <2>1, <2>2, <2>3, <2>4
       DEF AccountInv, TPlusOneExact, SalesCovered, SaleOf, Outstanding, ChargedOnce,
           NewUncharged, NoOverdraft
<1>2. AccountInv /\ [Next]_paperVars => AccountInv'
  BY TypeStep, TPlusOneStep, ChargeStep, OverdraftStep DEF AccountInv
<1>3. AccountInv => AccountIsExact
  BY DEF AccountInv, AccountIsExact
<1> QED
  BY <1>1, <1>2, <1>3, PTL DEF Spec
=============================================================================
