------------------------------ MODULE Recovery ------------------------------
(***************************************************************************)
(* Crash recovery (hqmts/recovery/service.py) of the order table against   *)
(* the broker: the service sends orders, hears of their fills, and may     *)
(* stop at any moment; the broker goes on, and a human trades by hand.     *)
(* After the restart an operator runs the recovery steps, in any order and *)
(* as often as he likes, while orders go on.  The comparisons are those of *)
(* Reconciliation; what they compare was read at two moments before.  The  *)
(* path of an order up to its row and the broker are external here; a row  *)
(* moves as the table of order states allows.  Comparisons touch nothing   *)
(* of each other's, so one at a time is enough.                            *)
(***************************************************************************)
EXTENDS Reconciliation, FiniteSets

CONSTANTS
    Orders,         \* orders the system sends
    Manual,         \* orders entered by hand at the broker
    Quantity,       \* shares of an order, filled one by one
    Lookalikes,     \* pairs of orders whose trades look alike
    Bare,           \* manual orders reported without their details
    MaxCrashes      \* bound

ASSUME RecoveryAssumption ==
    /\ Orders \cap Manual = {}
    /\ Quantity \in Nat \ {0} /\ MaxCrashes \in Nat
    /\ Lookalikes \subseteq Orders \X Manual
    /\ Bare \subseteq Manual

VARIABLES
    up,             \* the process runs
    crashes,        \* how often it stopped
    rows,           \* the order table
    awaiting,       \* submit calls under way
    heard,          \* trades the system knows of
    reports,        \* fill reports under way to the system
    atBroker,       \* what the broker lists
    session,        \* the recovery session: none, created, or its row's status
    answer,         \* the last answer of execute_recovery_step(): step and status
    reading,        \* the comparison under way, in a set: what it has read so far
    events,         \* trades in the table of external events
    handled         \* those of them with an action_taken

orderVars == <<rows, awaiting, heard, reports, atBroker>>
stepVars == <<session, answer, reading>>
eventVars == <<events, handled>>
recoveryVars == <<up, crashes, orderVars, stepVars, eventVars>>

NoRow == [status |-> "absent", known |-> FALSE, filled |-> 0]
Absent == [status |-> "absent", filled |-> 0]

RowStatus == DOMAIN OrderTransitions \cup {"absent"}

(* The steps that answer with more than their number; the others pass.     *)
RecoverySteps == {"connect_qmt", "query_broker_state", "reconcile_orders", "reconcile_trades",
                  "reconcile_positions", "check_external_events", "establish_session",
                  "default_pause_open", "wait_approval"}

NoAnswer == <<"none", "pending">>

TradesOf(o) == {o} \X (1..atBroker[o].filled)
BrokerTrades == UNION {TradesOf(o) : o \in Orders \cup Manual}

RecoveryInit ==
    /\ up = TRUE /\ crashes = 0
    /\ rows = [o \in Orders |-> NoRow]
    /\ awaiting = {} /\ heard = {} /\ reports = {}
    /\ atBroker = [o \in Orders \cup Manual |-> Absent]
    /\ session = "none"
    /\ answer = NoAnswer
    /\ reading = {}
    /\ events = {} /\ handled = {}

-----------------------------------------------------------------------------
(* Orders before, during and after the crash. *)

Moves(o, status, known, filled) ==
    /\ CanTransition(OrderTransitions, rows[o].status, status)
    /\ rows' = [rows EXCEPT ![o] = [status |-> status, known |-> known, filled |-> filled]]

Submit(o) ==
    /\ up /\ rows[o] = NoRow
    /\ rows' = [rows EXCEPT ![o].status = "submitted"]
    /\ awaiting' = awaiting \cup {o}
    /\ UNCHANGED <<heard, reports, atBroker>>

(* The request arrives, also when its sender has crashed meanwhile. *)
BrokerTakes(o) ==
    /\ rows[o].status # "absent" /\ atBroker[o] = Absent
    /\ atBroker' = [atBroker EXCEPT ![o].status = "accepted"]
    /\ UNCHANGED <<rows, awaiting, heard, reports>>

(* The submit call returns the broker's order id. *)
LearnId(o) ==
    /\ up /\ o \in awaiting /\ atBroker[o] # Absent
    /\ awaiting' = awaiting \ {o}
    /\ IF rows[o].status = "submitted" THEN Moves(o, "accepted", TRUE, rows[o].filled)
       ELSE rows' = [rows EXCEPT ![o].known = TRUE]
    /\ UNCHANGED <<heard, reports, atBroker>>

FillStatus(filled) == IF filled = Quantity THEN "filled" ELSE "partial_filled"

BrokerFills(o) ==
    /\ atBroker[o] # Absent /\ atBroker[o].filled < Quantity
    /\ atBroker' = [atBroker EXCEPT ![o] = [status |-> FillStatus(@.filled + 1),
                                            filled |-> @.filled + 1]]
    /\ reports' = reports \cup {<<o, atBroker[o].filled + 1>>}
    /\ UNCHANGED <<rows, awaiting, heard>>

(* A fill report arrives; it is lost on a row that takes no fills. *)
HearFill(t) ==
    LET o == t[1]
        filled == rows[o].filled + 1
    IN  /\ up /\ t \in reports
        /\ reports' = reports \ {t}
        /\ IF rows[o].known /\ CanTransition(OrderTransitions, rows[o].status, FillStatus(filled))
           THEN Moves(o, FillStatus(filled), TRUE, filled) /\ heard' = heard \cup {t}
           ELSE UNCHANGED <<rows, heard>>
        /\ UNCHANGED <<awaiting, atBroker>>

(* POST /orders/{id}/cancel writes the row, and the broker is not told. *)
CancelRoute(o) ==
    /\ up /\ rows[o].status \in Cancellable
    /\ rows' = [rows EXCEPT ![o].status = "canceled"]
    /\ UNCHANGED <<awaiting, heard, reports, atBroker>>

ManualTrade(m) ==
    /\ atBroker[m] = Absent
    /\ atBroker' = [atBroker EXCEPT ![m] = [status |-> "filled", filled |-> 1]]
    /\ UNCHANGED <<rows, awaiting, heard, reports>>

OrderStep ==
    \/ \E o \in Orders : Submit(o) \/ BrokerTakes(o) \/ LearnId(o) \/ BrokerFills(o)
                         \/ CancelRoute(o)
    \/ \E t \in reports : HearFill(t)
    \/ \E m \in Manual : ManualTrade(m)

(* The process stops: what it waited for, and what is sent to it, is lost. *)
Crash ==
    /\ up /\ crashes < MaxCrashes
    /\ up' = FALSE /\ crashes' = crashes + 1
    /\ awaiting' = {} /\ reports' = {}
    /\ session' = IF session = "created" THEN "none" ELSE session
    /\ answer' = NoAnswer
    /\ reading' = {}
    /\ UNCHANGED <<rows, heard, atBroker, eventVars>>

Restart == ~up /\ up' = TRUE /\ UNCHANGED <<crashes, orderVars, stepVars, eventVars>>

-----------------------------------------------------------------------------
(* The recovery steps: execute_recovery_step() runs any of them by name. *)

Answers(step, status) ==
    /\ up /\ session # "none"
    /\ answer' = <<step, status>>

CreateSession ==
    /\ up /\ session = "none"
    /\ session' = "created"
    /\ UNCHANGED <<answer, reading>>

(* Steps 3 and 4: the broker answers, or it does not. *)
AskBroker(step, status) ==
    /\ Answers(step, status)
    /\ UNCHANGED <<session, reading>>

Completed(diffs) == IF HasCritical(diffs) THEN "failed" ELSE "completed"

(* The local side of step 7: the active orders with a broker id. *)
KnownRows == [o \in {p \in Orders : rows[p].known /\ rows[p].status \in ActiveOrders} |->
                 [status |-> rows[o].status, filled_quantity |-> rows[o].filled]]

(* Step 7 reads the rows and asks the broker. *)
ReadRows ==
    /\ up /\ session # "none" /\ reading = {}
    /\ reading' = {[at |-> "asked", known |-> KnownRows]}
    /\ UNCHANGED <<session, answer>>

Listed == [o \in {p \in Orders \cup Manual : atBroker[p] # Absent} |->
              [status |-> atBroker[o].status, filled_quantity |-> atBroker[o].filled]]

TableAgrees ==
    \A o \in DOMAIN Listed : o \in Orders /\ rows[o].known /\ rows[o].filled = atBroker[o].filled

(* The broker makes its list, which is under way from then on.  agreed is  *)
(* history: whether the order table, as it is now, agrees with the list.   *)
BrokerLists ==
    /\ \E r \in reading :
          /\ r.at = "asked"
          /\ reading' = {[at |-> "listed", known |-> r.known, listed |-> Listed, agreed |-> TableAgrees]}
    /\ UNCHANGED <<session, answer>>

(* query_orders() raises, and so does the step: there is no answer. *)
QueryFails ==
    /\ \E r \in reading : r.at = "asked"
    /\ reading' = {}
    /\ UNCHANGED <<session, answer>>

(* Step 7 has the list and compares it with the rows that it read. *)
ReconcileOrders ==
    /\ \E r \in reading :
          /\ r.at = "listed"
          /\ Answers("reconcile_orders", Completed(OrderDiffs(r.known, r.listed)))
    /\ reading' = {}
    /\ UNCHANGED session

(* Step 8 compares with no local trades at all, step 9 with no positions:  *)
(* the one fails as soon as the broker lists a trade, the other never.     *)
ReconcileTrades ==
    /\ Answers("reconcile_trades",
               Completed(TradeDiffs([t \in {} |-> t], [t \in BrokerTrades |-> t])))
    /\ UNCHANGED <<session, reading>>

ReconcilePositions ==
    /\ Answers("reconcile_positions",
               Completed(PositionDiffs([o \in {} |-> Absent],
                                       [o \in {p \in Orders : atBroker[p].filled > 0} |->
                                           [total_quantity |-> atBroker[o].filled, available_quantity |-> 0]])))
    /\ UNCHANGED <<session, reading>>

(* Step 10 counts the unhandled events and completes either way. *)
CheckExternalEvents ==
    /\ Answers("check_external_events", "completed")
    /\ UNCHANGED <<session, reading>>

(* Step 12 takes the session through the table and persists it; its row is *)
(* unique.                                                                 *)
EstablishSession ==
    /\ session = "created"
    /\ CanTransition(RecoveryTransitions, "created", "diagnosing")
    /\ CanTransition(RecoveryTransitions, "diagnosing", "recovering")
    /\ Answers("establish_session", "completed")
    /\ session' = "recovering"
    /\ UNCHANGED reading

(* Step 13: determine_initial_mode(), from flags the caller supplies. *)
DefaultMode(flags) ==
    /\ Answers("default_pause_open", IF flags # {} THEN "close_only" ELSE "pause_open")
    /\ UNCHANGED <<session, reading>>

(* Step 14 *)
WaitApproval ==
    /\ Answers("wait_approval", "pending")
    /\ UNCHANGED <<session, reading>>

RecoveryStep ==
    \/ CreateSession
    \/ \E step \in {"connect_qmt", "query_broker_state"}, status \in {"completed", "failed"} :
          AskBroker(step, status)
    \/ ReadRows \/ BrokerLists \/ QueryFails \/ ReconcileOrders
    \/ ReconcileTrades \/ ReconcilePositions \/ CheckExternalEvents \/ EstablishSession \/ WaitApproval
    \/ \E flags \in SUBSET {"has_external_events", "has_position_mismatch"} : DefaultMode(flags)

-----------------------------------------------------------------------------
(* External events. *)

(* Pairs of trades with all their details that look the same. *)
Alike == {p \in BrokerTrades \X BrokerTrades :
             /\ p[1][1] \notin Bare
             /\ {<<p[1][1], p[2][1]>>, <<p[2][1], p[1][1]>>} \cap Lookalikes # {}}

(* detect_from_trades() is handed two lists, read one after the other, in  *)
(* whichever order its caller likes (src/ has none): the first read is old *)
(* by the time of the second, with which the comparison is made.           *)
ReadTrades(side) ==
    /\ up /\ reading = {}
    /\ reading' = {[at |-> side, trades |-> IF side = "internal" THEN heard ELSE BrokerTrades]}
    /\ UNCHANGED eventVars

Internal(r) == IF r.at = "internal" THEN r.trades ELSE heard
Reported(r) == IF r.at = "broker" THEN r.trades ELSE BrokerTrades

(* The caller stores the events that the comparison gives. *)
Detect ==
    /\ \E r \in reading :
          /\ r.at \in {"internal", "broker"}
          /\ events' = events \cup Unmatched(Internal(r), Reported(r), Alike)
    /\ reading' = {}
    /\ UNCHANGED handled

Handle(t) ==
    /\ t \in events
    /\ handled' = handled \cup {t}
    /\ UNCHANGED <<events, reading>>

EventStep ==
    \/ \E side \in {"internal", "broker"} : ReadTrades(side)
    \/ Detect
    \/ \E t \in events : Handle(t)

RecoveryNext ==
    \/ OrderStep /\ UNCHANGED <<up, crashes, stepVars, eventVars>>
    \/ Crash
    \/ Restart
    \/ RecoveryStep /\ UNCHANGED <<up, crashes, orderVars, eventVars>>
    \/ EventStep /\ UNCHANGED <<up, crashes, orderVars, session, answer>>

RecoverySpec == RecoveryInit /\ [][RecoveryNext]_recoveryVars

-----------------------------------------------------------------------------

RecoveryTypeOK ==
    /\ up \in BOOLEAN /\ crashes \in 0..MaxCrashes
    /\ rows \in [Orders -> [status: RowStatus, known: BOOLEAN, filled: 0..Quantity]]
    /\ awaiting \subseteq Orders
    /\ heard \subseteq BrokerTrades /\ reports \subseteq BrokerTrades
    /\ session \in {"none", "created", "recovering"}
    /\ answer \in (RecoverySteps \X {"pending", "completed", "failed", "close_only", "pause_open"}) \cup {NoAnswer}
    /\ \A r \in reading : \/ r.at \in {"asked", "listed"} /\ DOMAIN r.known \subseteq Orders
                          \/ r.at \in {"internal", "broker"} /\ r.trades \subseteq BrokerTrades
    /\ handled \subseteq events

(* When step 7 reports completed, the order table and the broker did agree *)
(* at the moment the broker made its list: every order at the broker was   *)
(* known by its id and had the fills its row showed.  No fill that was     *)
(* lost in the crash, no order that went out without its id coming back,   *)
(* and no order entered by hand passes - although the rows compared were   *)
(* read before that moment, the comparison is made after it, and orders go *)
(* on all the time.  Of what comes after the list it says nothing.         *)
AgreedWhenReconciled ==
    [][\A r \in reading :
          r.at = "listed" /\ reading' = {} /\ answer' = <<"reconcile_orders", "completed">> =>
              r.agreed]_recoveryVars

(* external_detector.py:77, "Returns events for broker trades with no      *)
(* matching internal record".  If the broker is read first, a trade that   *)
(* the system has heard of by the time of the comparison is never          *)
(* reported; if the system's own records are, such a trade is reported     *)
(* only if it was heard of since.  And a trade the broker told of is       *)
(* overlooked only for one of the system's own that looks the same.        *)
DetectionIsSound ==
    [][\A r \in reading : r.at \in {"internal", "broker"} /\ reading' = {} /\ up' =>
          /\ \A t \in (events' \ events) \cap heard : r.at = "internal" /\ t \notin r.trades
          /\ \A t \in Reported(r) \ events' :
                t \in heard \/ \E u \in heard : <<t, u>> \in Alike]_recoveryVars

(* What the recovery tells an operator is so: orders it calls reconciled   *)
(* agreed with the broker when that made its list, trades it calls         *)
(* external were.                                                          *)
RecoveryTells == AgreedWhenReconciled /\ DetectionIsSound

(* The route "Cancel a pending or submitted order" (api/routes/orders.py): *)
(* an order that the table shows as canceled is not filled any more.       *)
CanceledIsNotFilled ==
    [][\A o \in Orders : rows[o].status = "canceled" =>
          atBroker'[o].filled = atBroker[o].filled]_recoveryVars
=============================================================================
