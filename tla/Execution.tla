----------------------------- MODULE Execution -----------------------------
(***************************************************************************)
(* The execution service (hqmts/execution/service.py, converter.py): each  *)
(* signal runs through process_signal() in a task of its own - validation, *)
(* pre-trade risk, cash reservation, intent, final check, order request -  *)
(* and is then given to submit_order().  Fills and failures come back from *)
(* the broker as callbacks, in any order.  The manager's locks, table and  *)
(* sweep are those of ReservationManager; the task of a signal is the      *)
(* signal itself.                                                          *)
(*                                                                         *)
(* The contexts are filled in by the caller when process_signal() starts   *)
(* and nothing refreshes them: what the final check sees of the kill       *)
(* switch, the broker and the cash is a snapshot of that moment.           *)
(***************************************************************************)
EXTENDS ReservationManager, FinalCheck

CONSTANTS
    SignalTypes,   \* the signal types the strategies produce
    Price,         \* reference_price of a priced signal
    Validity,      \* how many clock ticks a validated signal may still be valid
    Adapters,      \* the services in use: built with a QMT adapter, without one
    NoRid          \* reservation_id of an order without a reservation

ASSUME ExecutionAssumption ==
    /\ SignalTypes \subseteq {"open_long", "open_short", "close_long",
                              "close_short", "flatten", "hold"}
    /\ MaxQuantity \in Nat
    /\ Price \in Nat
    /\ Validity \subseteq Nat
    /\ Adapters \subseteq BOOLEAN
    /\ Price * MaxQuantity <= MaxAmount
    /\ NoRid \notin Rids

VARIABLES
    sig,          \* sig[s]: how far signal s is, and its locals
    book,         \* book[s]: the broker's order for s: state and shares filled
    events,       \* callbacks the broker has sent and nobody has handled
    cash,         \* cash[a]: the broker's available cash
    killSwitch    \* whether the kill switch is on

execVars == <<sig, book, events, cash, killSwitch>>
vars == <<resVars, execVars>>

Signals == Tasks

(* domain/signal.py and the intent built from it. *)
Opening(type) == type \in {"open_long", "open_short"}

SideOf(type) == IF type \in {"open_long", "close_short"} THEN "buy" ELSE "sell"

Running == {"reserving", "releasing"}
Requested == {"ordered", "submitting", "sent", "failing", "failed", "unsent"}

New == [pc |-> "new"]
Ended == [pc |-> "ended"]                        \* returned None, or raised
Leaked(r) == [pc |-> "leaked", rid |-> r]        \* raised, and r was not released

YesNo == {"yes", "no"}
Verdicts == {"allow", "resize"}                  \* the risk results that go on
Holdings == {0, MaxQuantity}                     \* available_quantity of the context

(* The locals of process_signal() while it runs: the quantity risk agreed  *)
(* to, effective_quantity, and the snapshot in the caller's contexts.      *)
Pipeline ==
    [pc: Running, then: {"none", "raised"}, account: Accounts, type: SignalTypes,
     priced: BOOLEAN, approved: Quantities, qty: Quantities, rid: Rids \cup {NoRid},
     adapterUp: YesNo, switchOn: YesNo, held: Quantities,
     valid_until: Nat]

(* The OrderRequest, which has a side and a quantity (quantity: gt=0);     *)
(* "lost" once a write for it has failed and been logged.                  *)
Order ==
    [pc: Requested, account: Accounts, type: SignalTypes \ {"hold"},
     qty: Quantities \ {0}, rid: Rids \cup {NoRid}, lost: BOOLEAN]

SigState == {New, Ended} \cup {Leaked(r) : r \in Rids} \cup Pipeline \cup Order

PriceOf(x) == IF x.priced THEN Price ELSE 0

(* The FinalCheckContext of a signal: reservation_status is never set, and *)
(* check_time is the time at which the caller built the context.           *)
ContextOf(x) ==
    [PassingContext EXCEPT
        !.qmt_adapter_available = x.adapterUp, !.kill_switch_active = x.switchOn,
        !.available_quantity = x.held, !.side = SideOf(x.type), !.quantity = x.qty,
        !.price_positive = PriceOf(x) > 0, !.is_flatten = (x.type = "flatten")]

-----------------------------------------------------------------------------

ExecInit ==
    /\ Init
    /\ sig = [s \in Signals |-> New]
    /\ book = [s \in Signals |-> [state |-> "absent", filled |-> 0]]
    /\ events = {}
    /\ cash = CashLimit
    /\ killSwitch = FALSE

(* Mutant: a signal type without a side in the table is taken for a sale.  *)
OutcomeDefaultsToSell(x) ==
    IF x.qty = 0 THEN "raised"
    ELSE IF Execute(ContextOf(x)) = "allow" THEN "ordered"
    ELSE "none"

(* Steps 4 to 6, which no other task interrupts.  An intent without shares *)
(* or without a side raises; a verdict other than allow gives up; in both  *)
(* cases the reservation, if there is one, still has to be released.       *)
Outcome(x) ==
    IF x.qty = 0 \/ x.type = "hold" THEN "raised"
    ELSE IF Execute(ContextOf(x)) = "allow" THEN "ordered"
    ELSE "none"

OrderRequest(x) ==
    [pc |-> "ordered", account |-> x.account, type |-> x.type, qty |-> x.qty,
     rid |-> x.rid, lost |-> FALSE]

Finished(x) ==
    IF Outcome(x) = "ordered" THEN OrderRequest(x)
    ELSE IF x.rid = NoRid THEN Ended
    ELSE [x EXCEPT !.pc = "releasing", !.then = Outcome(x)]

(* Adjust quantity if resized: a resized_quantity of 0 is false in Python, *)
(* so the order keeps its target quantity.                                 *)
EffectiveQuantity(target, verdict, resized) ==
    IF verdict = "resize" /\ resized # 0 THEN resized ELSE target

(* The locals once validation and risk have let the signal through. *)
Accepted(a, type, priced, target, verdict, resized, up, held, validity, r) ==
    [pc |-> "reserving", then |-> "none", account |-> a, type |-> type,
     priced |-> priced,
     approved |-> IF verdict = "resize" THEN resized ELSE target,
     qty |-> EffectiveQuantity(target, verdict, resized),
     rid |-> r, adapterUp |-> up, switchOn |-> IF killSwitch THEN "yes" ELSE "no",
     held |-> held, valid_until |-> now + validity]

(* Steps 1 and 2 end the call: the signal is expired or has no decision    *)
(* binding, or risk rejects it or demands a flatten (raise); or risk delays*)
(* it (None).  Without a cash snapshot reserve() raises as early.          *)
SignalStopped(s) ==
    /\ sig[s] = New
    /\ sig' = [sig EXCEPT ![s] = Ended]
    /\ UNCHANGED <<resVars, book, events, cash, killSwitch>>

(* Mutant: the cash is reserved for the target quantity, before the resize. *)
SignalReservesTarget(s, a, type, target, verdict, resized, up, held, validity, r) ==
    LET x == Accepted(a, type, TRUE, target, verdict, resized, up, held, validity, r)
    IN  /\ sig[s] = New
        /\ Opening(type) /\ Price > 0
        /\ ReserveCall(s, a, PriceOf(x) * target, cash[a], r)
        /\ sig' = [sig EXCEPT ![s] = x]
        /\ UNCHANGED <<book, events, cash, killSwitch>>

(* An opening signal with a price reserves price times quantity, against   *)
(* the cash of the caller's snapshot.                                      *)
SignalReserves(s, a, type, target, verdict, resized, up, held, validity, r) ==
    LET x == Accepted(a, type, TRUE, target, verdict, resized, up, held, validity, r)
    IN  /\ sig[s] = New
        /\ Opening(type) /\ Price > 0
        /\ ReserveCall(s, a, PriceOf(x) * x.qty, cash[a], r)
        /\ sig' = [sig EXCEPT ![s] = x]
        /\ UNCHANGED <<book, events, cash, killSwitch>>

(* Every other signal goes straight to its intent. *)
SignalDirect(s, a, type, priced, target, verdict, resized, up, held, validity) ==
    LET x == Accepted(a, type, priced, target, verdict, resized, up, held, validity, NoRid)
    IN  /\ sig[s] = New
        /\ ~(Opening(type) /\ PriceOf(x) > 0)
        /\ sig' = [sig EXCEPT ![s] = Finished(x)]
        /\ UNCHANGED <<resVars, book, events, cash, killSwitch>>

(* reserve() goes on under the manager's lock. *)
SignalWaits(s) ==
    /\ ReserveLock(s) \/ ReserveSum(s) \/ ReserveInsert(s)
    /\ UNCHANGED execVars

(* reserve() raises: the exception leaves process_signal() before its try. *)
SignalRefused(s) ==
    /\ ReserveReject(s) \/ ReserveAbort(s)
    /\ sig' = [sig EXCEPT ![s] = Ended]
    /\ UNCHANGED <<book, events, cash, killSwitch>>

(* reserve() returns. *)
SignalReserved(s) ==
    /\ ReserveReturn(s)
    /\ sig' = [sig EXCEPT ![s] = Finished(sig[s])]
    /\ UNCHANGED <<book, events, cash, killSwitch>>

(* The release of a signal that gave up or raised. *)
SignalReleases(s) ==
    /\ sig[s].pc = "releasing"
    /\ Release(sig[s].rid)
    /\ sig' = [sig EXCEPT ![s] = Ended]
    /\ UNCHANGED <<book, events, cash, killSwitch>>

(* The database fails under the release.  A release of the try block is    *)
(* then tried once more by the except clause; a second failure propagates  *)
(* and the reservation stays.                                              *)
SignalReleaseFails(s) ==
    /\ sig[s].pc = "releasing"
    /\ sig' = [sig EXCEPT ![s] = IF sig[s].then = "none"
                                 THEN [sig[s] EXCEPT !.then = "raised"]
                                 ELSE Leaked(sig[s].rid)]
    /\ UNCHANGED <<resVars, book, events, cash, killSwitch>>

-----------------------------------------------------------------------------

(* submit_order() of the returned order request; a service without an      *)
(* adapter returns None at once and releases nothing.                      *)
SubmitOrder(s) ==
    /\ sig[s].pc = "ordered"
    /\ \E adapter \in Adapters :
          sig' = [sig EXCEPT ![s].pc = IF adapter THEN "submitting" ELSE "unsent"]
    /\ UNCHANGED <<resVars, book, events, cash, killSwitch>>

(* The broker takes the order; the answer is still on its way. *)
BrokerAccept(s) ==
    /\ sig[s].pc = "submitting"
    /\ book[s].state = "absent"
    /\ book' = [book EXCEPT ![s].state = "live"]
    /\ UNCHANGED <<resVars, sig, events, cash, killSwitch>>

SubmitReturns(s) ==
    /\ sig[s].pc = "submitting"
    /\ book[s].state # "absent"
    /\ sig' = [sig EXCEPT ![s].pc = "sent"]
    /\ UNCHANGED <<resVars, book, events, cash, killSwitch>>

(* The adapter raises, before or after the broker took the order. *)
SubmitRaises(s) ==
    /\ sig[s].pc = "submitting"
    /\ sig' = [sig EXCEPT ![s].pc = IF sig[s].rid = NoRid THEN "failed" ELSE "failing"]
    /\ UNCHANGED <<resVars, book, events, cash, killSwitch>>

(* Mutant: the row of the reservation is deleted. *)
SubmitDeletes(s) ==
    /\ sig[s].pc = "failing"
    /\ rows' = [r \in DOMAIN rows \ {sig[s].rid} |-> rows[r]]
    /\ sweep' = sweep \ {sig[s].rid}
    /\ sig' = [sig EXCEPT ![s].pc = "failed"]
    /\ UNCHANGED <<lock, call, now, book, events, cash, killSwitch>>

SubmitReleases(s) ==
    /\ sig[s].pc = "failing"
    /\ Release(sig[s].rid)
    /\ sig' = [sig EXCEPT ![s].pc = "failed"]
    /\ UNCHANGED <<book, events, cash, killSwitch>>

(* handle_order_failed() logs the failure of its release. *)
SubmitReleaseFails(s) ==
    /\ sig[s].pc = "failing"
    /\ sig' = [sig EXCEPT ![s] = [sig[s] EXCEPT !.pc = "failed", !.lost = TRUE]]
    /\ UNCHANGED <<resVars, book, events, cash, killSwitch>>

(* The broker fills shares of a live order.  A purchase is paid at once;   *)
(* what a sale brings in is left out.                                      *)
BrokerFill(s, shares) ==
    LET filled == book[s].filled + shares
        paid == IF SideOf(sig[s].type) = "buy" THEN Price * shares ELSE 0
    IN  /\ book[s].state = "live"
        /\ shares > 0 /\ filled <= sig[s].qty
        /\ paid <= cash[sig[s].account]
        /\ cash' = [cash EXCEPT ![sig[s].account] = @ - paid]
        /\ book' = [book EXCEPT ![s] =
                      [state |-> IF filled = sig[s].qty THEN "done" ELSE "live",
                       filled |-> filled]]
        /\ events' = events \cup {[signal |-> s, kind |-> "fill", upto |-> filled,
                                   amount |-> Price * shares]}
        /\ UNCHANGED <<resVars, sig, killSwitch>>

(* The broker rejects or cancels what is left of an order. *)
BrokerClose(s) ==
    /\ book[s].state = "live"
    /\ book' = [book EXCEPT ![s].state = "done"]
    /\ events' = events \cup {[signal |-> s, kind |-> "failed", upto |-> book[s].filled,
                               amount |-> 0]}
    /\ UNCHANGED <<resVars, sig, cash, killSwitch>>

(* handle_fill(): consume() refuses a reservation that is not ACTIVE and   *)
(* the refusal is only logged.                                             *)
HandleFill(e) ==
    LET r == sig[e.signal].rid
    IN  /\ e \in events /\ e.kind = "fill"
        /\ events' = events \ {e}
        /\ \/ r # NoRid /\ Consume(r, e.amount)
           \/ (r # NoRid => rows[r].status # "active") /\ UNCHANGED resVars
        /\ UNCHANGED <<sig, book, cash, killSwitch>>

(* Mutant: a failure that comes before submit_order() has returned is for  *)
(* an order nobody knows yet, and dropped.                                 *)
HandleOrderFailedWhenSent(e) ==
    LET r == sig[e.signal].rid
    IN  /\ e \in events /\ e.kind = "failed"
        /\ events' = events \ {e}
        /\ \/ r # NoRid /\ sig[e.signal].pc = "sent" /\ Release(r)
           \/ (r = NoRid \/ sig[e.signal].pc # "sent") /\ UNCHANGED resVars
        /\ UNCHANGED <<sig, book, cash, killSwitch>>

(* handle_order_failed(). *)
HandleOrderFailed(e) ==
    LET r == sig[e.signal].rid
    IN  /\ e \in events /\ e.kind = "failed"
        /\ events' = events \ {e}
        /\ \/ r # NoRid /\ Release(r)
           \/ r = NoRid /\ UNCHANGED resVars
        /\ UNCHANGED <<sig, book, cash, killSwitch>>

(* In either handler the database may fail: logged and forgotten. *)
HandlerFails(e) ==
    /\ e \in events
    /\ sig[e.signal].rid # NoRid
    /\ events' = events \ {e}
    /\ sig' = [sig EXCEPT ![e.signal].lost = TRUE]
    /\ UNCHANGED <<resVars, book, cash, killSwitch>>

(* The operator turns the kill switch on and off. *)
ToggleKillSwitch ==
    /\ killSwitch' = ~killSwitch
    /\ UNCHANGED <<resVars, sig, book, events, cash>>

(* The sweep and the clock of the manager. *)
Background ==
    /\ SweepQuery \/ (\E r \in Rids : SweepWrite(r)) \/ Tick
    /\ UNCHANGED execVars

-----------------------------------------------------------------------------

(* The signal passes validation and risk, with one of the inputs possible. *)
SignalPasses(s, a, type, target, verdict, resized, up, held, validity) ==
    /\ resized <= target
    /\ verdict = "allow" => resized = 0
    /\ SideOf(type) = "buy" => held = 0     \* the check reads it for sales only
    /\ \/ \E r \in Rids :
             SignalReserves(s, a, type, target, verdict, resized, up, held, validity, r)
       \/ \E priced \in BOOLEAN :
             SignalDirect(s, a, type, priced, target, verdict, resized, up, held, validity)

ProcessSignal(s) ==
    /\ sig[s] = New
    /\ \/ SignalStopped(s)
       \/ \E a \in Accounts, type \in SignalTypes, target, resized \in Quantities,
             verdict \in Verdicts, up \in YesNo, held \in Holdings, validity \in Validity :
             SignalPasses(s, a, type, target, verdict, resized, up, held, validity)

SignalStep(s) ==
    \/ SignalWaits(s)
    \/ SignalRefused(s)
    \/ SignalReserved(s)
    \/ SignalReleases(s)
    \/ SignalReleaseFails(s)

SubmitStep(s) ==
    \/ SubmitOrder(s)
    \/ SubmitReturns(s)
    \/ SubmitRaises(s)
    \/ SubmitReleases(s)
    \/ SubmitReleaseFails(s)

BrokerStep(s) ==
    \/ BrokerAccept(s)
    \/ \E shares \in Quantities : BrokerFill(s, shares)
    \/ BrokerClose(s)

Callback(e) ==
    \/ HandleFill(e)
    \/ HandleOrderFailed(e)
    \/ HandlerFails(e)

ExecNext ==
    \/ \E s \in Signals : ProcessSignal(s) \/ SignalStep(s) \/ SubmitStep(s) \/ BrokerStep(s)
    \/ \E e \in events : Callback(e)
    \/ ToggleKillSwitch
    \/ Background

ExecSpec == ExecInit /\ [][ExecNext]_vars

-----------------------------------------------------------------------------

ExecTypeOK ==
    /\ sig \in [Signals -> SigState]
    /\ book \in [Signals -> [state: {"absent", "live", "done"}, filled: Quantities]]
    /\ events \subseteq [signal: Signals, kind: {"fill", "failed"}, upto: Quantities,
                         amount: Amounts]
    /\ cash \in [Accounts -> Nat]
    /\ killSwitch \in BOOLEAN

ActiveRow(r) == r \in DOMAIN rows /\ rows[r].status = "active"

(* The service uses the manager as the manager expects to be used: every   *)
(* step of the pipeline, the broker and the callbacks is a step of the     *)
(* reservation manager or leaves it alone.                                 *)
UsesManager == Spec

(* Who will still release the reservation r: a pipeline on its way, or an  *)
(* order that goes to the broker or is there.                              *)
Answers(s, r) ==
    /\ sig[s].pc \in Running \cup {"ordered", "submitting", "sent", "failing"}
    /\ sig[s].rid = r

(* The database failed under the last release.                             *)
ReleaseLost(s, r) ==
    /\ sig[s].pc = "leaked" \/ (sig[s].pc = "failed" /\ sig[s].lost)
    /\ sig[s].rid = r

(* An order was never sent for want of an adapter.  submit_order() keeps   *)
(* its reservation, though its docstring has "On failure, releases the     *)
(* reservation automatically" (service.py:148).                            *)
NeverSent(s, r) == sig[s].pc = "unsent" /\ sig[s].rid = r

(* A signal that did not become an order leaves no cash reserved, whether  *)
(* process_signal() gave up, raised, or the adapter failed: every way out  *)
(* has released what reserve() set aside, and reserve() itself leaves      *)
(* nothing behind when it raises.  There are two exceptions and no third,  *)
(* and only the expiry sweep ends them: a lost release, and an order that  *)
(* was never sent.                                                         *)
EndedHoldsNothing ==
    \A r \in Rids : ActiveRow(r) =>
       \E s \in Signals : Answers(s, r) \/ ReleaseLost(s, r) \/ NeverSent(s, r)

(* An opening order is backed by a reservation of its own for exactly its  *)
(* value: reservation and order are computed from the same quantity.       *)
OrdersBacked ==
    \A s \in Signals :
       (sig[s].pc \in Requested /\ Opening(sig[s].type)) =>
          /\ sig[s].rid \in DOMAIN rows
          /\ rows[sig[s].rid].reserved = Price * sig[s].qty
          /\ rows[sig[s].rid].account = sig[s].account
          /\ \A u \in Signals \ {s} :
                sig[u].pc \in Running \cup Requested => sig[u].rid # sig[s].rid

(* Once the broker is done with an order and its callbacks are handled, in *)
(* whatever order they came, no cash is still set aside for it - unless    *)
(* the database failed under a handler, which forgets the callback.        *)
SettledHoldsNothing ==
    \A s \in Signals :
       (book[s].state = "done" /\ ~sig[s].lost /\ \A e \in events : e.signal # s)
          => ~ActiveRow(sig[s].rid)

(* However it ends - settled by callbacks, refused on the way, failed      *)
(* halfway - no signal leaves cash behind that nobody will release, but    *)
(* for the exceptions named.                                               *)
NothingLeftHeld == SettledHoldsNothing /\ EndedHoldsNothing

-----------------------------------------------------------------------------
(* What the documents say of the pipeline, and the code does not do.       *)

Becomes(s, pc) == sig[s].pc # pc /\ sig'[s].pc = pc

(* service.py:148, of submit_order(): "On failure, releases the            *)
(* reservation automatically".  An order that was not sent holds no cash;  *)
(* it does when the service has no adapter (see UnsentWaitsForSweep).      *)
UnsentHoldsNothing ==
    \A s \in Signals : sig[s].pc = "unsent" => ~ActiveRow(sig[s].rid)

(* What the code does instead: no step of the service releases or consumes *)
(* the reservation of an order it never sent; it stays ACTIVE until the    *)
(* sweep expires it.                                                       *)
UnsentWaitsForSweep ==
    [][\A s \in Signals :
         LET r == sig[s].rid
         IN  (sig[s].pc = "unsent" /\ ActiveRow(r)) =>
                /\ sig'[s] = sig[s]
                /\ rows'[r] = rows[r] \/ SweepWrite(r)]_vars

(* domain/risk.py, of resize: "reduce order quantity".  An order must not  *)
(* be larger than what pre-trade risk agreed to.                           *)
OrderWithinApproval ==
    [][\A s \in Signals :
         (Becomes(s, "ordered") /\ sig[s].pc = "reserving")
            => sig'[s].qty <= sig[s].approved]_vars

(* SAD 19.1: the final check guards against what changed between the risk  *)
(* check and the order - a kill switch that took effect, a signal that     *)
(* expired, a reservation that is no longer active.  When an order request *)
(* is made none of these may be so.                                        *)
FinalCheckSeesPresent ==
    [][\A s \in Signals :
         (Becomes(s, "ordered") /\ sig[s].pc = "reserving") =>
            /\ killSwitch => sig[s].type = "flatten"
            /\ now <= sig[s].valid_until
            /\ rows[sig[s].rid].status = "active"]_vars

(* domain/reservation.py: reservations prevent "over-commitment of         *)
(* available funds": the broker's cash covers what the open purchases may  *)
(* still cost.                                                             *)
Outstanding(s) ==
    IF /\ sig[s].pc \in {"ordered", "submitting", "sent"}
       /\ sig[s].type = "open_long"
       /\ book[s].state # "done"
    THEN Price * (sig[s].qty - book[s].filled) ELSE 0

OutstandingUnits(a) ==
    {u \in Signals \X (1..MaxAmount) :
        Outstanding(u[1]) > 0 /\ sig[u[1]].account = a /\ u[2] <= Outstanding(u[1])}

OrdersCovered == \A a \in Accounts : Cardinality(OutstandingUnits(a)) <= cash[a]

(* statemachine/reservation_fsm.py: "Only active or partially_consumed     *)
(* reservations can be consumed".  A fully filled order whose callbacks    *)
(* were all handled has consumed its reservation.                          *)
FillsAreConsumed ==
    \A s \in Signals :
       (/\ book[s].state = "done" /\ sig[s].rid # NoRid /\ book[s].filled = sig[s].qty
        /\ ~sig[s].lost /\ \A e \in events : e.signal # s
        /\ rows[sig[s].rid].status \notin {"released", "expired"})
          => rows[sig[s].rid].consumed = Price * sig[s].qty
=============================================================================
