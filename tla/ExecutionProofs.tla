-------------------------- MODULE ExecutionProofs --------------------------
(***************************************************************************)
(* The execution service uses the reservation manager as its module says,  *)
(* for any number of signals, accounts and reservations; so what is proved *)
(* of the manager holds of the whole pipeline.  Then what the pipeline     *)
(* itself promises: every opening order is backed by a reservation of its  *)
(* own, and no cash stays reserved for a signal that is done.              *)
(***************************************************************************)
EXTENDS Execution, ReservationProofs

(* What the calls of the pipeline rely on: the cash a caller can see never *)
(* exceeds the limit, and a fill is worth no more than an order can be.    *)
CallsInv ==
    /\ TypeOK
    /\ cash \in [Accounts -> Nat]
    /\ \A a \in Accounts : cash[a] <= CashLimit[a]
    /\ \A e \in events : e.amount \in Amounts

(* The value of an order or a fill is an amount that can be reserved.      *)
LEMMA ValueIsAmount ==
    ASSUME NEW q \in Quantities PROVE Price * q \in Amounts
<1>1. /\ Price \in Nat /\ MaxQuantity \in Nat /\ q \in Nat /\ MaxQuantity - q \in Nat
      /\ MaxAmount \in Nat
  BY ExecutionAssumption, ReservationAssumption DEF Quantities
<1>2. Price * q \in Nat /\ Price * (MaxQuantity - q) \in Nat
  BY <1>1
<1>3. Price * MaxQuantity = Price * q + Price * (MaxQuantity - q)
  BY <1>1
<1>4. QED
  BY <1>1, <1>2, <1>3, ExecutionAssumption DEF Amounts

(* process_signal() up to its first wait: reserve() is called with a value *)
(* the manager can hold and a snapshot within the limit.                   *)
LEMMA ProcessSignalIsCall ==
    ASSUME CallsInv, NEW s \in Signals, ProcessSignal(s)
    PROVE  [Next]_resVars /\ UNCHANGED <<cash, events>>
<1>1. CASE SignalStopped(s)
  BY <1>1 DEF SignalStopped
<1>2. ASSUME NEW a \in Accounts, NEW type, NEW target \in Quantities,
             NEW resized \in Quantities, NEW verdict, NEW up, NEW held, NEW validity,
             NEW r \in Rids,
             SignalReserves(s, a, type, target, verdict, resized, up, held, validity, r)
      PROVE  Next /\ UNCHANGED <<cash, events>>
  <2> DEFINE q == EffectiveQuantity(target, verdict, resized)
  <2>1. q \in Quantities
    BY DEF EffectiveQuantity
  <2>2. ReserveCall(s, a, Price * q, cash[a], r)
    BY <1>2 DEF SignalReserves, Accepted, PriceOf
  <2>3. Price * q \in Amounts
    BY <2>1, ValueIsAmount
  <2>4. cash[a] \in 0..CashLimit[a]
    BY ReservationAssumption DEF CallsInv
  <2>5. QED
    BY <1>2, <2>2, <2>3, <2>4 DEF Next, Signals, SignalReserves
<1>3. ASSUME NEW a, NEW type, NEW priced, NEW target, NEW verdict, NEW resized, NEW up,
             NEW held, NEW validity,
             SignalDirect(s, a, type, priced, target, verdict, resized, up, held, validity)
      PROVE  UNCHANGED <<resVars, cash, events>>
  BY <1>3 DEF SignalDirect
<1>4. ASSUME NEW a \in Accounts, NEW type \in SignalTypes, NEW target \in Quantities,
             NEW resized \in Quantities, NEW verdict, NEW up, NEW held, NEW validity,
             SignalPasses(s, a, type, target, verdict, resized, up, held, validity)
      PROVE  [Next]_resVars /\ UNCHANGED <<cash, events>>
  BY <1>2, <1>3, <1>4, Zenon DEF SignalPasses
<1>5. QED
  BY <1>1, <1>4 DEF ProcessSignal

(* The rest of a signal's life, the broker included. *)
LEMMA SignalStepIsCall ==
    ASSUME CallsInv, NEW s \in Signals, SignalStep(s) \/ SubmitStep(s) \/ BrokerStep(s)
    PROVE  [Next]_resVars
<1>0. s \in Tasks
  BY DEF Signals
<1>1. ASSUME NEW r, Release(r)
      PROVE  Next
  <2>1. r \in Rids
    BY <1>1 DEF Release, CallsInv, TypeOK
  <2>2. QED
    BY <1>1, <2>1 DEF Next
<1>2. CASE SignalWaits(s) \/ SignalRefused(s) \/ SignalReserved(s)
  BY <1>0, <1>2 DEF SignalWaits, SignalRefused, SignalReserved, Next, ReserveStep
<1>3. CASE SignalReleases(s) \/ SubmitReleases(s)
  BY <1>1, <1>3 DEF SignalReleases, SubmitReleases
<1>4. CASE SignalReleaseFails(s) \/ SubmitOrder(s) \/ SubmitReturns(s) \/ SubmitRaises(s)
           \/ SubmitReleaseFails(s)
  BY <1>4 DEF SignalReleaseFails, SubmitOrder, SubmitReturns, SubmitRaises, SubmitReleaseFails
<1>5. CASE BrokerStep(s)
  BY <1>5 DEF BrokerStep, BrokerAccept, BrokerFill, BrokerClose
<1>6. QED
  BY <1>2, <1>3, <1>4, <1>5 DEF SignalStep, SubmitStep

(* The callbacks. *)
LEMMA CallbackIsCall ==
    ASSUME CallsInv, NEW e \in events, Callback(e)
    PROVE  [Next]_resVars
<1> DEFINE r == sig[e.signal].rid
<1>1. r \in DOMAIN rows => r \in Rids
  BY DEF CallsInv, TypeOK
<1>2. CASE HandleFill(e)
  <2>1. CASE Consume(r, e.amount)
    <3>1. r \in Rids /\ e.amount \in Amounts
      BY <1>1, <2>1 DEF Consume, CallsInv
    <3>2. QED
      BY <2>1, <3>1 DEF Next
  <2>2. QED
    BY <1>2, <2>1 DEF HandleFill
<1>3. CASE HandleOrderFailed(e)
  <2>1. CASE Release(r)
    BY <1>1, <2>1 DEF Release, Next
  <2>2. QED
    BY <1>3, <2>1 DEF HandleOrderFailed
<1>4. CASE HandlerFails(e)
  BY <1>4 DEF HandlerFails
<1>5. QED
  BY <1>2, <1>3, <1>4 DEF Callback

LEMMA StepIsCall == CallsInv /\ [ExecNext]_vars => [Next]_resVars
<1> SUFFICES ASSUME CallsInv, [ExecNext]_vars PROVE [Next]_resVars
  OBVIOUS
<1>1. CASE \E s \in Signals :
             ProcessSignal(s) \/ SignalStep(s) \/ SubmitStep(s) \/ BrokerStep(s)
  BY <1>1, ProcessSignalIsCall, SignalStepIsCall
<1>2. CASE \E e \in events : Callback(e)
  BY <1>2, CallbackIsCall
<1>3. CASE ToggleKillSwitch
  BY <1>3 DEF ToggleKillSwitch
<1>4. CASE Background
  BY <1>4 DEF Background, Next
<1>5. CASE UNCHANGED vars
  BY <1>5 DEF vars
<1>6. QED
  BY <1>1, <1>2, <1>3, <1>4, <1>5 DEF ExecNext

(* Only a fill takes cash or makes a callback with an amount. *)
LEMMA FillKeeps ==
    ASSUME CallsInv, NEW s \in Signals, NEW shares \in Quantities, BrokerFill(s, shares)
    PROVE  /\ cash' \in [Accounts -> Nat]
           /\ \A a \in Accounts : cash'[a] <= CashLimit[a]
           /\ \A e \in events' : e.amount \in Amounts
<1> DEFINE x == sig[s].account
           paid == IF SideOf(sig[s].type) = "buy" THEN Price * shares ELSE 0
<1>1. Price * shares \in Amounts
  BY ValueIsAmount
<1>2. paid \in Nat /\ paid <= cash[x] /\ cash' = [cash EXCEPT ![x] = cash[x] - paid]
  BY <1>1 DEF BrokerFill, Amounts
<1>3. ASSUME NEW a \in Accounts
      PROVE  cash'[a] \in Nat /\ cash'[a] <= cash[a]
  BY <1>2 DEF CallsInv
<1>4. cash' \in [Accounts -> Nat]
  BY <1>2, <1>3 DEF CallsInv
<1>5. \A a \in Accounts : cash'[a] <= CashLimit[a]
  BY <1>3, ReservationAssumption DEF CallsInv
<1>6. \A e \in events' : e.amount \in Amounts
  BY <1>1 DEF BrokerFill, CallsInv
<1>7. QED
  BY <1>4, <1>5, <1>6

LEMMA CallsInvStep == CallsInv /\ [ExecNext]_vars => CallsInv'
<1> SUFFICES ASSUME CallsInv, [ExecNext]_vars PROVE CallsInv'
  OBVIOUS
<1>1. TypeOK'
  BY StepIsCall, TypeStep DEF CallsInv
<1>2. ASSUME NEW s \in Signals, NEW shares \in Quantities, BrokerFill(s, shares)
      PROVE  CallsInv'
  BY <1>1, <1>2, FillKeeps DEF CallsInv
<1>3. ASSUME NEW s \in Signals, BrokerClose(s)
      PROVE  CallsInv'
  BY <1>1, <1>3, ReservationAssumption DEF CallsInv, BrokerClose, Amounts
<1>4. ASSUME UNCHANGED cash, events' \subseteq events
      PROVE  CallsInv'
  BY <1>1, <1>4 DEF CallsInv
<1>5. ASSUME NEW s \in Signals, ProcessSignal(s)
      PROVE  UNCHANGED <<cash, events>>
  BY <1>5, ProcessSignalIsCall
<1>6. ASSUME NEW s \in Signals, SignalStep(s) \/ SubmitStep(s)
      PROVE  UNCHANGED <<cash, events>>
  BY <1>6 DEF SignalStep, SignalWaits, SignalRefused, SignalReserved, SignalReleases,
              SignalReleaseFails, SubmitStep, SubmitOrder, SubmitReturns, SubmitRaises,
              SubmitReleases, SubmitReleaseFails, execVars
<1>7. ASSUME NEW s \in Signals, BrokerAccept(s)
      PROVE  UNCHANGED <<cash, events>>
  BY <1>7 DEF BrokerAccept
<1>8. ASSUME NEW e \in events, Callback(e)
      PROVE  UNCHANGED cash /\ events' \subseteq events
  BY <1>8 DEF Callback, HandleFill, HandleOrderFailed, HandlerFails
<1>9. CASE ToggleKillSwitch \/ Background \/ UNCHANGED vars
  BY <1>4, <1>9 DEF ToggleKillSwitch, Background, vars, execVars
<1>10. QED
  BY <1>2, <1>3, <1>4, <1>5, <1>6, <1>7, <1>8, <1>9 DEF ExecNext, BrokerStep

LEMMA CallsInvInit == ExecInit => CallsInv
<1>1. Init => TypeOK
  BY ReservationAssumption DEF Init, TypeOK, Row, Call, Idle
<1>2. QED
  BY <1>1, ReservationAssumption DEF ExecInit, CallsInv

(* Every step of the pipeline, the broker and the callbacks is a step of   *)
(* the reservation manager or leaves it alone.                             *)
THEOREM ExecutionUsesManager == ExecSpec => UsesManager
<1>1. ExecInit => Init
  BY DEF ExecInit
<1>2. QED
  BY <1>1, CallsInvInit, CallsInvStep, StepIsCall, PTL DEF ExecSpec, UsesManager, Spec

(* So the pipeline never commits more cash of an account than was reported *)
(* for it, whatever signals, fills, failures and sweeps interleave.        *)
THEOREM ExecutionNeverOverCommits == ExecSpec => []ReservedWithinCash
BY ExecutionUsesManager, NoOverCommitment, PTL DEF UsesManager

(* To the strategies the whole pipeline is the pool of cash: several       *)
(* signals in the middle of process_signal(), the broker's fills and the   *)
(* sweep grant and give up holds one at a time, never beyond the cash.     *)
THEOREM ExecutionImplementsPool == ExecSpec => ImplementsCashPool
BY ExecutionUsesManager, RefinesCashPool, PTL DEF UsesManager

(* What reserve() inserts for a signal fits in the cash the signal read    *)
(* before it waited for the lock, with all that is reserved by then.       *)
THEOREM ExecutionGrantsWithinSnapshot == ExecSpec => GrantWithinSnapshot
BY ExecutionUsesManager, GrantsWithinSnapshot, PTL DEF UsesManager

-----------------------------------------------------------------------------
(* What the pipeline itself keeps: its type, and which signal answers for  *)
(* which reservation.                                                      *)

(* The program counter tells which kind of record a signal is. *)
LEMMA Shapes ==
    ASSUME NEW x \in SigState
    PROVE  /\ x.pc \in Running => x \in Pipeline
           /\ x.pc \in Requested => x \in Order
           /\ x.pc = "leaked" => \E r \in Rids : x = Leaked(r)
           /\ x.pc = "new" => x = New
BY DEF SigState, New, Ended, Leaked, Pipeline, Order, Running, Requested

(* Only an order request is with the broker, and only what is with the     *)
(* broker calls back; a pipeline that releases has something to release.   *)
Linked ==
    /\ \A s \in Signals :
          book[s].state # "absent" => sig[s].pc \in {"submitting", "sent", "failing", "failed"}
    /\ \A e \in events : book[e.signal].state # "absent"
    /\ \A s \in Signals : sig[s].pc = "releasing" => sig[s].rid # NoRid

Backed(r, a, amount) ==
    /\ r \in DOMAIN rows
    /\ rows[r].account = a
    /\ rows[r].reserved = amount

(* A signal is in reserve() exactly while it is "reserving", and the call  *)
(* has the arguments that the locals of the pipeline tell.                 *)
CallAt(s) ==
    /\ call[s] # Idle <=> sig[s].pc = "reserving"
    /\ sig[s].pc = "reserving" =>
          /\ call[s].rid = sig[s].rid
          /\ call[s].account = sig[s].account
          /\ call[s].amount = Price * sig[s].qty
    /\ call[s].pc = "flushing" => Backed(call[s].rid, call[s].account, call[s].amount)

CallOfSignal == \A s \in Signals : CallAt(s)

(* Once reserve() has returned, the row is there for as long as the signal *)
(* carries its id, and an opening order carries one.                       *)
RowAt(s) ==
    sig[s].pc \in {"releasing"} \cup Requested =>
       /\ sig[s].rid # NoRid => Backed(sig[s].rid, sig[s].account, Price * sig[s].qty)
       /\ Opening(sig[s].type) => sig[s].rid # NoRid

RowOfSignal == \A s \in Signals : RowAt(s)

Owns(s) == sig[s].pc \in Running \cup Requested /\ sig[s].rid # NoRid

OneOwner ==
    \A s, u \in Signals : Owns(s) /\ Owns(u) /\ sig[s].rid = sig[u].rid => s = u

PipeInv == ExecTypeOK /\ Linked /\ CallOfSignal /\ RowOfSignal /\ OneOwner

(* Everything but an insert only takes rows out of ACTIVE. *)
Weakened ==
    /\ UNCHANGED call
    /\ DOMAIN rows' = DOMAIN rows
    /\ \A r \in DOMAIN rows :
          /\ rows'[r].account = rows[r].account
          /\ rows'[r].reserved = rows[r].reserved
          /\ rows'[r].status = "active" => rows[r].status = "active"

LEMMA ReleaseWeakens ==
    ASSUME TypeOK, NEW r, Release(r)
    PROVE  Weakened /\ r \in DOMAIN rows /\ rows'[r].status = "released"
BY DEF TypeOK, Row, Release, Weakened

LEMMA ConsumeWeakens ==
    ASSUME TypeOK, NEW r, NEW amount \in Amounts, Consume(r, amount)
    PROVE  Weakened /\ r \in DOMAIN rows /\ rows'[r].status # "active"
BY DEF TypeOK, Row, Consume, Consumed, Weakened

LEMMA BackgroundWeakens ==
    ASSUME TypeOK, Background
    PROVE  Weakened /\ UNCHANGED execVars
<1>1. ASSUME NEW r \in Rids, SweepWrite(r)
      PROVE  Weakened
  BY <1>1 DEF TypeOK, Row, SweepWrite, Weakened
<1>2. CASE SweepQuery \/ Tick
  BY <1>2 DEF Background, SweepQuery, Tick, Weakened
<1> QED
  BY <1>1, <1>2 DEF Background

(* A step of an order request keeps what the order is and whose id it      *)
(* carries; a lost write is never found again.                             *)
OrderMoves(s) ==
    /\ sig' = [sig EXCEPT ![s] = sig'[s]]
    /\ sig[s] \in Order /\ sig'[s] \in Order
    /\ sig'[s].account = sig[s].account /\ sig'[s].type = sig[s].type
    /\ sig'[s].qty = sig[s].qty /\ sig'[s].rid = sig[s].rid
    /\ sig[s].lost => sig'[s].lost

LEMMA SubmitMoves ==
    ASSUME CallsInv, ExecTypeOK, NEW s \in Signals, SubmitStep(s)
    PROVE  Weakened /\ OrderMoves(s) /\ UNCHANGED <<book, events, cash, killSwitch>>
<1>0. sig \in [Signals -> SigState] /\ TypeOK
  BY DEF ExecTypeOK, CallsInv
<1>1. sig[s] \in Order
  BY <1>0, Shapes DEF SubmitStep, SubmitOrder, SubmitReturns, SubmitRaises, SubmitReleases,
                      SubmitReleaseFails, Requested
<1>2. CASE SubmitReleases(s)
  <2>1. Weakened
    BY <1>0, <1>2, ReleaseWeakens DEF SubmitReleases
  <2>2. OrderMoves(s)
    BY <1>0, <1>1, <1>2 DEF SubmitReleases, OrderMoves, Order, Requested
  <2> QED
    BY <1>2, <2>1, <2>2 DEF SubmitReleases
<1>3. CASE SubmitOrder(s) \/ SubmitReturns(s) \/ SubmitRaises(s) \/ SubmitReleaseFails(s)
  <2>1. Weakened
    BY <1>3 DEF Weakened, resVars, SubmitOrder, SubmitReturns, SubmitRaises, SubmitReleaseFails
  <2>2. SubmitOrder(s) => OrderMoves(s)
    BY <1>0, <1>1 DEF SubmitOrder, OrderMoves, Order, Requested
  <2>3. SubmitReturns(s) => OrderMoves(s)
    BY <1>0, <1>1 DEF SubmitReturns, OrderMoves, Order, Requested
  <2>4. SubmitRaises(s) => OrderMoves(s)
    BY <1>0, <1>1 DEF SubmitRaises, OrderMoves, Order, Requested
  <2>5. SubmitReleaseFails(s) => OrderMoves(s)
    <3> DEFINE y == [sig[s] EXCEPT !.pc = "failed", !.lost = TRUE]
    <3>1. /\ y \in Order /\ y.lost
          /\ y.account = sig[s].account /\ y.type = sig[s].type
          /\ y.qty = sig[s].qty /\ y.rid = sig[s].rid
      BY <1>1 DEF Order, Requested
    <3> HIDE DEF y
    <3>2. SubmitReleaseFails(s) => sig' = [sig EXCEPT ![s] = y]
      BY DEF SubmitReleaseFails, y
    <3> QED
      BY <1>0, <1>1, <3>1, <3>2 DEF OrderMoves
  <2>6. UNCHANGED <<book, events, cash, killSwitch>>
    BY <1>3 DEF SubmitOrder, SubmitReturns, SubmitRaises, SubmitReleaseFails
  <2> QED
    BY <1>3, <2>1, <2>2, <2>3, <2>4, <2>5, <2>6
<1> QED
  BY <1>2, <1>3 DEF SubmitStep

LEMMA LossMoves ==
    ASSUME ExecTypeOK, Linked, NEW e \in events, HandlerFails(e)
    PROVE  /\ Weakened /\ e.signal \in Signals /\ OrderMoves(e.signal)
           /\ sig'[e.signal].lost
           /\ UNCHANGED <<book, cash, killSwitch>> /\ events' \subseteq events
<1> DEFINE s == e.signal
<1>1. s \in Signals /\ sig \in [Signals -> SigState]
  BY DEF ExecTypeOK
<1>2. sig[s] \in Order
  BY <1>1, Shapes DEF Linked, Requested
<1>3. OrderMoves(s) /\ sig'[s].lost
  BY <1>1, <1>2 DEF HandlerFails, OrderMoves, Order
<1> QED
  BY <1>1, <1>3 DEF HandlerFails, Weakened, resVars

(* A callback that succeeds, and the broker, leave the signals alone. *)
LEMMA HandlerWeakens ==
    ASSUME CallsInv, NEW e \in events, HandleFill(e) \/ HandleOrderFailed(e)
    PROVE  /\ Weakened /\ UNCHANGED <<sig, book, cash, killSwitch>>
           /\ events' = events \ {e}
<1>0. TypeOK /\ e.amount \in Amounts
  BY DEF CallsInv
<1>1. CASE UNCHANGED resVars
  BY <1>1 DEF HandleFill, HandleOrderFailed, Weakened, resVars
<1>2. ASSUME NEW r, Release(r) \/ Consume(r, e.amount)
      PROVE  Weakened
  BY <1>0, <1>2, ReleaseWeakens, ConsumeWeakens
<1> QED
  BY <1>1, <1>2 DEF HandleFill, HandleOrderFailed

LEMMA BrokerWeakens ==
    ASSUME NEW s \in Signals, BrokerStep(s)
    PROVE  Weakened /\ UNCHANGED sig
BY DEF BrokerStep, BrokerAccept, BrokerFill, BrokerClose, Weakened, resVars

(* An order without a price never passes the final check. *)
LEMMA UnpricedStops ==
    ASSUME NEW x, ~(PriceOf(x) > 0)
    PROVE  Outcome(x) # "ordered"
<1> DEFINE ctx == ContextOf(x)
<1>1. ~ctx.price_positive
  BY DEF ContextOf, PassingContext
<1>2. "params_invalid" \in FailedChecks(ctx)
  BY <1>1 DEF FailedChecks, Fail
<1> HIDE DEF ctx
<1>3. Execute(ctx) # "allow"
  BY <1>2 DEF Execute, Verdict
<1> QED
  BY <1>3 DEF Outcome, ctx

(* Steps 4 to 6 end with an order request, with a release to do, or with   *)
(* nothing; the first two keep what the signal is about and its id.        *)
Continues(x, y) ==
    /\ y.account = x.account /\ y.type = x.type /\ y.qty = x.qty /\ y.rid = x.rid
    /\ \/ y \in Order /\ y.pc = "ordered" /\ Outcome(x) = "ordered" /\ ~y.lost
       \/ y \in Pipeline /\ y.pc = "releasing" /\ y.rid # NoRid

LEMMA FinishedIs ==
    ASSUME NEW x \in Pipeline
    PROVE  \/ Finished(x) = Ended /\ x.rid = NoRid
           \/ Continues(x, Finished(x))
<1>1. CASE Outcome(x) = "ordered"
  <2>1. Finished(x) = OrderRequest(x)
    BY <1>1 DEF Finished
  <2>2. x.qty # 0 /\ x.type # "hold"
    BY <1>1 DEF Outcome
  <2>3. OrderRequest(x) \in Order
    BY <2>2 DEF OrderRequest, Pipeline, Order, Requested
  <2> QED
    BY <1>1, <2>1, <2>3 DEF OrderRequest, Continues
<1>2. CASE Outcome(x) # "ordered" /\ x.rid = NoRid
  BY <1>2 DEF Finished
<1>3. CASE Outcome(x) # "ordered" /\ x.rid # NoRid
  <2> DEFINE y == [x EXCEPT !.pc = "releasing", !.then = Outcome(x)]
  <2>1. Outcome(x) \in {"none", "raised"}
    BY <1>3 DEF Outcome
  <2> DEFINE o == Outcome(x)
  <2> HIDE DEF o
  <2>2. \A z \in {"none", "raised"} :
          LET w == [x EXCEPT !.pc = "releasing", !.then = z]
          IN  /\ w \in Pipeline /\ w.pc = "releasing"
              /\ w.account = x.account /\ w.type = x.type /\ w.qty = x.qty /\ w.rid = x.rid
    BY DEF Pipeline, Running
  <2>3. Finished(x) = y
    BY <1>3 DEF Finished
  <2>4. /\ y \in Pipeline /\ y.pc = "releasing"
        /\ y.account = x.account /\ y.type = x.type /\ y.qty = x.qty /\ y.rid = x.rid
    BY <2>1, <2>2
  <2> HIDE DEF y
  <2> QED
    BY <1>3, <2>3, <2>4 DEF Continues
<1> QED
  BY <1>1, <1>2, <1>3

(* The locals that a signal starts with. *)
LEMMA AcceptedIs ==
    ASSUME CallsInv, NEW a \in Accounts, NEW type \in SignalTypes, NEW priced \in BOOLEAN,
           NEW target \in Quantities, NEW verdict, NEW resized \in Quantities,
           NEW up \in YesNo, NEW held \in Holdings, NEW validity \in Validity,
           NEW r \in Rids \cup {NoRid}
    PROVE  LET x == Accepted(a, type, priced, target, verdict, resized, up, held, validity, r)
           IN  x \in Pipeline /\ x.pc = "reserving"
<1>1. now + validity \in Nat
  BY ExecutionAssumption DEF CallsInv, TypeOK
<1>2. held \in Quantities
  BY QuantityAssumption DEF Holdings, Quantities
<1>3. EffectiveQuantity(target, verdict, resized) \in Quantities
  BY DEF EffectiveQuantity
<1>4. (IF verdict = "resize" THEN resized ELSE target) \in Quantities
  OBVIOUS
<1>5. (IF killSwitch THEN "yes" ELSE "no") \in YesNo
  BY DEF YesNo
<1> QED
  BY <1>1, <1>2, <1>3, <1>4, <1>5 DEF Accepted, Pipeline, Running

(* Both ways into the pipeline, and out of it at once. *)
Enters(s) ==
    \E x \in Pipeline, a \in Accounts, r \in Rids :
       /\ x.pc = "reserving" /\ x.rid = r /\ x.account = a
       /\ ReserveCall(s, a, Price * x.qty, cash[a], r)
       /\ sig' = [sig EXCEPT ![s] = x]

Passes(s) ==
    \E x \in Pipeline :
       /\ x.rid = NoRid
       /\ ~(Opening(x.type) /\ PriceOf(x) > 0)
       /\ sig' = [sig EXCEPT ![s] = Finished(x)]
       /\ UNCHANGED resVars

LEMMA ProcessSignalIs ==
    ASSUME CallsInv, NEW s \in Signals, ProcessSignal(s)
    PROVE  /\ sig[s] = New /\ UNCHANGED <<book, events, cash, killSwitch>>
           /\ \/ sig' = [sig EXCEPT ![s] = Ended] /\ UNCHANGED resVars
              \/ Enters(s)
              \/ Passes(s)
<1> DEFINE Claim ==
      /\ sig[s] = New /\ UNCHANGED <<book, events, cash, killSwitch>>
      /\ \/ sig' = [sig EXCEPT ![s] = Ended] /\ UNCHANGED resVars
         \/ Enters(s)
         \/ Passes(s)
<1>1. CASE SignalStopped(s)
  BY <1>1 DEF SignalStopped
<1>2. ASSUME NEW a \in Accounts, NEW type \in SignalTypes, NEW target \in Quantities,
             NEW resized \in Quantities, NEW verdict, NEW up \in YesNo, NEW held \in Holdings,
             NEW validity \in Validity, NEW r \in Rids,
             SignalReserves(s, a, type, target, verdict, resized, up, held, validity, r)
      PROVE  Claim
  <2> DEFINE x == Accepted(a, type, TRUE, target, verdict, resized, up, held, validity, r)
  <2>0. TRUE \in BOOLEAN /\ r \in Rids \cup {NoRid}
    OBVIOUS
  <2>1. x \in Pipeline /\ x.pc = "reserving"
    <3>1. a \in Accounts /\ type \in SignalTypes /\ target \in Quantities /\ resized \in Quantities
          /\ up \in YesNo /\ held \in Holdings /\ validity \in Validity
      OBVIOUS
    <3>2. PICK priced \in BOOLEAN, rid \in Rids \cup {NoRid} : priced = TRUE /\ rid = r
      BY <2>0
    <3> DEFINE y == Accepted(a, type, priced, target, verdict, resized, up, held, validity, rid)
    <3>3. y \in Pipeline /\ y.pc = "reserving"
      BY <3>1, AcceptedIs
    <3>4. x = y
      BY <3>2
    <3> QED
      BY <3>3, <3>4
  <2>2. x.rid = r /\ x.account = a /\ PriceOf(x) = Price
    BY DEF Accepted, PriceOf
  <2>3. /\ sig[s] = New /\ UNCHANGED <<book, events, cash, killSwitch>>
        /\ ReserveCall(s, a, PriceOf(x) * x.qty, cash[a], r)
        /\ sig' = [sig EXCEPT ![s] = x]
    BY <1>2 DEF SignalReserves
  <2> HIDE DEF x
  <2>4. Enters(s)
    BY <2>1, <2>2, <2>3 DEF Enters
  <2> QED
    BY <2>3, <2>4
<1>3. ASSUME NEW a \in Accounts, NEW type \in SignalTypes, NEW priced \in BOOLEAN,
             NEW target \in Quantities, NEW resized \in Quantities, NEW verdict,
             NEW up \in YesNo, NEW held \in Holdings, NEW validity \in Validity,
             SignalDirect(s, a, type, priced, target, verdict, resized, up, held, validity)
      PROVE  Claim
  <2> DEFINE x == Accepted(a, type, priced, target, verdict, resized, up, held, validity, NoRid)
  <2>1. x \in Pipeline /\ x.pc = "reserving"
    BY AcceptedIs
  <2>2. x.rid = NoRid /\ x.type = type
    BY DEF Accepted
  <2>3. /\ sig[s] = New /\ UNCHANGED <<book, events, cash, killSwitch>> /\ UNCHANGED resVars
        /\ ~(Opening(type) /\ PriceOf(x) > 0)
        /\ sig' = [sig EXCEPT ![s] = Finished(x)]
    BY <1>3 DEF SignalDirect
  <2> HIDE DEF x
  <2>4. Passes(s)
    BY <2>1, <2>2, <2>3 DEF Passes
  <2> QED
    BY <2>3, <2>4
<1> HIDE DEF Claim
<1>4. ASSUME NEW a \in Accounts, NEW type \in SignalTypes, NEW target \in Quantities,
             NEW resized \in Quantities, NEW verdict, NEW up \in YesNo, NEW held \in Holdings,
             NEW validity \in Validity,
             SignalPasses(s, a, type, target, verdict, resized, up, held, validity)
      PROVE  Claim
  BY <1>2, <1>3, <1>4, Zenon DEF SignalPasses
<1>5. Claim
  BY <1>1, <1>4 DEF ProcessSignal, Claim
<1> QED
  BY <1>5 DEF Claim

-----------------------------------------------------------------------------
(* Every step, told by what it does to a signal and to the manager.        *)

SignalKeeps(s) == Weakened /\ OrderMoves(s)

SignalStarts(s) ==
    /\ sig[s] = New
    /\ \/ sig' = [sig EXCEPT ![s] = Ended] /\ UNCHANGED resVars
       \/ Enters(s)
       \/ Passes(s)

LEMMA StepKinds ==
    ASSUME CallsInv, ExecTypeOK, Linked, [ExecNext]_vars
    PROVE  \/ Weakened /\ UNCHANGED sig
           \/ \E s \in Signals : SignalKeeps(s) \/ SignalStarts(s) \/ SignalStep(s)
<1>0. TypeOK
  BY DEF CallsInv
<1>1. ASSUME NEW s \in Signals, ProcessSignal(s)
      PROVE  SignalStarts(s)
  BY <1>1, ProcessSignalIs DEF SignalStarts
<1>2. ASSUME NEW s \in Signals, SubmitStep(s)
      PROVE  SignalKeeps(s)
  BY <1>2, SubmitMoves DEF SignalKeeps
<1>3. ASSUME NEW s \in Signals, BrokerStep(s)
      PROVE  Weakened /\ UNCHANGED sig
  BY <1>3, BrokerWeakens
<1>4. ASSUME NEW e \in events, Callback(e)
      PROVE  \/ Weakened /\ UNCHANGED sig
             \/ \E s \in Signals : SignalKeeps(s)
  <2>1. CASE HandleFill(e) \/ HandleOrderFailed(e)
    BY <2>1, HandlerWeakens
  <2>2. CASE HandlerFails(e)
    BY <2>2, LossMoves DEF SignalKeeps
  <2> QED
    BY <1>4, <2>1, <2>2 DEF Callback
<1>5. CASE ToggleKillSwitch \/ UNCHANGED vars
  BY <1>5 DEF ToggleKillSwitch, Weakened, resVars, execVars, vars
<1>6. CASE Background
  BY <1>0, <1>6, BackgroundWeakens DEF execVars
<1> QED
  BY <1>1, <1>2, <1>3, <1>4, <1>5, <1>6 DEF ExecNext

(* A step inside reserve() is of a signal that is "reserving". *)
LEMMA ReservingIs ==
    ASSUME TypeOK, ExecTypeOK, CallOfSignal, NEW s \in Signals,
           SignalWaits(s) \/ SignalRefused(s) \/ SignalReserved(s)
    PROVE  /\ s \in Tasks /\ call[s] # Idle /\ call[s] \in Call \ {Idle}
           /\ sig[s] \in Pipeline /\ sig[s].pc = "reserving"
           /\ sig[s].rid = call[s].rid /\ sig[s].rid \in Rids /\ sig[s].rid # NoRid
           /\ call[s].account = sig[s].account
           /\ call[s].amount = Price * sig[s].qty
<1>1. s \in Tasks /\ call[s] \in Call
  BY DEF Signals, TypeOK
<1>2. call[s].pc \in {"waiting", "locked", "summed", "flushing"}
  BY DEF SignalWaits, SignalRefused, SignalReserved, ReserveLock, ReserveSum, ReserveInsert,
         ReserveReject, ReserveAbort, ReserveReturn
<1>3. call[s] # Idle
  BY <1>2 DEF Idle
<1>4. sig[s].pc = "reserving" /\ sig[s] \in SigState
  BY <1>3 DEF CallOfSignal, CallAt, ExecTypeOK
<1>5. sig[s] \in Pipeline
  BY <1>4, Shapes DEF Running
<1>6. call[s].rid \in Rids
  BY <1>1, <1>3 DEF Call
<1> QED
  BY <1>1, <1>3, <1>4, <1>5, <1>6, ExecutionAssumption DEF CallOfSignal, CallAt

LEMMA ReleasingIs ==
    ASSUME ExecTypeOK, Linked, NEW s \in Signals, sig[s].pc = "releasing"
    PROVE  sig[s] \in Pipeline /\ sig[s].rid \in Rids
<1>1. sig[s] \in Pipeline
  BY Shapes DEF ExecTypeOK, Running
<1> QED
  BY <1>1 DEF Linked, Pipeline

(* A release that fails is tried once more, or given up. *)
LEMMA ReleaseFailsIs ==
    ASSUME ExecTypeOK, Linked, NEW s \in Signals, SignalReleaseFails(s)
    PROVE  \/ Continues(sig[s], sig'[s]) /\ sig'[s] \in Pipeline /\ sig'[s].pc = "releasing"
           \/ sig'[s] = Leaked(sig[s].rid)
<1> DEFINE y == [sig[s] EXCEPT !.then = "raised"]
<1>1. sig[s].pc = "releasing" /\ sig[s] \in Pipeline /\ sig[s].rid # NoRid
  BY ReleasingIs DEF SignalReleaseFails, Linked
<1>2. Continues(sig[s], y) /\ y \in Pipeline /\ y.pc = "releasing"
  BY <1>1 DEF Continues, Pipeline
<1> HIDE DEF y
<1>3. sig'[s] = y \/ sig'[s] = Leaked(sig[s].rid)
  BY DEF SignalReleaseFails, ExecTypeOK, y
<1> QED
  BY <1>2, <1>3

(* What a signal becomes is a state a signal can be in. *)
LEMMA SigTypeStep ==
    ASSUME CallsInv, ExecTypeOK, Linked, CallOfSignal, [ExecNext]_vars
    PROVE  sig' \in [Signals -> SigState]
<1>0. sig \in [Signals -> SigState] /\ TypeOK
  BY DEF ExecTypeOK, CallsInv
<1>1. ASSUME NEW s \in Signals, NEW y \in SigState, sig' = [sig EXCEPT ![s] = y]
      PROVE  sig' \in [Signals -> SigState]
  BY <1>0, <1>1
<1>2. \A x \in Pipeline : x \in SigState /\ Finished(x) \in SigState
  BY FinishedIs DEF SigState, Continues
<1>3. Ended \in SigState /\ Order \subseteq SigState
  BY DEF SigState
<1>4. ASSUME NEW s \in Signals, SignalKeeps(s)
      PROVE  sig' \in [Signals -> SigState]
  BY <1>1, <1>3, <1>4 DEF SignalKeeps, OrderMoves
<1>5. ASSUME NEW s \in Signals, SignalStarts(s)
      PROVE  sig' \in [Signals -> SigState]
  BY <1>1, <1>2, <1>3, <1>5 DEF SignalStarts, Enters, Passes
<1>6. ASSUME NEW s \in Signals, SignalStep(s)
      PROVE  sig' \in [Signals -> SigState]
  <2>1. CASE SignalWaits(s)
    BY <1>0, <2>1 DEF SignalWaits, execVars
  <2>2. CASE SignalRefused(s)
    BY <1>1, <1>3, <2>2 DEF SignalRefused
  <2>3. CASE SignalReserved(s)
    BY <1>0, <1>1, <1>2, <2>3, ReservingIs DEF SignalReserved
  <2>4. CASE SignalReleases(s)
    BY <1>1, <1>3, <2>4 DEF SignalReleases
  <2>5. CASE SignalReleaseFails(s)
    <3>1. sig[s] \in Pipeline /\ sig[s].rid \in Rids
      BY <2>5, ReleasingIs DEF SignalReleaseFails
    <3>2. [sig[s] EXCEPT !.then = "raised"] \in SigState
      BY <3>1 DEF SigState, Pipeline
    <3>3. Leaked(sig[s].rid) \in SigState
      BY <3>1 DEF SigState
    <3> QED
      BY <1>1, <2>5, <3>2, <3>3 DEF SignalReleaseFails
  <2> QED
    BY <1>6, <2>1, <2>2, <2>3, <2>4, <2>5 DEF SignalStep
<1>7. CASE UNCHANGED sig
  BY <1>0, <1>7
<1> QED
  BY <1>4, <1>5, <1>6, <1>7, StepKinds

(* The broker's orders and callbacks change only where the broker or a     *)
(* handler acts.                                                           *)
LEMMA QuietSteps ==
    ASSUME CallsInv, NEW s \in Signals, ProcessSignal(s) \/ SignalStep(s) \/ SubmitStep(s)
    PROVE  UNCHANGED <<book, events, cash, killSwitch>>
<1>1. CASE ProcessSignal(s)
  BY <1>1, ProcessSignalIs
<1>2. CASE SignalStep(s)
  BY <1>2 DEF SignalStep, SignalWaits, SignalRefused, SignalReserved, SignalReleases,
              SignalReleaseFails, execVars
<1>3. CASE SubmitStep(s)
  BY <1>3 DEF SubmitStep, SubmitOrder, SubmitReturns, SubmitRaises, SubmitReleases,
              SubmitReleaseFails
<1> QED
  BY <1>1, <1>2, <1>3

LEMMA ExecTypeStep ==
    ASSUME CallsInv, CallsInv', ExecTypeOK, Linked, CallOfSignal, [ExecNext]_vars
    PROVE  ExecTypeOK'
<1> DEFINE Rest == /\ book \in [Signals -> [state: {"absent", "live", "done"},
                                            filled: Quantities]]
                   /\ events \subseteq [signal: Signals, kind: {"fill", "failed"},
                                        upto: Quantities, amount: Amounts]
                   /\ killSwitch \in BOOLEAN
<1>0. Rest /\ sig \in [Signals -> SigState]
  BY DEF ExecTypeOK
<1>1. CASE UNCHANGED book /\ events' \subseteq events /\ killSwitch' \in BOOLEAN
  BY <1>0, <1>1, SigTypeStep DEF ExecTypeOK, CallsInv
<1>2. ASSUME NEW s \in Signals, BrokerAccept(s)
      PROVE  Rest'
  BY <1>0, <1>2 DEF BrokerAccept
<1>3. ASSUME NEW s \in Signals, NEW shares \in Quantities, BrokerFill(s, shares)
      PROVE  Rest'
  <2> DEFINE f == book[s].filled + shares
  <2>1. sig[s] \in Order
    BY <1>0, <1>3, Shapes DEF BrokerFill, Linked, Requested
  <2>2. f \in Quantities
    BY <1>0, <1>3, <2>1, QuantityAssumption DEF BrokerFill, Order, Quantities
  <2>3. Price * shares \in Amounts
    BY ValueIsAmount
  <2> DEFINE b == [state |-> IF f = sig[s].qty THEN "done" ELSE "live", filled |-> f]
  <2> DEFINE e == [signal |-> s, kind |-> "fill", upto |-> f, amount |-> Price * shares]
  <2>4. /\ b \in [state: {"absent", "live", "done"}, filled: Quantities]
        /\ e \in [signal: Signals, kind: {"fill", "failed"}, upto: Quantities, amount: Amounts]
    BY <2>2, <2>3
  <2>5. book' = [book EXCEPT ![s] = b] /\ events' = events \cup {e} /\ UNCHANGED killSwitch
    BY <1>3 DEF BrokerFill
  <2> HIDE DEF b, e
  <2> QED
    BY <1>0, <2>4, <2>5
<1>4. ASSUME NEW s \in Signals, BrokerClose(s)
      PROVE  Rest'
  <2>1. 0 \in Amounts
    BY ReservationAssumption DEF Amounts
  <2> QED
    BY <1>0, <1>4, <2>1 DEF BrokerClose
<1>5. Rest' => ExecTypeOK'
  BY SigTypeStep DEF ExecTypeOK, CallsInv
<1> HIDE DEF Rest
<1>6. ASSUME NEW s \in Signals, ProcessSignal(s) \/ SignalStep(s) \/ SubmitStep(s)
      PROVE  ExecTypeOK'
  BY <1>0, <1>1, <1>6, QuietSteps DEF Rest
<1>7. ASSUME NEW e \in events, Callback(e)
      PROVE  ExecTypeOK'
  BY <1>0, <1>1, <1>7 DEF Rest, Callback, HandleFill, HandleOrderFailed, HandlerFails
<1>8. CASE ToggleKillSwitch
  BY <1>0, <1>1, <1>8 DEF Rest, ToggleKillSwitch
<1>9. CASE Background \/ UNCHANGED vars
  BY <1>0, <1>1, <1>9 DEF Rest, Background, execVars, vars
<1> QED
  BY <1>2, <1>3, <1>4, <1>5, <1>6, <1>7, <1>8, <1>9 DEF ExecNext, BrokerStep

-----------------------------------------------------------------------------
(* The links between signals, calls and rows.                              *)

(* A row, once created, keeps what it is for. *)
RowsStay ==
    \A r \in DOMAIN rows :
       /\ r \in DOMAIN rows'
       /\ rows'[r].account = rows[r].account
       /\ rows'[r].reserved = rows[r].reserved

LEMMA BackedStays ==
    ASSUME RowsStay, NEW r, NEW a, NEW amount, Backed(r, a, amount)
    PROVE  r \in DOMAIN rows' /\ rows'[r].account = a /\ rows'[r].reserved = amount
BY DEF RowsStay, Backed

(* A step of a signal changes no other signal and no other call. *)
Only(s) ==
    /\ sig' = [sig EXCEPT ![s] = sig'[s]]
    /\ call' = [call EXCEPT ![s] = call'[s]]
    /\ RowsStay

LEMMA StepsAreOwn ==
    ASSUME TypeOK, RidInv, ExecTypeOK, NEW s \in Signals,
           SignalKeeps(s) \/ SignalStarts(s) \/ SignalStep(s)
    PROVE  Only(s)
<1>0. s \in Tasks /\ sig \in [Signals -> SigState] /\ call \in [Tasks -> Call]
  BY DEF Signals, ExecTypeOK, TypeOK
<1>1. ASSUME NEW y, sig' = [sig EXCEPT ![s] = y]
      PROVE  sig' = [sig EXCEPT ![s] = sig'[s]]
  BY <1>0, <1>1
<1>2. ASSUME NEW y, call' = [call EXCEPT ![s] = y]
      PROVE  call' = [call EXCEPT ![s] = call'[s]]
  BY <1>0, <1>2
<1>3. UNCHANGED call => call' = [call EXCEPT ![s] = call'[s]]
  BY <1>0
<1>4. UNCHANGED sig => sig' = [sig EXCEPT ![s] = sig'[s]]
  BY <1>0
<1>5. UNCHANGED rows => RowsStay
  BY DEF RowsStay
<1>6. Weakened => RowsStay /\ UNCHANGED call
  BY DEF RowsStay, Weakened
<1>7. CASE SignalKeeps(s)
  BY <1>3, <1>6, <1>7 DEF SignalKeeps, OrderMoves, Only
<1>8. CASE SignalStarts(s)
  <2>1. CASE sig' = [sig EXCEPT ![s] = Ended] /\ UNCHANGED resVars
    BY <1>1, <1>3, <1>5, <2>1 DEF resVars, Only
  <2>2. CASE Enters(s)
    BY <1>1, <1>2, <1>5, <2>2 DEF Enters, ReserveCall, Only
  <2>3. CASE Passes(s)
    BY <1>1, <1>3, <1>5, <2>3 DEF Passes, resVars, Only
  <2> QED
    BY <1>8, <2>1, <2>2, <2>3 DEF SignalStarts
<1>9. CASE SignalStep(s)
  <2>1. CASE SignalWaits(s)
    <3>1. CASE ReserveLock(s)
      <4>1. call' = [call EXCEPT ![s] = [call[s] EXCEPT !.pc = "locked"]]
        BY <3>1 DEF ReserveLock
      <4> QED
        BY <1>2, <1>4, <1>5, <2>1, <3>1, <4>1 DEF SignalWaits, execVars, ReserveLock, Only
    <3>2. CASE ReserveSum(s)
      <4>1. \E y : call' = [call EXCEPT ![s] = y]
        BY <3>2 DEF ReserveSum
      <4> QED
        BY <1>2, <1>4, <1>5, <2>1, <3>2, <4>1 DEF SignalWaits, execVars, ReserveSum, Only
    <3>3. CASE ReserveInsert(s)
      <4>1. call' = [call EXCEPT ![s] = [call[s] EXCEPT !.pc = "flushing"]]
        BY <3>3 DEF ReserveInsert
      <4>2. call[s].rid \notin DOMAIN rows
        BY <1>0, <3>3 DEF RidInv, ReserveInsert
      <4>3. RowsStay
        BY <3>3, <4>2 DEF ReserveInsert, RowsStay
      <4> QED
        BY <1>2, <1>4, <2>1, <4>1, <4>3 DEF SignalWaits, execVars, Only
    <3> QED
      BY <2>1, <3>1, <3>2, <3>3 DEF SignalWaits
  <2>2. CASE SignalRefused(s)
    BY <1>1, <1>2, <1>5, <2>2 DEF SignalRefused, ReserveReject, ReserveAbort, Only
  <2>3. CASE SignalReserved(s)
    BY <1>1, <1>2, <1>5, <2>3 DEF SignalReserved, ReserveReturn, Only
  <2>4. CASE SignalReleases(s)
    <3>1. Weakened
      BY <2>4, ReleaseWeakens DEF SignalReleases
    <3> QED
      BY <1>1, <1>3, <1>6, <2>4, <3>1 DEF SignalReleases, Only
  <2>5. CASE SignalReleaseFails(s)
    BY <1>1, <1>3, <1>5, <2>5 DEF SignalReleaseFails, resVars, Only
  <2> QED
    BY <1>9, <2>1, <2>2, <2>3, <2>4, <2>5 DEF SignalStep
<1> QED
  BY <1>7, <1>8, <1>9

LEMMA CallStep ==
    ASSUME CallsInv, RidInv, ExecTypeOK, Linked, CallOfSignal, [ExecNext]_vars
    PROVE  CallOfSignal'
<1>0. TypeOK /\ sig \in [Signals -> SigState] /\ call \in [Tasks -> Call] /\ Signals = Tasks
  BY DEF CallsInv, TypeOK, ExecTypeOK, Signals
<1>1. ASSUME NEW u \in Signals, RowsStay, sig'[u] = sig[u], call'[u] = call[u]
      PROVE  CallAt(u)'
  BY <1>1, BackedStays DEF CallOfSignal, CallAt, Backed
<1>2. CASE Weakened /\ UNCHANGED sig
  <2>1. RowsStay /\ UNCHANGED call
    BY <1>2 DEF Weakened, RowsStay
  <2> QED
    BY <1>1, <1>2, <2>1 DEF CallOfSignal
<1>3. ASSUME NEW s \in Signals, SignalKeeps(s) \/ SignalStarts(s) \/ SignalStep(s), CallAt(s)'
      PROVE  CallOfSignal'
  <2>1. Only(s)
    BY <1>0, <1>3, StepsAreOwn
  <2>2. ASSUME NEW u \in Signals, u # s
        PROVE  CallAt(u)'
    BY <1>0, <1>1, <2>1, <2>2 DEF Only
  <2> QED
    BY <1>3, <2>2 DEF CallOfSignal
<1>4. ASSUME NEW s \in Signals, SignalKeeps(s)
      PROVE  CallAt(s)'
  <2>1. sig[s].pc # "reserving" /\ sig'[s].pc # "reserving" /\ UNCHANGED call
    BY <1>4 DEF SignalKeeps, OrderMoves, Order, Requested, Weakened
  <2>2. call[s] = Idle
    BY <2>1 DEF CallOfSignal, CallAt
  <2> QED
    BY <2>1, <2>2 DEF CallAt, Idle
<1>5. ASSUME NEW y, y = Ended \/ y \in Order \/ (y \in Pipeline /\ y.pc = "releasing")
      PROVE  y.pc # "reserving"
  BY <1>5 DEF Ended, Order, Requested, Pipeline
<1>6. ASSUME NEW s \in Signals, call'[s] = Idle, sig'[s].pc # "reserving"
      PROVE  CallAt(s)'
  BY <1>6 DEF CallAt, Idle
<1>7. ASSUME NEW x \in Pipeline
      PROVE  Finished(x).pc # "reserving"
  BY <1>5, FinishedIs DEF Continues
<1>8. ASSUME NEW s \in Signals, SignalStarts(s)
      PROVE  CallAt(s)'
  <2>1. call[s] = Idle
    BY <1>8 DEF SignalStarts, New, CallOfSignal, CallAt
  <2>2. CASE sig' = [sig EXCEPT ![s] = Ended] /\ UNCHANGED resVars
    BY <1>0, <1>5, <1>6, <2>1, <2>2 DEF resVars
  <2>3. CASE Enters(s)
    <3>1. PICK x \in Pipeline, a \in Accounts, r \in Rids :
             /\ x.pc = "reserving" /\ x.rid = r /\ x.account = a
             /\ ReserveCall(s, a, Price * x.qty, cash[a], r)
             /\ sig' = [sig EXCEPT ![s] = x]
      BY <2>3 DEF Enters
    <3>2. call'[s] = [pc |-> "waiting", account |-> a, amount |-> Price * x.qty,
                      available |-> cash[a], total |-> 0, rid |-> r]
      BY <1>0, <3>1 DEF ReserveCall
    <3>3. sig'[s] = x
      BY <1>0, <3>1
    <3>4. call'[s] # Idle /\ call'[s].pc # "flushing"
      BY <3>2 DEF Idle
    <3>5. /\ call'[s].rid = r /\ call'[s].account = a
          /\ call'[s].amount = Price * x.qty
      BY <3>2
    <3> QED
      BY <3>1, <3>3, <3>4, <3>5 DEF CallAt
  <2>4. CASE Passes(s)
    BY <1>0, <1>6, <1>7, <2>1, <2>4 DEF Passes, resVars
  <2> QED
    BY <1>8, <2>2, <2>3, <2>4 DEF SignalStarts
<1>9. ASSUME NEW s \in Signals, SignalStep(s)
      PROVE  CallAt(s)'
  <2>1. CASE SignalWaits(s)
    <3>0. /\ call[s] \in Call \ {Idle} /\ sig[s].pc = "reserving" /\ CallAt(s)
          /\ UNCHANGED sig
      BY <1>0, <2>1, ReservingIs DEF CallOfSignal, SignalWaits, execVars
    <3>1. CASE ReserveLock(s)
      <4>1. call'[s] = [call[s] EXCEPT !.pc = "locked"]
        BY <1>0, <3>1 DEF ReserveLock
      <4>2. /\ call'[s].pc = "locked" /\ call'[s] # Idle
            /\ call'[s].rid = call[s].rid /\ call'[s].account = call[s].account
            /\ call'[s].amount = call[s].amount
        BY <3>0, <4>1 DEF Call, Idle
      <4> QED
        BY <3>0, <4>2 DEF CallAt
    <3>2. CASE ReserveSum(s)
      <4> DEFINE total == TotalReserved(call[s].account)
      <4>1. call'[s] = [call[s] EXCEPT !.pc = "summed", !.total = total]
        BY <1>0, <3>2 DEF ReserveSum
      <4> HIDE DEF total
      <4>2. /\ call'[s].pc = "summed" /\ call'[s] # Idle
            /\ call'[s].rid = call[s].rid /\ call'[s].account = call[s].account
            /\ call'[s].amount = call[s].amount
        BY <3>0, <4>1 DEF Call, Idle
      <4> QED
        BY <3>0, <4>2 DEF CallAt
    <3>3. CASE ReserveInsert(s)
      <4>1. call'[s] = [call[s] EXCEPT !.pc = "flushing"]
        BY <1>0, <3>3 DEF ReserveInsert
      <4>2. /\ call'[s].pc = "flushing" /\ call'[s] # Idle
            /\ call'[s].rid = call[s].rid /\ call'[s].account = call[s].account
            /\ call'[s].amount = call[s].amount
        BY <3>0, <4>1 DEF Call, Idle
      <4>3. /\ call[s].rid \in DOMAIN rows'
            /\ rows'[call[s].rid].account = call[s].account
            /\ rows'[call[s].rid].reserved = call[s].amount
        BY <3>3 DEF ReserveInsert
      <4> QED
        BY <3>0, <4>2, <4>3 DEF CallAt, Backed
    <3> QED
      BY <2>1, <3>1, <3>2, <3>3 DEF SignalWaits
  <2>2. CASE SignalRefused(s)
    BY <1>0, <1>5, <1>6, <2>2 DEF SignalRefused, ReserveReject, ReserveAbort
  <2>3. CASE SignalReserved(s)
    <3>1. sig[s] \in Pipeline
      BY <1>0, <2>3, ReservingIs
    <3> QED
      BY <1>0, <1>6, <1>7, <2>3, <3>1 DEF SignalReserved, ReserveReturn
  <2>4. CASE SignalReleases(s) \/ SignalReleaseFails(s)
    <3>1. sig[s].pc = "releasing" /\ UNCHANGED call
      BY <2>4 DEF SignalReleases, SignalReleaseFails, Release, resVars
    <3>2. call[s] = Idle
      BY <3>1 DEF CallOfSignal, CallAt
    <3>3. sig'[s].pc # "reserving"
      <4>1. CASE SignalReleases(s)
        BY <1>0, <4>1 DEF SignalReleases, Ended
      <4>2. CASE SignalReleaseFails(s)
        <5>1. sig'[s].pc = "releasing" \/ sig'[s] = Leaked(sig[s].rid)
          BY <4>2, ReleaseFailsIs
        <5> QED
          BY <5>1 DEF Leaked
      <4> QED
        BY <2>4, <4>1, <4>2
    <3> QED
      BY <1>6, <3>1, <3>2, <3>3
  <2> QED
    BY <1>9, <2>1, <2>2, <2>3, <2>4 DEF SignalStep
<1> QED
  BY <1>2, <1>3, <1>4, <1>8, <1>9, StepKinds

LEMMA RowStep ==
    ASSUME CallsInv, RidInv, ExecTypeOK, Linked, CallOfSignal, RowOfSignal, [ExecNext]_vars
    PROVE  RowOfSignal'
<1>0. TypeOK /\ sig \in [Signals -> SigState]
  BY DEF CallsInv, ExecTypeOK
<1>1. ASSUME NEW u \in Signals, RowsStay, sig'[u] = sig[u]
      PROVE  RowAt(u)'
  BY <1>1, BackedStays DEF RowOfSignal, RowAt, Backed
<1>2. CASE Weakened /\ UNCHANGED sig
  <2>1. RowsStay
    BY <1>2 DEF Weakened, RowsStay
  <2> QED
    BY <1>1, <1>2, <2>1 DEF RowOfSignal
<1>3. ASSUME NEW s \in Signals, SignalKeeps(s) \/ SignalStarts(s) \/ SignalStep(s), RowAt(s)'
      PROVE  RowOfSignal'
  <2>1. Only(s)
    BY <1>0, <1>3, StepsAreOwn DEF CallsInv
  <2>2. ASSUME NEW u \in Signals, u # s
        PROVE  RowAt(u)'
    BY <1>0, <1>1, <2>1, <2>2 DEF Only
  <2> QED
    BY <1>3, <2>2 DEF RowOfSignal
<1>4. ASSUME NEW s \in Signals, SignalKeeps(s)
      PROVE  RowAt(s)'
  <2>1. RowsStay
    BY <1>4 DEF SignalKeeps, Weakened, RowsStay
  <2>2. sig[s].pc \in Requested /\ RowAt(s)
    BY <1>4 DEF SignalKeeps, OrderMoves, Order, RowOfSignal
  <2>3. /\ sig'[s].account = sig[s].account /\ sig'[s].type = sig[s].type
        /\ sig'[s].qty = sig[s].qty /\ sig'[s].rid = sig[s].rid
    BY <1>4 DEF SignalKeeps, OrderMoves
  <2>4. sig[s].rid # NoRid => Backed(sig[s].rid, sig[s].account, Price * sig[s].qty)'
    BY <2>1, <2>2, <2>3, BackedStays DEF RowAt, Backed
  <2>5. Opening(sig[s].type) => sig[s].rid # NoRid
    BY <2>2 DEF RowAt
  <2> QED
    BY <2>3, <2>4, <2>5 DEF RowAt
<1>5. ASSUME NEW s \in Signals, sig'[s].pc \notin {"releasing"} \cup Requested
      PROVE  RowAt(s)'
  BY <1>5 DEF RowAt
<1>6. /\ Ended.pc \notin {"releasing"} \cup Requested
      /\ \A r : Leaked(r).pc \notin {"releasing"} \cup Requested
  BY DEF Ended, Leaked, Requested
<1>7. ASSUME NEW s \in Signals, SignalStarts(s)
      PROVE  RowAt(s)'
  <2>1. CASE sig' = [sig EXCEPT ![s] = Ended]
    BY <1>0, <1>5, <1>6, <2>1
  <2>2. CASE Enters(s)
    <3>1. sig'[s].pc = "reserving"
      BY <1>0, <2>2 DEF Enters
    <3> QED
      BY <1>5, <3>1 DEF Requested
  <2>3. CASE Passes(s)
    <3>1. PICK x \in Pipeline :
             /\ x.rid = NoRid /\ ~(Opening(x.type) /\ PriceOf(x) > 0)
             /\ sig' = [sig EXCEPT ![s] = Finished(x)]
      BY <2>3 DEF Passes
    <3>2. sig'[s] = Finished(x)
      BY <1>0, <3>1
    <3>3. CASE Finished(x) = Ended
      BY <1>5, <1>6, <3>2, <3>3
    <3>4. CASE Continues(x, Finished(x))
      <4>1. Outcome(x) = "ordered" /\ Finished(x).rid = NoRid /\ Finished(x).type = x.type
        BY <3>1, <3>4 DEF Continues
      <4>2. ~Opening(x.type)
        BY <3>1, <4>1, UnpricedStops
      <4> QED
        BY <3>2, <4>1, <4>2 DEF RowAt
    <3> QED
      BY <3>3, <3>4, FinishedIs
  <2> QED
    BY <1>7, <2>1, <2>2, <2>3 DEF SignalStarts
<1>8. ASSUME NEW s \in Signals, SignalStep(s)
      PROVE  RowAt(s)'
  <2>1. CASE SignalWaits(s)
    <3>1. sig'[s].pc = "reserving"
      BY <1>0, <2>1, ReservingIs DEF SignalWaits, execVars
    <3> QED
      BY <1>5, <3>1 DEF Requested
  <2>2. CASE SignalRefused(s)
    BY <1>0, <1>5, <1>6, <2>2 DEF SignalRefused
  <2>3. CASE SignalReserved(s)
    <3> DEFINE x == sig[s]
    <3>1. /\ x \in Pipeline /\ x.rid # NoRid
          /\ Backed(x.rid, x.account, Price * x.qty)
      BY <1>0, <2>3, ReservingIs DEF SignalReserved, ReserveReturn, CallOfSignal, CallAt
    <3>2. Continues(x, Finished(x))
      BY <3>1, FinishedIs
    <3>3. sig'[s] = Finished(x) /\ UNCHANGED rows
      BY <1>0, <2>3 DEF SignalReserved, ReserveReturn
    <3>4. /\ sig'[s].account = x.account /\ sig'[s].type = x.type
          /\ sig'[s].qty = x.qty /\ sig'[s].rid = x.rid
      BY <3>2, <3>3 DEF Continues
    <3> QED
      BY <3>1, <3>3, <3>4 DEF RowAt, Backed
  <2>4. CASE SignalReleases(s)
    BY <1>0, <1>5, <1>6, <2>4 DEF SignalReleases
  <2>5. CASE SignalReleaseFails(s)
    <3>1. RowAt(s) /\ UNCHANGED rows /\ sig[s].pc = "releasing"
      BY <2>5 DEF RowOfSignal, SignalReleaseFails, resVars
    <3>2. CASE sig'[s] = Leaked(sig[s].rid)
      BY <1>5, <1>6, <3>2
    <3>3. CASE Continues(sig[s], sig'[s])
      BY <3>1, <3>3 DEF RowAt, Backed, Continues
    <3> QED
      BY <2>5, <3>2, <3>3, ReleaseFailsIs
  <2> QED
    BY <1>8, <2>1, <2>2, <2>3, <2>4, <2>5 DEF SignalStep
<1> QED
  BY <1>2, <1>3, <1>4, <1>7, <1>8, StepKinds

(* Only a signal that enters reserve() comes to own an id; every other     *)
(* step keeps what the signal owns or gives it up.                         *)
LEMMA OwnershipKept ==
    ASSUME CallsInv, RidInv, ExecTypeOK, Linked, CallOfSignal, NEW s \in Signals,
           SignalKeeps(s) \/ SignalStarts(s) \/ SignalStep(s), ~Enters(s), Owns(s)'
    PROVE  Owns(s) /\ sig'[s].rid = sig[s].rid
<1>0. TypeOK /\ sig \in [Signals -> SigState]
  BY DEF CallsInv, ExecTypeOK
<1>1. /\ Ended.pc \notin Running \cup Requested
      /\ \A r : Leaked(r).pc \notin Running \cup Requested
  BY DEF Ended, Leaked, Running, Requested
<1>2. CASE SignalKeeps(s)
  BY <1>2 DEF SignalKeeps, OrderMoves, Order, Owns
<1>3. CASE SignalStarts(s)
  <2>1. CASE sig' = [sig EXCEPT ![s] = Ended]
    BY <1>0, <1>1, <2>1 DEF Owns
  <2>2. CASE Passes(s)
    <3>1. \E x \in Pipeline : sig'[s] = Finished(x) /\ x.rid = NoRid
      BY <1>0, <2>2 DEF Passes
    <3>2. sig'[s] = Ended \/ sig'[s].rid = NoRid
      BY <3>1, FinishedIs DEF Continues
    <3> QED
      BY <1>1, <3>2 DEF Owns
  <2> QED
    BY <1>3, <2>1, <2>2 DEF SignalStarts
<1>4. CASE SignalStep(s)
  <2>1. CASE SignalWaits(s)
    BY <2>1 DEF SignalWaits, execVars, Owns
  <2>2. CASE SignalRefused(s) \/ SignalReleases(s)
    BY <1>0, <1>1, <2>2 DEF SignalRefused, SignalReleases, Owns
  <2>3. CASE SignalReserved(s)
    <3>1. sig[s] \in Pipeline /\ sig[s].pc = "reserving" /\ sig[s].rid # NoRid
      BY <1>0, <2>3, ReservingIs
    <3>2. sig'[s] = Finished(sig[s])
      BY <1>0, <2>3 DEF SignalReserved
    <3> QED
      BY <3>1, <3>2, FinishedIs DEF Continues, Owns, Running
  <2>4. CASE SignalReleaseFails(s)
    <3>1. Owns(s)
      BY <2>4 DEF Linked, SignalReleaseFails, Owns, Running
    <3>2. sig'[s] = Leaked(sig[s].rid) \/ Continues(sig[s], sig'[s])
      BY <2>4, ReleaseFailsIs
    <3> QED
      BY <1>1, <3>1, <3>2 DEF Owns, Continues
  <2> QED
    BY <1>4, <2>1, <2>2, <2>3, <2>4 DEF SignalStep
<1> QED
  BY <1>2, <1>3, <1>4

LEMMA OneOwnerStep ==
    ASSUME CallsInv, RidInv, PipeInv, [ExecNext]_vars
    PROVE  OneOwner'
<1>0. /\ TypeOK /\ sig \in [Signals -> SigState]
      /\ ExecTypeOK /\ Linked /\ CallOfSignal /\ RowOfSignal /\ OneOwner
  BY DEF CallsInv, PipeInv, ExecTypeOK
<1>1. CASE UNCHANGED sig
  BY <1>0, <1>1 DEF OneOwner, Owns
<1>2. ASSUME NEW s \in Signals, SignalKeeps(s) \/ SignalStarts(s) \/ SignalStep(s)
      PROVE  OneOwner'
  <2>1. \A u \in Signals \ {s} : sig'[u] = sig[u]
    BY <1>0, <1>2, StepsAreOwn DEF Only
  <2>2. CASE ~Enters(s)
    <3>1. Owns(s)' => Owns(s) /\ sig'[s].rid = sig[s].rid
      BY <1>0, <1>2, <2>2, OwnershipKept
    <3>2. \A u \in Signals : Owns(u)' => Owns(u) /\ sig'[u].rid = sig[u].rid
      BY <2>1, <3>1 DEF Owns
    <3> QED
      BY <1>0, <3>2 DEF OneOwner
  <2>3. CASE Enters(s)
    <3>1. PICK r \in Rids :
             /\ r \notin DOMAIN rows /\ \A u \in Tasks : call[u] # Idle => call[u].rid # r
             /\ sig'[s].rid = r
      BY <1>0, <2>3 DEF Enters, ReserveCall
    <3>2. ASSUME NEW u \in Signals \ {s}, Owns(u)
          PROVE  sig[u].rid # r
      <4>1. CASE sig[u].pc = "reserving"
        BY <1>0, <3>1, <4>1 DEF CallOfSignal, CallAt, Signals
      <4>2. CASE sig[u].pc \in {"releasing"} \cup Requested
        BY <1>0, <3>1, <3>2, <4>2 DEF RowOfSignal, RowAt, Backed, Owns
      <4> QED
        BY <3>2, <4>1, <4>2 DEF Owns, Running
    <3>3. \A u \in Signals \ {s} : Owns(u)' <=> Owns(u)
      BY <2>1 DEF Owns
    <3> QED
      BY <1>0, <2>1, <3>1, <3>2, <3>3 DEF OneOwner
  <2> QED
    BY <2>2, <2>3
<1> QED
  BY <1>0, <1>1, <1>2, StepKinds

LEMMA LinkedStep ==
    ASSUME CallsInv, RidInv, PipeInv, [ExecNext]_vars
    PROVE  Linked'
<1> DEFINE WithBroker == {"submitting", "sent", "failing", "failed"}
<1>0. /\ TypeOK /\ sig \in [Signals -> SigState] /\ ExecTypeOK /\ Linked /\ CallOfSignal
      /\ book \in [Signals -> [state: {"absent", "live", "done"}, filled: Quantities]]
      /\ \A e \in events : e.signal \in Signals
  BY DEF CallsInv, PipeInv, ExecTypeOK
<1>1. ASSUME NEW s \in Signals, sig'[s].pc = "releasing"
      PROVE  sig'[s].rid # NoRid
  <2>1. CASE sig'[s] = sig[s]
    BY <1>0, <1>1, <2>1 DEF Linked
  <2>2. CASE sig'[s] # sig[s]
    <3>1. SignalKeeps(s) \/ SignalStarts(s) \/ SignalStep(s)
      <4>1. \A u \in Signals : SignalKeeps(u) \/ SignalStarts(u) \/ SignalStep(u) => Only(u)
        BY <1>0, StepsAreOwn
      <4>2. \A u \in Signals : u # s /\ Only(u) => sig'[s] = sig[s]
        BY <1>0 DEF Only
      <4> QED
        BY <1>0, <2>2, <4>1, <4>2, StepKinds
    <3>2. CASE Enters(s)
      BY <1>0, <1>1, <3>2 DEF Enters
    <3>3. CASE ~Enters(s)
      <4>1. CASE SignalKeeps(s)
        BY <1>1, <4>1 DEF SignalKeeps, OrderMoves, Order, Requested
      <4>2. CASE SignalStarts(s)
        <5>1. sig'[s] = Ended \/ \E x \in Pipeline : sig'[s] = Finished(x)
          BY <1>0, <3>3, <4>2 DEF SignalStarts, Passes
        <5> QED
          BY <1>1, <5>1, FinishedIs DEF Ended, Continues, Order, Requested
      <4>3. CASE SignalStep(s)
        <5>1. CASE SignalRefused(s) \/ SignalReleases(s)
          BY <1>0, <1>1, <5>1 DEF SignalRefused, SignalReleases, Ended
        <5>2. CASE SignalReserved(s)
          <6>1. sig[s] \in Pipeline /\ sig'[s] = Finished(sig[s])
            BY <1>0, <5>2, ReservingIs DEF SignalReserved
          <6> QED
            BY <1>1, <6>1, FinishedIs DEF Ended, Continues, Order, Requested
        <5>3. CASE SignalReleaseFails(s)
          BY <1>0, <1>1, <5>3, ReleaseFailsIs DEF Continues, Leaked, Linked, SignalReleaseFails
        <5>4. CASE SignalWaits(s)
          BY <2>2, <5>4 DEF SignalWaits, execVars
        <5> QED
          BY <4>3, <5>1, <5>2, <5>3, <5>4 DEF SignalStep
      <4> QED
        BY <3>1, <4>1, <4>2, <4>3
    <3> QED
      BY <3>2, <3>3
  <2> QED
    BY <2>1, <2>2
<1>2. ASSUME NEW s \in Signals, UNCHANGED <<book, events>>,
             \A u \in Signals : sig[u].pc \in WithBroker => sig'[u].pc \in WithBroker
      PROVE  Linked'
  BY <1>0, <1>1, <1>2 DEF Linked
<1>3. ASSUME NEW s \in Signals, ProcessSignal(s) \/ SignalStep(s) \/ SubmitStep(s)
      PROVE  Linked'
  <2>1. UNCHANGED <<book, events>>
    BY <1>3, QuietSteps
  <2>2. Only(s)
    BY <1>0, <1>3, StepsAreOwn, ProcessSignalIs, SubmitMoves DEF SignalStarts, SignalKeeps
  <2>3. sig[s].pc \in WithBroker => sig'[s].pc \in WithBroker
    <3>1. CASE ProcessSignal(s)
      BY <3>1, ProcessSignalIs DEF New
    <3>2. CASE SignalStep(s)
      <4>1. CASE SignalWaits(s)
        BY <4>1 DEF SignalWaits, execVars
      <4>2. CASE SignalRefused(s) \/ SignalReserved(s)
        BY <1>0, <4>2, ReservingIs
      <4>3. CASE SignalReleases(s) \/ SignalReleaseFails(s)
        BY <4>3 DEF SignalReleases, SignalReleaseFails
      <4> QED
        BY <3>2, <4>1, <4>2, <4>3 DEF SignalStep
    <3>3. CASE SubmitStep(s)
      <4>1. sig[s] \in Order /\ sig'[s] \in Order
        BY <1>0, <3>3, SubmitMoves DEF OrderMoves
      <4>2. CASE SubmitOrder(s)
        BY <4>2 DEF SubmitOrder
      <4>3. CASE SubmitReturns(s) \/ SubmitRaises(s) \/ SubmitReleases(s)
        BY <1>0, <4>1, <4>3 DEF SubmitReturns, SubmitRaises, SubmitReleases, Order
      <4>4. CASE SubmitReleaseFails(s)
        <5>1. [sig[s] EXCEPT !.pc = "failed", !.lost = TRUE].pc = "failed"
          BY <4>1 DEF Order
        <5> QED
          BY <1>0, <4>4, <5>1 DEF SubmitReleaseFails
      <4> QED
        BY <3>3, <4>2, <4>3, <4>4 DEF SubmitStep
    <3> QED
      BY <1>3, <3>1, <3>2, <3>3
  <2> QED
    BY <1>0, <1>2, <2>1, <2>2, <2>3 DEF Only
<1>4. ASSUME NEW s \in Signals, BrokerStep(s)
      PROVE  Linked'
  <2> DEFINE Handed == /\ UNCHANGED sig
                       /\ \E b : book' = [book EXCEPT ![s] = b] /\ b.state # "absent"
                       /\ sig[s].pc \in WithBroker
                       /\ \A e \in events' : e \in events \/ e.signal = s
  <2>1. Handed
    <3>1. CASE BrokerAccept(s)
      <4>1. [book[s] EXCEPT !.state = "live"].state # "absent"
        BY <1>0
      <4> QED
        BY <1>0, <3>1, <4>1 DEF BrokerAccept
    <3>2. ASSUME NEW shares \in Quantities, BrokerFill(s, shares)
          PROVE  Handed
      <4> DEFINE b == [state |-> IF book[s].filled + shares = sig[s].qty THEN "done" ELSE "live",
                       filled |-> book[s].filled + shares]
                 c == [signal |-> s, kind |-> "fill", upto |-> book[s].filled + shares,
                       amount |-> Price * shares]
      <4>1. b.state # "absent" /\ c.signal = s
        OBVIOUS
      <4>2. /\ UNCHANGED sig /\ book[s].state = "live"
            /\ book' = [book EXCEPT ![s] = b] /\ events' = events \cup {c}
        BY <3>2 DEF BrokerFill
      <4>3. sig[s].pc \in WithBroker
        BY <1>0, <4>2 DEF Linked
      <4> HIDE DEF b, c
      <4> QED
        BY <4>1, <4>2, <4>3
    <3>3. CASE BrokerClose(s)
      <4> DEFINE b == [book[s] EXCEPT !.state = "done"]
                 c == [signal |-> s, kind |-> "failed", upto |-> book[s].filled, amount |-> 0]
      <4>1. b.state # "absent" /\ c.signal = s
        BY <1>0
      <4>2. /\ UNCHANGED sig /\ book[s].state = "live"
            /\ book' = [book EXCEPT ![s] = b] /\ events' = events \cup {c}
        BY <3>3 DEF BrokerClose
      <4>3. sig[s].pc \in WithBroker
        BY <1>0, <4>2 DEF Linked
      <4> HIDE DEF b, c
      <4> QED
        BY <4>1, <4>2, <4>3
    <3> QED
      BY <1>4, <3>1, <3>2, <3>3 DEF BrokerStep
  <2> QED
    BY <1>0, <1>1, <2>1 DEF Linked
<1>5. ASSUME NEW e \in events, Callback(e)
      PROVE  Linked'
  <2>1. UNCHANGED book /\ events' \subseteq events
    BY <1>5 DEF Callback, HandleFill, HandleOrderFailed, HandlerFails
  <2>2. \A u \in Signals : sig'[u].pc = sig[u].pc
    <3>1. CASE HandlerFails(e)
      <4>1. e.signal \in Signals /\ sig[e.signal] \in Order
        BY <1>0, <3>1, LossMoves DEF OrderMoves
      <4> QED
        BY <1>0, <3>1, <4>1 DEF HandlerFails, Order
    <3>2. CASE HandleFill(e) \/ HandleOrderFailed(e)
      BY <3>2 DEF HandleFill, HandleOrderFailed
    <3> QED
      BY <1>5, <3>1, <3>2 DEF Callback
  <2> QED
    BY <1>0, <1>1, <2>1, <2>2 DEF Linked
<1>6. CASE ToggleKillSwitch \/ Background \/ UNCHANGED vars
  BY <1>0, <1>6 DEF Linked, ToggleKillSwitch, Background, execVars, vars
<1> QED
  BY <1>3, <1>4, <1>5, <1>6 DEF ExecNext

LEMMA PipeInvStep ==
    ASSUME CallsInv, CallsInv', RidInv, PipeInv, [ExecNext]_vars
    PROVE  PipeInv'
<1>1. ExecTypeOK' /\ CallOfSignal' /\ RowOfSignal'
  BY ExecTypeStep, CallStep, RowStep DEF PipeInv
<1>2. Linked' /\ OneOwner'
  BY LinkedStep, OneOwnerStep
<1> QED
  BY <1>1, <1>2 DEF PipeInv

LEMMA PipeInvInit == ExecInit => PipeInv
<1> SUFFICES ASSUME ExecInit PROVE PipeInv
  OBVIOUS
<1>1. /\ sig = [s \in Signals |-> New] /\ events = {} /\ cash = CashLimit
      /\ book = [s \in Signals |-> [state |-> "absent", filled |-> 0]]
      /\ call = [s \in Signals |-> Idle] /\ killSwitch = FALSE
  BY DEF ExecInit, Init, Signals
<1>2. 0 \in Quantities /\ New \in SigState
  BY QuantityAssumption DEF Quantities, SigState
<1>3. ExecTypeOK
  BY <1>1, <1>2, ReservationAssumption DEF ExecTypeOK
<1>4. \A s \in Signals : sig[s].pc = "new" /\ call[s] = Idle /\ book[s].state = "absent"
  BY <1>1 DEF New
<1>5. Linked /\ CallOfSignal
  BY <1>1, <1>4 DEF Linked, CallOfSignal, CallAt, Idle
<1>6. RowOfSignal /\ OneOwner
  BY <1>4 DEF RowOfSignal, RowAt, OneOwner, Owns, Requested, Running
<1> QED
  BY <1>3, <1>5, <1>6 DEF PipeInv

(* All of it holds together: the calls, the manager's own invariant and    *)
(* the links of the pipeline.                                              *)
LEMMA PipelineInvariant == ExecSpec => [](CallsInv /\ IInv /\ PipeInv)
<1>1. ExecSpec => []IInv
  BY ExecutionUsesManager, InvariantHolds, PTL DEF UsesManager
<1>2. ExecSpec => []CallsInv
  BY CallsInvInit, CallsInvStep, PTL DEF ExecSpec
<1>3. CallsInv /\ CallsInv' /\ IInv /\ PipeInv /\ [ExecNext]_vars => PipeInv'
  BY PipeInvStep DEF IInv
<1> QED
  BY <1>1, <1>2, <1>3, PipeInvInit, PTL DEF ExecSpec

(* The state of the pipeline keeps its type: no interleaving of tasks,     *)
(* broker and callbacks leaves a signal with fields of another stage.      *)
THEOREM ExecTypeCorrect == ExecSpec => []ExecTypeOK
<1>1. PipeInv => ExecTypeOK
  BY DEF PipeInv
<1> QED
  BY <1>1, PipelineInvariant, PTL

(* An opening order is backed, from the moment it exists, by a reservation *)
(* of exactly its value that no other signal carries.                      *)
THEOREM OpeningOrdersAreBacked == ExecSpec => []OrdersBacked
<1>1. PipeInv => OrdersBacked
  <2> SUFFICES ASSUME PipeInv, NEW s \in Signals,
                      sig[s].pc \in Requested, Opening(sig[s].type)
               PROVE  /\ Backed(sig[s].rid, sig[s].account, Price * sig[s].qty)
                      /\ \A u \in Signals \ {s} :
                            sig[u].pc \in Running \cup Requested => sig[u].rid # sig[s].rid
    BY DEF OrdersBacked, Backed
  <2>1. sig[s].rid # NoRid /\ Backed(sig[s].rid, sig[s].account, Price * sig[s].qty)
    BY DEF PipeInv, RowOfSignal, RowAt
  <2>2. Owns(s)
    BY <2>1 DEF Owns
  <2> QED
    BY <2>1, <2>2 DEF PipeInv, OneOwner, Owns
<1> QED
  BY <1>1, PipelineInvariant, PTL

-----------------------------------------------------------------------------
(* No cash stays behind.                                                   *)

(* The signal that still carries the id r, but for one whose release is    *)
(* done: it answers for r, or is one of the two exceptions.                *)
Carries(s, r) ==
    /\ sig[s].pc \in Running \cup Requested \cup {"leaked"}
    /\ sig[s].rid = r
    /\ sig[s].pc = "failed" => sig[s].lost

ActiveIsCarried == \A r \in Rids : ActiveRow(r) => \E s \in Signals : Carries(s, r)

LEMMA CarriesIs == ActiveIsCarried <=> EndedHoldsNothing
<1>1. ASSUME NEW s, NEW r
      PROVE  Carries(s, r) <=> Answers(s, r) \/ ReleaseLost(s, r) \/ NeverSent(s, r)
  BY DEF Carries, Answers, ReleaseLost, NeverSent, Running, Requested
<1> QED
  BY <1>1 DEF ActiveIsCarried, EndedHoldsNothing

(* A row becomes ACTIVE only by the insert of the signal whose id it has.  *)
LEMMA ActiveIsOld ==
    ASSUME CallsInv, RidInv, PipeInv, [ExecNext]_vars, NEW r, ActiveRow(r)'
    PROVE  \/ ActiveRow(r)
           \/ \E s \in Signals : SignalWaits(s) /\ call[s].rid = r
<1>0. TypeOK /\ ExecTypeOK /\ Linked
  BY DEF CallsInv, PipeInv
<1>1. Weakened \/ UNCHANGED rows => ActiveRow(r)
  BY DEF Weakened, ActiveRow
<1>2. ASSUME NEW s \in Signals, SignalStarts(s)
      PROVE  UNCHANGED rows
  BY <1>2 DEF SignalStarts, Enters, Passes, ReserveCall, resVars
<1>3. ASSUME NEW s \in Signals, SignalStep(s)
      PROVE  Weakened \/ UNCHANGED rows \/ (SignalWaits(s) /\ ReserveInsert(s))
  <2>1. CASE SignalWaits(s)
    BY <2>1 DEF SignalWaits, ReserveLock, ReserveSum
  <2>2. CASE SignalRefused(s) \/ SignalReserved(s) \/ SignalReleaseFails(s)
    BY <2>2 DEF SignalRefused, SignalReserved, SignalReleaseFails, ReserveReject, ReserveAbort,
                ReserveReturn, resVars
  <2>3. CASE SignalReleases(s)
    BY <1>0, <2>3, ReleaseWeakens DEF SignalReleases
  <2> QED
    BY <1>3, <2>1, <2>2, <2>3 DEF SignalStep
<1>4. ASSUME NEW s \in Signals, SignalWaits(s), ReserveInsert(s)
      PROVE  ActiveRow(r) \/ call[s].rid = r
  BY <1>4 DEF ReserveInsert, ActiveRow
<1> QED
  BY <1>0, <1>1, <1>2, <1>3, <1>4, StepKinds DEF SignalKeeps

(* An order whose submission failed has its row released, or lost a write. *)
LEMMA FailedHoldsNothing ==
    ASSUME CallsInv, ExecTypeOK, NEW s \in Signals, SubmitStep(s),
           sig'[s].pc = "failed", sig[s].rid # NoRid, ActiveRow(sig[s].rid)'
    PROVE  sig'[s].lost
<1>0. sig[s] \in Order /\ sig \in [Signals -> SigState] /\ TypeOK
  BY SubmitMoves DEF OrderMoves, ExecTypeOK, CallsInv
<1>1. CASE SubmitOrder(s) \/ SubmitReturns(s) \/ SubmitRaises(s)
  <2>1. sig'[s].pc # "failed"
    BY <1>0, <1>1 DEF SubmitOrder, SubmitReturns, SubmitRaises, Order
  <2> QED
    BY <2>1
<1>2. CASE SubmitReleases(s)
  <2>1. sig'[s].rid = sig[s].rid
    BY SubmitMoves DEF OrderMoves
  <2> QED
    BY <1>0, <1>2, <2>1, ReleaseWeakens DEF SubmitReleases, ActiveRow
<1>3. CASE SubmitReleaseFails(s)
  <2> DEFINE y == [sig[s] EXCEPT !.pc = "failed", !.lost = TRUE]
  <2>1. y.lost
    BY <1>0 DEF Order
  <2>2. sig'[s] = y
    BY <1>0, <1>3 DEF SubmitReleaseFails
  <2> QED
    BY <2>1, <2>2
<1> QED
  BY <1>1, <1>2, <1>3 DEF SubmitStep

LEMMA CarriedStep ==
    ASSUME CallsInv, CallsInv', RidInv, PipeInv, ActiveIsCarried, [ExecNext]_vars
    PROVE  ActiveIsCarried'
<1>0. /\ TypeOK /\ sig \in [Signals -> SigState] /\ Signals = Tasks
      /\ ExecTypeOK /\ Linked /\ CallOfSignal
  BY DEF CallsInv, PipeInv, ExecTypeOK, Signals
<1> SUFFICES ASSUME NEW r \in Rids, ActiveRow(r)'
             PROVE  \E s \in Signals : Carries(s, r)'
  BY DEF ActiveIsCarried
<1>1. ASSUME NEW s \in Signals, SignalWaits(s), call[s].rid = r
      PROVE  Carries(s, r)'
  BY <1>0, <1>1, ReservingIs DEF SignalWaits, execVars, Carries, Running
<1>2. ASSUME NEW s \in Signals, Carries(s, r), ActiveRow(r)
      PROVE  Carries(s, r)'
  <2>0. sig[s].rid = r /\ r # NoRid /\ sig[s] \in SigState
    BY <1>0, <1>2, ExecutionAssumption DEF Carries
  <2>1. CASE sig'[s] = sig[s]
    BY <1>2, <2>1 DEF Carries
  <2>2. CASE sig'[s] # sig[s]
    <3>1. ASSUME NEW u \in Signals, ProcessSignal(u) \/ SignalStep(u) \/ SubmitStep(u)
          PROVE  u = s
      <4>1. Only(u)
        BY <1>0, <3>1, StepsAreOwn, ProcessSignalIs, SubmitMoves
           DEF SignalStarts, SignalKeeps, PipeInv
      <4> QED
        BY <1>0, <2>2, <4>1 DEF Only
    <3>2. ~ProcessSignal(s)
      BY <1>2, ProcessSignalIs DEF Carries, New, Running, Requested
    <3>3. CASE SubmitStep(s)
      <4>1. OrderMoves(s)
        BY <1>0, <3>3, SubmitMoves
      <4>2. sig'[s].pc = "failed" => sig'[s].lost
        <5>1. ActiveRow(sig[s].rid)'
          BY <2>0, <4>1 DEF OrderMoves
        <5> QED
          BY <1>0, <2>0, <3>3, <5>1, FailedHoldsNothing
      <4> QED
        BY <2>0, <4>1, <4>2 DEF OrderMoves, Order, Carries
    <3>4. CASE SignalStep(s)
      <4>1. CASE SignalWaits(s)
        BY <2>2, <4>1 DEF SignalWaits, execVars
      <4>2. CASE SignalRefused(s)
        <5>1. call[s].rid = r /\ call[s].pc \in {"waiting", "locked", "summed"}
          BY <1>0, <2>0, <4>2, ReservingIs DEF SignalRefused, ReserveReject, ReserveAbort
        <5> QED
          BY <1>0, <1>2, <5>1 DEF RidInv, ActiveRow
      <4>3. CASE SignalReserved(s)
        <5>1. sig[s] \in Pipeline /\ sig'[s] = Finished(sig[s])
          BY <1>0, <4>3, ReservingIs DEF SignalReserved
        <5>2. Continues(sig[s], sig'[s])
          BY <2>0, <5>1, FinishedIs
        <5> QED
          BY <2>0, <5>2 DEF Continues, Carries, Running, Requested
      <4>4. CASE SignalReleases(s)
        BY <1>0, <2>0, <4>4, ReleaseWeakens DEF SignalReleases, ActiveRow
      <4>5. CASE SignalReleaseFails(s)
        <5>1. CASE sig'[s] = Leaked(sig[s].rid)
          BY <2>0, <5>1 DEF Leaked, Carries
        <5>2. CASE Continues(sig[s], sig'[s]) /\ sig'[s].pc = "releasing"
          BY <2>0, <5>2 DEF Continues, Carries, Running
        <5> QED
          BY <1>0, <4>5, <5>1, <5>2, ReleaseFailsIs
      <4> QED
        BY <3>4, <4>1, <4>2, <4>3, <4>4, <4>5 DEF SignalStep
    <3>5. CASE \E u \in Signals : BrokerStep(u)
      BY <2>2, <3>5, BrokerWeakens
    <3>6. ASSUME NEW e \in events, Callback(e)
          PROVE  Carries(s, r)'
      <4>1. HandlerFails(e)
        BY <2>2, <3>6, HandlerWeakens DEF Callback
      <4>2. /\ e.signal \in Signals /\ OrderMoves(e.signal) /\ sig'[e.signal].lost
        BY <1>0, <4>1, LossMoves
      <4>3. e.signal = s
        BY <1>0, <2>2, <4>2 DEF OrderMoves
      <4> QED
        BY <2>0, <4>2, <4>3 DEF OrderMoves, Order, Carries
    <3>7. ~(ToggleKillSwitch \/ Background \/ UNCHANGED vars)
      BY <2>2 DEF ToggleKillSwitch, Background, execVars, vars
    <3> QED
      BY <3>1, <3>2, <3>3, <3>4, <3>5, <3>6, <3>7 DEF ExecNext
  <2> QED
    BY <2>1, <2>2
<1> QED
  BY <1>1, <1>2, ActiveIsOld DEF ActiveIsCarried

(* The last callback of an order leaves its row out of ACTIVE, if it       *)
(* succeeds.                                                               *)
LEMMA HandlerClears ==
    ASSUME CallsInv, NEW e \in events, HandleFill(e) \/ HandleOrderFailed(e)
    PROVE  ~ActiveRow(sig[e.signal].rid)'
<1> DEFINE r == sig[e.signal].rid
<1>0. TypeOK /\ e.amount \in Amounts /\ NoRid \notin DOMAIN rows /\ UNCHANGED sig
  BY ExecutionAssumption DEF CallsInv, TypeOK, HandleFill, HandleOrderFailed
<1>1. CASE Release(r) \/ Consume(r, e.amount)
  BY <1>0, <1>1, ReleaseWeakens, ConsumeWeakens DEF ActiveRow
<1>2. CASE /\ r # NoRid => rows[r].status # "active"
           /\ UNCHANGED resVars
  BY <1>0, <1>2 DEF ActiveRow, resVars
<1> QED
  BY <1>1, <1>2 DEF HandleFill, HandleOrderFailed

LEMMA SettledStep ==
    ASSUME CallsInv, CallsInv', RidInv, PipeInv, PipeInv', SettledHoldsNothing, [ExecNext]_vars
    PROVE  SettledHoldsNothing'
<1>0. /\ TypeOK /\ TypeOK' /\ sig \in [Signals -> SigState] /\ Signals = Tasks
      /\ ExecTypeOK /\ Linked /\ CallOfSignal /\ OneOwner
      /\ book \in [Signals -> [state: {"absent", "live", "done"}, filled: Quantities]]
  BY DEF CallsInv, PipeInv, ExecTypeOK, Signals
<1> SUFFICES ASSUME NEW s \in Signals, book'[s].state = "done", ~sig'[s].lost,
                    \A e \in events' : e.signal # s
             PROVE  ~ActiveRow(sig[s].rid)'
  BY DEF SettledHoldsNothing
<1>1. book[s].state = "done"
  <2>1. ASSUME NEW u \in Signals, BrokerStep(u)
        PROVE  book[s].state = "done"
    <3>1. CASE BrokerAccept(u)
      BY <1>0, <3>1 DEF BrokerAccept
    <3>2. CASE u = s /\ (BrokerClose(u) \/ \E shares \in Quantities : BrokerFill(u, shares))
      <4>1. BrokerClose(s) => \E c : c.signal = s /\ events' = events \cup {c}
        BY DEF BrokerClose
      <4>2. ASSUME NEW shares \in Quantities, BrokerFill(s, shares)
            PROVE  \E c : c.signal = s /\ events' = events \cup {c}
        BY <4>2 DEF BrokerFill
      <4> QED
        BY <3>2, <4>1, <4>2
    <3>3. CASE u # s /\ (BrokerClose(u) \/ \E shares \in Quantities : BrokerFill(u, shares))
      BY <1>0, <3>3 DEF BrokerClose, BrokerFill
    <3> QED
      BY <2>1, <3>1, <3>2, <3>3 DEF BrokerStep
  <2>2. ASSUME NEW u \in Signals, ProcessSignal(u) \/ SignalStep(u) \/ SubmitStep(u)
        PROVE  UNCHANGED book
    BY <2>2, QuietSteps
  <2>3. ASSUME NEW e \in events, Callback(e)
        PROVE  UNCHANGED book
    BY <2>3 DEF Callback, HandleFill, HandleOrderFailed, HandlerFails
  <2>4. CASE ToggleKillSwitch \/ Background \/ UNCHANGED vars
    BY <2>4 DEF ToggleKillSwitch, Background, execVars, vars
  <2> QED
    BY <2>1, <2>2, <2>3, <2>4 DEF ExecNext
<1>2. sig[s].pc \in {"submitting", "sent", "failing", "failed"} /\ sig[s] \in Order
  BY <1>0, <1>1, Shapes DEF Linked, Requested
(* The step keeps the id, and what was lost stays lost. *)
<1>3. sig'[s].rid = sig[s].rid /\ ~sig[s].lost
  <2>1. CASE sig'[s] = sig[s]
    BY <2>1
  <2>2. CASE sig'[s] # sig[s]
    <3>1. \A u \in Signals : SignalKeeps(u) \/ SignalStarts(u) \/ SignalStep(u) => Only(u)
      BY <1>0, StepsAreOwn
    <3>2. SignalKeeps(s) \/ SignalStarts(s) \/ SignalStep(s)
      BY <1>0, <2>2, <3>1, StepKinds DEF Only
    <3>3. ~SignalStarts(s)
      BY <1>2 DEF SignalStarts, New
    <3>4. ~SignalStep(s)
      <4>1. ~(SignalRefused(s) \/ SignalReserved(s))
        BY <1>0, <1>2, ReservingIs
      <4>2. ~(SignalReleases(s) \/ SignalReleaseFails(s))
        BY <1>2 DEF SignalReleases, SignalReleaseFails
      <4>3. ~SignalWaits(s)
        BY <2>2 DEF SignalWaits, execVars
      <4> QED
        BY <4>1, <4>2, <4>3 DEF SignalStep
    <3> QED
      BY <3>2, <3>3, <3>4 DEF SignalKeeps, OrderMoves
  <2> QED
    BY <2>1, <2>2
<1>4. CASE \A e \in events : e.signal # s
  <2>1. ~ActiveRow(sig[s].rid)
    BY <1>1, <1>3, <1>4 DEF SettledHoldsNothing
  <2>2. ASSUME NEW u \in Signals, SignalWaits(u), call[u].rid = sig[s].rid
        PROVE  FALSE
    <3>1. Owns(u) /\ sig[u].rid = sig[s].rid /\ sig[u].pc = "reserving"
      BY <1>0, <2>2, ReservingIs DEF Owns, Running
    <3>2. Owns(s)
      BY <1>2, <3>1 DEF Owns, Requested
    <3> QED
      BY <1>0, <1>2, <3>1, <3>2 DEF OneOwner
  <2>3. ~(\E q : q = sig[s].rid /\ ActiveRow(q)')
    BY <2>1, <2>2, ActiveIsOld
  <2> QED
    BY <1>3, <2>3 DEF ActiveRow
<1>5. ASSUME NEW e \in events, e.signal = s
      PROVE  ~ActiveRow(sig[s].rid)'
  <2>1. e \notin events'
    BY <1>5
  <2>2. HandleFill(e) \/ HandleOrderFailed(e) \/ HandlerFails(e)
    <3>1. ASSUME NEW u \in Signals, BrokerStep(u)
          PROVE  e \in events'
      BY <3>1 DEF BrokerStep, BrokerAccept, BrokerFill, BrokerClose
    <3>2. ASSUME NEW u \in Signals, ProcessSignal(u) \/ SignalStep(u) \/ SubmitStep(u)
          PROVE  e \in events'
      BY <3>2, QuietSteps
    <3>3. CASE ToggleKillSwitch \/ Background \/ UNCHANGED vars
      BY <2>1, <3>3 DEF ToggleKillSwitch, Background, execVars, vars
    <3>4. ASSUME NEW f \in events, Callback(f)
          PROVE  f = e
      BY <2>1, <3>4 DEF Callback, HandleFill, HandleOrderFailed, HandlerFails
    <3> QED
      BY <2>1, <3>1, <3>2, <3>3, <3>4 DEF ExecNext, Callback
  <2>3. ~HandlerFails(e)
    BY <1>0, <1>5, LossMoves
  <2> QED
    BY <1>5, <2>2, <2>3, HandlerClears
<1> QED
  BY <1>4, <1>5

(* However a signal ends - settled by callbacks in any order, refused on   *)
(* the way, failed halfway - no cash stays reserved for it, but for the    *)
(* two exceptions: a release that the database lost, and an order never    *)
(* sent for want of an adapter.                                            *)
THEOREM NoCashIsLeftHeld == ExecSpec => []NothingLeftHeld
<1> DEFINE Held == SettledHoldsNothing /\ ActiveIsCarried
<1>1. ExecInit => Held
  <2> SUFFICES ASSUME ExecInit PROVE Held
    OBVIOUS
  <2>1. DOMAIN rows = {}
    BY DEF ExecInit, Init
  <2> QED
    BY <2>1 DEF SettledHoldsNothing, ActiveIsCarried, ActiveRow
<1>2. /\ CallsInv /\ IInv /\ PipeInv /\ CallsInv' /\ PipeInv'
      /\ Held /\ [ExecNext]_vars
      => Held'
  BY CarriedStep, SettledStep DEF IInv
<1>3. Held => NothingLeftHeld
  BY CarriesIs DEF NothingLeftHeld
<1> HIDE DEF Held
<1> QED
  BY <1>1, <1>2, <1>3, PipelineInvariant, PTL DEF ExecSpec

(* The second exception is as bad as it looks: a reservation whose order   *)
(* was never sent is touched by no signal, no callback and no release, and *)
(* stays ACTIVE until the expiry sweep writes it - the docstring of        *)
(* submit_order() has it released.                                         *)
THEOREM UnsentKeepsItsCash == ExecSpec => UnsentWaitsForSweep
<1> DEFINE Kept(s) ==
      LET r == sig[s].rid
      IN  (sig[s].pc = "unsent" /\ ActiveRow(r)) =>
             /\ sig'[s] = sig[s]
             /\ rows'[r] = rows[r] \/ SweepWrite(r)
<1>1. ASSUME CallsInv, IInv, PipeInv, [ExecNext]_vars, NEW s \in Signals
      PROVE  Kept(s)
  <2> SUFFICES ASSUME sig[s].pc = "unsent", ActiveRow(sig[s].rid)
               PROVE  /\ sig'[s] = sig[s]
                      /\ rows'[sig[s].rid] = rows[sig[s].rid] \/ SweepWrite(sig[s].rid)
    OBVIOUS
  <2> DEFINE r == sig[s].rid
  <2>0. /\ TypeOK /\ ExecTypeOK /\ Linked /\ CallOfSignal /\ OneOwner /\ Signals = Tasks
        /\ RidInv /\ sig \in [Signals -> SigState] /\ r \in DOMAIN rows /\ r # NoRid
    <3>1. TypeOK /\ Signals = Tasks
      BY <1>1 DEF CallsInv, Signals
    <3>2. ExecTypeOK /\ Linked /\ CallOfSignal /\ OneOwner
      BY <1>1 DEF PipeInv
    <3>3. r \in DOMAIN rows
      BY DEF ActiveRow
    <3>4. r # NoRid
      BY <3>1, <3>3, ExecutionAssumption DEF TypeOK
    <3>5. RidInv
      BY <1>1 DEF IInv
    <3> QED
      BY <3>1, <3>2, <3>3, <3>4, <3>5 DEF ExecTypeOK
  <2>1. Owns(s) /\ \A u \in Signals : Owns(u) /\ sig[u].rid = r => u = s
    BY <2>0 DEF Owns, Requested, OneOwner
  <2>2. \A u \in Signals : u # s /\ Owns(u) => sig[u].rid # r
    BY <2>1
  <2>3. ASSUME NEW q, q # r, Release(q) \/ (\E amount : Consume(q, amount))
        PROVE  rows'[r] = rows[r]
    BY <2>0, <2>3 DEF Release, Consume, TypeOK
  <2>4. ASSUME NEW u \in Signals, ProcessSignal(u)
        PROVE  sig'[s] = sig[s] /\ UNCHANGED rows
    <3>1. SignalStarts(u) /\ Only(u) /\ u # s
      <4>1. SignalStarts(u)
        BY <1>1, <2>4, ProcessSignalIs DEF SignalStarts
      <4> QED
        BY <1>1, <2>0, <4>1, StepsAreOwn DEF SignalStarts, New
    <3> QED
      BY <2>0, <3>1 DEF Only, SignalStarts, Enters, Passes, ReserveCall, resVars
  <2>5. ASSUME NEW u \in Signals, SignalStep(u)
        PROVE  sig'[s] = sig[s] /\ rows'[r] = rows[r]
    <3>1. Only(u)
      BY <1>1, <2>0, <2>5, StepsAreOwn
    <3>2. CASE SignalWaits(u)
      <4>1. call[u].rid # r
        <5>1. Owns(u) /\ sig[u].rid = call[u].rid /\ u # s
          BY <2>0, <3>2, ReservingIs DEF Owns, Running
        <5> QED
          BY <2>2, <5>1
      <4>2. UNCHANGED sig
        BY <3>2 DEF SignalWaits, execVars
      <4>3. rows'[r] = rows[r]
        BY <2>0, <3>2, <4>1 DEF SignalWaits, ReserveLock, ReserveSum, ReserveInsert
      <4> QED
        BY <4>2, <4>3
    <3>3. CASE SignalRefused(u) \/ SignalReserved(u) \/ SignalReleaseFails(u)
      <4>1. u # s
        <5>1. ~(SignalRefused(s) \/ SignalReserved(s))
          BY <2>0, ReservingIs
        <5>2. ~SignalReleaseFails(s)
          BY DEF SignalReleaseFails
        <5> QED
          BY <3>3, <5>1, <5>2
      <4>2. UNCHANGED rows
        BY <3>3 DEF SignalRefused, SignalReserved, SignalReleaseFails, ReserveReject,
                    ReserveAbort, ReserveReturn, resVars
      <4> QED
        BY <2>0, <3>1, <4>1, <4>2 DEF Only
    <3>4. CASE SignalReleases(u)
      <4>1. u # s /\ sig[u].pc = "releasing" /\ Release(sig[u].rid)
        BY <3>4 DEF SignalReleases
      <4>2. Owns(u)
        BY <2>0, <4>1 DEF Owns, Running, Linked
      <4>3. sig[u].rid # r
        BY <2>2, <4>1, <4>2
      <4> QED
        BY <2>0, <2>3, <3>1, <4>1, <4>3 DEF Only
    <3> QED
      BY <2>5, <3>2, <3>3, <3>4 DEF SignalStep
  <2>6. ASSUME NEW u \in Signals, SubmitStep(u)
        PROVE  sig'[s] = sig[s] /\ rows'[r] = rows[r]
    <3>1. OrderMoves(u)
      BY <1>1, <2>0, <2>6, SubmitMoves
    <3>2. u # s
      BY <2>6 DEF SubmitStep, SubmitOrder, SubmitReturns, SubmitRaises, SubmitReleases,
                  SubmitReleaseFails
    <3>3. sig'[s] = sig[s]
      BY <2>0, <3>1, <3>2 DEF OrderMoves
    <3>4. CASE SubmitReleases(u)
      <4>1. Release(sig[u].rid) /\ sig[u].rid \in DOMAIN rows /\ sig[u].pc = "failing"
        BY <3>4 DEF SubmitReleases, Release
      <4>2. Owns(u)
        BY <2>0, <4>1, ExecutionAssumption DEF Owns, Requested, TypeOK
      <4>3. sig[u].rid # r
        BY <2>2, <3>2, <4>2
      <4> QED
        BY <2>3, <3>3, <4>1, <4>3
    <3>5. CASE ~SubmitReleases(u)
      BY <2>6, <3>3, <3>5 DEF SubmitStep, SubmitOrder, SubmitReturns, SubmitRaises,
                              SubmitReleaseFails, resVars
    <3> QED
      BY <3>4, <3>5
  <2>7. ASSUME NEW u \in Signals, BrokerStep(u)
        PROVE  sig'[s] = sig[s] /\ rows'[r] = rows[r]
    BY <2>7 DEF BrokerStep, BrokerAccept, BrokerFill, BrokerClose, resVars
  <2>8. ASSUME NEW e \in events, Callback(e)
        PROVE  sig'[s] = sig[s] /\ rows'[r] = rows[r]
    <3>1. e.signal \in Signals /\ e.signal # s
      BY <2>0 DEF Linked, ExecTypeOK
    <3>2. CASE HandlerFails(e)
      <4>1. OrderMoves(e.signal)
        BY <2>0, <3>2, LossMoves
      <4>2. UNCHANGED rows
        BY <3>2 DEF HandlerFails, resVars
      <4> QED
        BY <2>0, <3>1, <4>1, <4>2 DEF OrderMoves
    <3>3. CASE HandleFill(e) \/ HandleOrderFailed(e)
      <4> DEFINE q == sig[e.signal].rid
      <4>1. UNCHANGED sig
        BY <3>3 DEF HandleFill, HandleOrderFailed
      <4>2. CASE q = NoRid
        <5>1. ~Release(q) /\ ~(\E amount : Consume(q, amount))
          BY <2>0, <4>2, ExecutionAssumption DEF Release, Consume, TypeOK
        <5> QED
          BY <3>3, <4>1, <5>1 DEF HandleFill, HandleOrderFailed, resVars
      <4>3. CASE q # NoRid
        <5>1. Owns(e.signal)
          BY <2>0, <3>1, <4>3 DEF Owns, Linked, Requested
        <5>2. q # r
          BY <2>2, <3>1, <5>1
        <5>3. UNCHANGED rows \/ Release(q) \/ \E amount : Consume(q, amount)
          BY <3>3 DEF HandleFill, HandleOrderFailed, resVars
        <5> QED
          BY <2>3, <4>1, <5>2, <5>3
      <4> QED
        BY <4>2, <4>3
    <3> QED
      BY <2>8, <3>2, <3>3 DEF Callback
  <2>9. CASE ToggleKillSwitch \/ UNCHANGED vars
    BY <2>9 DEF ToggleKillSwitch, vars, execVars, resVars
  <2>10. CASE Background
    <3>1. UNCHANGED sig
      BY <2>10 DEF Background, execVars
    <3>2. CASE SweepQuery \/ Tick
      BY <3>1, <3>2 DEF SweepQuery, Tick
    <3>3. ASSUME NEW q \in Rids, SweepWrite(q)
          PROVE  rows'[r] = rows[r] \/ SweepWrite(r)
      <4>1. CASE q = r
        BY <3>3, <4>1
      <4>2. CASE q # r
        BY <2>0, <3>3, <4>2 DEF SweepWrite, TypeOK
      <4> QED
        BY <4>1, <4>2
    <3> QED
      BY <2>10, <3>1, <3>2, <3>3 DEF Background
  <2> QED
    BY <1>1, <2>4, <2>5, <2>6, <2>7, <2>8, <2>9, <2>10 DEF ExecNext
<1>2. CallsInv /\ IInv /\ PipeInv /\ [ExecNext]_vars
      => [\A s \in Signals : Kept(s)]_vars
  BY <1>1
<1> QED
  BY <1>2, PipelineInvariant, PTL DEF ExecSpec, UnsentWaitsForSweep
=============================================================================
