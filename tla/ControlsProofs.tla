---------------------------- MODULE ControlsProofs ----------------------------
(***************************************************************************)
(* What holds of the controls between a decision and the broker, for any   *)
(* rules, contexts, positions, orders, retries, callers, proposals,        *)
(* requests, executions and agent tasks: of the risk engine, the final     *)
(* check, the force flatten service, the governance of agents and the      *)
(* gateway of their tools.                                                 *)
(***************************************************************************)
EXTENDS MCControls, FiniteSetTheorems, TLAPS

-----------------------------------------------------------------------------
(* The final check.                                                        *)
Typed(context) == \A f \in Fields : context[f] \in FieldType[f]

(* A context without a failed check passes each of them.                   *)
Sound(context) ==
    /\ StrategyAllows(context) /\ ~context.signal_expired
    /\ context.qmt_adapter_available \notin {"missing", "no"}
    /\ context.account_risk_status \in {"normal", "warning"}
    /\ PositionSuffices(context) /\ ~ReservationFails(context)
    /\ context.has_conflicting_inflight = "no"
    /\ context.kill_switch_active # "missing" /\ ~KillSwitchBlocks(context) /\ ~CloseOnlyBlocks(context)
    /\ context.frequency_ok /\ context.price_positive /\ context.quantity > 0 /\ ~context.price_stale
    /\ context.source_is_deterministic /\ context.request_from_execution_service

LEMMA NoFailure ==
    ASSUME NEW context
    PROVE  FailedChecks(context) = {} <=> Sound(context)
BY DEF FailedChecks, Sound, Fail

LEMMA AllowedIsSound ==
    ASSUME NEW context, Execute(context) = "allow"
    PROVE  Sound(context)
BY NoFailure DEF Execute, Verdict

LEMMA SoundIsAllowed ==
    ASSUME NEW context, Sound(context)
    PROVE  Execute(context) = "allow"
BY NoFailure DEF Execute, Verdict, Sound

(* A retry is invited only when the broker is down and nothing critical    *)
(* failed.                                                                 *)
LEMMA RetryIsForBroker ==
    ASSUME NEW context, Execute(context) = "retry_later"
    PROVE  /\ context.qmt_adapter_available = "no" /\ ~KillSwitchBlocks(context)
           /\ context.source_is_deterministic /\ context.request_from_execution_service
           /\ context.price_positive /\ context.quantity > 0
<1>1. /\ ~KillSwitchBlocks(context)
      /\ "qmt_unavailable" \in FailedChecks(context)
      /\ FailedChecks(context) \cap CriticalFailures = {}
  BY DEF Execute, Verdict
<1>2. /\ "params_invalid" \notin FailedChecks(context)
      /\ "source_non_deterministic" \notin FailedChecks(context)
      /\ "unauthorized_source" \notin FailedChecks(context)
  BY <1>1 DEF CriticalFailures
<1>3. /\ context.price_positive /\ context.quantity > 0
      /\ context.source_is_deterministic /\ context.request_from_execution_service
  BY <1>2 DEF FailedChecks, Fail
<1>4. context.qmt_adapter_available = "no"
  BY <1>1 DEF FailedChecks, Fail
<1> QED
  BY <1>1, <1>3, <1>4

LEMMA VerdictTyped ==
    ASSUME NEW context
    PROVE  Execute(context) \in Verdicts
BY DEF Execute, Verdict, Verdicts

-----------------------------------------------------------------------------
(* The gate.                                                               *)

(* The request keeps its fields and their types, and the verdict is the    *)
(* one that the request, which does not change any more, deserves.         *)
GateInv ==
    /\ DOMAIN request = Fields /\ Typed(request)
    /\ changes \in 0..MaxChanges
    /\ verdict \in Verdicts \cup {"none"}
    /\ verdict # "none" => verdict = Execute(request)

LEMMA PassingIsTyped == DOMAIN PassingContext = Fields /\ Typed(PassingContext)
<1>1. DOMAIN PassingContext = Fields
  BY DEF PassingContext, Fields, FieldType
<1>2. MaxQuantity \in Quantities /\ 0 \in Quantities
  BY QuantityAssumption DEF Quantities
<1>3. Fields = {"strategy_status", "signal_expired",
                "qmt_adapter_available", "account_risk_status",
                "available_quantity", "today_bought_quantity", "quantity",
                "side", "reservation_status", "reservation_expired",
                "has_conflicting_inflight", "kill_switch_active",
                "close_only_mode", "pause_open_mode", "frequency_ok",
                "price_positive", "price_stale", "source_is_deterministic",
                "request_from_execution_service", "is_flatten"}
  BY DEF Fields, FieldType
<1>4. Typed(PassingContext)
  <2>1. /\ PassingContext.strategy_status \in FieldType.strategy_status
        /\ PassingContext.signal_expired \in FieldType.signal_expired
        /\ PassingContext.qmt_adapter_available \in FieldType.qmt_adapter_available
        /\ PassingContext.account_risk_status \in FieldType.account_risk_status
        /\ PassingContext.available_quantity \in FieldType.available_quantity
    BY <1>2 DEF PassingContext, FieldType
  <2>2. /\ PassingContext.today_bought_quantity \in FieldType.today_bought_quantity
        /\ PassingContext.quantity \in FieldType.quantity
        /\ PassingContext.side \in FieldType.side
        /\ PassingContext.reservation_status \in FieldType.reservation_status
        /\ PassingContext.reservation_expired \in FieldType.reservation_expired
    BY <1>2 DEF PassingContext, FieldType
  <2>3. /\ PassingContext.has_conflicting_inflight \in FieldType.has_conflicting_inflight
        /\ PassingContext.kill_switch_active \in FieldType.kill_switch_active
        /\ PassingContext.close_only_mode \in FieldType.close_only_mode
        /\ PassingContext.pause_open_mode \in FieldType.pause_open_mode
        /\ PassingContext.frequency_ok \in FieldType.frequency_ok
    BY <1>2 DEF PassingContext, FieldType
  <2>4. /\ PassingContext.price_positive \in FieldType.price_positive
        /\ PassingContext.price_stale \in FieldType.price_stale
        /\ PassingContext.source_is_deterministic \in FieldType.source_is_deterministic
        /\ PassingContext.request_from_execution_service \in FieldType.request_from_execution_service
        /\ PassingContext.is_flatten \in FieldType.is_flatten
    BY <1>2 DEF PassingContext, FieldType
  <2> QED
    BY <1>3, <2>1, <2>2, <2>3, <2>4 DEF Typed
<1> QED
  BY <1>1, <1>4

LEMMA GateInvInit == GateInit => GateInv
BY PassingIsTyped, GateAssumption DEF GateInit, GateInv

LEMMA GateInvNext == GateInv /\ [GateNext]_gateVars => GateInv'
<1> SUFFICES ASSUME GateInv, [GateNext]_gateVars
             PROVE  GateInv'
  OBVIOUS
<1>1. ASSUME NEW f \in Fields, NEW v \in FieldType[f], Populate(f, v)
      PROVE  GateInv'
  <2>1. DOMAIN request' = Fields /\ Typed(request)'
    BY <1>1 DEF Populate, GateInv, Typed
  <2>2. changes' \in 0..MaxChanges
    BY <1>1, GateAssumption DEF Populate, GateInv
  <2> QED
    BY <1>1, <2>1, <2>2 DEF Populate, GateInv
<1>2. CASE Run
  BY <1>2, VerdictTyped DEF Run, GateInv, Typed
<1>3. CASE UNCHANGED gateVars
  BY <1>3 DEF gateVars, GateInv, Typed
<1> QED
  BY <1>1, <1>2, <1>3 DEF GateNext

LEMMA GateSafe == GateSpec => []GateInv
BY GateInvInit, GateInvNext, PTL DEF GateSpec

(* Whatever a caller assembles, the gate answers with a verdict that       *)
(* FinalCheckResult has.                                                   *)
THEOREM GateTypeCorrect == GateSpec => []GateTypeOK
<1>1. GateInv => GateTypeOK
  BY DEF GateInv, GateTypeOK, Typed
<1> QED
  BY <1>1, GateSafe, PTL

LEMMA SoundIsSafe ==
    ASSUME NEW context, Typed(context), Sound(context)
    PROVE  /\ context.kill_switch_active = "yes" => context.is_flatten
           /\ Opening(context) => context.strategy_status = "live_running" /\ ~context.close_only_mode
           /\ context.side = "sell" =>
                 context.quantity + context.today_bought_quantity <= context.available_quantity
           /\ context.reservation_status # "missing" =>
                 context.reservation_status = "active" /\ ~context.reservation_expired
<1>1. /\ context.kill_switch_active \in {"missing", "yes", "no"}
      /\ context.reservation_status \in {"missing", "active", "released"}
      /\ {context.quantity, context.today_bought_quantity, context.available_quantity} \subseteq Quantities
      /\ context.reservation_expired \in BOOLEAN /\ context.is_flatten \in BOOLEAN
      /\ context.close_only_mode \in BOOLEAN
  BY DEF Typed, Fields, FieldType
<1>2. /\ context.quantity \in Int /\ context.today_bought_quantity \in Int
      /\ context.available_quantity \in Int
  BY <1>1, QuantityAssumption DEF Quantities
<1>3. context.kill_switch_active = "yes" => context.is_flatten
  BY DEF Sound, KillSwitchBlocks
<1>4. Opening(context) => context.strategy_status = "live_running" /\ ~context.close_only_mode
  BY <1>1, <1>3 DEF Sound, Opening, StrategyAllows, CloseOnlyBlocks
<1>5. context.side = "sell" => context.quantity + context.today_bought_quantity <= context.available_quantity
  BY <1>2 DEF Sound, PositionSuffices, Sellable
<1>6. context.reservation_status # "missing" =>
         context.reservation_status = "active" /\ ~context.reservation_expired
  BY <1>1 DEF Sound, ReservationFails
<1> QED
  BY <1>3, <1>4, <1>5, <1>6

(* The gate lets nothing through that the trading rules forbid: no opening *)
(* order under the kill switch or in a wind-down, no share bought today,   *)
(* nothing left unset, no foreign source - for every context and quantity. *)
THEOREM AllowedOnlySafe == GateSpec => []AllowedIsSafe
<1>1. ASSUME GateInv, verdict = "allow"
      PROVE  AllowedIsSafe
  <2>1. Sound(request) /\ Typed(request)
    BY <1>1, AllowedIsSound DEF GateInv
  <2>2. \A f \in {"strategy_status", "qmt_adapter_available", "account_risk_status",
                  "has_conflicting_inflight", "kill_switch_active"} : request[f] # "missing"
    BY <2>1 DEF Sound, StrategyAllows
  <2> QED
    BY <2>1, <2>2, SoundIsSafe DEF AllowedIsSafe, Sound
<1>2. GateInv => AllowedIsSafe
  BY <1>1 DEF AllowedIsSafe
<1> QED
  BY <1>2, GateSafe, PTL

(* A request is sent to be tried again only when the broker alone is to    *)
(* blame - for every context.                                              *)
THEOREM RetriedForBrokerOnly == GateSpec => []RetryOnlyForBroker
<1>1. GateInv => RetryOnlyForBroker
  BY RetryIsForBroker DEF GateInv, RetryOnlyForBroker
<1> QED
  BY <1>1, GateSafe, PTL

(* Both together: the verdict is right, for every context.                 *)
THEOREM VerdictAlwaysRight == GateSpec => []VerdictIsRight
<1>1. AllowedIsSafe /\ RetryOnlyForBroker => VerdictIsRight
  BY DEF VerdictIsRight
<1> QED
  BY <1>1, AllowedOnlySafe, RetriedForBrokerOnly, PTL

-----------------------------------------------------------------------------
(* The flatten.                                                            *)

(* A task sells what it may: exactly the shares not bought today.          *)
SellsItsShares(task) ==
    /\ task.available \in Nat /\ task.today \in Nat /\ task.sellable \in Nat
    /\ task.sellable > 0 => task.sellable = task.available - task.today

TasksSound(list) ==
    \A i \in DOMAIN list :
        /\ SellsItsShares(list[i])
        /\ list[i].error # "final_check"
        /\ list[i].status = "failed" => list[i].sellable > 0

Begun(f) == "failed" \in DOMAIN progress[f]

(* What a call has on its list are tasks of its flatten with something to  *)
(* sell.                                                                   *)
ListSound(state, lists) ==
    state.at \in {"selling", "submitting"} =>
        /\ state.flatten \in Flattens /\ state.kind \in {"execute", "retry"}
        /\ \A i \in state.todo : i \in DOMAIN lists[state.flatten]
                                  /\ lists[state.flatten][i].sellable > 0
        /\ state.at = "submitting" => state.now \in state.todo

(* A flatten has no tasks until its one query has been answered, and no    *)
(* task was ever refused by the final check.                               *)
FlattenInv ==
    /\ \A i \in DOMAIN positions : positions[i].available \in Nat /\ positions[i].today \in Nat
    /\ DOMAIN progress = Flattens /\ DOMAIN tasks = Flattens /\ DOMAIN flattening = FlattenCalls
    /\ \A f \in Flattens : TasksSound(tasks[f])
    /\ \A f \in Flattens : Begun(f) <=> progress[f] # NoProgress
    /\ \A f \in Flattens : ~Begun(f) => DOMAIN tasks[f] = {}
    /\ \A c \in FlattenCalls : ListSound(flattening[c], tasks)
    /\ \A c \in FlattenCalls :
          flattening[c].at = "querying" =>
              flattening[c].flatten \in Flattens /\ Begun(flattening[c].flatten)
              /\ DOMAIN tasks[flattening[c].flatten] = {}
    /\ \A c, d \in FlattenCalls :
          flattening[c].at = "querying" /\ flattening[d].at = "querying"
          /\ flattening[c].flatten = flattening[d].flatten => c = d

LEMMA TaskSells ==
    ASSUME NEW p, p.available \in Nat, p.today \in Nat
    PROVE  SellsItsShares(TaskOf(p)) /\ TaskOf(p).error = "none"
           /\ TaskOf(p).status # "failed"
BY DEF TaskOf, Excess, SellsItsShares

LEMMA FlattenIsAllowed ==
    ASSUME NEW task, SellsItsShares(task), task.sellable > 0
    PROVE  Execute(FlattenContext(task)) = "allow"
<1>1. Sound(FlattenContext(task))
  BY DEF FlattenContext, PassingContext, Sound, StrategyAllows, PositionSuffices, Sellable,
         ReservationFails, KillSwitchBlocks, CloseOnlyBlocks, SellsItsShares
<1> QED
  BY <1>1, SoundIsAllowed

LEMMA FlattenInvInit == FlattenInit => FlattenInv
<1> SUFFICES ASSUME FlattenInit
             PROVE  FlattenInv
  OBVIOUS
<1>1. \A i \in DOMAIN positions : positions[i].available \in Nat /\ positions[i].today \in Nat
  BY QuantityAssumption DEF FlattenInit, Position, Quantities
<1>2. "failed" \notin DOMAIN NoProgress
  BY DEF NoProgress
<1> QED
  BY <1>1, <1>2 DEF FlattenInit, FlattenInv, TasksSound, ListSound, Begun, Free

(* The calls but c stay, and what is on their lists stays sound.           *)
LEMMA OthersStaySound ==
    ASSUME FlattenInv, NEW c \in FlattenCalls, NEW state, GoesTo(c, state),
           DOMAIN tasks' = Flattens, \A f \in Flattens : DOMAIN tasks[f] \subseteq DOMAIN tasks'[f],
           \A f \in Flattens : \A i \in DOMAIN tasks[f] :
               tasks'[f][i].sellable = tasks[f][i].sellable,
           ListSound(state, tasks')
    PROVE  /\ DOMAIN flattening' = FlattenCalls
           /\ \A d \in FlattenCalls : ListSound(flattening'[d], tasks')
<1>1. \A d \in FlattenCalls : ListSound(flattening[d], tasks')
  BY DEF FlattenInv, ListSound
<1> QED
  BY <1>1 DEF GoesTo, FlattenInv

LEMMA SellingSound ==
    ASSUME NEW f \in Flattens, NEW kind \in {"execute", "retry"}, NEW todo, NEW lists,
           \A i \in todo : i \in DOMAIN lists[f] /\ lists[f][i].sellable > 0
    PROVE  /\ ListSound(Selling(f, kind, todo), lists)
           /\ Selling(f, kind, todo).at \in {"idle", "selling"}
BY DEF ListSound, Selling, Free

LEMMA CountedKeepsFields ==
    ASSUME NEW p, "failed" \in DOMAIN p, NEW kind \in {"execute", "retry"}
    PROVE  /\ "failed" \in DOMAIN Counted(p, kind, TRUE) /\ Counted(p, kind, TRUE) # NoProgress
           /\ "failed" \in DOMAIN Counted(p, kind, FALSE) /\ Counted(p, kind, FALSE) # NoProgress
<1>1. "failed" \in DOMAIN Counted(p, kind, TRUE) /\ "failed" \in DOMAIN Counted(p, kind, FALSE)
  BY DEF Counted
<1>2. "failed" \notin DOMAIN NoProgress
  BY DEF NoProgress
<1> QED
  BY <1>1, <1>2

(* Outcome(), told by the status that the task gets.                       *)
Settles(c, i, attempts, status, error) ==
    LET f == flattening[c].flatten
        kind == flattening[c].kind
    IN  /\ tasks' = [tasks EXCEPT ![f][i] = [@ EXCEPT !.attempts = attempts, !.error = error,
                                                      !.status = status]]
        /\ \/ progress' = [progress EXCEPT ![f] = Counted(@, kind, TRUE)]
           \/ progress' = [progress EXCEPT ![f] = Counted(@, kind, FALSE)]
        /\ GoesTo(c, Selling(f, kind, flattening[c].todo \ {i}))
        /\ UNCHANGED positions

LEMMA SettlingKeepsInv ==
    ASSUME FlattenInv, NEW c \in FlattenCalls, NEW attempts, NEW status, NEW error,
           flattening[c].at \in {"selling", "submitting"}, NEW i, i \in flattening[c].todo,
           error # "final_check", Settles(c, i, attempts, status, error)
    PROVE  FlattenInv'
<1> DEFINE f == flattening[c].flatten
           state == Selling(f, flattening[c].kind, flattening[c].todo \ {i})
<1>1. /\ f \in Flattens /\ flattening[c].kind \in {"execute", "retry"}
      /\ \A j \in flattening[c].todo : j \in DOMAIN tasks[f] /\ tasks[f][j].sellable > 0
  BY DEF FlattenInv, ListSound
<1>2. /\ DOMAIN tasks' = Flattens
      /\ \A g \in Flattens : DOMAIN tasks'[g] = DOMAIN tasks[g]
      /\ \A g \in Flattens : \A j \in DOMAIN tasks[g] :
            /\ tasks'[g][j].sellable = tasks[g][j].sellable
            /\ tasks'[g][j].available = tasks[g][j].available
            /\ tasks'[g][j].today = tasks[g][j].today
            /\ tasks'[g][j].error \in {tasks[g][j].error, error}
            /\ tasks'[g][j].status = tasks[g][j].status \/ tasks[g][j].sellable > 0
  <2>1. /\ DOMAIN tasks = Flattens
        /\ tasks' = [tasks EXCEPT ![f][i] = [@ EXCEPT !.attempts = attempts, !.error = error,
                                                      !.status = status]]
    BY DEF Settles, FlattenInv
  <2> HIDE DEF f
  <2>2. /\ DOMAIN tasks' = Flattens
        /\ \A g \in Flattens : DOMAIN tasks'[g] = DOMAIN tasks[g]
        /\ \A g \in Flattens : \A j \in DOMAIN tasks[g] :
              ~(g = f /\ j = i) => tasks'[g][j] = tasks[g][j]
    BY <1>1, <2>1
  <2>3. PICK old, one : /\ old = tasks[f][i] /\ one = tasks'[f][i]
                        /\ one = [old EXCEPT !.attempts = attempts, !.error = error,
                                             !.status = status]
    BY <1>1, <2>1
  <2>4. /\ one.sellable = old.sellable /\ one.available = old.available
        /\ one.today = old.today /\ one.error \in {old.error, error}
    BY ONLY <2>3
  <2>5. ASSUME NEW g \in Flattens, NEW j \in DOMAIN tasks[g]
        PROVE  /\ tasks'[g][j].sellable = tasks[g][j].sellable
               /\ tasks'[g][j].available = tasks[g][j].available
               /\ tasks'[g][j].today = tasks[g][j].today
               /\ tasks'[g][j].error \in {tasks[g][j].error, error}
               /\ tasks'[g][j].status = tasks[g][j].status \/ tasks[g][j].sellable > 0
    <3>1. CASE g = f /\ j = i
      <4>1. tasks[g][j] = old /\ tasks'[g][j] = one /\ tasks[g][j].sellable > 0
        BY <1>1, <2>3, <3>1
      <4> QED
        BY <2>4, <4>1
    <3>2. CASE ~(g = f /\ j = i)
      <4>1. tasks'[g][j] = tasks[g][j]
        BY <2>2, <3>2
      <4> QED
        BY <4>1
    <3> QED
      BY <3>1, <3>2
  <2> QED
    BY <2>2, <2>5
<1>3. \A g \in Flattens : TasksSound(tasks'[g])
  BY <1>2 DEF FlattenInv, TasksSound, SellsItsShares
<1>4. GoesTo(c, state) /\ ListSound(state, tasks') /\ state.at \in {"idle", "selling"}
  BY <1>1, <1>2, SellingSound DEF Settles
<1>5. /\ DOMAIN flattening' = FlattenCalls
      /\ \A d \in FlattenCalls : ListSound(flattening'[d], tasks')
  BY <1>2, <1>4, OthersStaySound
<1>6. /\ Begun(f)
      /\ \/ progress' = [progress EXCEPT ![f] = Counted(@, flattening[c].kind, TRUE)]
         \/ progress' = [progress EXCEPT ![f] = Counted(@, flattening[c].kind, FALSE)]
  BY <1>1 DEF Settles, FlattenInv, ListSound
<1>7. /\ DOMAIN progress' = Flattens
      /\ \A g \in Flattens : Begun(g)' <=> Begun(g)
      /\ \A g \in Flattens : Begun(g)' <=> progress'[g] # NoProgress
  <2>1. DOMAIN progress' = Flattens /\ \A g \in Flattens \ {f} : progress'[g] = progress[g]
    BY <1>6 DEF FlattenInv
  <2>2. \/ progress'[f] = Counted(progress[f], flattening[c].kind, TRUE)
        \/ progress'[f] = Counted(progress[f], flattening[c].kind, FALSE)
    BY <1>1, <1>6 DEF FlattenInv
  <2>3. "failed" \in DOMAIN progress'[f] /\ progress'[f] # NoProgress
    BY <1>1, <1>6, <2>2, CountedKeepsFields DEF Begun
  <2> QED
    BY <1>1, <1>6, <2>1, <2>3 DEF Begun, FlattenInv
<1>8. \A d \in FlattenCalls : flattening'[d].at = "querying" => flattening'[d] = flattening[d]
  BY <1>4 DEF GoesTo, FlattenInv
<1>9. UNCHANGED positions
  BY DEF Settles
<1> QED
  BY <1>2, <1>3, <1>5, <1>7, <1>8, <1>9 DEF FlattenInv

LEMMA FlattenInvNext == FlattenInv /\ [FlattenNext]_flattenVars => FlattenInv'
<1> SUFFICES ASSUME FlattenInv, [FlattenNext]_flattenVars
             PROVE  FlattenInv'
  OBVIOUS
<1>1. ASSUME NEW c \in FlattenCalls, NEW f \in Flattens, ExecuteFlatten(c, f)
      PROVE  FlattenInv'
  <2> DEFINE state == IF service.repo THEN [at |-> "querying", flatten |-> f] ELSE Free
  <2>1. GoesTo(c, state) /\ UNCHANGED <<tasks, positions>> /\ ListSound(state, tasks')
    BY <1>1 DEF ExecuteFlatten, ListSound, Free
  <2>2. /\ DOMAIN flattening' = FlattenCalls
        /\ \A d \in FlattenCalls : ListSound(flattening'[d], tasks')
    BY <2>1, OthersStaySound DEF FlattenInv
  <2>3. "failed" \in DOMAIN Started /\ "failed" \notin DOMAIN NoProgress
    BY DEF Started, NoProgress
  <2>4. /\ DOMAIN progress' = Flattens
        /\ ~Begun(f) /\ Begun(f)' /\ \A g \in Flattens \ {f} : progress'[g] = progress[g]
    BY <1>1, <2>3 DEF ExecuteFlatten, FlattenInv, Begun
  <2>5. \A g \in Flattens : Begun(g)' <=> progress'[g] # NoProgress
    BY <2>3, <2>4 DEF FlattenInv, Begun
  <2>6. \A d \in FlattenCalls : flattening'[d].at = "querying" =>
            \/ flattening'[d] = flattening[d] /\ flattening[d].flatten # f
            \/ d = c /\ flattening'[d].flatten = f
    BY <2>1, <2>4 DEF GoesTo, FlattenInv, Free
  <2> QED
    BY <2>1, <2>2, <2>4, <2>5, <2>6 DEF FlattenInv, Begun
<1>2. ASSUME NEW c \in FlattenCalls, NEW f \in Flattens, RetryFailed(c, f)
      PROVE  FlattenInv'
  <2> DEFINE state == Selling(f, "retry", Retryable(f))
  <2>1. GoesTo(c, state) /\ UNCHANGED <<tasks, positions, progress>>
    BY <1>2 DEF RetryFailed
  <2>2. ListSound(state, tasks') /\ state.at \in {"idle", "selling"}
    BY <2>1, SellingSound DEF Retryable, FlattenInv, TasksSound
  <2>3. /\ DOMAIN flattening' = FlattenCalls
        /\ \A d \in FlattenCalls : ListSound(flattening'[d], tasks')
    BY <2>1, <2>2, OthersStaySound DEF FlattenInv
  <2>4. \A d \in FlattenCalls : flattening'[d].at = "querying" => flattening'[d] = flattening[d]
    BY <2>1, <2>2 DEF GoesTo, FlattenInv
  <2> QED
    BY <2>1, <2>3, <2>4 DEF FlattenInv, Begun
<1>3. ASSUME NEW c \in FlattenCalls, BuildTasks(c)
      PROVE  FlattenInv'
  <2> DEFINE f == flattening[c].flatten
             built == [i \in DOMAIN positions |-> TaskOf(positions[i])]
             todo == {i \in DOMAIN built : built[i].sellable > 0}
             state == Selling(f, "execute", todo)
  <2>1. /\ f \in Flattens /\ Begun(f) /\ DOMAIN tasks[f] = {}
        /\ tasks' = [tasks EXCEPT ![f] = built]
        /\ GoesTo(c, state) /\ UNCHANGED positions
    BY <1>3 DEF BuildTasks, FlattenInv
  <2>2. TasksSound(built)
    BY TaskSells DEF TasksSound, FlattenInv
  <2>3. /\ DOMAIN tasks' = Flattens
        /\ \A g \in Flattens : DOMAIN tasks[g] \subseteq DOMAIN tasks'[g]
        /\ \A g \in Flattens : \A i \in DOMAIN tasks[g] :
              tasks'[g][i].sellable = tasks[g][i].sellable
        /\ \A g \in Flattens : TasksSound(tasks'[g])
    BY <2>1, <2>2 DEF FlattenInv
  <2>4. ListSound(state, tasks') /\ state.at \in {"idle", "selling"}
    <3>1. \A i \in todo : i \in DOMAIN tasks'[f] /\ tasks'[f][i].sellable > 0
      BY <2>1 DEF FlattenInv
    <3> HIDE DEF todo
    <3> QED
      BY <2>1, <3>1, SellingSound
  <2>5. /\ DOMAIN flattening' = FlattenCalls
        /\ \A d \in FlattenCalls : ListSound(flattening'[d], tasks')
    BY <2>1, <2>3, <2>4, OthersStaySound
  <2>6. /\ DOMAIN progress' = Flattens
        /\ \A g \in Flattens : DOMAIN progress'[g] = DOMAIN progress[g]
        /\ \A g \in Flattens \ {f} : progress'[g] = progress[g]
    BY <1>3, <2>1 DEF BuildTasks, FlattenInv
  <2>7. "failed" \notin DOMAIN NoProgress
    BY DEF NoProgress
  <2>8. /\ \A g \in Flattens : Begun(g)' <=> Begun(g)
        /\ \A g \in Flattens : Begun(g)' <=> progress'[g] # NoProgress
    BY <2>1, <2>6, <2>7 DEF Begun, FlattenInv
  <2>9. \A d \in FlattenCalls : flattening'[d].at = "querying" =>
            flattening'[d] = flattening[d] /\ flattening[d].flatten # f
    BY <1>3, <2>1, <2>4 DEF GoesTo, FlattenInv, BuildTasks
  <2>10. \A g \in Flattens \ {f} : tasks'[g] = tasks[g]
    BY <2>1 DEF FlattenInv
  <2> QED
    BY <2>1, <2>3, <2>5, <2>6, <2>8, <2>9, <2>10 DEF FlattenInv
<1>4. ASSUME NEW c \in FlattenCalls, NEW i \in Instruments, SellNext(c, i)
      PROVE  FlattenInv'
  <2> DEFINE f == flattening[c].flatten
             state == [at |-> "submitting", flatten |-> f, kind |-> flattening[c].kind,
                       todo |-> flattening[c].todo, now |-> i]
  <2>1. /\ f \in Flattens /\ flattening[c].at = "selling" /\ i \in flattening[c].todo
        /\ i \in DOMAIN tasks[f] /\ tasks[f][i].sellable > 0
        /\ SellsItsShares(tasks[f][i]) /\ tasks[f][i].error # "final_check"
        /\ UNCHANGED positions
    BY <1>4 DEF SellNext, FlattenInv, ListSound, TasksSound
  <2>2. Execute(FlattenContext(tasks[f][i])) = "allow"
    BY <2>1, FlattenIsAllowed
  <2>3. CASE ~service.orders
    <3>1. Settles(c, i, tasks[f][i].attempts + 1, "submitted", tasks[f][i].error)
      BY <1>4, <2>2, <2>3 DEF SellNext, Outcome, Settles
    <3> QED
      BY <2>1, <3>1, SettlingKeepsInv
  <2>4. CASE service.orders
    <3>1. /\ tasks' = [tasks EXCEPT ![f][i].attempts = @ + 1]
          /\ GoesTo(c, state) /\ UNCHANGED progress
      BY <1>4, <2>2, <2>4 DEF SellNext
    <3>2. /\ DOMAIN tasks' = Flattens
          /\ \A g \in Flattens : DOMAIN tasks'[g] = DOMAIN tasks[g]
          /\ \A g \in Flattens : \A j \in DOMAIN tasks[g] :
                /\ tasks'[g][j].sellable = tasks[g][j].sellable
                /\ tasks'[g][j].available = tasks[g][j].available
                /\ tasks'[g][j].today = tasks[g][j].today
                /\ tasks'[g][j].status = tasks[g][j].status
                /\ tasks'[g][j].error = tasks[g][j].error
      <4>1. DOMAIN tasks = Flattens /\ f \in Flattens /\ i \in DOMAIN tasks[f]
        BY <2>1 DEF FlattenInv
      <4> HIDE DEF f
      <4>2. /\ DOMAIN tasks' = Flattens
            /\ tasks'[f] = [tasks[f] EXCEPT ![i].attempts = @ + 1]
            /\ \A g \in Flattens \ {f} : tasks'[g] = tasks[g]
        BY <3>1, <4>1
      <4>3. /\ DOMAIN tasks'[f] = DOMAIN tasks[f]
            /\ tasks'[f][i] = [tasks[f][i] EXCEPT !.attempts = @ + 1]
            /\ \A j \in DOMAIN tasks[f] \ {i} : tasks'[f][j] = tasks[f][j]
        BY <4>1, <4>2
      <4>4. ASSUME NEW j \in DOMAIN tasks[f]
            PROVE  /\ tasks'[f][j].sellable = tasks[f][j].sellable
                   /\ tasks'[f][j].available = tasks[f][j].available
                   /\ tasks'[f][j].today = tasks[f][j].today
                   /\ tasks'[f][j].status = tasks[f][j].status
                   /\ tasks'[f][j].error = tasks[f][j].error
        <5>1. CASE j = i
          <6>1. PICK one : one = tasks[f][i]
            OBVIOUS
          <6>2. tasks'[f][j] = [one EXCEPT !.attempts = @ + 1]
            BY <4>3, <5>1, <6>1
          <6>3. tasks[f][j] = one
            BY <5>1, <6>1
          <6>4. PICK next : next = tasks'[f][j]
            OBVIOUS
          <6>5. /\ next.sellable = one.sellable /\ next.available = one.available
                /\ next.today = one.today /\ next.status = one.status
                /\ next.error = one.error
            BY ONLY <6>2, <6>4
          <6> QED
            BY ONLY <6>3, <6>4, <6>5
        <5>2. CASE j # i
          BY <4>3, <5>2
        <5> QED
          BY <5>1, <5>2
      <4>5. ASSUME NEW g \in Flattens
            PROVE  /\ DOMAIN tasks'[g] = DOMAIN tasks[g]
                   /\ \A j \in DOMAIN tasks[g] :
                         /\ tasks'[g][j].sellable = tasks[g][j].sellable
                         /\ tasks'[g][j].available = tasks[g][j].available
                         /\ tasks'[g][j].today = tasks[g][j].today
                         /\ tasks'[g][j].status = tasks[g][j].status
                         /\ tasks'[g][j].error = tasks[g][j].error
        <5>1. CASE g = f
          BY <4>3, <4>4, <5>1
        <5>2. CASE g # f
          <6>1. tasks'[g] = tasks[g]
            BY <4>2, <5>2
          <6> QED
            BY <6>1
        <5> QED
          BY <5>1, <5>2
      <4> QED
        BY <4>2, <4>5
    <3>3. \A g \in Flattens : TasksSound(tasks'[g])
      BY <3>2 DEF FlattenInv, TasksSound, SellsItsShares
    <3>4. ListSound(state, tasks')
      BY <2>1, <3>2 DEF ListSound, FlattenInv
    <3>5. /\ DOMAIN flattening' = FlattenCalls
          /\ \A d \in FlattenCalls : ListSound(flattening'[d], tasks')
      BY <3>1, <3>2, <3>4, OthersStaySound
    <3>6. \A d \in FlattenCalls : flattening'[d].at = "querying" => flattening'[d] = flattening[d]
      BY <3>1 DEF GoesTo, FlattenInv
    <3>7. /\ DOMAIN progress' = Flattens
          /\ \A g \in Flattens : Begun(g)' <=> Begun(g)
          /\ \A g \in Flattens : Begun(g)' <=> progress'[g] # NoProgress
      BY <3>1 DEF Begun, FlattenInv
    <3>8. UNCHANGED positions
      BY <2>1
    <3> QED
      BY <3>2, <3>3, <3>5, <3>6, <3>7, <3>8 DEF FlattenInv
  <2> QED
    BY <2>3, <2>4
<1>5. ASSUME NEW c \in FlattenCalls, NEW got \in BOOLEAN, NEW raises \in BOOLEAN,
             SubmitAnswers(c, got, raises)
      PROVE  FlattenInv'
  <2> DEFINE f == flattening[c].flatten
             i == flattening[c].now
  <2>1. /\ flattening[c].at = "submitting" /\ i \in flattening[c].todo
        /\ f \in Flattens /\ i \in DOMAIN tasks[f] /\ tasks[f][i].error # "final_check"
        /\ UNCHANGED positions
    BY <1>5 DEF SubmitAnswers, FlattenInv, ListSound, TasksSound
  <2>2. CASE raises
    <3>1. Settles(c, i, tasks[f][i].attempts, "failed", "submit")
      BY <1>5, <2>2 DEF SubmitAnswers, Outcome, Settles
    <3> QED
      BY <2>1, <3>1, SettlingKeepsInv
  <2>3. CASE ~raises
    <3>1. Settles(c, i, tasks[f][i].attempts, "submitted", tasks[f][i].error)
      BY <1>5, <2>3 DEF SubmitAnswers, Outcome, Settles
    <3> QED
      BY <2>1, <3>1, SettlingKeepsInv
  <2> QED
    BY <2>2, <2>3
<1>6. CASE UNCHANGED flattenVars
  BY <1>6 DEF flattenVars, FlattenInv, Begun
<1> QED
  BY <1>1, <1>2, <1>3, <1>4, <1>5, <1>6 DEF FlattenNext

(* The final check never stops a flatten: whatever the positions, the      *)
(* failures and the retries of overlapping calls, each order leaves the    *)
(* shares bought today alone and passes, kill switch and close-only mode   *)
(* notwithstanding.                                                        *)
THEOREM FlattenAlwaysPasses == FlattenSpec => []FlattenPassesCheck
<1>1. FlattenInv => FlattenPassesCheck
  BY DEF FlattenInv, TasksSound, SellsItsShares, FlattenPassesCheck
<1> QED
  BY <1>1, FlattenInvInit, FlattenInvNext, PTL DEF FlattenSpec

(* The calls that have a task on their lists, and those of them that have  *)
(* not tried it yet.                                                       *)
CallsOn(f, i) == {c \in FlattenCalls : i \in OnList(c, f)}

StillToTry(f, i) ==
    {c \in CallsOn(f, i) : ~(flattening[c].at = "submitting" /\ flattening[c].now = i)}

MostTries == MaxRetries + Cardinality(FlattenCalls) - 1

Counters == {"total", "flattened", "remaining", "failed", "skipped"}

CountedTask ==
    [available: Quantities, today: 0..1, sellable: Quantities, attempts: Nat,
     status: {"skipped_t1", "pending", "submitted", "failed"},
     error: {"none", "final_check", "submit"}]

FlattenTyped ==
    /\ DOMAIN positions \subseteq Instruments
    /\ \A i \in DOMAIN positions : positions[i] \in Position
    /\ \A f \in Flattens : DOMAIN tasks[f] \subseteq Instruments
    /\ \A f \in Flattens : \A i \in DOMAIN tasks[f] : tasks[f][i] \in CountedTask
    /\ \A c \in FlattenCalls : flattening[c].at \in {"idle", "querying", "selling", "submitting"}
    /\ shared \subseteq Flattens \X Instruments
    /\ DOMAIN taken = Flattens /\ \A f \in Flattens : DOMAIN taken[f] = Instruments
    /\ \A f \in Flattens : Begun(f) => DOMAIN progress[f] = Counters

(* Each call that has a task on its list tries it once more: the list was  *)
(* made when a try was left.                                               *)
TriesCounted ==
    \A f \in Flattens : \A i \in DOMAIN tasks[f] :
        tasks[f][i].attempts + Cardinality(StillToTry(f, i)) <= MostTries

(* A task that is not shared is on one list at most, where it has the      *)
(* status that the call expects of it, and an order for it was taken only  *)
(* if it tells so.                                                         *)
OwnedByOne(f, i) ==
    /\ taken[f][i] \in {0, 1}
    /\ taken[f][i] = 1 => i \in DOMAIN tasks[f] /\ tasks[f][i].status = "submitted"
    /\ \A c \in FlattenCalls : i \in OnList(c, f) =>
          tasks[f][i].status = IF flattening[c].kind = "execute" THEN "pending" ELSE "failed"
    /\ \A c, d \in FlattenCalls : i \in OnList(c, f) /\ i \in OnList(d, f) => c = d

NotShared == \A f \in Flattens, i \in Instruments : <<f, i>> \notin shared => OwnedByOne(f, i)

ExactInv == FlattenTyped /\ TriesCounted /\ NotShared /\ CountersTell

LEMMA ListsAreTasks ==
    ASSUME FlattenInv, NEW c \in FlattenCalls, NEW f \in Flattens
    PROVE  OnList(c, f) \subseteq DOMAIN tasks[f]
BY DEF FlattenInv, ListSound, OnList

LEMMA CallsAreFinite ==
    ASSUME NEW S, S \subseteq FlattenCalls
    PROVE  IsFiniteSet(S) /\ Cardinality(S) \in Nat /\ Cardinality(S) <= Cardinality(FlattenCalls)
BY FlattenAssumption, FS_Subset, FS_CardinalityType

LEMMA TriesStay ==
    ASSUME NEW S, S \subseteq FlattenCalls, NEW T, NEW n \in Nat, NEW m,
           \/ m = n /\ T \subseteq S
           \/ m = n + 1 /\ \E c \in S : T \subseteq S \ {c}
    PROVE  m \in Nat /\ m + Cardinality(T) <= n + Cardinality(S)
<1>1. T \subseteq S /\ T \subseteq FlattenCalls
  OBVIOUS
<1>2. IsFiniteSet(S) /\ Cardinality(S) \in Nat /\ Cardinality(T) \in Nat
  BY <1>1, CallsAreFinite
<1>3. CASE m = n /\ T \subseteq S
  BY <1>2, <1>3, FS_Subset
<1>4. CASE m = n + 1 /\ \E c \in S : T \subseteq S \ {c}
  <2>1. PICK c \in S : T \subseteq S \ {c}
    BY <1>4
  <2>2. IsFiniteSet(S \ {c}) /\ Cardinality(S \ {c}) = Cardinality(S) - 1
    BY <1>2, FS_RemoveElement
  <2>3. Cardinality(T) <= Cardinality(S \ {c})
    BY <2>1, <2>2, FS_Subset
  <2> QED
    BY <1>2, <1>4, <2>2, <2>3
<1> QED
  BY <1>3, <1>4

(* What a task that changes its status does to the counts.                 *)
WithStatus(list, status) == {j \in DOMAIN list : list[j].status = status}

LEMMA StatusCount ==
    ASSUME NEW list, NEW list2, IsFiniteSet(DOMAIN list), DOMAIN list2 = DOMAIN list,
           NEW i \in DOMAIN list, \A j \in DOMAIN list \ {i} : list2[j].status = list[j].status,
           NEW status
    PROVE  /\ Cardinality(WithStatus(list, status)) \in Nat
           /\ list[i].status = status /\ list2[i].status # status =>
                 Cardinality(WithStatus(list2, status)) = Cardinality(WithStatus(list, status)) - 1
           /\ list[i].status # status /\ list2[i].status = status =>
                 Cardinality(WithStatus(list2, status)) = Cardinality(WithStatus(list, status)) + 1
           /\ (list[i].status = status <=> list2[i].status = status) =>
                 Cardinality(WithStatus(list2, status)) = Cardinality(WithStatus(list, status))
<1> DEFINE B == WithStatus(list, status)
           A == WithStatus(list2, status)
<1>1. IsFiniteSet(B) /\ Cardinality(B) \in Nat
  BY FS_Subset, FS_CardinalityType DEF WithStatus
<1>2. list[i].status = status /\ list2[i].status # status => A = B \ {i} /\ i \in B
  BY DEF WithStatus
<1>3. list[i].status # status /\ list2[i].status = status => A = B \cup {i} /\ i \notin B
  BY DEF WithStatus
<1>4. (list[i].status = status <=> list2[i].status = status) => A = B
  BY DEF WithStatus
<1>5. /\ i \in B => Cardinality(B \ {i}) = Cardinality(B) - 1
      /\ i \notin B => Cardinality(B \cup {i}) = Cardinality(B) + 1
  BY <1>1, FS_AddElement, FS_RemoveElement
<1> HIDE DEF A, B
<1>6. /\ Cardinality(B) \in Nat
      /\ list[i].status = status /\ list2[i].status # status => Cardinality(A) = Cardinality(B) - 1
      /\ list[i].status # status /\ list2[i].status = status => Cardinality(A) = Cardinality(B) + 1
      /\ (list[i].status = status <=> list2[i].status = status) => Cardinality(A) = Cardinality(B)
  BY <1>1, <1>2, <1>3, <1>4, <1>5
<1> QED
  BY <1>6 DEF A, B

LEMMA ExactInvInit == FlattenInit => ExactInv
<1> SUFFICES ASSUME FlattenInit
             PROVE  ExactInv
  OBVIOUS
<1>1. PICK open \in SUBSET Instruments : positions \in [open -> Position]
  BY DEF FlattenInit
<1>2. /\ progress = [f \in Flattens |-> NoProgress]
      /\ tasks = [f \in Flattens |-> [i \in {} |-> Free]]
      /\ flattening = [c \in FlattenCalls |-> Free]
      /\ taken = [f \in Flattens |-> [i \in Instruments |-> 0]]
      /\ shared = {}
  BY DEF FlattenInit
<1>3. FlattenTyped
  BY <1>1, <1>2 DEF FlattenTyped, Begun, NoProgress, Free
<1>4. TriesCounted /\ CountersTell
  BY <1>2 DEF TriesCounted, CountersTell
<1>5. NotShared
  BY <1>2 DEF NotShared, OwnedByOne, OnList, Free
<1> QED
  BY <1>3, <1>4, <1>5 DEF ExactInv

LEMMA ExecuteExact ==
    ASSUME FlattenInv, ExactInv, NEW c \in FlattenCalls, NEW f \in Flattens, ExecuteFlatten(c, f)
    PROVE  ExactInv'
<1>1. /\ flattening[c] = Free /\ progress[f] = NoProgress
      /\ progress' = [progress EXCEPT ![f] = Started]
      /\ UNCHANGED <<service, positions, tasks, taken, shared>>
      /\ flattening' = [flattening EXCEPT
                          ![c] = IF service.repo THEN [at |-> "querying", flatten |-> f] ELSE Free]
  BY DEF ExecuteFlatten, GoesTo
<1>2. DOMAIN progress = Flattens /\ DOMAIN flattening = FlattenCalls /\ DOMAIN tasks[f] = {}
  BY <1>1 DEF FlattenInv
<1>3. /\ flattening'[c].at \in {"idle", "querying"}
      /\ \A d \in FlattenCalls \ {c} : flattening'[d] = flattening[d]
  BY <1>1, <1>2 DEF Free
<1>4. \A d \in FlattenCalls, g \in Flattens : OnList(d, g)' = OnList(d, g)
  BY <1>1, <1>3 DEF OnList, Free
<1>5. \A d \in FlattenCalls, g \in Flattens : \A i : i \in OnList(d, g) =>
          flattening'[d] = flattening[d]
  BY <1>1, <1>3 DEF OnList, Free
<1>6. \A g \in Flattens : \A i : StillToTry(g, i)' = StillToTry(g, i)
  BY <1>4, <1>5 DEF StillToTry, CallsOn
<1>7. progress'[f] = Started /\ \A g \in Flattens \ {f} : progress'[g] = progress[g]
  BY <1>1, <1>2
<1>8. FlattenTyped'
  BY <1>1, <1>3, <1>7 DEF ExactInv, FlattenTyped, Begun, Started, Counters
<1>9. TriesCounted'
  BY <1>1, <1>6 DEF ExactInv, TriesCounted, MostTries
<1>10. NotShared'
  BY <1>1, <1>4, <1>5 DEF ExactInv, NotShared, OwnedByOne
<1>11. CountersTell'
  <2>1. \A status : Having(f, status)' = 0
    <3>1. \A status : {i \in DOMAIN tasks'[f] : tasks'[f][i].status = status} = {}
      BY <1>1, <1>2
    <3> QED
      BY <3>1, FS_EmptySet DEF Having
  <2>2. \A g \in Flattens : \A status : Having(g, status)' = Having(g, status)
    BY <1>1 DEF Having
  <2> QED
    BY <1>1, <1>7, <2>1, <2>2 DEF ExactInv, CountersTell, Started
<1> QED
  BY <1>8, <1>9, <1>10, <1>11 DEF ExactInv

LEMMA RetryExact ==
    ASSUME FlattenInv, ExactInv, NEW c \in FlattenCalls, NEW f \in Flattens, RetryFailed(c, f)
    PROVE  ExactInv'
<1>1. /\ flattening[c] = Free /\ progress[f] # NoProgress
      /\ flattening' = [flattening EXCEPT ![c] = Selling(f, "retry", Retryable(f))]
      /\ shared' = shared \cup {<<f, i>> : i \in UNION {Retryable(f) \cap OnList(d, f) :
                                                         d \in FlattenCalls}}
      /\ UNCHANGED <<service, positions, progress, tasks, taken>>
  BY DEF RetryFailed, GoesTo
<1>2. DOMAIN flattening = FlattenCalls
  BY DEF FlattenInv
<1>3. /\ flattening'[c] = Selling(f, "retry", Retryable(f))
      /\ \A d \in FlattenCalls \ {c} : flattening'[d] = flattening[d]
  BY <1>1, <1>2
<1>4. /\ OnList(c, f)' = Retryable(f) /\ \A g \in Flattens \ {f} : OnList(c, g)' = {}
      /\ \A g \in Flattens : OnList(c, g) = {}
      /\ \A d \in FlattenCalls \ {c}, g \in Flattens : OnList(d, g)' = OnList(d, g)
  BY <1>1, <1>3 DEF OnList, Free, Selling
<1>5. /\ flattening'[c].at \in {"idle", "selling"}
      /\ Retryable(f) # {} => flattening'[c].kind = "retry"
  BY <1>3 DEF Selling, Free
<1>6. /\ Retryable(f) \subseteq DOMAIN tasks[f] /\ DOMAIN tasks[f] \subseteq Instruments
      /\ \A i \in Retryable(f) : tasks[f][i].status = "failed" /\ tasks[f][i].attempts < MaxRetries
  BY DEF Retryable, ExactInv, FlattenTyped
<1>7. shared \subseteq shared' /\ shared' \subseteq Flattens \X Instruments
  BY <1>1, <1>6 DEF ExactInv, FlattenTyped
<1>8. \A i \in Retryable(f) : <<f, i>> \notin shared' =>
          \A d \in FlattenCalls : i \notin OnList(d, f)
  BY <1>1
<1>9. FlattenTyped'
  BY <1>1, <1>3, <1>5, <1>7 DEF ExactInv, FlattenTyped, Begun
<1>10. TriesCounted'
  <2> SUFFICES ASSUME NEW g \in Flattens, NEW i \in DOMAIN tasks[g]
               PROVE  tasks[g][i].attempts + Cardinality(StillToTry(g, i)') <= MostTries
    BY <1>1 DEF TriesCounted, MostTries
  <2>1. tasks[g][i].attempts \in Nat
    BY DEF ExactInv, FlattenTyped, CountedTask
  <2>2. StillToTry(g, i)' \subseteq FlattenCalls /\ StillToTry(g, i) \subseteq FlattenCalls
    BY DEF StillToTry, CallsOn
  <2>3. CASE g = f /\ i \in Retryable(f)
    <3>1. tasks[g][i].attempts < MaxRetries
      BY <1>6, <2>3
    <3>2. /\ Cardinality(StillToTry(g, i)') \in Nat /\ Cardinality(FlattenCalls) \in Nat
          /\ Cardinality(StillToTry(g, i)') <= Cardinality(FlattenCalls)
      BY <2>2, CallsAreFinite
    <3> QED
      BY <2>1, <3>1, <3>2, FlattenAssumption DEF MostTries
  <2>4. CASE ~(g = f /\ i \in Retryable(f))
    <3>1. StillToTry(g, i)' \subseteq StillToTry(g, i)
      BY <1>3, <1>4, <2>4 DEF StillToTry, CallsOn
    <3>2. tasks[g][i].attempts + Cardinality(StillToTry(g, i)')
            <= tasks[g][i].attempts + Cardinality(StillToTry(g, i))
      BY <2>1, <2>2, <3>1, TriesStay
    <3>3. tasks[g][i].attempts + Cardinality(StillToTry(g, i)) <= MostTries
      BY DEF ExactInv, TriesCounted
    <3>4. /\ Cardinality(StillToTry(g, i)') \in Nat /\ Cardinality(FlattenCalls) \in Nat
          /\ Cardinality(StillToTry(g, i)) \in Nat
      BY <2>2, CallsAreFinite
    <3> QED
      BY <2>1, <3>2, <3>3, <3>4, FlattenAssumption DEF MostTries
  <2> QED
    BY <2>3, <2>4
<1>11. NotShared'
  <2> SUFFICES ASSUME NEW g \in Flattens, NEW i \in Instruments, <<g, i>> \notin shared'
               PROVE  OwnedByOne(g, i)'
    BY DEF NotShared
  <2>1. OwnedByOne(g, i)
    BY <1>7 DEF ExactInv, NotShared
  <2>2. CASE g = f /\ i \in Retryable(f)
    BY <1>1, <1>4, <1>5, <1>6, <1>8, <2>1, <2>2 DEF OwnedByOne
  <2>3. CASE ~(g = f /\ i \in Retryable(f))
    <3>1. i \notin OnList(c, g)'
      BY <1>4, <2>3
    <3> QED
      BY <1>1, <1>3, <1>4, <2>1, <3>1 DEF OwnedByOne
  <2> QED
    BY <2>2, <2>3
<1>12. CountersTell'
  <2>1. \A g \in Flattens : \A status : Having(g, status)' = Having(g, status)
    BY <1>1 DEF Having
  <2> QED
    BY <1>1, <1>7, <2>1 DEF ExactInv, CountersTell
<1> QED
  BY <1>9, <1>10, <1>11, <1>12 DEF ExactInv

LEMMA BuildExact ==
    ASSUME FlattenInv, ExactInv, NEW c \in FlattenCalls, BuildTasks(c),
           NEW f, f = flattening[c].flatten
    PROVE  ExactInv'
<1> DEFINE built == [i \in DOMAIN positions |-> TaskOf(positions[i])]
           todo == {i \in DOMAIN built : built[i].sellable > 0}
           counts == [progress[f] EXCEPT !.total = Cardinality(DOMAIN built),
                                         !.remaining = Cardinality(todo),
                                         !.skipped = Cardinality(DOMAIN built \ todo)]
<1>1. /\ flattening[c].at = "querying" /\ f \in Flattens /\ Begun(f) /\ DOMAIN tasks[f] = {}
      /\ tasks' = [tasks EXCEPT ![f] = built]
      /\ progress' = [progress EXCEPT ![f] = counts]
      /\ flattening' = [flattening EXCEPT ![c] = Selling(f, "execute", todo)]
      /\ UNCHANGED <<service, positions, taken, shared>>
  BY DEF BuildTasks, GoesTo, FlattenInv
<1>2. DOMAIN progress = Flattens /\ DOMAIN tasks = Flattens /\ DOMAIN flattening = FlattenCalls
  BY DEF FlattenInv
<1>3. \A i \in DOMAIN positions :
          /\ built[i] \in CountedTask /\ built[i].attempts = 0
          /\ built[i].sellable > 0 <=> built[i].status = "pending"
          /\ ~(built[i].sellable > 0) <=> built[i].status = "skipped_t1"
          /\ built[i].status \in {"pending", "skipped_t1"}
  <2> SUFFICES ASSUME NEW i \in DOMAIN positions
               PROVE  /\ TaskOf(positions[i]) \in CountedTask /\ TaskOf(positions[i]).attempts = 0
                      /\ TaskOf(positions[i]).sellable > 0 <=> TaskOf(positions[i]).status = "pending"
                      /\ ~(TaskOf(positions[i]).sellable > 0)
                            <=> TaskOf(positions[i]).status = "skipped_t1"
                      /\ TaskOf(positions[i]).status \in {"pending", "skipped_t1"}
    OBVIOUS
  <2> DEFINE p == positions[i]
             sellable == IF Excess(p) > 0 THEN Excess(p) ELSE 0
             status == IF sellable = 0 THEN "skipped_t1" ELSE "pending"
  <2>1. p.available \in Quantities /\ p.today \in 0..1
    BY DEF ExactInv, FlattenTyped, Position
  <2>2. sellable \in Quantities /\ sellable \in Nat
    BY <2>1, QuantityAssumption DEF Quantities, Excess
  <2>3. /\ status \in {"skipped_t1", "pending"}
        /\ sellable > 0 <=> status = "pending"
        /\ ~(sellable > 0) <=> status = "skipped_t1"
    BY <2>2
  <2>4. TaskOf(p) = [available |-> p.available, today |-> p.today, sellable |-> sellable,
                     attempts |-> 0, status |-> status, error |-> "none"]
    BY DEF TaskOf
  <2> HIDE DEF p, sellable, status
  <2>5. TaskOf(p) \in CountedTask
    BY <2>1, <2>2, <2>3, <2>4 DEF CountedTask
  <2>6. TaskOf(p).attempts = 0 /\ TaskOf(p).sellable = sellable /\ TaskOf(p).status = status
    BY <2>4
  <2>7. /\ TaskOf(p) \in CountedTask /\ TaskOf(p).attempts = 0
        /\ TaskOf(p).sellable > 0 <=> TaskOf(p).status = "pending"
        /\ ~(TaskOf(p).sellable > 0) <=> TaskOf(p).status = "skipped_t1"
        /\ TaskOf(p).status \in {"pending", "skipped_t1"}
    BY <2>3, <2>5, <2>6
  <2> QED
    BY <2>7 DEF p
<1>4. /\ tasks'[f] = built /\ DOMAIN built = DOMAIN positions
      /\ \A g \in Flattens \ {f} : tasks'[g] = tasks[g] /\ progress'[g] = progress[g]
      /\ progress'[f] = counts
  BY <1>1, <1>2
<1>5. /\ todo = {i \in DOMAIN built : built[i].status = "pending"}
      /\ DOMAIN built \ todo = {i \in DOMAIN built : built[i].status = "skipped_t1"}
      /\ {i \in DOMAIN built : built[i].status = "submitted"} = {}
      /\ {i \in DOMAIN built : built[i].status = "failed"} = {}
  BY <1>3
<1> HIDE DEF built, todo
<1>6. /\ flattening'[c] = Selling(f, "execute", todo)
      /\ \A d \in FlattenCalls \ {c} : flattening'[d] = flattening[d]
  BY <1>1, <1>2
<1>7. \A d \in FlattenCalls : OnList(d, f) = {}
  BY <1>1, ListsAreTasks
<1>8. /\ OnList(c, f)' = todo /\ \A g \in Flattens \ {f} : OnList(c, g)' = {}
      /\ \A g \in Flattens : OnList(c, g) = {}
      /\ \A d \in FlattenCalls \ {c}, g \in Flattens : OnList(d, g)' = OnList(d, g)
  BY <1>1, <1>6 DEF OnList, Free, Selling
<1>9. /\ flattening'[c].at \in {"idle", "selling"}
      /\ todo # {} => flattening'[c].kind = "execute"
  BY <1>6 DEF Selling, Free
<1>10. /\ DOMAIN progress[f] = Counters /\ DOMAIN counts = Counters
       /\ counts.remaining = Cardinality(todo)
       /\ counts.skipped = Cardinality(DOMAIN built \ todo)
       /\ counts.flattened = progress[f].flattened /\ counts.failed = progress[f].failed
  BY <1>1 DEF ExactInv, FlattenTyped, Counters
<1>11. FlattenTyped'
  <2>1. \A g \in Flattens : DOMAIN tasks'[g] \subseteq Instruments
    BY <1>4 DEF ExactInv, FlattenTyped
  <2>2. \A g \in Flattens : \A i \in DOMAIN tasks'[g] : tasks'[g][i] \in CountedTask
    BY <1>3, <1>4 DEF ExactInv, FlattenTyped
  <2>3. \A d \in FlattenCalls : flattening'[d].at \in {"idle", "querying", "selling", "submitting"}
    BY <1>6, <1>9 DEF ExactInv, FlattenTyped
  <2>4. \A g \in Flattens : Begun(g)' => DOMAIN progress'[g] = Counters
    <3> SUFFICES ASSUME NEW g \in Flattens, Begun(g)'
                 PROVE  DOMAIN progress'[g] = Counters
      OBVIOUS
    <3>1. CASE g = f
      BY <1>4, <1>10, <3>1
    <3>2. CASE g # f
      <4>1. progress'[g] = progress[g] /\ Begun(g)
        BY <1>4, <3>2 DEF Begun
      <4> QED
        BY <4>1 DEF ExactInv, FlattenTyped
    <3> QED
      BY <3>1, <3>2
  <2> QED
    BY <1>1, <2>1, <2>2, <2>3, <2>4 DEF ExactInv, FlattenTyped
<1>12. TriesCounted'
  <2> SUFFICES ASSUME NEW g \in Flattens, NEW i \in DOMAIN tasks'[g]
               PROVE  tasks'[g][i].attempts + Cardinality(StillToTry(g, i)') <= MostTries
    BY DEF TriesCounted, MostTries
  <2>1. StillToTry(g, i)' \subseteq FlattenCalls /\ StillToTry(g, i) \subseteq FlattenCalls
    BY DEF StillToTry, CallsOn
  <2>2. /\ Cardinality(StillToTry(g, i)') \in Nat /\ Cardinality(FlattenCalls) \in Nat
        /\ Cardinality(StillToTry(g, i)) \in Nat
        /\ Cardinality(StillToTry(g, i)') <= Cardinality(FlattenCalls)
    BY <2>1, CallsAreFinite
  <2>3. CASE g = f
    <3>1. tasks'[g][i].attempts = 0
      BY <1>3, <1>4, <2>3
    <3> QED
      BY <2>2, <3>1, FlattenAssumption DEF MostTries
  <2>4. CASE g # f
    <3>1. tasks'[g] = tasks[g] /\ tasks[g][i].attempts \in Nat
      BY <1>4, <2>4 DEF ExactInv, FlattenTyped, CountedTask
    <3>2. StillToTry(g, i)' \subseteq StillToTry(g, i)
      BY <1>6, <1>8, <2>4 DEF StillToTry, CallsOn
    <3>3. tasks[g][i].attempts + Cardinality(StillToTry(g, i)')
            <= tasks[g][i].attempts + Cardinality(StillToTry(g, i))
      BY <2>1, <3>1, <3>2, TriesStay
    <3>4. tasks[g][i].attempts + Cardinality(StillToTry(g, i)) <= MostTries
      BY <3>1 DEF ExactInv, TriesCounted
    <3> QED
      BY <2>2, <3>1, <3>3, <3>4, FlattenAssumption DEF MostTries
  <2> QED
    BY <2>3, <2>4
<1>13. NotShared'
  <2> SUFFICES ASSUME NEW g \in Flattens, NEW i \in Instruments, <<g, i>> \notin shared
               PROVE  OwnedByOne(g, i)'
    BY <1>1 DEF NotShared
  <2>1. OwnedByOne(g, i)
    BY DEF ExactInv, NotShared
  <2>2. CASE g = f
    <3>1. taken[g][i] = 0 /\ taken' = taken
      BY <1>1, <2>1, <2>2 DEF OwnedByOne
    <3>2. \A d \in FlattenCalls : i \in OnList(d, g)' => d = c
      BY <1>7, <1>8, <2>2
    <3>3. i \in OnList(c, g)' => tasks'[g][i].status = "pending" /\ flattening'[c].kind = "execute"
      BY <1>4, <1>5, <1>8, <1>9, <2>2
    <3> QED
      BY <3>1, <3>2, <3>3 DEF OwnedByOne
  <2>3. CASE g # f
    <3>1. i \notin OnList(c, g)' /\ tasks'[g] = tasks[g] /\ taken' = taken
      BY <1>1, <1>4, <1>8, <2>3
    <3> QED
      BY <1>6, <1>8, <2>1, <3>1 DEF OwnedByOne
  <2> QED
    BY <2>2, <2>3
<1>14. CountersTell'
  <2> SUFFICES ASSUME NEW g \in Flattens, progress'[g] # NoProgress,
                      \A i \in Instruments : <<g, i>> \notin shared
               PROVE  /\ progress'[g].flattened = Having(g, "submitted")'
                      /\ progress'[g].failed = Having(g, "failed")'
                      /\ progress'[g].skipped = Having(g, "skipped_t1")'
                      /\ progress'[g].remaining = Having(g, "pending")'
    BY <1>1 DEF CountersTell
  <2>1. CASE g # f
    <3>1. \A status : Having(g, status)' = Having(g, status)
      BY <1>4, <2>1 DEF Having
    <3> QED
      BY <1>4, <2>1, <3>1 DEF ExactInv, CountersTell
  <2>2. CASE g = f
    <3>1. progress[f].flattened = 0 /\ progress[f].failed = 0
      <4>1. progress[f] # NoProgress
        BY <1>1 DEF FlattenInv
      <4>2. Having(f, "submitted") = 0 /\ Having(f, "failed") = 0
        <5>1. \A status : {i \in DOMAIN tasks[f] : tasks[f][i].status = status} = {}
          BY <1>1
        <5> QED
          BY <5>1, FS_EmptySet DEF Having
      <4> QED
        BY <1>1, <2>2, <4>1, <4>2 DEF ExactInv, CountersTell
    <3>2. /\ Having(f, "submitted")' = 0 /\ Having(f, "failed")' = 0
          /\ Having(f, "skipped_t1")' = Cardinality(DOMAIN built \ todo)
          /\ Having(f, "pending")' = Cardinality(todo)
      BY <1>4, <1>5, FS_EmptySet DEF Having
    <3> QED
      BY <1>4, <1>10, <2>2, <3>1, <3>2
  <2> QED
    BY <2>1, <2>2
<1> QED
  BY <1>11, <1>12, <1>13, <1>14 DEF ExactInv

(* The order for a task is handed to the order service: one try more.      *)
LEMMA TryExact ==
    ASSUME FlattenInv, ExactInv, NEW c \in FlattenCalls, NEW f, f = flattening[c].flatten,
           NEW i, i \in flattening[c].todo, flattening[c].at = "selling",
           tasks' = [tasks EXCEPT ![f][i].attempts = @ + 1],
           GoesTo(c, [at |-> "submitting", flatten |-> f, kind |-> flattening[c].kind,
                      todo |-> flattening[c].todo, now |-> i]),
           UNCHANGED <<service, positions, progress, taken, shared>>
    PROVE  ExactInv'
<1>1. /\ DOMAIN tasks = Flattens /\ DOMAIN flattening = FlattenCalls
      /\ f \in Flattens /\ i \in DOMAIN tasks[f]
  BY DEF FlattenInv, ListSound
<1>2. /\ flattening'[c].at = "submitting" /\ flattening'[c].flatten = f
      /\ flattening'[c].kind = flattening[c].kind /\ flattening'[c].todo = flattening[c].todo
      /\ flattening'[c].now = i
      /\ \A d \in FlattenCalls \ {c} : flattening'[d] = flattening[d]
  BY <1>1 DEF GoesTo
<1>3. \A d \in FlattenCalls, g \in Flattens :
          OnList(d, g)' = OnList(d, g) /\ flattening'[d].kind = flattening[d].kind
  BY <1>2 DEF OnList
<1>4. /\ tasks'[f][i] = [tasks[f][i] EXCEPT !.attempts = @ + 1]
      /\ tasks[f][i] \in CountedTask
      /\ \A g \in Flattens : DOMAIN tasks'[g] = DOMAIN tasks[g]
      /\ \A g \in Flattens : \A j \in DOMAIN tasks[g] :
            ~(g = f /\ j = i) => tasks'[g][j] = tasks[g][j]
  BY <1>1 DEF ExactInv, FlattenTyped
<1>5. /\ tasks'[f][i].attempts = tasks[f][i].attempts + 1 /\ tasks'[f][i] \in CountedTask
      /\ tasks'[f][i].status = tasks[f][i].status
  <2> DEFINE attempts == tasks[f][i].attempts + 1
  <2>1. PICK old, one : /\ old = tasks[f][i] /\ one = tasks'[f][i] /\ old \in CountedTask
                        /\ one = [old EXCEPT !.attempts = @ + 1]
    BY <1>4
  <2>2. old.attempts + 1 \in Nat
    BY ONLY <2>1 DEF CountedTask
  <2>3. one \in CountedTask
    BY ONLY <2>1, <2>2 DEF CountedTask
  <2>4. one.attempts = old.attempts + 1 /\ one.status = old.status
    BY ONLY <2>1 DEF CountedTask
  <2> QED
    BY <2>1, <2>3, <2>4
<1>6. \A g \in Flattens : \A j \in DOMAIN tasks[g] :
          tasks'[g][j].status = tasks[g][j].status /\ tasks'[g][j] \in CountedTask
  <2> TAKE g \in Flattens
  <2> TAKE j \in DOMAIN tasks[g]
  <2>1. tasks[g][j] \in CountedTask
    BY DEF ExactInv, FlattenTyped
  <2>2. CASE g = f /\ j = i
    BY <1>5, <2>2
  <2>3. CASE ~(g = f /\ j = i)
    <3>1. tasks'[g][j] = tasks[g][j]
      BY <1>4, <2>3
    <3> QED
      BY <2>1, <3>1
  <2> QED
    BY <2>2, <2>3
<1>7. FlattenTyped'
  BY <1>2, <1>4, <1>6 DEF ExactInv, FlattenTyped, Begun
<1>8. TriesCounted'
  <2> SUFFICES ASSUME NEW g \in Flattens, NEW j \in DOMAIN tasks[g]
               PROVE  tasks'[g][j].attempts + Cardinality(StillToTry(g, j)') <= MostTries
    BY <1>4 DEF TriesCounted, MostTries
  <2>1. StillToTry(g, j)' \subseteq FlattenCalls /\ StillToTry(g, j) \subseteq FlattenCalls
    BY DEF StillToTry, CallsOn
  <2>2. tasks[g][j].attempts \in Nat
    BY DEF ExactInv, FlattenTyped, CountedTask
  <2>3. StillToTry(g, j)' \subseteq StillToTry(g, j)
    BY <1>2, <1>3 DEF StillToTry, CallsOn
  <2>4. \/ tasks'[g][j].attempts = tasks[g][j].attempts
        \/ /\ tasks'[g][j].attempts = tasks[g][j].attempts + 1
           /\ \E d \in StillToTry(g, j) : StillToTry(g, j)' \subseteq StillToTry(g, j) \ {d}
    <3>1. CASE ~(g = f /\ j = i)
      BY <1>4, <3>1
    <3>2. CASE g = f /\ j = i
      <4>1. c \in StillToTry(g, j)
        BY <3>2 DEF StillToTry, CallsOn, OnList
      <4>2. c \notin StillToTry(g, j)'
        BY <1>2, <3>2 DEF StillToTry
      <4> QED
        BY <1>5, <2>3, <3>2, <4>1, <4>2
    <3> QED
      BY <3>1, <3>2
  <2>5. /\ tasks'[g][j].attempts \in Nat
        /\ tasks'[g][j].attempts + Cardinality(StillToTry(g, j)')
             <= tasks[g][j].attempts + Cardinality(StillToTry(g, j))
    BY <2>1, <2>2, <2>3, <2>4, TriesStay
  <2>6. tasks[g][j].attempts + Cardinality(StillToTry(g, j)) <= MostTries
    BY DEF ExactInv, TriesCounted
  <2>7. /\ Cardinality(StillToTry(g, j)') \in Nat /\ Cardinality(StillToTry(g, j)) \in Nat
        /\ Cardinality(FlattenCalls) \in Nat
    BY <2>1, CallsAreFinite
  <2> QED
    BY <2>2, <2>5, <2>6, <2>7, FlattenAssumption DEF MostTries
<1>9. NotShared'
  <2> SUFFICES ASSUME NEW g \in Flattens, NEW j \in Instruments, <<g, j>> \notin shared
               PROVE  OwnedByOne(g, j)'
    BY DEF NotShared
  <2>1. OwnedByOne(g, j)
    BY DEF ExactInv, NotShared
  <2>2. \A d \in FlattenCalls : OnList(d, g) \subseteq DOMAIN tasks[g]
    BY ListsAreTasks
  <2>3. /\ taken'[g][j] = taken[g][j] /\ DOMAIN tasks'[g] = DOMAIN tasks[g]
        /\ j \in DOMAIN tasks[g] => tasks'[g][j].status = tasks[g][j].status
        /\ \A d \in FlattenCalls : j \in OnList(d, g) => j \in DOMAIN tasks[g]
        /\ \A d \in FlattenCalls :
              OnList(d, g)' = OnList(d, g) /\ flattening'[d].kind = flattening[d].kind
    BY <1>3, <1>4, <1>6, <2>2
  <2> QED
    BY <2>1, <2>3 DEF OwnedByOne
<1>10. CountersTell'
  <2>1. \A g \in Flattens : \A status : Having(g, status)' = Having(g, status)
    <3>1. \A g \in Flattens : \A status : {j \in DOMAIN tasks'[g] : tasks'[g][j].status = status}
                                    = {j \in DOMAIN tasks[g] : tasks[g][j].status = status}
      BY <1>4, <1>6
    <3> QED
      BY <3>1 DEF Having
  <2> QED
    BY <2>1 DEF ExactInv, CountersTell
<1> QED
  BY <1>7, <1>8, <1>9, <1>10 DEF ExactInv

(* What the counters do when an order has succeeded or not.                *)
LEMMA CountedCounts ==
    ASSUME NEW p, DOMAIN p = Counters, NEW kind \in {"execute", "retry"}, NEW success \in BOOLEAN
    PROVE  LET q == Counted(p, kind, success)
           IN  /\ DOMAIN q = Counters /\ q.total = p.total /\ q.skipped = p.skipped
               /\ kind = "execute" => q.remaining = p.remaining - 1
               /\ kind = "retry" => q.remaining = p.remaining
               /\ success => q.flattened = p.flattened + 1
               /\ ~success => q.flattened = p.flattened
               /\ kind = "execute" /\ ~success => q.failed = p.failed + 1
               /\ kind = "execute" /\ success => q.failed = p.failed
               /\ kind = "retry" /\ ~success => q.failed = p.failed
               /\ kind = "retry" /\ success => q.failed = p.failed - 1
<1>1. CASE kind = "execute" /\ success
  BY <1>1 DEF Counted, Counters
<1>2. CASE kind = "execute" /\ ~success
  BY <1>2 DEF Counted, Counters
<1>3. CASE kind = "retry" /\ success
  BY <1>3 DEF Counted, Counters
<1>4. CASE kind = "retry" /\ ~success
  BY <1>4 DEF Counted, Counters
<1> QED
  BY <1>1, <1>2, <1>3, <1>4

(* What an outcome is given: how often the task was tried, with which      *)
(* result, and which of the broker's orders and shared tasks it added.     *)
OutcomeGiven(c, f, i, attempts, success, error) ==
    /\ flattening[c].at \in {"selling", "submitting"}
    /\ flattening[c].at = "submitting" => i = flattening[c].now
    /\ attempts = IF flattening[c].at = "selling" THEN tasks[f][i].attempts + 1
                                                  ELSE tasks[f][i].attempts
    /\ error \in {"none", "final_check", "submit"}
    /\ Outcome(c, i, attempts, success, error)
    /\ shared \subseteq shared' /\ shared' \subseteq shared \cup {<<f, i>>}
    /\ DOMAIN taken' = Flattens /\ \A g \in Flattens : DOMAIN taken'[g] = Instruments
    /\ \A g \in Flattens : \A j \in Instruments :
          ~(g = f /\ j = i) => taken'[g][j] = taken[g][j]
    /\ <<f, i>> \notin shared' => \/ taken'[f][i] = taken[f][i]
                                  \/ success /\ taken'[f][i] = taken[f][i] + 1
    /\ UNCHANGED <<service, positions>>

(* The order for a task has succeeded or not; the broker took one more if  *)
(* at all, and none that failed goes unnoticed in shared.                  *)
LEMMA OutcomeExact ==
    ASSUME FlattenInv, ExactInv, NEW c \in FlattenCalls, NEW f, f = flattening[c].flatten,
           NEW i, i \in flattening[c].todo, NEW attempts, NEW success \in BOOLEAN, NEW error,
           OutcomeGiven(c, f, i, attempts, success, error)
    PROVE  ExactInv'
<1> DEFINE kind == flattening[c].kind
           status == IF success THEN "submitted" ELSE "failed"
           counts == Counted(progress[f], kind, success)
           rest == flattening[c].todo \ {i}
<1>1. /\ DOMAIN tasks = Flattens /\ DOMAIN flattening = FlattenCalls /\ DOMAIN progress = Flattens
      /\ f \in Flattens /\ i \in DOMAIN tasks[f] /\ kind \in {"execute", "retry"}
      /\ Begun(f) /\ progress[f] # NoProgress
  BY DEF FlattenInv, ListSound, OutcomeGiven
<1>1a. /\ attempts = IF flattening[c].at = "selling" THEN tasks[f][i].attempts + 1
                                                     ELSE tasks[f][i].attempts
       /\ flattening[c].at \in {"selling", "submitting"}
       /\ flattening[c].at = "submitting" => i = flattening[c].now
       /\ error \in {"none", "final_check", "submit"}
  BY DEF OutcomeGiven
<1>1b. /\ shared \subseteq shared' /\ shared' \subseteq shared \cup {<<f, i>>}
       /\ DOMAIN taken' = Flattens /\ \A g \in Flattens : DOMAIN taken'[g] = Instruments
       /\ \A g \in Flattens : \A j \in Instruments :
             ~(g = f /\ j = i) => taken'[g][j] = taken[g][j]
       /\ <<f, i>> \notin shared' => \/ taken'[f][i] = taken[f][i]
                                     \/ success /\ taken'[f][i] = taken[f][i] + 1
       /\ UNCHANGED <<service, positions>>
  BY DEF OutcomeGiven
<1>2. /\ tasks' = [tasks EXCEPT ![f][i] = [@ EXCEPT !.attempts = attempts, !.error = error,
                                                    !.status = status]]
      /\ progress' = [progress EXCEPT ![f] = counts]
      /\ flattening' = [flattening EXCEPT ![c] = Selling(f, kind, rest)]
  BY DEF Outcome, GoesTo, OutcomeGiven
<1>3. status \in {"submitted", "failed"} /\ (status = "submitted" <=> success)
  OBVIOUS
<1> HIDE DEF status, counts, rest
<1>4. /\ flattening'[c] = Selling(f, kind, rest)
      /\ \A d \in FlattenCalls \ {c} : flattening'[d] = flattening[d]
  BY <1>1, <1>2
<1>5. /\ OnList(c, f) = flattening[c].todo /\ OnList(c, f)' = OnList(c, f) \ {i}
      /\ \A g \in Flattens \ {f} : OnList(c, g) = {} /\ OnList(c, g)' = {}
      /\ \A d \in FlattenCalls \ {c}, g \in Flattens : OnList(d, g)' = OnList(d, g)
  BY <1>4, <1>1a DEF OnList, Free, Selling, rest
<1>6. /\ flattening'[c].at \in {"idle", "selling"}
      /\ \A g \in Flattens : \A j : j \in OnList(c, g)' => flattening'[c].kind = kind
  BY <1>4 DEF Selling, Free, OnList
<1>7. /\ \A g \in Flattens : DOMAIN tasks'[g] = DOMAIN tasks[g]
      /\ \A g \in Flattens : \A j \in DOMAIN tasks[g] :
            ~(g = f /\ j = i) => tasks'[g][j] = tasks[g][j]
  BY <1>1, <1>2
<1>7a. /\ tasks'[f][i] = [tasks[f][i] EXCEPT !.attempts = attempts, !.error = error,
                                             !.status = status]
       /\ i \in Instruments /\ tasks[f][i] \in CountedTask
  BY <1>1, <1>2 DEF ExactInv, FlattenTyped
<1>8. attempts \in Nat
  <2>1. tasks[f][i].attempts \in Nat
    BY <1>7a DEF CountedTask
  <2>2. tasks[f][i].attempts + 1 \in Nat
    BY <2>1
  <2> QED
    BY <1>1a, <2>1, <2>2
<1>9. /\ tasks'[f][i].attempts = attempts /\ tasks'[f][i] \in CountedTask
      /\ tasks'[f][i].status = status
  BY <1>3, <1>7a, <1>1a, <1>8 DEF CountedTask
<1>10. /\ progress'[f] = counts /\ DOMAIN counts = Counters
       /\ \A g \in Flattens \ {f} : progress'[g] = progress[g]
  BY <1>1, <1>2, CountedCounts DEF ExactInv, FlattenTyped, counts
<1>11. FlattenTyped'
  <2>1. \A d \in FlattenCalls : flattening'[d].at \in {"idle", "querying", "selling", "submitting"}
    BY <1>4, <1>6 DEF ExactInv, FlattenTyped
  <2>2. \A g \in Flattens : \A j \in DOMAIN tasks'[g] : tasks'[g][j] \in CountedTask
    <3> SUFFICES ASSUME NEW g \in Flattens, NEW j \in DOMAIN tasks[g]
                 PROVE  tasks'[g][j] \in CountedTask
      BY <1>7
    <3>1. tasks[g][j] \in CountedTask
      BY DEF ExactInv, FlattenTyped
    <3>2. CASE g = f /\ j = i
      BY <1>9, <3>2
    <3>3. CASE ~(g = f /\ j = i)
      <4>1. \A x \in Flattens : \A y \in DOMAIN tasks[x] :
                ~(x = f /\ y = i) => tasks'[x][y] = tasks[x][y]
        BY <1>7
      <4>2. tasks'[g][j] = tasks[g][j]
        BY <3>3, <4>1
      <4> QED
        BY <3>1, <4>2
    <3> QED
      BY <3>2, <3>3
  <2>3. \A g \in Flattens : Begun(g)' => DOMAIN progress'[g] = Counters
    BY <1>10 DEF ExactInv, FlattenTyped, Begun
  <2>4. shared' \subseteq Flattens \X Instruments
    BY <1>1, <1>7a, <1>1b DEF ExactInv, FlattenTyped
  <2> QED
    BY <1>1, <1>2, <1>4, <1>7, <1>1b, <1>10, <2>1, <2>2, <2>3, <2>4 DEF ExactInv, FlattenTyped
<1>12. TriesCounted'
  <2> SUFFICES ASSUME NEW g \in Flattens, NEW j \in DOMAIN tasks[g]
               PROVE  tasks'[g][j].attempts + Cardinality(StillToTry(g, j)') <= MostTries
    BY <1>7 DEF TriesCounted, MostTries
  <2>1. StillToTry(g, j)' \subseteq FlattenCalls /\ StillToTry(g, j) \subseteq FlattenCalls
    BY DEF StillToTry, CallsOn
  <2>2. tasks[g][j].attempts \in Nat
    BY DEF ExactInv, FlattenTyped, CountedTask
  <2>3. StillToTry(g, j)' \subseteq StillToTry(g, j)
    <3> SUFFICES ASSUME NEW d \in StillToTry(g, j)'
                 PROVE  d \in StillToTry(g, j)
      OBVIOUS
    <3>1. CASE d # c
      BY <1>4, <1>5, <3>1 DEF StillToTry, CallsOn
    <3>2. CASE d = c
      <4>1. j \in OnList(c, g)'
        BY <3>2 DEF StillToTry, CallsOn
      <4>2. g = f /\ j # i /\ j \in OnList(c, g)
        BY <1>5, <4>1
      <4> QED
        BY <1>1a, <3>2, <4>2 DEF StillToTry, CallsOn
    <3> QED
      BY <3>1, <3>2
  <2>4. \/ tasks'[g][j].attempts = tasks[g][j].attempts
        \/ /\ tasks'[g][j].attempts = tasks[g][j].attempts + 1
           /\ \E d \in StillToTry(g, j) : StillToTry(g, j)' \subseteq StillToTry(g, j) \ {d}
    <3>1. CASE ~(g = f /\ j = i)
      BY <1>7, <3>1
    <3>2. CASE g = f /\ j = i /\ flattening[c].at = "submitting"
      <4>1. attempts = tasks[f][i].attempts
        BY <1>1a, <3>2
      <4> QED
        BY <1>9, <3>2, <4>1
    <3>3. CASE g = f /\ j = i /\ flattening[c].at = "selling"
      <4>1. c \in StillToTry(g, j)
        BY <1>5, <3>3 DEF StillToTry, CallsOn
      <4>2. c \notin StillToTry(g, j)'
        BY <1>5, <3>3 DEF StillToTry, CallsOn
      <4>3. attempts = tasks[f][i].attempts + 1
        BY <1>1a, <3>3
      <4> QED
        BY <1>9, <2>3, <3>3, <4>1, <4>2, <4>3
    <3> QED
      BY <1>1a, <3>1, <3>2, <3>3
  <2>5. /\ tasks'[g][j].attempts \in Nat
        /\ tasks'[g][j].attempts + Cardinality(StillToTry(g, j)')
             <= tasks[g][j].attempts + Cardinality(StillToTry(g, j))
    BY <2>1, <2>2, <2>3, <2>4, TriesStay
  <2>6. tasks[g][j].attempts + Cardinality(StillToTry(g, j)) <= MostTries
    BY DEF ExactInv, TriesCounted
  <2>7. /\ Cardinality(StillToTry(g, j)') \in Nat /\ Cardinality(StillToTry(g, j)) \in Nat
        /\ Cardinality(FlattenCalls) \in Nat
    BY <2>1, CallsAreFinite
  <2> QED
    BY <2>2, <2>5, <2>6, <2>7, FlattenAssumption DEF MostTries
<1>13. NotShared'
  <2> SUFFICES ASSUME NEW g \in Flattens, NEW j \in Instruments, <<g, j>> \notin shared'
               PROVE  OwnedByOne(g, j)'
    BY DEF NotShared
  <2>1. OwnedByOne(g, j)
    BY <1>1b DEF ExactInv, NotShared
  <2>2. \A d \in FlattenCalls : OnList(d, g) \subseteq DOMAIN tasks[g]
    BY ListsAreTasks
  <2>3. CASE ~(g = f /\ j = i)
    <3>1. taken'[g][j] = taken[g][j]
      BY <1>1b, <2>3
    <3>2. j \in DOMAIN tasks[g] => tasks'[g][j] = tasks[g][j]
      BY <1>7, <2>3
    <3>3. \A d \in FlattenCalls : j \in OnList(d, g)' =>
              j \in OnList(d, g) /\ flattening'[d].kind = flattening[d].kind
      BY <1>4, <1>5, <1>6
    <3>4. DOMAIN tasks'[g] = DOMAIN tasks[g]
      BY <1>7
    <3>5. taken[g][j] = 1 => j \in DOMAIN tasks[g] /\ tasks[g][j].status = "submitted"
      BY <2>1 DEF OwnedByOne
    <3>6. taken'[g][j] \in {0, 1}
          /\ (taken'[g][j] = 1 => j \in DOMAIN tasks'[g] /\ tasks'[g][j].status = "submitted")
      <4>1. taken[g][j] \in {0, 1}
        BY <2>1 DEF OwnedByOne
      <4> QED
        BY <3>1, <3>2, <3>4, <3>5, <4>1
    <3>7. ASSUME NEW d \in FlattenCalls, j \in OnList(d, g)'
          PROVE  tasks'[g][j].status = IF flattening'[d].kind = "execute" THEN "pending" ELSE "failed"
      <4>1. j \in OnList(d, g) /\ flattening'[d].kind = flattening[d].kind
        BY <3>3, <3>7
      <4>2. tasks[g][j].status = IF flattening[d].kind = "execute" THEN "pending" ELSE "failed"
        BY <2>1, <4>1 DEF OwnedByOne
      <4>3. tasks'[g][j] = tasks[g][j]
        BY <2>2, <3>2, <4>1
      <4> QED
        BY <4>1, <4>2, <4>3
    <3>8. ASSUME NEW d \in FlattenCalls, NEW e \in FlattenCalls,
                 j \in OnList(d, g)', j \in OnList(e, g)'
          PROVE  d = e
      BY <2>1, <3>3, <3>8 DEF OwnedByOne
    <3> QED
      BY <3>6, <3>7, <3>8 DEF OwnedByOne
  <2>4. CASE g = f /\ j = i
    <3>1. \A d \in FlattenCalls : i \in OnList(d, f) => d = c
      BY <1>5, <2>1, <2>4 DEF OwnedByOne
    <3>2. \A d \in FlattenCalls : i \notin OnList(d, f)'
      <4>1. i \notin OnList(c, f)'
        BY <1>5
      <4>2. ASSUME NEW d \in FlattenCalls \ {c} PROVE i \notin OnList(d, f)'
        BY <1>1, <1>5, <3>1, <4>2
      <4> QED
        BY <4>1, <4>2
    <3>3. taken[f][i] = 0
      BY <1>1, <1>5, <2>1, <2>4 DEF OwnedByOne
    <3>4. taken'[f][i] \in {0, 1} /\ (taken'[f][i] = 1 => success)
      BY <1>1b, <2>4, <3>3
    <3> QED
      BY <1>1, <1>3, <1>7, <1>9, <2>4, <3>2, <3>4 DEF OwnedByOne
  <2> QED
    BY <2>3, <2>4
<1>14. CountersTell'
  <2> SUFFICES ASSUME NEW g \in Flattens, progress'[g] # NoProgress,
                      \A j \in Instruments : <<g, j>> \notin shared'
               PROVE  /\ progress'[g].flattened = Having(g, "submitted")'
                      /\ progress'[g].failed = Having(g, "failed")'
                      /\ progress'[g].skipped = Having(g, "skipped_t1")'
                      /\ progress'[g].remaining = Having(g, "pending")'
    BY DEF CountersTell
  <2>1. CASE g # f
    <3>1. tasks'[g] = tasks[g]
      BY <1>1, <1>2, <2>1
    <3>2. \A any : Having(g, any)' = Having(g, any)
      BY <3>1 DEF Having
    <3> QED
      BY <1>1b, <1>10, <2>1, <3>2 DEF ExactInv, CountersTell
  <2>2. CASE g = f
    <3>1. \A j \in Instruments : <<f, j>> \notin shared
      BY <1>1b, <2>2
    <3>2. /\ progress[f].flattened = Having(f, "submitted")
          /\ progress[f].failed = Having(f, "failed")
          /\ progress[f].skipped = Having(f, "skipped_t1")
          /\ progress[f].remaining = Having(f, "pending")
      BY <1>1, <3>1 DEF ExactInv, CountersTell
    <3>3. tasks[f][i].status = IF kind = "execute" THEN "pending" ELSE "failed"
      <4>1. OwnedByOne(f, i)
        BY <1>1, <1>7a, <3>1 DEF ExactInv, NotShared
      <4> QED
        BY <1>5, <4>1 DEF OwnedByOne
    <3>4. IsFiniteSet(DOMAIN tasks[f])
      BY <1>1, FlattenAssumption, FS_Subset DEF ExactInv, FlattenTyped
    <3>5. \A any : /\ Having(f, any) \in Nat
                   /\ tasks[f][i].status = any /\ status # any
                        => Having(f, any)' = Having(f, any) - 1
                   /\ tasks[f][i].status # any /\ status = any
                        => Having(f, any)' = Having(f, any) + 1
                   /\ (tasks[f][i].status = any <=> status = any)
                        => Having(f, any)' = Having(f, any)
      <4> SUFFICES ASSUME NEW any
                   PROVE  /\ Having(f, any) \in Nat
                          /\ tasks[f][i].status = any /\ status # any
                               => Having(f, any)' = Having(f, any) - 1
                          /\ tasks[f][i].status # any /\ status = any
                               => Having(f, any)' = Having(f, any) + 1
                          /\ (tasks[f][i].status = any <=> status = any)
                               => Having(f, any)' = Having(f, any)
        OBVIOUS
      <4>1. DOMAIN tasks'[f] = DOMAIN tasks[f]
            /\ \A j \in DOMAIN tasks[f] \ {i} : tasks'[f][j].status = tasks[f][j].status
        <5>1. DOMAIN tasks'[f] = DOMAIN tasks[f]
          BY <1>1, <1>7
        <5>2. ASSUME NEW j \in DOMAIN tasks[f] \ {i} PROVE tasks'[f][j].status = tasks[f][j].status
          <6>1. tasks'[f][j] = tasks[f][j]
            BY <1>1, <1>7, <5>2
          <6> QED
            BY <6>1
        <5> QED
          BY <5>1, <5>2
      <4> DEFINE list == tasks[f]
                 list2 == tasks'[f]
      <4>2. /\ IsFiniteSet(DOMAIN list) /\ DOMAIN list2 = DOMAIN list /\ i \in DOMAIN list
            /\ \A j \in DOMAIN list \ {i} : list2[j].status = list[j].status
        BY <1>1, <3>4, <4>1
      <4>3. list2[i].status = status
        BY <1>9
      <4>4. /\ Having(f, any) = Cardinality(WithStatus(list, any))
            /\ Having(f, any)' = Cardinality(WithStatus(list2, any))
        BY DEF Having, WithStatus
      <4>5. list[i].status = tasks[f][i].status
        OBVIOUS
      <4> HIDE DEF list, list2
      <4> QED
        BY <4>2, <4>3, <4>4, <4>5, StatusCount
    <3>6. DOMAIN progress[f] = Counters
      BY <1>1 DEF ExactInv, FlattenTyped
    <3>7. /\ counts.skipped = progress[f].skipped
          /\ kind = "execute" => counts.remaining = progress[f].remaining - 1
          /\ kind = "retry" => counts.remaining = progress[f].remaining
          /\ success => counts.flattened = progress[f].flattened + 1
          /\ ~success => counts.flattened = progress[f].flattened
          /\ kind = "execute" /\ ~success => counts.failed = progress[f].failed + 1
          /\ kind = "execute" /\ success => counts.failed = progress[f].failed
          /\ kind = "retry" /\ ~success => counts.failed = progress[f].failed
          /\ kind = "retry" /\ success => counts.failed = progress[f].failed - 1
      BY <1>1, <3>6, CountedCounts DEF counts
    <3>8. /\ Having(f, "skipped_t1")' = Having(f, "skipped_t1")
          /\ Having(f, "pending")' = IF kind = "execute" THEN Having(f, "pending") - 1
                                                         ELSE Having(f, "pending")
          /\ Having(f, "submitted")' = IF success THEN Having(f, "submitted") + 1
                                                  ELSE Having(f, "submitted")
      BY <1>1, <1>3, <3>3, <3>5
    <3>9. /\ kind = "execute" /\ ~success => Having(f, "failed")' = Having(f, "failed") + 1
          /\ kind = "execute" /\ success => Having(f, "failed")' = Having(f, "failed")
          /\ kind = "retry" /\ ~success => Having(f, "failed")' = Having(f, "failed")
          /\ kind = "retry" /\ success => Having(f, "failed")' = Having(f, "failed") - 1
      BY <1>1, <1>3, <3>3, <3>5
    <3> QED
      BY <1>1, <1>10, <2>2, <3>2, <3>7, <3>8, <3>9
  <2> QED
    BY <2>1, <2>2
<1> QED
  BY <1>11, <1>12, <1>13, <1>14 DEF ExactInv

LEMMA ExactInvNext == FlattenInv /\ ExactInv /\ [FlattenNext]_flattenVars => ExactInv'
<1> SUFFICES ASSUME FlattenInv, ExactInv, [FlattenNext]_flattenVars
             PROVE  ExactInv'
  OBVIOUS
<1>1. ASSUME NEW c \in FlattenCalls, NEW i \in Instruments, SellNext(c, i)
      PROVE  ExactInv'
  <2> DEFINE f == flattening[c].flatten
  <2>1. /\ f \in Flattens /\ flattening[c].at = "selling" /\ i \in flattening[c].todo
        /\ i \in DOMAIN tasks[f] /\ tasks[f][i].sellable > 0 /\ SellsItsShares(tasks[f][i])
        /\ UNCHANGED <<service, positions, taken, shared>>
    BY <1>1 DEF SellNext, FlattenInv, ListSound, TasksSound
  <2>2. Execute(FlattenContext(tasks[f][i])) = "allow"
    BY <2>1, FlattenIsAllowed
  <2>3. CASE ~service.orders
    <3>1. Outcome(c, i, tasks[f][i].attempts + 1, TRUE, tasks[f][i].error)
      BY <1>1, <2>2, <2>3 DEF SellNext
    <3>2. tasks[f][i].error \in {"none", "final_check", "submit"}
      BY <2>1 DEF ExactInv, FlattenTyped, CountedTask
    <3>3. OutcomeGiven(c, f, i, tasks[f][i].attempts + 1, TRUE, tasks[f][i].error)
      BY <2>1, <3>1, <3>2 DEF OutcomeGiven, ExactInv, FlattenTyped
    <3> QED
      BY <2>1, <3>3, OutcomeExact
  <2>4. CASE service.orders
    <3>1. /\ tasks' = [tasks EXCEPT ![f][i].attempts = @ + 1] /\ UNCHANGED progress
          /\ GoesTo(c, [at |-> "submitting", flatten |-> f, kind |-> flattening[c].kind,
                        todo |-> flattening[c].todo, now |-> i])
      BY <1>1, <2>2, <2>4 DEF SellNext
    <3> QED
      BY <2>1, <3>1, TryExact
  <2> QED
    BY <2>3, <2>4
<1>2. ASSUME NEW c \in FlattenCalls, NEW got \in BOOLEAN, NEW raises \in BOOLEAN,
             SubmitAnswers(c, got, raises)
      PROVE  ExactInv'
  <2> SUFFICES ASSUME NEW f, f = flattening[c].flatten, NEW i, i = flattening[c].now
               PROVE  ExactInv'
    OBVIOUS
  <2>1. /\ flattening[c].at = "submitting" /\ i \in flattening[c].todo /\ f \in Flattens
        /\ i \in DOMAIN tasks[f] /\ i \in Instruments /\ UNCHANGED <<service, positions>>
        /\ tasks[f][i].error \in {"none", "final_check", "submit"}
    BY <1>2 DEF SubmitAnswers, FlattenInv, ListSound, ExactInv, FlattenTyped, CountedTask
  <2>2. /\ got \/ raises
        /\ taken' = IF got THEN [taken EXCEPT ![f][i] = @ + 1] ELSE taken
        /\ shared' = IF got /\ raises THEN shared \cup {<<f, i>>} ELSE shared
    BY <1>2 DEF SubmitAnswers
  <2>3. /\ DOMAIN taken' = Flattens /\ \A g \in Flattens : DOMAIN taken'[g] = Instruments
        /\ \A g \in Flattens : \A j \in Instruments :
              ~(g = f /\ j = i) => taken'[g][j] = taken[g][j]
        /\ taken'[f][i] = IF got THEN taken[f][i] + 1 ELSE taken[f][i]
    BY <2>1, <2>2 DEF ExactInv, FlattenTyped
  <2>4. shared \subseteq shared' /\ shared' \subseteq shared \cup {<<f, i>>}
    BY <2>2
  <2>5. CASE raises
    <3>1. Outcome(c, i, tasks[f][i].attempts, FALSE, "submit")
      BY <1>2, <2>5 DEF SubmitAnswers
    <3>2. <<f, i>> \notin shared' => taken'[f][i] = taken[f][i]
      BY <2>2, <2>3, <2>5
    <3> DEFINE attempts == tasks[f][i].attempts
               success == FALSE
               error == "submit"
    <3>3. /\ attempts = IF flattening[c].at = "selling" THEN tasks[f][i].attempts + 1
                                                        ELSE tasks[f][i].attempts
          /\ error \in {"none", "final_check", "submit"} /\ success \in BOOLEAN
          /\ Outcome(c, i, attempts, success, error)
      BY <2>1, <3>1
    <3>4. <<f, i>> \notin shared' => \/ taken'[f][i] = taken[f][i]
                                     \/ success /\ taken'[f][i] = taken[f][i] + 1
      BY <3>2
    <3> HIDE DEF attempts, success, error
    <3>5. OutcomeGiven(c, f, i, attempts, success, error)
      BY <2>1, <2>3, <2>4, <3>3, <3>4 DEF OutcomeGiven
    <3> QED
      BY <2>1, <3>3, <3>5, OutcomeExact
  <2>6. CASE ~raises
    <3>1. Outcome(c, i, tasks[f][i].attempts, TRUE, tasks[f][i].error)
      BY <1>2, <2>6 DEF SubmitAnswers
    <3> DEFINE attempts == tasks[f][i].attempts
               success == TRUE
               error == tasks[f][i].error
    <3>3. /\ attempts = IF flattening[c].at = "selling" THEN tasks[f][i].attempts + 1
                                                        ELSE tasks[f][i].attempts
          /\ error \in {"none", "final_check", "submit"} /\ success \in BOOLEAN
          /\ Outcome(c, i, attempts, success, error)
      BY <2>1, <3>1
    <3>2. <<f, i>> \notin shared' => \/ taken'[f][i] = taken[f][i]
                                     \/ success /\ taken'[f][i] = taken[f][i] + 1
      BY <2>2, <2>3, <2>6
    <3> HIDE DEF attempts, success, error
    <3>4. OutcomeGiven(c, f, i, attempts, success, error)
      BY <2>1, <2>3, <2>4, <3>2, <3>3 DEF OutcomeGiven
    <3> QED
      BY <2>1, <3>3, <3>4, OutcomeExact
  <2> QED
    BY <2>5, <2>6
<1>3. CASE UNCHANGED flattenVars
  <2>1. \A g \in Flattens : \A i : StillToTry(g, i)' = StillToTry(g, i)
    BY <1>3 DEF flattenVars, StillToTry, CallsOn, OnList
  <2>2. \A g \in Flattens, d \in FlattenCalls : OnList(d, g)' = OnList(d, g)
    BY <1>3 DEF flattenVars, OnList
  <2>3. \A g \in Flattens : \A any : Having(g, any)' = Having(g, any)
    BY <1>3 DEF flattenVars, Having
  <2>4. FlattenTyped' /\ CountersTell'
    BY <1>3, <2>3 DEF flattenVars, ExactInv, FlattenTyped, Begun, CountersTell
  <2>5. TriesCounted'
    BY <1>3, <2>1 DEF flattenVars, ExactInv, TriesCounted, MostTries
  <2>6. NotShared'
    BY <1>3, <2>2 DEF flattenVars, ExactInv, NotShared, OwnedByOne
  <2> QED
    BY <2>4, <2>5, <2>6 DEF ExactInv
<1> QED
  BY <1>1, <1>2, <1>3, ExecuteExact, RetryExact, BuildExact DEF FlattenNext

LEMMA FlattenInvariants == FlattenSpec => [](FlattenInv /\ ExactInv)
BY FlattenInvInit, FlattenInvNext, ExactInvInit, ExactInvNext, PTL DEF FlattenSpec

(* Whatever calls overlap, the fields of a task and the calls keep their   *)
(* types; a task is tried no more often than max_retries, plus once for    *)
(* each other call that had it on its list.                                *)
THEOREM FlattenTypeCorrect == FlattenSpec => []FlattenTypeOK
<1>1. ExactInv => FlattenTypeOK
  <2> SUFFICES ASSUME ExactInv, NEW f \in Flattens, NEW i \in DOMAIN tasks[f]
               PROVE  tasks[f][i] \in Task
    BY DEF ExactInv, FlattenTyped, FlattenTypeOK
  <2>1. tasks[f][i] \in CountedTask
    BY DEF ExactInv, FlattenTyped
  <2>2. tasks[f][i].attempts + Cardinality(StillToTry(f, i)) <= MostTries
    BY DEF ExactInv, TriesCounted
  <2>3. Cardinality(StillToTry(f, i)) \in Nat /\ Cardinality(FlattenCalls) \in Nat
    BY CallsAreFinite DEF StillToTry, CallsOn
  <2>4. tasks[f][i].attempts \in 0..(MaxRetries + Cardinality(FlattenCalls) - 1)
    BY <2>1, <2>2, <2>3, FlattenAssumption DEF CountedTask, MostTries
  <2> QED
    BY <2>1, <2>4 DEF CountedTask, Task
<1> QED
  BY <1>1, FlattenInvariants, PTL

(* A flatten sells a position once and its counters tell the tasks, for    *)
(* any number of overlapping calls, of positions and of retries: the       *)
(* exceptions are the tasks that two calls had on their lists at once, and *)
(* those whose order the order service took before it failed.              *)
THEOREM FlattenStaysExact == FlattenSpec => []FlattenIsExact
<1>1. ExactInv => FlattenIsExact
  BY DEF ExactInv, NotShared, OwnedByOne, FlattenIsExact, SoldOnce
<1> QED
  BY <1>1, FlattenInvariants, PTL

-----------------------------------------------------------------------------
(* The governance of agents.                                               *)
(*                                                                         *)
(* Nothing that needs review in Live is executed without a human, although *)
(* copies of rows that others have changed since are written back whole:   *)
(* the invariant speaks of every copy of a proposal, the row's and those   *)
(* in the hands of callers: its environment and type are the row's, and    *)
(* when it needs review in Live it is not approved unless a human did it.  *)
NeedsHuman(row) == row.env = "live" /\ NeedsReview("live", row.type)

SoundRow(row, approved) ==
    /\ {"status", "env", "type", "policy", "approval"} \subseteq DOMAIN row
    /\ NeedsHuman(row) /\ ~approved => row.status # "approved"

SoundCopy(p, copy, rows, yes) ==
    /\ p \in DOMAIN rows
    /\ copy.env = rows[p].env /\ copy.type = rows[p].type
    /\ SoundRow(copy, p \in yes)

MayExecute(p, rows, yes) == p \in DOMAIN rows /\ (NeedsHuman(rows[p]) => p \in yes)

(* What a call knows of the rows, of the requests and of the approvals     *)
(* given so far.                                                           *)
SoundCall(k, rows, requests, yes) ==
    /\ k.at \in {"enter", "evaluate", "request", "link"} =>
          k.p \in DOMAIN rows /\ k.env = rows[k.p].env
    /\ k.at = "enter" => k.method \in Methods
    /\ k.at \in {"evaluate", "request", "link", "settle", "execute"} =>
          SoundCopy(k.p, k.copy, rows, yes)
    /\ k.at = "link" => k.id \in DOMAIN requests /\ requests[k.id].p = k.p
    /\ k.at \in {"read", "decide"} => k.id \in DOMAIN requests
    /\ k.at = "read" => rows[requests[k.id].p].env # "live" /\ k.pipeline
    /\ k.at = "decide" /\ k.pipeline => rows[requests[k.id].p].env # "live"
    /\ k.at = "decided" => k.p \in DOMAIN rows
    /\ k.at \in {"decided", "settle"} /\ k.decision = "approved" => MayExecute(k.p, rows, yes)
    /\ k.at \in {"execute", "run"} => MayExecute(k.p, rows, yes)

GovInv ==
    /\ calls = [c \in AgentCallers |-> calls[c]]
    /\ \A p \in DOMAIN props : SoundRow(props[p], p \in granted)
    /\ \A a \in DOMAIN approvals : approvals[a].p \in DOMAIN props /\ "p" \in DOMAIN approvals[a]
    /\ \A e \in DOMAIN execs : MayExecute(execs[e].p, props, granted) /\ "p" \in DOMAIN execs[e]
    /\ \A c \in AgentCallers : SoundCall(calls[c], props, approvals, granted)

-----------------------------------------------------------------------------

(* No row goes, or changes its environment or type, no request goes, or    *)
(* changes its proposal, and an approval is never taken back.              *)
Grows ==
    /\ \A p \in DOMAIN props : /\ p \in DOMAIN props'
                               /\ props'[p].env = props[p].env /\ props'[p].type = props[p].type
    /\ \A a \in DOMAIN approvals : a \in DOMAIN approvals' /\ approvals'[a].p = approvals[a].p
    /\ granted \subseteq granted'

LEMMA CopyStaysSound ==
    ASSUME Grows, NEW p, NEW copy, SoundCopy(p, copy, props, granted)
    PROVE  SoundCopy(p, copy, props', granted')
BY DEF Grows, SoundCopy, SoundRow

LEMMA StillMayExecute ==
    ASSUME Grows, NEW p, MayExecute(p, props, granted)
    PROVE  MayExecute(p, props', granted')
BY DEF Grows, MayExecute, NeedsHuman

LEMMA CallStaysSound ==
    ASSUME Grows, \A a \in DOMAIN approvals : approvals[a].p \in DOMAIN props,
           NEW k, SoundCall(k, props, approvals, granted)
    PROVE  SoundCall(k, props', approvals', granted')
BY CopyStaysSound, StillMayExecute DEF SoundCall, Grows

(* A step in which the rows grow, and one call goes on to a sound state.   *)
LEMMA GoingOnKeepsInv ==
    ASSUME GovInv, Grows, NEW c \in AgentCallers, NEW k, Goes(c, k),
           SoundCall(k, props', approvals', granted'),
           \A p \in DOMAIN props' : SoundRow(props'[p], p \in granted'),
           \A a \in DOMAIN approvals' :
               approvals'[a].p \in DOMAIN props' /\ "p" \in DOMAIN approvals'[a],
           \A e \in DOMAIN execs' :
               MayExecute(execs'[e].p, props', granted') /\ "p" \in DOMAIN execs'[e]
    PROVE  GovInv'
<1>1. \A d \in AgentCallers : SoundCall(calls[d], props', approvals', granted')
  BY CallStaysSound DEF GovInv
<1>2. DOMAIN calls' = AgentCallers /\ calls'[c] = k
      /\ \A d \in AgentCallers \ {c} : calls'[d] = calls[d]
  BY DEF Goes, GovInv
<1>3. \A d \in AgentCallers : SoundCall(calls'[d], props', approvals', granted')
  BY <1>1, <1>2
<1>4. calls' = [d \in AgentCallers |-> calls'[d]]
  BY DEF Goes, GovInv
<1> QED
  BY <1>3, <1>4 DEF GovInv

(* A step that changes nothing but its call.                               *)
LEMMA MovingKeepsInv ==
    ASSUME GovInv, NEW c \in AgentCallers, NEW k, Goes(c, k),
           UNCHANGED <<props, approvals, execs, granted>>,
           SoundCall(k, props, approvals, granted)
    PROVE  GovInv'
<1>1. Grows
  BY DEF Grows
<1> QED
  BY <1>1, GoingOnKeepsInv DEF GovInv

(* A step that writes a sound copy back.                                   *)
LEMMA WritingKeepsInv ==
    ASSUME GovInv, NEW c \in AgentCallers, NEW k, Goes(c, k), NEW p, NEW copy,
           SoundCopy(p, copy, props, granted), props' = [props EXCEPT ![p] = copy],
           UNCHANGED <<approvals, execs, granted>>,
           SoundCall(k, props', approvals, granted)
    PROVE  GovInv'
<1>1. p \in DOMAIN props /\ DOMAIN props' = DOMAIN props /\ props'[p] = copy
      /\ \A q \in DOMAIN props \ {p} : props'[q] = props[q]
  BY DEF SoundCopy
<1>2. Grows
  BY <1>1 DEF Grows, SoundCopy
<1>3. \A q \in DOMAIN props' : SoundRow(props'[q], q \in granted')
  BY <1>1 DEF GovInv, SoundCopy
<1>4. \A e \in DOMAIN execs : MayExecute(execs[e].p, props', granted')
  BY <1>2, StillMayExecute DEF GovInv
<1> QED
  BY <1>1, <1>2, <1>3, <1>4, GoingOnKeepsInv DEF GovInv

LEMMA GovInvInit == GovInit => GovInv
BY DEF GovInit, GovInv, SoundCall, NotCalling

LEMMA NotCallingIsSound ==
    ASSUME NEW rows, NEW requests, NEW yes
    PROVE  SoundCall(NotCalling, rows, requests, yes)
BY DEF SoundCall, NotCalling

(* A new row changes none of the others.                                   *)
LEMMA NewRow ==
    ASSUME GovInv, NEW p, NEW env, NEW type, NewTask(p, env, type),
           UNCHANGED <<approvals, execs, granted>>
    PROVE  /\ Grows /\ p \in DOMAIN props' /\ props'[p].env = env
           /\ \A q \in DOMAIN props' : SoundRow(props'[q], q \in granted')
           /\ \A a \in DOMAIN approvals' :
                 approvals'[a].p \in DOMAIN props' /\ "p" \in DOMAIN approvals'[a]
           /\ \A e \in DOMAIN execs' :
                 MayExecute(execs'[e].p, props', granted') /\ "p" \in DOMAIN execs'[e]
<1> DEFINE row == [status |-> "drafted", env |-> env, type |-> type, policy |-> "",
                   approval |-> NoApproval]
<1>1. /\ p \notin DOMAIN props /\ DOMAIN props' = DOMAIN props \cup {p} /\ props'[p] = row
      /\ \A q \in DOMAIN props : props'[q] = props[q]
  BY DEF NewTask, Extended
<1>2. Grows
  BY <1>1 DEF Grows
<1>3. \A yes \in BOOLEAN : SoundRow(row, yes)
  BY DEF SoundRow
<1>4. \A q \in DOMAIN props' : SoundRow(props'[q], q \in granted')
  <2>1. (p \in granted) \in BOOLEAN
    OBVIOUS
  <2> QED
    BY <1>1, <1>3, <2>1 DEF GovInv, SoundRow
<1>5. \A e \in DOMAIN execs : MayExecute(execs[e].p, props', granted')
  BY <1>2, StillMayExecute DEF GovInv
<1>6. row.env = env
  OBVIOUS
<1> HIDE DEF row
<1>7. \A a \in DOMAIN approvals' :
          approvals'[a].p \in DOMAIN props' /\ "p" \in DOMAIN approvals'[a]
  BY <1>1 DEF GovInv
<1>8. \A e \in DOMAIN execs' : "p" \in DOMAIN execs'[e]
  BY DEF GovInv
<1> QED
  BY <1>1, <1>2, <1>4, <1>5, <1>6, <1>7, <1>8

LEMMA CreateProposalStep ==
    ASSUME GovInv, NEW c \in AgentCallers, NEW p \in Proposals, NEW env, NEW type,
           CreateProposal(c, p, env, type)
    PROVE  GovInv'
<1>1. NewTask(p, env, type) /\ UNCHANGED <<approvals, execs, granted, calls>>
  BY DEF CreateProposal
<1>2. Goes(c, calls[c])
  BY <1>1 DEF Goes, GovInv
<1>3. Grows /\ SoundCall(calls[c], props', approvals', granted')
  BY <1>1, NewRow, CallStaysSound DEF GovInv
<1> QED
  BY <1>1, <1>2, <1>3, NewRow, GoingOnKeepsInv

LEMMA RunFullPipelineStep ==
    ASSUME GovInv, NEW c \in AgentCallers, NEW p \in Proposals, NEW env, NEW type,
           NEW approver \in BOOLEAN, RunFullPipeline(c, p, env, type, approver)
    PROVE  GovInv'
<1> DEFINE k == [at |-> "enter", p |-> p, method |-> "evaluate", env |-> env,
                 pipeline |-> TRUE, approver |-> approver]
<1>1. NewTask(p, env, type) /\ UNCHANGED <<approvals, execs, granted>> /\ Goes(c, k)
  BY DEF RunFullPipeline
<1>2. Grows /\ p \in DOMAIN props' /\ props'[p].env = env
  BY <1>1, NewRow
<1>3. SoundCall(k, props', approvals', granted')
  BY <1>2 DEF SoundCall, Methods
<1> HIDE DEF k
<1> QED
  BY <1>1, <1>3, NewRow, GoingOnKeepsInv

LEMMA CallOnProposalStep ==
    ASSUME GovInv, NEW c \in AgentCallers, NEW p \in Proposals, NEW method \in Methods,
           CallOnProposal(c, p, method)
    PROVE  GovInv'
<1> DEFINE k == [at |-> "enter", p |-> p, method |-> method, env |-> props[p].env,
                 pipeline |-> FALSE, approver |-> FALSE]
<1>1. /\ p \in DOMAIN props /\ Goes(c, k) /\ UNCHANGED <<props, approvals, execs, granted>>
  BY DEF CallOnProposal
<1>2. SoundCall(k, props, approvals, granted)
  BY <1>1 DEF SoundCall
<1> HIDE DEF k
<1> QED
  BY <1>1, <1>2, MovingKeepsInv

(* The verdict never approves what needs review in Live.                   *)
LEMMA JudgedIsSound ==
    ASSUME NEW p, NEW row, NEW rows, NEW yes, SoundCopy(p, row, rows, yes)
    PROVE  SoundCopy(p, Judged(row, row.env), rows, yes)
<1> DEFINE result == PolicyResult(row.env, row.type)
<1>1. result \in {"fail", "manual_review_required", "pass"}
      /\ (NeedsHuman(row) => result # "pass")
  BY DEF PolicyResult, NeedsHuman
<1>2. AfterPolicy[result] \in {"policy_rejected", "pending_approval", "approved"}
      /\ (result # "pass" => AfterPolicy[result] # "approved")
  BY <1>1 DEF AfterPolicy
<1>3. /\ DOMAIN Judged(row, row.env) = DOMAIN row
      /\ Judged(row, row.env).env = row.env /\ Judged(row, row.env).type = row.type
      /\ Judged(row, row.env).status = AfterPolicy[result]
  BY DEF Judged, SoundCopy, SoundRow
<1> QED
  BY <1>1, <1>2, <1>3 DEF SoundCopy, SoundRow, NeedsHuman

LEMMA EnterMethodStep ==
    ASSUME GovInv, NEW c \in AgentCallers, EnterMethod(c)
    PROVE  GovInv'
<1> DEFINE k == calls[c]
           row == props[k.p]
           executing == [at |-> "execute", p |-> k.p, copy |-> row, pipeline |-> k.pipeline]
           reading == [at |-> k.method, p |-> k.p, env |-> k.env, pipeline |-> k.pipeline,
                       copy |-> IF k.method = "evaluate" THEN Judged(row, k.env) ELSE row,
                       approver |-> k.approver]
<1>1. /\ k.p \in DOMAIN props /\ k.env = row.env
      /\ k.method \in {"evaluate", "request", "execute"}
      /\ UNCHANGED <<props, approvals, execs, granted>>
  BY DEF EnterMethod, GovInv, SoundCall, Methods
<1>2. SoundCopy(k.p, row, props, granted)
  BY <1>1 DEF GovInv, SoundCopy
<1>3. CASE ~MayGoOn(k.method, row)
  <2>1. Goes(c, NotCalling)
    BY <1>3 DEF EnterMethod
  <2> QED
    BY <1>1, <2>1, NotCallingIsSound, MovingKeepsInv
<1>4. CASE MayGoOn(k.method, row) /\ k.method = "execute"
  <2>1. Goes(c, executing)
    BY <1>4 DEF EnterMethod
  <2>2. MayExecute(k.p, props, granted)
    BY <1>1, <1>2, <1>4 DEF MayGoOn, MayExecute, SoundCopy, SoundRow
  <2>3. SoundCall(executing, props, approvals, granted)
    BY <1>2, <2>2 DEF SoundCall
  <2> HIDE DEF executing
  <2> QED
    BY <1>1, <2>1, <2>3, MovingKeepsInv
<1>5. CASE MayGoOn(k.method, row) /\ k.method # "execute"
  <2>1. Goes(c, reading)
    BY <1>5 DEF EnterMethod
  <2>2. SoundCopy(k.p, Judged(row, k.env), props, granted)
    BY <1>1, <1>2, JudgedIsSound
  <2>3. SoundCall(reading, props, approvals, granted)
    BY <1>1, <1>2, <1>5, <2>2 DEF SoundCall
  <2> HIDE DEF reading
  <2> QED
    BY <1>1, <2>1, <2>3, MovingKeepsInv
<1> QED
  BY <1>3, <1>4, <1>5

LEMMA EvaluateStep ==
    ASSUME GovInv, NEW c \in AgentCallers, EvaluateProposalPolicy(c)
    PROVE  GovInv'
<1> DEFINE k == calls[c]
           entering == [at |-> "enter", p |-> k.p, env |-> k.env, pipeline |-> TRUE,
                        method |-> IF k.copy.policy = "pass" THEN "execute" ELSE "request",
                        approver |-> k.approver]
<1>1. /\ k.p \in DOMAIN props /\ k.env = props[k.p].env
      /\ SoundCopy(k.p, k.copy, props, granted)
      /\ props' = [props EXCEPT ![k.p] = k.copy]
      /\ UNCHANGED <<approvals, execs, granted>>
      /\ Goes(c, NotCalling) \/ Goes(c, entering)
  BY DEF EvaluateProposalPolicy, GovInv, SoundCall
<1>2. SoundCall(NotCalling, props', approvals, granted)
  BY NotCallingIsSound
<1>3. SoundCall(entering, props', approvals, granted)
  BY <1>1 DEF SoundCall, SoundCopy, Methods
<1> HIDE DEF entering
<1> QED
  BY <1>1, <1>2, <1>3, WritingKeepsInv

LEMMA CreateApprovalRequestStep ==
    ASSUME GovInv, NEW c \in AgentCallers, NEW a \in Approvals, CreateApprovalRequest(c, a)
    PROVE  GovInv'
<1> DEFINE k == calls[c]
           linking == [at |-> "link", p |-> k.p, copy |-> k.copy, id |-> a, env |-> k.env,
                       pipeline |-> k.pipeline, approver |-> k.approver]
<1>1. /\ k.p \in DOMAIN props /\ k.env = props[k.p].env
      /\ SoundCopy(k.p, k.copy, props, granted)
      /\ Goes(c, linking) /\ UNCHANGED <<props, execs, granted>>
  BY DEF CreateApprovalRequest, GovInv, SoundCall
<1>2. /\ a \notin DOMAIN approvals /\ DOMAIN approvals' = DOMAIN approvals \cup {a}
      /\ \A b \in DOMAIN approvals : approvals'[b] = approvals[b]
      /\ approvals'[a].p = k.p /\ "p" \in DOMAIN approvals'[a]
  BY DEF CreateApprovalRequest, Extended
<1>3. Grows
  BY <1>1, <1>2 DEF Grows
<1>4. SoundCall(linking, props', approvals', granted')
  BY <1>1, <1>2 DEF SoundCall
<1>5. \A b \in DOMAIN approvals' :
          approvals'[b].p \in DOMAIN props' /\ "p" \in DOMAIN approvals'[b]
  BY <1>1, <1>2 DEF GovInv
<1> HIDE DEF linking
<1> QED
  BY <1>1, <1>3, <1>4, <1>5, GoingOnKeepsInv DEF GovInv

LEMMA LinkStep ==
    ASSUME GovInv, NEW c \in AgentCallers, LinkApprovalRequest(c)
    PROVE  GovInv'
<1> DEFINE k == calls[c]
           copy == [k.copy EXCEPT !.approval = k.id]
           reading == [at |-> "read", id |-> k.id, pipeline |-> TRUE]
<1>1. /\ k.p \in DOMAIN props /\ k.env = props[k.p].env
      /\ SoundCopy(k.p, k.copy, props, granted)
      /\ k.id \in DOMAIN approvals /\ approvals[k.id].p = k.p
      /\ props' = [props EXCEPT ![k.p] = copy]
      /\ UNCHANGED <<approvals, execs, granted>>
      /\ Goes(c, NotCalling) \/ (Goes(c, reading) /\ k.env # "live")
  BY DEF LinkApprovalRequest, GovInv, SoundCall
<1>2. SoundCopy(k.p, copy, props, granted)
  BY <1>1 DEF SoundCopy, SoundRow, NeedsHuman
<1>3. props'[k.p].env = k.env
  BY <1>1, <1>2 DEF SoundCopy
<1>4. SoundCall(NotCalling, props', approvals, granted)
  BY NotCallingIsSound
<1>5. k.env # "live" => SoundCall(reading, props', approvals, granted)
  BY <1>1, <1>3 DEF SoundCall
<1> HIDE DEF reading, copy
<1> QED
  BY <1>1, <1>2, <1>4, <1>5, WritingKeepsInv

LEMMA ProcessDecisionStep ==
    ASSUME GovInv, NEW c \in AgentCallers, NEW a \in Approvals, NEW decision,
           ProcessApprovalDecision(c, a, decision)
    PROVE  GovInv'
<1> DEFINE k == [at |-> "decide", id |-> a, decision |-> decision,
                 pipeline |-> calls[c] # NotCalling]
<1>1. /\ Goes(c, k) /\ UNCHANGED <<props, approvals, execs, granted>> /\ a \in DOMAIN approvals
  BY DEF ProcessApprovalDecision
<1>2. calls[c] # NotCalling => props[approvals[a].p].env # "live"
  BY DEF ProcessApprovalDecision, GovInv, SoundCall
<1>3. SoundCall(k, props, approvals, granted)
  BY <1>1, <1>2 DEF SoundCall
<1> HIDE DEF k
<1> QED
  BY <1>1, <1>3, MovingKeepsInv

(* Only a human grants what needs a human: the pipeline decides outside    *)
(* Live.                                                                   *)
LEMMA RecordDecisionStep ==
    ASSUME GovInv, NEW c \in AgentCallers, RecordDecision(c)
    PROVE  GovInv'
<1> DEFINE k == calls[c]
           p == approvals[k.id].p
           told == [at |-> "decided", p |-> p, decision |-> k.decision, pipeline |-> k.pipeline]
<1>1. /\ k.id \in DOMAIN approvals /\ p \in DOMAIN props /\ Goes(c, told)
      /\ UNCHANGED <<props, execs>>
      /\ approvals' = [approvals EXCEPT ![k.id].decision = k.decision]
      /\ granted' = IF k.decision = "approved" /\ ~k.pipeline THEN granted \cup {p} ELSE granted
      /\ k.pipeline => props[p].env # "live"
  BY DEF RecordDecision, GovInv, SoundCall
<1>2. \A b \in DOMAIN approvals' : /\ b \in DOMAIN approvals /\ approvals'[b].p = approvals[b].p
                                   /\ "p" \in DOMAIN approvals'[b]
  BY <1>1 DEF GovInv
<1>3. Grows
  BY <1>1, <1>2 DEF Grows
<1>4. k.decision = "approved" => MayExecute(p, props', granted')
  BY <1>1 DEF MayExecute, NeedsHuman
<1>5. SoundCall(told, props', approvals', granted')
  BY <1>1, <1>4 DEF SoundCall
<1>6. \A q \in DOMAIN props' : SoundRow(props'[q], q \in granted')
  BY <1>1 DEF GovInv, SoundRow
<1>7. \A e \in DOMAIN execs' : MayExecute(execs'[e].p, props', granted') /\ "p" \in DOMAIN execs'[e]
  BY <1>1, <1>3, StillMayExecute DEF GovInv
<1>8. \A b \in DOMAIN approvals' :
          approvals'[b].p \in DOMAIN props' /\ "p" \in DOMAIN approvals'[b]
  BY <1>1, <1>2 DEF GovInv
<1> HIDE DEF told
<1> QED
  BY <1>1, <1>3, <1>5, <1>6, <1>7, <1>8, GoingOnKeepsInv

LEMMA ReadDecidedStep ==
    ASSUME GovInv, NEW c \in AgentCallers, ReadDecided(c)
    PROVE  GovInv'
<1> DEFINE k == calls[c]
           settling == [at |-> "settle", p |-> k.p, copy |-> props[k.p], decision |-> k.decision,
                        pipeline |-> k.pipeline]
<1>1. /\ k.p \in DOMAIN props /\ Goes(c, settling)
      /\ UNCHANGED <<props, approvals, execs, granted>>
      /\ k.decision = "approved" => MayExecute(k.p, props, granted)
  BY DEF ReadDecided, GovInv, SoundCall
<1>2. SoundCopy(k.p, props[k.p], props, granted)
  BY <1>1 DEF GovInv, SoundCopy
<1>3. SoundCall(settling, props, approvals, granted)
  BY <1>1, <1>2 DEF SoundCall
<1> HIDE DEF settling
<1> QED
  BY <1>1, <1>3, MovingKeepsInv

LEMMA SettleStep ==
    ASSUME GovInv, NEW c \in AgentCallers, SettleProposal(c)
    PROVE  GovInv'
<1> DEFINE k == calls[c]
           copy == Settled(k.copy, k.decision)
           entering == [at |-> "enter", p |-> k.p, method |-> "execute", env |-> k.copy.env,
                        pipeline |-> TRUE, approver |-> TRUE]
<1>1. /\ SoundCopy(k.p, k.copy, props, granted)
      /\ k.decision = "approved" => MayExecute(k.p, props, granted)
      /\ props' = [props EXCEPT ![k.p] = copy]
      /\ UNCHANGED <<approvals, execs, granted>>
      /\ Goes(c, NotCalling) \/ Goes(c, entering)
  BY DEF SettleProposal, GovInv, SoundCall
<1>2. /\ DOMAIN copy = DOMAIN k.copy /\ copy.env = k.copy.env /\ copy.type = k.copy.type
      /\ copy.status = k.copy.status \/ copy.status = "rejected"
         \/ (copy.status = "approved" /\ k.decision = "approved")
  BY <1>1 DEF Settled, SoundCopy, SoundRow
<1>3. SoundCopy(k.p, copy, props, granted)
  <2> HIDE DEF copy
  <2> QED
    BY <1>1, <1>2 DEF SoundCopy, SoundRow, MayExecute, NeedsHuman
<1>4. k.p \in DOMAIN props' /\ props'[k.p].env = k.copy.env
  BY <1>1, <1>2 DEF SoundCopy
<1>5. SoundCall(NotCalling, props', approvals, granted)
  BY NotCallingIsSound
<1>6. SoundCall(entering, props', approvals, granted)
  BY <1>4 DEF SoundCall, Methods
<1> HIDE DEF entering, copy
<1> QED
  BY <1>1, <1>3, <1>5, <1>6, WritingKeepsInv

LEMMA ExecuteStep ==
    ASSUME GovInv, NEW c \in AgentCallers, ExecuteProposal(c)
    PROVE  GovInv'
<1> DEFINE k == calls[c]
           copy == [k.copy EXCEPT !.status = "execution_pending"]
           running == [at |-> "run", p |-> k.p, pipeline |-> k.pipeline]
<1>1. /\ SoundCopy(k.p, k.copy, props, granted) /\ MayExecute(k.p, props, granted)
      /\ props' = [props EXCEPT ![k.p] = copy]
      /\ UNCHANGED <<approvals, execs, granted>> /\ Goes(c, running)
  BY DEF ExecuteProposal, GovInv, SoundCall
<1>2. SoundCopy(k.p, copy, props, granted)
  BY <1>1 DEF SoundCopy, SoundRow, MayExecute, NeedsHuman
<1>3. MayExecute(k.p, props', granted)
  BY <1>1, <1>2 DEF MayExecute, SoundCopy, NeedsHuman
<1>4. SoundCall(running, props', approvals, granted)
  BY <1>3 DEF SoundCall
<1> HIDE DEF running, copy
<1> QED
  BY <1>1, <1>2, <1>4, WritingKeepsInv

LEMMA CreateExecutionStep ==
    ASSUME GovInv, NEW c \in AgentCallers, NEW e \in Executions, CreateExecution(c, e)
    PROVE  GovInv'
<1> DEFINE k == calls[c]
<1>1. /\ MayExecute(k.p, props, granted) /\ Goes(c, NotCalling)
      /\ UNCHANGED <<props, approvals, granted>>
  BY DEF CreateExecution, GovInv, SoundCall
<1>2. /\ DOMAIN execs' = DOMAIN execs \cup {e} /\ execs'[e].p = k.p /\ "p" \in DOMAIN execs'[e]
      /\ \A x \in DOMAIN execs \ {e} : execs'[x] = execs[x]
  BY DEF CreateExecution, Extended
<1>3. Grows /\ SoundCall(NotCalling, props', approvals', granted')
  BY <1>1, NotCallingIsSound DEF Grows
<1>4. \A x \in DOMAIN execs' : MayExecute(execs'[x].p, props', granted') /\ "p" \in DOMAIN execs'[x]
  BY <1>1, <1>2 DEF GovInv
<1> QED
  BY <1>1, <1>3, <1>4, GoingOnKeepsInv DEF GovInv

LEMMA RecordCompletionStep ==
    ASSUME GovInv, NEW c \in AgentCallers, NEW status, RecordCompletion(c, status)
    PROVE  GovInv'
<1>1. /\ Goes(c, NotCalling) /\ UNCHANGED <<props, approvals, granted>>
      /\ execs' = [execs EXCEPT ![calls[c].id].status = status]
  BY DEF RecordCompletion
<1>2. \A x \in DOMAIN execs' : x \in DOMAIN execs /\ execs'[x].p = execs[x].p
                               /\ "p" \in DOMAIN execs'[x]
  BY <1>1 DEF GovInv
<1>3. Grows /\ SoundCall(NotCalling, props', approvals', granted')
  BY <1>1, NotCallingIsSound DEF Grows
<1>4. \A x \in DOMAIN execs' : MayExecute(execs'[x].p, props', granted') /\ "p" \in DOMAIN execs'[x]
  BY <1>1, <1>2 DEF GovInv
<1> QED
  BY <1>1, <1>3, <1>4, GoingOnKeepsInv DEF GovInv

LEMMA GovInvNext == GovInv /\ [GovNext]_govVars => GovInv'
<1> SUFFICES ASSUME GovInv, [GovNext]_govVars
             PROVE  GovInv'
  OBVIOUS
<1>1. ASSUME NEW c \in AgentCallers, AlreadyDecided(c)
      PROVE  GovInv'
  <2>1. Goes(c, NotCalling) /\ UNCHANGED <<props, approvals, execs, granted>>
    BY <1>1 DEF AlreadyDecided
  <2> QED
    BY <2>1, NotCallingIsSound, MovingKeepsInv
<1>2. ASSUME NEW c \in AgentCallers, NEW e \in Executions, CompleteExecution(c, e)
      PROVE  GovInv'
  <2> DEFINE k == [at |-> "complete", id |-> e]
  <2>1. Goes(c, k) /\ UNCHANGED <<props, approvals, execs, granted>>
    BY <1>2 DEF CompleteExecution
  <2>2. SoundCall(k, props, approvals, granted)
    BY DEF SoundCall
  <2> HIDE DEF k
  <2> QED
    BY <2>1, <2>2, MovingKeepsInv
<1>3. CASE SetKillSwitch
  BY <1>3 DEF SetKillSwitch, GovInv
<1>4. CASE UNCHANGED govVars
  BY <1>4 DEF govVars, GovInv
<1> QED
  BY <1>1, <1>2, <1>3, <1>4, CreateProposalStep, RunFullPipelineStep, CallOnProposalStep,
     EnterMethodStep, EvaluateStep, CreateApprovalRequestStep, LinkStep, ProcessDecisionStep,
     RecordDecisionStep, ReadDecidedStep, SettleStep, ExecuteStep, CreateExecutionStep,
     RecordCompletionStep
  DEF GovNext

(* Whatever calls race, with stale copies written over newer rows, nothing *)
(* that needs review in Live is executed unless a human approved it.       *)
THEOREM HumanDecides == GovSpec => []HumanInTheLoop
<1>1. GovInv => HumanInTheLoop
  BY DEF GovInv, HumanInTheLoop, MayExecute, NeedsHuman
<1> QED
  BY <1>1, GovInvInit, GovInvNext, PTL DEF GovSpec

-----------------------------------------------------------------------------
(* A task tells only outcomes that are in the tables.                      *)

(* A request or an execution that is there stays, for the same proposal.   *)
LEMMA TablesGrow ==
    ASSUME GovInv, [GovNext]_govVars
    PROVE  /\ \A a \in DOMAIN approvals : a \in DOMAIN approvals' /\ approvals'[a].p = approvals[a].p
           /\ \A e \in DOMAIN execs : e \in DOMAIN execs' /\ execs'[e].p = execs[e].p
<1>1. ASSUME NEW c \in AgentCallers, NEW a \in Approvals, CreateApprovalRequest(c, a)
      PROVE  /\ \A b \in DOMAIN approvals : b \in DOMAIN approvals' /\ approvals'[b] = approvals[b]
             /\ execs' = execs
  BY <1>1 DEF CreateApprovalRequest, Extended
<1>2. ASSUME NEW c \in AgentCallers, RecordDecision(c)
      PROVE  /\ \A b \in DOMAIN approvals : b \in DOMAIN approvals' /\ approvals'[b].p = approvals[b].p
             /\ execs' = execs
  BY <1>2 DEF RecordDecision, GovInv
<1>3. ASSUME NEW c \in AgentCallers, NEW e \in Executions, CreateExecution(c, e)
      PROVE  /\ \A x \in DOMAIN execs : x \in DOMAIN execs' /\ execs'[x] = execs[x]
             /\ approvals' = approvals
  BY <1>3 DEF CreateExecution, Extended
<1>4. ASSUME NEW c \in AgentCallers, NEW status, RecordCompletion(c, status)
      PROVE  /\ \A x \in DOMAIN execs : x \in DOMAIN execs' /\ execs'[x].p = execs[x].p
             /\ approvals' = approvals
  BY <1>4 DEF RecordCompletion, GovInv
<1>5. ASSUME NEW c \in AgentCallers,
             \/ EnterMethod(c) \/ AlreadyDecided(c) \/ EvaluateProposalPolicy(c)
             \/ LinkApprovalRequest(c) \/ ReadDecided(c) \/ SettleProposal(c) \/ ExecuteProposal(c)
             \/ \E p \in Proposals, env \in Environments, type \in Types :
                   \/ CreateProposal(c, p, env, type)
                   \/ \E approver \in BOOLEAN : RunFullPipeline(c, p, env, type, approver)
             \/ \E p \in Proposals, method \in Methods : CallOnProposal(c, p, method)
             \/ \E a \in Approvals, decision \in Decisions : ProcessApprovalDecision(c, a, decision)
             \/ \E e \in Executions : CompleteExecution(c, e)
      PROVE  UNCHANGED <<approvals, execs>>
  BY <1>5 DEF EnterMethod, AlreadyDecided, EvaluateProposalPolicy, LinkApprovalRequest, ReadDecided,
              SettleProposal, ExecuteProposal, CreateProposal, RunFullPipeline, CallOnProposal,
              ProcessApprovalDecision, CompleteExecution
<1>6. CASE SetKillSwitch \/ UNCHANGED govVars
  BY <1>6 DEF SetKillSwitch, govVars
<1> QED
  BY <1>1, <1>2, <1>3, <1>4, <1>5, <1>6 DEF GovNext

(* Only the call that links a request makes its task wait, and only the    *)
(* call that has added an execution completes it.                          *)
LEMMA StatusTold ==
    ASSUME GovInv, [GovNext]_govVars, NEW p \in DOMAIN taskStatus'
    PROVE  \/ p \in DOMAIN taskStatus /\ taskStatus'[p] = taskStatus[p]
           \/ taskStatus'[p] \in {"running", "failed"}
           \/ taskStatus'[p] = "waiting_tool" /\ \E a \in DOMAIN approvals' : approvals'[a].p = p
           \/ taskStatus'[p] = "completed" /\ \E e \in DOMAIN execs' : execs'[e].p = p
<1>1. ASSUME NEW c \in AgentCallers, NEW q \in Proposals, NEW env, NEW type,
             NewTask(q, env, type)
      PROVE  \/ p \in DOMAIN taskStatus /\ taskStatus'[p] = taskStatus[p]
             \/ taskStatus'[p] = "running"
  BY <1>1 DEF NewTask, Extended
<1>2. ASSUME NEW c \in AgentCallers, EvaluateProposalPolicy(c)
      PROVE  \/ p \in DOMAIN taskStatus /\ taskStatus'[p] = taskStatus[p]
             \/ taskStatus'[p] = "failed"
  BY <1>2 DEF EvaluateProposalPolicy
<1>3. ASSUME NEW c \in AgentCallers, LinkApprovalRequest(c)
      PROVE  \/ p \in DOMAIN taskStatus /\ taskStatus'[p] = taskStatus[p]
             \/ taskStatus'[p] = "waiting_tool" /\ \E a \in DOMAIN approvals' : approvals'[a].p = p
  <2> DEFINE k == calls[c]
  <2>1. k.id \in DOMAIN approvals /\ approvals[k.id].p = k.p /\ approvals' = approvals
    BY <1>3 DEF LinkApprovalRequest, GovInv, SoundCall
  <2>2. \/ taskStatus' = taskStatus
        \/ taskStatus' = [taskStatus EXCEPT ![k.p] = "waiting_tool"]
    BY <1>3 DEF LinkApprovalRequest
  <2> HIDE DEF k
  <2> QED
    BY <2>1, <2>2
<1>4. ASSUME NEW c \in AgentCallers, NEW e \in Executions, CreateExecution(c, e)
      PROVE  \/ p \in DOMAIN taskStatus /\ taskStatus'[p] = taskStatus[p]
             \/ taskStatus'[p] = "completed" /\ \E x \in DOMAIN execs' : execs'[x].p = p
  <2> DEFINE k == calls[c]
  <2>1. e \in DOMAIN execs' /\ execs'[e].p = k.p
    BY <1>4 DEF CreateExecution, Extended
  <2>2. \/ taskStatus' = taskStatus
        \/ taskStatus' = [taskStatus EXCEPT ![k.p] = "completed"]
    BY <1>4 DEF CreateExecution
  <2> HIDE DEF k
  <2> QED
    BY <2>1, <2>2
<1>5. ASSUME NEW c \in AgentCallers,
             \/ EnterMethod(c) \/ AlreadyDecided(c) \/ RecordDecision(c) \/ ReadDecided(c)
             \/ SettleProposal(c) \/ ExecuteProposal(c)
             \/ \E q \in Proposals, method \in Methods : CallOnProposal(c, q, method)
             \/ \E a \in Approvals : CreateApprovalRequest(c, a)
             \/ \E a \in Approvals, decision \in Decisions : ProcessApprovalDecision(c, a, decision)
             \/ \E e \in Executions : CompleteExecution(c, e)
             \/ \E status \in {"completed", "failed"} : RecordCompletion(c, status)
      PROVE  taskStatus' = taskStatus
  BY <1>5 DEF EnterMethod, AlreadyDecided, RecordDecision, ReadDecided, SettleProposal,
              ExecuteProposal, CallOnProposal, CreateApprovalRequest, ProcessApprovalDecision,
              CompleteExecution, RecordCompletion
<1>6. CASE SetKillSwitch \/ UNCHANGED govVars
  BY <1>6 DEF SetKillSwitch, govVars
<1>7. ASSUME NEW c \in AgentCallers, NEW q \in Proposals, NEW env \in Environments, NEW type \in Types,
             \/ CreateProposal(c, q, env, type)
             \/ \E approver \in BOOLEAN : RunFullPipeline(c, q, env, type, approver)
      PROVE  NewTask(q, env, type)
  BY <1>7 DEF CreateProposal, RunFullPipeline
<1> QED
  BY <1>1, <1>2, <1>3, <1>4, <1>5, <1>6, <1>7 DEF GovNext

(* A task that waits has a request, and a completed one has an execution,  *)
(* whatever calls race: TaskTellsOutcome, which needs what GovInv knows of *)
(* the request that a call is about to link.                               *)
THEOREM OutcomeIsInTables == GovSpec => []TaskTellsOutcome
<1>1. GovInit => TaskTellsOutcome
  BY DEF GovInit, TaskTellsOutcome
<1>2. GovInv /\ TaskTellsOutcome /\ [GovNext]_govVars => TaskTellsOutcome'
  <2> SUFFICES ASSUME GovInv, TaskTellsOutcome, [GovNext]_govVars, NEW p \in DOMAIN taskStatus'
               PROVE  /\ taskStatus'[p] = "waiting_tool" => \E a \in DOMAIN approvals' : approvals'[a].p = p
                      /\ taskStatus'[p] = "completed" => \E e \in DOMAIN execs' : execs'[e].p = p
    BY DEF TaskTellsOutcome
  <2>1. CASE p \in DOMAIN taskStatus /\ taskStatus'[p] = taskStatus[p]
    BY <2>1, TablesGrow DEF TaskTellsOutcome
  <2> QED
    BY <2>1, StatusTold
<1> QED
  BY <1>1, <1>2, GovInvInit, GovInvNext, PTL DEF GovSpec

-----------------------------------------------------------------------------
(* Type correctness.                                                       *)

(* What a call holds, by the place it is at.                               *)
LEMMA CallFields ==
    ASSUME NEW k \in Call
    PROVE  /\ k.at = "enter" =>
                 /\ k.p \in Proposals /\ k.method \in Methods /\ k.env \in Environments
                 /\ k.pipeline \in BOOLEAN /\ k.approver \in BOOLEAN
           /\ k.at \in {"evaluate", "request"} =>
                 /\ k.p \in Proposals /\ k.copy \in Proposal /\ k.env \in Environments
                 /\ k.pipeline \in BOOLEAN /\ k.approver \in BOOLEAN
           /\ k.at = "link" =>
                 /\ k.p \in Proposals /\ k.copy \in Proposal /\ k.id \in Approvals
           /\ k.at = "read" => k.id \in Approvals
           /\ k.at = "decide" => k.id \in Approvals /\ k.decision \in Decisions /\ k.pipeline \in BOOLEAN
           /\ k.at = "decided" => k.p \in Proposals /\ k.decision \in Decisions /\ k.pipeline \in BOOLEAN
           /\ k.at = "settle" =>
                 /\ k.p \in Proposals /\ k.copy \in Proposal /\ k.decision \in Decisions
                 /\ k.pipeline \in BOOLEAN
           /\ k.at = "execute" => k.p \in Proposals /\ k.copy \in Proposal /\ k.pipeline \in BOOLEAN
           /\ k.at = "run" => k.p \in Proposals /\ k.pipeline \in BOOLEAN
           /\ k.at = "complete" => k.id \in Executions
<1> DEFINE E == [at: {"enter"}, p: Proposals, method: Methods, env: Environments,
                 pipeline: BOOLEAN, approver: BOOLEAN]
           J == [at: {"evaluate", "request"}, p: Proposals, copy: Proposal, env: Environments,
                 pipeline: BOOLEAN, approver: BOOLEAN]
           X == [at: {"execute"}, p: Proposals, copy: Proposal, pipeline: BOOLEAN]
           L == [at: {"link"}, p: Proposals, copy: Proposal, id: Approvals, env: Environments,
                 pipeline: BOOLEAN, approver: BOOLEAN]
           R == [at: {"read"}, id: Approvals, pipeline: {TRUE}]
           D == [at: {"decide"}, id: Approvals, decision: Decisions, pipeline: BOOLEAN]
           T == [at: {"decided"}, p: Proposals, decision: Decisions, pipeline: BOOLEAN]
           S == [at: {"settle"}, p: Proposals, copy: Proposal, decision: Decisions, pipeline: BOOLEAN]
           G == [at: {"run"}, p: Proposals, pipeline: BOOLEAN]
           C == [at: {"complete"}, id: Executions]
<1>1. k \in E => /\ k.at = "enter"
                 /\ k.p \in Proposals /\ k.method \in Methods /\ k.env \in Environments
                 /\ k.pipeline \in BOOLEAN /\ k.approver \in BOOLEAN
  OBVIOUS
<1>2. k \in J => /\ k.at \in {"evaluate", "request"}
                 /\ k.p \in Proposals /\ k.copy \in Proposal /\ k.env \in Environments
                 /\ k.pipeline \in BOOLEAN /\ k.approver \in BOOLEAN
  OBVIOUS
<1>3. k \in X => /\ k.at = "execute"
                 /\ k.p \in Proposals /\ k.copy \in Proposal /\ k.pipeline \in BOOLEAN
  OBVIOUS
<1>4. k \in L => /\ k.at = "link"
                 /\ k.p \in Proposals /\ k.copy \in Proposal /\ k.id \in Approvals
  OBVIOUS
<1>5. k \in R => k.at = "read" /\ k.id \in Approvals
  OBVIOUS
<1>6. k \in D => /\ k.at = "decide"
                 /\ k.id \in Approvals /\ k.decision \in Decisions /\ k.pipeline \in BOOLEAN
  OBVIOUS
<1>7. k \in T => /\ k.at = "decided"
                 /\ k.p \in Proposals /\ k.decision \in Decisions /\ k.pipeline \in BOOLEAN
  OBVIOUS
<1>8. k \in S => /\ k.at = "settle"
                 /\ k.p \in Proposals /\ k.copy \in Proposal /\ k.decision \in Decisions
                 /\ k.pipeline \in BOOLEAN
  OBVIOUS
<1>9. k \in G => k.at = "run" /\ k.p \in Proposals /\ k.pipeline \in BOOLEAN
  OBVIOUS
<1>10. k \in C => k.at = "complete" /\ k.id \in Executions
  OBVIOUS
<1>11. NotCalling.at = "idle"
  BY DEF NotCalling
<1>12. k \in {NotCalling} \cup E \cup J \cup X \cup L \cup R \cup D \cup T \cup S \cup G \cup C
  BY DEF Call
<1> HIDE DEF E, J, X, L, R, D, T, S, G, C
<1>13. \/ k.at = "idle" \/ k \in E \/ k \in J \/ k \in X \/ k \in L \/ k \in R
       \/ k \in D \/ k \in T \/ k \in S \/ k \in G \/ k \in C
  BY <1>11, <1>12
<1> QED
  BY <1>1, <1>2, <1>3, <1>4, <1>5, <1>6, <1>7, <1>8, <1>9, <1>10, <1>13

(* Judging, linking, settling and executing leave a row a proposal.        *)
LEMMA RowsTyped ==
    ASSUME NEW row \in Proposal
    PROVE  /\ killSwitch \in BOOLEAN => \A env : Judged(row, env) \in Proposal
           /\ \A id \in Approvals : [row EXCEPT !.approval = id] \in Proposal
           /\ \A decision : Settled(row, decision) \in Proposal
           /\ [row EXCEPT !.status = "execution_pending"] \in Proposal
<1>1. ASSUME NEW env PROVE Judged(row, env) \in Proposal
  <2> DEFINE result == PolicyResult(env, row.type)
  <2>1. result \in {"fail", "manual_review_required", "pass"}
    BY DEF PolicyResult
  <2>2. AfterPolicy[result] \in ProposalStatuses
    BY <2>1 DEF AfterPolicy, ProposalStatuses
  <2>3. Judged(row, env) = [row EXCEPT !.policy = result, !.status = AfterPolicy[result]]
    BY DEF Judged
  <2> HIDE DEF result
  <2>4. ASSUME NEW s \in ProposalStatuses PROVE [row EXCEPT !.policy = result, !.status = s] \in Proposal
    BY <2>1 DEF Proposal
  <2> QED
    BY <2>2, <2>3, <2>4
<1>2. \A id \in Approvals : [row EXCEPT !.approval = id] \in Proposal
  BY DEF Proposal
<1>3. ASSUME NEW decision PROVE Settled(row, decision) \in Proposal
  BY DEF Settled, Proposal, ProposalStatuses
<1>4. [row EXCEPT !.status = "execution_pending"] \in Proposal
  BY DEF Proposal, ProposalStatuses
<1> QED
  BY <1>1, <1>2, <1>3, <1>4

(* Tables whose rows name a proposal stay so while proposals are added.    *)
LEMMA RowsStayTyped ==
    ASSUME GovTypeOK, NEW more, DOMAIN props \subseteq more
    PROVE  /\ approvals \in [DOMAIN approvals -> [p: more, decision: Decisions]]
           /\ execs \in [DOMAIN execs ->
                            [p: more, status: {"executing", "completed", "failed"}]]
           /\ granted \subseteq more
<1>1. \A a \in DOMAIN approvals : approvals[a] \in [p: more, decision: Decisions]
  BY DEF GovTypeOK
<1>2. \A e \in DOMAIN execs : execs[e] \in [p: more, status: {"executing", "completed", "failed"}]
  BY DEF GovTypeOK
<1> QED
  BY <1>1, <1>2 DEF GovTypeOK

(* A call that goes on to a call.                                          *)
LEMMA CallsTyped ==
    ASSUME GovTypeOK, NEW c \in AgentCallers, NEW k \in Call, Goes(c, k)
    PROVE  calls' \in [AgentCallers -> Call]
BY DEF GovTypeOK, Goes

(* A step in which only a call moves, and one that also writes a row.      *)
LEMMA MovingTyped ==
    ASSUME GovTypeOK, NEW c \in AgentCallers, NEW k \in Call, Goes(c, k),
           UNCHANGED <<taskStatus, props, approvals, execs, killSwitch, granted>>
    PROVE  GovTypeOK'
<1>1. calls' \in [AgentCallers -> Call]
  BY CallsTyped
<1> QED
  BY <1>1 DEF GovTypeOK

LEMMA WritingTyped ==
    ASSUME GovTypeOK, NEW c \in AgentCallers, NEW k \in Call, Goes(c, k),
           NEW p, NEW copy \in Proposal, props' = [props EXCEPT ![p] = copy],
           NEW status \in {"running", "waiting_tool", "completed", "failed"},
           \/ taskStatus' = taskStatus
           \/ taskStatus' = [taskStatus EXCEPT ![p] = status],
           UNCHANGED <<approvals, execs, killSwitch, granted>>
    PROVE  GovTypeOK'
<1>1. calls' \in [AgentCallers -> Call]
  BY CallsTyped
<1>2. DOMAIN props' = DOMAIN props /\ props' \in [DOMAIN props -> Proposal]
  BY DEF GovTypeOK
<1>3. taskStatus' \in [DOMAIN props -> {"running", "waiting_tool", "completed", "failed"}]
  BY DEF GovTypeOK
<1> QED
  BY <1>1, <1>2, <1>3 DEF GovTypeOK

LEMMA IdleIsCall == NotCalling \in Call
BY DEF Call

(* A new row leaves the tables typed.                                      *)
LEMMA NewTaskTyped ==
    ASSUME GovTypeOK, NEW p \in Proposals, NEW env \in Environments, NEW type \in Types,
           NewTask(p, env, type), UNCHANGED <<approvals, execs, killSwitch, granted>>,
           calls' \in [AgentCallers -> Call]
    PROVE  GovTypeOK'
<1> DEFINE row == [status |-> "drafted", env |-> env, type |-> type, policy |-> "",
                   approval |-> NoApproval]
<1>1. row \in Proposal
  BY DEF Proposal, ProposalStatuses
<1>2. DOMAIN props' = DOMAIN props \cup {p} /\ props' \in [DOMAIN props' -> Proposal]
  BY <1>1 DEF NewTask, Extended, GovTypeOK
<1>3. DOMAIN taskStatus = DOMAIN props
  BY DEF GovTypeOK
<1>4. taskStatus' \in [DOMAIN props' -> {"running", "waiting_tool", "completed", "failed"}]
  BY <1>2, <1>3 DEF NewTask, Extended, GovTypeOK
<1>5. /\ approvals \in [DOMAIN approvals -> [p: DOMAIN props', decision: Decisions]]
      /\ execs \in [DOMAIN execs ->
                       [p: DOMAIN props', status: {"executing", "completed", "failed"}]]
      /\ granted \subseteq DOMAIN props'
  BY <1>2, RowsStayTyped
<1> QED
  BY <1>2, <1>4, <1>5 DEF GovTypeOK

(* The types of a call's arguments make it a call.                         *)
LEMMA CallForms ==
    ASSUME NEW p \in Proposals, NEW copy \in Proposal, NEW env \in Environments,
           NEW pipeline \in BOOLEAN, NEW approver \in BOOLEAN, NEW decision \in Decisions
    PROVE  /\ \A method \in Methods :
                 [at |-> "enter", p |-> p, method |-> method, env |-> env,
                  pipeline |-> pipeline, approver |-> approver] \in Call
           /\ \A at \in {"evaluate", "request"} :
                 [at |-> at, p |-> p, env |-> env, pipeline |-> pipeline, copy |-> copy,
                  approver |-> approver] \in Call
           /\ [at |-> "execute", p |-> p, copy |-> copy, pipeline |-> pipeline] \in Call
           /\ \A id \in Approvals :
                 /\ [at |-> "link", p |-> p, copy |-> copy, id |-> id, env |-> env,
                     pipeline |-> pipeline, approver |-> approver] \in Call
                 /\ [at |-> "read", id |-> id, pipeline |-> TRUE] \in Call
                 /\ [at |-> "decide", id |-> id, decision |-> decision, pipeline |-> pipeline] \in Call
           /\ [at |-> "decided", p |-> p, decision |-> decision, pipeline |-> pipeline] \in Call
           /\ [at |-> "settle", p |-> p, copy |-> copy, decision |-> decision,
               pipeline |-> pipeline] \in Call
           /\ [at |-> "run", p |-> p, pipeline |-> pipeline] \in Call
<1>1. \A method \in Methods :
         [at |-> "enter", p |-> p, method |-> method, env |-> env,
          pipeline |-> pipeline, approver |-> approver] \in Call
  BY DEF Call
<1>2. \A at \in {"evaluate", "request"} :
         [at |-> at, p |-> p, env |-> env, pipeline |-> pipeline, copy |-> copy,
          approver |-> approver] \in Call
  BY DEF Call
<1>3. [at |-> "execute", p |-> p, copy |-> copy, pipeline |-> pipeline] \in Call
  BY DEF Call
<1>4. \A id \in Approvals :
         /\ [at |-> "link", p |-> p, copy |-> copy, id |-> id, env |-> env,
             pipeline |-> pipeline, approver |-> approver] \in Call
         /\ [at |-> "read", id |-> id, pipeline |-> TRUE] \in Call
         /\ [at |-> "decide", id |-> id, decision |-> decision, pipeline |-> pipeline] \in Call
  BY DEF Call
<1>5. [at |-> "decided", p |-> p, decision |-> decision, pipeline |-> pipeline] \in Call
  BY DEF Call
<1>6. [at |-> "settle", p |-> p, copy |-> copy, decision |-> decision, pipeline |-> pipeline] \in Call
  BY DEF Call
<1>7. [at |-> "run", p |-> p, pipeline |-> pipeline] \in Call
  BY DEF Call
<1> QED
  BY <1>1, <1>2, <1>3, <1>4, <1>5, <1>6, <1>7

LEMMA EnterTyped ==
    ASSUME GovTypeOK, GovInv, NEW c \in AgentCallers, EnterMethod(c)
    PROVE  GovTypeOK'
<1> DEFINE k == calls[c]
           row == props[k.p]
           copy == IF k.method = "evaluate" THEN Judged(row, k.env) ELSE row
           executing == [at |-> "execute", p |-> k.p, copy |-> row, pipeline |-> k.pipeline]
           reading == [at |-> k.method, p |-> k.p, env |-> k.env, pipeline |-> k.pipeline,
                       copy |-> copy, approver |-> k.approver]
<1>1. /\ k.at = "enter" /\ UNCHANGED <<taskStatus, props, approvals, execs, killSwitch, granted>>
      /\ Goes(c, NotCalling) \/ Goes(c, executing) \/ (Goes(c, reading) /\ k.method # "execute")
  BY DEF EnterMethod
<1>2. k \in Call
  BY DEF GovTypeOK
<1>3. /\ k.p \in Proposals /\ k.method \in Methods /\ k.env \in Environments
      /\ k.pipeline \in BOOLEAN /\ k.approver \in BOOLEAN
  BY <1>1, <1>2, CallFields
<1>4. row \in Proposal
  BY <1>1 DEF GovInv, SoundCall, GovTypeOK
<1>5. copy \in Proposal
  BY <1>4, RowsTyped DEF GovTypeOK
<1> HIDE DEF row, copy, k
<1>6. "pending" \in Decisions
  BY DEF Decisions
<1>7. executing \in Call
  BY <1>3, <1>4, <1>6, CallForms
<1>8. ASSUME k.method # "execute"
      PROVE  reading \in Call
  <2>1. k.method \in {"evaluate", "request"}
    BY <1>3, <1>8 DEF Methods
  <2> QED
    BY <1>3, <1>5, <2>1 DEF Call
<1> HIDE DEF executing, reading
<1> QED
  BY <1>1, <1>7, <1>8, IdleIsCall, MovingTyped

LEMMA EvaluateTyped ==
    ASSUME GovTypeOK, NEW c \in AgentCallers, EvaluateProposalPolicy(c)
    PROVE  GovTypeOK'
<1> DEFINE k == calls[c]
           method == IF k.copy.policy = "pass" THEN "execute" ELSE "request"
           entering == [at |-> "enter", p |-> k.p, env |-> k.env, pipeline |-> TRUE,
                        method |-> method, approver |-> k.approver]
<1>1. /\ k.at = "evaluate" /\ props' = [props EXCEPT ![k.p] = k.copy]
      /\ Goes(c, NotCalling) \/ Goes(c, entering)
      /\ \/ taskStatus' = taskStatus
         \/ taskStatus' = [taskStatus EXCEPT ![k.p] = "failed"]
      /\ UNCHANGED <<approvals, execs, killSwitch, granted>>
  BY DEF EvaluateProposalPolicy
<1>2. k \in Call
  BY DEF GovTypeOK
<1>3. /\ k.p \in Proposals /\ k.env \in Environments /\ k.approver \in BOOLEAN
      /\ k.copy \in Proposal /\ method \in Methods
  BY <1>1, <1>2, CallFields DEF Methods
<1>4. "pending" \in Decisions /\ TRUE \in BOOLEAN
  BY DEF Decisions
<1> HIDE DEF k, method
<1>5. entering \in Call
  BY <1>3, <1>4, CallForms
<1> HIDE DEF entering
<1> QED
  BY <1>1, <1>3, <1>5, IdleIsCall, WritingTyped

LEMMA RequestTyped ==
    ASSUME GovTypeOK, GovInv, NEW c \in AgentCallers, NEW a \in Approvals,
           CreateApprovalRequest(c, a)
    PROVE  GovTypeOK'
<1> DEFINE k == calls[c]
           linking == [at |-> "link", p |-> k.p, copy |-> k.copy, id |-> a, env |-> k.env,
                       pipeline |-> k.pipeline, approver |-> k.approver]
<1>1. /\ k.at = "request" /\ Goes(c, linking)
      /\ approvals' = Extended(approvals, a, [p |-> k.p, decision |-> "pending"])
      /\ UNCHANGED <<taskStatus, props, execs, killSwitch, granted>>
  BY DEF CreateApprovalRequest
<1>2. k \in Call /\ k.p \in DOMAIN props
  BY <1>1 DEF GovTypeOK, GovInv, SoundCall
<1>3. /\ k.p \in Proposals /\ k.env \in Environments /\ k.approver \in BOOLEAN
      /\ k.copy \in Proposal /\ k.pipeline \in BOOLEAN /\ "pending" \in Decisions
  BY <1>1, <1>2, CallFields DEF Decisions
<1> HIDE DEF k
<1>4. linking \in Call
  <2>1. a \in Approvals
    OBVIOUS
  <2> QED
    BY <1>3, <2>1 DEF Call
<1> HIDE DEF linking
<1>5. calls' \in [AgentCallers -> Call]
  BY <1>1, <1>4, CallsTyped
<1>6. /\ DOMAIN approvals' = DOMAIN approvals \cup {a}
      /\ approvals' \in [DOMAIN approvals' -> [p: DOMAIN props, decision: Decisions]]
  <2>1. [p |-> k.p, decision |-> "pending"] \in [p: DOMAIN props, decision: Decisions]
    BY <1>2, <1>3
  <2> QED
    BY <1>1, <2>1 DEF Extended, GovTypeOK
<1> QED
  BY <1>1, <1>5, <1>6 DEF GovTypeOK

LEMMA LinkTyped ==
    ASSUME GovTypeOK, NEW c \in AgentCallers, LinkApprovalRequest(c)
    PROVE  GovTypeOK'
<1> DEFINE k == calls[c]
           copy == [k.copy EXCEPT !.approval = k.id]
           reading == [at |-> "read", id |-> k.id, pipeline |-> TRUE]
<1>1. /\ k.at = "link" /\ props' = [props EXCEPT ![k.p] = copy]
      /\ Goes(c, NotCalling) \/ Goes(c, reading)
      /\ \/ taskStatus' = taskStatus
         \/ taskStatus' = [taskStatus EXCEPT ![k.p] = "waiting_tool"]
      /\ UNCHANGED <<approvals, execs, killSwitch, granted>>
  BY DEF LinkApprovalRequest
<1>2. k \in Call
  BY DEF GovTypeOK
<1>3. k.p \in Proposals /\ k.copy \in Proposal /\ k.id \in Approvals
  BY <1>1, <1>2, CallFields
<1>4. copy \in Proposal
  BY <1>3, RowsTyped
<1>5. reading \in Call
  BY <1>3 DEF Call
<1> HIDE DEF k, copy, reading
<1> QED
  BY <1>1, <1>4, <1>5, IdleIsCall, WritingTyped

LEMMA RecordDecisionTyped ==
    ASSUME GovTypeOK, GovInv, NEW c \in AgentCallers, RecordDecision(c)
    PROVE  GovTypeOK'
<1> DEFINE k == calls[c]
           p == approvals[k.id].p
           told == [at |-> "decided", p |-> p, decision |-> k.decision, pipeline |-> k.pipeline]
<1>1. /\ k.at = "decide" /\ Goes(c, told)
      /\ approvals' = [approvals EXCEPT ![k.id].decision = k.decision]
      /\ granted' = granted \/ granted' = granted \cup {p}
      /\ UNCHANGED <<taskStatus, props, execs, killSwitch>>
  BY DEF RecordDecision
<1>2. k \in Call /\ k.id \in DOMAIN approvals
  BY <1>1 DEF GovTypeOK, GovInv, SoundCall
<1>3. k.decision \in Decisions /\ k.pipeline \in BOOLEAN
  BY <1>1, <1>2, CallFields
<1>4. /\ approvals[k.id] \in [p: DOMAIN props, decision: Decisions]
      /\ p \in DOMAIN props /\ p \in Proposals
  BY <1>2 DEF GovTypeOK
<1>5. approvals' \in [DOMAIN approvals -> [p: DOMAIN props, decision: Decisions]]
  BY <1>1, <1>2, <1>3, <1>4 DEF GovTypeOK
<1> HIDE DEF k, p
<1>6. told \in Call
  BY <1>3, <1>4 DEF Call
<1> HIDE DEF told
<1>7. calls' \in [AgentCallers -> Call]
  BY <1>1, <1>6, CallsTyped
<1>8. granted' \subseteq DOMAIN props
  BY <1>1, <1>4 DEF GovTypeOK
<1>9. DOMAIN approvals' = DOMAIN approvals
  BY <1>1
<1> QED
  BY <1>1, <1>5, <1>7, <1>8, <1>9 DEF GovTypeOK

LEMMA SettleTyped ==
    ASSUME GovTypeOK, NEW c \in AgentCallers, SettleProposal(c)
    PROVE  GovTypeOK'
<1> DEFINE k == calls[c]
           copy == Settled(k.copy, k.decision)
           entering == [at |-> "enter", p |-> k.p, method |-> "execute", env |-> k.copy.env,
                        pipeline |-> TRUE, approver |-> TRUE]
<1>1. /\ k.at = "settle" /\ props' = [props EXCEPT ![k.p] = copy]
      /\ Goes(c, NotCalling) \/ Goes(c, entering)
      /\ UNCHANGED <<taskStatus, approvals, execs, killSwitch, granted>>
  BY DEF SettleProposal
<1>2. k \in Call
  BY DEF GovTypeOK
<1>3. k.p \in Proposals /\ k.copy \in Proposal /\ k.decision \in Decisions
  BY <1>1, <1>2, CallFields
<1>4. copy \in Proposal /\ k.copy.env \in Environments
  BY <1>3, RowsTyped DEF Proposal
<1>5. TRUE \in BOOLEAN /\ "execute" \in Methods
  BY DEF Methods
<1> HIDE DEF k, copy
<1>6. entering \in Call
  BY <1>3, <1>4, <1>5, CallForms
<1> HIDE DEF entering
<1> QED
  BY <1>1, <1>4, <1>6, IdleIsCall, WritingTyped

LEMMA ExecuteTyped ==
    ASSUME GovTypeOK, GovInv, NEW c \in AgentCallers,
           \/ ExecuteProposal(c)
           \/ \E e \in Executions : CreateExecution(c, e)
           \/ \E status \in {"completed", "failed"} : RecordCompletion(c, status)
    PROVE  GovTypeOK'
<1> DEFINE k == calls[c]
<1>1. k \in Call
  BY DEF GovTypeOK
<1>2. CASE ExecuteProposal(c)
  <2> DEFINE copy == [k.copy EXCEPT !.status = "execution_pending"]
             running == [at |-> "run", p |-> k.p, pipeline |-> k.pipeline]
  <2>1. /\ k.at = "execute" /\ props' = [props EXCEPT ![k.p] = copy] /\ Goes(c, running)
        /\ UNCHANGED <<taskStatus, approvals, execs, killSwitch, granted>>
    BY <1>2 DEF ExecuteProposal
  <2>2. k.p \in Proposals /\ k.copy \in Proposal /\ k.pipeline \in BOOLEAN
    BY <1>1, <2>1, CallFields
  <2>3. copy \in Proposal
    BY <2>2, RowsTyped
  <2>4. running \in Call
    BY <2>2 DEF Call
  <2> HIDE DEF k, copy, running
  <2> QED
    BY <2>1, <2>3, <2>4, WritingTyped
<1>3. ASSUME NEW e \in Executions, CreateExecution(c, e)
      PROVE  GovTypeOK'
  <2>1. /\ k.at = "run" /\ Goes(c, NotCalling)
        /\ execs' = Extended(execs, e, [p |-> k.p, status |-> "executing"])
        /\ \/ taskStatus' = taskStatus
           \/ taskStatus' = [taskStatus EXCEPT ![k.p] = "completed"]
        /\ UNCHANGED <<props, approvals, killSwitch, granted>>
    BY <1>3 DEF CreateExecution
  <2>2. k.p \in DOMAIN props
    BY <2>1 DEF GovInv, SoundCall, MayExecute
  <2>3. [p |-> k.p, status |-> "executing"]
            \in [p: DOMAIN props, status: {"executing", "completed", "failed"}]
    BY <2>2
  <2>4. /\ DOMAIN execs' = DOMAIN execs \cup {e}
        /\ execs' \in [DOMAIN execs' -> [p: DOMAIN props, status: {"executing", "completed", "failed"}]]
    BY <2>1, <2>3 DEF Extended, GovTypeOK
  <2>5. taskStatus' \in [DOMAIN props -> {"running", "waiting_tool", "completed", "failed"}]
    BY <2>1 DEF GovTypeOK
  <2>6. calls' \in [AgentCallers -> Call]
    BY <2>1, IdleIsCall, CallsTyped
  <2> QED
    BY <2>1, <2>4, <2>5, <2>6 DEF GovTypeOK
<1>4. ASSUME NEW status \in {"completed", "failed"}, RecordCompletion(c, status)
      PROVE  GovTypeOK'
  <2>1. /\ execs' = [execs EXCEPT ![k.id].status = status] /\ Goes(c, NotCalling)
        /\ UNCHANGED <<taskStatus, props, approvals, killSwitch, granted>>
    BY <1>4 DEF RecordCompletion
  <2>2. /\ DOMAIN execs' = DOMAIN execs
        /\ execs' \in [DOMAIN execs -> [p: DOMAIN props, status: {"executing", "completed", "failed"}]]
    BY <2>1 DEF GovTypeOK
  <2>3. calls' \in [AgentCallers -> Call]
    BY <2>1, IdleIsCall, CallsTyped
  <2> QED
    BY <2>1, <2>2, <2>3 DEF GovTypeOK
<1> QED
  BY <1>2, <1>3, <1>4

LEMMA GovTypeStep ==
    ASSUME GovTypeOK, GovInv, [GovNext]_govVars
    PROVE  GovTypeOK'
<1>1. ASSUME NEW c \in AgentCallers, NEW p \in Proposals, NEW env \in Environments, NEW type \in Types,
             CreateProposal(c, p, env, type)
      PROVE  GovTypeOK'
  <2>1. calls' \in [AgentCallers -> Call]
    BY <1>1 DEF CreateProposal, GovTypeOK
  <2> QED
    BY <1>1, <2>1, NewTaskTyped DEF CreateProposal
<1>2. ASSUME NEW c \in AgentCallers, NEW p \in Proposals, NEW env \in Environments, NEW type \in Types,
             NEW approver \in BOOLEAN, RunFullPipeline(c, p, env, type, approver)
      PROVE  GovTypeOK'
  <2>1. [at |-> "enter", p |-> p, method |-> "evaluate", env |-> env,
         pipeline |-> TRUE, approver |-> approver] \in Call
    BY DEF Call, Methods
  <2>2. calls' \in [AgentCallers -> Call]
    BY <1>2, <2>1, CallsTyped DEF RunFullPipeline
  <2> QED
    BY <1>2, <2>2, NewTaskTyped DEF RunFullPipeline
<1>3. ASSUME NEW c \in AgentCallers, NEW p \in Proposals, NEW method \in Methods,
             CallOnProposal(c, p, method)
      PROVE  GovTypeOK'
  <2>1. props[p].env \in Environments
    BY <1>3 DEF CallOnProposal, GovTypeOK, Proposal
  <2>2. [at |-> "enter", p |-> p, method |-> method, env |-> props[p].env,
         pipeline |-> FALSE, approver |-> FALSE] \in Call
    BY <2>1 DEF Call
  <2> QED
    BY <1>3, <2>2, MovingTyped DEF CallOnProposal
<1>4. ASSUME NEW c \in AgentCallers, NEW a \in Approvals, NEW decision \in Decisions,
             ProcessApprovalDecision(c, a, decision)
      PROVE  GovTypeOK'
  <2>1. [at |-> "decide", id |-> a, decision |-> decision, pipeline |-> calls[c] # NotCalling] \in Call
    BY DEF Call
  <2> QED
    BY <1>4, <2>1, MovingTyped DEF ProcessApprovalDecision
<1>5. ASSUME NEW c \in AgentCallers, AlreadyDecided(c)
      PROVE  GovTypeOK'
  BY <1>5, IdleIsCall, MovingTyped DEF AlreadyDecided
<1>6. ASSUME NEW c \in AgentCallers, ReadDecided(c)
      PROVE  GovTypeOK'
  <2> DEFINE k == calls[c]
             settling == [at |-> "settle", p |-> k.p, copy |-> props[k.p],
                          decision |-> k.decision, pipeline |-> k.pipeline]
  <2>1. /\ k.at = "decided" /\ Goes(c, settling)
        /\ UNCHANGED <<taskStatus, props, approvals, execs, killSwitch, granted>>
    BY <1>6 DEF ReadDecided
  <2>2. k \in Call /\ k.p \in DOMAIN props
    BY <2>1 DEF GovTypeOK, GovInv, SoundCall
  <2>3. k.p \in Proposals /\ k.decision \in Decisions /\ k.pipeline \in BOOLEAN /\ props[k.p] \in Proposal
    BY <2>1, <2>2, CallFields DEF GovTypeOK
  <2> HIDE DEF k
  <2>4. settling \in Call
    BY <2>3 DEF Call
  <2> HIDE DEF settling
  <2> QED
    BY <2>1, <2>4, MovingTyped
<1>7. ASSUME NEW c \in AgentCallers, NEW e \in Executions, CompleteExecution(c, e)
      PROVE  GovTypeOK'
  <2>1. [at |-> "complete", id |-> e] \in Call
    BY DEF Call
  <2> QED
    BY <1>7, <2>1, MovingTyped DEF CompleteExecution
<1>8. CASE SetKillSwitch
  BY <1>8 DEF SetKillSwitch, GovTypeOK
<1>9. CASE UNCHANGED govVars
  BY <1>9 DEF govVars, GovTypeOK
<1> QED
  BY <1>1, <1>2, <1>3, <1>4, <1>5, <1>6, <1>7, <1>8, <1>9, EnterTyped, EvaluateTyped,
     RequestTyped, LinkTyped, RecordDecisionTyped, SettleTyped, ExecuteTyped
  DEF GovNext

(* The tables of the loop and the calls inside it keep their types: a call *)
(* never acts on a row that is not there.                                  *)
THEOREM GovTypeCorrect == GovSpec => []GovTypeOK
<1>1. GovInit => GovTypeOK
  BY DEF GovInit, GovTypeOK, Call
<1>2. GovTypeOK /\ GovInv /\ [GovNext]_govVars => GovTypeOK'
  BY GovTypeStep
<1> QED
  BY <1>1, <1>2, GovInvInit, GovInvNext, PTL DEF GovSpec

-----------------------------------------------------------------------------
(* The risk engine.                                                        *)

(* Each rule answers with nothing, a resize to a quantity, or one of the   *)
(* other results without one.                                              *)
RuleAnswers == Results \cup {NoConcern}

LEMMA PlainAnswers ==
    ASSUME NEW condition \in BOOLEAN
    PROVE  /\ \A type \in {"reject", "delay", "force_flatten"} :
                  Concern(condition, Result(type)) \in RuleAnswers
           /\ \A qty \in Nat : Concern(condition, Resize(qty)) \in RuleAnswers
BY DEF Concern, Result, Resize, RuleAnswers, Results, Priority, NoConcern

(* What a context holds.                                                   *)
LEMMA ContextFields ==
    ASSUME NEW c \in Contexts(Registered)
    PROVE  /\ c.hasAsset \in BOOLEAN /\ c.is_flatten \in BOOLEAN
           /\ c.quantity \in Nat /\ c.price \in Nat /\ c.cash \in Nat
BY RiskAssumption DEF Contexts

(* The quotient of MinAvailableCashRule is less than the quantity that     *)
(* leaves too little cash.                                                 *)
LEMMA QuotientBelow ==
    ASSUME NEW a \in Nat, NEW p \in Nat \ {0}, NEW q \in Nat, a < p * q
    PROVE  a \div p \in Nat /\ a \div p < q
<1>1. a \div p \in Nat /\ p * (a \div p) <= a
  OBVIOUS
<1> DEFINE d == a \div p
<1>2. d \in Nat /\ p * d < p * q
  BY <1>1
<1> HIDE DEF d
<1>3. d < q
  <2> SUFFICES ASSUME d >= q PROVE FALSE
    BY <1>2
  <2>1. PICK e \in Nat : d = q + e
    BY <1>2
  <2>2. p * d = p * q + p * e /\ p * e \in Nat /\ p * q \in Nat
    BY <2>1
  <2> QED
    BY <1>2, <2>2
<1> QED
  BY <1>1, <1>3 DEF d

LEMMA AffordableReduces ==
    ASSUME NEW c \in Contexts(Registered), c.price > 0, c.quantity > 0, CashLeft(c) < MinCash
    PROVE  Affordable(c) \in Nat /\ Affordable(c) < c.quantity
<1>1. c.price \in Nat \ {0} /\ c.quantity \in Nat \ {0} /\ c.cash \in Nat /\ MinCash \in Nat
  BY ContextFields, RiskAssumption
<1>2. c.price * c.quantity \in Nat
  BY <1>1
<1>3. CASE c.cash >= MinCash
  <2>1. c.cash - MinCash \in Nat /\ c.cash - MinCash < c.price * c.quantity
    BY <1>1, <1>2, <1>3 DEF CashLeft
  <2> QED
    BY <1>1, <1>3, <2>1, QuotientBelow DEF Affordable
<1>4. CASE ~(c.cash >= MinCash)
  BY <1>1, <1>4 DEF Affordable
<1> QED
  BY <1>3, <1>4

(* Rounding down to lots leaves no more, and less of what is no whole      *)
(* number of them.                                                         *)
LEMMA LotReduces ==
    ASSUME NEW q \in Nat
    PROVE  LotFloor(q) \in Nat /\ LotFloor(q) <= q /\ (q % LotSize # 0 => LotFloor(q) < q)
<1>1. LotSize \in Nat \ {0}
  BY RiskAssumption
<1> DEFINE d == q \div LotSize
           r == q % LotSize
<1>2. d \in Nat /\ r \in Nat /\ q = LotSize * d + r
  BY <1>1
<1>3. d * LotSize = LotSize * d /\ d * LotSize \in Nat
  BY <1>1, <1>2
<1> HIDE DEF d, r
<1>4. d * LotSize <= q /\ (r # 0 => d * LotSize < q)
  BY <1>1, <1>2, <1>3
<1> QED
  BY <1>3, <1>4 DEF d, r, LotFloor

(* A rule answers with a result, and a resize of an order for shares       *)
(* reduces it.                                                             *)
LEMMA CheckAnswers ==
    ASSUME NEW r \in RuleSet, NEW c \in Contexts(Registered)
    PROVE  /\ Check(r, c) \in RuleAnswers
           /\ Check(r, c).type = "resize" /\ c.quantity > 0 => Check(r, c).qty < c.quantity
<1>1. /\ c.hasAsset \in BOOLEAN /\ c.is_flatten \in BOOLEAN
      /\ c.quantity \in Nat /\ c.price \in Nat /\ c.cash \in Nat
  BY ContextFields
<1> DEFINE Fine(a) == a \in RuleAnswers /\ (a.type = "resize" /\ c.quantity > 0 => a.qty < c.quantity)
<1>2. ASSUME NEW condition \in BOOLEAN, NEW type \in {"reject", "delay", "force_flatten"}
      PROVE  Fine(Concern(condition, Result(type)))
  BY PlainAnswers DEF Concern, Result, NoConcern
<1>3. Fine(NoConcern)
  BY DEF NoConcern, Result, RuleAnswers
<1>4. ASSUME NEW qty \in Nat, c.quantity > 0 => qty < c.quantity
      PROVE  Fine(Resize(qty))
  BY <1>4 DEF Resize, RuleAnswers, Results
<1> HIDE DEF Fine
<1>5. Fine(MarketCheck(r, c))
  <2>1. CASE r = "special_time_restriction"
    BY <1>1, <1>2, <2>1 DEF MarketCheck
  <2>2. CASE r # "special_time_restriction"
    BY <1>1, <1>2, <2>2 DEF MarketCheck
  <2> QED
    BY <2>1, <2>2
<1>6. Fine(AccountCheck(r, c))
  <2>1. CASE r = "min_available_cash"
    <3> DEFINE low == c.side = "buy" /\ c.price > 0 /\ c.quantity > 0 /\ CashLeft(c) < MinCash
    <3>1. AccountCheck(r, c) = IF low THEN Resize(Affordable(c)) ELSE NoConcern
      BY <2>1 DEF AccountCheck, Concern
    <3>2. low => Affordable(c) \in Nat /\ Affordable(c) < c.quantity
      BY AffordableReduces
    <3> QED
      BY <1>3, <1>4, <3>1, <3>2
  <2>2. CASE r = "daily_loss_limit"
    BY <1>1, <1>2, <2>2 DEF AccountCheck
  <2>3. CASE r \notin {"min_available_cash", "daily_loss_limit"}
    BY <1>1, <1>2, <2>3 DEF AccountCheck
  <2> QED
    BY <2>1, <2>2, <2>3
<1>7. Fine(StrategyCheck(r, c))
  <2> DEFINE condition == /\ r \in c.facts /\ ~c.is_flatten
                          /\ r = "strategy_daily_loss_limit" => c.hasAsset
  <2>1. condition \in BOOLEAN
    OBVIOUS
  <2>2. CASE r = "cooldown_period"
    BY <1>2, <2>1, <2>2 DEF StrategyCheck
  <2>3. CASE r # "cooldown_period"
    BY <1>2, <2>1, <2>3 DEF StrategyCheck
  <2> QED
    BY <2>2, <2>3
<1>8. Fine(InstrumentCheck(r, c))
  <2> DEFINE condition == r \in c.facts /\ (c.is_flatten => r = "blacklist")
  <2>1. condition \in BOOLEAN
    OBVIOUS
  <2>2. CASE r = "single_instrument_max_exposure"
    <3>1. Fine(Resize(0))
      BY <1>1, <1>4
    <3>2. InstrumentCheck(r, c) = IF condition THEN Resize(0) ELSE NoConcern
      BY <2>2 DEF InstrumentCheck, Concern
    <3> QED
      BY <1>3, <3>1, <3>2
  <2>3. CASE r # "single_instrument_max_exposure"
    BY <1>2, <2>1, <2>3 DEF InstrumentCheck
  <2> QED
    BY <2>2, <2>3
<1>9. r \in {"invalid_price_check", "duplicate_order_check", "frequent_cancel_limit",
             "min_lot_size_check"} => Fine(OrderCheck(r, c))
  <2>1. CASE r = "invalid_price_check"
    <3> DEFINE condition == c.price <= 0
    <3>1. OrderCheck(r, c) = Concern(condition, Result("reject"))
      BY <2>1 DEF OrderCheck
    <3>2. condition \in BOOLEAN
      OBVIOUS
    <3> HIDE DEF condition
    <3>3. Fine(Concern(condition, Result("reject")))
      BY <1>2, <3>2
    <3> QED
      BY <3>1, <3>3
  <2>2. CASE r = "duplicate_order_check"
    <3> DEFINE condition == r \in c.facts
    <3>1. OrderCheck(r, c) = Concern(condition, Result("reject"))
      BY <2>2 DEF OrderCheck
    <3>2. condition \in BOOLEAN
      OBVIOUS
    <3> HIDE DEF condition
    <3>3. Fine(Concern(condition, Result("reject")))
      BY <1>2, <3>2
    <3> QED
      BY <3>1, <3>3
  <2>3. CASE r = "frequent_cancel_limit"
    <3> DEFINE condition == r \in c.facts
    <3>1. OrderCheck(r, c) = Concern(condition, Result("delay"))
      BY <2>3 DEF OrderCheck
    <3>2. condition \in BOOLEAN
      OBVIOUS
    <3> HIDE DEF condition
    <3>3. Fine(Concern(condition, Result("delay")))
      BY <1>2, <3>2
    <3> QED
      BY <3>1, <3>3
  <2>4. CASE r = "min_lot_size_check"
    <3> DEFINE odd == c.quantity <= 0 \/ c.quantity % LotSize # 0
               rounded == IF LotFloor(c.quantity) > 0 THEN Resize(LotFloor(c.quantity))
                                                     ELSE Result("reject")
    <3>1. OrderCheck(r, c) = IF odd THEN rounded ELSE NoConcern
      BY <2>4 DEF OrderCheck, Concern
    <3>2. odd /\ LotFloor(c.quantity) > 0 =>
             LotFloor(c.quantity) \in Nat /\ LotFloor(c.quantity) < c.quantity
      BY <1>1, LotReduces
    <3>3. Fine(Result("reject"))
      <4>1. Concern(TRUE, Result("reject")) = Result("reject") /\ TRUE \in BOOLEAN
        BY DEF Concern
      <4> QED
        BY <1>2, <4>1
    <3> QED
      BY <1>3, <1>4, <3>1, <3>2, <3>3
  <2> QED
    BY <2>1, <2>2, <2>3, <2>4
<1>10. r \in DOMAIN LayerOf
  BY RiskAssumption
<1>11. Fine(Check(r, c))
  BY <1>5, <1>6, <1>7, <1>8, <1>9, <1>10 DEF Check, LayerOf
<1> QED
  BY <1>11 DEF Fine


(* One of two rules runs before the other, never both.                     *)
LEMMA RunsBefore ==
    ASSUME rules \in Seq(RuleSet), NEW i \in DOMAIN rules, NEW j \in DOMAIN rules
    PROVE  Precedes(i, j) => ~Precedes(j, i)
<1>1. rules[i] \in DOMAIN LayerOf /\ rules[j] \in DOMAIN LayerOf /\ i \in Int /\ j \in Int
  BY RiskAssumption
<1>2. ASSUME NEW r \in DOMAIN LayerOf PROVE LayerOrder[LayerOf[r]] \in Int
  BY DEF LayerOf, LayerOrder
<1>3. LayerPlace(i) \in Int /\ LayerPlace(j) \in Int
  BY <1>1, <1>2 DEF LayerPlace
<1> QED
  BY <1>1, <1>3 DEF Precedes

(* The rules evaluate() is through with, and those of them it heard from.  *)
Checked == DOMAIN rules \ unchecked
Heard == {i \in Checked : Triggers(rules[i], ctx)}

(* most is the answer of one of the rules that are checked: no other       *)
(* answers with more, and none before it with as much.                     *)
Beats(i) ==
    \A j \in Heard : LET other == Check(rules[j], ctx)
                     IN  \/ Priority[other.type] < Priority[most.type]
                         \/ Priority[other.type] = Priority[most.type] /\ ~Precedes(j, i)

MostInv ==
    /\ \A i \in Checked, j \in unchecked : Precedes(i, j)
    /\ most.type = "force_flatten" => unchecked = {}
    /\ triggered = <<>> => most = NoResult /\ Heard = {}
    /\ triggered # <<>> => \E i \in Heard : Check(rules[i], ctx) = most /\ Beats(i)

(* triggered holds each rule that was heard, once.                         *)
HeardInv ==
    most.type # "force_flatten" =>
       /\ \A n \in DOMAIN triggered : \E i \in Heard : triggered[n] = rules[i]
       /\ \A i \in Heard : \E n \in DOMAIN triggered : triggered[n] = rules[i]
       /\ \A m, n \in DOMAIN triggered : triggered[m] = triggered[n] => m = n

RiskInv ==
    /\ RiskTypeOK
    /\ \A i, j \in DOMAIN rules : rules[i] = rules[j] => i = j
    /\ pc = "idle" => unchecked = {} /\ most = NoResult /\ triggered = <<>>
    /\ pc = "answered" => unchecked = {}
    /\ pc # "idle" => ctx \in Contexts(Registered) /\ MostInv /\ HeardInv

LEMMA RiskInvInit == RiskInit => RiskInv
<1> SUFFICES ASSUME RiskInit PROVE RiskInv
  OBVIOUS
<1>1. NoResult \in Results
  BY DEF NoResult, Result, Results, Priority, NoQuantity
<1>2. <<>> \in Seq(RuleSet) /\ DOMAIN <<>> = {}
  OBVIOUS
<1> QED
  BY <1>1, <1>2 DEF RiskInit, RiskInv, RiskTypeOK

LEMMA RegisterStep ==
    ASSUME RiskInv, NEW r \in RuleSet, Register(r)
    PROVE  RiskInv'
<1>1. /\ rules \in Seq(RuleSet) /\ rules' = Append(rules, r) /\ r \notin Registered
      /\ pc = "idle" /\ UNCHANGED <<pc, ctx, unchecked, most, triggered>>
      /\ unchecked = {} /\ most = NoResult /\ triggered = <<>>
  BY DEF Register, RiskInv, RiskTypeOK
<1>2. /\ rules' \in Seq(RuleSet) /\ DOMAIN rules = 1..Len(rules) /\ Len(rules) \in Nat
      /\ DOMAIN rules' = 1..(Len(rules) + 1)
      /\ \A i \in DOMAIN rules : rules'[i] = rules[i]
      /\ rules'[Len(rules) + 1] = r
  BY <1>1
<1>3. \A i \in DOMAIN rules : rules[i] # r
  BY <1>1, <1>2 DEF Registered
<1>4. \A i, j \in DOMAIN rules' : rules'[i] = rules'[j] => i = j
  <2> SUFFICES ASSUME NEW i \in DOMAIN rules', NEW j \in DOMAIN rules', rules'[i] = rules'[j]
               PROVE  i = j
    OBVIOUS
  <2>1. (i \in DOMAIN rules \/ i = Len(rules) + 1) /\ (j \in DOMAIN rules \/ j = Len(rules) + 1)
    BY <1>2
  <2> QED
    BY <1>2, <1>3, <2>1 DEF RiskInv
<1>5. ctx = NoContext \/ ctx \in Contexts(Registered)
  BY DEF RiskInv, RiskTypeOK
<1>6. ctx' \in Contexts(Registered') \cup {NoContext}
  <2>1. Registered \subseteq Registered'
    BY <1>2 DEF Registered
  <2>2. Contexts(Registered) \subseteq Contexts(Registered')
    <3> SUFFICES ASSUME NEW c \in Contexts(Registered) PROVE c \in Contexts(Registered')
      OBVIOUS
    <3>1. c.facts \in SUBSET (Registered' \ Computed)
      BY <2>1 DEF Contexts
    <3> QED
      BY <3>1 DEF Contexts
  <2> QED
    BY <1>1, <1>5, <2>2
<1>7. RiskTypeOK'
  BY <1>1, <1>2, <1>6 DEF RiskInv, RiskTypeOK
<1> QED
  BY <1>1, <1>4, <1>7 DEF RiskInv

LEMMA EvaluateRulesStep ==
    ASSUME RiskInv, NEW c \in Contexts(Registered), Evaluate(c)
    PROVE  RiskInv'
<1>1. /\ pc = "idle" /\ pc' = "checking" /\ ctx' = c /\ unchecked' = DOMAIN rules
      /\ rules' = rules /\ most' = most /\ triggered' = triggered
      /\ most = NoResult /\ triggered = <<>>
  BY DEF Evaluate, RiskInv
<1>2. Registered' = Registered /\ Checked' = {} /\ Heard' = {}
  BY <1>1 DEF Registered, Checked, Heard
<1>3. NoResult.type # "force_flatten"
  BY DEF NoResult, Result
<1>4. MostInv'
  BY <1>1, <1>2, <1>3 DEF MostInv
<1>5. HeardInv'
  BY <1>1, <1>2, <1>3 DEF HeardInv
<1>6. RiskTypeOK'
  BY <1>1, <1>2 DEF RiskInv, RiskTypeOK
<1> QED
  BY <1>1, <1>2, <1>4, <1>5, <1>6 DEF RiskInv

LEMMA BuildAndReturnStep ==
    ASSUME RiskInv, BuildResult \/ Return
    PROVE  RiskInv'
<1>1. CASE BuildResult
  <2>1. pc = "checking" /\ unchecked = {} /\ pc' = "answered"
        /\ UNCHANGED <<rules, ctx, unchecked, most, triggered>>
    BY <1>1 DEF BuildResult
  <2>2. /\ Registered' = Registered /\ Checked' = Checked /\ Heard' = Heard
        /\ \A i, j : Precedes(i, j)' = Precedes(i, j)
        /\ \A i : Beats(i)' = Beats(i)
    BY <2>1 DEF Registered, Checked, Heard, Precedes, LayerPlace, Beats
  <2>3. MostInv' /\ HeardInv'
    BY <2>1, <2>2 DEF RiskInv, MostInv, HeardInv
  <2> QED
    BY <2>1, <2>2, <2>3 DEF RiskInv, RiskTypeOK
<1>2. CASE Return
  <2>1. /\ pc = "answered" /\ pc' = "idle" /\ unchecked = {} /\ ctx' = NoContext
        /\ most' = NoResult /\ triggered' = <<>> /\ UNCHANGED <<rules, unchecked>>
    BY <1>2 DEF Return, RiskInv
  <2>2. NoResult \in Results /\ <<>> \in Seq(RuleSet)
    BY DEF NoResult, Result, Results, Priority, NoQuantity
  <2> QED
    BY <2>1, <2>2 DEF RiskInv, RiskTypeOK
<1> QED
  BY <1>1, <1>2


(* The priority of a result, and that only a flatten of the account has    *)
(* the highest.                                                            *)
LEMMA Priorities ==
    ASSUME NEW a \in Results
    PROVE  /\ Priority[a.type] \in 1..5
           /\ Priority[a.type] = 5 <=> a.type = "force_flatten"
BY DEF Results, Priority

LEMMA CheckRuleStep ==
    ASSUME RiskInv, NEW i \in DOMAIN rules, CheckRule(i)
    PROVE  RiskInv'
<1> DEFINE r == rules[i]
           result == Check(r, ctx)
<1>1. /\ pc = "checking" /\ i \in unchecked /\ unchecked \subseteq DOMAIN rules
      /\ \A j \in unchecked \ {i} : Precedes(i, j)
      /\ unchecked' = IF result.type = "force_flatten" THEN {} ELSE unchecked \ {i}
      /\ rules' = rules /\ pc' = pc /\ ctx' = ctx
  BY DEF CheckRule, RiskInv, RiskTypeOK
<1>2. /\ rules \in Seq(RuleSet) /\ triggered \in Seq(RuleSet) /\ most \in Results
      /\ ctx \in Contexts(Registered) /\ MostInv /\ HeardInv
  BY <1>1 DEF RiskInv, RiskTypeOK
<1>3. r \in RuleSet /\ \A j \in DOMAIN rules : rules[j] \in RuleSet
  BY <1>2
<1>4. \A j \in DOMAIN rules : Check(rules[j], ctx) \in RuleAnswers
  BY <1>2, <1>3, CheckAnswers
<1>5. \A j \in DOMAIN rules : Triggers(rules[j], ctx) => Check(rules[j], ctx) \in Results
  BY <1>4 DEF RuleAnswers, Triggers
<1>6. most.type # "force_flatten"
  BY <1>1, <1>2 DEF MostInv
<1>7. /\ Registered' = Registered
      /\ \A j, k : Precedes(j, k)' = Precedes(j, k)
  BY <1>1 DEF Registered, Precedes, LayerPlace
<1>8. i \notin Checked /\ Checked' = IF result.type = "force_flatten" THEN DOMAIN rules
                                     ELSE Checked \cup {i}
  BY <1>1 DEF Checked
<1>9. \A j \in Checked : Precedes(j, i)
  BY <1>1, <1>2 DEF MostInv
<1>10. \A j \in Checked', k \in unchecked' : Precedes(j, k)'
  <2>1. CASE result.type = "force_flatten"
    BY <1>1, <2>1
  <2>2. CASE result.type # "force_flatten"
    BY <1>1, <1>2, <1>7, <1>8, <2>2 DEF MostInv
  <2> QED
    BY <2>1, <2>2
<1>11. CASE ~Triggers(r, ctx)
  <2>1. triggered' = triggered /\ most' = most
    BY <1>11 DEF CheckRule
  <2>2. result.type = "none"
    BY <1>11 DEF Triggers, NoConcern, Result
  <2>3. Checked' = Checked \cup {i} /\ Heard' = Heard
    BY <1>1, <1>8, <1>11, <2>2 DEF Heard
  <2>4. \A j : Beats(j) => Beats(j)'
    BY <1>1, <1>7, <2>1, <2>3 DEF Beats
  <2>5. MostInv'
    BY <1>1, <1>2, <1>6, <1>10, <2>1, <2>3, <2>4 DEF MostInv
  <2>6. HeardInv'
    BY <1>1, <1>2, <2>1, <2>3 DEF HeardInv
  <2>7. RiskTypeOK'
    BY <1>1, <1>7, <2>1 DEF RiskInv, RiskTypeOK
  <2> QED
    BY <1>1, <1>2, <1>7, <2>5, <2>6, <2>7 DEF RiskInv
<1>12. CASE Triggers(r, ctx)
  <2>1. triggered' = Append(triggered, r) /\ most' = MoreRestrictive(result)
    BY <1>12 DEF CheckRule
  <2>2. result \in Results /\ most' \in Results
    BY <1>2, <1>5, <1>12, <2>1 DEF MoreRestrictive
  <2>3. /\ triggered' \in Seq(RuleSet) /\ triggered' # <<>>
        /\ DOMAIN triggered = 1..Len(triggered) /\ Len(triggered) \in Nat
        /\ DOMAIN triggered' = 1..(Len(triggered) + 1)
        /\ \A n \in DOMAIN triggered : triggered'[n] = triggered[n]
        /\ triggered'[Len(triggered) + 1] = r
    BY <1>2, <1>3, <2>1
  <2>4. i \in Heard'
    BY <1>1, <1>8, <1>12 DEF Heard
  <2>5. \A j \in Heard : j \in DOMAIN rules /\ Check(rules[j], ctx) \in Results
    BY <1>5 DEF Heard, Checked
  <2>6. Heard \subseteq Heard' /\ Heard' \subseteq DOMAIN rules
    BY <1>1, <1>8 DEF Heard, Checked
  <2>7. \A j \in Heard' \ Heard : j = i \/ (Precedes(i, j) /\ result.type = "force_flatten")
    BY <1>1, <1>8 DEF Heard, Checked
  <2>8. \A j \in Heard' : Check(rules[j], ctx) \in Results
    BY <1>1, <1>5, <2>6 DEF Heard
  <2>9. \A j \in Heard : Precedes(j, i)
    BY <1>9 DEF Heard
  <2>10. \A j \in DOMAIN rules : Precedes(i, j) => ~Precedes(j, i)
    BY <1>2, RunsBefore
  <2>11. ~Precedes(i, i)
    BY <2>10
  <2>12. most'.type = "force_flatten" => result.type = "force_flatten"
    BY <1>6, <2>1 DEF MoreRestrictive
  <2>13. result.type = "force_flatten" => most' = result
    <3> SUFFICES ASSUME result.type = "force_flatten" PROVE most' = result
      OBVIOUS
    <3>1. Priority[result.type] = 5 /\ Priority[most.type] \in 1..5 /\ Priority[most.type] # 5
      BY <1>2, <1>6, <2>2, Priorities
    <3> QED
      BY <2>1, <3>1 DEF MoreRestrictive
  <2>14. \E k \in Heard' : Check(rules[k], ctx) = most' /\ Beats(k)'
    <3>1. CASE triggered = <<>> \/ Priority[result.type] > Priority[most.type]
      <4>1. most' = result
        BY <2>1, <3>1 DEF MoreRestrictive
      <4> SUFFICES ASSUME NEW j \in Heard'
                   PROVE  \/ Priority[Check(rules[j], ctx).type] < Priority[result.type]
                          \/ /\ Priority[Check(rules[j], ctx).type] = Priority[result.type]
                             /\ ~Precedes(j, i)
        BY <1>1, <1>7, <2>4, <4>1 DEF Beats
      <4>2. CASE j \in Heard
        <5>1. triggered # <<>>
          BY <1>2, <4>2 DEF MostInv
        <5>2. PICK k \in Heard : Check(rules[k], ctx) = most /\ Beats(k)
          BY <1>2, <5>1 DEF MostInv
        <5>3. \/ Priority[Check(rules[j], ctx).type] < Priority[most.type]
              \/ Priority[Check(rules[j], ctx).type] = Priority[most.type]
          BY <4>2, <5>2 DEF Beats
        <5>4. /\ Priority[result.type] \in 1..5 /\ Priority[most.type] \in 1..5
              /\ Priority[Check(rules[j], ctx).type] \in 1..5
          BY <1>2, <2>2, <2>5, <4>2, Priorities
        <5> QED
          BY <3>1, <5>1, <5>3, <5>4
      <4>3. CASE j = i
        BY <2>11, <4>3
      <4>4. CASE j \notin Heard /\ j # i
        <5>1. Precedes(i, j) /\ result.type = "force_flatten" /\ ~Precedes(j, i)
          BY <2>6, <2>7, <2>10, <4>4
        <5>2. Priority[result.type] = 5 /\ Priority[Check(rules[j], ctx).type] \in 1..5
          BY <2>2, <2>8, <5>1, Priorities
        <5> QED
          BY <5>1, <5>2
      <4> QED
        BY <4>2, <4>3, <4>4
    <3>2. CASE ~(triggered = <<>> \/ Priority[result.type] > Priority[most.type])
      <4>1. /\ triggered # <<>> /\ most' = most /\ ~(Priority[result.type] > Priority[most.type])
        BY <2>1, <3>2 DEF MoreRestrictive
      <4>2. PICK k \in Heard : Check(rules[k], ctx) = most /\ Beats(k)
        BY <1>2, <4>1 DEF MostInv
      <4>3. result.type # "force_flatten"
        BY <1>6, <2>13, <4>1
      <4>4. Heard' \subseteq Heard \cup {i}
        BY <2>7, <4>3
      <4>5. ~Precedes(i, k)
        BY <1>2, <2>5, <2>9, RunsBefore
      <4>6. Priority[result.type] \in 1..5 /\ Priority[most.type] \in 1..5
        BY <1>2, <2>2, Priorities
      <4>7. \/ Priority[result.type] < Priority[most.type]
            \/ Priority[result.type] = Priority[most.type]
        BY <4>1, <4>6
      <4>8. Beats(k)'
        BY <1>1, <1>7, <4>1, <4>2, <4>4, <4>5, <4>7 DEF Beats
      <4> QED
        BY <2>6, <4>1, <4>2, <4>8
    <3> QED
      BY <3>1, <3>2
  <2>15. MostInv'
    <3>1. most'.type = "force_flatten" => unchecked' = {}
      BY <1>1, <2>12
    <3>2. triggered' # <<>> => \E k \in Heard' : Check(rules'[k], ctx') = most' /\ Beats(k)'
      BY <1>1, <2>14
    <3> QED
      BY <1>10, <2>3, <3>1, <3>2 DEF MostInv
  <2>16. HeardInv'
    <3> SUFFICES ASSUME most'.type # "force_flatten"
                 PROVE  /\ \A n \in DOMAIN triggered' : \E k \in Heard' : triggered'[n] = rules[k]
                        /\ \A k \in Heard' : \E n \in DOMAIN triggered' : triggered'[n] = rules[k]
                        /\ \A m, n \in DOMAIN triggered' : triggered'[m] = triggered'[n] => m = n
      BY <1>1 DEF HeardInv
    <3>1. Heard' = Heard \cup {i}
      BY <2>4, <2>6, <2>7, <2>13
    <3>2. /\ \A n \in DOMAIN triggered : \E k \in Heard : triggered[n] = rules[k]
          /\ \A k \in Heard : \E n \in DOMAIN triggered : triggered[n] = rules[k]
          /\ \A m, n \in DOMAIN triggered : triggered[m] = triggered[n] => m = n
      BY <1>2, <1>6 DEF HeardInv
    <3>3. \A n \in DOMAIN triggered : triggered[n] # r
      <4>1. \A k \in Heard : k \in DOMAIN rules /\ k # i
        BY <1>8 DEF Heard, Checked
      <4> QED
        BY <3>2, <4>1 DEF RiskInv
    <3>4. /\ DOMAIN triggered \subseteq DOMAIN triggered' /\ Len(triggered) + 1 \in DOMAIN triggered'
          /\ \A n \in DOMAIN triggered' : n \in DOMAIN triggered \/ n = Len(triggered) + 1
      BY <2>3
    <3>5. \A n \in DOMAIN triggered' : \E k \in Heard' : triggered'[n] = rules[k]
      BY <2>3, <3>1, <3>2, <3>4
    <3>6. \A k \in Heard' : \E n \in DOMAIN triggered' : triggered'[n] = rules[k]
      <4>1. ASSUME NEW k \in Heard PROVE \E n \in DOMAIN triggered' : triggered'[n] = rules[k]
        BY <2>3, <3>2, <3>4
      <4>2. triggered'[Len(triggered) + 1] = rules[i]
        BY <2>3
      <4> QED
        BY <3>1, <3>4, <4>1, <4>2
    <3>7. \A m, n \in DOMAIN triggered' : triggered'[m] = triggered'[n] => m = n
      BY <2>3, <3>2, <3>3, <3>4
    <3> QED
      BY <3>5, <3>6, <3>7
  <2>17. unchecked' \subseteq DOMAIN rules'
    BY <1>1
  <2>18. RiskTypeOK'
    BY <1>1, <1>2, <1>7, <2>2, <2>3, <2>17 DEF RiskInv, RiskTypeOK
  <2> QED
    BY <1>1, <1>2, <1>7, <2>15, <2>16, <2>18 DEF RiskInv
<1> QED
  BY <1>11, <1>12

LEMMA RiskInvNext == RiskInv /\ [RiskNext]_riskVars => RiskInv'
<1> SUFFICES ASSUME RiskInv, [RiskNext]_riskVars
             PROVE  RiskInv'
  OBVIOUS
<1>1. CASE UNCHANGED riskVars
  <2>1. /\ Registered' = Registered /\ Checked' = Checked /\ Heard' = Heard
        /\ \A i, j : Precedes(i, j)' = Precedes(i, j)
        /\ \A i : Beats(i)' = Beats(i)
    BY <1>1 DEF riskVars, Registered, Checked, Heard, Precedes, LayerPlace, Beats
  <2>2. /\ MostInv' = MostInv /\ HeardInv' = HeardInv
    BY <1>1, <2>1 DEF riskVars, MostInv, HeardInv
  <2> QED
    BY <1>1, <2>1, <2>2 DEF riskVars, RiskInv, RiskTypeOK
<1> QED
  BY <1>1, RegisterStep, EvaluateRulesStep, CheckRuleStep, BuildAndReturnStep DEF RiskNext

(* The registered rules, contexts and answers keep their types.            *)
THEOREM RiskTypeCorrect == RiskSpec => []RiskTypeOK
<1>1. RiskInv => RiskTypeOK
  BY DEF RiskInv
<1> QED
  BY <1>1, RiskInvInit, RiskInvNext, PTL DEF RiskSpec

(* An answer is right, whichever rules are registered in whatever order:   *)
(* it is the most restrictive one and the first of those, it hides no      *)
(* concerned rule but behind a flatten of the account, and a resize leaves *)
(* fewer shares.                                                           *)
THEOREM AnswerAlwaysRight == RiskSpec => []AnswerIsRight
<1>1. RiskInv => AnswerIsRight
  <2> SUFFICES ASSUME RiskInv, pc = "answered"
               PROVE  AnswerIsRight
    BY DEF AnswerIsRight, MostRestrictiveWins, TriggeredIsComplete, ResizeReduces
  <2>1. /\ rules \in Seq(RuleSet) /\ triggered \in Seq(RuleSet) /\ most \in Results
        /\ ctx \in Contexts(Registered) /\ MostInv /\ HeardInv /\ unchecked = {}
    BY DEF RiskInv, RiskTypeOK
  <2>2. Heard = {i \in DOMAIN rules : Triggers(rules[i], ctx)} /\ DOMAIN rules = 1..Len(rules)
        /\ DOMAIN triggered = 1..Len(triggered)
    BY <2>1 DEF Heard, Checked
  <2>3. Concerned = {rules[i] : i \in Heard}
    BY <2>2 DEF Concerned, Registered
  <2>4. Concerned = {} <=> triggered = <<>>
    BY <2>1, <2>3 DEF MostInv
  <2>5. MostRestrictiveWins
    <3>1. CASE triggered = <<>>
      BY <2>1, <2>4, <3>1 DEF MostRestrictiveWins, MostInv, NoResult, Result
    <3>2. CASE triggered # <<>>
      <4>1. PICK i \in Heard : Check(rules[i], ctx) = most /\ Beats(i)
        BY <2>1, <3>2 DEF MostInv
      <4>2. \A j \in DOMAIN rules : Check(rules[j], ctx) # NoConcern => j \in Heard
        BY <2>2 DEF Triggers
      <4>3. \A j \in DOMAIN rules :
               LET other == Check(rules[j], ctx)
               IN  other # NoConcern =>
                      \/ Priority[other.type] < Priority[most.type]
                      \/ Priority[other.type] = Priority[most.type] /\ ~Precedes(j, i)
        BY <4>1, <4>2 DEF Beats
      <4> QED
        BY <2>2, <2>4, <3>2, <4>1, <4>3 DEF MostRestrictiveWins
    <3> QED
      BY <3>1, <3>2
  <2>6. TriggeredIsComplete
    <3> SUFFICES ASSUME most.type # "force_flatten"
                 PROVE  /\ {triggered[n] : n \in 1..Len(triggered)} = Concerned
                        /\ \A m, n \in 1..Len(triggered) : triggered[m] = triggered[n] => m = n
      BY DEF TriggeredIsComplete
    <3>1. /\ \A n \in DOMAIN triggered : \E i \in Heard : triggered[n] = rules[i]
          /\ \A i \in Heard : \E n \in DOMAIN triggered : triggered[n] = rules[i]
          /\ \A m, n \in DOMAIN triggered : triggered[m] = triggered[n] => m = n
      BY <2>1 DEF HeardInv
    <3>2. \A x : x \in {triggered[n] : n \in DOMAIN triggered} <=> x \in {rules[i] : i \in Heard}
      BY <3>1
    <3> QED
      BY <2>2, <2>3, <3>1, <3>2
  <2>7. ResizeReduces
    <3> SUFFICES ASSUME most.type = "resize", ctx.quantity > 0
                 PROVE  most.qty \in 0..(ctx.quantity - 1)
      BY DEF ResizeReduces
    <3>1. triggered # <<>>
      BY <2>1 DEF MostInv, NoResult, Result
    <3>2. PICK i \in Heard : Check(rules[i], ctx) = most
      BY <2>1, <3>1 DEF MostInv
    <3>3. rules[i] \in RuleSet
      BY <2>1, <2>2
    <3>4. most.qty < ctx.quantity
      BY <2>1, <3>2, <3>3, CheckAnswers
    <3>5. most.qty \in Nat /\ ctx.quantity \in Nat
      BY <2>1, ContextFields DEF Results
    <3> QED
      BY <3>4, <3>5
  <2> QED
    BY <2>5, <2>6, <2>7 DEF AnswerIsRight
<1> QED
  BY <1>1, RiskInvInit, RiskInvNext, PTL DEF RiskSpec

-----------------------------------------------------------------------------
(* The gateway of the tools.                                               *)

(* The calls of a task that the gateway counts are those it let through:   *)
(* an eviction takes no call that is young enough to count.                *)
GatewayInv ==
    /\ GatewayTypeOK
    /\ DOMAIN counted = AgentTasks
    /\ \A t \in AgentTasks : IsFiniteSet(counted[t]) /\ counted[t] = Recent(stamps, t)
    /\ \A t \in DOMAIN stamps :
          IsFiniteSet(stamps[t]) /\ \A call \in stamps[t] : call[1] \in 0..now
    /\ GatewayHolds

(* No two calls of a task that count at once are the same.                 *)
CallsDiffer ==
    \A t \in AgentTasks : \A call \in counted[t] :
        call[1] \in 0..now /\ (call[1] = now => call[2] \in 0..(Cardinality(counted[t]) - 1))

LEMMA EvictedKeepsYoung ==
    ASSUME GatewayInv, NEW t
    PROVE  /\ Recent(Evicted, t) = Recent(stamps, t)
           /\ DOMAIN Evicted \subseteq DOMAIN stamps
           /\ \A u \in DOMAIN Evicted : Evicted[u] = stamps[u]
<1> DEFINE stale == {u \in DOMAIN stamps : \A call \in stamps[u] : now - call[1] > EvictAfter}
<1>1. Evicted = IF Full THEN [u \in DOMAIN stamps \ stale |-> stamps[u]] ELSE stamps
  BY DEF Evicted
<1>2. CASE t \in stale /\ Full
  <2>1. \A call \in stamps[t] : ~(now - call[1] < RateWindow)
    <3> SUFFICES ASSUME NEW call \in stamps[t] PROVE ~(now - call[1] < RateWindow)
      OBVIOUS
    <3>1. now - call[1] > EvictAfter /\ call[1] \in Int /\ now \in Int
      BY <1>2 DEF GatewayInv, GatewayTypeOK
    <3> QED
      BY <3>1, GatewayAssumption
  <2>2. Recent(stamps, t) = {}
    BY <2>1 DEF Recent, Young
  <2>3. Recent(Evicted, t) = {}
    BY <1>1, <1>2 DEF Recent
  <2> QED
    BY <1>1, <1>2, <2>2, <2>3
<1>3. CASE ~(t \in stale /\ Full)
  BY <1>1, <1>3 DEF Recent
<1> QED
  BY <1>2, <1>3

LEMMA GatewayInvInit == GatewayInit => GatewayInv /\ CallsDiffer
<1> SUFFICES ASSUME GatewayInit
             PROVE  GatewayInv /\ CallsDiffer
  OBVIOUS
<1>1. GatewayTypeOK
  <2>1. {halted, liveAllowed} \subseteq BOOLEAN
    BY Zenon DEF GatewayInit
  <2>2. now \in 0..MaxClock
    BY GatewayAssumption DEF GatewayInit
  <2> QED
    BY <2>1, <2>2 DEF GatewayInit, GatewayTypeOK
<1>2. IsFiniteSet({}) /\ Cardinality({}) = 0
  BY FS_EmptySet
<1>3. \A t \in AgentTasks : counted[t] = {} /\ Recent(stamps, t) = {}
  BY DEF GatewayInit, Recent
<1>4. GatewayHolds
  BY <1>2, <1>3, GatewayAssumption DEF GatewayInit, GatewayHolds, RateLimited, ThrottledForCause,
     LivePermitted
<1> QED
  BY <1>1, <1>2, <1>3, <1>4 DEF GatewayInit, GatewayInv, CallsDiffer

(* What the policy lets through in Live.                                   *)
LEMMA PolicyPermits ==
    ASSUME NEW r, Violations(r) = {}, r.env = "live"
    PROVE  LET tool == ALL_TOOLS[r.tool]
           IN  /\ r.role_allowed
               /\ tool.category # "read_only" => ~halted /\ ~r.unresolved
               /\ tool.approval => liveAllowed
               /\ tool.category = "controlled_operation" => r.binding /\ r.trading_time
<1> DEFINE tool == ALL_TOOLS[r.tool]
           controlled == tool.category = "controlled_operation"
           S == {Flag(r.env \notin tool.envs, "env_not_allowed"),
                 Flag(~r.role_allowed, "role_not_allowed"),
                 Flag(r.env = "live" /\ halted /\ tool.category # "read_only", "kill_switch_active"),
                 Flag(r.env = "live" /\ ~liveAllowed /\ tool.approval, "live_trading_not_allowed"),
                 Flag(r.env = "live" /\ controlled /\ ~r.binding, "version_binding_required_for_live"),
                 Flag(r.unresolved /\ tool.category # "read_only", "unresolved_exceptions"),
                 Flag(r.env = "live" /\ controlled /\ ~r.trading_time, "non_trading_time_blocked")}
<1>1. Violations(r) = UNION S
  BY DEF Violations
<1>2. \A flags \in S : flags = {}
  BY <1>1
<1>3. /\ Flag(~r.role_allowed, "role_not_allowed") = {}
      /\ Flag(r.env = "live" /\ halted /\ tool.category # "read_only", "kill_switch_active") = {}
      /\ Flag(r.env = "live" /\ ~liveAllowed /\ tool.approval, "live_trading_not_allowed") = {}
      /\ Flag(r.env = "live" /\ controlled /\ ~r.binding, "version_binding_required_for_live") = {}
      /\ Flag(r.unresolved /\ tool.category # "read_only", "unresolved_exceptions") = {}
      /\ Flag(r.env = "live" /\ controlled /\ ~r.trading_time, "non_trading_time_blocked") = {}
  BY <1>2
<1> QED
  BY <1>3 DEF Flag

(* A tool that needs approval is a controlled operation.                   *)
LEMMA ApprovedAreControlled ==
    ASSUME NEW name \in DOMAIN ALL_TOOLS
    PROVE  ALL_TOOLS[name].approval => ALL_TOOLS[name].category = "controlled_operation"
BY DEF ALL_TOOLS, Tool

(* The invariants but for what is told of the reply.                       *)
LEMMA CountedStep ==
    ASSUME GatewayInv, CallsDiffer, NEW r \in CallRequest, InvokeCounted(r)
    PROVE  /\ \A t \in DOMAIN stamps' : /\ IsFiniteSet(stamps'[t])
                                        /\ Cardinality(stamps'[t]) \in 1..RateLimit
                                        /\ \A call \in stamps'[t] : call[1] \in 0..now
           /\ DOMAIN stamps' \subseteq AgentTasks /\ DOMAIN counted' = AgentTasks
           /\ \A t \in AgentTasks : IsFiniteSet(counted'[t]) /\ counted'[t] = Recent(stamps, t)'
           /\ RateLimited' /\ CallsDiffer'
           /\ ~WithinRate(r.task) => Cardinality(counted'[r.task]) = RateLimit
<1> DEFINE task == r.task
           call == ThisCall(task)
<1>1. /\ task \in AgentTasks /\ now' = now
      /\ stamps' = Stamped(task)
      /\ counted' = IF WithinRate(task) THEN [counted EXCEPT ![task] = @ \cup {call}] ELSE counted
  BY DEF InvokeCounted, CallRequest
<1>2. /\ \A t \in AgentTasks : IsFiniteSet(counted[t]) /\ counted[t] = Recent(stamps, t)
                               /\ Cardinality(counted[t]) \in Nat
                               /\ Cardinality(counted[t]) <= RateLimit
      /\ DOMAIN counted = AgentTasks /\ DOMAIN stamps \subseteq AgentTasks
      /\ \A t \in DOMAIN stamps : /\ IsFiniteSet(stamps[t])
                                  /\ Cardinality(stamps[t]) \in 1..RateLimit
                                  /\ \A c \in stamps[t] : c[1] \in 0..now
      /\ now \in Nat
  BY FS_CardinalityType DEF GatewayInv, GatewayTypeOK, GatewayHolds, RateLimited
<1>3. /\ \A t : Recent(Evicted, t) = Recent(stamps, t)
      /\ DOMAIN Evicted \subseteq DOMAIN stamps
      /\ \A u \in DOMAIN Evicted : Evicted[u] = stamps[u]
  BY EvictedKeepsYoung
<1>4. WithinRate(task) <=> Cardinality(counted[task]) < RateLimit
  BY <1>1, <1>2, <1>3 DEF WithinRate
<1>5. call = <<now, Cardinality(counted[task])>> /\ call \notin counted[task]
  <2>1. call = <<now, Cardinality(counted[task])>>
    BY DEF ThisCall
  <2> QED
    BY <1>1, <1>2, <2>1 DEF CallsDiffer
<1> HIDE DEF call, task
<1>6. CASE ~WithinRate(task)
  <2>1. stamps' = Evicted /\ counted' = counted
    BY <1>1, <1>6 DEF Stamped
  <2>2. \A t \in AgentTasks : Recent(stamps, t)' = Recent(stamps, t)
    BY <1>1, <1>3, <2>1 DEF Recent, Young
  <2>3. Cardinality(counted'[task]) = RateLimit
    BY <1>1, <1>2, <1>4, <1>6, <2>1, GatewayAssumption
  <2>4. CallsDiffer' /\ RateLimited'
    BY <1>1, <1>2, <2>1 DEF CallsDiffer, RateLimited
  <2> QED
    BY <1>2, <1>3, <2>1, <2>2, <2>3, <2>4 DEF task
<1>7. CASE WithinRate(task)
  <2>1. /\ stamps' = [u \in DOMAIN Evicted \cup {task} |->
                        IF u = task THEN counted[task] \cup {call} ELSE Evicted[u]]
        /\ counted' = [counted EXCEPT ![task] = @ \cup {call}]
    BY <1>1, <1>2, <1>3, <1>7 DEF Stamped, call
  <2>2. /\ IsFiniteSet(counted[task] \cup {call})
        /\ Cardinality(counted[task] \cup {call}) = Cardinality(counted[task]) + 1
        /\ Cardinality(counted[task]) + 1 <= RateLimit
    <3>1. IsFiniteSet(counted[task]) /\ Cardinality(counted[task]) \in Nat /\ RateLimit \in Nat
      BY <1>1, <1>2, FS_CardinalityType, GatewayAssumption
    <3>2. Cardinality(counted[task]) + 1 <= RateLimit
      BY <1>4, <1>7, <3>1
    <3> QED
      BY <1>5, <3>1, <3>2, FS_AddElement
  <2>3. \A c \in counted[task] \cup {call} :
            /\ c[1] \in 0..now
            /\ c[1] = now => c[2] \in 0..Cardinality(counted[task])
    BY <1>1, <1>2, <1>5 DEF CallsDiffer
  <2>4. \A t \in AgentTasks : counted'[t] = Recent(stamps, t)'
    <3> SUFFICES ASSUME NEW t \in AgentTasks PROVE counted'[t] = Recent(stamps, t)'
      OBVIOUS
    <3>1. CASE t = task
      <4>1. counted[task] \cup {call} = Young(counted[task] \cup {call})
        <5>1. \A c \in counted[task] : now - c[1] < RateWindow
          BY <1>1, <1>2 DEF Recent, Young
        <5>2. now - call[1] < RateWindow
          BY <1>2, <1>5, GatewayAssumption
        <5> QED
          BY <5>1, <5>2 DEF Young
      <4>2. stamps'[t] = counted[task] \cup {call} /\ t \in DOMAIN stamps'
        BY <2>1, <3>1
      <4>3. Recent(stamps, t)' = Young(counted[task] \cup {call})
        BY <1>1, <4>2 DEF Recent, Young
      <4> QED
        BY <1>1, <1>2, <2>1, <3>1, <4>1, <4>3
    <3>2. CASE t # task
      <4>1. /\ t \in DOMAIN stamps' <=> t \in DOMAIN Evicted
            /\ t \in DOMAIN Evicted => stamps'[t] = Evicted[t]
        BY <2>1, <3>2
      <4>2. Recent(stamps, t)' = Recent(Evicted, t)
        BY <1>1, <4>1 DEF Recent, Young
      <4> QED
        BY <1>2, <1>3, <2>1, <3>2, <4>2
    <3> QED
      BY <3>1, <3>2
  <2>5. \A t \in AgentTasks : counted'[t] = IF t = task THEN counted[task] \cup {call} ELSE counted[t]
    BY <1>2, <2>1
  <2>6. RateLimited' /\ \A t \in AgentTasks : IsFiniteSet(counted'[t])
    BY <1>2, <2>2, <2>5 DEF RateLimited
  <2>7. CallsDiffer'
    <3> SUFFICES ASSUME NEW t \in AgentTasks, NEW c \in counted'[t]
                 PROVE  /\ c[1] \in 0..now
                        /\ c[1] = now => c[2] \in 0..(Cardinality(counted'[t]) - 1)
      BY <1>1 DEF CallsDiffer
    <3>1. CASE t = task
      BY <1>2, <2>2, <2>3, <2>5, <3>1
    <3>2. CASE t # task
      BY <2>5, <3>2 DEF CallsDiffer
    <3> QED
      BY <3>1, <3>2
  <2>8. \A t \in DOMAIN stamps' : /\ IsFiniteSet(stamps'[t])
                                  /\ Cardinality(stamps'[t]) \in 1..RateLimit
                                  /\ \A c \in stamps'[t] : c[1] \in 0..now
    <3> SUFFICES ASSUME NEW t \in DOMAIN stamps'
                 PROVE  /\ IsFiniteSet(stamps'[t])
                        /\ Cardinality(stamps'[t]) \in 1..RateLimit
                        /\ \A c \in stamps'[t] : c[1] \in 0..now
      OBVIOUS
    <3>1. CASE t = task
      <4>1. stamps'[t] = counted[task] \cup {call}
        BY <2>1, <3>1
      <4>2. Cardinality(counted[task]) + 1 \in 1..RateLimit
        BY <1>1, <1>2, <2>2, GatewayAssumption
      <4> QED
        BY <2>2, <2>3, <4>1, <4>2
    <3>2. CASE t # task
      BY <1>2, <1>3, <2>1, <3>2
    <3> QED
      BY <3>1, <3>2
  <2>9. DOMAIN stamps' \subseteq AgentTasks /\ DOMAIN counted' = AgentTasks
    BY <1>1, <1>2, <1>3, <2>1
  <2> QED
    BY <1>7, <2>4, <2>6, <2>7, <2>8, <2>9 DEF task
<1> QED
  BY <1>6, <1>7

LEMMA InvokeCountedStep ==
    ASSUME GatewayInv, CallsDiffer, NEW r \in CallRequest, InvokeCounted(r)
    PROVE  GatewayInv' /\ CallsDiffer'
<1>1. /\ now' = now /\ halted' = halted /\ liveAllowed' = liveAllowed
      /\ r.tool \in DOMAIN ALL_TOOLS /\ Violations(r) = {}
  BY DEF InvokeCounted
<1>2. \/ Answers(r, "denied", "rate_limit") /\ ~WithinRate(r.task)
      \/ Answers(r, "failed", "no_key")
      \/ /\ Answers(r, "pending_approval", "approval") /\ ReviewRequired(r)
         /\ ALL_TOOLS[r.tool].idempotent => r.key
      \/ /\ Answers(r, "success", "none") /\ ~ReviewRequired(r)
         /\ ALL_TOOLS[r.tool].idempotent => r.key
  BY DEF InvokeCounted
<1>3. PICK status, reason :
         /\ reply' = [request |-> r, status |-> status, reason |-> reason]
         /\ status \in CallStatuses /\ reason \in Reasons
         /\ reason = "rate_limit" => ~WithinRate(r.task)
         /\ status \in {"success", "pending_approval"} =>
               /\ ALL_TOOLS[r.tool].idempotent => r.key
               /\ status = "pending_approval" <=> ReviewRequired(r)
  BY <1>2 DEF Answers, CallStatuses, Reasons
<1>4. reply' \in Reply /\ reply'.request = r /\ reply'.status = status /\ reply'.reason = reason
  BY <1>3 DEF Reply
<1>5. ThrottledForCause'
  BY <1>3, <1>4, CountedStep DEF ThrottledForCause
<1>6. LivePermitted'
  <2> SUFFICES ASSUME status \in {"success", "pending_approval"}, r.env = "live"
               PROVE  LET tool == ALL_TOOLS[r.tool]
                      IN  /\ r.tool \in DOMAIN ALL_TOOLS /\ r.role_allowed
                          /\ tool.category # "read_only" => ~halted /\ ~r.unresolved
                          /\ tool.approval => /\ status = "pending_approval" /\ liveAllowed
                                              /\ r.binding /\ r.trading_time
                          /\ tool.idempotent => r.key
    BY <1>1, <1>4 DEF LivePermitted
  <2> QED
    BY <1>1, <1>3, PolicyPermits, ApprovedAreControlled DEF ReviewRequired
<1>7. GatewayTypeOK'
  BY <1>1, <1>4, CountedStep DEF GatewayInv, GatewayTypeOK
<1> QED
  BY <1>1, <1>5, <1>6, <1>7, CountedStep DEF GatewayInv, GatewayHolds

LEMMA GatewayInvNext ==
    GatewayInv /\ CallsDiffer /\ [GatewayNext]_gatewayVars => GatewayInv' /\ CallsDiffer'
<1> SUFFICES ASSUME GatewayInv, CallsDiffer, [GatewayNext]_gatewayVars
             PROVE  GatewayInv' /\ CallsDiffer'
  OBVIOUS
<1> USE DEF GatewayInv
<1>1. ASSUME UNCHANGED <<stamps, now, counted>>, {halted', liveAllowed'} \subseteq BOOLEAN,
             reply' = NoReply \/ reply' \in Reply, ThrottledForCause', LivePermitted'
      PROVE  GatewayInv' /\ CallsDiffer'
  <2>1. \A t \in AgentTasks : Recent(stamps, t)' = Recent(stamps, t)
    BY <1>1 DEF Recent, Young
  <2>2. GatewayTypeOK' /\ RateLimited' /\ CallsDiffer'
    BY <1>1 DEF GatewayTypeOK, GatewayHolds, RateLimited, CallsDiffer
  <2> QED
    BY <1>1, <2>1, <2>2 DEF GatewayHolds
<1>2. ASSUME NEW r \in CallRequest, InvokeRefused(r)
      PROVE  GatewayInv' /\ CallsDiffer'
  <2>1. /\ UNCHANGED <<stamps, now, halted, liveAllowed, counted>>
        /\ \/ Refuses("denied", "forbidden") \/ Refuses("failed", "unknown")
           \/ Refuses("denied", "policy")
    BY <1>2 DEF InvokeRefused
  <2>2. /\ reply' \in Reply /\ reply'.status \notin {"success", "pending_approval"}
        /\ reply'.reason # "rate_limit"
    BY <2>1 DEF Refuses, Reply
  <2>3. ThrottledForCause' /\ LivePermitted'
    BY <2>2 DEF ThrottledForCause, LivePermitted
  <2> QED
    BY <1>1, <2>1, <2>2, <2>3 DEF GatewayTypeOK
<1>3. CASE TakeReply
  <2>1. ThrottledForCause' /\ LivePermitted'
    BY <1>3 DEF TakeReply, ThrottledForCause, LivePermitted
  <2> QED
    BY <1>1, <1>3, <2>1 DEF TakeReply, GatewayTypeOK
<1>4. CASE HaltTrading \/ SetLiveTradingAllowed
  <2>1. reply = NoReply /\ UNCHANGED <<stamps, now, reply, counted>>
    BY <1>4 DEF HaltTrading, SetLiveTradingAllowed
  <2>2. {halted', liveAllowed'} \subseteq BOOLEAN
    <3>1. halted \in BOOLEAN /\ liveAllowed \in BOOLEAN
      BY DEF GatewayTypeOK
    <3> QED
      BY <1>4, <3>1 DEF HaltTrading, SetLiveTradingAllowed
  <2>3. ThrottledForCause' /\ LivePermitted'
    BY <2>1 DEF ThrottledForCause, LivePermitted
  <2> QED
    BY <1>1, <2>1, <2>2, <2>3
<1>5. CASE TimePasses
  <2>1. /\ reply = NoReply /\ now < MaxClock /\ now' = now + 1
        /\ UNCHANGED <<stamps, halted, liveAllowed, reply>>
        /\ counted' = [t \in AgentTasks |-> {call \in counted[t] : now' - call[1] < RateWindow}]
    BY <1>5 DEF TimePasses
  <2>2. /\ now \in 0..MaxClock /\ MaxClock \in Nat /\ RateWindow \in Nat /\ RateLimit \in Nat
        /\ now' \in 0..MaxClock /\ DOMAIN stamps \subseteq AgentTasks
    BY <2>1, GatewayAssumption DEF GatewayTypeOK
  <2>3. \A t \in AgentTasks : counted'[t] = Recent(stamps, t)'
    <3> SUFFICES ASSUME NEW t \in AgentTasks PROVE counted'[t] = Recent(stamps, t)'
      OBVIOUS
    <3>1. CASE t \in DOMAIN stamps
      <4>1. \A call \in stamps[t] : now' - call[1] < RateWindow => now - call[1] < RateWindow
        <5> SUFFICES ASSUME NEW call \in stamps[t]
                     PROVE  now' - call[1] < RateWindow => now - call[1] < RateWindow
          OBVIOUS
        <5>1. call[1] \in Int /\ now \in Int
          BY <2>2, <3>1
        <5> QED
          BY <2>1, <2>2, <5>1
      <4>2. counted[t] = {call \in stamps[t] : now - call[1] < RateWindow}
        BY <3>1 DEF Recent, Young
      <4>3. Recent(stamps, t)' = {call \in stamps[t] : now' - call[1] < RateWindow}
        BY <2>1, <3>1 DEF Recent, Young
      <4> QED
        BY <2>1, <4>1, <4>2, <4>3
    <3>2. CASE t \notin DOMAIN stamps
      BY <2>1, <3>2 DEF Recent
    <3> QED
      BY <3>1, <3>2
  <2>4. \A t \in AgentTasks : counted'[t] \subseteq counted[t]
    BY <2>1
  <2>5. \A t \in AgentTasks : /\ IsFiniteSet(counted'[t])
                              /\ Cardinality(counted'[t]) <= RateLimit
    <3> SUFFICES ASSUME NEW t \in AgentTasks
                 PROVE  IsFiniteSet(counted'[t]) /\ Cardinality(counted'[t]) <= RateLimit
      OBVIOUS
    <3>1. IsFiniteSet(counted[t]) /\ Cardinality(counted[t]) <= RateLimit
      BY DEF GatewayHolds, RateLimited
    <3>2. /\ IsFiniteSet(counted'[t]) /\ Cardinality(counted'[t]) <= Cardinality(counted[t])
          /\ Cardinality(counted'[t]) \in Nat /\ Cardinality(counted[t]) \in Nat
      BY <2>4, <3>1, FS_Subset, FS_CardinalityType
    <3> QED
      BY <2>2, <3>1, <3>2
  <2>6. \A t \in DOMAIN stamps : \A call \in stamps[t] : call[1] \in 0..now'
    BY <2>1, <2>2
  <2>7. CallsDiffer'
    <3> SUFFICES ASSUME NEW t \in AgentTasks, NEW call \in counted'[t]
                 PROVE  call[1] \in 0..now' /\ call[1] # now'
      BY DEF CallsDiffer
    <3>1. call[1] \in 0..now
      BY <2>4 DEF CallsDiffer
    <3> QED
      BY <2>1, <2>2, <3>1
  <2>8. GatewayTypeOK' /\ RateLimited' /\ ThrottledForCause' /\ LivePermitted'
    BY <2>1, <2>2, <2>5 DEF GatewayTypeOK, RateLimited, ThrottledForCause, LivePermitted
  <2> QED
    BY <2>1, <2>3, <2>5, <2>6, <2>7, <2>8 DEF GatewayHolds
<1>6. CASE UNCHANGED gatewayVars
  <2>1. UNCHANGED <<stamps, now, halted, liveAllowed, reply, counted>>
    BY <1>6 DEF gatewayVars
  <2>2. ThrottledForCause' /\ LivePermitted'
    BY <2>1 DEF GatewayHolds, ThrottledForCause, LivePermitted
  <2> QED
    BY <1>1, <2>1, <2>2 DEF GatewayTypeOK
<1> QED
  BY <1>2, <1>3, <1>4, <1>5, <1>6, InvokeCountedStep DEF GatewayNext

(* The table of calls, the clock and the replies keep their types, and the *)
(* table no more than RateLimit calls for any task.                        *)
THEOREM GatewayTypeCorrect == GatewaySpec => []GatewayTypeOK
<1>1. GatewayInv => GatewayTypeOK
  BY DEF GatewayInv
<1> QED
  BY <1>1, GatewayInvInit, GatewayInvNext, PTL DEF GatewaySpec

(* For any tasks, limits and windows, in any order of calls, switches and  *)
(* evictions: the rate limit holds and throttles nobody without cause, and *)
(* what is let through in Live is what the policy allows.                  *)
THEOREM GatewayAlwaysHolds == GatewaySpec => []GatewayHolds
<1>1. GatewayInv => GatewayHolds
  BY DEF GatewayInv
<1> QED
  BY <1>1, GatewayInvInit, GatewayInvNext, PTL DEF GatewaySpec

-----------------------------------------------------------------------------
(* The five together: each step is one of one of them, and leaves the      *)
(* state of the others alone.                                              *)

LEMMA EachPartStarts ==
    Init => RiskInit /\ GateInit /\ FlattenInit /\ GovInit /\ GatewayInit
BY DEF Init

LEMMA EachPartSteps ==
    [Next]_vars => /\ [RiskNext]_riskVars /\ [GateNext]_gateVars /\ [FlattenNext]_flattenVars
                   /\ [GovNext]_govVars /\ [GatewayNext]_gatewayVars
BY DEF Next, vars, agentVars

(* The state of every part keeps its type, whatever the sizes.             *)
THEOREM ControlsTypesCorrect == Spec => []TypesOK
<1>1. Spec => RiskSpec /\ GateSpec /\ FlattenSpec /\ GovSpec /\ GatewaySpec
  BY EachPartStarts, EachPartSteps, PTL
     DEF Spec, RiskSpec, GateSpec, FlattenSpec, GovSpec, GatewaySpec
<1>2. RiskTypeOK /\ GateTypeOK /\ FlattenTypeOK /\ GovTypeOK /\ GatewayTypeOK => TypesOK
  BY DEF TypesOK
<1> QED
  BY <1>1, <1>2, RiskTypeCorrect, GateTypeCorrect, FlattenTypeCorrect, GovTypeCorrect,
     GatewayTypeCorrect, PTL
=============================================================================
