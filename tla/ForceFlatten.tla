---------------------------- MODULE ForceFlatten ----------------------------
(***************************************************************************)
(* The force flatten service (hqmts/risk/force_flatten.py): a flatten      *)
(* sells every open position, past the signals but through the final       *)
(* check, and retry_failed() tries again what failed.  Calls overlap, and  *)
(* wait for the positions and for the order service; the order service,    *)
(* which is external, may take an order and fail to say so.                *)
(***************************************************************************)
EXTENDS FinalCheck, FiniteSets

CONSTANTS
    Instruments,    \* instruments that may be held
    Flattens,       \* flatten ids
    FlattenCalls,   \* tasks that call execute_flatten() and retry_failed()
    MaxRetries      \* max_retries_per_position

ASSUME FlattenAssumption ==
    /\ MaxRetries \in Nat \ {0}
    /\ IsFiniteSet(FlattenCalls) /\ IsFiniteSet(Instruments)

VARIABLES
    service,    \* what the service was built with: positions, an order service
    positions,  \* the open positions
    progress,   \* progress[f], or NoProgress
    tasks,      \* tasks[f][i], for the positions that f found open
    flattening, \* flattening[c]: where the call of c stands
    taken,      \* history: orders that the broker took, per flatten and instrument
    shared      \* history: tasks that two calls had on their lists at once

flattenVars == <<service, positions, progress, tasks, flattening, taken, shared>>

NoProgress == [total |-> -1]
Started == [total |-> 0, flattened |-> 0, remaining |-> 0, failed |-> 0, skipped |-> 0]

IsComplete(f) == progress[f].remaining = 0

Free == [at |-> "idle"]

Position == [available: Quantities, today: 0..1]

FlattenInit ==
    /\ service \in [repo: BOOLEAN, orders: BOOLEAN]
    /\ \E open \in SUBSET Instruments : positions \in [open -> Position]
    /\ progress = [f \in Flattens |-> NoProgress]
    /\ tasks = [f \in Flattens |-> [i \in {} |-> Free]]
    /\ flattening = [c \in FlattenCalls |-> Free]
    /\ taken = [f \in Flattens |-> [i \in Instruments |-> 0]]
    /\ shared = {}

GoesTo(c, state) == flattening' = [flattening EXCEPT ![c] = state]

(* execute_flatten() up to its query; without a position repository, as    *)
(* the HTTP route builds the service, it is done.                          *)
ExecuteFlatten(c, f) ==
    /\ flattening[c] = Free /\ progress[f] = NoProgress
    /\ progress' = [progress EXCEPT ![f] = Started]
    /\ GoesTo(c, IF service.repo THEN [at |-> "querying", flatten |-> f] ELSE Free)
    /\ UNCHANGED <<service, positions, tasks, taken, shared>>

Excess(p) == p.available - p.today

(* Mutant: shares bought today are sold too. *)
TaskOfAll(p) ==
    [available |-> p.available, today |-> p.today, sellable |-> p.available, attempts |-> 0,
     status |-> IF p.available = 0 THEN "skipped_t1" ELSE "pending", error |-> "none"]

(* A task sells max(0, available - today), or is skipped. *)
TaskOf(p) ==
    LET sellable == IF Excess(p) > 0 THEN Excess(p) ELSE 0
    IN  [available |-> p.available, today |-> p.today, sellable |-> sellable, attempts |-> 0,
         status |-> IF sellable = 0 THEN "skipped_t1" ELSE "pending", error |-> "none"]

Selling(f, kind, todo) ==
    IF todo = {} THEN Free
    ELSE [at |-> "selling", flatten |-> f, kind |-> kind, todo |-> todo]

(* The positions arrive: a task each. *)
BuildTasks(c) ==
    LET f == flattening[c].flatten
        built == [i \in DOMAIN positions |-> TaskOf(positions[i])]
        todo == {i \in DOMAIN built : built[i].sellable > 0}
    IN  /\ flattening[c].at = "querying"
        /\ tasks' = [tasks EXCEPT ![f] = built]
        /\ progress' = [progress EXCEPT ![f] =
                            [@ EXCEPT !.total = Cardinality(DOMAIN built),
                                      !.remaining = Cardinality(todo),
                                      !.skipped = Cardinality(DOMAIN built \ todo)]]
        /\ GoesTo(c, Selling(f, "execute", todo))
        /\ UNCHANGED <<service, positions, taken, shared>>

(* What the call still has to sell, the order under way included. *)
OnList(c, f) ==
    IF flattening[c].at \in {"selling", "submitting"} /\ flattening[c].flatten = f
    THEN flattening[c].todo ELSE {}

(* Mutants: a failed task is tried without end; an order that was sent, or *)
(* is still to be sent, is tried again.                                    *)
RetryableForever(f) == {i \in DOMAIN tasks[f] : tasks[f][i].status = "failed"}

RetryableAll(f) == {i \in DOMAIN tasks[f] : tasks[f][i].status # "skipped_t1"
                                            /\ tasks[f][i].attempts < MaxRetries}

Retryable(f) == {i \in DOMAIN tasks[f] : tasks[f][i].status = "failed"
                                         /\ tasks[f][i].attempts < MaxRetries}

(* retry_failed(): its list is made once, at the call. *)
RetryFailed(c, f) ==
    /\ flattening[c] = Free /\ progress[f] # NoProgress
    /\ GoesTo(c, Selling(f, "retry", Retryable(f)))
    /\ shared' = shared \cup {<<f, i>> : i \in UNION {Retryable(f) \cap OnList(d, f) :
                                                       d \in FlattenCalls}}
    /\ UNCHANGED <<service, positions, progress, tasks, taken>>

FlattenContext(task) ==
    [PassingContext EXCEPT
        !.strategy_status = "close_only", !.close_only_mode = TRUE,
        !.available_quantity = task.available, !.today_bought_quantity = task.today,
        !.side = "sell", !.quantity = task.sellable,
        !.kill_switch_active = "yes", !.is_flatten = TRUE]

Counted(p, kind, success) ==
    CASE kind = "execute" /\ success  -> [p EXCEPT !.flattened = @ + 1, !.remaining = @ - 1]
      [] kind = "execute" /\ ~success -> [p EXCEPT !.failed = @ + 1, !.remaining = @ - 1]
      [] kind = "retry" /\ success    -> [p EXCEPT !.flattened = @ + 1, !.failed = @ - 1]
      [] kind = "retry" /\ ~success   -> p

(* The order for i succeeded or not, after so many attempts. *)
Outcome(c, i, attempts, success, error) ==
    LET f == flattening[c].flatten
    IN  /\ tasks' = [tasks EXCEPT ![f][i] =
                        [@ EXCEPT !.attempts = attempts, !.error = error,
                                  !.status = IF success THEN "submitted" ELSE "failed"]]
        /\ progress' = [progress EXCEPT ![f] = Counted(@, flattening[c].kind, success)]
        /\ GoesTo(c, Selling(f, flattening[c].kind, flattening[c].todo \ {i}))

(* The next order: checked, and handed to the order service if there is    *)
(* one; if not, that is success.                                           *)
SellNext(c, i) ==
    LET f == flattening[c].flatten
        task == tasks[f][i]
    IN  /\ flattening[c].at = "selling" /\ i \in flattening[c].todo
        /\ IF Execute(FlattenContext(task)) # "allow"
           THEN Outcome(c, i, task.attempts + 1, FALSE, "final_check")
           ELSE IF ~service.orders
           THEN Outcome(c, i, task.attempts + 1, TRUE, task.error)
           ELSE /\ tasks' = [tasks EXCEPT ![f][i].attempts = @ + 1]
                /\ GoesTo(c, [at |-> "submitting", flatten |-> f, kind |-> flattening[c].kind,
                              todo |-> flattening[c].todo, now |-> i])
                /\ UNCHANGED progress
        /\ UNCHANGED <<service, positions, taken, shared>>

(* submit_flatten_order() returns or raises; when it raises, the broker    *)
(* may have the order or not.                                              *)
SubmitAnswers(c, got, raises) ==
    LET f == flattening[c].flatten
        i == flattening[c].now
    IN  /\ flattening[c].at = "submitting"
        /\ got \/ raises
        /\ taken' = IF got THEN [taken EXCEPT ![f][i] = @ + 1] ELSE taken
        /\ shared' = IF got /\ raises THEN shared \cup {<<f, i>>} ELSE shared
        /\ Outcome(c, i, tasks[f][i].attempts, ~raises,
                   IF raises THEN "submit" ELSE tasks[f][i].error)
        /\ UNCHANGED <<service, positions>>

FlattenNext ==
    \E c \in FlattenCalls :
        \/ \E f \in Flattens : ExecuteFlatten(c, f) \/ RetryFailed(c, f)
        \/ BuildTasks(c)
        \/ \E i \in Instruments : SellNext(c, i)
        \/ \E got, raises \in BOOLEAN : SubmitAnswers(c, got, raises)

FlattenSpec == FlattenInit /\ [][FlattenNext]_flattenVars

-----------------------------------------------------------------------------

Task == [available: Quantities, today: 0..1, sellable: Quantities,
         attempts: 0..(MaxRetries + Cardinality(FlattenCalls) - 1),
         status: {"skipped_t1", "pending", "submitted", "failed"},
         error: {"none", "final_check", "submit"}]

(* A task is tried max_retries times, and at most once more for each call  *)
(* whose list was made before the last of them failed.                     *)
FlattenTypeOK ==
    /\ \A f \in Flattens : \A i \in DOMAIN tasks[f] : tasks[f][i] \in Task
    /\ \A c \in FlattenCalls : flattening[c].at \in {"idle", "querying", "selling", "submitting"}
    /\ shared \subseteq Flattens \X Instruments

(* force_flatten.py:5-6, "Uses is_flatten=True to pass through             *)
(* FinalPreSubmitCheck even when kill switch is active": whatever the      *)
(* positions, a flatten order never fails in the final check, and what     *)
(* it sells leaves the shares bought today alone.                          *)
FlattenPassesCheck ==
    \A f \in Flattens : \A i \in DOMAIN tasks[f] :
        /\ tasks[f][i].error # "final_check"
        /\ tasks[f][i].sellable > 0 =>
              tasks[f][i].sellable + tasks[f][i].today <= tasks[f][i].available

(* Through overlapping calls, failures and retries, a flatten sells a      *)
(* position at most once - unless the order service failed after taking    *)
(* the order, or two retries had the task on their lists.                  *)
SoldOnce ==
    \A f \in Flattens : \A i \in Instruments : taken[f][i] <= 1 \/ <<f, i>> \in shared

Having(f, status) == Cardinality({i \in DOMAIN tasks[f] : tasks[f][i].status = status})

(* The counters, kept by += and -= across two methods, tell how many tasks *)
(* are in each state, as long as no two calls shared one.                  *)
CountersTell ==
    \A f \in Flattens :
        progress[f] # NoProgress /\ (\A i \in Instruments : <<f, i>> \notin shared) =>
            /\ progress[f].flattened = Having(f, "submitted")
            /\ progress[f].failed = Having(f, "failed")
            /\ progress[f].skipped = Having(f, "skipped_t1")
            /\ progress[f].remaining = Having(f, "pending")

(* A flatten neither sells a position twice nor loses count of what it     *)
(* sold, while other flattens and retries wait for the same order service. *)
FlattenIsExact == SoldOnce /\ CountersTell
=============================================================================
