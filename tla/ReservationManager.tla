------------------------- MODULE ReservationManager -------------------------
(***************************************************************************)
(* Cash reservations of accounts shared by several strategies              *)
(* (hqmts/reservation/manager.py and the queries of                        *)
(* hqmts/db/repositories/reservation_repo.py).                             *)
(*                                                                         *)
(* One ReservationManager, with one database session, is shared by the     *)
(* asyncio tasks of the process.  A task runs without interruption between *)
(* two awaits, so each action below is the code from one await to the      *)
(* next.  reserve() takes the account's asyncio.Lock; consume(), release() *)
(* and expire_reservations() do not.                                       *)
(***************************************************************************)
EXTENDS Integers, FiniteSets

CONSTANTS
    Accounts,    \* account ids
    Tasks,       \* asyncio tasks that call reserve()
    Rids,        \* reservation ids (the uuid4 values that can be drawn)
    MaxAmount,   \* bound: the largest amount of one reservation or fill
    CashLimit,   \* CashLimit[a]: the most available cash a caller reports for a
    TTL,         \* ttl_seconds, in clock ticks
    MaxClock,    \* bound: the clock stops here
    NoTask       \* owner of a lock nobody holds

ASSUME ReservationAssumption ==
    /\ IsFiniteSet(Rids)
    /\ MaxAmount \in Nat
    /\ CashLimit \in [Accounts -> Nat]
    /\ TTL \in Nat
    /\ MaxClock \in Nat
    /\ NoTask \notin Tasks

VARIABLES
    rows,    \* the cash_reservation table: a function on the ids created so far
    lock,    \* lock[a]: the task that holds account a's asyncio.Lock
    call,    \* call[t]: where task t is in reserve(), its arguments and locals
    sweep,   \* the rows the running expire_reservations() has still to write
    now      \* now_shanghai()

resVars == <<rows, lock, call, sweep, now>>

Amounts == 0..MaxAmount

Statuses == {"active", "partially_consumed", "fully_consumed", "released", "expired"}

Row == [status: Statuses, account: Accounts, reserved: Amounts,
        consumed: Nat, expires_at: Nat]

(* "waiting" is at `async with lock`, "locked" awaits the SUM query,       *)
(* "summed" has its result in total, "flushing" awaits repo.create().      *)
Idle == [pc |-> "idle"]
Call == {Idle} \cup
        [pc: {"waiting", "locked", "summed", "flushing"}, account: Accounts,
         amount: Amounts, available: Nat, total: Nat, rid: Rids]

Holding == {"locked", "summed", "flushing"}

(* get_total_reserved_amount(): the SUM of reserved_amount over the        *)
(* account's rows with status ACTIVE, counted as the number of currency    *)
(* units that those rows set aside.                                        *)
ReservedUnits(table, a) ==
    {u \in (DOMAIN table) \X (1..MaxAmount) :
        /\ table[u[1]].status = "active"
        /\ table[u[1]].account = a
        /\ u[2] <= table[u[1]].reserved}

TotalReserved(a) == Cardinality(ReservedUnits(rows, a))

-----------------------------------------------------------------------------

Init ==
    /\ rows = [r \in {} |-> 0]
    /\ lock = [a \in Accounts |-> NoTask]
    /\ call = [t \in Tasks |-> Idle]
    /\ sweep = {}
    /\ now = 0

(* The caller enters reserve() with its snapshot of the account's cash     *)
(* (any value up to CashLimit: nothing re-reads it later).  A fresh id is  *)
(* set aside for the call, which bounds the number of reservations.        *)
ReserveCall(t, a, amount, available, r) ==
    /\ call[t] = Idle
    /\ r \notin DOMAIN rows
    /\ \A u \in Tasks : call[u] # Idle => call[u].rid # r
    /\ call' = [call EXCEPT ![t] =
                  [pc |-> "waiting", account |-> a, amount |-> amount,
                   available |-> available, total |-> 0, rid |-> r]]
    /\ UNCHANGED <<rows, lock, sweep, now>>

(* Mutant: the block is entered without waiting for the lock. *)
ReserveLockUnguarded(t) ==
    /\ call[t].pc = "waiting"
    /\ lock' = [lock EXCEPT ![call[t].account] = t]
    /\ call' = [call EXCEPT ![t].pc = "locked"]
    /\ UNCHANGED <<rows, sweep, now>>

(* `async with self._get_lock(account_id)`. *)
ReserveLock(t) ==
    /\ call[t].pc = "waiting"
    /\ lock[call[t].account] = NoTask
    /\ lock' = [lock EXCEPT ![call[t].account] = t]
    /\ call' = [call EXCEPT ![t].pc = "locked"]
    /\ UNCHANGED <<rows, sweep, now>>

(* The database evaluates the SUM; the task resumes with it later. *)
ReserveSum(t) ==
    /\ call[t].pc = "locked"
    /\ call' = [call EXCEPT ![t] = [call[t] EXCEPT !.pc = "summed",
                                       !.total = TotalReserved(call[t].account)]]
    /\ UNCHANGED <<rows, lock, sweep, now>>

(* Mutant: other reservations are not subtracted. *)
EffectiveSnapshotOnly(c) == c.available

(* effective_available: the snapshot minus what is reserved. *)
Effective(c) == c.available - c.total

(* Mutant: the exception leaves the lock taken. *)
ReserveRejectHoldsLock(t) ==
    /\ call[t].pc = "summed"
    /\ call[t].amount > Effective(call[t])
    /\ call' = [call EXCEPT ![t] = Idle]
    /\ UNCHANGED <<rows, lock, sweep, now>>

(* InsufficientFundsError; leaving the `async with` block frees the lock. *)
ReserveReject(t) ==
    /\ call[t].pc = "summed"
    /\ call[t].amount > Effective(call[t])
    /\ lock' = [lock EXCEPT ![call[t].account] = NoTask]
    /\ call' = [call EXCEPT ![t] = Idle]
    /\ UNCHANGED <<rows, sweep, now>>

(* The row is added to the session and flushed. *)
ReserveInsert(t) ==
    /\ call[t].pc = "summed"
    /\ call[t].amount <= Effective(call[t])
    /\ rows' = [r \in DOMAIN rows \cup {call[t].rid} |->
                  IF r = call[t].rid
                  THEN [status |-> "active", account |-> call[t].account,
                        reserved |-> call[t].amount, consumed |-> 0,
                        expires_at |-> now + TTL]
                  ELSE rows[r]]
    /\ call' = [call EXCEPT ![t].pc = "flushing"]
    /\ UNCHANGED <<lock, sweep, now>>

(* create() has returned: the block is left and the reservation returned. *)
ReserveReturn(t) ==
    /\ call[t].pc = "flushing"
    /\ lock' = [lock EXCEPT ![call[t].account] = NoTask]
    /\ call' = [call EXCEPT ![t] = Idle]
    /\ UNCHANGED <<rows, sweep, now>>

(* The database fails under the SUM query or the flush, or the task is     *)
(* cancelled there: the exception leaves the `async with` block, no row.   *)
ReserveAbort(t) ==
    /\ call[t].pc \in {"locked", "summed"}
    /\ lock' = [lock EXCEPT ![call[t].account] = NoTask]
    /\ call' = [call EXCEPT ![t] = Idle]
    /\ UNCHANGED <<rows, sweep, now>>

(* consume(): only an ACTIVE row; any other status raises and changes      *)
(* nothing.  The amount is not compared with what remains.                 *)
Consumed(row, amount) ==
    LET new == row.consumed + amount
    IN  [row EXCEPT !.consumed = new,
                    !.status = IF new >= row.reserved THEN "fully_consumed"
                                                      ELSE "partially_consumed"]

Consume(r, amount) ==
    /\ r \in DOMAIN rows
    /\ rows[r].status = "active"
    /\ rows' = [rows EXCEPT ![r] = Consumed(rows[r], amount)]
    /\ UNCHANGED <<lock, call, sweep, now>>

(* Mutant: releasing what a fill had begun to consume makes it ACTIVE again. *)
ReleaseRestores(r) ==
    /\ r \in DOMAIN rows
    /\ rows' = [rows EXCEPT ![r].status =
                  IF @ = "partially_consumed" THEN "active" ELSE "released"]
    /\ UNCHANGED <<lock, call, sweep, now>>

(* release(): whatever the row's status is. *)
Release(r) ==
    /\ r \in DOMAIN rows
    /\ rows' = [rows EXCEPT ![r].status = "released"]
    /\ UNCHANGED <<lock, call, sweep, now>>

(* expire_reservations() queries the ACTIVE rows past their expiry ...     *)
ExpiredRows == {r \in DOMAIN rows : rows[r].status = "active" /\ rows[r].expires_at < now}

SweepQuery ==
    /\ sweep = {}
    /\ ExpiredRows # {}
    /\ sweep' = ExpiredRows
    /\ UNCHANGED <<rows, lock, call, now>>

(* ... and then writes them one by one, with an await after each, without  *)
(* looking at the status again.                                            *)
SweepWrite(r) ==
    /\ r \in sweep
    /\ rows' = [rows EXCEPT ![r].status = "expired"]
    /\ sweep' = sweep \ {r}
    /\ UNCHANGED <<lock, call, now>>

Tick ==
    /\ now < MaxClock
    /\ now' = now + 1
    /\ UNCHANGED <<rows, lock, call, sweep>>

-----------------------------------------------------------------------------

ReserveStep(t) ==
    \/ ReserveLock(t)
    \/ ReserveSum(t)
    \/ ReserveReject(t)
    \/ ReserveInsert(t)
    \/ ReserveReturn(t)

Next ==
    \/ \E t \in Tasks, a \in Accounts, amount \in Amounts, r \in Rids :
          \E available \in 0..CashLimit[a] : ReserveCall(t, a, amount, available, r)
    \/ \E t \in Tasks : ReserveStep(t) \/ ReserveAbort(t)
    \/ \E r \in Rids : \E amount \in Amounts : Consume(r, amount)
    \/ \E r \in Rids : Release(r) \/ SweepWrite(r)
    \/ SweepQuery
    \/ Tick

Spec == Init /\ [][Next]_resVars

(* The event loop runs every ready task.  asyncio.Lock wakes its waiters   *)
(* in FIFO order, so a waiter is not passed over for ever.                 *)
Fairness ==
    /\ \A t \in Tasks : WF_resVars(ReserveSum(t) \/ ReserveReject(t) \/
                                   ReserveInsert(t) \/ ReserveReturn(t))
    /\ \A t \in Tasks : SF_resVars(ReserveLock(t))
    /\ \A r \in Rids : WF_resVars(SweepWrite(r))

FairSpec == Spec /\ Fairness

-----------------------------------------------------------------------------

TypeOK ==
    /\ DOMAIN rows \subseteq Rids
    /\ rows \in [DOMAIN rows -> Row]
    /\ lock \in [Accounts -> Tasks \cup {NoTask}]
    /\ call \in [Tasks -> Call]
    /\ sweep \subseteq DOMAIN rows
    /\ now \in Nat

(* What the manager is for: however reserve(), consume(), release(), the   *)
(* expiry sweep and failing queries interleave, the ACTIVE reservations of *)
(* an account never add up to more than the cash ever reported for it.     *)
ReservedWithinCash == \A a \in Accounts : TotalReserved(a) <= CashLimit[a]

(* A reservation is granted only within the snapshot its caller brought:   *)
(* the SUM read before the await is still an upper bound when the row is   *)
(* inserted, so granted plus reserved is at most that snapshot.            *)
GrantStep ==
    \A t \in Tasks :
       (call[t].pc = "summed" /\ call'[t].pc = "flushing") =>
          Cardinality(ReservedUnits(rows', call[t].account)) <= call[t].available

GrantWithinSnapshot == [][GrantStep]_resVars

(* Every reserve() call that waits for the account lock comes back, with a *)
(* reservation or an exception: no path out of the block keeps the lock.   *)
ReserveReturns == \A t \in Tasks : (call[t].pc = "waiting") ~> (call[t].pc = "idle")

(* What a shared account promises its strategies (module CashPool): a hold *)
(* is granted only while all holds fit in the cash, and a hold that was    *)
(* given up is never in force again.                                       *)
HoldState(status) == IF status = "active" THEN "held" ELSE "gone"

holds == [r \in Rids |->
            IF r \in DOMAIN rows
            THEN [state |-> HoldState(rows[r].status), account |-> rows[r].account,
                  amount |-> rows[r].reserved]
            ELSE [state |-> "new"]]

Pool == INSTANCE CashPool WITH hold <- holds

ImplementsCashPool == Pool!Spec
=============================================================================
