-------------------------- MODULE ReservationProofs --------------------------
(***************************************************************************)
(* Proofs about ReservationManager, for any number of accounts, tasks and  *)
(* reservations and any amounts.                                           *)
(***************************************************************************)
EXTENDS ReservationManager, FiniteSetTheorems, TLAPS

-----------------------------------------------------------------------------
(* Facts about the SUM query.                                              *)

(* The units a table sets aside are finitely many: the SUM is a number.    *)
LEMMA UnitsFinite ==
    ASSUME NEW table, DOMAIN table \subseteq Rids, NEW a
    PROVE  /\ IsFiniteSet(ReservedUnits(table, a))
           /\ Cardinality(ReservedUnits(table, a)) \in Nat
<1>1. IsFiniteSet(DOMAIN table)
  BY FS_Subset, ReservationAssumption
<1>2. IsFiniteSet(1..MaxAmount)
  BY FS_Interval, ReservationAssumption
<1>3. IsFiniteSet((DOMAIN table) \X (1..MaxAmount))
  BY <1>1, <1>2, FS_Product
<1>4. ReservedUnits(table, a) \subseteq (DOMAIN table) \X (1..MaxAmount)
  BY DEF ReservedUnits
<1>5. IsFiniteSet(ReservedUnits(table, a))
  BY <1>3, <1>4, FS_Subset
<1>6. QED
  BY <1>5, FS_CardinalityType

(* A write that only takes rows out of ACTIVE lowers every account's SUM.  *)
LEMMA SumShrinks ==
    ASSUME NEW old, NEW new, NEW a,
           DOMAIN old \subseteq Rids, DOMAIN new = DOMAIN old,
           \A r \in DOMAIN old :
              new[r].status = "active" => new[r] = old[r]
    PROVE  Cardinality(ReservedUnits(new, a)) <= Cardinality(ReservedUnits(old, a))
<1>1. ReservedUnits(new, a) \subseteq ReservedUnits(old, a)
  <2> SUFFICES ASSUME NEW u \in ReservedUnits(new, a)
               PROVE  u \in ReservedUnits(old, a)
    OBVIOUS
  <2>1. /\ u \in (DOMAIN old) \X (1..MaxAmount)
        /\ u[1] \in DOMAIN old
        /\ new[u[1]].status = "active"
        /\ new[u[1]].account = a
        /\ u[2] <= new[u[1]].reserved
    BY DEF ReservedUnits
  <2>2. new[u[1]] = old[u[1]]
    BY <2>1
  <2>3. QED
    BY <2>1, <2>2 DEF ReservedUnits
<1>2. QED
  BY <1>1, UnitsFinite, FS_Subset

(* A new row adds at most its reserved amount, and only to its account.    *)
LEMMA SumGrows ==
    ASSUME NEW old, NEW new, NEW a, NEW r \in Rids,
           DOMAIN old \subseteq Rids, DOMAIN new = DOMAIN old \cup {r},
           \A s \in DOMAIN old \ {r} : new[s] = old[s],
           new[r].reserved \in Nat
    PROVE  /\ Cardinality(ReservedUnits(new, a))
                <= Cardinality(ReservedUnits(old, a)) + new[r].reserved
           /\ new[r].account # a =>
                Cardinality(ReservedUnits(new, a)) <= Cardinality(ReservedUnits(old, a))
<1> DEFINE Added == {r} \X (1..new[r].reserved)
<1>1. IsFiniteSet({r}) /\ Cardinality({r}) = 1
  BY FS_Singleton
<1>2. /\ IsFiniteSet(1..new[r].reserved)
      /\ Cardinality(1..new[r].reserved) = new[r].reserved
  <2>1. PICK k \in Nat : k = new[r].reserved
    OBVIOUS
  <2>2. IsFiniteSet(1..k) /\ Cardinality(1..k) = k
    BY FS_Interval
  <2> QED
    BY <2>1, <2>2
<1>3. IsFiniteSet(Added) /\ Cardinality(Added) = new[r].reserved
  <2>1. /\ IsFiniteSet(Added)
        /\ Cardinality(Added) = Cardinality({r}) * Cardinality(1..new[r].reserved)
    BY <1>1, <1>2, FS_Product
  <2>2. Cardinality({r}) * Cardinality(1..new[r].reserved) = new[r].reserved
    BY <1>1, <1>2
  <2>3. QED
    BY <2>1, <2>2
<1>4. /\ IsFiniteSet(ReservedUnits(old, a))
      /\ Cardinality(ReservedUnits(old, a)) \in Nat
  BY UnitsFinite
<1>5. ASSUME NEW u \in ReservedUnits(new, a), u[1] # r
      PROVE  u \in ReservedUnits(old, a)
  <2>1. /\ u \in (DOMAIN new) \X (1..MaxAmount)
        /\ new[u[1]].status = "active"
        /\ new[u[1]].account = a
        /\ u[2] <= new[u[1]].reserved
    BY DEF ReservedUnits
  <2>2. /\ u \in (DOMAIN old) \X (1..MaxAmount)
        /\ new[u[1]] = old[u[1]]
    BY <2>1, <1>5
  <2>3. QED
    BY <2>1, <2>2 DEF ReservedUnits
<1>6. ASSUME NEW u \in ReservedUnits(new, a), u[1] = r
      PROVE  u \in Added /\ new[r].account = a
  <2>1. /\ u \in (DOMAIN new) \X (1..MaxAmount)
        /\ u[2] \in 1..MaxAmount
        /\ new[u[1]].account = a
        /\ u[2] <= new[u[1]].reserved
    BY DEF ReservedUnits
  <2>2. u[2] \in 1..new[r].reserved
    BY <2>1, <1>6, ReservationAssumption
  <2>3. QED
    BY <2>1, <2>2, <1>6
<1>7. ReservedUnits(new, a) \subseteq ReservedUnits(old, a) \cup Added
  BY <1>5, <1>6
<1>8. /\ IsFiniteSet(ReservedUnits(old, a) \cup Added)
      /\ Cardinality(ReservedUnits(old, a) \cup Added)
           <= Cardinality(ReservedUnits(old, a)) + new[r].reserved
  <2>1. Cardinality(ReservedUnits(old, a) \cap Added) \in Nat
    BY <1>4, FS_Intersection, FS_CardinalityType
  <2>2. /\ IsFiniteSet(ReservedUnits(old, a) \cup Added)
        /\ Cardinality(ReservedUnits(old, a) \cup Added)
             = Cardinality(ReservedUnits(old, a)) + Cardinality(Added)
                 - Cardinality(ReservedUnits(old, a) \cap Added)
    BY <1>3, <1>4, FS_Union
  <2>3. QED
    BY <2>1, <2>2, <1>3, <1>4
<1>9. /\ IsFiniteSet(ReservedUnits(new, a))
      /\ Cardinality(ReservedUnits(new, a)) \in Nat
  BY UnitsFinite
<1>10. Cardinality(ReservedUnits(new, a))
         <= Cardinality(ReservedUnits(old, a)) + new[r].reserved
  <2>1. Cardinality(ReservedUnits(new, a)) <= Cardinality(ReservedUnits(old, a) \cup Added)
    BY <1>7, <1>8, FS_Subset
  <2>2. Cardinality(ReservedUnits(old, a) \cup Added) \in Nat
    BY <1>8, FS_CardinalityType
  <2>3. QED
    BY <2>1, <2>2, <1>4, <1>8, <1>9
<1>11. new[r].account # a => ReservedUnits(new, a) \subseteq ReservedUnits(old, a)
  BY <1>5, <1>6
<1>12. QED
  BY <1>10, <1>11, <1>4, FS_Subset

-----------------------------------------------------------------------------
(* Type correctness.                                                       *)

(* Every step keeps the types; in particular the sweep only names rows     *)
(* that exist.                                                             *)
LEMMA TypeStep == TypeOK /\ [Next]_resVars => TypeOK'
<1> USE ReservationAssumption DEF TypeOK, Amounts, Row, Call, Idle, Statuses
<1> SUFFICES ASSUME TypeOK, [Next]_resVars PROVE TypeOK'
  OBVIOUS
<1>1. ASSUME NEW t \in Tasks, NEW a \in Accounts, NEW amount \in Amounts, NEW r \in Rids,
             NEW available \in 0..CashLimit[a], ReserveCall(t, a, amount, available, r)
      PROVE  TypeOK'
  BY <1>1 DEF ReserveCall
<1>2. ASSUME NEW t \in Tasks, ReserveLock(t)
      PROVE  TypeOK'
  BY <1>2 DEF ReserveLock
<1>3. ASSUME NEW t \in Tasks, ReserveSum(t)
      PROVE  TypeOK'
  <2>1. TotalReserved(call[t].account) \in Nat
    BY UnitsFinite DEF TotalReserved
  <2>2. call[t] \in Call \ {Idle}
    BY <1>3 DEF ReserveSum
  <2>3. ASSUME NEW m \in Nat, NEW c \in Call \ {Idle}
        PROVE  [c EXCEPT !.pc = "summed", !.total = m] \in Call
    OBVIOUS
  <2>4. [call[t] EXCEPT !.pc = "summed", !.total = TotalReserved(call[t].account)] \in Call
    BY <2>1, <2>2, <2>3
  <2>5. QED
    BY <1>3, <2>4 DEF ReserveSum
<1>4. ASSUME NEW t \in Tasks, ReserveReject(t) \/ ReserveReturn(t) \/ ReserveAbort(t)
      PROVE  TypeOK'
  BY <1>4 DEF ReserveReject, ReserveReturn, ReserveAbort
<1>5. ASSUME NEW t \in Tasks, ReserveInsert(t)
      PROVE  TypeOK'
  <2>1. /\ call[t].rid \in Rids
        /\ call[t].account \in Accounts
        /\ call[t].amount \in Amounts
    BY <1>5 DEF ReserveInsert
  <2>2. now + TTL \in Nat
    OBVIOUS
  <2>3. /\ DOMAIN rows' = DOMAIN rows \cup {call[t].rid}
        /\ \A r \in DOMAIN rows' : rows'[r] \in Row
        /\ rows' = [r \in DOMAIN rows' |-> rows'[r]]
    BY <1>5, <2>1, <2>2 DEF ReserveInsert
  <2>4. call' \in [Tasks -> Call]
    BY <1>5 DEF ReserveInsert
  <2>5. QED
    BY <1>5, <2>1, <2>3, <2>4 DEF ReserveInsert
<1>6. ASSUME NEW r \in Rids, NEW amount \in Amounts, Consume(r, amount)
      PROVE  TypeOK'
  <2>1. rows[r].consumed + amount \in Nat
    BY <1>6 DEF Consume
  <2>2. Consumed(rows[r], amount) \in Row
    <3> DEFINE consumed == rows[r].consumed + amount
               status == IF consumed >= rows[r].reserved THEN "fully_consumed"
                                                         ELSE "partially_consumed"
    <3>1. rows[r] \in Row /\ consumed \in Nat /\ status \in Statuses
      BY <1>6, <2>1 DEF Consume, Statuses
    <3>2. Consumed(rows[r], amount) = [rows[r] EXCEPT !.consumed = consumed, !.status = status]
      BY DEF Consumed
    <3> HIDE DEF consumed, status
    <3> QED
      BY <3>1, <3>2 DEF Row
  <2>3. QED
    BY <1>6, <2>2 DEF Consume
<1>7. ASSUME NEW r \in Rids, Release(r)
      PROVE  TypeOK'
  BY <1>7 DEF Release
<1>8. ASSUME NEW r \in Rids, SweepWrite(r)
      PROVE  TypeOK'
  BY <1>8 DEF SweepWrite
<1>9. CASE SweepQuery
  BY <1>9 DEF SweepQuery, ExpiredRows
<1>10. CASE Tick
  BY <1>10 DEF Tick
<1>11. CASE UNCHANGED resVars
  BY <1>11 DEF resVars
<1>12. QED
  BY <1>1, <1>2, <1>3, <1>4, <1>5, <1>6, <1>7, <1>8, <1>9, <1>10, <1>11
  DEF Next, ReserveStep

(* In every reachable state the variables have their types.                *)
THEOREM TypeCorrect == Spec => []TypeOK
<1>1. Init => TypeOK
  BY ReservationAssumption DEF Init, TypeOK, Row, Call, Idle
<1>2. QED
  BY <1>1, TypeStep, PTL DEF Spec

-----------------------------------------------------------------------------
(* The over-commitment argument.                                           *)

(* The account lock is held by whoever is between the SUM and the end of   *)
(* create().                                                               *)
LockInv == \A t \in Tasks : call[t].pc \in Holding => lock[call[t].account] = t

(* Ids drawn by running calls are distinct, and a call's id has no row     *)
(* before its insert.                                                      *)
RidInv ==
    /\ \A t, u \in Tasks :
          call[t] # Idle /\ call[u] # Idle /\ call[t].rid = call[u].rid => t = u
    /\ \A t \in Tasks :
          call[t].pc \in {"waiting", "locked", "summed"} => call[t].rid \notin DOMAIN rows

(* A caller's snapshot never exceeds the limit of its account. *)
SnapshotInv ==
    \A t \in Tasks : call[t] # Idle => call[t].available <= CashLimit[call[t].account]

(* The SUM a task has read is still an upper bound of the account's total: *)
(* whatever ran since then can only have lowered it.                       *)
SumInv ==
    \A t \in Tasks : call[t].pc = "summed" => TotalReserved(call[t].account) <= call[t].total

IInv == TypeOK /\ LockInv /\ RidInv /\ SnapshotInv /\ SumInv /\ ReservedWithinCash

(* A step that takes rows out of ACTIVE and leaves the calls and locks     *)
(* alone preserves the invariant.                                          *)
LEMMA DropPreserves ==
    ASSUME IInv, TypeOK', UNCHANGED <<lock, call>>,
           DOMAIN rows' = DOMAIN rows,
           \A r \in DOMAIN rows : rows'[r].status = "active" => rows'[r] = rows[r]
    PROVE  IInv'
<1>1. ASSUME NEW a
      PROVE  /\ TotalReserved(a)' <= TotalReserved(a)
             /\ TotalReserved(a) \in Nat
             /\ TotalReserved(a)' \in Nat
  BY SumShrinks, UnitsFinite DEF IInv, TypeOK, TotalReserved
<1>2. LockInv'
  BY DEF IInv, LockInv
<1>3. RidInv'
  BY DEF IInv, RidInv
<1>4. SnapshotInv'
  BY DEF IInv, SnapshotInv
<1>5. SumInv'
  <2> SUFFICES ASSUME NEW t \in Tasks, call[t].pc = "summed"
               PROVE  TotalReserved(call[t].account)' <= call[t].total
    BY DEF SumInv
  <2>1. TotalReserved(call[t].account) <= call[t].total
    BY DEF IInv, SumInv
  <2>2. call[t].total \in Nat
    BY DEF IInv, TypeOK, Call, Idle
  <2>3. TotalReserved(call[t].account)' <= TotalReserved(call[t].account)
    BY <1>1 DEF TotalReserved
  <2>4. QED
    BY <2>1, <2>2, <2>3, <1>1
<1>6. ReservedWithinCash'
  <2> SUFFICES ASSUME NEW a \in Accounts PROVE TotalReserved(a)' <= CashLimit[a]
    BY DEF ReservedWithinCash
  <2>1. TotalReserved(a) <= CashLimit[a] /\ CashLimit[a] \in Nat
    BY ReservationAssumption DEF IInv, ReservedWithinCash
  <2>2. QED
    BY <2>1, <1>1
<1>7. QED
  BY <1>2, <1>3, <1>4, <1>5, <1>6 DEF IInv

(* The invariant holds of the empty table. *)
LEMMA InitInv == Init => IInv
<1> SUFFICES ASSUME Init PROVE IInv
  OBVIOUS
<1> USE ReservationAssumption DEF Init
<1>1. TypeOK
  BY DEF TypeOK, Call, Idle, Row
<1>2. LockInv /\ RidInv /\ SnapshotInv /\ SumInv
  BY DEF LockInv, RidInv, SnapshotInv, SumInv, Idle, Holding
<1>3. ReservedWithinCash
  <2> SUFFICES ASSUME NEW a \in Accounts PROVE TotalReserved(a) <= CashLimit[a]
    BY DEF ReservedWithinCash
  <2>1. ReservedUnits(rows, a) = {}
    BY DEF ReservedUnits
  <2>2. TotalReserved(a) = 0
    BY <2>1, FS_EmptySet DEF TotalReserved
  <2>3. QED
    BY <2>2
<1>4. QED
  BY <1>1, <1>2, <1>3 DEF IInv

(* Every step of the manager preserves the invariant. *)
LEMMA StepInv == IInv /\ TypeOK' /\ [Next]_resVars => IInv'
<1> SUFFICES ASSUME IInv, TypeOK', [Next]_resVars PROVE IInv'
  OBVIOUS
<1> USE ReservationAssumption
<1>0. TypeOK
  BY DEF IInv
<1>1. ASSUME NEW t \in Tasks, NEW a \in Accounts, NEW amount \in Amounts, NEW r \in Rids,
             NEW available \in 0..CashLimit[a], ReserveCall(t, a, amount, available, r)
      PROVE  IInv'
  <2> USE <1>0, <1>1 DEF ReserveCall, TypeOK, Idle
  <2>1. LockInv'
    BY DEF IInv, LockInv, Holding
  <2>2. RidInv'
    BY DEF IInv, RidInv
  <2>3. SnapshotInv'
    BY DEF IInv, SnapshotInv
  <2>4. SumInv'
    BY DEF IInv, SumInv, TotalReserved
  <2>5. ReservedWithinCash'
    BY DEF IInv, ReservedWithinCash, TotalReserved
  <2>6. QED
    BY <2>1, <2>2, <2>3, <2>4, <2>5 DEF IInv
<1>2. ASSUME NEW t \in Tasks, ReserveLock(t)
      PROVE  IInv'
  <2> USE <1>0, <1>2 DEF ReserveLock, TypeOK, Idle
  <2>1. LockInv'
    BY DEF IInv, LockInv, Holding, Call
  <2>2. RidInv'
    BY DEF IInv, RidInv
  <2>3. SnapshotInv'
    BY DEF IInv, SnapshotInv
  <2>4. SumInv'
    BY DEF IInv, SumInv, TotalReserved
  <2>5. ReservedWithinCash'
    BY DEF IInv, ReservedWithinCash, TotalReserved
  <2>6. QED
    BY <2>1, <2>2, <2>3, <2>4, <2>5 DEF IInv
<1>3. ASSUME NEW t \in Tasks, ReserveSum(t)
      PROVE  IInv'
  <2>1. /\ call[t] \in Call \ {Idle}
        /\ call' = [call EXCEPT ![t] = call'[t]]
        /\ call'[t] = [call[t] EXCEPT !.pc = "summed",
                                      !.total = TotalReserved(call[t].account)]
    BY <1>0, <1>3 DEF ReserveSum, TypeOK, Idle
  <2>2. /\ call'[t].pc = "summed"
        /\ call'[t].total = TotalReserved(call[t].account)
        /\ call'[t].account = call[t].account
        /\ call'[t].rid = call[t].rid
        /\ call'[t].available = call[t].available
        /\ call'[t] # Idle /\ call[t] # Idle
    BY <2>1 DEF Call, Idle
  <2>3. \A u \in Tasks : u # t => call'[u] = call[u]
    BY <1>0, <2>1 DEF TypeOK
  <2>4. UNCHANGED <<rows, lock>> /\ call[t].pc = "locked"
    BY <1>3 DEF ReserveSum
  <2>5. LockInv'
    BY <2>2, <2>3, <2>4 DEF IInv, LockInv, Holding
  <2>6. RidInv'
    BY <2>2, <2>3, <2>4 DEF IInv, RidInv
  <2>7. SnapshotInv'
    BY <2>1, <2>2, <2>3 DEF IInv, SnapshotInv
  <2>8. SumInv'
    <3> SUFFICES ASSUME NEW u \in Tasks, call'[u].pc = "summed"
                 PROVE  TotalReserved(call[u].account)' <= call'[u].total
      BY DEF SumInv
    <3>1. TotalReserved(call[u].account)' = TotalReserved(call'[u].account)
      BY <2>4 DEF TotalReserved
    <3>2. CASE u = t
      <4>1. TotalReserved(call[t].account) \in Nat
        BY <1>0, UnitsFinite DEF TotalReserved, TypeOK
      <4>2. QED
        BY <3>1, <3>2, <2>2, <4>1
    <3>3. CASE u # t
      BY <3>1, <3>3, <2>3 DEF IInv, SumInv
    <3>4. QED
      BY <3>2, <3>3
  <2>9. ReservedWithinCash'
    BY <2>4 DEF IInv, ReservedWithinCash, TotalReserved
  <2>10. QED
    BY <2>5, <2>6, <2>7, <2>8, <2>9 DEF IInv
<1>4. ASSUME NEW t \in Tasks, ReserveReject(t) \/ ReserveReturn(t) \/ ReserveAbort(t)
      PROVE  IInv'
  <2>1. /\ call[t].pc \in Holding
        /\ lock' = [lock EXCEPT ![call[t].account] = NoTask]
        /\ call' = [call EXCEPT ![t] = Idle]
        /\ UNCHANGED rows
    BY <1>4 DEF ReserveReject, ReserveReturn, ReserveAbort, Holding
  <2> USE <1>0, <2>1 DEF TypeOK
  <2>2. LockInv'
    <3> SUFFICES ASSUME NEW u \in Tasks, call'[u].pc \in Holding
                 PROVE  lock'[call'[u].account] = u
      BY DEF LockInv
    <3>1. u # t /\ call'[u] = call[u]
      BY DEF Idle, Holding
    <3>2. lock[call[u].account] = u /\ lock[call[t].account] = t
      BY <3>1 DEF IInv, LockInv
    <3>3. call[u].account # call[t].account
      BY <3>1, <3>2
    <3>4. QED
      BY <3>1, <3>2, <3>3
  <2>3. RidInv'
    BY DEF IInv, RidInv, Idle
  <2>4. SnapshotInv'
    BY DEF IInv, SnapshotInv
  <2>5. SumInv'
    BY DEF IInv, SumInv, TotalReserved, Idle
  <2>6. ReservedWithinCash'
    BY DEF IInv, ReservedWithinCash, TotalReserved
  <2>7. QED
    BY <2>2, <2>3, <2>4, <2>5, <2>6 DEF IInv
<1>5. ASSUME NEW t \in Tasks, ReserveInsert(t)
      PROVE  IInv'
  <2> DEFINE c == call[t]
  <2>1. /\ c \in Call \ {Idle}
        /\ c.pc = "summed"
        /\ c.amount <= c.available - c.total
    BY <1>0, <1>5 DEF ReserveInsert, Effective, TypeOK, Idle
  <2>2. /\ c.rid \in Rids
        /\ c.account \in Accounts
        /\ c.amount \in Nat
        /\ c.available \in Nat
        /\ c.total \in Nat
        /\ CashLimit[c.account] \in Nat
    BY <2>1 DEF Call, Amounts
  <2>3. /\ DOMAIN rows' = DOMAIN rows \cup {c.rid}
        /\ \A r \in DOMAIN rows \ {c.rid} : rows'[r] = rows[r]
        /\ rows'[c.rid].reserved = c.amount
        /\ rows'[c.rid].account = c.account
    BY <1>5 DEF ReserveInsert
  <2>4. /\ call' = [call EXCEPT ![t].pc = "flushing"]
        /\ UNCHANGED lock
    BY <1>5 DEF ReserveInsert
  <2>5. ASSUME NEW a
        PROVE  /\ TotalReserved(a) \in Nat
               /\ TotalReserved(a)' \in Nat
               /\ TotalReserved(a)' <= TotalReserved(a) + c.amount
               /\ c.account # a => TotalReserved(a)' <= TotalReserved(a)
    <3>1. DOMAIN rows \subseteq Rids /\ DOMAIN rows' \subseteq Rids
      BY <1>0 DEF TypeOK
    <3>2. TotalReserved(a) \in Nat /\ TotalReserved(a)' \in Nat
      BY <3>1, UnitsFinite DEF TotalReserved
    <3>3. rows'[c.rid].reserved \in Nat
      BY <2>2, <2>3
    <3>4. QED
      BY <2>2, <2>3, <3>1, <3>2, <3>3, SumGrows DEF TotalReserved
  <2>6. TotalReserved(c.account) <= c.total
    BY <2>1 DEF IInv, SumInv
  <2>7. c.available <= CashLimit[c.account]
    BY <2>1 DEF IInv, SnapshotInv
  <2>8. /\ call'[t] # Idle /\ call'[t].pc = "flushing"
        /\ call'[t].account = c.account
        /\ call'[t].rid = c.rid
        /\ call'[t].available = c.available
        /\ \A u \in Tasks : u # t => call'[u] = call[u]
    BY <1>0, <2>1, <2>4 DEF TypeOK, Call, Idle
  <2>9. LockInv'
    BY <2>1, <2>4, <2>8 DEF IInv, LockInv, Holding
  <2>10. RidInv'
    BY <2>1, <2>3, <2>8 DEF IInv, RidInv, Idle
  <2>11. SnapshotInv'
    BY <2>1, <2>8 DEF IInv, SnapshotInv
  <2>12. SumInv'
    <3> SUFFICES ASSUME NEW u \in Tasks, call'[u].pc = "summed"
                 PROVE  TotalReserved(call[u].account)' <= call'[u].total
      BY DEF SumInv
    <3>1. u # t /\ call'[u] = call[u]
      BY <2>8
    <3>2. call[u].account # c.account
      BY <3>1, <2>1 DEF IInv, LockInv, Holding
    <3>3. TotalReserved(call[u].account) <= call[u].total /\ call[u].total \in Nat
      BY <1>0, <3>1 DEF IInv, SumInv, TypeOK, Call, Idle
    <3>4. TotalReserved(call[u].account)' <= call[u].total
      <4>1. ASSUME NEW a, a = call[u].account
            PROVE  TotalReserved(a)' <= call[u].total
        BY <4>1, <2>5, <3>2, <3>3
      <4>2. TotalReserved(call[u].account)' = Cardinality(ReservedUnits(rows', call[u].account))
        BY <3>1 DEF TotalReserved
      <4>3. QED
        BY <4>1, <4>2 DEF TotalReserved
    <3>5. QED
      BY <3>1, <3>4
  <2>13. ReservedWithinCash'
    <3> SUFFICES ASSUME NEW a \in Accounts PROVE TotalReserved(a)' <= CashLimit[a]
      BY DEF ReservedWithinCash
    <3>1. CashLimit[a] \in Nat /\ TotalReserved(a) <= CashLimit[a]
      BY DEF IInv, ReservedWithinCash
    <3>2. CASE a = c.account
      BY <3>2, <2>1, <2>2, <2>5, <2>6, <2>7
    <3>3. CASE a # c.account
      BY <3>1, <3>3, <2>5
    <3>4. QED
      BY <3>2, <3>3
  <2>14. QED
    BY <2>9, <2>10, <2>11, <2>12, <2>13 DEF IInv
<1>6. ASSUME NEW r \in Rids, NEW amount \in Amounts, Consume(r, amount)
      PROVE  IInv'
  <2>1. /\ DOMAIN rows' = DOMAIN rows
        /\ \A s \in DOMAIN rows : rows'[s].status = "active" => rows'[s] = rows[s]
    BY <1>0, <1>6 DEF Consume, Consumed, TypeOK, Row
  <2>2. UNCHANGED <<lock, call>>
    BY <1>6 DEF Consume
  <2>3. QED
    BY <2>1, <2>2, DropPreserves
<1>7. ASSUME NEW r \in Rids, Release(r)
      PROVE  IInv'
  <2>1. /\ DOMAIN rows' = DOMAIN rows
        /\ \A s \in DOMAIN rows : rows'[s].status = "active" => rows'[s] = rows[s]
    BY <1>0, <1>7 DEF Release, TypeOK, Row
  <2>2. UNCHANGED <<lock, call>>
    BY <1>7 DEF Release
  <2>3. QED
    BY <2>1, <2>2, DropPreserves
<1>8. ASSUME NEW r \in Rids, SweepWrite(r)
      PROVE  IInv'
  <2>1. /\ DOMAIN rows' = DOMAIN rows
        /\ \A s \in DOMAIN rows : rows'[s].status = "active" => rows'[s] = rows[s]
    BY <1>0, <1>8 DEF SweepWrite, TypeOK, Row
  <2>2. UNCHANGED <<lock, call>>
    BY <1>8 DEF SweepWrite
  <2>3. QED
    BY <2>1, <2>2, DropPreserves
<1>9. CASE UNCHANGED <<rows, lock, call>>
  BY <1>9, DropPreserves
<1>10. QED
  BY <1>1, <1>2, <1>3, <1>4, <1>5, <1>6, <1>7, <1>8, <1>9
  DEF Next, ReserveStep, SweepQuery, Tick, resVars

(* The inductive invariant holds in every reachable state. *)
THEOREM InvariantHolds == Spec => []IInv
<1>1. QED
  BY InitInv, StepInv, TypeCorrect, PTL DEF Spec

(* The reservations in force never exceed the cash reported for their      *)
(* account, whatever interleaving of reserve(), consume(), release() and   *)
(* the sweep: the account lock is held from the SUM to the insert, and     *)
(* everything that runs without the lock only lowers the SUM.              *)
THEOREM NoOverCommitment == Spec => []ReservedWithinCash
<1>1. IInv => ReservedWithinCash
  BY DEF IInv
<1>2. QED
  BY <1>1, InvariantHolds, PTL

-----------------------------------------------------------------------------
(* What a granting step guarantees, and the refinement of CashPool.        *)

(* An insert leaves the account's SUM within the limit that its own caller *)
(* brought, and so within the account's cash.                              *)
LEMMA InsertFits ==
    ASSUME IInv, TypeOK', NEW t \in Tasks, ReserveInsert(t)
    PROVE  /\ Cardinality(ReservedUnits(rows', call[t].account)) <= call[t].available
           /\ TotalReserved(call[t].account) + call[t].amount <= CashLimit[call[t].account]
<1> DEFINE c == call[t]
<1>1. /\ c \in Call \ {Idle}
      /\ c.pc = "summed"
      /\ c.amount <= c.available - c.total
  BY DEF IInv, TypeOK, ReserveInsert, Effective, Idle
<1>2. /\ c.rid \in Rids
      /\ c.account \in Accounts
      /\ c.amount \in Nat
      /\ c.available \in Nat
      /\ c.total \in Nat
      /\ CashLimit[c.account] \in Nat
  BY <1>1, ReservationAssumption DEF Call, Amounts
<1>3. /\ DOMAIN rows' = DOMAIN rows \cup {c.rid}
      /\ \A r \in DOMAIN rows \ {c.rid} : rows'[r] = rows[r]
      /\ rows'[c.rid].reserved = c.amount
  BY DEF ReserveInsert
<1>4. /\ TotalReserved(c.account) <= c.total
      /\ c.available <= CashLimit[c.account]
  BY <1>1 DEF IInv, SumInv, SnapshotInv
<1>5. DOMAIN rows \subseteq Rids /\ DOMAIN rows' \subseteq Rids
  BY DEF IInv, TypeOK
<1>6. /\ TotalReserved(c.account) \in Nat
      /\ Cardinality(ReservedUnits(rows', c.account)) \in Nat
  BY <1>5, UnitsFinite DEF TotalReserved
<1>7. Cardinality(ReservedUnits(rows', c.account)) <= TotalReserved(c.account) + c.amount
  <2>1. rows'[c.rid].reserved \in Nat
    BY <1>2, <1>3
  <2>2. QED
    BY <1>2, <1>3, <1>5, <2>1, SumGrows DEF TotalReserved
<1>8. QED
  BY <1>1, <1>2, <1>4, <1>6, <1>7

(* A reservation is granted only within the snapshot of its caller: the    *)
(* SUM read before the await is still a bound when the row is inserted.    *)
THEOREM GrantsWithinSnapshot == Spec => GrantWithinSnapshot
<1>1. IInv /\ TypeOK' /\ [Next]_resVars => [GrantStep]_resVars
  <2> SUFFICES ASSUME IInv, TypeOK', [Next]_resVars, NEW t \in Tasks,
                      call[t].pc = "summed", call'[t].pc = "flushing"
               PROVE  Cardinality(ReservedUnits(rows', call[t].account)) <= call[t].available
    BY DEF GrantStep
  <2>0. call \in [Tasks -> Call]
    BY DEF IInv, TypeOK
  <2>1. ASSUME NEW u \in Tasks, NEW a \in Accounts, NEW amount \in Amounts, NEW r \in Rids,
               NEW available \in 0..CashLimit[a], ReserveCall(u, a, amount, available, r)
        PROVE  FALSE
    BY <2>0, <2>1 DEF ReserveCall, Idle
  <2>2. ASSUME NEW u \in Tasks, \/ ReserveLock(u) \/ ReserveSum(u) \/ ReserveReject(u)
                                \/ ReserveReturn(u) \/ ReserveAbort(u)
        PROVE  FALSE
    BY <2>0, <2>2 DEF ReserveLock, ReserveSum, ReserveReject, ReserveReturn, ReserveAbort,
                      Idle, Call
  <2>3. ASSUME NEW u \in Tasks, ReserveInsert(u)
        PROVE  u = t
    BY <2>0, <2>3 DEF ReserveInsert, Call, Idle
  <2>4. CASE UNCHANGED call
    BY <2>4
  <2>5. QED
    BY <2>1, <2>2, <2>3, <2>4, InsertFits
    DEF Next, ReserveStep, Consume, Release, SweepQuery, SweepWrite, Tick, resVars
<1>2. QED
  BY <1>1, InvariantHolds, TypeCorrect, PTL DEF GrantWithinSnapshot, Spec

(* Under the mapping, what the pool holds is what the SUM query counts.    *)
LEMMA HeldIsReserved ==
    ASSUME TypeOK, NEW a PROVE Pool!HeldUnits(holds, a) = ReservedUnits(rows, a)
<1>1. ASSUME NEW u \in Rids \X (1..MaxAmount)
      PROVE  u \in Pool!HeldUnits(holds, a) <=> u \in ReservedUnits(rows, a)
  BY DEF TypeOK, Row, holds, HoldState, ReservedUnits, Pool!HeldUnits
<1>2. Pool!HeldUnits(holds, a) \subseteq Rids \X (1..MaxAmount)
  BY DEF Pool!HeldUnits
<1>3. ReservedUnits(rows, a) \subseteq Rids \X (1..MaxAmount)
  BY DEF TypeOK, ReservedUnits
<1>4. QED
  BY <1>1, <1>2, <1>3

(* A write of one row that does not make it ACTIVE is, in the pool, the    *)
(* end of a hold or nothing at all.                                        *)
LEMMA WriteRefines ==
    ASSUME TypeOK, TypeOK', NEW r \in DOMAIN rows,
           rows' = [rows EXCEPT ![r] = rows'[r]],
           rows'[r].status # "active",
           rows'[r].account = rows[r].account,
           rows'[r].reserved = rows[r].reserved
    PROVE  [Pool!Next]_holds
<1>1. DOMAIN rows' = DOMAIN rows /\ DOMAIN rows \subseteq Rids /\ r \in Rids
  BY DEF TypeOK
<1>2. \A s \in Rids \ {r} : holds'[s] = holds[s]
  BY <1>1 DEF holds
<1>3. /\ holds[r] = [state |-> HoldState(rows[r].status), account |-> rows[r].account,
                     amount |-> rows[r].reserved]
      /\ holds'[r] = [state |-> "gone", account |-> rows[r].account,
                      amount |-> rows[r].reserved]
  BY <1>1 DEF holds, HoldState
<1>4. CASE rows[r].status = "active"
  <2>1. holds[r].state = "held" /\ holds'[r] = [holds[r] EXCEPT !.state = "gone"]
    BY <1>3, <1>4 DEF HoldState
  <2>2. holds' = [holds EXCEPT ![r].state = "gone"]
    BY <1>2, <2>1 DEF holds
  <2>3. QED
    BY <1>1, <2>1, <2>2 DEF Pool!Next, Pool!GiveUp
<1>5. CASE rows[r].status # "active"
  <2>1. holds'[r] = holds[r]
    BY <1>3, <1>5 DEF HoldState
  <2>2. holds' = holds
    BY <1>2, <2>1 DEF holds
  <2>3. QED
    BY <2>2
<1>6. QED
  BY <1>4, <1>5

(* The insert is the grant of a hold that fits. *)
LEMMA InsertRefines ==
    ASSUME IInv, TypeOK', NEW t \in Tasks, ReserveInsert(t)
    PROVE  Pool!Next
<1> DEFINE c == call[t]
<1>0. TypeOK
  BY DEF IInv
<1>1. c \in Call \ {Idle} /\ c.pc = "summed"
  BY <1>0 DEF TypeOK, ReserveInsert, Idle
<1>2. c.rid \in Rids /\ c.account \in Accounts /\ c.amount \in 0..MaxAmount
  BY <1>1 DEF Call, Amounts
<1>3. c.rid \notin DOMAIN rows
  BY <1>1 DEF IInv, RidInv
<1>4. holds[c.rid] = [state |-> "new"]
  BY <1>2, <1>3 DEF holds
<1>5. Pool!Held(c.account) + c.amount <= CashLimit[c.account]
  <2>1. Pool!HeldUnits(holds, c.account) = ReservedUnits(rows, c.account)
    BY <1>0, HeldIsReserved
  <2>2. Pool!Held(c.account) = TotalReserved(c.account)
    BY <2>1 DEF Pool!Held, TotalReserved, Pool!Cardinality, Cardinality
  <2>3. QED
    BY <2>2, InsertFits
<1>6. /\ DOMAIN rows' = DOMAIN rows \cup {c.rid}
      /\ \A r \in DOMAIN rows : rows'[r] = rows[r]
      /\ rows'[c.rid].status = "active"
      /\ rows'[c.rid].reserved = c.amount
      /\ rows'[c.rid].account = c.account
  BY <1>3 DEF ReserveInsert
<1>7. holds'[c.rid] = [state |-> "held", account |-> c.account, amount |-> c.amount]
  BY <1>2, <1>6 DEF holds, HoldState
<1>8. \A s \in Rids \ {c.rid} : holds'[s] = holds[s]
  BY <1>6 DEF holds
<1>9. holds' = [holds EXCEPT ![c.rid] = [state |-> "held", account |-> c.account,
                                        amount |-> c.amount]]
  <2>1. holds = [r \in Rids |-> holds[r]] /\ holds' = [r \in Rids |-> holds'[r]]
    BY DEF holds
  <2> QED
    BY <1>2, <1>7, <1>8, <2>1
<1>10. Pool!Grant(c.rid, c.account, c.amount)
  BY <1>4, <1>5, <1>9 DEF Pool!Grant
<1>11. QED
  BY <1>2, <1>10 DEF Pool!Next

(* The manager implements the cash pool: to the strategies, granting a     *)
(* reservation is one atomic step that checks and takes the cash, although *)
(* the code reads the SUM, awaits, and inserts later.                      *)
THEOREM RefinesCashPool == Spec => ImplementsCashPool
<1>1. Init => Pool!Init
  BY DEF Init, Pool!Init, holds
<1>2. IInv /\ TypeOK' /\ [Next]_resVars => [Pool!Next]_holds
  <2> SUFFICES ASSUME IInv, TypeOK', [Next]_resVars PROVE [Pool!Next]_holds
    OBVIOUS
  <2>0. TypeOK
    BY DEF IInv
  <2>1. ASSUME NEW r \in Rids, NEW amount \in Amounts, Consume(r, amount)
        PROVE  [Pool!Next]_holds
    <3>1. /\ r \in DOMAIN rows
          /\ rows' = [rows EXCEPT ![r] = rows'[r]]
          /\ rows'[r].status # "active"
          /\ rows'[r].account = rows[r].account
          /\ rows'[r].reserved = rows[r].reserved
      BY <2>0, <2>1 DEF Consume, Consumed, TypeOK, Row
    <3>2. QED
      BY <2>0, <3>1, WriteRefines
  <2>2. ASSUME NEW r \in Rids, Release(r) \/ SweepWrite(r)
        PROVE  [Pool!Next]_holds
    <3>1. /\ r \in DOMAIN rows
          /\ rows' = [rows EXCEPT ![r] = rows'[r]]
          /\ rows'[r].status # "active"
          /\ rows'[r].account = rows[r].account
          /\ rows'[r].reserved = rows[r].reserved
      BY <2>0, <2>2 DEF Release, SweepWrite, TypeOK, Row
    <3>2. QED
      BY <2>0, <3>1, WriteRefines
  <2>3. ASSUME NEW t \in Tasks, ReserveInsert(t)
        PROVE  [Pool!Next]_holds
    BY <2>3, InsertRefines
  <2>4. CASE UNCHANGED rows
    BY <2>4 DEF holds
  <2>5. QED
    BY <2>1, <2>2, <2>3, <2>4
    DEF Next, ReserveStep, ReserveCall, ReserveLock, ReserveSum, ReserveReject,
        ReserveReturn, ReserveAbort, SweepQuery, Tick, resVars
<1>3. QED
  BY <1>1, <1>2, InvariantHolds, TypeCorrect, PTL DEF ImplementsCashPool, Pool!Spec, Spec

=============================================================================
