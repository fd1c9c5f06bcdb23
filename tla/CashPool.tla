------------------------------ MODULE CashPool ------------------------------
(***************************************************************************)
(* What the reservation manager promises the strategies that share an      *)
(* account, without locks, queries or clocks: the account's cash is a pool,*)
(* a reservation is a hold on part of it, holds are granted one at a time  *)
(* and only while all of them fit, and a hold is given up once and for all.*)
(***************************************************************************)
EXTENDS Integers, FiniteSets

CONSTANTS Accounts, Rids, MaxAmount, CashLimit

VARIABLE hold    \* hold[r]: not made yet, in force, or given up

HeldUnits(h, a) ==
    {u \in Rids \X (1..MaxAmount) :
        h[u[1]].state = "held" /\ h[u[1]].account = a /\ u[2] <= h[u[1]].amount}

Held(a) == Cardinality(HeldUnits(hold, a))

Init == hold = [r \in Rids |-> [state |-> "new"]]

Grant(r, a, amount) ==
    /\ hold[r].state = "new"
    /\ Held(a) + amount <= CashLimit[a]
    /\ hold' = [hold EXCEPT ![r] = [state |-> "held", account |-> a, amount |-> amount]]

GiveUp(r) ==
    /\ hold[r].state = "held"
    /\ hold' = [hold EXCEPT ![r].state = "gone"]

Next ==
    \/ \E r \in Rids, a \in Accounts, amount \in 0..MaxAmount : Grant(r, a, amount)
    \/ \E r \in Rids : GiveUp(r)

Spec == Init /\ [][Next]_hold
=============================================================================
