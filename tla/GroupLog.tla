------------------------------ MODULE GroupLog ------------------------------
(***************************************************************************)
(* What the message bus promises its consumer groups, without workers,     *)
(* batches or restarts: a log that only grows.  A group is given each      *)
(* message once, handles what it was given in the order of the log, each   *)
(* message at most once and perhaps not at all, and acknowledges nothing   *)
(* that it has not handled.                                                *)
(***************************************************************************)
EXTENDS Integers, Sequences

CONSTANT Groups

VARIABLES
    length,     \* how many messages the log has
    given,      \* given[g]: how many of them group g was given
    handled,    \* handled[g]: what it handled, in order
    acked       \* acked[g]: what it acknowledged

logVars == <<length, given, handled, acked>>

Done(g) == {handled[g][n] : n \in 1..Len(handled[g])}

Init ==
    /\ length = 0
    /\ given = [g \in Groups |-> 0]
    /\ handled = [g \in Groups |-> <<>>]
    /\ acked = [g \in Groups |-> {}]

Publish ==
    /\ length' = length + 1
    /\ UNCHANGED <<given, handled, acked>>

Give(g) ==
    /\ \E last \in (given[g] + 1)..length : given' = [given EXCEPT ![g] = last]
    /\ UNCHANGED <<length, handled, acked>>

Handle(g) ==
    /\ \E m \in 1..given[g] :
          /\ \A earlier \in Done(g) : earlier < m
          /\ handled' = [handled EXCEPT ![g] = Append(@, m)]
    /\ UNCHANGED <<length, given, acked>>

Acknowledge(g) ==
    /\ \E m \in Done(g) : acked' = [acked EXCEPT ![g] = @ \cup {m}]
    /\ UNCHANGED <<length, given, handled>>

Next == Publish \/ \E g \in Groups : Give(g) \/ Handle(g) \/ Acknowledge(g)

Spec == Init /\ [][Next]_logVars
=============================================================================
