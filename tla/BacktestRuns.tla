---------------------------- MODULE BacktestRuns ----------------------------
(***************************************************************************)
(* Requests for backtests (hqmts/backtest/runner.py and the routes of      *)
(* api/routes/backtest.py): a single run, or a sweep over combinations of  *)
(* parameters that keeps going when one of them fails, and their results   *)
(* in the table.  A sweep commits after every run; the result of a single  *)
(* run is committed by its database session once the route has returned.   *)
(* What the engine computes is Backtest's: here it is a total return, or   *)
(* an error.                                                               *)
(***************************************************************************)
EXTENDS Integers, Sequences, FiniteSets

CONSTANTS
    Singles,            \* requests of POST /backtest/run
    Sweeps,             \* requests of POST /backtest/run-sweep
    Grid,               \* bound: largest grid asked for, in combinations
    MaxCombinations,    \* MAX_COMBINATIONS (10000)
    Returns             \* total returns of the engine

ASSUME RunsAssumption ==
    /\ Singles \cap Sweeps = {}
    /\ {Grid, MaxCombinations} \subseteq Nat /\ Returns \subseteq Int

VARIABLES
    table,      \* committed results, as pairs of request and combination
    flushed,    \* flushed[r]: those in the request's transaction
    requests,   \* requests[r]: where the request stands, with its answer
    kept        \* history: results of sweeps that the runner saved without a warning

runsVars == <<table, flushed, requests, kept>>

Waiting == [at |-> "waiting", grid |-> 0, next |-> 1, results |-> <<>>, failed |-> 0]

RunsInit ==
    /\ table = {} /\ kept = {}
    /\ flushed = [r \in Singles \cup Sweeps |-> {}]
    /\ requests = [r \in Singles \cup Sweeps |-> Waiting]

Becomes(r, end) == requests' = [requests EXCEPT ![r].at = end]

(* Unknown strategies, missing bars and an engine that raises answer 400;  *)
(* for a sweep without bars every run raises.                              *)
RunSingle(r) ==
    /\ requests[r].at = "waiting"
    /\ \/ Becomes(r, "refused") /\ UNCHANGED flushed
       \/ \E return \in Returns, saved \in BOOLEAN :
            /\ requests' = [requests EXCEPT
                              ![r] = [@ EXCEPT !.at = "answered",
                                               !.results = <<[run |-> 1, return |-> return]>>]]
            /\ flushed' = [flushed EXCEPT ![r] = IF saved THEN {<<r, 1>>} ELSE {}]
    /\ UNCHANGED <<table, kept>>

(* get_db commits when the route has returned, if it still can. *)
CloseSession(r) ==
    /\ requests[r].at = "answered"
    /\ Becomes(r, "closed")
    /\ table' \in {table, table \cup flushed[r]}
    /\ flushed' = [flushed EXCEPT ![r] = {}]
    /\ UNCHANGED kept

StartSweep(r) ==
    /\ requests[r].at = "waiting"
    /\ \E grid \in 0..Grid :
         requests' = [requests EXCEPT ![r].grid = grid,
                                      ![r].at = IF grid > MaxCombinations THEN "refused" ELSE "running"]
    /\ UNCHANGED <<table, flushed, kept>>

(* Mutant: the results of a sweep are committed with its session. *)
SaveWithSession(r, saved) ==
    LET result == <<r, requests[r].next>>
    IN  /\ flushed' = [flushed EXCEPT ![r] = IF saved THEN @ \cup {result} ELSE {}]
        /\ kept' = IF saved THEN kept \cup {result} ELSE kept
        /\ UNCHANGED table

(* A save that fails is rolled back, with whatever the session holds. *)
Save(r, saved) ==
    LET result == <<r, requests[r].next>>
    IN  /\ table' = IF saved THEN table \cup flushed[r] \cup {result} ELSE table
        /\ flushed' = [flushed EXCEPT ![r] = {}]
        /\ kept' = IF saved THEN kept \cup {result} ELSE kept

(* Mutant: one run more than there are combinations. *)
RunFailsPastEnd(r) ==
    /\ requests[r].at = "running" /\ requests[r].next <= requests[r].grid + 1
    /\ requests' = [requests EXCEPT ![r].next = @ + 1, ![r].failed = @ + 1]
    /\ UNCHANGED <<table, flushed, kept>>

RunFails(r) ==
    /\ requests[r].at = "running" /\ requests[r].next <= requests[r].grid
    /\ requests' = [requests EXCEPT ![r].next = @ + 1, ![r].failed = @ + 1]
    /\ UNCHANGED <<table, flushed, kept>>

(* A result counts whether it could be saved or not. *)
RunSucceeds(r) ==
    /\ requests[r].at = "running" /\ requests[r].next <= requests[r].grid
    /\ \E return \in Returns, saved \in BOOLEAN :
         /\ requests' = [requests EXCEPT
                           ![r].next = @ + 1,
                           ![r].results = Append(@, [run |-> requests[r].next, return |-> return])]
         /\ Save(r, saved)

(* The results in decreasing order of return; sort() is stable. *)
Precedes(a, b) == a.return > b.return \/ (a.return = b.return /\ a.run < b.run)
Ranked(results) ==
    CHOOSE order \in [DOMAIN results -> {results[n] : n \in DOMAIN results}] :
        \A n, k \in DOMAIN results : n < k => Precedes(order[n], order[k])

(* Only runs that all failed make the sweep an error. *)
EndSweep(r) ==
    /\ requests[r].at = "running" /\ requests[r].next > requests[r].grid
    /\ requests' = [requests EXCEPT
                      ![r].at = IF requests[r].results = <<>> /\ requests[r].failed > 0
                                THEN "refused" ELSE "answered",
                      ![r].results = Ranked(@)]
    /\ UNCHANGED <<table, flushed, kept>>

(* The process stops: what was not committed is gone, and nobody answers. *)
Stop ==
    /\ requests' = [r \in DOMAIN requests |->
                      IF requests[r].at \in {"running", "answered"}
                      THEN [requests[r] EXCEPT !.at = "lost"] ELSE requests[r]]
    /\ flushed' = [r \in DOMAIN flushed |-> {}]
    /\ UNCHANGED <<table, kept>>

RunsNext ==
    \/ \E r \in Singles : RunSingle(r)
    \/ \E r \in Singles \cup Sweeps : CloseSession(r)
    \/ \E r \in Sweeps : StartSweep(r) \/ RunFails(r) \/ RunSucceeds(r) \/ EndSweep(r)
    \/ Stop

RunsSpec == RunsInit /\ [][RunsNext]_runsVars

-----------------------------------------------------------------------------
ResultsOf(r) == {requests[r].results[n].run : n \in DOMAIN requests[r].results}

(* Counters stay within the grid, and a transaction holds the request's    *)
(* own results.                                                            *)
RunsTypeOK ==
    \A r \in Singles \cup Sweeps :
        /\ requests[r].at \in {"waiting", "running", "answered", "closed", "refused", "lost"}
        /\ requests[r].grid \in 0..Grid /\ requests[r].next \in 1..(requests[r].grid + 1)
        /\ requests[r].failed \in 0..requests[r].grid
        /\ flushed[r] \subseteq {r} \X ResultsOf(r)

(* What a sweep saved stays saved, whether a later save fails and rolls    *)
(* back, all later runs fail, or the process stops before it answers.      *)
SavedIsKept == {result \in table : result[1] \in Sweeps} = kept

(* A sweep answers for every combination: it is among the results, once    *)
(* and in the order of returns, or it counts as failed; and what is in the *)
(* table is among the results.                                             *)
SweepAccounts ==
    \A r \in Sweeps : requests[r].at \in {"answered", "closed"} =>
        /\ Len(requests[r].results) + requests[r].failed = requests[r].grid
        /\ Cardinality(ResultsOf(r)) = Len(requests[r].results)
        /\ \A n \in 1..Len(requests[r].results) - 1 :
             requests[r].results[n].return >= requests[r].results[n + 1].return
        /\ \A result \in table : result[1] = r => result[2] \in ResultsOf(r)

(* The results of sweeps add up: all that was saved is kept, and every     *)
(* combination is answered for.                                            *)
ResultsAddUp == SavedIsKept /\ SweepAccounts
=============================================================================
