--------------------------- MODULE ResearchCycle ---------------------------
(***************************************************************************)
(* One autonomous research cycle: the loop that ticks it from phase to     *)
(* phase (hqmts/research/autonomous_loop.py), the bridge that makes and    *)
(* judges its strategy candidates (research/bridge.py), the monitor that   *)
(* starts a cycle for a decayed factor (research/decay_monitor.py) and the *)
(* routes a human uses meanwhile (api/routes/factor_research.py).          *)
(*                                                                         *)
(* A tick loads the cycle's row, decides what to do on the tables as it    *)
(* reads them, does it on the tables as it reads them again, and its route *)
(* commits later still; /run ticks many times in one session and commits   *)
(* once.  In between other requests and humans commit.  A session sees its *)
(* own writes, and its commit writes the columns it changed and no others. *)
(* Discoveries and backtest results are written by nothing in the          *)
(* repository: they come from outside.                                     *)
(***************************************************************************)
EXTENDS Naturals, Sequences, FiniteSets

CONSTANTS
    Requests,      \* requests that can be under way at a time
    Cancelling,    \* those of them that may be cancellations (bound)
    Running,       \* those that tick by the route /run, the others by /tick
    Patterns,      \* factor patterns in use: discoveries of one pattern make one candidate
    MaxTrials,     \* the budget of the cycle
    MaxBacktests,
    MaxCalls,
    MaxCandidates, \* bound: none is synthesized beyond these
    MaxDecisions   \* bound: human decisions and evaluations by hand

ASSUME CycleAssumption ==
    /\ MaxTrials \in Nat /\ MaxCalls \in Nat /\ MaxBacktests \in Nat \ {0} /\ MaxDecisions \in Nat
    /\ IsFiniteSet(Patterns) /\ Patterns # {}

VARIABLES
    cycle,       \* the row: status, cycle_outcome, budget_consumed, whether it has a project
    found,       \* patterns of the cycle's significant discoveries
    validated,   \* those whose discoveries have the status "validated"
    candidates,  \* the strategy candidates of the cycle, in the order of their insertion
    requests,    \* requests[r]: what the session of a request holds and has not committed
    decisions    \* counts human decisions up to MaxDecisions

cycleVars == <<cycle, found, validated, candidates, requests, decisions>>

CycleEnded == {"promoted", "archived", "canceled", "failed"}
Phases == {"opportunity_identified", "researching", "factor_validated", "synthesizing",
           "backtesting", "evaluating", "re_research"}
Outcomes == {"", "promoted", "archived_no_alpha", "re_research_triggered", "canceled"}
Consumed == [trials: 0..MaxTrials, backtests: Nat, calls: Nat]

(* What a backtest says: all thresholds met, half the Sharpe ratio, less.  *)
Results == {"strong", "half", "weak"}
Verdicts == {"", "promote", "borderline", "reject", "promoted", "rejected"}
Candidate == [status: {"generated", "evaluated", "promoted", "rejected"},
              result: Results \cup {"none"}, verdict: Verdicts]
Row == [status: Phases \cup CycleEnded, outcome: Outcomes, consumed: Consumed, project: BOOLEAN]
Columns == {"status", "outcome", "consumed", "project"}
Idle == [kind |-> "idle"]

(* row is the cycle's row in the session and wrote the columns it changed; *)
(* todo is what the tick has decided to do, or what is left when it has    *)
(* done that; validates, makes and evaluates are its other writes.  Of     *)
(* history: whether the cycle had ended when it was loaded, and whether    *)
(* candidates of sufficient backtest were found evaluated at the end.      *)
Session == [kind: {"tick", "run", "cancel"}, row: Row, wrote: SUBSET Columns,
            todo: Phases \cup {"decide", "archived", "wait", "commit"},
            validates: SUBSET Patterns, makes: Nat, evaluates: SUBSET Nat,
            late: BOOLEAN, evidence: BOOLEAN]

-----------------------------------------------------------------------------
(* The decay monitor; confidence in tenths. *)
Stability(confidence, significant) ==
    IF significant /\ confidence < 10 THEN confidence + 1 ELSE confidence
Recommendation(confidence, significant) ==
    LET stability == Stability(confidence, significant)
    IN  IF stability >= 7 THEN "monitor"
        ELSE IF stability >= 4 THEN "re_validate" ELSE "trigger_research"

NewCycle(project) ==
    [status |-> "opportunity_identified", outcome |-> "", project |-> project,
     consumed |-> [trials |-> 0, backtests |-> 0, calls |-> 0]]

(* The cycle of a human, with or without a project of its own, and that of *)
(* a decayed factor.                                                       *)
CycleInit ==
    /\ \/ \E project \in BOOLEAN : cycle = NewCycle(project)
       \/ \E confidence \in 0..10, significant \in BOOLEAN :
            /\ Recommendation(confidence, significant) = "trigger_research"
            /\ cycle = NewCycle(FALSE)
    /\ found = {} /\ validated = {} /\ candidates = <<>> /\ decisions = 0
    /\ requests = [r \in Requests |-> Idle]

-----------------------------------------------------------------------------
Opened(kind, todo) ==
    [kind |-> kind, row |-> cycle, wrote |-> {}, todo |-> todo, validates |-> {}, makes |-> 0,
     evaluates |-> {}, late |-> cycle.status \in CycleEnded, evidence |-> FALSE]

LeavesTables == UNCHANGED <<cycle, found, validated, candidates, decisions>>
Holds(r, session) == requests' = [requests EXCEPT ![r] = session] /\ LeavesTables

(* A tick of /run that is its only one is what /tick does. *)
Route(r) == IF r \in Running THEN "run" ELSE "tick"

(* A request loads the row.  A tick of a cycle that has ended does nothing. *)
Load(r) ==
    /\ requests[r] = Idle
    /\ cycle.status \notin CycleEnded
    /\ Holds(r, Opened(Route(r), "decide"))

(* The session after a flush of the row: the columns that changed.         *)
Flushed(r, new, todo) ==
    [requests[r] EXCEPT
        !.row = new, !.todo = todo,
        !.wrote = @ \cup {column \in Columns : new[column] # requests[r].row[column]}]

(* cancel_cycle refuses a cycle that has ended.                            *)
Cancel(r) ==
    /\ r \in Cancelling
    /\ requests[r] = Idle
    /\ cycle.status \notin CycleEnded
    /\ Holds(r, [Opened("cancel", "commit") EXCEPT !.row.status = "canceled",
                     !.row.outcome = "canceled", !.wrote = {"status", "outcome"}])

Fresh == [status |-> "generated", result |-> "none", verdict |-> ""]
Several(n) == [i \in 1..n |-> Fresh]

(* Mutant: half of the Sharpe ratio will do. *)
VerdictOnHalf(result) == IF result \in {"strong", "half"} THEN "promote" ELSE "reject"

(* evaluate_candidate() *)
VerdictOf(result) == [strong |-> "promote", half |-> "borderline",
                      weak |-> "reject", none |-> "reject"][result]
Evaluated(c, result) == [c EXCEPT !.status = "evaluated", !.verdict = VerdictOf(result)]

(* The candidates as the session of r sees them: with its own writes.      *)
Sees(r) ==
    [i \in DOMAIN candidates |->
        IF i \in requests[r].evaluates THEN Evaluated(candidates[i], candidates[i].result)
        ELSE candidates[i]] \o Several(requests[r].makes)

Commit(r) ==
    /\ requests[r] # Idle
    /\ requests[r].todo = "commit" \/ (requests[r].kind = "run" /\ requests[r].todo = "decide")
    /\ cycle' = [column \in DOMAIN cycle |->
                    IF column \in requests[r].wrote THEN requests[r].row[column]
                    ELSE cycle[column]]
    /\ candidates' = Sees(r)
    /\ validated' = validated \cup requests[r].validates
    /\ requests' = [requests EXCEPT ![r] = Idle]
    /\ UNCHANGED <<found, decisions>>

(* A statement or the commit fails: the session is rolled back.            *)
Fails(r) == requests[r] # Idle /\ Holds(r, Idle)

-----------------------------------------------------------------------------
(* Mutant: a budget is exhausted only when it is overrun. *)
ExhaustedLate(consumed) ==
    \/ consumed.trials > MaxTrials
    \/ consumed.backtests > MaxBacktests
    \/ consumed.calls > MaxCalls

Exhausted(consumed) ==
    \/ consumed.trials >= MaxTrials
    \/ consumed.backtests >= MaxBacktests
    \/ consumed.calls >= MaxCalls

Generated(r) == {i \in DOMAIN Sees(r) : Sees(r)[i].status = "generated"}
Pending(r) == {i \in DOMAIN Sees(r) : Sees(r)[i].result = "none"}

(* _decide_action(), where it reads the tables: the tick reads them again  *)
(* when it does what it has decided.  That no trial is left is seen by     *)
(* RunOut already.                                                         *)
Decided(r, todo) ==
    LET phase == requests[r].row.status
    IN  \/ phase = "researching" /\ found = {} /\ todo = "researching"
        \/ phase = "researching" /\ found # {} /\ todo = "factor_validated"
        \/ phase = "synthesizing" /\ Generated(r) # {} /\ todo = "backtesting"
        \/ phase = "synthesizing" /\ Generated(r) = {} /\ todo = "archived"
        \/ phase = "backtesting" /\ Pending(r) = {} /\ todo = "evaluating"
        \/ phase = "backtesting" /\ Pending(r) # {} /\ todo = "wait"

Ticking(r) ==
    /\ requests[r] # Idle
    /\ requests[r].todo = "decide"
    /\ requests[r].row.status \notin CycleEnded

Decide(r) ==
    /\ Ticking(r)
    /\ ~ Exhausted(requests[r].row.consumed)
    /\ \E todo \in Phases \cup {"archived", "wait"} :
          Decided(r, todo) /\ Holds(r, [requests[r] EXCEPT !.todo = todo])

(* The tick is done: the route of one tick commits, /run ticks again until *)
(* the cycle has ended, on the row it has or on the row as it now reads    *)
(* it, which depends on whether the session still had a reference to it.   *)
Did(r, new) ==
    Flushed(r, new, IF requests[r].kind = "run" /\ new.status \notin CycleEnded
                    THEN "decide" ELSE "commit")

Reread(session) ==
    [session EXCEPT !.row = [column \in Columns |-> IF column \in session.wrote
                                                    THEN session.row[column] ELSE cycle[column]]]

Executes(r, session) ==
    Holds(r, session) \/ (session.kind = "run" /\ Holds(r, Reread(session)))

(* A tick does what it has decided in this phase, or what there is to do   *)
(* in it without a decision.                                               *)
Doing(r, phase, todo) ==
    /\ requests[r] # Idle
    /\ requests[r].todo = todo
    /\ requests[r].row.status = phase

InPhase(r, phase) ==
    /\ Doing(r, phase, "decide")
    /\ ~ Exhausted(requests[r].row.consumed)

Goes(r, status) == Did(r, [requests[r].row EXCEPT !.status = status])
Ends(r, status, outcome) ==
    Did(r, [requests[r].row EXCEPT !.status = status, !.outcome = outcome])

(* The budget is checked before the phase, and no outcome is set. *)
RunOut(r) ==
    /\ Ticking(r)
    /\ Exhausted(requests[r].row.consumed)
    /\ Executes(r, Goes(r, "archived"))

StartResearch(r) ==
    /\ InPhase(r, "opportunity_identified")
    /\ Executes(r, Did(r, [requests[r].row EXCEPT !.status = "researching", !.project = TRUE]))

ValidateFactors(r) ==
    /\ Doing(r, "researching", "factor_validated")
    /\ Executes(r, [Goes(r, "factor_validated") EXCEPT !.validates = @ \cup found])

ContinueResearch(r) ==
    /\ Doing(r, "researching", "researching")
    /\ Executes(r, Did(r, [requests[r].row EXCEPT !.consumed.trials = @ + 1]))

(* synthesize_candidates(): one for each pattern discovered, each time. *)
Synthesize(r) ==
    /\ InPhase(r, "factor_validated")
    /\ Len(candidates) + requests[r].makes + Cardinality(found) <= MaxCandidates
    /\ LET new == [requests[r].row EXCEPT !.status = "synthesizing",
                                          !.consumed.calls = @ + Cardinality(found)]
       IN  Executes(r, [Did(r, new) EXCEPT !.makes = @ + Cardinality(found)])

StartBacktests(r) ==
    /\ Doing(r, "synthesizing", "backtesting")
    /\ Executes(r, Goes(r, "backtesting"))

NoCandidates(r) ==
    /\ Doing(r, "synthesizing", "archived")
    /\ Executes(r, Ends(r, "archived", "archived_no_alpha"))

WaitForBacktests(r) ==
    /\ Doing(r, "backtesting", "wait")
    /\ Executes(r, Did(r, requests[r].row))

(* _evaluate_all_candidates() *)
Evaluable(r) == {i \in DOMAIN candidates : /\ Sees(r)[i].status = "generated"
                                           /\ Sees(r)[i].result # "none"}

EvaluateAll(r) ==
    /\ Doing(r, "backtesting", "evaluating")
    /\ LET new == [requests[r].row EXCEPT
                      !.status = "evaluating",
                      !.consumed.backtests = @ + Cardinality(Evaluable(r))]
       IN  Executes(r, [Did(r, new) EXCEPT !.evaluates = @ \cup Evaluable(r)])

(* _resolve_evaluation() *)
Judged(r, verdict) ==
    \E i \in DOMAIN Sees(r) : Sees(r)[i].status = "evaluated" /\ Sees(r)[i].verdict = verdict

Outcome(r) ==
    IF Judged(r, "promote") THEN Ends(r, "promoted", "promoted")
    ELSE IF Judged(r, "borderline") THEN Ends(r, "re_research", "re_research_triggered")
    ELSE Ends(r, "archived", "archived_no_alpha")

Evidence(r) ==
    \E i \in DOMAIN Sees(r) : Sees(r)[i].status = "evaluated" /\ Sees(r)[i].result = "strong"

Resolve(r) ==
    /\ InPhase(r, "evaluating")
    /\ Executes(r, [Outcome(r) EXCEPT !.evidence = Evidence(r)])

RestartResearch(r) ==
    /\ InPhase(r, "re_research")
    /\ Executes(r, Goes(r, "researching"))

Tick(r) ==
    \/ Decide(r) \/ RunOut(r) \/ StartResearch(r) \/ ValidateFactors(r) \/ ContinueResearch(r)
    \/ Synthesize(r) \/ StartBacktests(r) \/ NoCandidates(r) \/ WaitForBacktests(r)
    \/ EvaluateAll(r) \/ Resolve(r) \/ RestartResearch(r)

-----------------------------------------------------------------------------
(* The routes of one candidate: its columns are set whatever they are, so  *)
(* that a request is one step; an evaluation may have read the candidate   *)
(* before its backtest.                                                    *)
Sets(i, new) ==
    /\ decisions < MaxDecisions
    /\ decisions' = decisions + 1
    /\ candidates' = [candidates EXCEPT ![i] = new]
    /\ UNCHANGED <<cycle, found, validated, requests>>

ApprovePaper(i) == Sets(i, [candidates[i] EXCEPT !.status = "promoted", !.verdict = "promoted"])
Reject(i) == Sets(i, [candidates[i] EXCEPT !.status = "rejected", !.verdict = "rejected"])
EvaluateByHand(i) ==
    \E result \in {"none", candidates[i].result} : Sets(i, Evaluated(candidates[i], result))

(* The route commits what it made of the discoveries it had read.          *)
SynthesizeByHand ==
    \E n \in 1..Cardinality(found) :
        /\ Len(candidates) + n < MaxCandidates
        /\ candidates' = candidates \o Several(n)
        /\ UNCHANGED <<cycle, found, validated, requests, decisions>>

(* From outside: a significant discovery, the result of a backtest. *)
Discover(p) ==
    /\ p \notin found
    /\ found' = found \cup {p}
    /\ UNCHANGED <<cycle, validated, candidates, requests, decisions>>

Backtest(i, result) ==
    /\ candidates[i].result = "none"
    /\ candidates' = [candidates EXCEPT ![i].result = result]
    /\ UNCHANGED <<cycle, found, validated, requests, decisions>>

CycleNext ==
    \/ \E r \in Requests : Load(r) \/ Cancel(r) \/ Tick(r) \/ Commit(r) \/ Fails(r)
    \/ \E i \in DOMAIN candidates : ApprovePaper(i) \/ Reject(i) \/ EvaluateByHand(i)
    \/ SynthesizeByHand
    \/ \E p \in Patterns : Discover(p)
    \/ \E i \in DOMAIN candidates, result \in Results : Backtest(i, result)

CycleSpec == CycleInit /\ [][CycleNext]_cycleVars

-----------------------------------------------------------------------------
(* Trials never overrun their budget, calls by less than the last batch of *)
(* candidates, whatever other request commits in between.                  *)
TrialsAndCallsKept ==
    /\ cycle.consumed.trials \in 0..MaxTrials
    /\ cycle.consumed.calls \in 0..(MaxCalls + Cardinality(Patterns) - 1)

(* Every variable keeps its type; backtests and calls overrun their budget *)
(* by less than the last batch, trials never.                              *)
CycleTypeOK ==
    /\ cycle \in Row
    /\ validated \subseteq found /\ found \subseteq Patterns
    /\ candidates \in Seq(Candidate)
    /\ decisions \in 0..MaxDecisions
    /\ \A r \in Requests :
          requests[r] # Idle =>
            requests[r] \in Session /\ requests[r].evaluates \subseteq DOMAIN candidates
    /\ TrialsAndCallsKept
    /\ cycle.consumed.backtests < MaxBacktests + Len(candidates)

(* The commit that promotes a cycle is that of a session which had found,  *)
(* when it resolved the evaluation, a candidate evaluated whose backtest   *)
(* met every threshold, its own evaluations included; what humans decided  *)
(* on candidates by then it had seen, what they decide until its commit it *)
(* has not.                                                                *)
PromotedOnEvidence ==
    [][cycle.status # "promoted" /\ cycle'.status = "promoted" =>
        \E r \in Requests : requests[r] # Idle /\ requests'[r] = Idle
                            /\ requests[r].evidence]_cycleVars

(* A cycle that has ended is changed by nothing but a request that had     *)
(* loaded it before it ended.                                              *)
EndedUnlessOverlapped ==
    [][cycle.status \in CycleEnded /\ cycle' # cycle =>
        \E r \in Requests : requests[r] # Idle /\ requests'[r] = Idle
                            /\ ~ requests[r].late]_cycleVars

(* A cycle that ends does so on evidence and stays ended, but for requests *)
(* that overlap its end.                                                   *)
CycleIsSound == PromotedOnEvidence /\ EndedUnlessOverlapped
=============================================================================
