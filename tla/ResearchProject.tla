-------------------------- MODULE ResearchProject --------------------------
(***************************************************************************)
(* One research project (hqmts/research/orchestrator.py with the status    *)
(* machine of statemachine/research_project_fsm.py and the project routes  *)
(* of api/routes/factor_research.py): its stages, its hypotheses and its   *)
(* trial plans.                                                            *)
(*                                                                         *)
(* Every request has a database session of its own: it loads the project's *)
(* row, checks, and commits later; requests of several users overlap.      *)
(***************************************************************************)
EXTENDS Naturals, FiniteSets

CONSTANTS
    Users,        \* requests that can be under way at a time
    Hypotheses,   \* bound: hypotheses that can be proposed
    Trials        \* bound: trial plans that can be made

ASSUME ProjectAssumption == IsFiniteSet(Trials)

VARIABLES
    status,       \* ResearchProjectORM.status
    hypotheses,   \* status of each hypothesis, "none" before it exists
    trials,       \* each trial plan: its status, its index in the project
    request       \* request[u]: what it is about to commit, and the status it loaded

projectVars == <<status, hypotheses, trials, request>>

Stages == {"created", "exploring", "hypothesizing", "designing", "executing",
           "validating", "reporting"}
ProjectEnded == {"completed", "failed", "canceled"}

(* RESEARCH_PROJECT_TRANSITIONS *)
Transitions ==
    [s \in Stages \cup ProjectEnded |->
        CASE s = "created" -> {"exploring", "canceled"}
          [] s = "exploring" -> {"hypothesizing", "canceled", "failed"}
          [] s = "hypothesizing" -> {"designing", "canceled", "failed"}
          [] s = "designing" -> {"executing", "canceled", "failed"}
          [] s = "executing" -> {"validating", "canceled", "failed"}
          [] s = "validating" -> {"reporting", "executing", "canceled", "failed"}
          [] s = "reporting" -> {"completed", "canceled", "failed"}
          [] OTHER -> {}]

NextStage == [created |-> "exploring", exploring |-> "hypothesizing",
              hypothesizing |-> "designing", designing |-> "executing",
              executing |-> "validating", validating |-> "reporting",
              reporting |-> "completed"]

NoTrial == [status |-> "none", index |-> 0]
Nothing == [kind |-> "idle"]

ProjectInit ==
    /\ status = "created"
    /\ hypotheses = [h \in Hypotheses |-> "none"]
    /\ trials = [t \in Trials |-> NoTrial]
    /\ request = [u \in Users |-> Nothing]

WillCommit(u, what) ==
    /\ request[u] = Nothing
    /\ request' = [request EXCEPT ![u] = what]
    /\ UNCHANGED <<status, hypotheses, trials>>

Made == {t \in Trials : trials[t] # NoTrial}

-----------------------------------------------------------------------------
(* Mutant: any number of hypotheses will do. *)
MayLeaveUnproposed(stage) == stage = "designing" => \E t \in Trials : trials[t].status = "planned"

(* advance_stage(): what a stage must have before it is left. *)
MayLeave(stage) ==
    /\ stage = "hypothesizing" => \E h \in Hypotheses : hypotheses[h] = "accepted"
    /\ stage = "designing" => \E t \in Trials : trials[t].status = "planned"

(* _advance_status(): the transition must be one of the table. *)
GoTo(u, target) ==
    /\ target \in Transitions[status]
    /\ WillCommit(u, [kind |-> "move", loaded |-> status, to |-> target])

Advance(u) == status \in Stages /\ MayLeave(status) /\ GoTo(u, NextStage[status])
RollBack(u) == GoTo(u, "executing")
CancelProject(u) == GoTo(u, "canceled")

Move(u) ==
    /\ request[u].kind = "move"
    /\ status' = request[u].to
    /\ request' = [request EXCEPT ![u] = Nothing]
    /\ UNCHANGED <<hypotheses, trials>>

(* Hypotheses are proposed and judged in any stage. *)
Propose(h) ==
    /\ hypotheses[h] = "none"
    /\ hypotheses' = [hypotheses EXCEPT ![h] = "draft"]
    /\ UNCHANGED <<status, trials, request>>

Judge(h, verdict) ==
    /\ hypotheses[h] # "none"
    /\ hypotheses' = [hypotheses EXCEPT ![h] = verdict]
    /\ UNCHANGED <<status, trials, request>>

(* Mutant: the plan is counted as if it were stored already. *)
PlanCountsItself(u) ==
    /\ \E h \in Hypotheses : hypotheses[h] # "none"
    /\ WillCommit(u, [kind |-> "plan", index |-> Cardinality(Made) + 2])

(* create_trial_plan(): the index is counted before the plan is stored. *)
Plan(u) ==
    /\ \E h \in Hypotheses : hypotheses[h] # "none"
    /\ WillCommit(u, [kind |-> "plan", index |-> Cardinality(Made) + 1])

StorePlan(u, t) ==
    /\ request[u].kind = "plan"
    /\ t \notin Made
    /\ trials' = [trials EXCEPT ![t] = [status |-> "planned", index |-> request[u].index]]
    /\ request' = [request EXCEPT ![u] = Nothing]
    /\ UNCHANGED <<status, hypotheses>>

(* execute_trial(): refused unless planned; "running" is never committed,  *)
(* it and "completed" are of one transaction.                              *)
Execute(u, t) ==
    /\ trials[t].status = "planned"
    /\ WillCommit(u, [kind |-> "execute", trial |-> t])

Complete(u) ==
    /\ request[u].kind = "execute"
    /\ trials' = [trials EXCEPT ![request[u].trial].status = "completed"]
    /\ request' = [request EXCEPT ![u] = Nothing]
    /\ UNCHANGED <<status, hypotheses>>

ProjectNext ==
    \/ \E u \in Users : \/ Advance(u) \/ RollBack(u) \/ CancelProject(u) \/ Move(u)
                        \/ Plan(u) \/ Complete(u)
                        \/ \E t \in Trials : StorePlan(u, t) \/ Execute(u, t)
    \/ \E h \in Hypotheses : \/ Propose(h)
                             \/ \E verdict \in {"accepted", "rejected"} : Judge(h, verdict)

ProjectSpec == ProjectInit /\ [][ProjectNext]_projectVars

-----------------------------------------------------------------------------
ProjectTypeOK ==
    /\ status \in Stages \cup ProjectEnded
    /\ hypotheses \in [Hypotheses -> {"none", "draft", "accepted", "rejected"}]
    /\ trials \in [Trials -> [status: {"none", "planned", "completed"},
                              index: 0..Cardinality(Trials)]]
    /\ \A u \in Users : \/ request[u].kind \in {"idle", "plan", "execute"}
                        \/ request[u].kind = "move" /\ request[u].to \in Transitions[request[u].loaded]

(* No trial is planned or run, and no project designs or goes further,     *)
(* without a hypothesis, however requests overlap and roll back.           *)
Proposed == \E h \in Hypotheses : hypotheses[h] # "none"
HypothesisFirst ==
    /\ status \in {"designing", "executing", "validating", "reporting", "completed"} => Proposed
    /\ Made # {} => Proposed

(* An index never tells more tests than were planned before: at least so   *)
(* many plans have a smaller one.  Overlapping plans may share one, and    *)
(* then the next is skipped.                                               *)
IndexTellsEarlier ==
    \A t \in Made :
        Cardinality({o \in Made : trials[o].index < trials[t].index}) >= trials[t].index - 1

(* A project that has ended changes only by a request that had loaded it   *)
(* before.                                                                 *)
EndedProjectStays ==
    [][status' # status /\ status \in ProjectEnded =>
        \E u \in Users : request[u].kind = "move" /\ request'[u] = Nothing
                         /\ request[u].loaded \notin ProjectEnded]_projectVars

(* What advance_stage() asks of a project that leaves designing: trials    *)
(* are executed only once there is a trial plan.                           *)
TrialsToExecute == status \in {"executing", "validating", "reporting", "completed"} => Made # {}
=============================================================================
