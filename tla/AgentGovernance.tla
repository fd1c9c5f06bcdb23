-------------------------- MODULE AgentGovernance --------------------------
(***************************************************************************)
(* The governance loop of the agents (hqmts/agent/service.py with the      *)
(* repositories of hqmts/db/repositories/agent_repos.py): a task makes a   *)
(* proposal, the policy engine judges it, a human decides where review is  *)
(* required, and an approved proposal is executed.                         *)
(*                                                                         *)
(* Several callers are inside the service at once.  A repository hands out *)
(* a copy of a row (get_domain) and later writes the copy's fields back    *)
(* (update_domain); each action below is the code between two awaits, so   *)
(* other callers act between the read and the write.                       *)
(***************************************************************************)
EXTENDS FiniteSets

CONSTANTS
    AgentCallers,      \* concurrent calls of the service
    Proposals,    \* bound: proposals that can be made
    Approvals,    \* bound: approval requests that can be made
    Executions,   \* bound: controlled executions that can be made
    Environments, \* environments in use
    Types,        \* proposal types in use
    NoApproval    \* approval_request_id of a proposal without one

ASSUME GovernanceAssumption ==
    /\ Environments \subseteq {"research", "backtest", "paper", "live"}
    /\ NoApproval \notin Approvals

VARIABLES
    taskStatus,  \* taskStatus[p]: status of the agent task whose pipeline made p
    props,       \* the proposal rows, a function on the ids in use
    approvals,   \* the approval request rows
    execs,       \* the controlled execution rows
    calls,       \* calls[c]: where caller c is, its copy of a row, its arguments
    killSwitch,  \* PolicyEngine._global_kill_switch
    granted      \* history: proposals that a human has approved

govVars == <<taskStatus, props, approvals, execs, calls, killSwitch, granted>>

ProposalStatuses == {"drafted", "policy_checking", "policy_rejected", "pending_approval",
             "approved", "rejected", "execution_pending", "executed",
             "execution_failed", "expired", "canceled"}

Decisions == {"pending", "approved", "rejected", "expired", "canceled"}

(* A proposal row; env is the environment of the task it came from. *)
Proposal == [status: ProposalStatuses, env: Environments, type: Types,
             policy: {"", "pass", "fail", "manual_review_required"},
             approval: Approvals \cup {NoApproval}]

(* A call that a caller is in: the proposal it is about, whether it is one *)
(* of run_full_pipeline(), the copy of the row it read, its arguments.     *)
NotCalling == [at |-> "idle"]
Methods == {"evaluate", "request", "execute"}
Call ==
    {NotCalling}
    \cup [at: {"enter"}, p: Proposals, method: Methods, env: Environments,
          pipeline: BOOLEAN, approver: BOOLEAN]
    \cup [at: {"evaluate", "request"}, p: Proposals, copy: Proposal, env: Environments,
          pipeline: BOOLEAN, approver: BOOLEAN]
    \cup [at: {"execute"}, p: Proposals, copy: Proposal, pipeline: BOOLEAN]
    \cup [at: {"link"}, p: Proposals, copy: Proposal, id: Approvals, env: Environments,
          pipeline: BOOLEAN, approver: BOOLEAN]
    \cup [at: {"read"}, id: Approvals, pipeline: {TRUE}]
    \cup [at: {"decide"}, id: Approvals, decision: Decisions, pipeline: BOOLEAN]
    \cup [at: {"decided"}, p: Proposals, decision: Decisions, pipeline: BOOLEAN]
    \cup [at: {"settle"}, p: Proposals, copy: Proposal, decision: Decisions, pipeline: BOOLEAN]
    \cup [at: {"run"}, p: Proposals, pipeline: BOOLEAN]
    \cup [at: {"complete"}, id: Executions]

Extended(f, x, v) == [y \in DOMAIN f \cup {x} |-> IF y = x THEN v ELSE f[y]]

-----------------------------------------------------------------------------

(* _evaluate_proposal_policy() *)
ReviewedInPaper == {"close_only", "risk_param_change", "recovery_action"}
ReviewedInLive == ReviewedInPaper \cup {"pause_open", "correction"}

NeedsReview(env, type) ==
    \/ env = "paper" /\ type \in ReviewedInPaper
    \/ env = "live" /\ type \in ReviewedInLive

PolicyResult(env, type) ==
    IF killSwitch THEN "fail"
    ELSE IF NeedsReview(env, type) THEN "manual_review_required" ELSE "pass"

(* The status that the policy result leads to from policy_checking. *)
AfterPolicy == [fail |-> "policy_rejected", manual_review_required |-> "pending_approval",
                pass |-> "approved"]

GovInit ==
    /\ taskStatus = [p \in {} |-> "created"]
    /\ props = [p \in {} |-> 0]
    /\ approvals = [a \in {} |-> 0]
    /\ execs = [e \in {} |-> 0]
    /\ calls = [c \in AgentCallers |-> NotCalling]
    /\ killSwitch = FALSE
    /\ granted = {}

Goes(c, call) == calls' = [calls EXCEPT ![c] = call]

NewTask(p, env, type) ==
    /\ p \notin DOMAIN props
    /\ props' = Extended(props, p, [status |-> "drafted", env |-> env, type |-> type,
                                    policy |-> "", approval |-> NoApproval])
    /\ taskStatus' = Extended(taskStatus, p, "running")

(* create_task(), start_task() and create_proposal() called one by one.    *)
CreateProposal(c, p, env, type) ==
    /\ calls[c] = NotCalling
    /\ NewTask(p, env, type)
    /\ UNCHANGED <<approvals, execs, calls, killSwitch, granted>>

(* run_full_pipeline(), steps 1 and 2: the task is created, started and    *)
(* makes its proposal.  Nobody else knows either id before.                *)
RunFullPipeline(c, p, env, type, approver) ==
    /\ calls[c] = NotCalling
    /\ NewTask(p, env, type)
    /\ Goes(c, [at |-> "enter", p |-> p, method |-> "evaluate", env |-> env,
                pipeline |-> TRUE, approver |-> approver])
    /\ UNCHANGED <<approvals, execs, killSwitch, granted>>

(* A method is called by itself on a proposal.  evaluate_proposal_policy() *)
(* is told the environment by its caller, which is taken to name the one   *)
(* of the proposal's task: nothing in the service compares the two.        *)
CallOnProposal(c, p, method) ==
    /\ calls[c] = NotCalling
    /\ p \in DOMAIN props
    /\ Goes(c, [at |-> "enter", p |-> p, method |-> method, env |-> props[p].env,
                pipeline |-> FALSE, approver |-> FALSE])
    /\ UNCHANGED <<taskStatus, props, approvals, execs, killSwitch, granted>>

(* A method starts by reading the row.  create_approval_request() and      *)
(* execute_proposal() raise unless the copy lets them go on; then the call *)
(* is over, and in a pipeline the task stays as it is.                     *)
MayGoOn(method, row) ==
    CASE method = "evaluate" -> TRUE
      [] method = "request" -> row.policy = "manual_review_required"
      [] method = "execute" -> row.status = "approved"

(* evaluate_proposal_policy() judges its copy at once, from whatever       *)
(* status the row has.                                                     *)
Judged(row, env) ==
    LET result == PolicyResult(env, row.type)
    IN  [row EXCEPT !.policy = result, !.status = AfterPolicy[result]]

EnterMethod(c) ==
    LET k == calls[c]
        row == props[k.p]
    IN  /\ k.at = "enter"
        /\ Goes(c, IF ~MayGoOn(k.method, row) THEN NotCalling
                   ELSE IF k.method = "execute"
                   THEN [at |-> "execute", p |-> k.p, copy |-> row, pipeline |-> k.pipeline]
                   ELSE [at |-> k.method, p |-> k.p, env |-> k.env, pipeline |-> k.pipeline,
                         copy |-> IF k.method = "evaluate" THEN Judged(row, k.env) ELSE row,
                         approver |-> k.approver])
        /\ UNCHANGED <<taskStatus, props, approvals, execs, killSwitch, granted>>

(* It then writes the verdict, and the pipeline goes on by it.             *)
EvaluateProposalPolicy(c) ==
    LET k == calls[c]
        result == k.copy.policy
    IN  /\ k.at = "evaluate"
        /\ props' = [props EXCEPT ![k.p] = k.copy]
        /\ Goes(c, IF ~k.pipeline \/ result = "fail" THEN NotCalling
                   ELSE [at |-> "enter", p |-> k.p, env |-> k.env, pipeline |-> TRUE,
                         method |-> IF result = "pass" THEN "execute" ELSE "request",
                         approver |-> k.approver])
        /\ taskStatus' = IF k.pipeline /\ result = "fail" THEN [taskStatus EXCEPT ![k.p] = "failed"]
                                                     ELSE taskStatus
        /\ UNCHANGED <<approvals, execs, killSwitch, granted>>

(* create_approval_request() adds the request ... *)
CreateApprovalRequest(c, a) ==
    LET k == calls[c]
    IN  /\ k.at = "request"
        /\ a \notin DOMAIN approvals
        /\ approvals' = Extended(approvals, a, [p |-> k.p, decision |-> "pending"])
        /\ Goes(c, [at |-> "link", p |-> k.p, copy |-> k.copy, id |-> a, env |-> k.env,
                    pipeline |-> k.pipeline, approver |-> k.approver])
        /\ UNCHANGED <<taskStatus, props, execs, killSwitch, granted>>

(* Mutant: the pipeline decides for its approver in Live too. *)
LinkAndDecideAnywhere(c) ==
    LET k == calls[c]
    IN  /\ k.at = "link"
        /\ props' = [props EXCEPT ![k.p] = [k.copy EXCEPT !.approval = k.id]]
        /\ taskStatus' = IF k.pipeline THEN [taskStatus EXCEPT ![k.p] = "waiting_tool"] ELSE taskStatus
        /\ Goes(c, IF k.pipeline /\ k.approver
                   THEN [at |-> "read", id |-> k.id, pipeline |-> TRUE] ELSE NotCalling)
        /\ UNCHANGED <<approvals, execs, killSwitch, granted>>

(* ... and links the proposal to it, writing its whole copy back.  The     *)
(* pipeline then makes its task wait for the decision, or outside Live     *)
(* decides itself for the approver it was given.                           *)
LinkApprovalRequest(c) ==
    LET k == calls[c]
    IN  /\ k.at = "link"
        /\ props' = [props EXCEPT ![k.p] = [k.copy EXCEPT !.approval = k.id]]
        /\ taskStatus' = IF k.pipeline THEN [taskStatus EXCEPT ![k.p] = "waiting_tool"] ELSE taskStatus
        /\ Goes(c, IF k.pipeline /\ k.approver /\ k.env # "live"
                   THEN [at |-> "read", id |-> k.id, pipeline |-> TRUE] ELSE NotCalling)
        /\ UNCHANGED <<approvals, execs, killSwitch, granted>>

(* process_approval_decision(): a request not decided yet is decided.      *)
ProcessApprovalDecision(c, a, decision) ==
    /\ \/ calls[c] = NotCalling
       \/ calls[c].at = "read" /\ calls[c].id = a /\ decision = "approved"
    /\ a \in DOMAIN approvals
    /\ approvals[a].decision = "pending"
    /\ Goes(c, [at |-> "decide", id |-> a, decision |-> decision,
                pipeline |-> calls[c] # NotCalling])
    /\ UNCHANGED <<taskStatus, props, approvals, execs, killSwitch, granted>>

(* It raises, in the pipeline too, when somebody has decided before.       *)
AlreadyDecided(c) ==
    /\ calls[c].at = "read"
    /\ approvals[calls[c].id].decision # "pending"
    /\ Goes(c, NotCalling)
    /\ UNCHANGED <<taskStatus, props, approvals, execs, killSwitch, granted>>

RecordDecision(c) ==
    LET k == calls[c]
        p == approvals[k.id].p
    IN  /\ k.at = "decide"
        /\ approvals' = [approvals EXCEPT ![k.id].decision = k.decision]
        /\ granted' = IF k.decision = "approved" /\ ~k.pipeline THEN granted \cup {p} ELSE granted
        /\ Goes(c, [at |-> "decided", p |-> p, decision |-> k.decision, pipeline |-> k.pipeline])
        /\ UNCHANGED <<taskStatus, props, execs, killSwitch>>

(* The linked proposal is read ... *)
ReadDecided(c) ==
    LET k == calls[c]
    IN  /\ k.at = "decided"
        /\ Goes(c, [at |-> "settle", p |-> k.p, copy |-> props[k.p], decision |-> k.decision,
                    pipeline |-> k.pipeline])
        /\ UNCHANGED <<taskStatus, props, approvals, execs, killSwitch, granted>>

(* ... and gets the decision as its status, whatever status it has.        *)
Settled(row, decision) ==
    IF decision \in {"approved", "rejected"} THEN [row EXCEPT !.status = decision] ELSE row

SettleProposal(c) ==
    LET k == calls[c]
    IN  /\ k.at = "settle"
        /\ props' = [props EXCEPT ![k.p] = Settled(k.copy, k.decision)]
        /\ Goes(c, IF k.pipeline
                   THEN [at |-> "enter", p |-> k.p, method |-> "execute", env |-> k.copy.env,
                         pipeline |-> TRUE, approver |-> TRUE]
                   ELSE NotCalling)
        /\ UNCHANGED <<taskStatus, approvals, execs, killSwitch, granted>>

(* Mutant: the task is completed before there is an execution. *)
ExecuteProposalCompletes(c) ==
    LET k == calls[c]
    IN  /\ k.at = "execute"
        /\ props' = [props EXCEPT ![k.p] = [k.copy EXCEPT !.status = "execution_pending"]]
        /\ taskStatus' = [taskStatus EXCEPT ![k.p] = "completed"]
        /\ Goes(c, [at |-> "run", p |-> k.p, pipeline |-> k.pipeline])
        /\ UNCHANGED <<approvals, execs, killSwitch, granted>>

(* execute_proposal(): approved -> execution_pending ... *)
ExecuteProposal(c) ==
    LET k == calls[c]
    IN  /\ k.at = "execute"
        /\ props' = [props EXCEPT ![k.p] = [k.copy EXCEPT !.status = "execution_pending"]]
        /\ Goes(c, [at |-> "run", p |-> k.p, pipeline |-> k.pipeline])
        /\ UNCHANGED <<taskStatus, approvals, execs, killSwitch, granted>>

(* ... and the execution starts; the pipeline's task is completed. *)
CreateExecution(c, e) ==
    LET k == calls[c]
    IN  /\ k.at = "run"
        /\ e \notin DOMAIN execs
        /\ execs' = Extended(execs, e, [p |-> k.p, status |-> "executing"])
        /\ taskStatus' = IF k.pipeline THEN [taskStatus EXCEPT ![k.p] = "completed"] ELSE taskStatus
        /\ Goes(c, NotCalling)
        /\ UNCHANGED <<props, approvals, killSwitch, granted>>

(* complete_execution(): the row is read and must be executing ... *)
CompleteExecution(c, e) ==
    /\ calls[c] = NotCalling
    /\ e \in DOMAIN execs
    /\ execs[e].status = "executing"
    /\ Goes(c, [at |-> "complete", id |-> e])
    /\ UNCHANGED <<taskStatus, props, approvals, execs, killSwitch, granted>>

(* ... then it is written; the proposal is left alone. *)
RecordCompletion(c, status) ==
    /\ calls[c].at = "complete"
    /\ execs' = [execs EXCEPT ![calls[c].id].status = status]
    /\ Goes(c, NotCalling)
    /\ UNCHANGED <<taskStatus, props, approvals, killSwitch, granted>>

(* PolicyEngine.set_kill_switch() *)
SetKillSwitch ==
    /\ killSwitch' = ~killSwitch
    /\ UNCHANGED <<taskStatus, props, approvals, execs, calls, granted>>

-----------------------------------------------------------------------------

GovNext ==
    \/ \E c \in AgentCallers, p \in Proposals :
          \/ \E env \in Environments, type \in Types :
                \/ CreateProposal(c, p, env, type)
                \/ \E approver \in BOOLEAN : RunFullPipeline(c, p, env, type, approver)
          \/ \E method \in Methods : CallOnProposal(c, p, method)
    \/ \E c \in AgentCallers :
          \/ EnterMethod(c)
          \/ AlreadyDecided(c)
          \/ EvaluateProposalPolicy(c)
          \/ LinkApprovalRequest(c)
          \/ RecordDecision(c)
          \/ ReadDecided(c)
          \/ SettleProposal(c)
          \/ ExecuteProposal(c)
    \/ \E c \in AgentCallers, a \in Approvals :
          \/ CreateApprovalRequest(c, a)
          \/ \E decision \in Decisions \ {"pending"} : ProcessApprovalDecision(c, a, decision)
    \/ \E c \in AgentCallers, e \in Executions : CreateExecution(c, e) \/ CompleteExecution(c, e)
    \/ \E c \in AgentCallers, status \in {"completed", "failed"} : RecordCompletion(c, status)
    \/ SetKillSwitch

GovSpec == GovInit /\ [][GovNext]_govVars

-----------------------------------------------------------------------------

GovTypeOK ==
    /\ DOMAIN props \subseteq Proposals /\ props \in [DOMAIN props -> Proposal]
    /\ taskStatus \in [DOMAIN props -> {"running", "waiting_tool", "completed", "failed"}]
    /\ DOMAIN approvals \subseteq Approvals
    /\ approvals \in [DOMAIN approvals -> [p: DOMAIN props, decision: Decisions]]
    /\ DOMAIN execs \subseteq Executions
    /\ execs \in [DOMAIN execs ->
                    [p: DOMAIN props, status: {"executing", "completed", "failed"}]]
    /\ calls \in [AgentCallers -> Call]
    /\ killSwitch \in BOOLEAN
    /\ granted \subseteq DOMAIN props

(* Whatever calls race, with stale copies written over newer rows, nothing *)
(* that needs review in Live is executed unless a human approved it: the   *)
(* pipeline never approves it itself.                                      *)
HumanInTheLoop ==
    \A e \in DOMAIN execs :
       LET row == props[execs[e].p]
       IN  (row.env = "live" /\ NeedsReview("live", row.type)) => execs[e].p \in granted

(* A task that waits for a decision has a request that can be decided or   *)
(* was, and a completed task has an execution to show: the pipeline never  *)
(* reports an outcome that is not in the tables.                           *)
TaskTellsOutcome ==
    \A p \in DOMAIN taskStatus :
       /\ taskStatus[p] = "waiting_tool" => \E a \in DOMAIN approvals : approvals[a].p = p
       /\ taskStatus[p] = "completed" => \E e \in DOMAIN execs : execs[e].p = p

-----------------------------------------------------------------------------
(* What the documents say of the loop, and the code does not do.           *)

(* SAD, deduplication keys: ControlledExecutionRequested by                *)
(* source_proposal_id + action_type + target_object_id.                    *)
ExecutedOnce == \A e, f \in DOMAIN execs : execs[e].p = execs[f].p => e = f
=============================================================================
