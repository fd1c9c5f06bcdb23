---------------------------- MODULE ResearchProofs ----------------------------
(***************************************************************************)
(* Proofs about the parts of the Research run.  The research project: what *)
(* the checks of advance_stage() and create_trial_plan() keep, for any     *)
(* number of overlapping requests, hypotheses and trial plans.  The        *)
(* research cycle: what ends it, its budgets, and what its sessions hold.  *)
(* The admission to live trading: what a readiness report tells.           *)
(***************************************************************************)
EXTENDS MCResearch, FiniteSetTheorems, SequenceTheorems, TLAPS

AllStages == Stages \cup ProjectEnded
Later == {"designing", "executing", "validating", "reporting", "completed"}

ProjectRequests == {Nothing} \cup [kind: {"move"}, loaded: AllStages, to: AllStages]
                      \cup [kind: {"plan"}, index: Nat] \cup [kind: {"execute"}, trial: Trials]

TrialRows == [status: {"none", "planned", "completed"}, index: Nat]

TypeInv ==
    /\ status \in AllStages
    /\ hypotheses \in [Hypotheses -> {"none", "draft", "accepted", "rejected"}]
    /\ trials \in [Trials -> TrialRows]
    /\ request \in [Users -> ProjectRequests]
    /\ \A u \in Users : request[u].kind = "move" => request[u].to \in Transitions[request[u].loaded]

(* A hypothesis, once proposed, stays: so whoever has seen one is right    *)
(* however late the request commits.                                       *)
SeenInv ==
    /\ status \in Later => Proposed
    /\ Made # {} => Proposed
    /\ \A u \in Users :
        /\ request[u].kind \in {"plan", "execute"} => Proposed
        /\ request[u].kind = "move" /\ request[u].to \in Later => Proposed

ProjectInv == TypeInv /\ SeenInv

-----------------------------------------------------------------------------
(* Into a later stage there is a way only from a later stage, or, for      *)
(* designing, from hypothesizing; and from no ended one.                   *)
LEMMA WaysToLater ==
    ASSUME NEW from \in AllStages, NEW to \in Transitions[from]
    PROVE  /\ to \in AllStages /\ from \notin ProjectEnded
           /\ to \in Later => from \in Later \/ (from = "hypothesizing" /\ to = "designing")
BY DEF Transitions, AllStages, Stages, ProjectEnded, Later

LEMMA ProjectInitInv == ProjectInit => ProjectInv
<1> SUFFICES ASSUME ProjectInit PROVE ProjectInv
  OBVIOUS
<1>1. TypeInv
  BY DEF ProjectInit, TypeInv, AllStages, Stages, TrialRows, NoTrial, ProjectRequests, Nothing
<1>2. Made = {}
  BY DEF ProjectInit, Made
<1>3. SeenInv
  BY <1>2 DEF ProjectInit, SeenInv, Later, Nothing
<1> QED
  BY <1>1, <1>3 DEF ProjectInv

(* A request has loaded what it needs and waits to commit. *)
LEMMA Waiting ==
    ASSUME ProjectInv, NEW u \in Users, NEW what \in ProjectRequests, WillCommit(u, what),
           what.kind = "move" => what.to \in Transitions[what.loaded],
           what.kind \in {"plan", "execute"} => Proposed,
           what.kind = "move" /\ what.to \in Later => Proposed
    PROVE  ProjectInv'
<1>1. /\ request' \in [Users -> ProjectRequests] /\ request'[u] = what
      /\ \A v \in Users : v # u => request'[v] = request[v]
  BY DEF WillCommit, ProjectInv, TypeInv
<1>2. UNCHANGED <<status, hypotheses, trials>> /\ (Proposed <=> Proposed') /\ Made' = Made
  BY DEF WillCommit, Proposed, Made
<1>3. TypeInv'
  BY <1>1, <1>2 DEF ProjectInv, TypeInv
<1>4. SeenInv'
  BY <1>1, <1>2 DEF ProjectInv, SeenInv
<1> QED
  BY <1>3, <1>4 DEF ProjectInv

LEMMA GoesToStep ==
    ASSUME ProjectInv, NEW u \in Users, NEW target, GoTo(u, target),
           status = "hypothesizing" /\ target = "designing" => Proposed
    PROVE  ProjectInv'
<1> DEFINE what == [kind |-> "move", loaded |-> status, to |-> target]
<1>1. status \in AllStages /\ target \in Transitions[status]
  BY DEF ProjectInv, TypeInv, GoTo
<1>2. what \in ProjectRequests
  BY <1>1, WaysToLater DEF ProjectRequests
<1>3. target \in Later => Proposed
  BY <1>1, WaysToLater DEF ProjectInv, SeenInv
<1>4. WillCommit(u, what)
  BY DEF GoTo
<1> QED
  BY <1>1, <1>2, <1>3, <1>4, Waiting

LEMMA AdvanceStep ==
    ASSUME ProjectInv, NEW u \in Users, Advance(u)
    PROVE  ProjectInv'
<1>1. GoTo(u, NextStage[status]) /\ MayLeave(status)
  BY DEF Advance
<1>2. status = "hypothesizing" => Proposed
  BY <1>1 DEF MayLeave, Proposed
<1> QED
  BY <1>1, <1>2, GoesToStep

(* Whoever plans or executes a trial has seen a hypothesis. *)
LEMMA AskStep ==
    ASSUME ProjectInv, NEW u \in Users,
           RollBack(u) \/ CancelProject(u) \/ Plan(u) \/ \E t \in Trials : Execute(u, t)
    PROVE  ProjectInv'
<1>1. CASE RollBack(u) \/ CancelProject(u)
  BY <1>1, GoesToStep DEF RollBack, CancelProject
<1>2. CASE Plan(u)
  <2> DEFINE what == [kind |-> "plan", index |-> Cardinality(Made) + 1]
  <2>1. IsFiniteSet(Made)
    BY ProjectAssumption, FS_Subset DEF Made
  <2>2. what \in ProjectRequests /\ Proposed /\ WillCommit(u, what)
    BY <1>2, <2>1, FS_CardinalityType DEF ProjectRequests, Plan, Proposed
  <2> QED
    BY <2>2, Waiting
<1>3. ASSUME NEW t \in Trials, Execute(u, t) PROVE ProjectInv'
  <2> DEFINE what == [kind |-> "execute", trial |-> t]
  <2>1. t \in Made
    BY <1>3 DEF Execute, Made, NoTrial
  <2>2. what \in ProjectRequests /\ Proposed /\ WillCommit(u, what)
    BY <1>3, <2>1 DEF ProjectRequests, Execute, ProjectInv, SeenInv
  <2> QED
    BY <2>2, Waiting
<1> QED
  BY <1>1, <1>2, <1>3

(* A request has committed and is done. *)
LEMMA Committed ==
    ASSUME ProjectInv, NEW u \in Users, request' = [request EXCEPT ![u] = Nothing],
           status' \in AllStages, trials' \in [Trials -> TrialRows], UNCHANGED hypotheses,
           status' \in Later => Proposed,
           Made' # {} => Proposed
    PROVE  ProjectInv'
<1>1. /\ request' \in [Users -> ProjectRequests] /\ request'[u] = Nothing /\ Nothing.kind = "idle"
      /\ \A v \in Users : v # u => request'[v] = request[v]
  BY DEF ProjectInv, TypeInv, ProjectRequests, Nothing
<1>2. Proposed <=> Proposed'
  BY DEF Proposed
<1>3. TypeInv'
  BY <1>1 DEF ProjectInv, TypeInv
<1>4. SeenInv'
  BY <1>1, <1>2 DEF ProjectInv, SeenInv
<1> QED
  BY <1>3, <1>4 DEF ProjectInv

LEMMA CommitStep ==
    ASSUME ProjectInv, NEW u \in Users,
           Move(u) \/ Complete(u) \/ \E t \in Trials : StorePlan(u, t)
    PROVE  ProjectInv'
<1>1. CASE Move(u)
  <2>1. request[u] \in [kind: {"move"}, loaded: AllStages, to: AllStages]
    BY <1>1 DEF Move, ProjectInv, TypeInv, ProjectRequests, Nothing
  <2>2. status' \in AllStages /\ (status' \in Later => Proposed)
    BY <1>1, <2>1 DEF Move, ProjectInv, SeenInv
  <2>3. Made' = Made /\ trials' \in [Trials -> TrialRows]
    BY <1>1 DEF Move, Made, ProjectInv, TypeInv
  <2> QED
    BY <1>1, <2>2, <2>3, Committed DEF Move, ProjectInv, SeenInv
<1>2. ASSUME NEW t \in Trials, StorePlan(u, t) PROVE ProjectInv'
  <2>1. request[u].kind = "plan" /\ request[u].index \in Nat /\ Proposed
    BY <1>2 DEF StorePlan, ProjectInv, TypeInv, SeenInv, ProjectRequests, Nothing
  <2>2. trials' \in [Trials -> TrialRows]
    BY <1>2, <2>1 DEF StorePlan, ProjectInv, TypeInv, TrialRows
  <2> QED
    BY <1>2, <2>1, <2>2, Committed DEF StorePlan, ProjectInv, TypeInv, SeenInv
<1>3. CASE Complete(u)
  <2>1. request[u].kind = "execute" /\ request[u].trial \in Trials /\ Proposed
    BY <1>3 DEF Complete, ProjectInv, TypeInv, SeenInv, ProjectRequests, Nothing
  <2>2. trials' \in [Trials -> TrialRows]
    BY <1>3, <2>1 DEF Complete, ProjectInv, TypeInv, TrialRows
  <2> QED
    BY <1>3, <2>1, <2>2, Committed DEF Complete, ProjectInv, TypeInv, SeenInv
<1> QED
  BY <1>1, <1>2, <1>3

LEMMA HypothesisStep ==
    ASSUME ProjectInv, NEW h \in Hypotheses,
           Propose(h) \/ \E verdict \in {"accepted", "rejected"} : Judge(h, verdict)
    PROVE  ProjectInv'
<1>1. /\ hypotheses' \in [Hypotheses -> {"none", "draft", "accepted", "rejected"}]
      /\ \A g \in Hypotheses : hypotheses[g] # "none" => hypotheses'[g] # "none"
      /\ UNCHANGED <<status, trials, request>>
  BY DEF Propose, Judge, ProjectInv, TypeInv
<1>2. Proposed => Proposed'
  BY <1>1 DEF Proposed
<1>3. Made' = Made
  BY <1>1 DEF Made
<1> QED
  BY <1>1, <1>2, <1>3 DEF ProjectInv, TypeInv, SeenInv

LEMMA ProjectInvStep == ProjectInv /\ [ProjectNext]_projectVars => ProjectInv'
<1> SUFFICES ASSUME ProjectInv, [ProjectNext]_projectVars PROVE ProjectInv'
  OBVIOUS
<1>1. CASE \E u \in Users : Advance(u)
  BY <1>1, AdvanceStep
<1>2. CASE \E u \in Users : RollBack(u) \/ CancelProject(u) \/ Plan(u) \/ \E t \in Trials : Execute(u, t)
  BY <1>2, AskStep
<1>3. CASE \E u \in Users : Move(u) \/ Complete(u) \/ \E t \in Trials : StorePlan(u, t)
  BY <1>3, CommitStep
<1>4. CASE \E h \in Hypotheses : Propose(h) \/ \E verdict \in {"accepted", "rejected"} : Judge(h, verdict)
  BY <1>4, HypothesisStep
<1>5. CASE UNCHANGED projectVars
  BY <1>5 DEF projectVars, ProjectInv, TypeInv, SeenInv, Made, Proposed
<1> QED
  BY <1>1, <1>2, <1>3, <1>4, <1>5 DEF ProjectNext

(* research/orchestrator.py:142, :175: no trial is planned or run, and no  *)
(* project designs or goes further, without a hypothesis, however requests *)
(* overlap and roll back.                                                  *)
THEOREM HypothesisComesFirst == ProjectSpec => []HypothesisFirst
<1>1. ProjectInv => HypothesisFirst
  BY DEF ProjectInv, SeenInv, HypothesisFirst, Later
<1> QED
  BY <1>1, ProjectInitInv, ProjectInvStep, PTL DEF ProjectSpec

(* A project that has ended changes only by a request that had loaded it   *)
(* before it ended.                                                        *)
THEOREM EndedStaysEnded == ProjectSpec => EndedProjectStays
<1>1. ASSUME ProjectInv, [ProjectNext]_projectVars
      PROVE  [status' # status /\ status \in ProjectEnded =>
                \E u \in Users : request[u].kind = "move" /\ request'[u] = Nothing
                                 /\ request[u].loaded \notin ProjectEnded]_projectVars
  <2> SUFFICES ASSUME status' # status
      PROVE \E u \in Users : request[u].kind = "move" /\ request'[u] = Nothing
                             /\ request[u].loaded \notin ProjectEnded
    OBVIOUS
  <2>1. PICK u \in Users : Move(u)
    BY <1>1 DEF ProjectNext, projectVars, Advance, RollBack, CancelProject, GoTo, Plan, Execute,
       WillCommit, Complete, StorePlan, Propose, Judge
  <2>2. request[u] \in [kind: {"move"}, loaded: AllStages, to: AllStages]
    BY <1>1, <2>1 DEF Move, ProjectInv, TypeInv, ProjectRequests, Nothing
  <2>3. request[u].loaded \notin ProjectEnded
    BY <1>1, <2>1, <2>2, WaysToLater DEF Move, ProjectInv, TypeInv
  <2> QED
    BY <1>1, <2>1, <2>3 DEF Move, ProjectInv, TypeInv
<1> QED
  BY <1>1, ProjectInitInv, ProjectInvStep, PTL DEF ProjectSpec, EndedProjectStays

-----------------------------------------------------------------------------
(* Trial indices.  The plans with an index below i are at least i - 1, for *)
(* every stored plan and every plan about to be stored; no index exceeds   *)
(* the number of plans, and none about to be stored by more than one.      *)
Planned(rows) == {t \in Trials : rows[t] # NoTrial}
Below(rows, i) == {o \in Planned(rows) : rows[o].index < i}

Counted(rows, i) == Cardinality(Below(rows, i)) >= i - 1

IndexInv ==
    /\ \A t \in Planned(trials) :
          trials[t].index <= Cardinality(Planned(trials)) /\ Counted(trials, trials[t].index)
    /\ \A u \in Users : request[u].kind = "plan" =>
          /\ request[u].index <= Cardinality(Planned(trials)) + 1
          /\ Counted(trials, request[u].index)

LEMMA PlannedFinite ==
    ASSUME NEW rows
    PROVE  /\ IsFiniteSet(Planned(rows)) /\ Cardinality(Planned(rows)) \in Nat
           /\ \A i : IsFiniteSet(Below(rows, i)) /\ Cardinality(Below(rows, i)) \in Nat
<1>1. IsFiniteSet(Planned(rows)) /\ Cardinality(Planned(rows)) \in Nat
  BY ProjectAssumption, FS_Subset, FS_CardinalityType DEF Planned
<1>2. \A i : Below(rows, i) \subseteq Planned(rows)
  BY DEF Below
<1> QED
  BY <1>1, <1>2, FS_Subset, FS_CardinalityType

(* What a stored plan and a waiting request have as index. *)
LEMMA IndexIsNumber ==
    ASSUME TypeInv
    PROVE  /\ \A t \in Trials : trials[t].index \in Nat
           /\ \A u \in Users : request[u].kind = "plan" => request[u].index \in Nat
BY DEF TypeInv, TrialRows, ProjectRequests, Nothing

(* No plan is stored, and no new one counted. *)
LEMMA SameIndices ==
    ASSUME IndexInv, UNCHANGED trials,
           \A u \in Users : request'[u].kind = "plan" => request'[u] = request[u]
    PROVE  IndexInv'
BY DEF IndexInv

(* A trial is completed: its index stays. *)
LEMMA CompleteIndex ==
    ASSUME ProjectInv, IndexInv, NEW u \in Users, Complete(u)
    PROVE  IndexInv'
<1> DEFINE n == Cardinality(Planned(trials))
           rows == trials'
<1>1. \A o \in Trials : rows[o].index = trials[o].index /\ (trials[o] # NoTrial => rows[o] # NoTrial)
  <2> SUFFICES ASSUME NEW o \in Trials
      PROVE rows[o].index = trials[o].index /\ (trials[o] # NoTrial => rows[o] # NoTrial)
    OBVIOUS
  <2>1. CASE o = request[u].trial
    <3>1. rows[o] = [trials[o] EXCEPT !.status = "completed"] /\ trials[o] \in TrialRows
      BY <2>1 DEF Complete, ProjectInv, TypeInv
    <3> QED
      BY <3>1 DEF TrialRows, NoTrial
  <2>2. CASE o # request[u].trial
    BY <2>2 DEF Complete, ProjectInv, TypeInv
  <2> QED
    BY <2>1, <2>2
<1>2. Planned(trials) \subseteq Planned(rows)
  BY <1>1 DEF Planned
<1>3. n \in Nat /\ Cardinality(Planned(rows)) \in Nat /\ n <= Cardinality(Planned(rows))
  BY <1>2, PlannedFinite, FS_Subset
<1>4. \A v \in Users : request'[v].kind = "plan" => request'[v] = request[v]
  BY DEF Complete, ProjectInv, TypeInv, Nothing
<1> HIDE DEF rows
<1>5. ASSUME NEW j \in Nat, Counted(trials, j) PROVE Counted(rows, j)
  <2>1. Below(trials, j) \subseteq Below(rows, j)
    BY <1>1, <1>2 DEF Below, Planned
  <2>2. Cardinality(Below(trials, j)) <= Cardinality(Below(rows, j))
    BY <2>1, PlannedFinite, FS_Subset
  <2>3. Cardinality(Below(trials, j)) \in Nat /\ Cardinality(Below(rows, j)) \in Nat
    BY PlannedFinite
  <2> QED
    BY <1>5, <2>2, <2>3 DEF Counted
<1>6. ASSUME NEW o \in Planned(rows)
      PROVE  rows[o].index <= Cardinality(Planned(rows)) /\ Counted(rows, rows[o].index)
  <2>1. CASE o \in Planned(trials)
    <3>1. rows[o].index = trials[o].index /\ trials[o].index \in Nat
      BY <1>1, <1>6, IndexIsNumber DEF Planned, ProjectInv
    <3>2. trials[o].index <= n /\ Counted(trials, trials[o].index)
      BY <2>1 DEF IndexInv
    <3> QED
      BY <1>3, <1>5, <3>1, <3>2
  <2>2. CASE o \notin Planned(trials)
    <3>1. rows[o].index = 0
      BY <1>1, <1>6, <2>2 DEF Planned, NoTrial
    <3> QED
      BY <1>3, <3>1, PlannedFinite DEF Counted
  <2> QED
    BY <2>1, <2>2
<1>7. ASSUME NEW v \in Users, request'[v].kind = "plan"
      PROVE  /\ request'[v].index <= Cardinality(Planned(rows)) + 1
             /\ Counted(rows, request'[v].index)
  <2>1. request'[v] = request[v] /\ request[v].kind = "plan" /\ request[v].index \in Nat
    BY <1>4, <1>7, IndexIsNumber DEF ProjectInv
  <2>2. request[v].index <= n + 1 /\ Counted(trials, request[v].index)
    BY <2>1 DEF IndexInv
  <2> QED
    BY <1>3, <1>5, <2>1, <2>2
<1> QED
  BY <1>6, <1>7 DEF IndexInv, rows

(* create_trial_plan() counts what is there. *)
LEMMA PlanIndex ==
    ASSUME ProjectInv, IndexInv, NEW u \in Users, Plan(u)
    PROVE  IndexInv'
<1> DEFINE n == Cardinality(Planned(trials))
<1>1. UNCHANGED trials /\ Made = Planned(trials)
  BY DEF Plan, WillCommit, Made, Planned
<1>2. n \in Nat
  BY PlannedFinite
<1>3. Below(trials, n + 1) = Planned(trials)
  <2> SUFFICES ASSUME NEW t \in Planned(trials) PROVE trials[t].index < n + 1
    BY DEF Below
  <2>1. trials[t].index \in Nat /\ trials[t].index <= n
    BY IndexIsNumber DEF ProjectInv, IndexInv, Planned
  <2> QED
    BY <1>2, <2>1
<1>4. /\ request'[u] = [kind |-> "plan", index |-> n + 1]
      /\ \A v \in Users : v # u => request'[v] = request[v]
  BY <1>1 DEF Plan, WillCommit, ProjectInv, TypeInv
<1>5. Counted(trials, n + 1)
  BY <1>2, <1>3 DEF Counted
<1> HIDE DEF n
<1>6. \A v \in Users : request'[v].kind = "plan" =>
        /\ request'[v].index <= n + 1
        /\ Counted(trials, request'[v].index)
  <2> SUFFICES ASSUME NEW v \in Users, request'[v].kind = "plan"
      PROVE  request'[v].index <= n + 1 /\ Counted(trials, request'[v].index)
    OBVIOUS
  <2>1. CASE v = u
    BY <1>2, <1>4, <1>5, <2>1
  <2>2. CASE v # u
    BY <1>4, <2>2 DEF IndexInv, n
  <2> QED
    BY <2>1, <2>2
<1> QED
  BY <1>1, <1>6 DEF IndexInv, n

(* The plan is stored under the index counted for it. *)
LEMMA StoreIndex ==
    ASSUME ProjectInv, IndexInv, NEW u \in Users, NEW t \in Trials, StorePlan(u, t)
    PROVE  IndexInv'
<1> DEFINE i == request[u].index
           n == Cardinality(Planned(trials))
           rows == trials'
<1>1. request[u].kind = "plan" /\ i \in Nat /\ t \notin Planned(trials)
  BY IndexIsNumber DEF StorePlan, ProjectInv, Made, Planned
<1>2. /\ rows[t] = [status |-> "planned", index |-> i]
      /\ \A o \in Trials : o # t => rows[o] = trials[o]
  BY DEF StorePlan, ProjectInv, TypeInv
<1>3. Planned(rows) = Planned(trials) \cup {t}
  BY <1>2 DEF Planned, NoTrial
<1>4. n \in Nat /\ Cardinality(Planned(rows)) = n + 1
  BY <1>1, <1>3, PlannedFinite, FS_AddElement
<1>5. /\ \A v \in Users : v # u => request'[v] = request[v]
      /\ request'[u].kind # "plan"
  BY DEF StorePlan, ProjectInv, TypeInv, Nothing
<1> HIDE DEF rows
<1>6. ASSUME NEW j \in Nat, Counted(trials, j) PROVE Counted(rows, j)
  <2>1. Below(trials, j) \subseteq Below(rows, j)
    BY <1>1, <1>2, <1>3 DEF Below, Planned
  <2>2. Cardinality(Below(trials, j)) <= Cardinality(Below(rows, j))
    BY <2>1, PlannedFinite, FS_Subset
  <2>3. Cardinality(Below(trials, j)) \in Nat /\ Cardinality(Below(rows, j)) \in Nat
    BY PlannedFinite
  <2> QED
    BY <1>6, <2>2, <2>3 DEF Counted
<1>7. ASSUME NEW o \in Planned(rows) PROVE rows[o].index <= n + 1 /\ Counted(rows, rows[o].index)
  <2>1. CASE o = t
    <3>1. i <= n + 1 /\ Counted(trials, i) /\ rows[o].index = i
      BY <1>1, <1>2, <2>1 DEF IndexInv
    <3> QED
      BY <1>1, <1>6, <3>1
  <2>2. CASE o # t
    <3>1. o \in Planned(trials) /\ o \in Trials /\ rows[o] = trials[o]
      BY <1>2, <1>3, <2>2 DEF Planned
    <3>2. trials[o].index \in Nat /\ trials[o].index <= n /\ Counted(trials, trials[o].index)
      BY <3>1, IndexIsNumber DEF ProjectInv, IndexInv
    <3> QED
      BY <1>4, <1>6, <3>1, <3>2
  <2> QED
    BY <2>1, <2>2
<1>8. ASSUME NEW v \in Users, request'[v].kind = "plan"
      PROVE  request'[v].index <= (n + 1) + 1 /\ Counted(rows, request'[v].index)
  <2>1. request'[v] = request[v] /\ request[v].kind = "plan" /\ request[v].index \in Nat
    BY <1>5, <1>8, IndexIsNumber DEF ProjectInv
  <2>2. request[v].index <= n + 1 /\ Counted(trials, request[v].index)
    BY <2>1 DEF IndexInv
  <2> QED
    BY <1>4, <1>6, <2>1, <2>2
<1> QED
  BY <1>4, <1>7, <1>8 DEF IndexInv, rows

LEMMA IndexInvStep == ProjectInv /\ IndexInv /\ [ProjectNext]_projectVars => IndexInv'
<1> SUFFICES ASSUME ProjectInv, IndexInv, [ProjectNext]_projectVars PROVE IndexInv'
  OBVIOUS
<1>1. CASE \E u \in Users : Plan(u)
  BY <1>1, PlanIndex
<1>2. CASE \E u \in Users : Complete(u)
  BY <1>2, CompleteIndex
<1>3. CASE \E u \in Users : \E t \in Trials : StorePlan(u, t)
  BY <1>3, StoreIndex
<1>4. ASSUME NEW u \in Users, NEW what, WillCommit(u, what), what.kind # "plan" PROVE IndexInv'
  <2>1. UNCHANGED trials /\ \A v \in Users : request'[v].kind = "plan" => request'[v] = request[v]
    BY <1>4 DEF WillCommit, ProjectInv, TypeInv
  <2> QED
    BY <2>1, SameIndices
<1>5. CASE \E u \in Users : Advance(u) \/ RollBack(u) \/ CancelProject(u) \/ \E t \in Trials : Execute(u, t)
  BY <1>4, <1>5 DEF Advance, RollBack, CancelProject, GoTo, Execute
<1>6. ASSUME NEW u \in Users, Move(u) PROVE IndexInv'
  <2>1. UNCHANGED trials /\ \A v \in Users : request'[v].kind = "plan" => request'[v] = request[v]
    BY <1>6 DEF Move, ProjectInv, TypeInv, Nothing
  <2> QED
    BY <2>1, SameIndices
<1>7. CASE \E h \in Hypotheses : Propose(h) \/ \E verdict \in {"accepted", "rejected"} : Judge(h, verdict)
  BY <1>7, SameIndices DEF Propose, Judge
<1>8. CASE UNCHANGED projectVars
  BY <1>8, SameIndices DEF projectVars
<1> QED
  BY <1>1, <1>2, <1>3, <1>5, <1>6, <1>7, <1>8 DEF ProjectNext

LEMMA IndexInitInv == ProjectInit => IndexInv
<1> SUFFICES ASSUME ProjectInit PROVE IndexInv
  OBVIOUS
<1>1. Planned(trials) = {}
  BY DEF ProjectInit, Planned
<1> QED
  BY <1>1 DEF ProjectInit, IndexInv, Nothing

(* research/orchestrator.py:266: an index never tells more tests than were *)
(* planned before, however plans and executions overlap.                   *)
THEOREM IndicesTellEarlier == ProjectSpec => []IndexTellsEarlier
<1>1. ProjectInv /\ IndexInv => IndexTellsEarlier
  BY DEF IndexInv, IndexTellsEarlier, Counted, Below, Planned, Made
<1> QED
  BY <1>1, ProjectInitInv, ProjectInvStep, IndexInitInv, IndexInvStep, PTL DEF ProjectSpec

LEMMA ProjectTypes ==
    ASSUME ProjectInv, IndexInv
    PROVE  ProjectTypeOK
<1>1. trials \in [Trials -> [status: {"none", "planned", "completed"}, index: 0..Cardinality(Trials)]]
  <2> SUFFICES ASSUME NEW t \in Trials PROVE trials[t].index \in 0..Cardinality(Trials)
    BY DEF ProjectInv, TypeInv, TrialRows
  <2>1. Planned(trials) \subseteq Trials
    BY DEF Planned
  <2>2. Cardinality(Trials) \in Nat /\ Cardinality(Planned(trials)) <= Cardinality(Trials)
        /\ Cardinality(Planned(trials)) \in Nat
    BY <2>1, ProjectAssumption, PlannedFinite, FS_Subset, FS_CardinalityType
  <2>3. trials[t].index \in Nat
    BY IndexIsNumber DEF ProjectInv
  <2>4. CASE t \in Planned(trials)
    BY <2>2, <2>3, <2>4 DEF IndexInv
  <2>5. CASE t \notin Planned(trials)
    BY <2>2, <2>5 DEF Planned, NoTrial
  <2> QED
    BY <2>4, <2>5
<1>2. \A u \in Users : \/ request[u].kind \in {"idle", "plan", "execute"}
                       \/ request[u].kind = "move" /\ request[u].to \in Transitions[request[u].loaded]
  BY DEF ProjectInv, TypeInv, ProjectRequests, Nothing
<1> QED
  BY <1>1, <1>2 DEF ProjectTypeOK, ProjectInv, TypeInv, AllStages

(* The project's tables and its open requests keep their types.            *)
THEOREM ProjectTypeCorrect == ProjectSpec => []ProjectTypeOK
<1>1. ProjectInv /\ IndexInv => ProjectTypeOK
  BY ProjectTypes
<1> QED
  BY <1>1, ProjectInitInv, ProjectInvStep, IndexInitInv, IndexInvStep, PTL DEF ProjectSpec

-----------------------------------------------------------------------------
(* The research cycle.  What a session may hold, among n candidates and    *)
(* the discoveries F: a row within the budgets, and a decision only while  *)
(* the budget lasts.                                                       *)
RowOK(row, n) ==
    /\ row \in Row
    /\ row.consumed.calls \in 0..(MaxCalls + Cardinality(Patterns) - 1)
    /\ row.consumed.backtests < MaxBacktests + n

SessionOK(s, n, F) ==
    /\ s \in Session
    /\ RowOK(s.row, n)
    /\ s.validates \subseteq F /\ s.evaluates \subseteq 1..n
    /\ ~ s.late
    /\ s.todo \notin {"decide", "commit"} => ~ Exhausted(s.row.consumed)
    /\ s.row.status = "promoted" /\ "status" \in s.wrote => s.evidence

(* A verdict of "promote" is that of a backtest which met every threshold. *)
KindOK(c) == c \in Candidate /\ (c.verdict = "promote" => c.result = "strong")
Kinds == {c \in Candidate : KindOK(c)}

CycleInv ==
    /\ candidates \in Seq(Kinds)
    /\ RowOK(cycle, Len(candidates))
    /\ validated \subseteq found /\ found \subseteq Patterns
    /\ decisions \in 0..MaxDecisions
    /\ requests = [r \in Requests |-> requests[r]]
    /\ \A r \in Requests :
          requests[r] # Idle => SessionOK(requests[r], Len(candidates), found)

(* What a step may do to the cycle: a promotion needs its evidence, and a  *)
(* cycle that has ended is changed by an overlapping request only.         *)
SoundStep ==
    /\ cycle.status # "promoted" /\ cycle'.status = "promoted" =>
          \E r \in Requests : requests[r] # Idle /\ requests'[r] = Idle /\ requests[r].evidence
    /\ cycle.status \in CycleEnded /\ cycle' # cycle =>
          \E r \in Requests : requests[r] # Idle /\ requests'[r] = Idle /\ ~ requests[r].late

LEMMA CallsOfBatch ==
    ASSUME found \subseteq Patterns
    PROVE  /\ Cardinality(found) \in Nat /\ Cardinality(Patterns) \in Nat \ {0}
           /\ Cardinality(found) <= Cardinality(Patterns)
<1>1. Cardinality(Patterns) \in Nat /\ Cardinality(Patterns) # 0
  BY CycleAssumption, FS_CardinalityType, FS_EmptySet
<1> QED
  BY <1>1, CycleAssumption, FS_Subset, FS_CardinalityType

LEMMA RowIsTyped ==
    ASSUME NEW row \in Row
    PROVE  /\ row = [status |-> row.status, outcome |-> row.outcome,
                     consumed |-> row.consumed, project |-> row.project]
           /\ row.status \in Phases \cup CycleEnded /\ row.outcome \in Outcomes
           /\ row.consumed \in Consumed /\ row.project \in BOOLEAN
           /\ row.consumed = [trials |-> row.consumed.trials, backtests |-> row.consumed.backtests,
                              calls |-> row.consumed.calls]
           /\ row.consumed.trials \in 0..MaxTrials /\ row.consumed.backtests \in Nat
           /\ row.consumed.calls \in Nat
BY DEF Row, Consumed

LEMMA CycleInitInv == CycleInit => CycleInv
<1> SUFFICES ASSUME CycleInit PROVE CycleInv
  OBVIOUS
<1>1. PICK own \in BOOLEAN : cycle = NewCycle(own)
  BY DEF CycleInit
<1>2. Cardinality(Patterns) \in Nat \ {0}
  BY CallsOfBatch DEF CycleInit
<1>3. RowOK(cycle, 0)
  <2>1. 0 \in 0..MaxTrials /\ 0 \in 0..(MaxCalls + Cardinality(Patterns) - 1) /\ 0 < MaxBacktests
    BY <1>2, CycleAssumption
  <2>2. cycle \in Row
    BY <1>1, <2>1 DEF NewCycle, Row, Consumed, Phases, Outcomes
  <2> QED
    <3>1. cycle.consumed.calls = 0 /\ cycle.consumed.backtests = 0
      BY <1>1 DEF NewCycle
    <3>2. MaxBacktests + 0 = MaxBacktests
      BY CycleAssumption
    <3> QED
      BY <2>1, <2>2, <3>1, <3>2 DEF RowOK
<1>4. candidates \in Seq(Kinds) /\ Len(candidates) = 0
  BY EmptySeq DEF CycleInit
<1> QED
  BY <1>3, <1>4, CycleAssumption DEF CycleInit, CycleInv

-----------------------------------------------------------------------------
(* The bounds on a row and a session are the weaker the more candidates    *)
(* and discoveries there are.                                              *)
LEMMA MoreCandidates ==
    ASSUME NEW n \in Nat, NEW m \in Nat, n <= m, NEW F, NEW G, F \subseteq G
    PROVE  /\ \A row : RowOK(row, n) => RowOK(row, m)
           /\ \A s : SessionOK(s, n, F) => SessionOK(s, m, G)
<1>1. ASSUME NEW row, RowOK(row, n)
      PROVE  RowOK(row, m)
  <2>1. row \in Row /\ row.consumed.backtests \in Nat
    BY <1>1, RowIsTyped DEF RowOK
  <2> QED
    BY <1>1, <2>1, CycleAssumption DEF RowOK
<1>2. 1..n \subseteq 1..m
  OBVIOUS
<1> QED
  BY <1>1, <1>2 DEF SessionOK

(* A row of which some columns are those of another. *)
LEMMA MixedRows ==
    ASSUME NEW n, NEW one, RowOK(one, n), NEW other, RowOK(other, n), NEW W, NEW mixed,
           mixed = [column \in Columns |-> IF column \in W THEN one[column] ELSE other[column]]
    PROVE  /\ RowOK(mixed, n)
           /\ mixed.status = IF "status" \in W THEN one.status ELSE other.status
<1>1. /\ mixed = [status |-> mixed.status, outcome |-> mixed.outcome,
                  consumed |-> mixed.consumed, project |-> mixed.project]
      /\ mixed.status = IF "status" \in W THEN one.status ELSE other.status
      /\ mixed.outcome = IF "outcome" \in W THEN one.outcome ELSE other.outcome
      /\ mixed.consumed = IF "consumed" \in W THEN one.consumed ELSE other.consumed
      /\ mixed.project = IF "project" \in W THEN one.project ELSE other.project
  BY DEF Columns
<1>2. one \in Row /\ other \in Row
  BY DEF RowOK
<1>3. /\ mixed.status \in Phases \cup CycleEnded /\ mixed.outcome \in Outcomes
      /\ mixed.consumed \in Consumed /\ mixed.project \in BOOLEAN
  BY <1>1, <1>2, RowIsTyped
<1>4. mixed \in Row
  BY <1>1, <1>3 DEF Row
<1> QED
  BY <1>1, <1>4 DEF RowOK

(* A session that changes leaves the tables, and the others, as they are. *)
LEMMA HoldsKeeps ==
    ASSUME CycleInv, NEW r \in Requests, NEW session, Holds(r, session),
           session = Idle \/ SessionOK(session, Len(candidates), found)
    PROVE  CycleInv' /\ SoundStep
<1>1. /\ requests' = [s \in Requests |-> requests'[s]]
      /\ requests'[r] = session /\ \A s \in Requests : s # r => requests'[s] = requests[s]
  BY DEF CycleInv, Holds
<1>2. UNCHANGED <<cycle, found, validated, candidates, decisions>>
  BY DEF Holds, LeavesTables
<1>3. \A s \in Requests : requests'[s] # Idle => SessionOK(requests'[s], Len(candidates), found)
  BY <1>1 DEF CycleInv
<1>4. CycleInv'
  BY <1>1, <1>2, <1>3 DEF CycleInv
<1> QED
  BY <1>2, <1>4 DEF SoundStep

LEMMA RereadOK ==
    ASSUME NEW n, NEW F, RowOK(cycle, n), NEW s, SessionOK(s, n, F), s.todo \in {"decide", "commit"}
    PROVE  SessionOK(Reread(s), n, F)
<1>1. PICK row : row = [column \in Columns |-> IF column \in s.wrote THEN s.row[column]
                                               ELSE cycle[column]]
  OBVIOUS
<1>2. /\ RowOK(row, n)
      /\ row.status = IF "status" \in s.wrote THEN s.row.status ELSE cycle.status
  BY <1>1, MixedRows DEF SessionOK
<1>3. PICK new : new = [s EXCEPT !.row = row]
  OBVIOUS
<1>4. /\ new \in Session /\ new.row = row /\ new.kind = s.kind /\ new.wrote = s.wrote
      /\ new.todo = s.todo /\ new.validates = s.validates /\ new.evaluates = s.evaluates
      /\ new.late = s.late /\ new.evidence = s.evidence
  BY <1>2, <1>3 DEF SessionOK, Session, RowOK
<1>5. SessionOK(new, n, F)
  BY <1>2, <1>4 DEF SessionOK
<1> QED
  BY <1>1, <1>3, <1>5 DEF Reread

LEMMA ExecutesKeeps ==
    ASSUME CycleInv, NEW r \in Requests, NEW session, Executes(r, session),
           SessionOK(session, Len(candidates), found), session.todo \in {"decide", "commit"}
    PROVE  CycleInv' /\ SoundStep
<1>1. SessionOK(Reread(session), Len(candidates), found)
  BY RereadOK DEF CycleInv
<1> QED
  BY <1>1, HoldsKeeps DEF Executes

-----------------------------------------------------------------------------
(* A tick changes the row of its session, what is left to do and the set  *)
(* of the columns written.                                                 *)
TickLeaves(old, new, s) ==
    \E todo \in {"decide", "commit"}, wrote \in SUBSET Columns :
        s = [old EXCEPT !.row = new, !.todo = todo, !.wrote = wrote]

LEMMA DidIs ==
    ASSUME NEW r, requests[r] \in Session, NEW new
    PROVE  TickLeaves(requests[r], new, Did(r, new))
<1>1. PICK todo \in {"decide", "commit"} : Did(r, new) = Flushed(r, new, todo)
  BY DEF Did
<1>2. PICK wrote \in SUBSET Columns :
         wrote = requests[r].wrote \cup {column \in Columns : new[column] # requests[r].row[column]}
  BY DEF Session
<1>3. Did(r, new) = [requests[r] EXCEPT !.row = new, !.todo = todo, !.wrote = wrote]
  BY <1>1, <1>2 DEF Flushed, Session
<1> QED
  BY <1>3 DEF TickLeaves

(* What a tick leaves: a row within the budgets, and evidence if it has    *)
(* promoted the cycle.                                                     *)
LEMMA DidOK ==
    ASSUME NEW n, NEW F, NEW r, SessionOK(requests[r], n, F), NEW new, RowOK(new, n)
    PROVE  /\ Did(r, new) \in Session /\ Did(r, new).row = new
           /\ Did(r, new).todo \in {"decide", "commit"}
           /\ Did(r, new).validates = requests[r].validates
           /\ Did(r, new).evaluates = requests[r].evaluates
           /\ Did(r, new).makes = requests[r].makes
           /\ Did(r, new).evidence = requests[r].evidence /\ ~ Did(r, new).late
           /\ new.status # "promoted" => SessionOK(Did(r, new), n, F)
<1>1. requests[r] \in Session
  BY DEF SessionOK
<1>2. PICK todo \in {"decide", "commit"}, wrote \in SUBSET Columns :
         Did(r, new) = [requests[r] EXCEPT !.row = new, !.todo = todo, !.wrote = wrote]
  <2>1. TickLeaves(requests[r], new, Did(r, new))
    BY <1>1, DidIs
  <2> QED
    BY <2>1 DEF TickLeaves
<1>3. PICK s : s = [requests[r] EXCEPT !.row = new, !.todo = todo, !.wrote = wrote]
  OBVIOUS
<1>4. Did(r, new) = s
  BY <1>2, <1>3
<1>5. /\ s \in Session /\ s.row = new /\ s.todo = todo /\ s.validates = requests[r].validates
      /\ s.evaluates = requests[r].evaluates /\ s.makes = requests[r].makes
      /\ s.evidence = requests[r].evidence /\ s.late = requests[r].late
  BY <1>3 DEF SessionOK, Session, RowOK
<1>6. new.status # "promoted" => SessionOK(s, n, F)
  BY <1>5 DEF SessionOK
<1> QED
  BY <1>4, <1>5, <1>6 DEF SessionOK

(* A session under way, and its row. *)
LEMMA UnderWay ==
    ASSUME CycleInv, NEW r \in Requests, requests[r] # Idle
    PROVE  /\ SessionOK(requests[r], Len(candidates), found)
           /\ requests[r] \in Session /\ requests[r].row \in Row
           /\ RowOK(requests[r].row, Len(candidates))
           /\ Len(candidates) \in Nat
BY LenProperties DEF CycleInv, SessionOK, RowOK

(* A row of which columns but the counters are changed keeps its bounds. *)
LEMMA ColumnsChanged ==
    ASSUME NEW row \in Row, NEW to \in Phases \cup CycleEnded, NEW outcome \in Outcomes, NEW new,
           \/ new = [row EXCEPT !.status = to]
           \/ new = [row EXCEPT !.status = to, !.outcome = outcome]
           \/ new = [row EXCEPT !.status = to, !.project = TRUE]
    PROVE  /\ new.status = to
           /\ \A n : RowOK(row, n) => RowOK(new, n)
<1>1. new \in Row /\ new.status = to /\ new.consumed = row.consumed
  BY DEF Row
<1> QED
  BY <1>1 DEF RowOK

(* A tick that goes to another phase, or ends the cycle unpromoted. *)
LEMMA GoesStep ==
    ASSUME CycleInv, NEW r \in Requests, requests[r] # Idle,
           NEW to \in (Phases \cup CycleEnded) \ {"promoted"}, NEW outcome \in Outcomes,
           \/ Executes(r, Goes(r, to)) \/ Executes(r, Ends(r, to, outcome))
           \/ Executes(r, Did(r, [requests[r].row EXCEPT !.status = to, !.project = TRUE]))
    PROVE  CycleInv' /\ SoundStep
<1>1. PICK new : /\ Executes(r, Did(r, new))
                 /\ \/ new = [requests[r].row EXCEPT !.status = to]
                    \/ new = [requests[r].row EXCEPT !.status = to, !.outcome = outcome]
                    \/ new = [requests[r].row EXCEPT !.status = to, !.project = TRUE]
  BY DEF Goes, Ends
<1>2. RowOK(new, Len(candidates)) /\ new.status = to
  <2>1. PICK row \in Row : row = requests[r].row
    BY UnderWay
  <2>2. \/ new = [row EXCEPT !.status = to]
        \/ new = [row EXCEPT !.status = to, !.outcome = outcome]
        \/ new = [row EXCEPT !.status = to, !.project = TRUE]
    BY <1>1, <2>1
  <2>3. new.status = to /\ \A n : RowOK(row, n) => RowOK(new, n)
    BY <2>2, ColumnsChanged
  <2> QED
    BY <2>1, <2>3, UnderWay
<1>3. SessionOK(Did(r, new), Len(candidates), found) /\ Did(r, new).todo \in {"decide", "commit"}
  BY <1>2, UnderWay, DidOK
<1> QED
  BY <1>1, <1>3, ExecutesKeeps

LEMMA PhasesStep ==
    ASSUME CycleInv, NEW r \in Requests,
           \/ RunOut(r) \/ StartResearch(r) \/ StartBacktests(r) \/ NoCandidates(r)
           \/ RestartResearch(r)
    PROVE  CycleInv' /\ SoundStep
<1>1. requests[r] # Idle
  BY DEF RunOut, StartResearch, StartBacktests, NoCandidates, RestartResearch, Ticking, InPhase,
         Doing
<1>2. /\ {"archived", "researching", "backtesting"} \subseteq (Phases \cup CycleEnded) \ {"promoted"}
      /\ "archived_no_alpha" \in Outcomes
  BY DEF Phases, CycleEnded, Outcomes
<1>3. \/ Executes(r, Goes(r, "archived")) \/ Executes(r, Goes(r, "backtesting"))
      \/ Executes(r, Goes(r, "researching"))
      \/ Executes(r, Ends(r, "archived", "archived_no_alpha"))
      \/ Executes(r, Did(r, [requests[r].row EXCEPT !.status = "researching", !.project = TRUE]))
  BY DEF RunOut, StartResearch, StartBacktests, NoCandidates, RestartResearch
<1> QED
  BY <1>1, <1>2, <1>3, GoesStep

LEMMA WaitStep ==
    ASSUME CycleInv, NEW r \in Requests, WaitForBacktests(r)
    PROVE  CycleInv' /\ SoundStep
<1>1. /\ requests[r] # Idle /\ requests[r].row.status = "backtesting"
      /\ Executes(r, Did(r, requests[r].row))
  BY DEF WaitForBacktests, Doing
<1>2. /\ SessionOK(Did(r, requests[r].row), Len(candidates), found)
      /\ Did(r, requests[r].row).todo \in {"decide", "commit"}
  BY <1>1, UnderWay, DidOK
<1> QED
  BY <1>1, <1>2, ExecutesKeeps

LEMMA DecideStep ==
    ASSUME CycleInv, NEW r \in Requests, Decide(r)
    PROVE  CycleInv' /\ SoundStep
<1>1. requests[r] # Idle /\ ~ Exhausted(requests[r].row.consumed)
  BY DEF Decide, Ticking
<1>2. PICK todo \in Phases \cup {"archived", "wait"} :
         Holds(r, [requests[r] EXCEPT !.todo = todo])
  BY DEF Decide
<1>3. PICK s : s = [requests[r] EXCEPT !.todo = todo]
  OBVIOUS
<1>4. /\ s \in Session /\ s.row = requests[r].row /\ s.validates = requests[r].validates
      /\ s.evaluates = requests[r].evaluates /\ s.late = requests[r].late
      /\ s.wrote = requests[r].wrote /\ s.evidence = requests[r].evidence
  BY <1>1, <1>3, UnderWay DEF Session
<1>5. SessionOK(s, Len(candidates), found)
  BY <1>1, <1>4, UnderWay DEF SessionOK
<1> QED
  BY <1>2, <1>3, <1>5, HoldsKeeps

LEMMA ValidateFactorsStep ==
    ASSUME CycleInv, NEW r \in Requests, ValidateFactors(r)
    PROVE  CycleInv' /\ SoundStep
<1>1. /\ requests[r] # Idle
      /\ Executes(r, [Goes(r, "factor_validated") EXCEPT !.validates = @ \cup found])
  BY DEF ValidateFactors, Doing
<1>2. PICK new : new = [requests[r].row EXCEPT !.status = "factor_validated"]
  OBVIOUS
<1>3. RowOK(new, Len(candidates)) /\ new.status = "factor_validated"
  <2>1. "factor_validated" \in Phases \cup CycleEnded /\ "" \in Outcomes
    BY DEF Phases, Outcomes
  <2>2. PICK row \in Row : row = requests[r].row /\ RowOK(row, Len(candidates))
    BY <1>1, UnderWay
  <2>3. new = [row EXCEPT !.status = "factor_validated"]
    BY <1>2, <2>2
  <2>4. new.status = "factor_validated" /\ \A n : RowOK(row, n) => RowOK(new, n)
    <3>1. new \in Row /\ new.status = "factor_validated" /\ new.consumed = row.consumed
      BY <2>1, <2>2, <2>3 DEF Row
    <3> QED
      BY <3>1 DEF RowOK
  <2> QED
    BY <2>2, <2>4
<1>4. PICK d : d = Did(r, new)
  OBVIOUS
<1>5. SessionOK(d, Len(candidates), found) /\ d.todo \in {"decide", "commit"}
  BY <1>1, <1>3, <1>4, UnderWay, DidOK
<1>6. PICK s : s = [d EXCEPT !.validates = @ \cup found]
  OBVIOUS
<1>7. /\ s \in Session /\ s.row = d.row /\ s.evaluates = d.evaluates /\ s.late = d.late
      /\ s.wrote = d.wrote /\ s.evidence = d.evidence /\ s.todo = d.todo
      /\ s.validates = d.validates \cup found
  BY <1>5, <1>6 DEF Session, SessionOK, CycleInv
<1>8. SessionOK(s, Len(candidates), found)
  BY <1>5, <1>7 DEF SessionOK
<1> QED
  BY <1>1, <1>2, <1>4, <1>5, <1>6, <1>7, <1>8, ExecutesKeeps DEF Goes

(* A trial more is within the budget: it was not exhausted, and nobody     *)
(* else can have overrun it.                                               *)
LEMMA ContinueResearchStep ==
    ASSUME CycleInv, NEW r \in Requests, ContinueResearch(r)
    PROVE  CycleInv' /\ SoundStep
<1>1. /\ requests[r] # Idle /\ requests[r].todo = "researching"
      /\ requests[r].row.status = "researching"
      /\ Executes(r, Did(r, [requests[r].row EXCEPT !.consumed.trials = @ + 1]))
  BY DEF ContinueResearch, Doing
<1>2. PICK row \in Row : row = requests[r].row /\ RowOK(row, Len(candidates))
  BY <1>1, UnderWay
<1>3. row.consumed.trials + 1 \in 0..MaxTrials
  <2>1. ~ (row.consumed.trials >= MaxTrials)
    BY <1>1, <1>2, UnderWay DEF SessionOK, Exhausted
  <2>2. row.consumed.trials \in 0..MaxTrials
    BY RowIsTyped
  <2> QED
    BY <2>1, <2>2, CycleAssumption
<1>4. PICK new : new = [row EXCEPT !.consumed.trials = @ + 1]
  OBVIOUS
<1>5. /\ new = [status |-> row.status, outcome |-> row.outcome, project |-> row.project,
                consumed |-> [trials |-> row.consumed.trials + 1,
                              backtests |-> row.consumed.backtests,
                              calls |-> row.consumed.calls]]
  <2>1. /\ row = [status |-> row.status, outcome |-> row.outcome,
                 consumed |-> row.consumed, project |-> row.project]
        /\ row.consumed = [trials |-> row.consumed.trials,
                           backtests |-> row.consumed.backtests, calls |-> row.consumed.calls]
    BY RowIsTyped
  <2> QED
    BY <1>4, <2>1
<1>6. new \in Row
  BY <1>3, <1>5, RowIsTyped DEF Row, Consumed
<1>7. RowOK(new, Len(candidates)) /\ new.status = "researching"
  BY <1>1, <1>2, <1>5, <1>6 DEF RowOK
<1>8. SessionOK(Did(r, new), Len(candidates), found) /\ Did(r, new).todo \in {"decide", "commit"}
  BY <1>1, <1>7, UnderWay, DidOK
<1> QED
  BY <1>1, <1>2, <1>4, <1>8, ExecutesKeeps

(* A call more for each candidate: the budget was not exhausted. *)
LEMMA SynthesizeStep ==
    ASSUME CycleInv, NEW r \in Requests, Synthesize(r)
    PROVE  CycleInv' /\ SoundStep
<1>1. requests[r] # Idle /\ ~ Exhausted(requests[r].row.consumed)
  BY DEF Synthesize, InPhase, Doing
<1>2. PICK row \in Row : row = requests[r].row /\ RowOK(row, Len(candidates))
  BY <1>1, UnderWay
<1>3. PICK calls \in Nat : calls = row.consumed.calls + Cardinality(found)
  <2>1. row.consumed.calls \in Nat
    BY RowIsTyped
  <2>2. Cardinality(found) \in Nat
    BY CallsOfBatch DEF CycleInv
  <2> QED
    BY <2>1, <2>2
<1>4. calls \in 0..(MaxCalls + Cardinality(Patterns) - 1)
  <2>1. /\ Cardinality(found) \in Nat /\ Cardinality(Patterns) \in Nat
        /\ Cardinality(found) <= Cardinality(Patterns)
    BY CallsOfBatch DEF CycleInv
  <2>2. row.consumed.calls \in Nat /\ ~ (row.consumed.calls >= MaxCalls)
    BY <1>1, <1>2, RowIsTyped DEF Exhausted
  <2> QED
    BY <1>3, <2>1, <2>2, CycleAssumption
<1>5. PICK new : new = [row EXCEPT !.status = "synthesizing",
                                   !.consumed.calls = @ + Cardinality(found)]
  OBVIOUS
<1>6. new = [status |-> "synthesizing", outcome |-> row.outcome, project |-> row.project,
             consumed |-> [trials |-> row.consumed.trials, backtests |-> row.consumed.backtests,
                           calls |-> calls]]
  <2>1. /\ row = [status |-> row.status, outcome |-> row.outcome,
                 consumed |-> row.consumed, project |-> row.project]
        /\ row.consumed = [trials |-> row.consumed.trials,
                           backtests |-> row.consumed.backtests, calls |-> row.consumed.calls]
    BY RowIsTyped
  <2> QED
    BY <1>3, <1>5, <2>1
<1>7. new \in Row
  <2>1. "synthesizing" \in Phases
    BY DEF Phases
  <2> QED
    BY <1>6, <2>1, RowIsTyped DEF Row, Consumed
<1>8. RowOK(new, Len(candidates)) /\ new.status = "synthesizing"
  BY <1>2, <1>4, <1>6, <1>7 DEF RowOK
<1>9. PICK d : d = Did(r, new)
  OBVIOUS
<1>10. SessionOK(d, Len(candidates), found) /\ d.todo \in {"decide", "commit"}
  BY <1>1, <1>8, <1>9, UnderWay, DidOK
<1>11. PICK s : s = [d EXCEPT !.makes = @ + Cardinality(found)]
  OBVIOUS
<1>12. /\ s \in Session /\ s.row = d.row /\ s.evaluates = d.evaluates /\ s.late = d.late
       /\ s.wrote = d.wrote /\ s.evidence = d.evidence /\ s.todo = d.todo
       /\ s.validates = d.validates
  <2>1. PICK n \in Nat : n = Cardinality(found)
    BY CallsOfBatch DEF CycleInv
  <2>2. d \in Session
    BY <1>10 DEF SessionOK
  <2>3. d.makes + n \in Nat
    BY <2>2 DEF Session
  <2> QED
    BY <1>11, <2>1, <2>2, <2>3 DEF Session
<1>13. SessionOK(s, Len(candidates), found)
  BY <1>10, <1>12 DEF SessionOK
<1>14. Executes(r, s)
  BY <1>2, <1>5, <1>9, <1>11 DEF Synthesize
<1> QED
  BY <1>10, <1>12, <1>13, <1>14, ExecutesKeeps

(* No more are evaluated than there are candidates. *)
LEMMA EvaluableOK ==
    ASSUME CycleInv, NEW r
    PROVE  /\ Evaluable(r) \subseteq 1..Len(candidates)
           /\ Cardinality(Evaluable(r)) \in Nat /\ Cardinality(Evaluable(r)) <= Len(candidates)
<1>1. PICK n \in Nat : n = Len(candidates) /\ DOMAIN candidates = 1..n
  BY LenProperties DEF CycleInv
<1>2. Evaluable(r) \subseteq 1..n
  BY <1>1 DEF Evaluable
<1>3. IsFiniteSet(1..n) /\ Cardinality(1..n) = n
  BY FS_Interval
<1> QED
  BY <1>1, <1>2, <1>3, FS_Subset, FS_CardinalityType

LEMMA EvaluateAllStep ==
    ASSUME CycleInv, NEW r \in Requests, EvaluateAll(r)
    PROVE  CycleInv' /\ SoundStep
<1>1. requests[r] # Idle /\ requests[r].todo = "evaluating"
  BY DEF EvaluateAll, Doing
<1>2. PICK row \in Row : row = requests[r].row /\ RowOK(row, Len(candidates))
  BY <1>1, UnderWay
<1>3. PICK backtests \in Nat : backtests = row.consumed.backtests + Cardinality(Evaluable(r))
  <2>1. row.consumed.backtests \in Nat
    BY RowIsTyped
  <2>2. Cardinality(Evaluable(r)) \in Nat
    BY EvaluableOK
  <2> QED
    BY <2>1, <2>2
<1>4. backtests < MaxBacktests + Len(candidates)
  <2>1. row.consumed.backtests \in Nat /\ ~ (row.consumed.backtests >= MaxBacktests)
    BY <1>1, <1>2, UnderWay, RowIsTyped DEF SessionOK, Exhausted
  <2>2. Len(candidates) \in Nat
    BY <1>1, UnderWay
  <2> QED
    BY <1>3, <2>1, <2>2, EvaluableOK, CycleAssumption
<1>5. PICK new : new = [row EXCEPT !.status = "evaluating",
                                   !.consumed.backtests = @ + Cardinality(Evaluable(r))]
  OBVIOUS
<1>6. new = [status |-> "evaluating", outcome |-> row.outcome, project |-> row.project,
             consumed |-> [trials |-> row.consumed.trials, backtests |-> backtests,
                           calls |-> row.consumed.calls]]
  <2>1. /\ row = [status |-> row.status, outcome |-> row.outcome,
                 consumed |-> row.consumed, project |-> row.project]
        /\ row.consumed = [trials |-> row.consumed.trials,
                           backtests |-> row.consumed.backtests, calls |-> row.consumed.calls]
    BY RowIsTyped
  <2> QED
    BY <1>3, <1>5, <2>1
<1>7. new \in Row
  <2>1. "evaluating" \in Phases
    BY DEF Phases
  <2> QED
    BY <1>6, <2>1, RowIsTyped DEF Row, Consumed
<1>8. RowOK(new, Len(candidates)) /\ new.status = "evaluating"
  BY <1>2, <1>4, <1>6, <1>7 DEF RowOK
<1>9. PICK d : d = Did(r, new)
  OBVIOUS
<1>10. SessionOK(d, Len(candidates), found) /\ d.todo \in {"decide", "commit"}
  BY <1>1, <1>8, <1>9, UnderWay, DidOK
<1>11. PICK s : s = [d EXCEPT !.evaluates = @ \cup Evaluable(r)]
  OBVIOUS
<1>12. /\ s \in Session /\ s.row = d.row /\ s.late = d.late /\ s.validates = d.validates
       /\ s.wrote = d.wrote /\ s.evidence = d.evidence /\ s.todo = d.todo
       /\ s.evaluates = d.evaluates \cup Evaluable(r)
  <2>1. d \in Session
    BY <1>10 DEF SessionOK
  <2>2. Evaluable(r) \in SUBSET Nat
    BY EvaluableOK
  <2>3. d.evaluates \cup Evaluable(r) \in SUBSET Nat
    BY <2>1, <2>2 DEF Session
  <2> QED
    BY <1>11, <2>1, <2>3 DEF Session
<1>13. SessionOK(s, Len(candidates), found)
  BY <1>10, <1>12, EvaluableOK DEF SessionOK
<1>14. Executes(r, s)
  BY <1>2, <1>5, <1>9, <1>11 DEF EvaluateAll
<1> QED
  BY <1>10, <1>12, <1>13, <1>14, ExecutesKeeps

-----------------------------------------------------------------------------
(* The candidates as a session sees them, and as it leaves them. *)
LEMMA EvaluatedIsKind ==
    ASSUME NEW c \in Kinds, NEW result \in {"none", c.result}
    PROVE  Evaluated(c, result) \in Kinds
<1>1. c \in Candidate /\ c.result \in {"strong", "half", "weak", "none"}
  BY DEF Kinds, Candidate, Results
<1>2. PICK verdict : verdict = VerdictOf(result)
  OBVIOUS
<1>3. verdict \in Verdicts /\ (verdict = "promote" => c.result = "strong")
  <2>1. /\ VerdictOf("strong") = "promote" /\ VerdictOf("half") = "borderline"
        /\ VerdictOf("weak") = "reject" /\ VerdictOf("none") = "reject"
    BY DEF VerdictOf
  <2> QED
    BY <1>1, <1>2, <2>1 DEF Verdicts
<1>4. PICK new : new = [c EXCEPT !.status = "evaluated", !.verdict = verdict]
  OBVIOUS
<1>5. new \in Candidate /\ new.verdict = verdict /\ new.result = c.result
  BY <1>1, <1>3, <1>4 DEF Candidate
<1> QED
  BY <1>2, <1>3, <1>4, <1>5 DEF Evaluated, Kinds, KindOK

LEMMA SeveralAre ==
    ASSUME NEW n \in Nat
    PROVE  Several(n) \in Seq(Kinds) /\ Len(Several(n)) = n
<1>1. Fresh \in Kinds
  BY DEF Fresh, Kinds, KindOK, Candidate, Verdicts
<1>2. Several(n) \in [1..n -> Kinds]
  BY <1>1 DEF Several
<1>3. Several(n) \in Seq(Kinds)
  BY <1>2, SeqDef
<1>4. DOMAIN Several(n) = 1..n /\ DOMAIN Several(n) = 1..Len(Several(n))
      /\ Len(Several(n)) \in Nat
  BY <1>2, <1>3, LenProperties
<1> QED
  BY <1>3, <1>4

LEMMA SeesKinds ==
    ASSUME CycleInv, NEW r \in Requests, requests[r] # Idle
    PROVE  Sees(r) \in Seq(Kinds) /\ Len(candidates) <= Len(Sees(r)) /\ Len(Sees(r)) \in Nat
<1>1. PICK n \in Nat : n = Len(candidates) /\ candidates \in [1..n -> Kinds]
  BY LenProperties DEF CycleInv
<1>2. PICK mine : mine = [i \in DOMAIN candidates |->
                            IF i \in requests[r].evaluates
                            THEN Evaluated(candidates[i], candidates[i].result)
                            ELSE candidates[i]]
  OBVIOUS
<1>3. DOMAIN candidates = 1..n /\ \A i \in 1..n : candidates[i] \in Kinds
  BY <1>1
<1>4. \A i \in 1..n : Evaluated(candidates[i], candidates[i].result) \in Kinds
  BY <1>3, EvaluatedIsKind
<1>5. mine \in [1..n -> Kinds]
  BY <1>2, <1>3, <1>4
<1>6. mine \in Seq(Kinds)
  BY <1>5, SeqDef
<1>7. Len(mine) = n
  <2>1. DOMAIN mine = 1..n /\ DOMAIN mine = 1..Len(mine) /\ Len(mine) \in Nat
    BY <1>5, <1>6, LenProperties
  <2> QED
    BY <2>1
<1>8. PICK m \in Nat : m = requests[r].makes
  BY UnderWay DEF Session
<1>9. Several(m) \in Seq(Kinds) /\ Len(Several(m)) = m
  BY SeveralAre
<1>10. Sees(r) = mine \o Several(m)
  BY <1>2, <1>8 DEF Sees
<1>11. Sees(r) \in Seq(Kinds) /\ Len(Sees(r)) = n + m
  BY <1>6, <1>7, <1>9, <1>10, ConcatProperties
<1> QED
  BY <1>1, <1>11

(* The one tick that promotes: a verdict of "promote" is its evidence. *)
LEMMA ResolveStep ==
    ASSUME CycleInv, NEW r \in Requests, Resolve(r)
    PROVE  CycleInv' /\ SoundStep
<1>1. requests[r] # Idle /\ Executes(r, [Outcome(r) EXCEPT !.evidence = Evidence(r)])
  BY DEF Resolve, InPhase, Doing
<1>2. PICK to \in {"promoted", "re_research", "archived"} :
         \E outcome \in Outcomes : /\ Outcome(r) = Ends(r, to, outcome)
                                   /\ to = "promoted" => Judged(r, "promote")
  BY DEF Outcome, Outcomes
<1>3. PICK outcome \in Outcomes : /\ Outcome(r) = Ends(r, to, outcome)
                                  /\ to = "promoted" => Judged(r, "promote")
  BY <1>2
<1>4. Judged(r, "promote") => Evidence(r)
  <2> SUFFICES ASSUME Judged(r, "promote") PROVE Evidence(r)
    OBVIOUS
  <2>1. PICK i \in DOMAIN Sees(r) :
           Sees(r)[i].status = "evaluated" /\ Sees(r)[i].verdict = "promote"
    BY DEF Judged
  <2>2. DOMAIN Sees(r) = 1..Len(Sees(r))
    BY <1>1, SeesKinds, LenProperties
  <2>3. Sees(r)[i] \in Kinds
    BY <1>1, <2>1, <2>2, SeesKinds, ElementOfSeq
  <2> QED
    BY <2>1, <2>3 DEF Evidence, Kinds, KindOK
<1>5. PICK new : new = [requests[r].row EXCEPT !.status = to, !.outcome = outcome]
  OBVIOUS
<1>6. RowOK(new, Len(candidates)) /\ new.status = to
  <2>1. to \in Phases \cup CycleEnded
    BY DEF Phases, CycleEnded
  <2>2. PICK row \in Row : row = requests[r].row /\ RowOK(row, Len(candidates))
    BY <1>1, UnderWay
  <2>3. new = [row EXCEPT !.status = to, !.outcome = outcome]
    BY <1>5, <2>2
  <2>4. new.status = to /\ \A n : RowOK(row, n) => RowOK(new, n)
    <3>1. new \in Row /\ new.status = to /\ new.consumed = row.consumed
      BY <1>3, <2>1, <2>2, <2>3 DEF Row
    <3> QED
      BY <3>1 DEF RowOK
  <2> QED
    BY <2>2, <2>4
<1>7. PICK d : d = Did(r, new)
  OBVIOUS
<1>8. /\ d \in Session /\ d.row = new /\ d.todo \in {"decide", "commit"} /\ ~ d.late
      /\ d.validates = requests[r].validates /\ d.evaluates = requests[r].evaluates
  <2>1. SessionOK(requests[r], Len(candidates), found) /\ requests[r] \in Session
    BY <1>1, UnderWay
  <2>2. PICK todo \in {"decide", "commit"}, wrote \in SUBSET Columns :
           d = [requests[r] EXCEPT !.row = new, !.todo = todo, !.wrote = wrote]
    <3>1. TickLeaves(requests[r], new, d)
      BY <1>7, <2>1, DidIs
    <3> QED
      BY <3>1 DEF TickLeaves
  <2>3. ~ requests[r].late /\ new \in Row
    BY <1>6, <2>1 DEF SessionOK, RowOK
  <2> QED
    BY <2>1, <2>2, <2>3 DEF Session
<1>9. PICK evidence \in BOOLEAN : evidence = Evidence(r)
  BY DEF Evidence
<1>10. PICK s : s = [d EXCEPT !.evidence = evidence]
  OBVIOUS
<1>11. /\ s \in Session /\ s.row = new /\ s.todo = d.todo /\ s.late = d.late
       /\ s.validates = d.validates /\ s.evaluates = d.evaluates /\ s.evidence = evidence
  BY <1>8, <1>10 DEF Session
<1>12. s.row.status = "promoted" => s.evidence
  BY <1>3, <1>4, <1>6, <1>9, <1>11
<1>13. SessionOK(s, Len(candidates), found)
  BY <1>1, <1>6, <1>8, <1>11, <1>12, UnderWay DEF SessionOK
<1>14. Executes(r, s)
  BY <1>1, <1>3, <1>5, <1>7, <1>9, <1>10 DEF Ends
<1> QED
  BY <1>8, <1>11, <1>13, <1>14, ExecutesKeeps

LEMMA TickStep ==
    ASSUME CycleInv, NEW r \in Requests, Tick(r)
    PROVE  CycleInv' /\ SoundStep
BY DecideStep, PhasesStep, ValidateFactorsStep, ContinueResearchStep, SynthesizeStep, WaitStep,
   EvaluateAllStep, ResolveStep DEF Tick

-----------------------------------------------------------------------------
LEMMA OpenedOK ==
    ASSUME CycleInv, cycle.status \notin CycleEnded, NEW kind \in {"tick", "run", "cancel"},
           NEW todo \in {"decide", "commit"}
    PROVE  /\ SessionOK(Opened(kind, todo), Len(candidates), found)
           /\ Opened(kind, todo).row = cycle
<1>1. PICK s : s = Opened(kind, todo)
  OBVIOUS
<1>2. /\ s \in Session /\ s.row = cycle /\ s.wrote = {} /\ s.todo = todo /\ s.validates = {}
      /\ s.evaluates = {} /\ ~ s.late
  <2>1. cycle \in Row
    BY DEF CycleInv, RowOK
  <2>2. /\ {} \in SUBSET Columns /\ {} \in SUBSET Patterns /\ {} \in SUBSET Nat
        /\ (cycle.status \in CycleEnded) = FALSE
    OBVIOUS
  <2>3. s = [kind |-> kind, row |-> cycle, wrote |-> {}, todo |-> todo, validates |-> {},
             makes |-> 0, evaluates |-> {}, late |-> FALSE, evidence |-> FALSE]
    BY <1>1, <2>2 DEF Opened
  <2> QED
    BY <2>1, <2>2, <2>3 DEF Session
<1> QED
  BY <1>1, <1>2 DEF SessionOK, CycleInv

LEMMA LoadStep ==
    ASSUME CycleInv, NEW r \in Requests, Load(r)
    PROVE  CycleInv' /\ SoundStep
<1>1. PICK kind \in {"tick", "run", "cancel"} : kind = Route(r)
  BY DEF Route
<1>2. cycle.status \notin CycleEnded /\ Holds(r, Opened(kind, "decide"))
  BY <1>1 DEF Load
<1> QED
  BY <1>2, OpenedOK, HoldsKeeps

LEMMA CancelStep ==
    ASSUME CycleInv, NEW r \in Requests, Cancel(r)
    PROVE  CycleInv' /\ SoundStep
<1>1. PICK d : d = Opened("cancel", "commit")
  OBVIOUS
<1>2. SessionOK(d, Len(candidates), found) /\ d.row = cycle /\ d.todo = "commit"
  BY <1>1, OpenedOK DEF Cancel, Opened
<1>3. PICK new : new = [cycle EXCEPT !.status = "canceled", !.outcome = "canceled"]
  OBVIOUS
<1>4. RowOK(new, Len(candidates)) /\ new.status = "canceled"
  <2>1. "canceled" \in Phases \cup CycleEnded /\ "canceled" \in Outcomes
    BY DEF CycleEnded, Outcomes
  <2>2. PICK row \in Row : row = cycle /\ RowOK(row, Len(candidates))
    BY DEF CycleInv, RowOK
  <2>3. new = [row EXCEPT !.status = "canceled", !.outcome = "canceled"]
    BY <1>3, <2>2
  <2>4. new.status = "canceled" /\ \A n : RowOK(row, n) => RowOK(new, n)
    <3>1. new \in Row /\ new.status = "canceled" /\ new.consumed = row.consumed
      BY <2>1, <2>2, <2>3 DEF Row
    <3> QED
      BY <3>1 DEF RowOK
  <2> QED
    BY <2>2, <2>4
<1>5. PICK s : s = [d EXCEPT !.row = new, !.wrote = {"status", "outcome"}]
  OBVIOUS
<1>6. /\ s \in Session /\ s.row = new /\ s.todo = "commit" /\ s.late = d.late
      /\ s.validates = d.validates /\ s.evaluates = d.evaluates
  BY <1>2, <1>4, <1>5 DEF SessionOK, Session, RowOK, Columns
<1>7. SessionOK(s, Len(candidates), found)
  BY <1>2, <1>4, <1>6 DEF SessionOK
<1>8. s = [d EXCEPT !.row.status = "canceled", !.row.outcome = "canceled",
                    !.wrote = {"status", "outcome"}]
  <2>1. d \in Session /\ cycle \in Row
    BY <1>2 DEF SessionOK, CycleInv, RowOK
  <2> QED
    BY <1>2, <1>3, <1>5, <2>1 DEF Session
<1>9. Holds(r, s)
  BY <1>1, <1>8 DEF Cancel
<1> QED
  BY <1>7, <1>9, HoldsKeeps

LEMMA CycleCommitStep ==
    ASSUME CycleInv, NEW r \in Requests, Commit(r)
    PROVE  CycleInv' /\ SoundStep
<1>1. requests[r] # Idle /\ candidates' = Sees(r) /\ validated' = validated \cup requests[r].validates
  BY DEF Commit
<1>2. /\ SessionOK(requests[r], Len(candidates), found) /\ Len(candidates) \in Nat
      /\ RowOK(cycle, Len(candidates)) /\ cycle \in Row
  BY <1>1, UnderWay DEF CycleInv, RowOK
<1>3. /\ candidates' \in Seq(Kinds) /\ Len(candidates') \in Nat
      /\ Len(candidates) <= Len(candidates')
  BY <1>1, SeesKinds
<1>4. DOMAIN cycle = Columns
  <2>1. cycle = [status |-> cycle.status, outcome |-> cycle.outcome,
                 consumed |-> cycle.consumed, project |-> cycle.project]
    BY <1>2, RowIsTyped
  <2> QED
    BY <2>1 DEF Columns
<1>5. cycle' = [column \in Columns |-> IF column \in requests[r].wrote
                                       THEN requests[r].row[column] ELSE cycle[column]]
  BY <1>4 DEF Commit
<1>6. /\ RowOK(cycle', Len(candidates))
      /\ cycle'.status = IF "status" \in requests[r].wrote THEN requests[r].row.status
                         ELSE cycle.status
  BY <1>2, <1>5, MixedRows DEF SessionOK
<1>7. RowOK(cycle', Len(candidates'))
  BY <1>2, <1>3, <1>6, MoreCandidates
<1>8. /\ requests' = [s \in Requests |-> requests'[s]]
      /\ requests'[r] = Idle /\ \A s \in Requests : s # r => requests'[s] = requests[s]
  BY DEF CycleInv, Commit
<1>9. \A s \in Requests : requests'[s] # Idle => SessionOK(requests'[s], Len(candidates'), found)
  BY <1>2, <1>3, <1>8, MoreCandidates DEF CycleInv
<1>10. validated' \subseteq found
  BY <1>1, <1>2 DEF SessionOK, CycleInv
<1>11. found' = found /\ decisions' = decisions
  BY DEF Commit
<1>12. CycleInv'
  BY <1>3, <1>7, <1>8, <1>9, <1>10, <1>11 DEF CycleInv
<1>13. SoundStep
  BY <1>1, <1>2, <1>6, <1>8 DEF SoundStep, SessionOK
<1> QED
  BY <1>12, <1>13

(* The steps that leave the row and the sessions as they are. *)
LEMMA OthersStep ==
    ASSUME CycleInv, UNCHANGED <<cycle, requests, validated>>,
           candidates' \in Seq(Kinds), Len(candidates') \in Nat,
           Len(candidates) <= Len(candidates'),
           found \subseteq found', found' \subseteq Patterns, decisions' \in 0..MaxDecisions
    PROVE  CycleInv' /\ SoundStep
<1>1. Len(candidates) \in Nat
  BY LenProperties DEF CycleInv
<1>2. RowOK(cycle', Len(candidates'))
  BY <1>1, MoreCandidates DEF CycleInv
<1>3. \A s \in Requests : requests'[s] # Idle => SessionOK(requests'[s], Len(candidates'), found')
  BY <1>1, MoreCandidates DEF CycleInv
<1>4. CycleInv'
  BY <1>2, <1>3 DEF CycleInv
<1> QED
  BY <1>4 DEF SoundStep

LEMMA ReplacedStep ==
    ASSUME CycleInv, NEW i \in DOMAIN candidates, NEW new \in Kinds,
           candidates' = [candidates EXCEPT ![i] = new],
           UNCHANGED <<cycle, found, validated, requests>>, decisions' \in 0..MaxDecisions
    PROVE  CycleInv' /\ SoundStep
<1>1. i \in 1..Len(candidates) /\ Len(candidates) \in Nat
  BY LenProperties DEF CycleInv
<1>2. candidates' \in Seq(Kinds) /\ Len(candidates') = Len(candidates)
  BY <1>1, ExceptSeq DEF CycleInv
<1> QED
  BY <1>1, <1>2, OthersStep DEF CycleInv

LEMMA DecidedStep ==
    ASSUME CycleInv, NEW i \in DOMAIN candidates, ApprovePaper(i) \/ Reject(i) \/ EvaluateByHand(i)
    PROVE  CycleInv' /\ SoundStep
<1>1. i \in 1..Len(candidates)
  BY LenProperties DEF CycleInv
<1>2. candidates[i] \in Kinds
  BY <1>1, ElementOfSeq DEF CycleInv
<1>3. PICK new \in Kinds : Sets(i, new)
  <2>1. CASE ApprovePaper(i)
    <3>1. [candidates[i] EXCEPT !.status = "promoted", !.verdict = "promoted"] \in Kinds
      BY <1>2 DEF Kinds, KindOK, Candidate, Verdicts
    <3> QED
      BY <2>1, <3>1 DEF ApprovePaper
  <2>2. CASE Reject(i)
    <3>1. [candidates[i] EXCEPT !.status = "rejected", !.verdict = "rejected"] \in Kinds
      BY <1>2 DEF Kinds, KindOK, Candidate, Verdicts
    <3> QED
      BY <2>2, <3>1 DEF Reject
  <2>3. CASE EvaluateByHand(i)
    <3>1. PICK result \in {"none", candidates[i].result} : Sets(i, Evaluated(candidates[i], result))
      BY <2>3 DEF EvaluateByHand
    <3>2. Evaluated(candidates[i], result) \in Kinds
      BY <1>2, <3>1, EvaluatedIsKind
    <3> QED
      BY <3>1, <3>2
  <2> QED
    BY <2>1, <2>2, <2>3
<1>4. decisions' \in 0..MaxDecisions
  BY <1>3, CycleAssumption DEF Sets, CycleInv
<1> QED
  BY <1>3, <1>4, ReplacedStep DEF Sets

LEMMA BacktestStep ==
    ASSUME CycleInv, NEW i \in DOMAIN candidates, NEW result \in Results, Backtest(i, result)
    PROVE  CycleInv' /\ SoundStep
<1>1. i \in 1..Len(candidates)
  BY LenProperties DEF CycleInv
<1>2. candidates[i] \in Kinds /\ candidates[i].result = "none"
  BY <1>1, ElementOfSeq DEF CycleInv, Backtest
<1>3. PICK new : new = [candidates[i] EXCEPT !.result = result]
  OBVIOUS
<1>4. new \in Kinds
  BY <1>2, <1>3 DEF Kinds, KindOK, Candidate
<1>5. /\ candidates' = [candidates EXCEPT ![i] = new]
      /\ UNCHANGED <<cycle, found, validated, requests, decisions>>
  BY <1>3 DEF Backtest
<1>6. decisions' \in 0..MaxDecisions
  BY <1>5 DEF CycleInv
<1> QED
  BY <1>4, <1>5, <1>6, ReplacedStep

LEMMA SynthesizeByHandStep ==
    ASSUME CycleInv, SynthesizeByHand
    PROVE  CycleInv' /\ SoundStep
<1>1. PICK n \in 1..Cardinality(found) :
         /\ candidates' = candidates \o Several(n)
         /\ UNCHANGED <<cycle, found, validated, requests, decisions>>
  BY DEF SynthesizeByHand
<1>2. n \in Nat
  BY CallsOfBatch DEF CycleInv
<1>3. Several(n) \in Seq(Kinds) /\ Len(Several(n)) = n
  BY <1>2, SeveralAre
<1>4. candidates' \in Seq(Kinds) /\ Len(candidates') = Len(candidates) + n
  BY <1>1, <1>3, ConcatProperties DEF CycleInv
<1>5. Len(candidates) \in Nat
  BY LenProperties DEF CycleInv
<1>6. Len(candidates') \in Nat /\ Len(candidates) <= Len(candidates')
  BY <1>2, <1>4, <1>5
<1> QED
  BY <1>1, <1>4, <1>6, OthersStep DEF CycleInv

LEMMA DiscoverStep ==
    ASSUME CycleInv, NEW p \in Patterns, Discover(p)
    PROVE  CycleInv' /\ SoundStep
<1>1. /\ found' = found \cup {p}
      /\ UNCHANGED <<cycle, validated, candidates, requests, decisions>>
  BY DEF Discover
<1>2. Len(candidates) \in Nat
  BY LenProperties DEF CycleInv
<1>3. /\ candidates' \in Seq(Kinds) /\ Len(candidates') \in Nat
      /\ Len(candidates) <= Len(candidates')
  BY <1>1, <1>2 DEF CycleInv
<1> QED
  BY <1>1, <1>3, OthersStep DEF CycleInv

LEMMA CycleStep == CycleInv /\ [CycleNext]_cycleVars => CycleInv' /\ SoundStep
<1> SUFFICES ASSUME CycleInv, [CycleNext]_cycleVars PROVE CycleInv' /\ SoundStep
  OBVIOUS
<1>1. ASSUME NEW r \in Requests, Fails(r)
      PROVE  CycleInv' /\ SoundStep
  BY <1>1, HoldsKeeps DEF Fails
<1>2. CASE UNCHANGED cycleVars
  BY <1>2 DEF cycleVars, CycleInv, SoundStep
<1>3. CASE CycleNext
  BY <1>1, <1>3, LoadStep, CancelStep, TickStep, CycleCommitStep, DecidedStep,
     SynthesizeByHandStep, DiscoverStep, BacktestStep DEF CycleNext
<1> QED
  BY <1>2, <1>3

LEMMA CycleTypes == CycleInv => CycleTypeOK
<1> SUFFICES ASSUME CycleInv PROVE CycleTypeOK
  OBVIOUS
<1>1. DOMAIN candidates = 1..Len(candidates)
  BY LenProperties DEF CycleInv
<1>2. candidates \in Seq(Candidate)
  BY SeqMonotonic DEF CycleInv, Kinds
<1>3. /\ cycle \in Row /\ cycle.consumed.backtests < MaxBacktests + Len(candidates)
      /\ TrialsAndCallsKept
  BY RowIsTyped DEF CycleInv, RowOK, TrialsAndCallsKept
<1> QED
  BY <1>1, <1>2, <1>3 DEF CycleInv, CycleTypeOK, SessionOK

-----------------------------------------------------------------------------
(* A research cycle is promoted only by a session that found a candidate   *)
(* evaluated whose backtest met every threshold, and once it has ended     *)
(* only requests that had loaded it before change it: for any number of    *)
(* overlapping requests, of ticks in one session, discoveries and          *)
(* candidates (_resolve_evaluation(), tick(), the commits of the routes).  *)
THEOREM CyclesAreSound == CycleSpec => CycleIsSound
<1>1. CycleInv /\ [CycleNext]_cycleVars => CycleInv'
  BY CycleStep
<1>2. CycleInv /\ [CycleNext]_cycleVars =>
        [cycle.status # "promoted" /\ cycle'.status = "promoted" =>
           \E r \in Requests : requests[r] # Idle /\ requests'[r] = Idle
                               /\ requests[r].evidence]_cycleVars
  BY CycleStep DEF SoundStep
<1>3. CycleInv /\ [CycleNext]_cycleVars =>
        [cycle.status \in CycleEnded /\ cycle' # cycle =>
           \E r \in Requests : requests[r] # Idle /\ requests'[r] = Idle
                               /\ ~ requests[r].late]_cycleVars
  BY CycleStep DEF SoundStep
<1> QED
  BY <1>1, <1>2, <1>3, CycleInitInv, PTL
  DEF CycleSpec, CycleIsSound, PromotedOnEvidence, EndedUnlessOverlapped

(* No sequence of ticks, cancellations and requests by hand overruns the   *)
(* budget of trials, nor that of model calls by a whole batch: a request   *)
(* whose commit overwrites a counter had itself seen the budget unspent.   *)
THEOREM BudgetsHold == CycleSpec => []TrialsAndCallsKept
<1>1. CycleInv => TrialsAndCallsKept
  BY CycleTypes DEF CycleTypeOK
<1>2. CycleInv /\ [CycleNext]_cycleVars => CycleInv'
  BY CycleStep
<1> QED
  BY <1>1, <1>2, CycleInitInv, PTL DEF CycleSpec

-----------------------------------------------------------------------------
(* The admission to live trading. *)
LEMMA ChecksByWeight ==
    /\ Weighing(2, Checks) = {"win_rate_above_threshold"}
    /\ Weighing(3, Checks) = {"sufficient_trades", "single_order_within_limit",
                              "param_stability", "sufficient_paper_duration"}
    /\ Weighing(4, Checks) = {"positive_return", "sufficient_sharpe", "reasonable_drawdown",
                              "daily_loss_within_limit", "backtest_paper_consistency",
                              "kill_switch_tested", "recovery_drill_completed",
                              "version_binding_complete"}
    /\ Weighing(6, Checks) = {"approval_obtained"}
    /\ Critical = Weighing(4, Checks) \cup Weighing(6, Checks)
    /\ Checks = UNION {Weighing(w, Checks) : w \in {2, 3, 4, 6}}
<1>1. Checks = {"positive_return", "sufficient_sharpe", "sufficient_trades",
                "reasonable_drawdown", "win_rate_above_threshold", "daily_loss_within_limit",
                "single_order_within_limit", "backtest_paper_consistency", "param_stability",
                "sufficient_paper_duration", "kill_switch_tested",
                "recovery_drill_completed", "approval_obtained", "version_binding_complete"}
  BY DEF Checks, Weight
<1>2. /\ Weight["positive_return"] = 4 /\ Weight["sufficient_sharpe"] = 4
      /\ Weight["sufficient_trades"] = 3 /\ Weight["reasonable_drawdown"] = 4
      /\ Weight["win_rate_above_threshold"] = 2 /\ Weight["daily_loss_within_limit"] = 4
      /\ Weight["single_order_within_limit"] = 3 /\ Weight["backtest_paper_consistency"] = 4
      /\ Weight["param_stability"] = 3 /\ Weight["sufficient_paper_duration"] = 3
      /\ Weight["kill_switch_tested"] = 4 /\ Weight["recovery_drill_completed"] = 4
      /\ Weight["approval_obtained"] = 6 /\ Weight["version_binding_complete"] = 4
  BY DEF Weight
<1>3. Weighing(2, Checks) = {"win_rate_above_threshold"}
  BY <1>1, <1>2 DEF Weighing
<1>4. Weighing(3, Checks) = {"sufficient_trades", "single_order_within_limit",
                             "param_stability", "sufficient_paper_duration"}
  BY <1>1, <1>2 DEF Weighing
<1>5. Weighing(4, Checks) = {"positive_return", "sufficient_sharpe", "reasonable_drawdown",
                             "daily_loss_within_limit", "backtest_paper_consistency",
                             "kill_switch_tested", "recovery_drill_completed",
                             "version_binding_complete"}
  BY <1>1, <1>2 DEF Weighing
<1>6. Weighing(6, Checks) = {"approval_obtained"}
  BY <1>1, <1>2 DEF Weighing
<1>7. \A c \in Checks : Weight[c] \in {2, 3, 4, 6}
  BY <1>1, <1>2
<1>8. Critical = Weighing(4, Checks) \cup Weighing(6, Checks)
  BY <1>7 DEF Critical, Weighing
<1>9. Checks = UNION {Weighing(w, Checks) : w \in {2, 3, 4, 6}}
  BY <1>7 DEF Weighing
<1> QED
  BY <1>3, <1>4, <1>5, <1>6, <1>8, <1>9

(* Sets of four and of eight. *)
LEMMA FourOf ==
    ASSUME NEW a, NEW b, NEW c, NEW d, a # b, a # c, a # d, b # c, b # d, c # d
    PROVE  IsFiniteSet({a, b, c, d}) /\ Cardinality({a, b, c, d}) = 4
<1>1. IsFiniteSet({a}) /\ Cardinality({a}) = 1
  BY FS_Singleton
<1>2. {a, b} = {a} \cup {b} /\ {a, b, c} = {a, b} \cup {c} /\ {a, b, c, d} = {a, b, c} \cup {d}
  OBVIOUS
<1>3. IsFiniteSet({a, b}) /\ Cardinality({a, b}) = 2
  BY <1>1, <1>2, FS_AddElement
<1>4. IsFiniteSet({a, b, c}) /\ Cardinality({a, b, c}) = 3
  BY <1>2, <1>3, FS_AddElement
<1> QED
  BY <1>2, <1>4, FS_AddElement

LEMMA ChecksCounted ==
    /\ \A w \in {2, 3, 4, 6} : IsFiniteSet(Weighing(w, Checks))
    /\ Cardinality(Weighing(2, Checks)) = 1 /\ Cardinality(Weighing(3, Checks)) = 4
    /\ Cardinality(Weighing(4, Checks)) = 8 /\ Cardinality(Weighing(6, Checks)) = 1
    /\ IsFiniteSet(Checks) /\ Total = 52
<1>1. /\ IsFiniteSet(Weighing(2, Checks)) /\ Cardinality(Weighing(2, Checks)) = 1
      /\ IsFiniteSet(Weighing(6, Checks)) /\ Cardinality(Weighing(6, Checks)) = 1
  <2>1. \A c : IsFiniteSet({c}) /\ Cardinality({c}) = 1
    BY FS_Singleton
  <2>2. \E b, c : Weighing(2, Checks) = {b} /\ Weighing(6, Checks) = {c}
    BY ChecksByWeight
  <2> QED
    BY <2>1, <2>2
<1>2. IsFiniteSet(Weighing(3, Checks)) /\ Cardinality(Weighing(3, Checks)) = 4
  <2> DEFINE four == {"sufficient_trades", "single_order_within_limit",
                      "param_stability", "sufficient_paper_duration"}
  <2>1. IsFiniteSet(four) /\ Cardinality(four) = 4
    BY FourOf
  <2> QED
    BY <2>1, ChecksByWeight
<1>3. IsFiniteSet(Weighing(4, Checks)) /\ Cardinality(Weighing(4, Checks)) = 8
  <2> DEFINE one == {"positive_return", "sufficient_sharpe", "reasonable_drawdown",
                     "daily_loss_within_limit"}
             two == {"backtest_paper_consistency", "kill_switch_tested",
                     "recovery_drill_completed", "version_binding_complete"}
  <2>1. IsFiniteSet(one) /\ Cardinality(one) = 4
    BY FourOf
  <2>2. IsFiniteSet(two) /\ Cardinality(two) = 4
    BY FourOf
  <2>3. one \cap two = {} /\ Weighing(4, Checks) = one \cup two
    BY ChecksByWeight
  <2> HIDE DEF one, two
  <2>4. Cardinality({}) = 0
    BY FS_EmptySet
  <2> QED
    BY <2>1, <2>2, <2>3, <2>4, FS_Union
<1>4. IsFiniteSet(Checks)
  <2>1. Checks = (Weighing(2, Checks) \cup Weighing(3, Checks))
                 \cup (Weighing(4, Checks) \cup Weighing(6, Checks))
    BY ChecksByWeight
  <2> HIDE DEF Weighing
  <2>2. IsFiniteSet(Weighing(2, Checks) \cup Weighing(3, Checks))
    BY <1>1, <1>2, FS_Union
  <2>3. IsFiniteSet(Weighing(4, Checks) \cup Weighing(6, Checks))
    BY <1>1, <1>3, FS_Union
  <2> QED
    BY <2>1, <2>2, <2>3, FS_Union
<1> QED
  BY <1>1, <1>2, <1>3, <1>4 DEF Total, WeightOf

LEMMA WeightsOfSome ==
    ASSUME NEW passed \in SUBSET Checks
    PROVE  /\ \A w \in {2, 3, 4, 6} : Cardinality(Weighing(w, passed)) \in Nat
           /\ Cardinality(Weighing(2, passed)) <= 1 /\ Cardinality(Weighing(3, passed)) <= 4
           /\ Cardinality(Weighing(4, passed)) <= 8 /\ Cardinality(Weighing(6, passed)) <= 1
           /\ WeightOf(passed) \in 0..Total
<1>1. \A w \in {2, 3, 4, 6} :
         /\ IsFiniteSet(Weighing(w, passed))
         /\ Cardinality(Weighing(w, passed)) <= Cardinality(Weighing(w, Checks))
  <2>1. \A w : Weighing(w, passed) \subseteq Weighing(w, Checks)
    BY DEF Weighing
  <2> QED
    BY <2>1, ChecksCounted, FS_Subset
<1>2. \A w \in {2, 3, 4, 6} : Cardinality(Weighing(w, passed)) \in Nat
  BY <1>1, FS_CardinalityType
<1>3. /\ Cardinality(Weighing(2, passed)) <= 1 /\ Cardinality(Weighing(3, passed)) <= 4
      /\ Cardinality(Weighing(4, passed)) <= 8 /\ Cardinality(Weighing(6, passed)) <= 1
  BY <1>1, ChecksCounted
<1>4. PICK n2 \in Nat, n3 \in Nat, n4 \in Nat, n6 \in Nat :
         /\ n2 = Cardinality(Weighing(2, passed)) /\ n3 = Cardinality(Weighing(3, passed))
         /\ n4 = Cardinality(Weighing(4, passed)) /\ n6 = Cardinality(Weighing(6, passed))
  BY <1>2
<1>5. WeightOf(passed) = 2 * n2 + 3 * n3 + 4 * n4 + 6 * n6
  BY <1>4 DEF WeightOf
<1>6. WeightOf(passed) \in 0..52
  <2>1. n2 <= 1 /\ n3 <= 4 /\ n4 <= 8 /\ n6 <= 1
    BY <1>3, <1>4
  <2>2. 2 * n2 + 3 * n3 + 4 * n4 + 6 * n6 \in 0..52
    BY <2>1
  <2> QED
    BY <1>5, <2>2
<1> QED
  BY <1>2, <1>3, <1>6, ChecksCounted

(* A score of 80 of which no critical check is missing: 38 of 52 are the   *)
(* critical checks', and of the 14 others four are needed, which takes two.*)
LEMMA ReadyPasses ==
    ASSUME NEW passed \in SUBSET Checks, IsReady(passed)
    PROVE  Critical \subseteq passed /\ Cardinality(Checks \ passed) <= 3
<1>1. Critical \subseteq passed
  BY DEF IsReady
<1>2. Weighing(4, passed) = Weighing(4, Checks) /\ Weighing(6, passed) = Weighing(6, Checks)
  <2>1. \A w \in {4, 6} : Weighing(w, passed) \subseteq Weighing(w, Checks)
    BY DEF Weighing
  <2>2. \A w \in {4, 6} : Weighing(w, Checks) \subseteq Weighing(w, passed)
    BY <1>1, ChecksByWeight DEF Weighing
  <2> QED
    BY <2>1, <2>2
<1>3. PICK n2 \in Nat, n3 \in Nat : n2 = Cardinality(Weighing(2, passed)) /\ n3 = Cardinality(Weighing(3, passed))
  BY WeightsOfSome
<1>4. WeightOf(passed) = 2 * n2 + 3 * n3 + 38
  BY <1>2, <1>3, ChecksCounted DEF WeightOf
<1>5. (2 * n2 + 3 * n3 + 38) * 100 >= 80 * 52
  BY <1>4, ChecksCounted DEF IsReady
<1>6. n2 + n3 >= 2
  BY <1>3, <1>5
<1>7. PICK failed2, failed3 : /\ failed2 = Weighing(2, Checks) \ Weighing(2, passed)
                              /\ failed3 = Weighing(3, Checks) \ Weighing(3, passed)
  OBVIOUS
<1>8. /\ IsFiniteSet(failed2) /\ Cardinality(failed2) = 1 - n2
      /\ IsFiniteSet(failed3) /\ Cardinality(failed3) = 4 - n3
  <2>1. /\ Weighing(2, Checks) \cap Weighing(2, passed) = Weighing(2, passed)
        /\ Weighing(3, Checks) \cap Weighing(3, passed) = Weighing(3, passed)
    BY DEF Weighing
  <2>2. /\ IsFiniteSet(Weighing(2, Checks)) /\ Cardinality(Weighing(2, Checks)) = 1
        /\ IsFiniteSet(Weighing(3, Checks)) /\ Cardinality(Weighing(3, Checks)) = 4
    BY ChecksCounted
  <2>3. IsFiniteSet(failed2) /\ Cardinality(failed2) = 1 - n2
    <3> DEFINE all == Weighing(2, Checks)
               some == Weighing(2, passed)
    <3> HIDE DEF all, some
    <3>1. /\ IsFiniteSet(all \ some)
          /\ Cardinality(all \ some) = Cardinality(all) - Cardinality(all \cap some)
      BY <2>2, FS_Difference DEF all
    <3> QED
      BY <1>3, <1>7, <2>1, <2>2, <3>1 DEF all, some
  <2>4. IsFiniteSet(failed3) /\ Cardinality(failed3) = 4 - n3
    <3> DEFINE all == Weighing(3, Checks)
               some == Weighing(3, passed)
    <3> HIDE DEF all, some
    <3>1. /\ IsFiniteSet(all \ some)
          /\ Cardinality(all \ some) = Cardinality(all) - Cardinality(all \cap some)
      BY <2>2, FS_Difference DEF all
    <3> QED
      BY <1>3, <1>7, <2>1, <2>2, <3>1 DEF all, some
  <2> QED
    BY <2>3, <2>4
<1>9. Checks \ passed \subseteq failed2 \cup failed3
  <2>1. \A c \in Checks : Weight[c] \in {2, 3} \/ c \in Critical
    BY ChecksByWeight DEF Weighing
  <2> QED
    BY <1>1, <1>7, <2>1 DEF Weighing
<1>10. IsFiniteSet(failed2 \cup failed3) /\ Cardinality(failed2 \cup failed3) <= 3
  <2>1. /\ IsFiniteSet(failed2 \cup failed3)
        /\ Cardinality(failed2 \cup failed3) =
             Cardinality(failed2) + Cardinality(failed3) - Cardinality(failed2 \cap failed3)
    BY <1>8, FS_Union
  <2>2. Cardinality(failed2 \cap failed3) \in Nat
    BY <1>8, FS_Intersection, FS_CardinalityType
  <2> QED
    BY <1>3, <1>6, <1>8, <2>1, <2>2
<1>11. /\ IsFiniteSet(Checks \ passed)
       /\ Cardinality(Checks \ passed) <= Cardinality(failed2 \cup failed3)
  BY <1>9, <1>10, FS_Subset
<1> QED
  BY <1>1, <1>10, <1>11, FS_CardinalityType

AdmissionInv == AdmissionTypeOK /\ (ready => IsReady(passing)) /\ ScoreOfMetrics

LEMMA AdmissionInitInv == AdmissionInit => AdmissionInv
<1> SUFFICES ASSUME AdmissionInit PROVE AdmissionInv
  OBVIOUS
<1>1. AdmissionTypeOK
  <2>1. admission \in [status: {"pending_metrics", "metrics_collected", "pending_review",
                               "approved", "rejected"}, request: BOOLEAN]
    BY DEF AdmissionInit
  <2>2. decided \in 0..MaxDecided
    BY AdmissionAssumption DEF AdmissionInit
  <2>3. score = <<>> /\ collected = {} /\ passing = {} /\ ready = FALSE
    BY DEF AdmissionInit
  <2> QED
    BY <2>1, <2>2, <2>3 DEF AdmissionTypeOK
<1>2. (ready => IsReady(passing)) /\ ScoreOfMetrics
  BY DEF AdmissionInit, ScoreOfMetrics
<1> QED
  BY <1>1, <1>2 DEF AdmissionInv

LEMMA AdmissionInvStep == AdmissionInv /\ [AdmissionNext]_admissionVars => AdmissionInv'
<1> SUFFICES ASSUME AdmissionInv, [AdmissionNext]_admissionVars PROVE AdmissionInv'
  OBVIOUS
<1>1. ASSUME NEW passed \in SUBSET OfMetrics, CollectMetrics(passed)
      PROVE  AdmissionInv'
  <2>1. /\ collected' = passed /\ UNCHANGED <<score, ready, passing, decided>>
        /\ score = <<>>
        /\ admission' = [admission EXCEPT !.status = "metrics_collected"]
    BY <1>1 DEF CollectMetrics, AdmissionInv, AdmissionTypeOK
  <2>2. AdmissionTypeOK'
    BY <2>1 DEF AdmissionInv, AdmissionTypeOK
  <2>3. (ready => IsReady(passing))' /\ ScoreOfMetrics'
    BY <2>1 DEF AdmissionInv, IsReady, ScoreOfMetrics
  <2> QED
    BY <2>2, <2>3 DEF AdmissionInv
<1>2. ASSUME NEW others \in SUBSET (Checks \ OfMetrics), EvaluateReadiness(others)
      PROVE  AdmissionInv'
  <2>1. PICK all : all = collected \cup others
    OBVIOUS
  <2>2. /\ passing' = all /\ score' = <<WeightOf(all)>> /\ ready' = IsReady(all)
        /\ UNCHANGED <<collected, decided>>
        /\ admission' = [admission EXCEPT !.status = "pending_review"]
    BY <1>2, <2>1 DEF EvaluateReadiness
  <2>3. all \in SUBSET Checks /\ collected = all \cap OfMetrics
    <3>1. OfMetrics \subseteq Checks
      BY DEF OfMetrics, Checks, Weight
    <3> QED
      BY <2>1, <3>1 DEF AdmissionInv, AdmissionTypeOK
  <2>4. AdmissionTypeOK'
    <3>1. WeightOf(all) \in 0..Total /\ IsReady(all) \in BOOLEAN
      BY <2>3, WeightsOfSome DEF IsReady
    <3> QED
      BY <2>2, <2>3, <3>1 DEF AdmissionInv, AdmissionTypeOK
  <2>5. (ready => IsReady(passing))' /\ ScoreOfMetrics'
    BY <2>2, <2>3 DEF IsReady, ScoreOfMetrics
  <2> QED
    BY <2>4, <2>5 DEF AdmissionInv
<1>3. ASSUME NEW service \in BOOLEAN, SubmitForApproval(service)
      PROVE  AdmissionInv'
  <2>1. /\ UNCHANGED <<collected, score, ready, passing, decided>>
        /\ admission.status = "pending_review"
        /\ admission' = [admission EXCEPT !.request = @ \/ service]
    BY <1>3 DEF SubmitForApproval
  <2>2. AdmissionTypeOK'
    BY <2>1 DEF AdmissionInv, AdmissionTypeOK
  <2>3. (ready => IsReady(passing))' /\ ScoreOfMetrics'
    BY <2>1 DEF AdmissionInv, IsReady, ScoreOfMetrics
  <2> QED
    BY <2>2, <2>3 DEF AdmissionInv
<1>4. ASSUME NEW decision \in {"approved", "rejected"}, ProcessDecision(decision)
      PROVE  AdmissionInv'
  <2>1. /\ UNCHANGED <<collected, score, ready, passing>>
        /\ decided < MaxDecided /\ decided' = decided + 1
        /\ admission' = [admission EXCEPT !.status = decision]
    BY <1>4 DEF ProcessDecision
  <2>2. AdmissionTypeOK'
    BY <2>1, AdmissionAssumption DEF AdmissionInv, AdmissionTypeOK
  <2>3. (ready => IsReady(passing))' /\ ScoreOfMetrics'
    BY <2>1 DEF AdmissionInv, IsReady, ScoreOfMetrics
  <2> QED
    BY <2>2, <2>3 DEF AdmissionInv
<1>5. CASE UNCHANGED admissionVars
  BY <1>5 DEF admissionVars, AdmissionInv, AdmissionTypeOK, IsReady, ScoreOfMetrics
<1> QED
  BY <1>1, <1>2, <1>3, <1>4, <1>5 DEF AdmissionNext

(* What is ready fails no critical check and at most three others, and the *)
(* score on the record is that of the metrics collected on it, whatever    *)
(* decisions come and whatever passes (readiness.py is_ready, admission.py *)
(* evaluate_readiness()).                                                  *)
THEOREM ReadinessIsTold == AdmissionSpec => []ReadinessTold
<1>1. AdmissionInv => ReadinessTold
  BY ReadyPasses DEF AdmissionInv, AdmissionTypeOK, ReadinessTold, ReadyFailsFew
<1> QED
  BY <1>1, AdmissionInitInv, AdmissionInvStep, PTL DEF AdmissionSpec

(* The record of an admission keeps its type: a score is within the total, *)
(* and nothing is collected or assessed before its status says so.         *)
THEOREM AdmissionTypeCorrect == AdmissionSpec => []AdmissionTypeOK
<1>1. AdmissionInv => AdmissionTypeOK
  BY DEF AdmissionInv
<1> QED
  BY <1>1, AdmissionInitInv, AdmissionInvStep, PTL DEF AdmissionSpec

-----------------------------------------------------------------------------
(* The run: a behaviour is one of the three, and the others stand still.   *)
PartsInv == CycleInv /\ ProjectInv /\ IndexInv /\ AdmissionInv

LEMMA PartsStep ==
    ASSUME PartsInv, [Next]_vars
    PROVE  PartsInv'
<1>1. [CycleNext]_cycleVars /\ [ProjectNext]_projectVars /\ [AdmissionNext]_admissionVars
  BY DEF Next, vars
<1>2. CycleInv'
  BY <1>1, CycleStep DEF PartsInv
<1>3. ProjectInv'
  BY <1>1, ProjectInvStep DEF PartsInv
<1>4. IndexInv'
  BY <1>1, IndexInvStep DEF PartsInv
<1>5. AdmissionInv'
  BY <1>1, AdmissionInvStep DEF PartsInv
<1> QED
  BY <1>2, <1>3, <1>4, <1>5 DEF PartsInv

(* Statuses, budgets, candidates and tables stay within their bounds; the  *)
(* backtests of a cycle overrun their budget by less than its candidates,  *)
(* whatever a commit overwrites (_is_budget_exhausted(),                   *)
(* _evaluate_all_candidates()).                                            *)
THEOREM ResearchTypesHold == Spec => []TypesOK
<1>1. Init => PartsInv
  BY CycleInitInv, ProjectInitInv, IndexInitInv, AdmissionInitInv
  DEF Init, PartsInv
<1>2. PartsInv /\ [Next]_vars => PartsInv'
  BY PartsStep
<1>3. PartsInv => TypesOK
  BY CycleTypes, ProjectTypes DEF PartsInv, AdmissionInv, TypesOK
<1> QED
  BY <1>1, <1>2, <1>3, PTL DEF Spec
=============================================================================
