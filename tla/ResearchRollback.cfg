CONSTANTS
    Requests = {r1, r2}
    Cancelling = {r2}
    Running = {r2}
    Patterns = {p1}
    MaxTrials = 1
    MaxBacktests = 2
    MaxCalls = 2
    MaxCandidates = 1
    MaxDecisions = 1
    Users = {u1, u2}
    Hypotheses = {h1}
    Trials = {t1, t2, t3}
    MaxDecided = 2
SPECIFICATION Spec
CHECK_DEADLOCK FALSE
INVARIANT
    TrialsToExecute
