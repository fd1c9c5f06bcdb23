----------------------------- MODULE MCResearch -----------------------------
(* The research cycle, the research project and the admission to live      *)
(* trading on small instances.  They share no state: a behaviour is one of *)
(* the three.                                                              *)
EXTENDS ResearchCycle, ResearchProject, Admission

VARIABLE part

vars == <<part, cycleVars, projectVars, admissionVars>>

Init == part \in {"cycle", "project", "admission"} /\ CycleInit /\ ProjectInit /\ AdmissionInit

Next ==
    /\ UNCHANGED part
    /\ \/ part = "cycle" /\ CycleNext /\ UNCHANGED <<projectVars, admissionVars>>
       \/ part = "project" /\ ProjectNext /\ UNCHANGED <<cycleVars, admissionVars>>
       \/ part = "admission" /\ AdmissionNext /\ UNCHANGED <<cycleVars, projectVars>>

Spec == Init /\ [][Next]_vars

(* The state of every part keeps its type: statuses, budgets and tables    *)
(* stay within their bounds.                                               *)
TypesOK == CycleTypeOK /\ ProjectTypeOK /\ AdmissionTypeOK
=============================================================================
