------------------------------- MODULE DealDesk -------------------------------
(***************************************************************************)
(* What the opportunity services promise, one atomic step at a time: a     *)
(* deal moves along the pipeline only as the rules allow and only on an    *)
(* assessment that passes when it moves, it becomes a project only on      *)
(* evidence of a proof of concept that is there when it does, once, and    *)
(* nothing but its assessment and its evidence changes while it is         *)
(* archived, so that it comes back at the stage it was archived at.        *)
(***************************************************************************)
EXTENDS OpportunityStage

CONSTANTS Opps, None

VARIABLES
    stage,      \* stage of each deal, None before it is opened
    live,       \* the deals that are not archived
    passing,    \* those whose current assessment passes
    evidence,   \* those with a proof of concept
    project     \* the status a deal's project started with, None before conversion

vars == <<stage, live, passing, evidence, project>>

Init ==
    /\ stage \in [Opps -> CANONICAL_STAGES \cup {None}]
    /\ live \in SUBSET {o \in Opps : stage[o] # None}
    /\ passing \in SUBSET Opps
    /\ evidence \in SUBSET Opps
    /\ project = [o \in Opps |-> None]

Open(o) ==
    /\ stage[o] = None
    /\ stage' = [stage EXCEPT ![o] = "LEAD"]
    /\ live' = live \cup {o}
    /\ UNCHANGED <<passing, evidence, project>>

Move(o, to) ==
    /\ o \in live
    /\ validateOpportunityStageOrder(stage[o], to)
    /\ RequiresQualification(stage[o], to) => o \in passing
    /\ stage' = [stage EXCEPT ![o] = to]
    /\ UNCHANGED <<live, passing, evidence, project>>

Assess(o) ==
    /\ stage[o] # None
    /\ passing' \in {passing \cup {o}, passing \ {o}}
    /\ UNCHANGED <<stage, live, evidence, project>>

Evidence(o) ==
    /\ evidence' \in {evidence \cup {o}, evidence \ {o}}
    /\ UNCHANGED <<stage, live, passing, project>>

Convert(o) ==
    /\ o \in live /\ project[o] = None
    /\ stage[o] \in CONVERSION_STAGES /\ o \in evidence
    /\ project' = [project EXCEPT ![o] =
                      IF stage[o] = "WON" THEN "planned" ELSE "pre_engagement"]
    /\ UNCHANGED <<stage, live, passing, evidence>>

Archive(o) ==
    /\ o \in live
    /\ live' = live \ {o}
    /\ UNCHANGED <<stage, passing, evidence, project>>

Restore(o) ==
    /\ stage[o] # None /\ o \notin live
    /\ live' = live \cup {o}
    /\ UNCHANGED <<stage, passing, evidence, project>>

Next ==
    \E o \in Opps :
        \/ Open(o) \/ Assess(o) \/ Evidence(o) \/ Convert(o) \/ Archive(o) \/ Restore(o)
        \/ \E to \in CANONICAL_STAGES : Move(o, to)

Spec == Init /\ [][Next]_vars
=============================================================================
