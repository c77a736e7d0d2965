--------------------------- MODULE OpportunityStage ---------------------------
(***************************************************************************)
(* The rules of the sales pipeline:                                        *)
(* packages/business/src/crm/opportunity-stage.ts, and what the other CRM  *)
(* services ask of a stage.  A stored stage is a value of the database's   *)
(* enumeration, so normalizeOpportunityStage leaves it as it is.           *)
(***************************************************************************)
EXTENDS Integers, Sequences

ORDERED_PIPELINE == <<"LEAD", "QUALIFIED", "PROPOSAL", "POC", "NEGOTIATION">>
Pipeline == {ORDERED_PIPELINE[i] : i \in DOMAIN ORDERED_PIPELINE}
CANONICAL_STAGES == Pipeline \cup {"WON", "LOST"}

Place(stage) == CHOOSE i \in DOMAIN ORDERED_PIPELINE : ORDERED_PIPELINE[i] = stage

\* LOST from anywhere, WON from NEGOTIATION or as the correction of LOST, any step back inside the
\* pipeline and one step forward; nothing else leaves WON or LOST.
validateOpportunityStageOrder(from, to) ==
    \/ to \in {from, "LOST"}
    \/ to = "WON" /\ from \in {"NEGOTIATION", "LOST"}
    \/ {from, to} \subseteq Pipeline /\ Place(to) <= Place(from) + 1

\* Leaving LEAD for anything but LOST, and entering any later stage of the pipeline.
RequiresQualification(from, to) ==
    \/ from = "LEAD" /\ to \notin {"LEAD", "LOST"}
    \/ to \in Pipeline \ {"LEAD"}

RegStatuses == {"NOT_SUBMITTED", "SUBMITTED", "APPROVED", "REJECTED", "EXPIRED", "CONTESTED"}
REGISTRATION_REQUIRED_DEAL_TYPES == {"NEW_BUILD", "SIMPLE_RESELL"}
REGISTRATION_GATED_STAGES == {"NEGOTIATION", "WON"}
BLOCKING_REG_STATUSES == {"NOT_SUBMITTED", "REJECTED"}

validateRegistrationGate(from, to, dealType, regStatus) ==
    \/ dealType \notin REGISTRATION_REQUIRED_DEAL_TYPES
    \/ to \notin REGISTRATION_GATED_STAGES \ {from}
    \/ regStatus \notin BLOCKING_REG_STATUSES

\* What executeOpportunityConversion asks for.
CONVERSION_STAGES == {"PROPOSAL", "POC", "NEGOTIATION", "WON"}
=============================================================================
