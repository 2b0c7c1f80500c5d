------------------------------- MODULE Audit -------------------------------
(***************************************************************************)
(* src/guardrail_evidence/audit.py: the operational audit of a journal     *)
(* that verified.  An event is [type, id, ref, verdict, identity]: its     *)
(* event_type, the str() of its event_id and of the decision_event_id of   *)
(* an outcome, the decision or status it records, and the action_id,       *)
(* action_name and contract_hash taken together.                           *)
(***************************************************************************)
EXTENDS Naturals, Sequences, FiniteSets

DecisionKinds == {"allowed", "denied"}

OutcomeKinds == {"succeeded", "failed"}

(* The first decision with each id: decisions.setdefault. *)
Decisions(events) ==
  {i \in DOMAIN events :
     /\ events[i].type = "decision"
     /\ \A k \in 1..(i - 1) :
          ~(events[k].type = "decision" /\ events[k].id = events[i].id)}

Outcomes(events) == {i \in DOMAIN events : events[i].type = "outcome"}

LinkedOutcomes(events, id) == {i \in Outcomes(events) : events[i].ref = id}

(* Mutant: who the outcome is of is not compared. *)
LinkIssuesUnidentified(events, d, j) ==
  {code \in {"outcome_before_decision", "outcome_for_denied_decision",
             "invalid_outcome_status"} :
     CASE code = "outcome_before_decision" -> j <= d
       [] code = "outcome_for_denied_decision" -> events[d].verdict # "allowed"
       [] code = "invalid_outcome_status" -> events[j].verdict \notin OutcomeKinds}

(* What is wrong between the decision at d and an outcome that refers to it. *)
LinkIssues(events, d, j) ==
  {code \in {"outcome_before_decision", "outcome_for_denied_decision",
             "outcome_identity_mismatch", "invalid_outcome_status"} :
     CASE code = "outcome_before_decision" -> j <= d
       [] code = "outcome_for_denied_decision" -> events[d].verdict # "allowed"
       [] code = "outcome_identity_mismatch" -> events[j].identity # events[d].identity
       [] code = "invalid_outcome_status" -> events[j].verdict \notin OutcomeKinds}

AuditIssues(events) ==
  {"duplicate_event_id" : i \in {j \in DOMAIN events :
      \E k \in 1..(j - 1) : events[k].id = events[j].id}}
  \cup
  {"orphan_outcome" : i \in {j \in Outcomes(events) :
      \A d \in Decisions(events) : events[d].id # events[j].ref}}
  \cup
  {"duplicate_outcome" : i \in {d \in Decisions(events) :
      Cardinality(LinkedOutcomes(events, events[d].id)) > 1}}
  \cup
  (UNION {UNION {LinkIssues(events, d, j) : j \in LinkedOutcomes(events, events[d].id)} :
            d \in Decisions(events)})
  \cup
  {"invalid_decision" : i \in {d \in Decisions(events) : events[d].verdict \notin DecisionKinds}}

(* The status of the invocation whose decision is at position d. *)
InvocationStatus(events, d) ==
  LET linked == LinkedOutcomes(events, events[d].id)
      theOne == events[CHOOSE j \in linked : TRUE]
  IN  CASE events[d].verdict = "denied" /\ linked = {} -> "denied"
        [] /\ events[d].verdict = "allowed"
           /\ Cardinality(linked) = 1
           /\ theOne.verdict \in OutcomeKinds -> theOne.verdict
        [] OTHER -> "needs_reconciliation"

(* AuditReport.needs_reconciliation *)
NeedsReconciliation(events) ==
  \E d \in Decisions(events) :
    InvocationStatus(events, d) \in {"failed", "needs_reconciliation"}

=============================================================================
