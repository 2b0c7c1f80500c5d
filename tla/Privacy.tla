------------------------------ MODULE Privacy ------------------------------
(***************************************************************************)
(* src/guardrail_evidence/privacy.py: what a decision event discloses of   *)
(* its arguments, read from its parameter_retention or, in older journals, *)
(* from its summary.  Absent stands for a field the event does not have    *)
(* and Malformed for one of the wrong type or, for a summary, one whose    *)
(* parts are out of order, repeated or not what bounded_summary prints.    *)
(* The order of the names in a report is left out.                         *)
(***************************************************************************)
EXTENDS Canonical

CONSTANTS Absent, Malformed

RetentionStates == {"redacted", "retained", "unsupported"}

Classifications == {"fully_redacted", "partially_redacted", "no_arguments", "unknown"}

Report(class, names) == [class |-> class, names |-> names]

StateOf(value) ==
  CASE value = Redacted -> "redacted"
    [] IsUnsupported(value) -> "unsupported"
    [] OTHER -> "retained"

(* engine.py, _parameter_retention *)
ParameterRetention(object, names) ==
  [i \in DOMAIN names |-> [name |-> names[i], state |-> StateOf(object[names[i]])]]

NamesOf(records) == {records[i].name : i \in DOMAIN records}

NamesIn(records, states) ==
  {records[i].name : i \in {j \in DOMAIN records : records[j].state \in states}}

(* What the last part of both classifiers says of well-formed records. *)
Verdict(records, withUnsupported) ==
  CASE NamesIn(records, {"unsupported"}) # {} -> Report("unknown", withUnsupported)
    [] NamesIn(records, {"unsupported"}) = {} /\ NamesIn(records, {"retained"}) # {} ->
         Report("partially_redacted", NamesIn(records, {"retained"}))
    [] OTHER -> Report("fully_redacted", {})

(* A state that is a list or an object, for which membership in a frozenset
   cannot be tested: a TypeError is raised. *)
Unhashable == "unhashable"

BadRecord(retention, i) ==
  \/ retention[i].state \notin RetentionStates
  \/ \E j \in 1..(i - 1) : retention[j].name = retention[i].name

(* The loop over the records ends at the first bad one; here it raises. *)
LoopRaises(retention) ==
  /\ retention \notin {Absent, Malformed}
  /\ \E i \in DOMAIN retention :
       retention[i].state = Unhashable /\ \A j \in 1..(i - 1) : ~BadRecord(retention, j)

(* Mutant: only the states that disclose something are looked for. *)
ClassifyByStates(retention) ==
  IF retention = Malformed THEN Report("unknown", {})
  ELSE IF retention = <<>> THEN Report("no_arguments", {})
  ELSE Verdict(retention, NamesOf(retention))

(* _classify_retention, where it does not raise *)
ClassifyRetention(retention) ==
  IF retention = Malformed THEN Report("unknown", {})
  ELSE IF retention = <<>> THEN Report("no_arguments", {})
  ELSE LET before == {i \in DOMAIN retention : \A j \in 1..i : ~BadRecord(retention, j)}
       IN  IF before # DOMAIN retention
           THEN Report("unknown", {retention[i].name : i \in before})
           ELSE Verdict(retention, NamesOf(retention))

(* Mutant: the parts before the first one that does not parse are taken for all. *)
ParseLeniently(summary) ==
  LET before == {i \in DOMAIN summary.parts : \A j \in 1..i : summary.parts[j].value # TheCut}
  IN  [ok |-> TRUE, parts |-> [i \in before |-> summary.parts[i]]]

(***************************************************************************)
(* _parse_exact_summary.  A cut part is no JSON; a summary that ends in    *)
(* the truncation mark is not looked at.                                   *)
(***************************************************************************)
ParseExactSummary(summary) ==
  LET parts  == summary.parts
      before == {i \in DOMAIN parts : \A j \in 1..i : parts[j].value # TheCut}
      marked == summary.cut \/ parts[Len(parts)].value = TheCut
  IN  IF marked
      THEN [ok |-> FALSE, parts |-> <<>>]
      ELSE [ok |-> before = DOMAIN parts, parts |-> [i \in before |-> parts[i]]]

(* _classify_summary *)
ClassifySummary(summary) ==
  IF summary = Malformed THEN Report("unknown", {})
  ELSE IF summary.parts = <<>> THEN Report("no_arguments", {})
  ELSE LET parsed  == ParseExactSummary(summary)
           records == [i \in DOMAIN parsed.parts |->
                         [name |-> parsed.parts[i].name, state |-> StateOf(parsed.parts[i].value)]]
       IN  IF ~parsed.ok
           THEN Report("unknown", NamesOf(records))
           ELSE Verdict(records, NamesIn(records, {"retained", "unsupported"}))

(* _classify_event *)
ClassifyEvent(event) ==
  IF event.retention = Absent
  THEN ClassifySummary(event.summary)
  ELSE ClassifyRetention(event.retention)

(* inspect_verified_snapshot, of the classifications of its decision events *)
SafeForUpload(classes) ==
  {"partially_redacted", "unknown"} \cap classes = {}

=============================================================================
