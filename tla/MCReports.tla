----------------------------- MODULE MCReports -----------------------------
(***************************************************************************)
(* An instance of Reports for TLC: what two invocations may leave in a     *)
(* journal, with the values and links that no engine writes.               *)
(***************************************************************************)
EXTENDS Reports, TLC

CONSTANTS a, b, x, y, k1, k2

Decision(id, verdict, identity, retention, summary) ==
  [type |-> "decision", id |-> id, verdict |-> verdict, identity |-> identity,
   retention |-> retention, summary |-> summary]

Outcome(id, ref, status, identity) ==
  [type |-> "outcome", id |-> id, ref |-> ref, verdict |-> status, identity |-> identity]

State(name, state) == [name |-> name, state |-> state]

Summary(parts, cut) == [parts |-> parts, cut |-> cut]

Part(value) == [name |-> "n", value |-> value]

MCSayings ==
  {Decision(a, "allowed", 1, <<State("n", "redacted")>>, Malformed),
   Decision(a, "denied", 1, <<>>, Malformed),
   Decision(a, "maybe", 1, Absent, Summary(<<Part(Redacted)>>, FALSE)),
   Decision(b, "allowed", 2, Absent, Summary(<<Part(Redacted)>>, TRUE)),
   Decision(b, "denied", 2, <<State("n", "odd")>>, Malformed),
   Decision(b, "denied", 2, <<State("n", "redacted"), State("n", "redacted")>>, Malformed),
   Decision(b, "denied", 2, <<State("m", "redacted"), State("n", Unhashable)>>, Malformed),
   Decision(b, "denied", 2, <<State("n", "redacted"), State("m", "retained")>>, Malformed),
   Outcome(x, a, "succeeded", 1),
   Outcome(x, a, "succeeded", 2),
   Outcome(x, a, "odd", 1),
   Outcome(y, a, "succeeded", 1),
   Outcome(y, a, "failed", 1),
   Outcome(a, a, "succeeded", 1)}

KeySymmetry == Permutations({k1, k2})

=============================================================================
