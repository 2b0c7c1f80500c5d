---------------------------- MODULE GuardedCalls ----------------------------
(***************************************************************************)
(* What engine.py promises about guarded calls, independently of the steps *)
(* it takes, of the observer and of how the journal fails: a call gets one *)
(* decision, which is durable before anything follows from it; the         *)
(* function starts at most once, after a durable "allowed"; how it ended   *)
(* is made durable before the caller gets its value or its exception; and  *)
(* an answer, once given, is final.                                        *)
(*                                                                         *)
(* GuardEngine implements this specification under every fault.            *)
(***************************************************************************)
CONSTANTS
  Calls,
  Refusals,   \* errors from before the function
  NoAnswer

VARIABLES
  evidence,   \* <<event, kind>> of every event that is durably on record
  phase,      \* "waiting", "running", or how the function ended
  answer      \* what the caller of each call got

vars == <<evidence, phase, answer>>

Init ==
  /\ evidence = {}
  /\ phase = [c \in Calls |-> "waiting"]
  /\ answer = [c \in Calls |-> NoAnswer]

Attest(c, event, kind) == evidence' = evidence \cup {<<<<c, event>>, kind>>}

Answer(c, a) ==
  /\ answer[c] = NoAnswer
  /\ answer' = [answer EXCEPT ![c] = a]

Undecided(c) ==
  /\ phase[c] = "waiting"
  /\ answer[c] = NoAnswer
  /\ \A kind \in {"allowed", "denied"} : <<<<c, "decision">>, kind>> \notin evidence

Allow(c) ==
  /\ Undecided(c)
  /\ Attest(c, "decision", "allowed")
  /\ UNCHANGED <<phase, answer>>

Deny(c) ==
  /\ Undecided(c)
  /\ Attest(c, "decision", "denied")
  /\ Answer(c, "denied")
  /\ UNCHANGED phase

Refuse(c) ==
  /\ Undecided(c)
  /\ \E a \in Refusals : Answer(c, a)
  /\ UNCHANGED <<evidence, phase>>

Start(c) ==
  /\ phase[c] = "waiting"
  /\ answer[c] = NoAnswer
  /\ <<<<c, "decision">>, "allowed">> \in evidence
  /\ phase' = [phase EXCEPT ![c] = "running"]
  /\ UNCHANGED <<evidence, answer>>

Finish(c) ==
  /\ phase[c] = "running"
  /\ \E end \in {"succeeded", "failed"} : phase' = [phase EXCEPT ![c] = end]
  /\ UNCHANGED <<evidence, answer>>

Unwind(c) ==
  /\ phase[c] = "running"
  /\ phase' = [phase EXCEPT ![c] = "interrupted"]
  /\ Answer(c, "interrupt")
  /\ UNCHANGED evidence

Conclude(c) ==
  /\ \/ phase[c] = "succeeded" /\ Attest(c, "outcome", "succeeded") /\ Answer(c, "value")
     \/ phase[c] = "failed" /\ Attest(c, "outcome", "failed") /\ Answer(c, "exception")
  /\ UNCHANGED phase

(* The function ran and its outcome could not be made durable. *)
Incomplete(c) ==
  /\ phase[c] \in {"succeeded", "failed"}
  /\ \E a \in {"incomplete", "encode_error"} : Answer(c, a)
  /\ UNCHANGED <<evidence, phase>>

(* KeyboardInterrupt outside the function *)
Interrupt(c) ==
  /\ phase[c] # "running"
  /\ Answer(c, "interrupt")
  /\ UNCHANGED <<evidence, phase>>

Next ==
  \E c \in Calls :
    \/ Allow(c) \/ Deny(c) \/ Refuse(c)
    \/ Start(c) \/ Finish(c) \/ Unwind(c)
    \/ Conclude(c) \/ Incomplete(c) \/ Interrupt(c)

Spec == Init /\ [][Next]_vars

=============================================================================
