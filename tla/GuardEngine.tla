---------------------------- MODULE GuardEngine ----------------------------
(***************************************************************************)
(* src/guardrail_evidence/engine.py: the life of guarded calls that run    *)
(* concurrently in one process and share its observer tracker              *)
(* (observer.py) and one journal.                                          *)
(*                                                                         *)
(* A call binds its arguments, tells its observer about the contract,      *)
(* canonicalizes and hashes the arguments and loads the identity, asks for *)
(* approval, appends its decision, runs the function, and appends the      *)
(* outcome.  The journal is what EvidenceLog promises of FileJournal: an   *)
(* append puts the event into the log, returns, or raises before or after  *)
(* the event got there.                                                    *)
(***************************************************************************)
EXTENDS Audit

CONSTANTS
  Calls,       \* guarded calls
  Observers,
  Contracts,   \* contract hashes
  ObserverOf,  \* the observer configured for each call, or None
  Ids,         \* what id() returns
  IdOf,        \* the id of each observer while it lives
  ContractOf,
  AutoAllowed, \* the calls whose approval_mode is "never"
  Faults,      \* the faults that may happen, among AllFaults
  None

AllFaults ==
  {"append",     \* an append raises with nothing written
   "stored",     \* an append raises although the event is in the file
   "torn",       \* an append leaves half a line, which no later one extends
   "encode",     \* the result or the exception cannot be put into text
   "interrupt",  \* KeyboardInterrupt outside the guarded function
   "crash",      \* the process dies
   "power"}      \* the machine dies

ASSUME EngineAssumption ==
  /\ ObserverOf \in [Calls -> Observers \cup {None}]
  /\ IdOf \in [Observers \cup {None} -> Ids]
  /\ ContractOf \in [Calls -> Contracts]
  /\ AutoAllowed \subseteq Calls
  /\ Faults \subseteq AllFaults
  /\ None \notin Observers
  /\ None \notin Calls \X {"decision", "outcome"}

VARIABLES
  log,      \* the journal
  acked,    \* the events its append_event has returned
  torn,     \* the journal ends in half a line
  told,     \* _OnceTracker._done of the running process: ids and contracts
  heard,    \* history: observers and contracts contract_declared returned for
  pc,       \* where each call is in execute_sync / execute_async
  verdict,  \* the approval decision of each call
  runs,     \* how often each call has started its function
  body,     \* how the function of each call ended
  result    \* what each call gave its caller

journalVars == <<log, acked, torn>>
observerVars == <<told, heard>>
vars == <<log, acked, torn, told, heard, pc, verdict, runs, body, result>>

Decision(c) == <<c, "decision">>

Outcome(c) == <<c, "outcome">>

EventIds == Calls \X {"decision", "outcome"}

Journal == INSTANCE EvidenceLog
             WITH Hashes <- EventIds, Kinds <- DecisionKinds \cup OutcomeKinds

PCs == {"idle", "notify", "declare", "mark", "prepare", "approve", "decide",
        "deciding", "run", "running", "record", "report", "reporting", "done"}

BeforeRun == {"idle", "notify", "declare", "mark", "prepare", "approve",
              "decide", "deciding", "run"}

(* Why a call ended before its function was started. *)
Refusals == {"type_error", "observer_error", "input_error", "identity_error",
             "approval_error", "journal_error", "denied"}

Results == Refusals \cup
  {"none",         \* the call is still running, or its process died
   "value",        \* the function's result
   "exception",    \* the function's exception
   "incomplete",   \* ExecutionCompletedEvidenceError
   "encode_error", \* whatever the conversion to text raised
   "interrupt"}    \* a BaseException that is not an Exception

TypeOK ==
  /\ Journal!TypeOK
  /\ torn \in BOOLEAN
  /\ told \subseteq Ids \X Contracts
  /\ heard \subseteq (Observers \cup {None}) \X Contracts
  /\ pc \in [Calls -> PCs]
  /\ verdict \in [Calls -> {"none"} \cup DecisionKinds]
  /\ runs \in [Calls -> Nat]
  /\ body \in [Calls -> {"none", "interrupted"} \cup OutcomeKinds]
  /\ result \in [Calls -> Results]

Init ==
  /\ Journal!Init
  /\ torn = FALSE
  /\ told = {}
  /\ heard = {}
  /\ pc = [c \in Calls |-> "idle"]
  /\ verdict = [c \in Calls |-> "none"]
  /\ runs = [c \in Calls |-> 0]
  /\ body = [c \in Calls |-> "none"]
  /\ result = [c \in Calls |-> "none"]

Goto(c, from, to) ==
  /\ pc[c] = from
  /\ pc' = [pc EXCEPT ![c] = to]

(* The call ends; its caller gets r. *)
End(c, from, r) ==
  /\ Goto(c, from, "done")
  /\ result' = [result EXCEPT ![c] = r]

-----------------------------------------------------------------------------
(* Before the function. *)

(* An id names one living object.  An observer lives as long as calls that *)
(* use it are still to end, so another one with its id is there only before *)
(* the first of them or after the last.                                     *)
IdIsFree(c) ==
  \A o \in Observers \ {ObserverOf[c]} :
    IdOf[o] = IdOf[ObserverOf[c]] =>
      LET users == {d \in Calls : ObserverOf[d] = o}
      IN  (\A d \in users : pc[d] = "idle") \/ (\A d \in users : pc[d] = "done")

(* signature.bind; a malformed call ends here. *)
Bind(c) ==
  /\ IdIsFree(c)
  /\ \/ Goto(c, "idle", "notify") /\ UNCHANGED result
     \/ End(c, "idle", "type_error")
  /\ UNCHANGED <<journalVars, observerVars, verdict, runs, body>>

Pair(c) == <<ObserverOf[c], ContractOf[c]>>

(* What the tracker knows of the pair: (id(observer), contract_hash). *)
TrackedPair(c) == <<IdOf[ObserverOf[c]], ContractOf[c]>>

(* Mutant: the pair is marked before the observer is called. *)
CheckAndMark(c) ==
  /\ Goto(c, "notify", IF ObserverOf[c] = None \/ TrackedPair(c) \in told
                       THEN "prepare" ELSE "declare")
  /\ told' = IF ObserverOf[c] = None THEN told ELSE told \cup {TrackedPair(c)}
  /\ UNCHANGED <<journalVars, heard, verdict, runs, body, result>>

(* notify_once, as far as the is_done check *)
CheckNotified(c) ==
  /\ Goto(c, "notify", IF ObserverOf[c] = None \/ TrackedPair(c) \in told
                       THEN "prepare" ELSE "declare")
  /\ UNCHANGED <<journalVars, observerVars, verdict, runs, body, result>>

(* observer.contract_declared *)
Declare(c) ==
  /\ Goto(c, "declare", "mark")
  /\ heard' = heard \cup {Pair(c)}
  /\ UNCHANGED <<journalVars, told, verdict, runs, body, result>>

DeclareFails(c) ==
  /\ End(c, "declare", "observer_error")
  /\ UNCHANGED <<journalVars, observerVars, verdict, runs, body>>

(* _TRACKER.mark_done *)
MarkNotified(c) ==
  /\ Goto(c, "mark", "prepare")
  /\ told' = told \cup {TrackedPair(c)}
  /\ UNCHANGED <<journalVars, heard, verdict, runs, body, result>>

(* canonicalize, canonical_json_bytes, bounded_summary, load_or_create *)
Prepare(c) ==
  /\ \/ Goto(c, "prepare", "approve") /\ UNCHANGED result
     \/ End(c, "prepare", "input_error")
     \/ End(c, "prepare", "identity_error")
  /\ UNCHANGED <<journalVars, observerVars, verdict, runs, body>>

(* Mutant: the provider's decision is not validated. *)
ApproveUnchecked(c) ==
  /\ Goto(c, "approve", "decide")
  /\ \E v \in DecisionKinds \cup {"maybe"} : verdict' = [verdict EXCEPT ![c] = v]
  /\ UNCHANGED <<journalVars, observerVars, runs, body, result>>

(* What AutoAllowProvider, or a terminal or other provider, decides. *)
ProviderDecisions(c) == IF c \in AutoAllowed THEN {"allowed"} ELSE DecisionKinds

(* _evaluate_approval; an unknown decision or a failing provider ends the call. *)
Approve(c) ==
  /\ Goto(c, "approve", "decide")
  /\ \E v \in ProviderDecisions(c) : verdict' = [verdict EXCEPT ![c] = v]
  /\ UNCHANGED <<journalVars, observerVars, runs, body, result>>

ApprovalFails(c) ==
  /\ c \notin AutoAllowed
  /\ End(c, "approve", "approval_error")
  /\ UNCHANGED <<journalVars, observerVars, verdict, runs, body>>

-----------------------------------------------------------------------------
(* The journal, from the caller's side: store.append_event(build). *)

AppendEvent(id, kind) ==
  /\ ~torn
  /\ Journal!Extend(id, kind)
  /\ UNCHANGED torn

(* Mutant: a torn tail is waited for instead of refused. *)
AppendWaits ==
  /\ ~torn
  /\ torn' \in (IF "append" \in Faults THEN {FALSE} ELSE {})
                 \cup (IF "torn" \in Faults THEN {TRUE} ELSE {})
  /\ UNCHANGED <<log, acked>>

(* It raises and the event is not in the log. *)
AppendRaises ==
  /\ torn' \in (IF torn \/ "append" \in Faults THEN {torn} ELSE {})
                 \cup (IF "torn" \in Faults THEN {TRUE} ELSE {})
  /\ UNCHANGED <<log, acked>>

AppendReturns(id) ==
  /\ \E i \in DOMAIN log : log[i].hash = id /\ Journal!Acknowledge(i)
  /\ UNCHANGED torn

(* _append_event of the decision *)
AppendDecision(c) ==
  /\ Goto(c, "decide", "deciding")
  /\ AppendEvent(Decision(c), verdict[c])
  /\ UNCHANGED <<observerVars, verdict, runs, body, result>>

(* Mutant: fail open, the function runs without its decision on record. *)
DecisionErrorIgnored(c) ==
  /\ \/ Goto(c, "decide", "run") /\ AppendRaises
     \/ /\ "stored" \in Faults
        /\ Goto(c, "deciding", "run")
        /\ UNCHANGED journalVars
  /\ UNCHANGED <<observerVars, verdict, runs, body, result>>

DecisionRaises(c) ==
  /\ \/ End(c, "decide", "journal_error") /\ AppendRaises
     \/ /\ "stored" \in Faults
        /\ End(c, "deciding", "journal_error")
        /\ UNCHANGED journalVars
  /\ UNCHANGED <<observerVars, verdict, runs, body>>

(* Mutant: a denied call goes on. *)
DenialIgnored(c) ==
  /\ AppendReturns(Decision(c))
  /\ Goto(c, "deciding", "run")
  /\ UNCHANGED <<observerVars, verdict, runs, body, result>>

DecisionReturns(c) ==
  /\ AppendReturns(Decision(c))
  /\ IF verdict[c] = "allowed"
       THEN Goto(c, "deciding", "run") /\ UNCHANGED result
       ELSE End(c, "deciding", "denied")
  /\ UNCHANGED <<observerVars, verdict, runs, body>>

-----------------------------------------------------------------------------
(* The function, and its outcome. *)

Run(c) ==
  /\ Goto(c, "run", "running")
  /\ runs' = [runs EXCEPT ![c] = @ + 1]
  /\ UNCHANGED <<journalVars, observerVars, verdict, body, result>>

(* Mutant: a function that raised is run again. *)
FunctionEndsOrIsRetried(c) ==
  /\ \/ Goto(c, "running", "record") /\ \E b \in OutcomeKinds : body' = [body EXCEPT ![c] = b]
     \/ runs[c] < 2 /\ Goto(c, "running", "run") /\ UNCHANGED body
  /\ UNCHANGED <<journalVars, observerVars, verdict, runs, result>>

(* It returns, or raises an Exception. *)
FunctionEnds(c) ==
  /\ Goto(c, "running", "record")
  /\ \E b \in OutcomeKinds : body' = [body EXCEPT ![c] = b]
  /\ UNCHANGED <<journalVars, observerVars, verdict, runs, result>>

(* KeyboardInterrupt, SystemExit or CancelledError out of the function *)
FunctionInterrupted(c) ==
  /\ End(c, "running", "interrupt")
  /\ body' = [body EXCEPT ![c] = "interrupted"]
  /\ UNCHANGED <<journalVars, observerVars, verdict, runs>>

(* _record_outcome_or_raise up to the append: _safe_output_hash, scrub_text *)
Record(c) ==
  /\ Goto(c, "record", "report")
  /\ UNCHANGED <<journalVars, observerVars, verdict, runs, body, result>>

RecordRaises(c) ==
  /\ "encode" \in Faults
  /\ End(c, "record", "encode_error")
  /\ UNCHANGED <<journalVars, observerVars, verdict, runs, body>>

(* Mutant: every outcome is recorded as a success. *)
AppendSuccess(c) ==
  /\ Goto(c, "report", "reporting")
  /\ AppendEvent(Outcome(c), "succeeded")
  /\ UNCHANGED <<observerVars, verdict, runs, body, result>>

(* _append_event of the outcome *)
AppendOutcome(c) ==
  /\ Goto(c, "report", "reporting")
  /\ AppendEvent(Outcome(c), body[c])
  /\ UNCHANGED <<observerVars, verdict, runs, body, result>>

(* Mutant: the failure of the evidence is swallowed. *)
OutcomeErrorIgnored(c) ==
  /\ \/ End(c, "report", "value") /\ AppendRaises
     \/ /\ "stored" \in Faults
        /\ End(c, "reporting", "value")
        /\ UNCHANGED journalVars
  /\ UNCHANGED <<observerVars, verdict, runs, body>>

OutcomeRaises(c) ==
  /\ \/ End(c, "report", "incomplete") /\ AppendRaises
     \/ /\ "stored" \in Faults
        /\ End(c, "reporting", "incomplete")
        /\ UNCHANGED journalVars
  /\ UNCHANGED <<observerVars, verdict, runs, body>>

OutcomeReturns(c) ==
  /\ AppendReturns(Outcome(c))
  /\ End(c, "reporting", IF body[c] = "succeeded" THEN "value" ELSE "exception")
  /\ UNCHANGED <<observerVars, verdict, runs, body>>

-----------------------------------------------------------------------------
(* Faults of the environment. *)

(* A KeyboardInterrupt anywhere in the library's own code. *)
Interrupt(c) ==
  /\ "interrupt" \in Faults
  /\ \E from \in PCs \ {"idle", "running", "done"} : End(c, from, "interrupt")
  /\ UNCHANGED <<journalVars, observerVars, verdict, runs, body>>

(* The process dies with every call in it; its tracker is gone. *)
AllCallsDie ==
  /\ \E c \in Calls : pc[c] \notin {"idle", "done"}
  /\ pc' = [c \in Calls |-> IF pc[c] = "idle" THEN "idle" ELSE "done"]
  /\ told' = {}
  /\ heard' = {}
  /\ UNCHANGED <<verdict, runs, body, result>>

Crash ==
  /\ "crash" \in Faults
  /\ AllCallsDie
  /\ \/ UNCHANGED torn
     \/ /\ "torn" \in Faults
        /\ \E c \in Calls : pc[c] \in {"decide", "report"}
        /\ torn' = TRUE
  /\ UNCHANGED <<log, acked>>

PowerLoss ==
  /\ "power" \in Faults
  /\ AllCallsDie
  /\ \E n \in 0..Len(log) : Journal!LoseTail(n)
  /\ UNCHANGED torn

-----------------------------------------------------------------------------
Step(c) ==
  \/ CheckNotified(c)
  \/ Declare(c)
  \/ DeclareFails(c)
  \/ MarkNotified(c)
  \/ Prepare(c)
  \/ Approve(c)
  \/ ApprovalFails(c)
  \/ AppendDecision(c)
  \/ DecisionRaises(c)
  \/ DecisionReturns(c)
  \/ Run(c)
  \/ FunctionEnds(c)
  \/ FunctionInterrupted(c)
  \/ Record(c)
  \/ RecordRaises(c)
  \/ AppendOutcome(c)
  \/ OutcomeRaises(c)
  \/ OutcomeReturns(c)

Terminating ==
  /\ \A c \in Calls : pc[c] = "done"
  /\ UNCHANGED vars

Next ==
  \/ \E c \in Calls : Bind(c)
  \/ \E c \in Calls : Step(c)
  \/ \E c \in Calls : Interrupt(c)
  \/ Crash
  \/ PowerLoss
  \/ Terminating

Spec == Init /\ [][Next]_vars

(***************************************************************************)
(* A call that can take a step takes it: the observer, the approval        *)
(* provider and the function return or raise, and the thread is scheduled. *)
(***************************************************************************)
FairSpec == Spec /\ \A c \in Calls : WF_vars(Step(c))

-----------------------------------------------------------------------------
(* The journal as audit.py reads it: an outcome names the decision event of *)
(* its own call and carries the contract of that call.                      *)
Audited ==
  [i \in DOMAIN log |->
     [type     |-> IF log[i].kind \in DecisionKinds THEN "decision" ELSE "outcome",
      id       |-> log[i].hash,
      ref      |-> Decision(log[i].hash[1]),
      verdict  |-> log[i].kind,
      identity |-> ContractOf[log[i].hash[1]]]]

(* append_event has returned the event with this id and kind. *)
Durable(id, kind) == \E e \in acked : e.hash = id /\ e.kind = kind

(***************************************************************************)
(* Fail closed: no function has started without its "allowed" decision     *)
(* durably in the journal, whatever failed, crashed or lost power.         *)
(***************************************************************************)
DecisionPrecedesRun ==
  \A c \in Calls : runs[c] > 0 => Durable(Decision(c), "allowed")

(***************************************************************************)
(* What the caller got tells what is on record: a value or the function's  *)
(* exception means a durable outcome, ActionDenied a durable denial,       *)
(* ExecutionCompletedEvidenceError exactly one run, and every error from   *)
(* before the function that there was no run.                              *)
(***************************************************************************)
CallerKnowsTheRecord ==
  \A c \in Calls :
    /\ result[c] = "value" => Durable(Outcome(c), "succeeded")
    /\ result[c] = "exception" => Durable(Outcome(c), "failed")
    /\ result[c] = "denied" => Durable(Decision(c), "denied")
    /\ result[c] = "incomplete" => runs[c] = 1 /\ body[c] \in OutcomeKinds
    /\ result[c] \in Refusals => runs[c] = 0

(***************************************************************************)
(* The audit of the journal at any moment, including what a crash left,    *)
(* is true: "succeeded" and "failed" are how the function ended, "denied"  *)
(* means it never started, and every function that started is listed, with *)
(* its end or for reconciliation.                                          *)
(***************************************************************************)
AuditTellsTheTruth ==
  /\ \A d \in Decisions(Audited) :
       LET c == log[d].hash[1]
           s == InvocationStatus(Audited, d)
       IN  /\ s \in OutcomeKinds => runs[c] = 1 /\ body[c] = s
           /\ s = "denied" => runs[c] = 0
  /\ \A c \in Calls : runs[c] > 0 =>
       \E d \in Decisions(Audited) :
         /\ log[d].hash = Decision(c)
         /\ InvocationStatus(Audited, d) \in {body[c], "needs_reconciliation"}

(***************************************************************************)
(* No order of calls, faults and crashes makes the engine write a journal  *)
(* that the audit finds structurally invalid.                              *)
(***************************************************************************)
AuditFindsNoIssue == AuditIssues(Audited) = {}

(***************************************************************************)
(* A function starts only after its observer, in this process, has         *)
(* accepted its contract, even when several calls race for the first       *)
(* notification, one of them fails, and the process is restarted.          *)
(***************************************************************************)
ObserverHeardFirst ==
  [][\A c \in Calls : runs'[c] # runs[c] /\ ObserverOf[c] # None
       => Pair(c) \in heard]_vars

(***************************************************************************)
(* Every guarded call returns or raises.                                   *)
(***************************************************************************)
EveryCallEnds == \A c \in Calls : pc[c] = "notify" ~> pc[c] = "done"

(***************************************************************************)
(* engine.py, _safe_output_hash and the module docstring: a failure of the *)
(* evidence after the function ran reaches the caller as                   *)
(* ExecutionCompletedEvidenceError and as nothing else.                    *)
(***************************************************************************)
EvidenceFailureIsReported ==
  \A c \in Calls :
    pc[c] = "done" /\ body[c] \in OutcomeKinds
      => result[c] \in {"value", "exception", "incomplete"}

(***************************************************************************)
(* observer.py, _OnceTracker: "two observers each get their own            *)
(* notification": a call that has passed the notification has an observer  *)
(* that was told, not one whose id belonged to an observer that was.       *)
(***************************************************************************)
EachObserverIsTold ==
  \A c \in Calls :
    pc[c] \in {"approve", "decide", "deciding", "run", "running"} /\ ObserverOf[c] # None
      => Pair(c) \in heard

-----------------------------------------------------------------------------
(***************************************************************************)
(* The engine implements GuardedCalls: what is on record is what           *)
(* append_event has returned, and a call is as far as its function is.     *)
(***************************************************************************)
Phase(c) ==
  IF runs[c] = 0 THEN "waiting" ELSE IF body[c] = "none" THEN "running" ELSE body[c]

Promise == INSTANCE GuardedCalls
             WITH Refusals <- Refusals \ {"denied"}, NoAnswer <- "none",
                  evidence <- {<<e.hash, e.kind>> : e \in acked},
                  phase    <- [c \in Calls |-> Phase(c)],
                  answer   <- result

(***************************************************************************)
(* Every step of the engine, and every fault, is a step that GuardedCalls  *)
(* allows or changes nothing it speaks of: no call is decided twice, no    *)
(* function starts twice or on a decision that may still disappear, and no *)
(* caller is answered before the evidence for the answer is durable.       *)
(***************************************************************************)
ImplementsGuardedCalls == Promise!Spec

=============================================================================
