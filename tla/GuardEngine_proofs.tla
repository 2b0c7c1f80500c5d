------------------------- MODULE GuardEngine_proofs -------------------------
(***************************************************************************)
(* Proofs about GuardEngine for any set of calls, observers and contracts  *)
(* and any set of faults.                                                  *)
(***************************************************************************)
EXTENDS GuardEngine, FiniteSetTheorems, TLAPS

-----------------------------------------------------------------------------
(***************************************************************************)
(* The inductive invariants behind the theorems.  EngineInv: what the      *)
(* position of a call says about its run, its approval and its events.     *)
(***************************************************************************)
RunMatchesPhase(c) ==
  /\ pc[c] # "done" => result[c] = "none"
  /\ pc[c] \in BeforeRun => runs[c] = 0
  /\ runs[c] \in {0, 1}
  /\ pc[c] \in {"running", "record", "report", "reporting"} => runs[c] = 1
  /\ pc[c] \in {"record", "report", "reporting"} => body[c] \in OutcomeKinds
  /\ pc[c] \in {"decide", "deciding"} => verdict[c] \in DecisionKinds

Authorized(c) ==
  pc[c] = "run" \/ runs[c] > 0 => Durable(Decision(c), "allowed")

ResultMatches(c) ==
  /\ result[c] = "value" => Durable(Outcome(c), "succeeded")
  /\ result[c] = "exception" => Durable(Outcome(c), "failed")
  /\ result[c] = "denied" => Durable(Decision(c), "denied")
  /\ result[c] = "incomplete" => runs[c] = 1 /\ body[c] \in OutcomeKinds
  /\ result[c] \in Refusals => runs[c] = 0

EventsMatch(c) ==
  \A i \in DOMAIN log :
    /\ log[i].hash = Decision(c) =>
         /\ log[i].kind = verdict[c]
         /\ pc[c] \notin {"idle", "notify", "declare", "mark", "prepare",
                          "approve", "decide"}
    /\ log[i].hash = Outcome(c) =>
         /\ log[i].kind = body[c]
         /\ pc[c] \in {"reporting", "done"}

CallInv(c) ==
  /\ RunMatchesPhase(c)
  /\ Authorized(c)
  /\ ResultMatches(c)
  /\ EventsMatch(c)

EngineInv ==
  /\ TypeOK
  /\ \A c \in Calls : CallInv(c)

(***************************************************************************)
(* What holds of the observers when no two of them have the same id.       *)
(***************************************************************************)
IdsUnique == \A o, p \in Observers : IdOf[o] = IdOf[p] => o = p

ObserverHeard(c) ==
  /\ pc[c] \in {"declare", "mark"} => ObserverOf[c] # None
  /\ pc[c] = "mark" => Pair(c) \in heard
  /\ pc[c] \in {"prepare", "approve", "decide", "deciding", "run"}
       => ObserverOf[c] = None \/ Pair(c) \in heard

ObserverInv ==
  /\ \A o \in Observers, k \in Contracts : <<IdOf[o], k>> \in told => <<o, k>> \in heard
  /\ \A c \in Calls : ObserverHeard(c)

(***************************************************************************)
(* What holds of the log: no event is in it twice, none that was returned  *)
(* is missing, and an outcome is of a function that ran and comes after    *)
(* the decision that allowed it.                                           *)
(***************************************************************************)
EventsAreUnique ==
  \A i, j \in DOMAIN log : log[i].hash = log[j].hash => i = j

ReturnedAreLogged == \A e \in acked : \E i \in DOMAIN log : log[i] = e

OutcomeFollows(c) ==
  \A i \in DOMAIN log : log[i].hash = Outcome(c) =>
    /\ runs[c] = 1
    /\ \E d \in 1..(i - 1) : log[d].hash = Decision(c) /\ log[d].kind = "allowed"

LogInv ==
  /\ EventsAreUnique
  /\ ReturnedAreLogged
  /\ \A c \in Calls : OutcomeFollows(c)

-----------------------------------------------------------------------------
(***************************************************************************)
(* The variables keep their types.                                         *)
(***************************************************************************)
LEMMA InitTypeOK == Init => TypeOK
<1> SUFFICES ASSUME Init PROVE TypeOK
  OBVIOUS
<1>1. Journal!TypeOK
  BY DEF Init, Journal!Init, Journal!TypeOK
<1>2. /\ pc \in [Calls -> PCs]
      /\ verdict \in [Calls -> {"none"} \cup DecisionKinds]
      /\ runs \in [Calls -> Nat]
      /\ body \in [Calls -> {"none", "interrupted"} \cup OutcomeKinds]
      /\ result \in [Calls -> Results]
  BY DEF Init, PCs, Results
<1>3. torn \in BOOLEAN /\ told = {} /\ heard = {}
  BY DEF Init
<1> QED
  BY <1>1, <1>2, <1>3 DEF TypeOK

(* What the journal operations do to the log, in terms of types. *)
LEMMA ExtendType ==
  ASSUME Journal!TypeOK, NEW c \in Calls, NEW id \in {Decision(c), Outcome(c)},
         NEW k \in DecisionKinds \cup OutcomeKinds, Journal!Extend(id, k)
  PROVE  Journal!TypeOK'
<1> id \in EventIds
  BY DEF EventIds, Decision, Outcome
<1>1. Journal!HashOfLast \in EventIds \cup {None}
  <2>1. CASE log = <<>>
    BY <2>1 DEF Journal!HashOfLast
  <2>2. CASE log # <<>>
    <3>1. log[Len(log)] \in Journal!Event
      BY <2>2 DEF Journal!TypeOK
    <3> QED
      BY <2>2, <3>1 DEF Journal!HashOfLast, Journal!Last, Journal!Event
  <2> QED
    BY <2>1, <2>2
<1> DEFINE e == [hash |-> id, kind |-> k, prev |-> Journal!HashOfLast,
                 count |-> IF k = "checkpoint" THEN Len(log) ELSE 0]
<1>2. e \in Journal!Event
  BY <1>1 DEF Journal!Event, Journal!TypeOK
<1>3. log' = Append(log, e) /\ acked' = acked
  BY DEF Journal!Extend
<1> QED
  BY <1>2, <1>3 DEF Journal!TypeOK

LEMMA AcknowledgeType ==
  ASSUME Journal!TypeOK, NEW i \in DOMAIN log, Journal!Acknowledge(i)
  PROVE  Journal!TypeOK'
  BY DEF Journal!TypeOK, Journal!Acknowledge

LEMMA LoseTailType ==
  ASSUME Journal!TypeOK, NEW n \in 0..Len(log), Journal!LoseTail(n)
  PROVE  Journal!TypeOK'
<1>1. SubSeq(log, 1, n) \in Seq(Journal!Event)
  BY DEF Journal!TypeOK
<1> QED
  BY <1>1 DEF Journal!TypeOK, Journal!LoseTail

(* A step of the library that leaves the journal alone keeps its type. *)
LEMMA UnchangedType ==
  ASSUME Journal!TypeOK, UNCHANGED <<log, acked>>
  PROVE  Journal!TypeOK'
  BY DEF Journal!TypeOK

LEMMA PairType ==
  \A c \in Calls : /\ Pair(c) \in (Observers \cup {None}) \X Contracts
                   /\ TrackedPair(c) \in Ids \X Contracts
  BY EngineAssumption DEF Pair, TrackedPair

(***************************************************************************)
(* Every step keeps the types, given what EngineInv says of the verdict    *)
(* and the function's end when they are recorded.                          *)
(***************************************************************************)
LEMMA StepTypeOK ==
  ASSUME EngineInv, NEW c \in Calls, Step(c)
  PROVE  TypeOK'
<1> USE DEF TypeOK, PCs, Results, Refusals
<1> TypeOK /\ RunMatchesPhase(c)
  BY DEF EngineInv, CallInv
<1>1. CASE CheckNotified(c)
  BY <1>1, UnchangedType DEF CheckNotified, Goto, journalVars, observerVars
<1>2. CASE Declare(c)
  BY <1>2, UnchangedType, PairType DEF Declare, Goto, journalVars
<1>3. CASE DeclareFails(c)
  BY <1>3, UnchangedType DEF DeclareFails, Goto, End, journalVars, observerVars
<1>4. CASE MarkNotified(c)
  BY <1>4, UnchangedType, PairType DEF MarkNotified, Goto, journalVars
<1>5. CASE Prepare(c)
  BY <1>5, UnchangedType DEF Prepare, Goto, End, journalVars, observerVars
<1>6. CASE Approve(c)
  BY <1>6, UnchangedType DEF Approve, ProviderDecisions, Goto, journalVars, observerVars, DecisionKinds
<1>7. CASE ApprovalFails(c)
  BY <1>7, UnchangedType DEF ApprovalFails, Goto, End, journalVars, observerVars
<1>8. CASE AppendDecision(c)
  <2>1. verdict[c] \in DecisionKinds
    BY <1>8 DEF AppendDecision, Goto, RunMatchesPhase
  <2>2. Journal!TypeOK'
    BY <1>8, <2>1, ExtendType DEF AppendDecision, AppendEvent
  <2> QED
    BY <1>8, <2>2 DEF AppendDecision, AppendEvent, Goto, observerVars
<1>9. CASE DecisionRaises(c)
  BY <1>9, UnchangedType
     DEF DecisionRaises, AppendRaises, Goto, End, journalVars, observerVars
<1>10. CASE DecisionReturns(c)
  <2>1. Journal!TypeOK' /\ torn' = torn
    BY <1>10, AcknowledgeType DEF DecisionReturns, AppendReturns
  <2> QED
    BY <1>10, <2>1 DEF DecisionReturns, Goto, End, observerVars
<1>11. CASE Run(c)
  BY <1>11, UnchangedType DEF Run, Goto, journalVars, observerVars
<1>12. CASE FunctionEnds(c)
  BY <1>12, UnchangedType
     DEF FunctionEnds, Goto, journalVars, observerVars, OutcomeKinds
<1>13. CASE FunctionInterrupted(c)
  BY <1>13, UnchangedType
     DEF FunctionInterrupted, Goto, End, journalVars, observerVars
<1>14. CASE Record(c)
  BY <1>14, UnchangedType DEF Record, Goto, journalVars, observerVars
<1>15. CASE RecordRaises(c)
  BY <1>15, UnchangedType DEF RecordRaises, Goto, End, journalVars, observerVars
<1>16. CASE AppendOutcome(c)
  <2>1. body[c] \in OutcomeKinds
    BY <1>16 DEF AppendOutcome, Goto, RunMatchesPhase
  <2>2. Journal!TypeOK'
    BY <1>16, <2>1, ExtendType DEF AppendOutcome, AppendEvent
  <2> QED
    BY <1>16, <2>2 DEF AppendOutcome, AppendEvent, Goto, observerVars
<1>17. CASE OutcomeRaises(c)
  BY <1>17, UnchangedType
     DEF OutcomeRaises, AppendRaises, Goto, End, journalVars, observerVars
<1>18. CASE OutcomeReturns(c)
  <2>1. Journal!TypeOK' /\ torn' = torn
    BY <1>18, AcknowledgeType DEF OutcomeReturns, AppendReturns
  <2> QED
    BY <1>18, <2>1 DEF OutcomeReturns, Goto, End, observerVars
<1> QED
  BY <1>1, <1>2, <1>3, <1>4, <1>5, <1>6, <1>7, <1>8, <1>9, <1>10, <1>11, <1>12,
     <1>13, <1>14, <1>15, <1>16, <1>17, <1>18 DEF Step

(***************************************************************************)
(* Nothing about a call changes but, perhaps, the journal and the tracker. *)
(***************************************************************************)
SameCall(d) ==
  /\ pc'[d] = pc[d]
  /\ verdict'[d] = verdict[d]
  /\ runs'[d] = runs[d]
  /\ body'[d] = body[d]
  /\ result'[d] = result[d]

(* A call does not disturb the invariant of another one. *)
LEMMA OtherCallInv ==
  ASSUME NEW d \in Calls, CallInv(d), SameCall(d), EventsMatch(d)',
         acked \subseteq acked'
  PROVE  CallInv(d)'
<1>1. RunMatchesPhase(d)'
  BY DEF CallInv, RunMatchesPhase, SameCall
<1>2. \A id, kind : Durable(id, kind) => Durable(id, kind)'
  BY DEF Durable
<1>3. Authorized(d)' /\ ResultMatches(d)'
  BY <1>2 DEF CallInv, Authorized, ResultMatches, SameCall
<1> QED
  BY <1>1, <1>3 DEF CallInv

(* The events of a call stay as they are while the log and the call do. *)
LEMMA SameEvents ==
  ASSUME NEW d \in Calls, EventsMatch(d), log' = log,
         pc'[d] = pc[d], verdict'[d] = verdict[d], body'[d] = body[d]
  PROVE  EventsMatch(d)'
  BY DEF EventsMatch

(* An event of another call does not matter either. *)
LEMMA OtherEvents ==
  ASSUME TypeOK, NEW d \in Calls, EventsMatch(d), SameCall(d),
         NEW c \in Calls \ {d}, NEW id \in {Decision(c), Outcome(c)}, NEW k,
         Journal!Extend(id, k)
  PROVE  EventsMatch(d)'
<1>1. PICK e : log' = Append(log, e) /\ e.hash = id
  BY DEF Journal!Extend
<1>2. id # Decision(d) /\ id # Outcome(d)
  BY DEF Decision, Outcome
<1>3. log \in Seq(Journal!Event)
  BY DEF TypeOK, Journal!TypeOK
<1>4. ASSUME NEW i \in DOMAIN log'
      PROVE  (i \in DOMAIN log /\ log'[i] = log[i]) \/ log'[i].hash = id
  BY <1>1, <1>3
<1> QED
  BY <1>2, <1>4 DEF EventsMatch, SameCall

(* A step of call c keeps EngineInv if it keeps what concerns c. *)
LEMMA OneCall ==
  ASSUME EngineInv, NEW c \in Calls, TypeOK', CallInv(c)',
         acked \subseteq acked',
         \A d \in Calls \ {c} : SameCall(d) /\ EventsMatch(d)'
  PROVE  EngineInv'
  BY OtherCallInv DEF EngineInv

(***************************************************************************)
(* The steps of a call that leave the log and the returned events alone.   *)
(***************************************************************************)
LEMMA QuietStep ==
  ASSUME EngineInv, NEW c \in Calls, TypeOK', UNCHANGED <<log, acked>>,
         RunMatchesPhase(c)', Authorized(c)', ResultMatches(c)',
         \/ verdict'[c] = verdict[c]
         \/ pc[c] = "approve",
         \/ body'[c] = body[c]
         \/ pc[c] = "running",
         pc[c] = "idle" => pc'[c] \in {"notify", "done"},
         pc'[c] \in {"idle", "notify", "declare", "mark", "prepare", "approve",
                     "decide"}
           => pc[c] \in {"idle", "notify", "declare", "mark", "prepare", "approve"},
         pc[c] = "reporting" => pc'[c] = "done",
         pc[c] = "done" => pc'[c] = "done",
         \A d \in Calls \ {c} : SameCall(d)
  PROVE  EngineInv'
<1>1. \A d \in Calls : EventsMatch(d)
  BY DEF EngineInv, CallInv
<1>2. \A d \in Calls \ {c} : EventsMatch(d)'
  BY <1>1, SameEvents DEF SameCall
<1>3. EventsMatch(c)'
  BY <1>1 DEF EventsMatch
<1>4. CallInv(c)'
  BY <1>3 DEF CallInv
<1> QED
  BY <1>2, <1>4, OneCall

LEMMA StepInv ==
  ASSUME EngineInv, NEW c \in Calls, Step(c)
  PROVE  EngineInv'
<1> TypeOK /\ TypeOK' /\ CallInv(c)
  BY StepTypeOK DEF EngineInv
<1> USE DEF CallInv, RunMatchesPhase, Authorized, ResultMatches,
            Durable, SameCall, BeforeRun, Refusals
<1>1. CASE CheckNotified(c)
  BY <1>1, QuietStep
     DEF CheckNotified, Goto, TypeOK, journalVars, observerVars
<1>2. CASE Declare(c)
  BY <1>2, QuietStep DEF Declare, Goto, TypeOK, journalVars
<1>3. CASE DeclareFails(c)
  BY <1>3, QuietStep DEF DeclareFails, Goto, End, TypeOK, journalVars, observerVars
<1>4. CASE MarkNotified(c)
  BY <1>4, QuietStep DEF MarkNotified, Goto, TypeOK, journalVars
<1>5. CASE Prepare(c)
  BY <1>5, QuietStep
     DEF Prepare, Goto, End, TypeOK, journalVars, observerVars
<1>6. CASE Approve(c)
  BY <1>6, QuietStep
     DEF Approve, ProviderDecisions, Goto, TypeOK, journalVars, observerVars, DecisionKinds
<1>7. CASE ApprovalFails(c)
  BY <1>7, QuietStep DEF ApprovalFails, Goto, End, TypeOK, journalVars, observerVars
<1>8. CASE AppendDecision(c)
  <2>1. /\ pc[c] = "decide" /\ pc'[c] = "deciding"
        /\ Journal!Extend(Decision(c), verdict[c])
        /\ UNCHANGED <<acked, told, heard, verdict, runs, body, result>>
        /\ \A d \in Calls \ {c} : SameCall(d)
    BY <1>8 DEF AppendDecision, AppendEvent, Goto, TypeOK, observerVars,
                Journal!Extend
  <2>2. \A d \in Calls \ {c} : EventsMatch(d)'
    BY <2>1, OtherEvents DEF EngineInv
  <2>3. PICK e : log' = Append(log, e) /\ e.hash = Decision(c) /\ e.kind = verdict[c]
    BY <2>1 DEF Journal!Extend
  <2>4. EventsMatch(c)'
    <3>1. \A i \in DOMAIN log' : (i \in DOMAIN log /\ log'[i] = log[i]) \/ log'[i] = e
      BY <2>3 DEF TypeOK, Journal!TypeOK
    <3>2. e.hash # Outcome(c)
      BY <2>3 DEF Decision, Outcome
    <3> QED
      BY <2>1, <2>3, <3>1, <3>2 DEF EventsMatch
  <2>5. CallInv(c)'
    BY <2>1, <2>4
  <2> QED
    BY <2>1, <2>2, <2>5, OneCall
<1>9. CASE DecisionRaises(c)
  <2>1. /\ pc[c] \in {"decide", "deciding"} /\ pc'[c] = "done"
        /\ result'[c] = "journal_error"
        /\ UNCHANGED <<log, acked, told, heard, verdict, runs, body>>
        /\ \A d \in Calls \ {c} : SameCall(d)
    BY <1>9
       DEF DecisionRaises, AppendRaises, Goto, End, TypeOK, journalVars, observerVars
  <2> QED
    BY <2>1, QuietStep
<1>10. CASE DecisionReturns(c)
  <2>1. PICK i \in DOMAIN log : log[i].hash = Decision(c) /\ Journal!Acknowledge(i)
    BY <1>10 DEF DecisionReturns, AppendReturns
  <2>2. /\ log' = log /\ acked' = acked \cup {log[i]}
        /\ pc[c] = "deciding" /\ pc'[c] \in {"run", "done"}
        /\ verdict[c] = "allowed" => pc'[c] = "run" /\ result' = result
        /\ verdict[c] # "allowed" => pc'[c] = "done" /\ result'[c] = "denied"
        /\ UNCHANGED <<told, heard, verdict, runs, body>>
        /\ \A d \in Calls \ {c} : SameCall(d)
    BY <1>10, <2>1
       DEF DecisionReturns, Goto, End, TypeOK, observerVars, Journal!Acknowledge
  <2>3. log[i].kind = verdict[c] /\ verdict[c] \in DecisionKinds
    BY <2>1, <2>2 DEF EventsMatch
  <2>4. Durable(Decision(c), verdict[c])'
    BY <2>1, <2>2, <2>3
  <2>5. \A d \in Calls : EventsMatch(d)'
    BY <2>2, SameEvents DEF EngineInv, EventsMatch
  <2>6. CallInv(c)'
    BY <2>2, <2>3, <2>4, <2>5 DEF DecisionKinds
  <2> QED
    BY <2>2, <2>5, <2>6, OneCall
<1>11. CASE Run(c)
  BY <1>11, QuietStep DEF Run, Goto, TypeOK, journalVars, observerVars
<1>12. CASE FunctionEnds(c)
  BY <1>12, QuietStep
     DEF FunctionEnds, Goto, TypeOK, journalVars, observerVars
<1>13. CASE FunctionInterrupted(c)
  BY <1>13, QuietStep
     DEF FunctionInterrupted, Goto, End, TypeOK, journalVars, observerVars
<1>14. CASE Record(c)
  BY <1>14, QuietStep DEF Record, Goto, TypeOK, journalVars, observerVars
<1>15. CASE RecordRaises(c)
  BY <1>15, QuietStep DEF RecordRaises, Goto, End, TypeOK, journalVars, observerVars
<1>16. CASE AppendOutcome(c)
  <2>1. /\ pc[c] = "report" /\ pc'[c] = "reporting"
        /\ Journal!Extend(Outcome(c), body[c])
        /\ UNCHANGED <<acked, told, heard, verdict, runs, body, result>>
        /\ \A d \in Calls \ {c} : SameCall(d)
    BY <1>16 DEF AppendOutcome, AppendEvent, Goto, TypeOK, observerVars,
                 Journal!Extend
  <2>2. \A d \in Calls \ {c} : EventsMatch(d)'
    BY <2>1, OtherEvents DEF EngineInv
  <2>3. PICK e : log' = Append(log, e) /\ e.hash = Outcome(c) /\ e.kind = body[c]
    BY <2>1 DEF Journal!Extend
  <2>4. EventsMatch(c)'
    <3>1. \A i \in DOMAIN log' : (i \in DOMAIN log /\ log'[i] = log[i]) \/ log'[i] = e
      BY <2>3 DEF TypeOK, Journal!TypeOK
    <3>2. e.hash # Decision(c)
      BY <2>3 DEF Decision, Outcome
    <3> QED
      BY <2>1, <2>3, <3>1, <3>2 DEF EventsMatch
  <2>5. CallInv(c)'
    BY <2>1, <2>4
  <2> QED
    BY <2>1, <2>2, <2>5, OneCall
<1>17. CASE OutcomeRaises(c)
  <2>1. /\ pc[c] \in {"report", "reporting"} /\ pc'[c] = "done"
        /\ result'[c] = "incomplete"
        /\ UNCHANGED <<log, acked, told, heard, verdict, runs, body>>
        /\ \A d \in Calls \ {c} : SameCall(d)
    BY <1>17
       DEF OutcomeRaises, AppendRaises, Goto, End, TypeOK, journalVars, observerVars
  <2> QED
    BY <2>1, QuietStep
<1>18. CASE OutcomeReturns(c)
  <2>1. PICK i \in DOMAIN log : log[i].hash = Outcome(c) /\ Journal!Acknowledge(i)
    BY <1>18 DEF OutcomeReturns, AppendReturns
  <2>2. /\ log' = log /\ acked' = acked \cup {log[i]}
        /\ pc[c] = "reporting" /\ pc'[c] = "done"
        /\ result'[c] = IF body[c] = "succeeded" THEN "value" ELSE "exception"
        /\ UNCHANGED <<told, heard, verdict, runs, body>>
        /\ \A d \in Calls \ {c} : SameCall(d)
    BY <1>18, <2>1
       DEF OutcomeReturns, Goto, End, TypeOK, observerVars, Journal!Acknowledge
  <2>3. log[i].kind = body[c] /\ body[c] \in OutcomeKinds
    BY <2>1, <2>2 DEF EventsMatch
  <2>4. Durable(Outcome(c), body[c])'
    BY <2>1, <2>2, <2>3
  <2>5. \A d \in Calls : EventsMatch(d)'
    BY <2>2, SameEvents DEF EngineInv, EventsMatch
  <2>6. CallInv(c)'
    BY <2>2, <2>3, <2>4, <2>5 DEF OutcomeKinds
  <2> QED
    BY <2>2, <2>5, <2>6, OneCall
<1> QED
  BY <1>1, <1>2, <1>3, <1>4, <1>5, <1>6, <1>7, <1>8, <1>9, <1>10, <1>11, <1>12,
     <1>13, <1>14, <1>15, <1>16, <1>17, <1>18 DEF Step

(***************************************************************************)
(* The death of the process, with or without a lost tail of the log.       *)
(***************************************************************************)
LEMMA DeathInv ==
  ASSUME EngineInv, AllCallsDie, UNCHANGED acked, torn' \in BOOLEAN,
         \/ log' = log
         \/ \E n \in 0..Len(log) : log' = SubSeq(log, 1, n)
  PROVE  EngineInv'
<1>1. log' \in Seq(Journal!Event)
  <2>1. log \in Seq(Journal!Event)
    BY DEF EngineInv, TypeOK, Journal!TypeOK
  <2> QED
    BY <2>1
<1>2. TypeOK'
  BY <1>1 DEF EngineInv, TypeOK, Journal!TypeOK, AllCallsDie, PCs
<1>3. \A i \in DOMAIN log' : i \in DOMAIN log /\ log'[i] = log[i]
  BY DEF EngineInv, TypeOK, Journal!TypeOK
<1>4. ASSUME NEW c \in Calls PROVE CallInv(c)'
  <2>1. /\ pc'[c] = IF pc[c] = "idle" THEN "idle" ELSE "done"
        /\ UNCHANGED <<acked, verdict, runs, body, result>>
    BY DEF AllCallsDie
  <2>2. RunMatchesPhase(c)'
    BY <2>1 DEF EngineInv, CallInv, RunMatchesPhase, BeforeRun
  <2>3. Authorized(c)' /\ ResultMatches(c)'
    BY <2>1 DEF EngineInv, CallInv, Authorized, ResultMatches, Durable
  <2>4. EventsMatch(c)'
    BY <2>1, <1>3 DEF EngineInv, CallInv, EventsMatch
  <2> QED
    BY <2>2, <2>3, <2>4 DEF CallInv
<1> QED
  BY <1>2, <1>4 DEF EngineInv

LEMMA InitInv == Init => EngineInv
<1> SUFFICES ASSUME Init PROVE EngineInv
  OBVIOUS
<1>1. TypeOK
  BY InitTypeOK
<1>2. ASSUME NEW c \in Calls PROVE CallInv(c)
  BY DEF Init, Journal!Init, CallInv, RunMatchesPhase, Authorized, ResultMatches,
         EventsMatch, BeforeRun, Refusals
<1> QED
  BY <1>1, <1>2 DEF EngineInv

LEMMA NextInv == EngineInv /\ [Next]_vars => EngineInv'
<1> SUFFICES ASSUME EngineInv, [Next]_vars PROVE EngineInv'
  OBVIOUS
<1>1. ASSUME NEW c \in Calls, Bind(c) PROVE EngineInv'
  <2>1. TypeOK'
    BY <1>1, UnchangedType
       DEF EngineInv, TypeOK, Bind, Goto, End, journalVars, observerVars, PCs,
           Results, Refusals
  <2> QED
    BY <1>1, <2>1, QuietStep
       DEF Bind, Goto, End, TypeOK, journalVars, observerVars, SameCall,
           EngineInv, CallInv, RunMatchesPhase, Authorized, ResultMatches, Durable, BeforeRun, Refusals
<1>2. ASSUME NEW c \in Calls, Step(c) PROVE EngineInv'
  BY <1>2, StepInv
<1>3. ASSUME NEW c \in Calls, Interrupt(c) PROVE EngineInv'
  <2>1. TypeOK'
    BY <1>3, UnchangedType
       DEF EngineInv, TypeOK, Interrupt, Goto, End, journalVars, observerVars, PCs,
           Results
  <2> QED
    BY <1>3, <2>1, QuietStep
       DEF Interrupt, Goto, End, TypeOK, journalVars, observerVars, SameCall,
           EngineInv, CallInv, RunMatchesPhase, Authorized, ResultMatches, Durable, BeforeRun, Refusals, PCs
<1>4. ASSUME Crash PROVE EngineInv'
  BY <1>4, DeathInv DEF Crash, EngineInv, TypeOK
<1>5. ASSUME PowerLoss PROVE EngineInv'
  BY <1>5, DeathInv DEF PowerLoss, EngineInv, TypeOK, Journal!LoseTail
<1>6. ASSUME UNCHANGED vars PROVE EngineInv'
  <2>1. TypeOK'
    BY <1>6, UnchangedType DEF EngineInv, TypeOK, vars
  <2>2. \A d \in Calls : CallInv(d)'
    BY <1>6, OtherCallInv, SameEvents DEF vars, SameCall, EngineInv, CallInv
  <2> QED
    BY <2>1, <2>2 DEF EngineInv
<1> QED
  BY <1>1, <1>2, <1>3, <1>4, <1>5, <1>6 DEF Next, Terminating

(***************************************************************************)
(* EngineInv holds in every state of every execution.                      *)
(***************************************************************************)
THEOREM Invariance == Spec => []EngineInv
  BY InitInv, NextInv, PTL DEF Spec

(***************************************************************************)
(* The variables keep their types.                                         *)
(***************************************************************************)
THEOREM TypeCorrect == Spec => []TypeOK
<1>1. EngineInv => TypeOK
  BY DEF EngineInv
<1> QED
  BY <1>1, Invariance, PTL

(***************************************************************************)
(* Fail closed, for any number of calls and every fault: a function that   *)
(* has started has its "allowed" decision durably on record.               *)
(***************************************************************************)
THEOREM FailClosed == Spec => []DecisionPrecedesRun
<1>1. EngineInv => DecisionPrecedesRun
  BY DEF EngineInv, CallInv, Authorized, DecisionPrecedesRun
<1> QED
  BY <1>1, Invariance, PTL

(***************************************************************************)
(* What a call gives its caller agrees with what is durably on record.     *)
(***************************************************************************)
THEOREM CallerIsTold == Spec => []CallerKnowsTheRecord
<1>1. EngineInv => CallerKnowsTheRecord
  BY DEF EngineInv, CallInv, ResultMatches, CallerKnowsTheRecord
<1> QED
  BY <1>1, Invariance, PTL

(***************************************************************************)
(* The observers, when no two have the same id: what the tracker holds was *)
(* heard, and so a call past the notification has an observer that heard.  *)
(***************************************************************************)
AfterNotification == {"prepare", "approve", "decide", "deciding", "run"}

(* Other steps leave the tracker alone and bring no call past it. *)
LEMMA ObserverQuiet ==
  ASSUME ObserverInv, UNCHANGED observerVars,
         \A d \in Calls :
           /\ pc'[d] \in {"declare", "mark"} => pc'[d] = pc[d]
           /\ pc'[d] \in AfterNotification => pc[d] \in AfterNotification
  PROVE  ObserverInv'
  BY DEF ObserverInv, ObserverHeard, AfterNotification, observerVars, Pair

LEMMA ObserverStep ==
  ASSUME IdsUnique, TypeOK, ObserverInv, NEW c \in Calls, Step(c)
  PROVE  ObserverInv'
<1> pc \in [Calls -> PCs]
  BY DEF TypeOK
<1>1. CASE CheckNotified(c)
  <2>1. TrackedPair(c) \in told => ObserverOf[c] = None \/ Pair(c) \in heard
    BY EngineAssumption DEF ObserverInv, TrackedPair, Pair
  <2> QED
    BY <1>1, <2>1 DEF CheckNotified, Goto, observerVars, Pair, ObserverInv, ObserverHeard
<1>2. CASE Declare(c)
  BY <1>2 DEF Declare, Goto, Pair, ObserverInv, ObserverHeard
<1>3. CASE MarkNotified(c)
  <2>1. /\ told' = told \cup {TrackedPair(c)} /\ heard' = heard
        /\ Pair(c) \in heard /\ ObserverOf[c] \in Observers
    BY <1>3, EngineAssumption DEF MarkNotified, Goto, ObserverInv, ObserverHeard
  <2>2. ASSUME NEW o \in Observers, NEW k \in Contracts, <<IdOf[o], k>> \in told'
        PROVE  <<o, k>> \in heard'
    <3>1. CASE <<IdOf[o], k>> \in told
      BY <2>1, <3>1 DEF ObserverInv
    <3>2. CASE <<IdOf[o], k>> = TrackedPair(c)
      <4>1. IdOf[o] = IdOf[ObserverOf[c]] /\ k = ContractOf[c]
        BY <3>2 DEF TrackedPair
      <4> QED
        BY <2>1, <4>1 DEF IdsUnique, Pair
    <3> QED
      BY <2>1, <2>2, <3>1, <3>2
  <2> QED
    BY <1>3, <2>1, <2>2 DEF MarkNotified, Goto, Pair, ObserverInv, ObserverHeard
<1>4. CASE \/ DeclareFails(c) \/ Prepare(c) \/ Approve(c) \/ ApprovalFails(c)
           \/ AppendDecision(c) \/ DecisionRaises(c) \/ DecisionReturns(c)
  BY <1>4, ObserverQuiet
     DEF DeclareFails, Prepare, Approve, ApprovalFails, AppendDecision, DecisionRaises,
         DecisionReturns, Goto, End, AfterNotification
<1>5. CASE \/ Run(c) \/ FunctionEnds(c) \/ FunctionInterrupted(c) \/ Record(c)
           \/ RecordRaises(c) \/ AppendOutcome(c) \/ OutcomeRaises(c) \/ OutcomeReturns(c)
  BY <1>5, ObserverQuiet
     DEF Run, FunctionEnds, FunctionInterrupted, Record, RecordRaises, AppendOutcome,
         OutcomeRaises, OutcomeReturns, Goto, End, AfterNotification
<1> QED
  BY <1>1, <1>2, <1>3, <1>4, <1>5 DEF Step

LEMMA ObserverNext ==
  ASSUME IdsUnique, TypeOK, ObserverInv, [Next]_vars
  PROVE  ObserverInv'
<1> pc \in [Calls -> PCs]
  BY DEF TypeOK
<1>1. ASSUME NEW c \in Calls, Bind(c) PROVE ObserverInv'
  BY <1>1, ObserverQuiet DEF Bind, Goto, End, AfterNotification
<1>2. ASSUME NEW c \in Calls, Step(c) PROVE ObserverInv'
  BY <1>2, ObserverStep
<1>3. ASSUME NEW c \in Calls, Interrupt(c) PROVE ObserverInv'
  BY <1>3, ObserverQuiet DEF Interrupt, Goto, End, AfterNotification
<1>4. ASSUME AllCallsDie PROVE ObserverInv'
  BY <1>4 DEF AllCallsDie, ObserverInv, ObserverHeard
<1>5. ASSUME UNCHANGED vars PROVE ObserverInv'
  BY <1>5 DEF vars, observerVars, ObserverInv, ObserverHeard, Pair
<1> QED
  BY <1>1, <1>2, <1>3, <1>4, <1>5 DEF Next, Crash, PowerLoss, Terminating

(***************************************************************************)
(* When no two observers have the same id, no function starts before its   *)
(* observer has accepted its contract.                                     *)
(***************************************************************************)
THEOREM ObserverComesFirst ==
  ASSUME IdsUnique
  PROVE  Spec => ObserverHeardFirst
<1> DEFINE Heard == \A c \in Calls : runs'[c] # runs[c] /\ ObserverOf[c] # None
                      => Pair(c) \in heard
<1>1. Init => ObserverInv
  BY DEF Init, ObserverInv, ObserverHeard
<1>2. EngineInv /\ ObserverInv /\ [Next]_vars => ObserverInv'
  BY IdsUnique, ObserverNext DEF EngineInv
<1>3. EngineInv /\ ObserverInv /\ [Next]_vars => [Heard]_vars
  <2> SUFFICES ASSUME EngineInv, ObserverInv, Next, NEW c \in Calls, runs'[c] # runs[c],
                      ObserverOf[c] # None
               PROVE  Pair(c) \in heard
    BY DEF vars
  <2>1. PICK d \in Calls : Run(d)
    BY DEF Next, Bind, Step, Interrupt, Crash, PowerLoss, AllCallsDie, Terminating,
           vars, CheckNotified, Declare, DeclareFails, MarkNotified, Prepare,
           Approve, ApprovalFails, AppendDecision, DecisionRaises,
           DecisionReturns, FunctionEnds, FunctionInterrupted, Record,
           RecordRaises, AppendOutcome, OutcomeRaises, OutcomeReturns
  <2>2. c = d /\ pc[c] = "run"
    BY <2>1 DEF Run, Goto, EngineInv, TypeOK
  <2> QED
    BY <2>2 DEF ObserverInv, ObserverHeard
<1> QED
  BY <1>1, <1>2, <1>3, Invariance, PTL DEF Spec, ObserverHeardFirst

-----------------------------------------------------------------------------
(***************************************************************************)
(* What audit.py says of a journal that the guarded calls of one or more   *)
(* process lifetimes left, for any number of calls and every fault: it     *)
(* finds no issue, and what it reports is what happened.                   *)
(***************************************************************************)

(***************************************************************************)
(* LogInv.  A step either leaves the log, the returned events and the      *)
(* number of runs alone, or is one of those looked at one by one.          *)
(***************************************************************************)
LEMMA LogQuiet ==
  ASSUME LogInv, UNCHANGED <<log, acked, runs>>
  PROVE  LogInv'
  BY DEF LogInv, EventsAreUnique, ReturnedAreLogged, OutcomeFollows

(* One more event, which is no outcome or follows its decision. *)
LEMMA LogExtend ==
  ASSUME EngineInv, LogInv, NEW id, NEW k, Journal!Extend(id, k), runs' = runs,
         \A c \in Calls : id = Outcome(c) =>
           /\ runs[c] = 1
           /\ \E d \in DOMAIN log : log[d].hash = Decision(c) /\ log[d].kind = "allowed"
  PROVE  LogInv'
<1>1. log \in Seq(Journal!Event)
  BY DEF EngineInv, TypeOK, Journal!TypeOK
<1>2. PICK e : /\ log' = Append(log, e) /\ e.hash = id /\ acked' = acked
               /\ \A i \in DOMAIN log : log[i].hash # id
  BY DEF Journal!Extend
<1>3. /\ DOMAIN log' = 1..(Len(log) + 1) /\ DOMAIN log = 1..Len(log)
      /\ Len(log) \in Nat
      /\ log'[Len(log) + 1] = e
      /\ \A i \in 1..Len(log) : log'[i] = log[i]
  BY <1>1, <1>2
<1>4. EventsAreUnique'
  BY <1>2, <1>3 DEF LogInv, EventsAreUnique
<1>5. ReturnedAreLogged'
  BY <1>2, <1>3 DEF LogInv, ReturnedAreLogged
<1>6. ASSUME NEW c \in Calls, NEW i \in DOMAIN log', log'[i].hash = Outcome(c)
      PROVE  /\ runs[c] = 1
             /\ \E d \in 1..(i - 1) : log'[d].hash = Decision(c) /\ log'[d].kind = "allowed"
  <2>1. CASE i \in 1..Len(log)
    <3>1. /\ runs[c] = 1
          /\ \E d \in 1..(i - 1) : log[d].hash = Decision(c) /\ log[d].kind = "allowed"
      BY <1>3, <1>6, <2>1 DEF LogInv, OutcomeFollows
    <3> QED
      BY <1>3, <2>1, <3>1
  <2>2. CASE i = Len(log) + 1
    <3>1. /\ runs[c] = 1
          /\ \E d \in DOMAIN log : log[d].hash = Decision(c) /\ log[d].kind = "allowed"
      BY <1>2, <1>3, <1>6, <2>2
    <3> QED
      BY <1>3, <2>2, <3>1
  <2> QED
    BY <1>3, <2>1, <2>2
<1> QED
  BY <1>4, <1>5, <1>6 DEF LogInv, OutcomeFollows

LEMMA LogAcknowledge ==
  ASSUME LogInv, NEW i \in DOMAIN log, Journal!Acknowledge(i), runs' = runs
  PROVE  LogInv'
  BY DEF LogInv, Journal!Acknowledge, EventsAreUnique, ReturnedAreLogged, OutcomeFollows

LEMMA LogLoseTail ==
  ASSUME EngineInv, LogInv, NEW n \in 0..Len(log), Journal!LoseTail(n), runs' = runs
  PROVE  LogInv'
<1>1. log \in Seq(Journal!Event)
  BY DEF EngineInv, TypeOK, Journal!TypeOK
<1>2. /\ DOMAIN log' = 1..n /\ n \in Nat /\ 1..n \subseteq DOMAIN log
      /\ \A i \in 1..n : log'[i] = log[i]
      /\ acked' = acked
      /\ \A e \in acked : \E i \in 1..n : log[i] = e
  BY <1>1 DEF Journal!LoseTail
<1>3. EventsAreUnique' /\ ReturnedAreLogged'
  BY <1>2 DEF LogInv, EventsAreUnique, ReturnedAreLogged
<1>4. ASSUME NEW c \in Calls PROVE OutcomeFollows(c)'
  BY <1>2 DEF LogInv, OutcomeFollows
<1> QED
  BY <1>3, <1>4 DEF LogInv

(* A function that has started has its decision in the log. *)
LEMMA DecisionIsLogged ==
  ASSUME EngineInv, LogInv, NEW c \in Calls, runs[c] > 0
  PROVE  \E d \in DOMAIN log : log[d].hash = Decision(c) /\ log[d].kind = "allowed"
<1>1. PICK e \in acked : e.hash = Decision(c) /\ e.kind = "allowed"
  BY DEF EngineInv, CallInv, Authorized, Durable
<1> QED
  BY <1>1 DEF LogInv, ReturnedAreLogged

LEMMA LogStep ==
  ASSUME EngineInv, LogInv, NEW c \in Calls, Step(c)
  PROVE  LogInv'
<1>1. CASE AppendDecision(c)
  <2>1. \A d \in Calls : Decision(c) # Outcome(d)
    BY DEF Decision, Outcome
  <2> QED
    BY <1>1, <2>1, LogExtend DEF AppendDecision, AppendEvent
<1>2. CASE AppendOutcome(c)
  <2>1. runs[c] = 1
    BY <1>2 DEF AppendOutcome, Goto, EngineInv, CallInv, RunMatchesPhase
  <2>2. \A d \in Calls : Outcome(d) = Outcome(c) => d = c
    BY DEF Outcome
  <2> QED
    BY <1>2, <2>1, <2>2, DecisionIsLogged, LogExtend DEF AppendOutcome, AppendEvent
<1>3. CASE DecisionReturns(c) \/ OutcomeReturns(c)
  BY <1>3, LogAcknowledge DEF DecisionReturns, OutcomeReturns, AppendReturns
<1>4. CASE Run(c)
  <2>1. /\ pc[c] = "run" /\ runs' = [runs EXCEPT ![c] = @ + 1] /\ UNCHANGED <<log, acked>>
        /\ runs \in [Calls -> Nat]
    BY <1>4 DEF Run, Goto, journalVars, EngineInv, TypeOK
  <2>2. \A i \in DOMAIN log : log[i].hash # Outcome(c)
    BY <2>1 DEF EngineInv, CallInv, EventsMatch
  <2>3. ASSUME NEW d \in Calls PROVE OutcomeFollows(d)'
    BY <2>1, <2>2 DEF LogInv, OutcomeFollows
  <2> QED
    BY <2>1, <2>3 DEF LogInv, EventsAreUnique, ReturnedAreLogged
<1>5. CASE \/ CheckNotified(c) \/ Declare(c) \/ DeclareFails(c) \/ MarkNotified(c)
           \/ Prepare(c) \/ Approve(c) \/ ApprovalFails(c) \/ DecisionRaises(c)
  BY <1>5, LogQuiet
     DEF CheckNotified, Declare, DeclareFails, MarkNotified, Prepare, Approve,
         ApprovalFails, DecisionRaises, AppendRaises, journalVars
<1>6. CASE \/ FunctionEnds(c) \/ FunctionInterrupted(c) \/ Record(c) \/ RecordRaises(c)
           \/ OutcomeRaises(c)
  BY <1>6, LogQuiet
     DEF FunctionEnds, FunctionInterrupted, Record, RecordRaises, OutcomeRaises,
         AppendRaises, journalVars
<1> QED
  BY <1>1, <1>2, <1>3, <1>4, <1>5, <1>6 DEF Step

LEMMA LogNext == EngineInv /\ LogInv /\ [Next]_vars => LogInv'
<1> SUFFICES ASSUME EngineInv, LogInv, [Next]_vars PROVE LogInv'
  OBVIOUS
<1>1. ASSUME NEW c \in Calls, Bind(c) \/ Interrupt(c) PROVE LogInv'
  BY <1>1, LogQuiet DEF Bind, Interrupt, journalVars
<1>2. ASSUME NEW c \in Calls, Step(c) PROVE LogInv'
  BY <1>2, LogStep
<1>3. CASE Crash
  BY <1>3, LogQuiet DEF Crash, AllCallsDie
<1>4. CASE PowerLoss
  BY <1>4, LogLoseTail DEF PowerLoss, AllCallsDie
<1>5. CASE UNCHANGED vars
  BY <1>5, LogQuiet DEF vars, journalVars
<1> QED
  BY <1>1, <1>2, <1>3, <1>4, <1>5 DEF Next, Terminating

THEOREM LogInvariance == Spec => []LogInv
<1>1. Init => LogInv
  BY DEF Init, Journal!Init, LogInv, EventsAreUnique, ReturnedAreLogged, OutcomeFollows
<1> QED
  BY <1>1, LogNext, Invariance, PTL DEF Spec

-----------------------------------------------------------------------------
(***************************************************************************)
(* The log as audit.py reads it.  Every event belongs to a call and is its *)
(* decision or its outcome.                                                *)
(***************************************************************************)
LEMMA EventShape ==
  ASSUME EngineInv, NEW i \in DOMAIN log
  PROVE  \E c \in Calls :
           /\ log[i].hash[1] = c
           /\ \/ log[i].hash = Decision(c) /\ log[i].kind \in DecisionKinds
              \/ log[i].hash = Outcome(c) /\ log[i].kind \in OutcomeKinds
<1>1. log[i] \in Journal!Event
  BY DEF EngineInv, TypeOK, Journal!TypeOK
<1>2. log[i].hash \in EventIds /\ log[i].kind \in DecisionKinds \cup OutcomeKinds
  BY <1>1 DEF Journal!Event
<1>3. PICK c \in Calls : log[i].hash = Decision(c) \/ log[i].hash = Outcome(c)
  BY <1>2 DEF EventIds, Decision, Outcome
<1>4. log[i].hash[1] = c
  BY <1>3 DEF Decision, Outcome
<1>5. CASE log[i].hash = Decision(c)
  <2>1. log[i].kind = verdict[c] /\ verdict[c] \in {"none"} \cup DecisionKinds
    BY <1>5 DEF EngineInv, CallInv, EventsMatch, TypeOK
  <2> QED
    BY <1>2, <1>4, <1>5, <2>1 DEF DecisionKinds, OutcomeKinds
<1>6. CASE log[i].hash = Outcome(c)
  <2>1. log[i].kind = body[c] /\ body[c] \in {"none", "interrupted"} \cup OutcomeKinds
    BY <1>6 DEF EngineInv, CallInv, EventsMatch, TypeOK
  <2> QED
    BY <1>2, <1>4, <1>6, <2>1 DEF DecisionKinds, OutcomeKinds
<1> QED
  BY <1>3, <1>5, <1>6

LEMMA AuditedShape ==
  ASSUME EngineInv, NEW i \in DOMAIN log, NEW c \in Calls,
         log[i].hash = Decision(c) \/ log[i].hash = Outcome(c)
  PROVE  /\ Audited[i].type = IF log[i].hash = Decision(c) THEN "decision" ELSE "outcome"
         /\ Audited[i].id = log[i].hash
         /\ Audited[i].ref = Decision(c)
         /\ Audited[i].verdict = log[i].kind
         /\ Audited[i].identity = ContractOf[c]
<1>1. log[i].hash[1] = c /\ Decision(c) # Outcome(c)
  BY DEF Decision, Outcome
<1>2. log[i].kind \in DecisionKinds <=> log[i].hash = Decision(c)
  BY <1>1, EventShape DEF DecisionKinds, OutcomeKinds
<1> QED
  BY <1>1, <1>2 DEF Audited

(* Every decision is the first one with its id. *)
LEMMA DecisionsAre ==
  ASSUME EngineInv, LogInv
  PROVE  Decisions(Audited) = {i \in DOMAIN log : \E c \in Calls : log[i].hash = Decision(c)}
<1>1. DOMAIN Audited = DOMAIN log
  BY DEF Audited
<1>2. ASSUME NEW i \in DOMAIN log
      PROVE  Audited[i].type = "decision" <=> \E c \in Calls : log[i].hash = Decision(c)
  <2>1. PICK c \in Calls : log[i].hash = Decision(c) \/ log[i].hash = Outcome(c)
    BY EventShape
  <2>2. \A d \in Calls : Decision(d) # Outcome(c)
    BY DEF Decision, Outcome
  <2> QED
    BY <2>1, <2>2, AuditedShape
<1>3. \A i \in DOMAIN log : \A k \in 1..(i - 1) :
        k \in DOMAIN log => Audited[k].id # Audited[i].id
  <2>1. \A i \in DOMAIN log : Audited[i].id = log[i].hash
    BY DEF Audited
  <2>2. \A i \in DOMAIN log : i \in Nat
    BY DEF EngineInv, TypeOK, Journal!TypeOK
  <2> QED
    BY <2>1, <2>2 DEF LogInv, EventsAreUnique
<1>4. \A i \in DOMAIN log : \A k \in 1..(i - 1) : k \in DOMAIN log
  BY DEF EngineInv, TypeOK, Journal!TypeOK
<1> QED
  BY <1>1, <1>2, <1>3, <1>4 DEF Decisions

(* The outcomes linked to a decision: the outcome of the same call, if any. *)
LEMMA LinkedAre ==
  ASSUME EngineInv, NEW c \in Calls
  PROVE  LinkedOutcomes(Audited, Decision(c)) = {i \in DOMAIN log : log[i].hash = Outcome(c)}
<1>1. DOMAIN Audited = DOMAIN log
  BY DEF Audited
<1>2. ASSUME NEW i \in DOMAIN log
      PROVE  Audited[i].type = "outcome" /\ Audited[i].ref = Decision(c)
               <=> log[i].hash = Outcome(c)
  <2>1. PICK d \in Calls : log[i].hash = Decision(d) \/ log[i].hash = Outcome(d)
    BY EventShape
  <2>2. /\ Decision(d) = Decision(c) => c = d
        /\ Outcome(d) = Outcome(c) => c = d
        /\ Decision(d) # Outcome(c) /\ Decision(d) # Outcome(d)
    BY DEF Decision, Outcome
  <2> QED
    BY <2>1, <2>2, AuditedShape
<1> QED
  BY <1>1, <1>2 DEF LinkedOutcomes, Outcomes

LEMMA AtMostOneOutcome ==
  ASSUME EngineInv, LogInv, NEW c \in Calls
  PROVE  \/ LinkedOutcomes(Audited, Decision(c)) = {}
         \/ \E j \in DOMAIN log : /\ LinkedOutcomes(Audited, Decision(c)) = {j}
                                 /\ log[j].hash = Outcome(c)
  BY LinkedAre DEF LogInv, EventsAreUnique

(* An outcome is linked to an earlier decision that allowed the call. *)
LEMMA OutcomeLink ==
  ASSUME EngineInv, LogInv, NEW c \in Calls, NEW d \in DOMAIN log, log[d].hash = Decision(c),
         NEW j \in DOMAIN log, log[j].hash = Outcome(c)
  PROVE  /\ d < j
         /\ log[d].kind = "allowed"
         /\ runs[c] = 1
         /\ log[j].kind = body[c] /\ body[c] \in OutcomeKinds
<1>1. /\ runs[c] = 1
      /\ \E e \in 1..(j - 1) : log[e].hash = Decision(c) /\ log[e].kind = "allowed"
  BY DEF LogInv, OutcomeFollows
<1>2. PICK e \in 1..(j - 1) : log[e].hash = Decision(c) /\ log[e].kind = "allowed"
  BY <1>1
<1>3. e \in DOMAIN log /\ j \in Nat /\ d \in Nat
  BY DEF EngineInv, TypeOK, Journal!TypeOK
<1>4. e = d
  BY <1>2, <1>3 DEF LogInv, EventsAreUnique
<1>5. log[j].kind = body[c]
  BY DEF EngineInv, CallInv, EventsMatch
<1>6. Outcome(c) # Decision(c) /\ Outcome(c)[1] = c
  BY DEF Outcome, Decision
<1>7. log[j].kind \in OutcomeKinds
  <2>1. PICK b \in Calls : /\ log[j].hash[1] = b
                         /\ \/ log[j].hash = Decision(b) /\ log[j].kind \in DecisionKinds
                            \/ log[j].hash = Outcome(b) /\ log[j].kind \in OutcomeKinds
    BY EventShape
  <2> QED
    BY <1>6, <2>1
<1> QED
  BY <1>1, <1>2, <1>3, <1>4, <1>5, <1>7

(* The status of a call, by its decision and its outcome. *)
LEMMA StatusIs ==
  ASSUME EngineInv, LogInv, NEW c \in Calls, NEW d \in DOMAIN log, log[d].hash = Decision(c)
  PROVE  \/ /\ InvocationStatus(Audited, d) = "denied"
            /\ log[d].kind = "denied"
         \/ /\ InvocationStatus(Audited, d) = "needs_reconciliation"
            /\ log[d].kind = "allowed"
         \/ /\ InvocationStatus(Audited, d) = body[c]
            /\ log[d].kind = "allowed" /\ runs[c] = 1 /\ body[c] \in OutcomeKinds
<1>1. Audited[d].id = Decision(c) /\ Audited[d].verdict = log[d].kind
  BY AuditedShape
<1>2. log[d].kind \in DecisionKinds
  BY EventShape DEF Decision, Outcome
<1> DEFINE linked == LinkedOutcomes(Audited, Decision(c))
<1>3. CASE linked = {}
  <2>1. Cardinality(linked) # 1
    BY <1>3, FS_EmptySet
  <2> HIDE DEF linked
  <2>2. InvocationStatus(Audited, d) =
          IF log[d].kind = "denied" THEN "denied" ELSE "needs_reconciliation"
    BY <1>1, <1>2, <1>3, <2>1 DEF InvocationStatus, linked, DecisionKinds
  <2> QED
    BY <1>2, <2>2 DEF DecisionKinds
<1>4. CASE \E j \in DOMAIN log : linked = {j} /\ log[j].hash = Outcome(c)
  <2>1. PICK j \in DOMAIN log : linked = {j} /\ log[j].hash = Outcome(c)
    BY <1>4
  <2>2. /\ log[d].kind = "allowed" /\ runs[c] = 1
        /\ log[j].kind = body[c] /\ body[c] \in OutcomeKinds
    BY <2>1, OutcomeLink
  <2>3. Cardinality(linked) = 1
    BY <2>1, FS_Singleton
  <2>4. (CHOOSE k \in linked : TRUE) = j
    BY <2>1
  <2>5. Audited[j].verdict = body[c]
    BY <2>1, <2>2, AuditedShape
  <2> HIDE DEF linked
  <2>6. InvocationStatus(Audited, d) = body[c]
    BY <1>1, <2>1, <2>2, <2>3, <2>4, <2>5 DEF InvocationStatus, linked
  <2> QED
    BY <2>2, <2>6
<1> QED
  BY <1>3, <1>4, AtMostOneOutcome

LEMMA Truth == EngineInv /\ LogInv => AuditTellsTheTruth
<1> SUFFICES ASSUME EngineInv, LogInv PROVE AuditTellsTheTruth
  OBVIOUS
<1>1. ASSUME NEW d \in Decisions(Audited)
      PROVE  LET c == log[d].hash[1]
                 s == InvocationStatus(Audited, d)
             IN  /\ s \in OutcomeKinds => runs[c] = 1 /\ body[c] = s
                 /\ s = "denied" => runs[c] = 0
  <2>1. PICK c \in Calls : d \in DOMAIN log /\ log[d].hash = Decision(c)
    BY DecisionsAre
  <2>2. log[d].hash[1] = c
    BY <2>1 DEF Decision
  <2>3. log[d].kind = "denied" => runs[c] = 0
    <3>1. ASSUME runs[c] > 0 PROVE log[d].kind = "allowed"
      BY <2>1, <3>1, DecisionIsLogged DEF LogInv, EventsAreUnique
    <3>2. runs[c] \in Nat
      BY DEF EngineInv, TypeOK
    <3> QED
      BY <3>1, <3>2
  <2>4. /\ "denied" \notin OutcomeKinds /\ "needs_reconciliation" \notin OutcomeKinds
        /\ "needs_reconciliation" # "denied"
    BY DEF OutcomeKinds
  <2> QED
    BY <2>1, <2>2, <2>3, <2>4, StatusIs
<1>2. ASSUME NEW c \in Calls, runs[c] > 0
      PROVE  \E d \in Decisions(Audited) :
               /\ log[d].hash = Decision(c)
               /\ InvocationStatus(Audited, d) \in {body[c], "needs_reconciliation"}
  <2>1. PICK d \in DOMAIN log : log[d].hash = Decision(c) /\ log[d].kind = "allowed"
    BY <1>2, DecisionIsLogged
  <2>2. d \in Decisions(Audited)
    BY <2>1, DecisionsAre
  <2> QED
    BY <2>1, <2>2, StatusIs
<1> QED
  BY <1>1, <1>2 DEF AuditTellsTheTruth

(***************************************************************************)
(* The audit is true of what happened, at every moment and whatever failed,*)
(* crashed or lost power before.                                           *)
(***************************************************************************)
THEOREM AuditIsTrue == Spec => []AuditTellsTheTruth
  BY Truth, Invariance, LogInvariance, PTL

LEMMA NoIssue == EngineInv /\ LogInv => AuditFindsNoIssue
<1> SUFFICES ASSUME EngineInv, LogInv PROVE AuditFindsNoIssue
  OBVIOUS
<1>1. DOMAIN Audited = DOMAIN log /\ \A i \in DOMAIN log : Audited[i].id = log[i].hash
  BY DEF Audited
<1>2. \A i \in DOMAIN log : i \in Nat /\ \A k \in 1..(i - 1) : k \in DOMAIN log
  BY DEF EngineInv, TypeOK, Journal!TypeOK
<1>3. ~\E i \in DOMAIN Audited : \E k \in 1..(i - 1) : Audited[k].id = Audited[i].id
  BY <1>1, <1>2 DEF LogInv, EventsAreUnique
<1>4. ASSUME NEW j \in Outcomes(Audited)
      PROVE  \E d \in Decisions(Audited) : Audited[d].id = Audited[j].ref
  <2>1. PICK c \in Calls : log[j].hash = Outcome(c) /\ j \in DOMAIN log
    BY <1>1, EventShape, AuditedShape DEF Outcomes
  <2>2. runs[c] > 0
    BY <2>1 DEF LogInv, OutcomeFollows
  <2>3. PICK d \in DOMAIN log : log[d].hash = Decision(c)
    BY <2>2, DecisionIsLogged
  <2> QED
    BY <1>1, <2>1, <2>3, DecisionsAre, AuditedShape
<1>5. ASSUME NEW d \in Decisions(Audited)
      PROVE  /\ ~(Cardinality(LinkedOutcomes(Audited, Audited[d].id)) > 1)
             /\ \A j \in LinkedOutcomes(Audited, Audited[d].id) : LinkIssues(Audited, d, j) = {}
             /\ Audited[d].verdict \in DecisionKinds
  <2>1. PICK c \in Calls : d \in DOMAIN log /\ log[d].hash = Decision(c)
    BY DecisionsAre
  <2>2. /\ Audited[d].id = Decision(c) /\ Audited[d].verdict = log[d].kind
        /\ Audited[d].identity = ContractOf[c]
    BY <2>1, AuditedShape
  <2>3. Cardinality(LinkedOutcomes(Audited, Decision(c))) \in {0, 1}
    BY AtMostOneOutcome, FS_EmptySet, FS_Singleton
  <2>4. ASSUME NEW j \in LinkedOutcomes(Audited, Decision(c))
        PROVE  LinkIssues(Audited, d, j) = {}
    <3>1. j \in DOMAIN log /\ log[j].hash = Outcome(c)
      BY <2>4, LinkedAre
    <3>2. /\ d < j /\ log[d].kind = "allowed"
          /\ log[j].kind \in OutcomeKinds
      BY <2>1, <3>1, OutcomeLink
    <3>3. Audited[j].verdict = log[j].kind /\ Audited[j].identity = ContractOf[c]
      BY <3>1, AuditedShape
    <3>4. ~(j <= d)
      BY <1>2, <2>1, <3>1, <3>2
    <3> QED
      BY <2>2, <3>2, <3>3, <3>4 DEF LinkIssues
  <2>5. log[d].kind \in DecisionKinds
    BY <2>1, EventShape DEF Decision, Outcome
  <2> QED
    BY <2>2, <2>3, <2>4, <2>5
<1> QED
  BY <1>3, <1>4, <1>5 DEF AuditFindsNoIssue, AuditIssues

(***************************************************************************)
(* No order of calls, faults and crashes leaves a journal that the audit   *)
(* finds structurally invalid.                                             *)
(***************************************************************************)
THEOREM AuditIsClean == Spec => []AuditFindsNoIssue
  BY NoIssue, Invariance, LogInvariance, PTL

-----------------------------------------------------------------------------
(***************************************************************************)
(* The engine implements GuardedCalls.  Beyond EngineInv this needs that   *)
(* append_event has returned no decision of a call that is still to make   *)
(* one, and that the end of a function is not known before it ended.       *)
(***************************************************************************)
Decided == {"run", "running", "record", "report", "reporting", "done"}

DecidedOnce(c) ==
  /\ \A e \in acked : e.hash = Decision(c) => pc[c] \in Decided
  /\ pc[c] \in BeforeRun \cup {"running"} => body[c] = "none"

PromiseInv == \A c \in Calls : DecidedOnce(c)

(* What a call does when its events and the end of its function stay.      *)
LEMMA PromiseQuiet ==
  ASSUME PromiseInv, UNCHANGED <<acked, body>>,
         \A c \in Calls :
           /\ pc[c] \in Decided => pc'[c] \in Decided
           /\ pc'[c] \in BeforeRun \cup {"running"} => pc[c] \in BeforeRun \cup {"running"}
  PROVE  PromiseInv'
  BY DEF PromiseInv, DecidedOnce

(* The return of an append adds the one event of this call. *)
LEMMA ReturnAdds ==
  ASSUME EngineInv, NEW c \in Calls, NEW id \in {Decision(c), Outcome(c)},
         AppendReturns(id)
  PROVE  \E e : /\ acked' = acked \cup {e}
                /\ e.hash = id
                /\ id = Decision(c) => e.kind = verdict[c]
                /\ id = Outcome(c) => e.kind = body[c]
<1>1. PICK i \in DOMAIN log : log[i].hash = id /\ acked' = acked \cup {log[i]}
  BY DEF AppendReturns, Journal!Acknowledge
<1>2. EventsMatch(c)
  BY DEF EngineInv, CallInv
<1> QED
  BY <1>1, <1>2 DEF EventsMatch

LEMMA PromiseStep ==
  ASSUME EngineInv, PromiseInv, NEW c \in Calls, Step(c)
  PROVE  PromiseInv'
<1> pc \in [Calls -> PCs] /\ body \in [Calls -> {"none", "interrupted"} \cup OutcomeKinds]
  BY DEF EngineInv, TypeOK
<1>1. CASE DecisionReturns(c) \/ OutcomeReturns(c)
  <2>1. /\ pc[c] \in {"deciding", "reporting"} /\ pc'[c] \in Decided
        /\ pc'[c] \in BeforeRun \cup {"running"} => pc[c] = "deciding"
        /\ \A d \in Calls \ {c} : pc'[d] = pc[d]
        /\ body' = body
    BY <1>1 DEF DecisionReturns, OutcomeReturns, Goto, End, Decided, BeforeRun
  <2>2. PICK e : acked' = acked \cup {e} /\ e.hash \in {Decision(c), Outcome(c)}
    BY <1>1, ReturnAdds DEF DecisionReturns, OutcomeReturns
  <2>3. \A d \in Calls \ {c} : e.hash # Decision(d)
    BY <2>2 DEF Decision, Outcome
  <2> QED
    BY <2>1, <2>2, <2>3 DEF PromiseInv, DecidedOnce, BeforeRun
<1>2. CASE FunctionEnds(c) \/ FunctionInterrupted(c)
  <2>1. /\ pc[c] = "running" /\ pc'[c] \in {"record", "done"}
        /\ \A d \in Calls \ {c} : pc'[d] = pc[d] /\ body'[d] = body[d]
        /\ acked' = acked
    BY <1>2 DEF FunctionEnds, FunctionInterrupted, Goto, End, journalVars
  <2> QED
    BY <2>1 DEF PromiseInv, DecidedOnce, BeforeRun, Decided
<1>3. CASE \/ CheckNotified(c) \/ Declare(c) \/ DeclareFails(c) \/ MarkNotified(c)
           \/ Prepare(c) \/ Approve(c) \/ ApprovalFails(c) \/ AppendDecision(c)
           \/ DecisionRaises(c)
  <2>1. acked' = acked
    BY <1>3 DEF CheckNotified, Declare, DeclareFails, MarkNotified, Prepare, Approve,
       ApprovalFails, AppendDecision, DecisionRaises, AppendRaises, AppendEvent,
       Journal!Extend, journalVars
  <2> QED
    BY <1>3, <2>1, PromiseQuiet
       DEF CheckNotified, Declare, DeclareFails, MarkNotified, Prepare, Approve,
           ApprovalFails, AppendDecision, DecisionRaises, Goto, End, BeforeRun, Decided
<1>4. CASE \/ Run(c) \/ Record(c) \/ RecordRaises(c) \/ AppendOutcome(c) \/ OutcomeRaises(c)
  <2>1. acked' = acked
    BY <1>4 DEF Run, Record, RecordRaises, AppendOutcome, OutcomeRaises, AppendRaises,
       AppendEvent, Journal!Extend, journalVars
  <2> QED
    BY <1>4, <2>1, PromiseQuiet
       DEF Run, Record, RecordRaises, AppendOutcome, OutcomeRaises, Goto, End,
           BeforeRun, Decided
<1> QED
  BY <1>1, <1>2, <1>3, <1>4 DEF Step

LEMMA PromiseNext == EngineInv /\ PromiseInv /\ [Next]_vars => PromiseInv'
<1> SUFFICES ASSUME EngineInv, PromiseInv, [Next]_vars PROVE PromiseInv'
  OBVIOUS
<1> pc \in [Calls -> PCs]
  BY DEF EngineInv, TypeOK
<1>1. ASSUME NEW c \in Calls, Bind(c) \/ Interrupt(c) PROVE PromiseInv'
  BY <1>1, PromiseQuiet DEF Bind, Interrupt, Goto, End, journalVars, BeforeRun, Decided
<1>2. ASSUME NEW c \in Calls, Step(c) PROVE PromiseInv'
  BY <1>2, PromiseStep
<1>3. CASE Crash \/ PowerLoss
  BY <1>3, PromiseQuiet
     DEF Crash, PowerLoss, AllCallsDie, Journal!LoseTail, BeforeRun, Decided
<1>4. CASE UNCHANGED vars
  BY <1>4, PromiseQuiet DEF vars
<1> QED
  BY <1>1, <1>2, <1>3, <1>4 DEF Next, Terminating

(***************************************************************************)
(* Step by step: what the engine does is what GuardedCalls allows.         *)
(***************************************************************************)

(* Nothing GuardedCalls speaks of has changed. *)
LEMMA Invisible ==
  ASSUME UNCHANGED <<acked, runs, body, result>>
  PROVE  UNCHANGED Promise!vars
  BY DEF Promise!vars, Phase

(* A call that has not passed its decision is undecided and unanswered. *)
LEMMA StillUndecided ==
  ASSUME EngineInv, PromiseInv, NEW c \in Calls, pc[c] \in BeforeRun \ {"run"}
  PROVE  Promise!Undecided(c)
<1>1. runs[c] = 0 /\ result[c] = "none"
  BY DEF EngineInv, CallInv, RunMatchesPhase, BeforeRun
<1>2. \A e \in acked : e.hash # Decision(c)
  BY DEF PromiseInv, DecidedOnce, BeforeRun, Decided
<1> QED
  BY <1>1, <1>2 DEF Promise!Undecided, Phase, Decision

(* It ends without having made a decision. *)
LEMMA EndIsRefuse ==
  ASSUME EngineInv, PromiseInv, NEW c \in Calls, pc[c] \in BeforeRun \ {"run"},
         NEW r \in Refusals \ {"denied"}, UNCHANGED <<acked, runs, body>>,
         result' = [result EXCEPT ![c] = r]
  PROVE  Promise!Refuse(c)
<1>1. result[c] = "none"
  BY DEF EngineInv, CallInv, RunMatchesPhase, BeforeRun
<1> QED
  BY <1>1, StillUndecided DEF Promise!Refuse, Promise!Answer, Phase

(* The caller is interrupted outside the function. *)
LEMMA EndIsInterrupt ==
  ASSUME EngineInv, PromiseInv, NEW c \in Calls, pc[c] \notin {"running", "done"},
         UNCHANGED <<acked, runs, body>>, result' = [result EXCEPT ![c] = "interrupt"]
  PROVE  Promise!Interrupt(c)
<1>1. result[c] = "none"
  BY DEF EngineInv, CallInv, RunMatchesPhase
<1>2. pc[c] \in BeforeRun \/ pc[c] \in {"record", "report", "reporting"}
  BY DEF EngineInv, TypeOK, PCs, BeforeRun
<1>3. Phase(c) # "running"
  BY <1>2 DEF EngineInv, CallInv, RunMatchesPhase, Phase, OutcomeKinds
<1> QED
  BY <1>1, <1>3 DEF Promise!Interrupt, Promise!Answer, Phase

LEMMA ReturnIsDecision ==
  ASSUME EngineInv, PromiseInv, NEW c \in Calls, DecisionReturns(c)
  PROVE  Promise!Allow(c) \/ Promise!Deny(c)
<1>1. /\ pc[c] = "deciding" /\ AppendReturns(Decision(c)) /\ UNCHANGED <<runs, body>>
      /\ IF verdict[c] = "allowed" THEN UNCHANGED result
                                   ELSE result' = [result EXCEPT ![c] = "denied"]
  BY DEF DecisionReturns, Goto, End
<1>2. PICK e : acked' = acked \cup {e} /\ e.hash = Decision(c) /\ e.kind = verdict[c]
  BY <1>1, ReturnAdds
<1>3. verdict[c] \in {"allowed", "denied"} /\ result[c] = "none"
  BY <1>1 DEF EngineInv, CallInv, RunMatchesPhase, DecisionKinds
<1>4. Promise!Undecided(c)
  BY <1>1, StillUndecided DEF BeforeRun
<1>5. CASE verdict[c] = "allowed"
  <2>1. Promise!Attest(c, "decision", "allowed")
    BY <1>2, <1>5 DEF Promise!Attest, Decision
  <2> QED
    BY <1>1, <1>4, <1>5, <2>1 DEF Promise!Allow, Phase
<1>6. CASE verdict[c] = "denied"
  <2>1. Promise!Attest(c, "decision", "denied")
    BY <1>2, <1>6 DEF Promise!Attest, Decision
  <2>2. Promise!Answer(c, "denied")
    BY <1>1, <1>3, <1>6 DEF Promise!Answer
  <2> QED
    BY <1>1, <1>4, <2>1, <2>2 DEF Promise!Deny, Phase
<1> QED
  BY <1>3, <1>5, <1>6

LEMMA RunIsStart ==
  ASSUME EngineInv, PromiseInv, NEW c \in Calls, Run(c)
  PROVE  Promise!Start(c)
<1>1. pc[c] = "run" /\ runs' = [runs EXCEPT ![c] = @ + 1]
      /\ UNCHANGED <<acked, body, result>>
  BY DEF Run, Goto, journalVars
<1>2. runs[c] = 0 /\ result[c] = "none" /\ body[c] = "none" /\ runs \in [Calls -> Nat]
  BY <1>1 DEF EngineInv, TypeOK, CallInv, RunMatchesPhase, PromiseInv, DecidedOnce, BeforeRun
<1>3. PICK e \in acked : e.hash = Decision(c) /\ e.kind = "allowed"
  BY <1>1 DEF EngineInv, CallInv, Authorized, Durable
<1>4. \A d \in Calls : Phase(d)' = IF d = c THEN "running" ELSE Phase(d)
  BY <1>1, <1>2 DEF Phase
<1>5. [d \in Calls |-> Phase(d)]' = [[d \in Calls |-> Phase(d)] EXCEPT ![c] = "running"]
  BY <1>4
<1> QED
  BY <1>1, <1>2, <1>3, <1>5 DEF Promise!Start, Phase, Decision

LEMMA EndsAreFinish ==
  ASSUME EngineInv, PromiseInv, NEW c \in Calls, FunctionEnds(c) \/ FunctionInterrupted(c)
  PROVE  Promise!Finish(c) \/ Promise!Unwind(c)
<1>1. /\ pc[c] = "running" /\ UNCHANGED <<acked, runs>>
      /\ \/ \E b \in {"succeeded", "failed"} :
              body' = [body EXCEPT ![c] = b] /\ UNCHANGED result
         \/ body' = [body EXCEPT ![c] = "interrupted"]
              /\ result' = [result EXCEPT ![c] = "interrupt"]
  BY DEF FunctionEnds, FunctionInterrupted, Goto, End, journalVars, OutcomeKinds
<1>2. /\ runs[c] = 1 /\ body[c] = "none" /\ result[c] = "none"
      /\ DOMAIN body = Calls
  BY <1>1 DEF EngineInv, TypeOK, CallInv, RunMatchesPhase, PromiseInv, DecidedOnce
<1>3. ASSUME NEW b \in {"succeeded", "failed", "interrupted"},
             body' = [body EXCEPT ![c] = b]
      PROVE  [d \in Calls |-> Phase(d)]' = [[d \in Calls |-> Phase(d)] EXCEPT ![c] = b]
  <2>1. \A d \in Calls : Phase(d)' = IF d = c THEN b ELSE Phase(d)
    BY <1>1, <1>2, <1>3 DEF Phase
  <2> QED
    BY <2>1
<1> QED
  BY <1>1, <1>2, <1>3 DEF Promise!Finish, Promise!Unwind, Promise!Answer, Phase

LEMMA ReturnIsConclude ==
  ASSUME EngineInv, PromiseInv, NEW c \in Calls, OutcomeReturns(c)
  PROVE  Promise!Conclude(c)
<1>1. /\ pc[c] = "reporting" /\ AppendReturns(Outcome(c)) /\ UNCHANGED <<runs, body>>
      /\ result' = [result EXCEPT ![c] = IF body[c] = "succeeded" THEN "value" ELSE "exception"]
  BY DEF OutcomeReturns, End, Goto
<1>2. PICK e : acked' = acked \cup {e} /\ e.hash = Outcome(c) /\ e.kind = body[c]
  BY <1>1, ReturnAdds
<1>3. body[c] \in {"succeeded", "failed"} /\ runs[c] = 1 /\ result[c] = "none"
  BY <1>1 DEF EngineInv, CallInv, RunMatchesPhase, OutcomeKinds
<1>4. CASE body[c] = "succeeded"
  <2>1. Promise!Attest(c, "outcome", "succeeded")
    BY <1>2, <1>4 DEF Promise!Attest, Outcome
  <2>2. Promise!Answer(c, "value")
    BY <1>1, <1>3, <1>4 DEF Promise!Answer
  <2> QED
    BY <1>1, <1>3, <1>4, <2>1, <2>2 DEF Promise!Conclude, Phase
<1>5. CASE body[c] = "failed"
  <2>1. Promise!Attest(c, "outcome", "failed")
    BY <1>2, <1>5 DEF Promise!Attest, Outcome
  <2>2. Promise!Answer(c, "exception")
    BY <1>1, <1>3, <1>5 DEF Promise!Answer
  <2> QED
    BY <1>1, <1>3, <1>5, <2>1, <2>2 DEF Promise!Conclude, Phase
<1> QED
  BY <1>3, <1>4, <1>5

LEMMA FailureIsIncomplete ==
  ASSUME EngineInv, PromiseInv, NEW c \in Calls, RecordRaises(c) \/ OutcomeRaises(c)
  PROVE  Promise!Incomplete(c)
<1>1. /\ pc[c] \in {"record", "report", "reporting"} /\ UNCHANGED <<acked, runs, body>>
      /\ \E a \in {"incomplete", "encode_error"} : result' = [result EXCEPT ![c] = a]
  BY DEF RecordRaises, OutcomeRaises, End, Goto, AppendRaises, journalVars
<1>2. Phase(c) \in {"succeeded", "failed"} /\ result[c] = "none"
  BY <1>1 DEF EngineInv, CallInv, RunMatchesPhase, OutcomeKinds, Phase
<1>3. [d \in Calls |-> Phase(d)]' = [d \in Calls |-> Phase(d)]
  BY <1>1 DEF Phase
<1> QED
  BY <1>1, <1>2, <1>3 DEF Promise!Incomplete, Promise!Answer

LEMMA StepIsPromised ==
  ASSUME EngineInv, PromiseInv, NEW c \in Calls, Step(c)
  PROVE  [Promise!Next]_(Promise!vars)
<1>1. CASE DecisionReturns(c)
  BY <1>1, ReturnIsDecision DEF Promise!Next
<1>2. CASE Run(c)
  BY <1>2, RunIsStart DEF Promise!Next
<1>3. CASE FunctionEnds(c) \/ FunctionInterrupted(c)
  BY <1>3, EndsAreFinish DEF Promise!Next
<1>4. CASE OutcomeReturns(c)
  BY <1>4, ReturnIsConclude DEF Promise!Next
<1>5. CASE RecordRaises(c) \/ OutcomeRaises(c)
  BY <1>5, FailureIsIncomplete DEF Promise!Next
<1>6. CASE DeclareFails(c) \/ ApprovalFails(c) \/ DecisionRaises(c)
  <2>1. /\ pc[c] \in BeforeRun \ {"run"} /\ UNCHANGED <<acked, runs, body>>
        /\ \E r \in Refusals \ {"denied"} : result' = [result EXCEPT ![c] = r]
    BY <1>6 DEF DeclareFails, ApprovalFails, DecisionRaises, End, Goto, AppendRaises,
       journalVars, BeforeRun, Refusals
  <2> QED
    BY <2>1, EndIsRefuse DEF Promise!Next
<1>7. CASE Prepare(c)
  <2>1. /\ pc[c] \in BeforeRun \ {"run"} /\ UNCHANGED <<acked, runs, body>>
        /\ UNCHANGED result \/ \E r \in Refusals \ {"denied"} :
                                 result' = [result EXCEPT ![c] = r]
    BY <1>7 DEF Prepare, End, Goto, journalVars, BeforeRun, Refusals
  <2> QED
    BY <2>1, EndIsRefuse, Invisible DEF Promise!Next
<1>8. CASE \/ CheckNotified(c) \/ Declare(c) \/ MarkNotified(c) \/ Approve(c)
           \/ AppendDecision(c) \/ Record(c) \/ AppendOutcome(c)
  BY <1>8, Invisible
     DEF CheckNotified, Declare, MarkNotified, Approve, AppendDecision, Record,
         AppendOutcome, AppendEvent, Journal!Extend, journalVars
<1> QED
  BY <1>1, <1>2, <1>3, <1>4, <1>5, <1>6, <1>7, <1>8 DEF Step

LEMMA NextIsPromised ==
  EngineInv /\ PromiseInv /\ [Next]_vars => [Promise!Next]_(Promise!vars)
<1> SUFFICES ASSUME EngineInv, PromiseInv, [Next]_vars
             PROVE  [Promise!Next]_(Promise!vars)
  OBVIOUS
<1>1. ASSUME NEW c \in Calls, Bind(c) PROVE [Promise!Next]_(Promise!vars)
  <2>1. /\ pc[c] \in BeforeRun \ {"run"} /\ UNCHANGED <<acked, runs, body>>
        /\ UNCHANGED result \/ \E r \in Refusals \ {"denied"} :
                                 result' = [result EXCEPT ![c] = r]
    BY <1>1 DEF Bind, End, Goto, journalVars, BeforeRun, Refusals
  <2> QED
    BY <2>1, EndIsRefuse, Invisible DEF Promise!Next
<1>2. ASSUME NEW c \in Calls, Step(c) PROVE [Promise!Next]_(Promise!vars)
  BY <1>2, StepIsPromised
<1>3. ASSUME NEW c \in Calls, Interrupt(c) PROVE [Promise!Next]_(Promise!vars)
  <2>1. /\ pc[c] \notin {"running", "done"} /\ UNCHANGED <<acked, runs, body>>
        /\ result' = [result EXCEPT ![c] = "interrupt"]
    BY <1>3 DEF Interrupt, End, Goto, journalVars
  <2> QED
    BY <2>1, EndIsInterrupt DEF Promise!Next
<1>4. CASE Crash \/ PowerLoss
  BY <1>4, Invisible DEF Crash, PowerLoss, AllCallsDie, Journal!LoseTail
<1>5. CASE UNCHANGED vars
  BY <1>5, Invisible DEF vars
<1> QED
  BY <1>1, <1>2, <1>3, <1>4, <1>5 DEF Next, Terminating

(***************************************************************************)
(* For any calls and observers and under every fault, the engine does what *)
(* GuardedCalls says: one decision per call, durable before it is acted    *)
(* on, one run at most, and one answer, given when the evidence is durable.*)
(***************************************************************************)
THEOREM EngineImplementsPromise == Spec => ImplementsGuardedCalls
<1>1. Init => PromiseInv
  BY DEF Init, Journal!Init, PromiseInv, DecidedOnce
<1>2. Init => Promise!Init
  BY DEF Init, Journal!Init, Promise!Init, Phase
<1> QED
  BY <1>1, <1>2, PromiseNext, NextIsPromised, Invariance, PTL
     DEF Spec, ImplementsGuardedCalls, Promise!Spec

=============================================================================
