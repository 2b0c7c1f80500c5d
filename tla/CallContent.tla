---------------------------- MODULE CallContent ----------------------------
(***************************************************************************)
(* What a guarded call puts on record of its arguments, its metadata, its  *)
(* result and its error (engine.py), while other threads change the        *)
(* objects these consist of.  The order of the steps is that of            *)
(* GuardEngine, whose failures of journal, observer, identity and process  *)
(* are left out here.  A hash is the value that was hashed.                *)
(***************************************************************************)
EXTENDS Registration, FiniteSets

CONSTANTS
  Objects,
  Contents,       \* Contents[o]: the states object o may be in
  Registrations,  \* the ways the program may declare its tools
  ArgumentsOf,    \* ArgumentsOf[name]: what a caller passes for a parameter
  Default,        \* the default value of a parameter that is left out
  Ordinary,       \* texts a function may put into an error besides its input
  MaxEdits        \* bound on the changes by other threads

IsValue(v) ==
  \/ v \in {<<"number">>, <<"nan">>, <<"opaque">>}
  \/ v[1] = "text" /\ IsText(v[2])
  \/ v[1] = "ref" /\ v[2] \in Objects

(* Keys, fields and parameters have distinct names. *)
ASSUME ContentsAssumption ==
  \A o \in Objects : \A content \in Contents[o] :
    /\ content.shape \in {"named", "list", "mixed"}
    /\ \A i \in DOMAIN content.items : IsValue(content.items[i].value)
    /\ content.shape = "named" =>
         \A i, j \in DOMAIN content.items : content.items[i].name = content.items[j].name => i = j

ASSUME RegistrationsAssumption ==
  /\ MaxEdits \in Nat
  /\ IsValue(Default)
  /\ \A text \in Ordinary : IsText(text)
  /\ \A r \in Registrations :
       /\ r.how \in {"guard", "wrap_tool", "wrap_tools"}
       /\ DOMAIN r.settings = DOMAIN r.tools
       /\ r.how # "wrap_tools" => 1 \in DOMAIN r.tools
       /\ \A i \in DOMAIN r.tools :
            LET params == r.tools[i].params
            IN  /\ params \in Seq(Range(params))
                /\ \A k, l \in DOMAIN params : params[k] = params[l] => k = l
                /\ \A k \in DOMAIN params : \A v \in ArgumentsOf[params[k]] : IsValue(v)

VARIABLES
  heap,      \* the objects of the program
  guarded,   \* what the registration returned: a sequence of wrappers
  callee,    \* the wrapper that is called
  args,      \* bound.arguments
  walked,    \* the part of canonical_input that is done
  kept,      \* redacted_values, as a set
  removed,   \* history: every value the traversal replaced by the marker
  request,   \* the ApprovalRequest
  decision,  \* the decision event
  outcome,   \* the outcome event
  pc,
  edits,     \* changes by other threads so far
  declared,  \* history: the heap when the tools were registered
  received,  \* history: the arguments as the function got them, canonicalized
  changed    \* history: an object was changed after the call was bound

recordVars == <<request, decision, outcome>>
vars == <<heap, guarded, callee, args, walked, kept, removed, request, decision, outcome,
          pc, edits, declared, received, changed>>

None == Absent

PCs == {"register", "call", "bind", "walk", "approve", "decide", "run", "record", "done"}

Params == IF callee = None THEN <<>> ELSE callee.params

ParamNames == {Params[i] : i \in DOMAIN Params}

TypeOK ==
  /\ DOMAIN heap = Objects
  /\ \A o \in Objects : heap[o] \in Contents[o]
  /\ pc \in PCs
  /\ DOMAIN walked \subseteq ParamNames
  /\ \A text \in kept : IsText(text) /\ Len(text) >= MinScrubbable
  /\ changed \in BOOLEAN
  /\ edits \in 0..MaxEdits
  /\ decision # None =>
       /\ decision.verdict \in {"allowed", "denied"}
       /\ Len(decision.retention) = Len(Params)
       /\ \A i \in DOMAIN decision.retention : decision.retention[i].state \in RetentionStates

Init ==
  /\ heap \in {h \in [Objects -> UNION {Contents[o] : o \in Objects}] :
                 \A o \in Objects : h[o] \in Contents[o]}
  /\ guarded = <<>>
  /\ callee = None
  /\ args = <<>>
  /\ walked = <<>>
  /\ kept = {}
  /\ removed = {}
  /\ request = None
  /\ decision = None
  /\ outcome = None
  /\ pc = "register"
  /\ edits = 0
  /\ declared = None
  /\ received = None
  /\ changed = FALSE

-----------------------------------------------------------------------------
Register(r) ==
  /\ pc = "register"
  /\ LET result == CASE r.how = "guard" -> Guard(heap, r.tools[1], r.settings[1])
                     [] r.how = "wrap_tool" -> WrapTool(heap, r.tools[1], r.settings[1])
                     [] r.how = "wrap_tools" -> WrapTools(heap, r.tools, r.settings)
     IN  /\ pc' = IF result = Refused THEN "done" ELSE "call"
         /\ guarded' = CASE result = Refused -> <<>>
                         [] result # Refused /\ r.how = "wrap_tools" -> result
                         [] OTHER -> <<result>>
  /\ declared' = [heap |-> heap, registration |-> r]
  /\ UNCHANGED <<heap, callee, args, walked, kept, removed, recordVars, edits, received, changed>>

(* A caller passes a value for each parameter, or leaves it out. *)
Call ==
  /\ pc = "call"
  /\ pc' = "bind"
  /\ \E i \in DOMAIN guarded :
       /\ callee' = guarded[i]
       /\ \E passed \in SUBSET {guarded[i].params[k] : k \in DOMAIN guarded[i].params} :
            args' \in {a \in [passed -> UNION {ArgumentsOf[n] : n \in passed}] :
                         \A n \in passed : a[n] \in ArgumentsOf[n]}
  /\ UNCHANGED <<heap, guarded, walked, kept, removed, recordVars, edits, declared,
                 received, changed>>

AllArguments ==
  [n \in ParamNames |-> IF n \in DOMAIN args THEN args[n] ELSE Default]

(* Mutant: defaults are left to the function. *)
BindWithoutDefaults ==
  /\ pc = "bind"
  /\ pc' = "walk"
  /\ UNCHANGED <<heap, guarded, callee, args, walked, kept, removed, recordVars, edits, declared,
                 received, changed>>

(* signature.bind and apply_defaults *)
Bind ==
  /\ pc = "bind"
  /\ pc' = "walk"
  /\ args' = AllArguments
  /\ UNCHANGED <<heap, guarded, callee, walked, kept, removed, recordVars, edits, declared,
                 received, changed>>

(* canonicalize(dict(bound.arguments)), one argument at a time *)
WalkNext ==
  /\ pc = "walk"
  /\ \E n \in DOMAIN args \ DOMAIN walked :
       LET item  == [name |-> n, value |-> args[n]]
           entry == Entry(heap, callee.sensitive, item)
       IN  IF entry.ok
           THEN /\ walked' = [m \in DOMAIN walked \cup {n} |->
                                IF m = n THEN entry.value ELSE walked[m]]
                /\ kept' = kept \cup entry.kept
                /\ removed' = removed \cup Removed(heap, callee.sensitive, item)
                /\ UNCHANGED pc
           ELSE pc' = "done" /\ UNCHANGED <<walked, kept, removed>>
  /\ UNCHANGED <<heap, guarded, callee, args, recordVars, edits, declared, received, changed>>

(* The order of the parameters stands for that of their names. *)
Precedes(m, n) ==
  \E k, l \in DOMAIN Params : k < l /\ Params[k] = m /\ Params[l] = n

(* The names of the canonical arguments, sorted. *)
Sorted ==
  CHOOSE names \in [1..Cardinality(DOMAIN walked) -> DOMAIN walked] :
    \A i, j \in DOMAIN names : i < j => Precedes(names[i], names[j])

ApprovalRequest ==
  [summary |-> BoundedSummary(walked, Sorted), hash |-> walked, action |-> callee.action]

(* input_hash and input_summary; the provider is asked. *)
Ask ==
  /\ pc = "walk"
  /\ DOMAIN walked = DOMAIN args
  /\ pc' = "approve"
  /\ request' = ApprovalRequest
  /\ UNCHANGED <<heap, guarded, callee, args, walked, kept, removed, decision, outcome, edits,
                 declared, received, changed>>

(* The canonical input as it would come out now. *)
Recanonicalized ==
  [n \in DOMAIN args |->
     Entry(heap, callee.sensitive, [name |-> n, value |-> args[n]]).value]

DecisionEvent(verdict, input, metadata) ==
  [verdict |-> verdict, action |-> callee.action, hash |-> input,
   summary |-> BoundedSummary(input, Sorted),
   retention |-> ParameterRetention(input, Sorted), metadata |-> metadata]

(* Mutant: what is recorded is computed when it is recorded. *)
DecideAfresh ==
  /\ pc = "approve"
  /\ \E verdict \in {"allowed", "denied"} :
       /\ decision' = DecisionEvent(verdict, Recanonicalized, callee.metadata)
       /\ pc' = IF verdict = "allowed" THEN "run" ELSE "done"
  /\ UNCHANGED <<heap, guarded, callee, args, walked, kept, removed, request, outcome, edits,
                 declared, received, changed>>

(* Mutant: metadata is canonicalized when it is recorded. *)
DecideWithLiveMetadata ==
  /\ pc = "approve"
  /\ LET settings == declared.registration.settings[1]
         live     == PrepareMetadata(heap, callee.sensitive, settings.metadata)
     IN  \E verdict \in {"allowed", "denied"} :
           /\ decision' = DecisionEvent(verdict, walked, live.value)
           /\ pc' = IF verdict = "allowed" THEN "run" ELSE "done"
  /\ UNCHANGED <<heap, guarded, callee, args, walked, kept, removed, request, outcome, edits,
                 declared, received, changed>>

(* The provider answers, and the decision event is appended. *)
Decide ==
  /\ pc = "approve"
  /\ \E verdict \in {"allowed", "denied"} :
       /\ decision' = DecisionEvent(verdict, walked, callee.metadata)
       /\ pc' = IF verdict = "allowed" THEN "run" ELSE "done"
  /\ UNCHANGED <<heap, guarded, callee, args, walked, kept, removed, request, outcome, edits,
                 declared, received, changed>>

(* The target is called: it sees the objects, not the record. *)
Run ==
  /\ pc = "run"
  /\ pc' = "record"
  /\ received' = [n \in DOMAIN AllArguments |->
       Entry(heap, callee.sensitive, [name |-> n, value |-> AllArguments[n]]).value]
  /\ UNCHANGED <<heap, guarded, callee, args, walked, kept, removed, recordVars, edits,
                 declared, changed>>

(* What the function can reach: every value below an argument, by any name. *)
Reachable ==
  UNION {Visible(heap, {}, args[n]) : n \in DOMAIN args}

(* _safe_output_hash *)
OutputHash(result) ==
  LET canonical == Canonicalize(heap, callee.sensitive, result)
  IN  IF (result[1] = "text" /\ result[2] \in kept) \/ ~canonical.ok
      THEN None
      ELSE canonical.value

Returns ==
  /\ pc = "record"
  /\ pc' = "done"
  /\ \E result \in Reachable :
       outcome' = [status |-> "succeeded", hash |-> OutputHash(result), error |-> <<>>,
                   echoed |-> {}]
  /\ UNCHANGED <<heap, guarded, callee, args, walked, kept, removed, request, decision, edits,
                 declared, received, changed>>

(* It raises, with a message that quotes up to two texts. *)
Raises ==
  /\ pc = "record"
  /\ pc' = "done"
  /\ \E t, u \in {v[2] : v \in {w \in Reachable : w[1] = "text"}} \cup Ordinary,
        order \in LongestFirst(kept) :
       outcome' = [status |-> "failed", hash |-> None, echoed |-> {t, u},
                   error |-> ScrubText(<<" ">> \o t \o <<" ">> \o u, order)]
  /\ UNCHANGED <<heap, guarded, callee, args, walked, kept, removed, request, decision, edits,
                 declared, received, changed>>

(* Another thread changes an object. *)
Edit(o) ==
  /\ pc \notin {"register", "done"}
  /\ edits < MaxEdits
  /\ edits' = edits + 1
  /\ \E content \in Contents[o] \ {heap[o]} : heap' = [heap EXCEPT ![o] = content]
  /\ changed' = (changed \/ pc \notin {"call", "bind"})
  /\ UNCHANGED <<guarded, callee, args, walked, kept, removed, recordVars, pc, declared, received>>

Terminating == pc = "done" /\ UNCHANGED vars

Next ==
  \/ \E r \in Registrations : Register(r)
  \/ Call
  \/ Bind
  \/ WalkNext
  \/ Ask
  \/ Decide
  \/ Run
  \/ Returns
  \/ Raises
  \/ \E o \in Objects : Edit(o)
  \/ Terminating

Spec == Init /\ [][Next]_vars

-----------------------------------------------------------------------------
(* The result is that of a traversal that comes to the value at this depth. *)
ShowsTheVisible(result, value, depth) ==
  LET visible == VisibleAt(heap, callee.sensitive, value, depth)
  IN  /\ result.ok <=> Canonicalizable(heap, callee.sensitive, value, depth)
      /\ result.ok =>
           /\ TextsOf(result.value) \ {Redacted[2], Unsupported[2]}
                = {v[2] : v \in {u \in visible : u[1] = "text"}}
                    \ {Redacted[2], Unsupported[2]}
           /\ result.kept =
                UNION {Scrubbable(v) : v \in HiddenBelow(heap, callee.sensitive, visible)}

(***************************************************************************)
(* canonical.py: whatever the objects have become, the traversal raises    *)
(* exactly on what is cyclic, too deep or not finite along visible names;  *)
(* otherwise the result shows the texts that are visible and no other, and *)
(* what it remembers for scrubbing are the texts it hid.  A sensitive name *)
(* hides what is below it in every named container, however shared.  This  *)
(* is so for a result or metadata, where depth is counted from the value,  *)
(* and for the arguments, where the dict that holds them counts as well.   *)
(***************************************************************************)
WalkShowsTheVisible ==
  callee # None =>
    /\ \A o \in Objects :
         ShowsTheVisible(Canonicalize(heap, callee.sensitive, <<"ref", o>>), <<"ref", o>>, 0)
    /\ \A n \in DOMAIN args :
         ~IsSensitive(n, callee.sensitive) =>
           ShowsTheVisible(Entry(heap, callee.sensitive, [name |-> n, value |-> args[n]]),
                           args[n], 1)

(***************************************************************************)
(* engine.py, step 3: the approver and the journal are given one and the   *)
(* same snapshot of the arguments, whoever changes them in between.        *)
(***************************************************************************)
ApprovedIsRecorded ==
  decision # None =>
    /\ request.summary = decision.summary
    /\ request.hash = decision.hash
    /\ request.action = decision.action
    /\ decision.retention = ParameterRetention(request.hash, Sorted)

(***************************************************************************)
(* engine.py, line 254: when nobody changed an object after the call was   *)
(* bound, the function got what was approved and hashed, its defaults      *)
(* included.                                                               *)
(***************************************************************************)
ReceivedIsRecorded ==
  received # None /\ ~changed => received = decision.hash

(***************************************************************************)
(* docs/EVIDENCE_FORMAT.md: a truncated or oddly formatted summary cannot  *)
(* hide a retained argument.  Each argument on record in the clear is      *)
(* named by the report, fully_redacted means that every one is the marker, *)
(* and the report made from the summary alone, for journals without        *)
(* parameter_retention, is the same or "unknown".                          *)
(***************************************************************************)
ReportHidesNothing ==
  decision # None =>
    LET report == ClassifyEvent(decision)
        legacy == ClassifyEvent([decision EXCEPT !.retention = Absent])
        input  == decision.hash
    IN  /\ {n \in DOMAIN input : StateOf(input[n]) = "retained"} \subseteq report.names
        /\ report.class = "fully_redacted" => \A n \in DOMAIN input : input[n] = Redacted
        /\ report.class = "no_arguments" <=> DOMAIN input = {}
        /\ legacy.class # "unknown" => legacy = report
        /\ SafeForUpload({legacy.class}) => SafeForUpload({report.class})

(* A text that has nothing of what surrounds and replaces removed values. *)
IsPlain(raw) ==
  Range(raw) \cap {" ", "<REDACTED>", "<unsupported:", "...(truncated)"} = {}

(* Of the removed values, the texts that _redact must have remembered. *)
LongRemoved ==
  {v[2] : v \in {u \in removed : u[1] = "text" /\ Len(u[2]) >= MinScrubbable}}

(***************************************************************************)
(* redaction.py, scrub_text, and engine.py, _safe_output_hash: a text that *)
(* the traversal removed, from an argument or from anywhere below one, and *)
(* that has at least _MIN_SCRUBBABLE_LENGTH symbols, does not come back    *)
(* with the outcome: neither as the hashed result nor, whole or in pieces, *)
(* in the text of the error, also when one such text is part of another,   *)
(* when the text is cut, and when the objects have changed since.  A piece *)
(* may only come from a text that is not one of these.  This is of texts   *)
(* that have no marker in them: one that has may be what a replacement     *)
(* makes of the message, or be torn by the replacement of its neighbours.  *)
(*                                                                         *)
(* It is not so for the other removed values, shorter texts, numbers and   *)
(* containers: _redact does not remember them (canonical.py, line 202), so *)
(* a function that returns one has its hash recorded (engine.py, line 438) *)
(* and a short text is left in an error.                                   *)
(***************************************************************************)
LongRemovedTextsStayOut ==
  outcome # None =>
    /\ \A raw \in LongRemoved : IsPlain(raw) =>
         outcome.hash # Text(raw) /\ raw \notin SubSeqs(outcome.error)
    /\ (\A raw \in LongRemoved : IsPlain(raw)) =>
         \A i \in DOMAIN outcome.error : \A raw \in LongRemoved \cap outcome.echoed :
           outcome.error[i] \in Range(raw) =>
             \E other \in outcome.echoed \ LongRemoved : outcome.error[i] \in Range(other)

(***************************************************************************)
(* guard.py, _prepare_metadata: every decision carries the metadata as it  *)
(* was when the tool was declared, redacted, whatever became of the object *)
(* since.                                                                  *)
(***************************************************************************)
MetadataAsDeclared ==
  decision # None =>
    \E i \in DOMAIN declared.registration.settings :
      LET settings == declared.registration.settings[i]
      IN  /\ decision.action = settings.action
          /\ decision.metadata =
               PrepareMetadata(declared.heap, SensitiveSet(settings.redact), settings.metadata).value

=============================================================================
