------------------------------ MODULE Reports ------------------------------
(***************************************************************************)
(* src/guardrail_evidence/cli.py: what the commands answer about a journal *)
(* with the keys of an evidence home, and what they change.                *)
(*                                                                         *)
(* The lines of the journal come from anyone who holds a signing key: this *)
(* home, or another machine whose public key the operator passes with      *)
(* --public-key.  So they need not be what engine.py writes; audit.py and  *)
(* privacy.py judge what is there.  An event of Verification carries in    *)
(* "says" the fields that audit.py and privacy.py read.                    *)
(***************************************************************************)
EXTENDS Audit, Verification, Privacy

CONSTANTS
  Sayings,     \* what an appended event may say
  Keys,        \* the keys of this home
  OtherKey,    \* the key of the other machine
  Authors,     \* who writes the journal: some of {"home", "other"}
  MaxEvents,   \* bound: events ever appended
  MaxDamaged   \* bound: the events ever appended to a journal that is damaged

ASSUME ReportsAssumption ==
  /\ None \notin Keys \cup {OtherKey} /\ OtherKey \notin Keys
  /\ MaxEvents \in Nat /\ MaxDamaged \in 0..MaxEvents

(* Absent, Malformed, or what Privacy reads: a list of records; the parts of
   a summary, of which there are some if it has been cut. *)
ASSUME SayingsAssumption ==
  \A says \in Sayings : says.type = "decision" =>
    IF says.retention # Absent
    THEN says.retention = Malformed \/ says.retention \in Seq(Range(says.retention))
    ELSE \/ says.summary = Malformed
         \/ /\ says.summary.parts \in Seq(Range(says.summary.parts))
            /\ says.summary.cut \in BOOLEAN
            /\ says.summary.cut => says.summary.parts # <<>>

VARIABLES
  journal,   \* the lines of the journal file, or None
  witness,   \* the witness file next to it, or None
  key,       \* the signing key of this home, or None
  trusted,   \* the keys in its trusted set
  readable,  \* load_trusted_public_keys does not raise
  author,    \* who writes the journal
  written    \* history: every event appended

homeVars == <<key, trusted, readable>>
vars == <<journal, witness, homeVars, author, written>>

(* The trusted set, or the one key of --public-key *)
KeyChoices == {"trusted", "current", "other"}

(* _resolve_verification_keys: the keys, or None when a file with a key is missing or damaged. *)
Resolve(choice) ==
  CASE choice = "trusted" -> IF readable THEN trusted ELSE None
    [] choice = "current" -> IF key = None THEN None ELSE {key}
    [] choice = "other" -> {OtherKey}

TypeOK ==
  /\ key \in Keys \cup {None}
  /\ trusted \subseteq Keys /\ (key # None => key \in trusted)
  /\ journal # None =>
       \A i \in DOMAIN journal : journal[i] \in {Blank, Garbled} \/ journal[i].id \in 1..MaxEvents
  /\ Len(written) <= MaxEvents

Init ==
  /\ journal = None
  /\ witness = None
  /\ key = None
  /\ trusted = {}
  /\ readable = TRUE
  /\ author \in Authors
  /\ written = <<>>

-----------------------------------------------------------------------------
(* What happens to the files between commands. *)

Lines == IF journal = None THEN <<>> ELSE journal

(* Mutant: a new key is not registered. *)
CreateUnregistered ==
  /\ IF key = None
     THEN key' \in Keys
     ELSE UNCHANGED key
  /\ UNCHANGED <<trusted, readable>>

(* load_or_create, whoever calls it *)
LoadOrCreate ==
  /\ IF key = None
     THEN key' \in Keys
     ELSE UNCHANGED key
  /\ trusted' = trusted \cup {key'}
  /\ UNCHANGED readable

(* An event is signed and appended; a tail that is no event is refused. *)
AppendEvent(says, count, signer) ==
  LET prev == IF Lines = <<>> THEN None ELSE Lines[Len(Lines)].hash
  IN  /\ Len(written) < (IF Lines = written THEN MaxEvents ELSE MaxDamaged)
      /\ Lines # <<>> => Lines[Len(Lines)] \notin {Blank, Garbled}
      /\ journal' = Append(Lines,
           Finalize([id    |-> Len(written) + 1,
                     shape |-> "known",
                     kind  |-> says.type,
                     body  |-> "written",
                     says  |-> says,
                     prev  |-> prev,
                     head  |-> IF says.type = "checkpoint" THEN prev ELSE None,
                     count |-> count,
                     key   |-> None,
                     hash  |-> None,
                     sig   |-> None], signer))
      /\ written' = Append(written, journal'[Len(journal')])

Write(says) ==
  /\ IF author = "home" THEN LoadOrCreate ELSE UNCHANGED homeVars
  /\ AppendEvent(says, 0, IF author = "home" THEN key' ELSE OtherKey)
  /\ UNCHANGED <<witness, author>>

Changed(e) == [e EXCEPT !.body = "changed"]

(* An event is changed, one but the last is lost, or a line is no JSON any
   more.  That a cut tail takes a witness to be noticed is in Checkpoint. *)
Damage ==
  /\ journal = written /\ Len(written) \in 1..MaxDamaged
  /\ \/ \E i \in DOMAIN journal :
          journal' \in {[journal EXCEPT ![i] = Changed(journal[i])],
                        [journal EXCEPT ![i] = Finalize(Changed(journal[i]), None)],
                        [journal EXCEPT ![i] = Garbled]}
     \/ \E i \in 1..(Len(journal) - 1) : journal' = RemoveAt(journal, i)
  /\ UNCHANGED <<witness, homeVars, author, written>>

(* A registration was cut off: Identity. *)
SpoilTrusted ==
  /\ readable
  /\ trusted # {}
  /\ readable' = FALSE
  /\ UNCHANGED <<journal, witness, key, trusted, author, written>>

-----------------------------------------------------------------------------
(* The commands that only read, as functions of the files.  None stands for *)
(* no report: an error that ends main with exit code 1, or in InspectRaises *)
(* one that main does not catch.                                            *)

(* There is a journal, its keys can be loaded, and there are some. *)
Usable(choice) ==
  journal # None /\ Resolve(choice) \notin {None, {}}

(* _cmd_verify *)
VerifyExit(choice, against) ==
  IF Usable(choice) /\ VerifyJournal(journal, Resolve(choice), against) = {} THEN 0 ELSE 1

Said(events) == [i \in DOMAIN events |-> events[i].says]

(* Mutant: the snapshot is used without a look at its verification. *)
SnapshotAsRead(choice) ==
  IF Usable(choice) THEN EventsOf(journal) ELSE None

(* load_journal_snapshot, for the two commands that refuse an invalid one *)
VerifiedSnapshot(choice) ==
  IF Usable(choice) /\ VerifyJournal(journal, Resolve(choice), None) = {}
  THEN EventsOf(journal)
  ELSE None

(* audit_journal and _cmd_audit *)
AuditExit(choice) ==
  LET events == VerifiedSnapshot(choice)
  IN  IF /\ events # None
         /\ AuditIssues(Said(events)) = {}
         /\ ~NeedsReconciliation(Said(events))
      THEN 0 ELSE 1

(* inspect_verified_snapshot *)
Inspect(events) ==
  LET actions == {i \in DOMAIN events : events[i].says.type = "decision"}
  IN  [event_count |-> Len(events),
       safe_for_upload |->
         SafeForUpload({ClassifyEvent(events[i].says).class : i \in actions})]

InspectRaises(events) ==
  \E i \in DOMAIN events :
    events[i].says.type = "decision" /\ LoopRaises(events[i].says.retention)

(* inspect_journal and _cmd_inspect; to find something is no failure. *)
InspectReport(choice) ==
  LET events == VerifiedSnapshot(choice)
  IN  IF events = None \/ InspectRaises(events) THEN None ELSE Inspect(events)

-----------------------------------------------------------------------------
(* The commands that write; key-info and key-rotate change the home before *)
(* they report on a trusted set that cannot be read.                       *)

KeyInfo ==
  /\ LoadOrCreate
  /\ UNCHANGED <<journal, witness, author, written>>

(* Mutant: only the new key is trusted. *)
KeyRotateForgetting ==
  /\ key' \in Keys \ (trusted \cup {key})
  /\ trusted' = {key'}
  /\ UNCHANGED <<journal, witness, readable, author, written>>

KeyRotate ==
  /\ key' \in Keys \ (trusted \cup {key})
  /\ trusted' = trusted \cup ({key} \ {None}) \cup {key'}
  /\ UNCHANGED <<journal, witness, readable, author, written>>

CheckpointSaying == [type |-> "checkpoint", id |-> Len(written) + 1]

(* checkpoint_journal signs with the key of this home; it does not verify. *)
CheckpointCommand ==
  /\ LoadOrCreate
  /\ AppendEvent(CheckpointSaying, Len(Lines), key')
  /\ witness' = journal'[Len(journal')]
  /\ UNCHANGED author

Next ==
  \/ \E says \in Sayings : Write(says)
  \/ Damage
  \/ SpoilTrusted
  \/ KeyInfo
  \/ KeyRotate
  \/ CheckpointCommand

Spec == Init /\ [][Next]_vars

-----------------------------------------------------------------------------
(***************************************************************************)
(* No command reports on evidence that was changed, moved or taken from    *)
(* the middle after it was written, or written by a key that was not       *)
(* chosen: what audit and inspect report on is how the writing began.      *)
(***************************************************************************)
ReportsAreOfWhatWasWritten ==
  \A choice \in KeyChoices :
    LET events == VerifiedSnapshot(choice)
    IN  AuditExit(choice) = 0 \/ InspectReport(choice) # None =>
          /\ IsPrefix(events, written)
          /\ \A i \in DOMAIN events : events[i].key \in Resolve(choice)

(* docs/EVIDENCE_FORMAT.md, lines 190 to 201, of events with their fields *)
Reconciled(events) ==
  /\ \A i, j \in DOMAIN events : i # j => events[i].id # events[j].id
  /\ \A j \in DOMAIN events : events[j].type = "outcome" =>
       \E d \in 1..(j - 1) :
         /\ events[d].type = "decision"
         /\ events[d].id = events[j].ref
         /\ events[d].identity = events[j].identity
         /\ events[d].verdict = "allowed"
         /\ events[j].verdict = "succeeded"
  /\ \A d \in DOMAIN events : events[d].type = "decision" =>
       LET outcomes == {j \in DOMAIN events :
                          events[j].type = "outcome" /\ events[j].ref = events[d].id}
       IN  CASE events[d].verdict = "allowed" -> Cardinality(outcomes) = 1
             [] events[d].verdict = "denied" -> outcomes = {}
             [] OTHER -> FALSE

(***************************************************************************)
(* README.md, "audit": the command succeeds exactly on a journal that      *)
(* verifies, in which every allowed decision has its one successful        *)
(* outcome and nothing else is amiss, whoever wrote it.                    *)
(***************************************************************************)
AuditSucceedsWhenReconciled ==
  \A choice \in KeyChoices :
    AuditExit(choice) = 0
      <=> VerifyExit(choice, None) = 0 /\ Reconciled(Said(EventsOf(journal)))

(* The decision event shows no argument but as the redaction marker. *)
NothingInTheClear(event) ==
  IF event.retention # Absent
  THEN /\ event.retention # Malformed
       /\ Cardinality(NamesOf(event.retention)) = Len(event.retention)
       /\ \A i \in DOMAIN event.retention : event.retention[i].state = "redacted"
  ELSE /\ event.summary # Malformed
       /\ ~event.summary.cut
       /\ \A i \in DOMAIN event.summary.parts : event.summary.parts[i].value = Redacted

(***************************************************************************)
(* privacy.py: a journal is called safe for upload exactly when every      *)
(* decision in it shows nothing but markers; a decision whose record is    *)
(* cut, repeated, of an unknown state or malformed is never safe.          *)
(***************************************************************************)
SafeMeansNothingInTheClear ==
  \A choice \in KeyChoices :
    LET report == InspectReport(choice)
    IN  report # None =>
          (report.safe_for_upload <=>
             \A i \in DOMAIN EventsOf(journal) :
               LET event == EventsOf(journal)[i].says
               IN  event.type = "decision" => NothingInTheClear(event))

(***************************************************************************)
(* cli.py, _cmd_key_rotate: "old events remain verifiable via the trusted  *)
(* set": the undamaged journal of this home verifies with it, alone and    *)
(* against its witness, whatever was rotated and checkpointed in between.  *)
(***************************************************************************)
OldEventsStayVerifiable ==
  author = "home" /\ journal # None /\ journal = written /\ readable
    => \A against \in {None, witness} : VerifyExit("trusted", against) = 0

=============================================================================
