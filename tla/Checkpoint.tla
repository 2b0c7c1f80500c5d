----------------------------- MODULE Checkpoint -----------------------------
(***************************************************************************)
(* src/guardrail_evidence/checkpoint.py: processes that checkpoint one     *)
(* journal into one witness file while others append to it and the signing *)
(* key is rotated; and the custody of what they leave behind: an operator  *)
(* saves the witness file at some moment, and a copy of the journal is     *)
(* damaged before it is verified.                                          *)
(*                                                                         *)
(* Appends are atomic, and durable once they return: FileJournal           *)
(* implements EvidenceLog.                                                 *)
(***************************************************************************)
EXTENDS Verification, SequencesExt

CONSTANTS
  Checkpointers, \* processes in checkpoint_journal
  Keys,          \* signing keys the operator creates
  FirstKey,
  ForeignKey,    \* a key outside the trusted set
  Radix,         \* base in which checkpoint_count is written (the code's is ten)
  Faults,        \* the faults that may happen, among AllFaults
  MaxEvents,     \* bound: events ever appended
  MaxEdits       \* bound: edits of the copy

AllFaults == {"io", "kill", "power"}

ASSUME CheckpointAssumption ==
  /\ FirstKey \in Keys
  /\ ForeignKey \notin Keys
  /\ Radix \in Nat \ {0, 1}
  /\ Faults \subseteq AllFaults
  /\ MaxEvents \in Nat
  /\ MaxEdits \in Nat

VARIABLES
  journal,   \* the events in the journal
  kept,      \* how many of them are durable
  issued,    \* how many event ids have been drawn
  key,       \* the current signing key
  trusted,   \* the trusted set
  pc,        \* where each process is in checkpoint_journal
  event,     \* the checkpoint event of each process
  witness,   \* the content of the witness file; None: there is no file
  durable,   \* what of it the last fsync made durable
  saved,     \* the operator's copy of the witness, or None
  taken,     \* the journal when it was copied
  copy,      \* the copy, or None
  edits      \* how often the copy was edited

journalVars == <<journal, kept, issued>>
keyVars == <<key, trusted>>
witnessVars == <<witness, durable>>
custodyVars == <<saved, taken, copy, edits>>
vars == <<journalVars, keyVars, pc, event, witnessVars, custodyVars>>

PCs == {"idle", "sync", "open", "write", "fsync"}

Checkpoints == {e \in Range(journal) : e.kind = "checkpoint"}

TypeOK ==
  /\ kept \in 0..Len(journal)
  /\ issued \in Len(journal)..MaxEvents
  /\ key \in trusted /\ trusted \subseteq Keys
  /\ pc \in [Checkpointers -> PCs]
  /\ event \in [Checkpointers -> Checkpoints \cup {None}]
  /\ \A e \in Range(journal) :
       Authentic(e, Keys) /\ (e.kind = "checkpoint" => e.head = e.prev)
  /\ {witness, durable} \subseteq Checkpoints \cup {None, Blank, Garbled}
  /\ saved \in Checkpoints \cup {None}
  /\ edits \in 0..MaxEdits

Init ==
  /\ journal = <<>>
  /\ kept = 0
  /\ issued = 0
  /\ key = FirstKey
  /\ trusted = {FirstKey}
  /\ pc = [c \in Checkpointers |-> "idle"]
  /\ event = [c \in Checkpointers |-> None]
  /\ witness = None
  /\ durable = None
  /\ saved = None
  /\ taken = <<>>
  /\ copy = None
  /\ edits = 0

-----------------------------------------------------------------------------
(* The journal and the keys. *)

NewEvent(kind) ==
  LET prev == IF journal = <<>> THEN None ELSE Last(journal).hash
      checkpoint == kind = "checkpoint"
  IN  Finalize([id    |-> issued + 1,
                shape |-> "known",
                kind  |-> kind,
                body  |-> "written",
                prev  |-> prev,
                head  |-> IF checkpoint THEN prev ELSE None,
                count |-> IF checkpoint THEN Len(journal) ELSE 0,
                key   |-> None,
                hash  |-> None,
                sig   |-> None], key)

Extend(e) ==
  /\ issued < MaxEvents
  /\ issued' = issued + 1
  /\ journal' = Append(journal, e)

(* A guarded call appends an event; its append returns or fails to sync. *)
AppendEvent ==
  /\ Extend(NewEvent("decision"))
  /\ kept' \in {kept, Len(journal')}
  /\ UNCHANGED <<keyVars, pc, event, witnessVars, custodyVars>>

(* Mutant: the outgoing key is dropped from the trusted set. *)
RotateForgetting ==
  /\ key' \in Keys \ trusted
  /\ trusted' = {key'}
  /\ UNCHANGED <<journalVars, pc, event, witnessVars, custodyVars>>

RotateKey ==
  /\ key' \in Keys \ trusted
  /\ trusted' = trusted \cup {key'}
  /\ UNCHANGED <<journalVars, pc, event, witnessVars, custodyVars>>

-----------------------------------------------------------------------------
(* checkpoint_journal *)

Goto(c, from, to) ==
  /\ pc[c] = from
  /\ pc' = [pc EXCEPT ![c] = to]

(* store.append_checkpoint(build), as far as the event is in the file *)
AppendCheckpoint(c) ==
  /\ Goto(c, "idle", "sync")
  /\ Extend(NewEvent("checkpoint"))
  /\ event' = [event EXCEPT ![c] = NewEvent("checkpoint")]
  /\ UNCHANGED <<kept, keyVars, witnessVars, custodyVars>>

(* append_checkpoint returns. *)
SyncCheckpoint(c) ==
  /\ Goto(c, "sync", "open")
  /\ kept' = Len(journal)
  /\ UNCHANGED <<journal, issued, keyVars, event, witnessVars, custodyVars>>

(* _write_durable: open(path, "w") cuts an older witness to nothing. *)
OpenWitness(c) ==
  /\ Goto(c, "open", "write")
  /\ witness' = Blank
  /\ UNCHANGED <<journalVars, keyVars, event, durable, custodyVars>>

Longer(d, e) == d.count >= Radix /\ e.count < Radix

(* The file after text is written at its start: a longer one that another
   process wrote since the file was opened sticks out behind it. *)
Overwritten(content, e) ==
  IF content \in {None, Blank} THEN e
  ELSE IF content = Garbled \/ Longer(content, e) THEN Garbled
  ELSE e

(* Mutant: the witness is written without its signature. *)
WriteUnsigned(c) ==
  /\ Goto(c, "write", "fsync")
  /\ witness' = Overwritten(witness, [event[c] EXCEPT !.sig = None])
  /\ UNCHANGED <<journalVars, keyVars, event, durable, custodyVars>>

(* handle.write, handle.flush *)
WriteWitness(c) ==
  /\ Goto(c, "write", "fsync")
  /\ witness' = Overwritten(witness, event[c])
  /\ UNCHANGED <<journalVars, keyVars, event, durable, custodyVars>>

(* os.fsync; the report is returned. *)
FsyncWitness(c) ==
  /\ Goto(c, "fsync", "idle")
  /\ durable' = witness
  /\ event' = [event EXCEPT ![c] = None]
  /\ UNCHANGED <<journalVars, keyVars, witness, custodyVars>>

(* Any of these steps raises; a write may have got half way. *)
CheckpointFails(c) ==
  /\ "io" \in Faults
  /\ \E from \in PCs \ {"idle"} :
       /\ Goto(c, from, "idle")
       /\ witness' \in {witness} \cup (IF from = "write" THEN {Garbled} ELSE {})
  /\ event' = [event EXCEPT ![c] = None]
  /\ UNCHANGED <<journalVars, keyVars, durable, custodyVars>>

Kill(c) ==
  /\ "kill" \in Faults
  /\ pc[c] # "idle"
  /\ Goto(c, pc[c], "idle")
  /\ event' = [event EXCEPT ![c] = None]
  /\ UNCHANGED <<journalVars, keyVars, witnessVars, custodyVars>>

(* What was not synced may be lost, from the journal and from the witness. *)
PowerLoss ==
  /\ "power" \in Faults
  /\ \/ \E c \in Checkpointers : pc[c] # "idle"
     \/ kept < Len(journal)
     \/ witness # durable
  /\ \E k \in kept..Len(journal) : kept' = k /\ journal' = SubSeq(journal, 1, k)
  /\ witness' \in {witness, durable}
                    \cup (IF witness = durable THEN {} ELSE {Blank})
  /\ durable' = witness'
  /\ pc' = [c \in Checkpointers |-> "idle"]
  /\ event' = [c \in Checkpointers |-> None]
  /\ UNCHANGED <<issued, keyVars, custodyVars>>

-----------------------------------------------------------------------------
(* Custody, outside the program: the operator and what happens to a copy. *)

(* The operator copies the witness file whenever it holds a valid witness. *)
SaveWitness ==
  /\ WitnessIssues(witness, trusted) = {}
  /\ saved' = witness
  /\ UNCHANGED <<journalVars, keyVars, pc, event, witnessVars, taken,
                 copy, edits>>

CopyJournal ==
  /\ copy = None
  /\ copy' = journal
  /\ taken' = journal
  /\ UNCHANGED <<journalVars, keyVars, pc, event, witnessVars, saved,
                 edits>>

(* Every event id is drawn and no checkpoint is under way. *)
AllDone == issued = MaxEvents /\ \A c \in Checkpointers : pc[c] = "idle"

Changed(e) == [e EXCEPT !.body = "changed"]

(* One event changed, as it is, with its hash or with hash and signature
   recomputed, or in its count; deprived of a field; or repeated. *)
Altered(lines, i) ==
  LET changed == Changed(lines[i])
  IN  {ReplaceAt(lines, i, changed),
       ReplaceAt(lines, i, [changed EXCEPT !.hash = Digest(changed)]),
       ReplaceAt(lines, i, Finalize(changed, ForeignKey)),
       ReplaceAt(lines, i, [changed EXCEPT !.count = None]),
       ReplaceAt(lines, i, [lines[i] EXCEPT !.shape = "missing_fields", !.count = None]),
       InsertAt(lines, i, lines[i])}

(* One event altered, dropped or moved; noise between events; a tail cut. *)
EditsOf(lines) ==
  (UNION {Altered(lines, i) : i \in {j \in DOMAIN lines : lines[j] \notin {Blank, Garbled}}})
    \cup {RemoveAt(lines, i) : i \in DOMAIN lines}
    \cup {ReplaceAt(ReplaceAt(lines, i, lines[i + 1]), i + 1, lines[i]) :
            i \in 1..(Len(lines) - 1)}
    \cup {InsertAt(lines, i, Blank) : i \in 1..(Len(lines) + 1)}
    \cup {InsertAt(lines, i, Garbled) : i \in 1..(Len(lines) + 1)}
    \cup {SubSeq(lines, 1, n) : n \in 0..(Len(lines) - 1)}

(* It depends on nothing but the copy, so that it is enough to look at it
   when everything else has happened and settled. *)
EditCopy ==
  /\ copy # None
  /\ AllDone
  /\ kept = Len(journal) /\ durable = witness
  /\ edits < MaxEdits
  /\ edits' = edits + 1
  /\ copy' \in EditsOf(copy)
  /\ UNCHANGED <<journalVars, keyVars, pc, event, witnessVars, saved,
                 taken>>

-----------------------------------------------------------------------------
CheckpointStep(c) ==
  \/ AppendCheckpoint(c)
  \/ SyncCheckpoint(c)
  \/ OpenWitness(c)
  \/ WriteWitness(c)
  \/ FsyncWitness(c)
  \/ CheckpointFails(c)
  \/ Kill(c)

Terminating == AllDone /\ UNCHANGED vars

Next ==
  \/ AppendEvent
  \/ RotateKey
  \/ \E c \in Checkpointers : CheckpointStep(c)
  \/ PowerLoss
  \/ SaveWitness
  \/ CopyJournal
  \/ EditCopy
  \/ Terminating

Spec == Init /\ [][Next]_vars

-----------------------------------------------------------------------------
(***************************************************************************)
(* No false alarm: at every moment the journal verifies, alone and against *)
(* every witness the operator has saved, whichever key has signed, whoever *)
(* else was checkpointing, and whatever a power loss took away.            *)
(***************************************************************************)
IntactJournalVerifies ==
  /\ VerifyJournal(journal, trusted, None) = {}
  /\ VerifyJournal(journal, trusted, saved) = {}

(***************************************************************************)
(* A copy that verifies is a prefix of what was written, event for event:  *)
(* verification.py, "modified events, reordered events, and deletion from  *)
(* the middle" are detected, and no two of them cancel out.                *)
(***************************************************************************)
DamageIsDetected ==
  copy # None /\ VerifyJournal(copy, trusted, None) = {}
    => IsPrefix(EventsOf(copy), taken)

(***************************************************************************)
(* A copy that verifies against a saved witness has lost nothing up to and *)
(* including the checkpoint, also if it was taken before the checkpoint.   *)
(***************************************************************************)
WitnessDetectsLoss ==
  copy # None /\ saved # None /\ VerifyJournal(copy, trusted, saved) = {}
    => LET n == saved.count + 1
       IN  /\ Len(EventsOf(copy)) >= n
           /\ SubSeq(EventsOf(copy), 1, n) = SubSeq(journal, 1, n)

(***************************************************************************)
(* checkpoint.py, _write_durable: "fsync so the witness survives a crash": *)
(* once a witness is durable, the file holds a witness whenever no         *)
(* checkpoint is under way.                                                *)
(***************************************************************************)
WitnessSurvives ==
  WitnessIssues(durable, trusted) = {} /\ (\A c \in Checkpointers : pc[c] = "idle")
    => WitnessIssues(witness, trusted) = {}

=============================================================================
