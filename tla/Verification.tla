---------------------------- MODULE Verification ----------------------------
(***************************************************************************)
(* src/guardrail_evidence/verification.py: offline verification of a       *)
(* journal, alone or against a checkpoint witness.                         *)
(*                                                                         *)
(* A journal is a sequence of lines: Blank, Garbled (no JSON object) or an *)
(* event.  An event's id stands for every field as it was written; its     *)
(* body tells whether any of them was changed later.  Its count is the     *)
(* checkpoint_count, or None if it has none that is a natural number.      *)
(* SHA-256 has no collisions: the digest is what it is computed from.  A   *)
(* signature is the key it was made with and the digest it was made over.  *)
(***************************************************************************)
EXTENDS Naturals, Sequences

CONSTANTS
  None,     \* JSON null; no witness
  Blank,    \* a line of white space
  Garbled   \* bytes that are not a JSON object

Shapes == {"known", "unknown_schema", "unknown_event_type", "missing_fields"}

(* event_digest(unsigned_payload(event)) *)
Digest(e) == <<e.id, e.body, e.prev>>

Sign(key, digest) == <<key, digest>>

(* finalize_event *)
Finalize(e, key) ==
  [e EXCEPT !.key = key, !.hash = Digest(e), !.sig = Sign(key, Digest(e))]

Authentic(e, trusted) ==
  /\ e.hash = Digest(e)
  /\ e.key \in trusted
  /\ e.sig = Sign(e.key, Digest(e))

(* Mutant: the linkage is left to the hashes. *)
EventIssuesUnlinked(e, expected, trusted) ==
  IF Authentic(e, trusted) THEN {} ELSE {"hash_mismatch"}

(* _verify_event *)
EventIssues(e, expected, trusted) ==
  IF e.shape # "known"
  THEN {e.shape}
  ELSE {code \in {"checkpoint_head_mismatch", "checkpoint_bad_count", "chain_break",
                  "hash_mismatch", "unknown_key", "bad_signature"} :
          CASE code = "checkpoint_head_mismatch" -> e.kind = "checkpoint" /\ e.head # e.prev
            [] code = "checkpoint_bad_count" -> e.kind = "checkpoint" /\ e.count = None
            [] code = "chain_break" -> e.prev # expected
            [] code = "hash_mismatch" -> e.hash # Digest(e)
            [] code = "unknown_key" -> e.key \notin trusted
            [] code = "bad_signature" -> e.key \in trusted /\ e.sig # Sign(e.key, Digest(e))}

-----------------------------------------------------------------------------
(* Reading stops at the first line that is not a JSON object. *)
Readable(journal) ==
  {i \in DOMAIN journal : \A j \in 1..i : journal[j] # Garbled}

(* The events on the lines read so far, line by line. *)
EventsOf(journal) ==
  LET events[n \in 0..Len(journal)] ==
        IF n = 0 THEN <<>>
        ELSE IF n \notin Readable(journal) \/ journal[n] = Blank THEN events[n - 1]
        ELSE Append(events[n - 1], journal[n])
  IN  events[Len(journal)]

ChainIssues(events, trusted) ==
  UNION {EventIssues(events[i], IF i = 1 THEN None ELSE events[i - 1].hash, trusted) :
           i \in DOMAIN events}

(* _load_checkpoint_witness: a witness is used only if this is empty. *)
WitnessIssues(witness, trusted) ==
  IF witness = None
  THEN {"checkpoint_witness_unreadable"}
  ELSE IF /\ witness \notin {Blank, Garbled}
          /\ witness.shape = "known"
          /\ witness.kind = "checkpoint"
          /\ witness.head = witness.prev
          /\ witness.count # None
          /\ Authentic(witness, trusted)
       THEN {}
       ELSE {"checkpoint_witness_invalid"}

Newest(events) ==
  LET checkpoints == {i \in DOMAIN events : events[i].kind = "checkpoint"}
  IN  {events[i] : i \in {j \in checkpoints : \A k \in checkpoints : k <= j}}

TruncationIssues(events, checkpoint) ==
  IF Len(events) < checkpoint.count THEN {"checkpoint_truncation"} ELSE {}

(* Mutant: only the length is compared with the witness. *)
CoverageIssuesByLength(events, witness) ==
  UNION {TruncationIssues(events, c) :
           c \in {d \in Newest(events) \cup ({witness} \ {None}) : d.count # None}}

(* _checkpoint_coverage; witness is None when there is no usable one.  The *)
(* newest checkpoint is taken as it is, so that max() or int() raises if it *)
(* has no count: a KeyError, TypeError or ValueError instead of a result.   *)
CoverageIssues(events, witness) ==
  LET found      == witness # None /\ \E i \in DOMAIN events : events[i].id = witness.id
      candidates == Newest(events) \cup (IF found THEN {witness} ELSE {})
      effective  == {c \in candidates : \A d \in candidates : d.count <= c.count}
  IN  (IF \E c \in candidates : c.count = None
       THEN {"raises"}
       ELSE UNION {TruncationIssues(events, c) : c \in effective})
        \cup IF witness = None \/ found
             THEN {}
             ELSE {"checkpoint_not_found"} \cup TruncationIssues(events, witness)

(* verify_journal(journal, trusted, checkpoint=witness); None: no witness given *)
VerifyJournal(journal, trusted, witness) ==
  LET events == EventsOf(journal)
      issues == IF witness = None THEN {} ELSE WitnessIssues(witness, trusted)
      usable == IF issues = {} THEN witness ELSE None
  IN  issues
        \cup ChainIssues(events, trusted)
        \cup (IF Readable(journal) # DOMAIN journal THEN {"malformed_json"} ELSE {})
        \cup CoverageIssues(events, usable)

-----------------------------------------------------------------------------
(***************************************************************************)
(* What writers with these keys make of a journal: each event authentic    *)
(* and linked to the one before it, no event twice, and no checkpoint that *)
(* counts more than what is in front of it.                                *)
(***************************************************************************)
Chain(log, keys) ==
  /\ log \in Seq({log[i] : i \in DOMAIN log})
  /\ \A i \in DOMAIN log :
       LET e == log[i]
       IN  /\ e \notin {None, Blank, Garbled}
           /\ e.shape = "known"
           /\ Authentic(e, keys)
           /\ e.prev = IF i = 1 THEN None ELSE log[i - 1].hash
           /\ e.kind = "checkpoint" => e.head = e.prev /\ e.count \in 0..(i - 1)
  /\ \A i, j \in DOMAIN log : log[i].id = log[j].id => i = j

=============================================================================
