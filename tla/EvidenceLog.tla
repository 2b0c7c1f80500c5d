---------------------------- MODULE EvidenceLog ----------------------------
(***************************************************************************)
(* What the journal promises its callers, independently of files, locks    *)
(* and buffers: one totally ordered, hash-chained log.  An event enters    *)
(* the log atomically and commits to its predecessor; an event that was    *)
(* acknowledged to the caller is never lost again, one that was not may    *)
(* disappear when the machine dies.                                        *)
(*                                                                         *)
(* FileJournal implements this specification whenever its writers are      *)
(* serialized and no buffered line is left over by a failed flush.         *)
(***************************************************************************)
EXTENDS Naturals, Sequences, SequencesExt

CONSTANTS
  Hashes,   \* event hashes; one per event, SHA-256 being collision-free here
  Kinds,    \* what an event records
  None      \* JSON null, the previous_event_hash of the first event

VARIABLES
  log,      \* the journal, oldest event first
  acked     \* the events append_event or append_checkpoint has returned

vars == <<log, acked>>

Event == [hash  : Hashes,
          kind  : Kinds,
          prev  : Hashes \cup {None},
          count : Nat]

TypeOK ==
  /\ log \in Seq(Event)
  /\ acked \subseteq Event

HashOfLast == IF log = <<>> THEN None ELSE Last(log).hash

Init ==
  /\ log = <<>>
  /\ acked = {}

(***************************************************************************)
(* The next event commits to the event before it, a checkpoint also to the *)
(* number of events it covers.  No event enters the log twice.             *)
(***************************************************************************)
Extend(h, k) ==
  /\ \A i \in DOMAIN log : log[i].hash # h
  /\ log' = Append(log, [hash  |-> h,
                         kind  |-> k,
                         prev  |-> HashOfLast,
                         count |-> IF k = "checkpoint" THEN Len(log) ELSE 0])
  /\ UNCHANGED acked

Acknowledge(i) ==
  /\ acked' = acked \cup {log[i]}
  /\ UNCHANGED log

(* A crash of the machine drops a tail that was never acknowledged. *)
LoseTail(n) ==
  /\ \A e \in acked : \E i \in 1..n : log[i] = e
  /\ log' = SubSeq(log, 1, n)
  /\ UNCHANGED acked

Next ==
  \/ \E h \in Hashes, k \in Kinds : Extend(h, k)
  \/ \E i \in DOMAIN log : Acknowledge(i)
  \/ \E n \in 0..Len(log) : LoseTail(n)

Spec == Init /\ [][Next]_vars

=============================================================================
