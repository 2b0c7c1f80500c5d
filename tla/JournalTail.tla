---------------------------- MODULE JournalTail ----------------------------
(***************************************************************************)
(* The journal of FileJournal read as TailRead reads it: each piece of an  *)
(* event and each newline is one byte of the file, so that a window can    *)
(* begin anywhere in a line, whole, torn or shared by two writers.         *)
(***************************************************************************)
EXTENDS FileJournal, TailRead

CONSTANT MaxWindow  \* bound: the largest size of the first window

(* JSON text is written without newlines. *)
ASSUME TailAssumption ==
  /\ LF \notin Fragment /\ CR \notin Fragment
  /\ MaxWindow \in Nat

Ext == INSTANCE SequencesExt

Bytes == Ext!FlattenSeq([i \in DOMAIN lines |-> Append(lines[i], LF)]) \o partial

(* _event_hash_from_line; null where the file holds nothing but newlines *)
EventHashFromLine(line) ==
  CASE line = <<>> -> {None}
    [] line # <<>> /\ IsEventLine(line) -> {line[1].event.hash}
    [] OTHER -> {}

(***************************************************************************)
(* A writer that reads the tail through windows, whatever their size, gets *)
(* the hash of the last line that is not blank, or is refused where that   *)
(* line is no event: what FileJournal's ReadTail and TailRefused take.     *)
(***************************************************************************)
WindowsFindTheTail ==
  \A w \in Writers : pc[w] = "read" =>
    \A first \in 1..MaxWindow :
      {EventHashFromLine(line) : line \in ReadBackward(Bytes, first)} = {TailHashes(FileLines)}

=============================================================================
