------------------------------ MODULE TailRead ------------------------------
(***************************************************************************)
(* src/guardrail_evidence/journal.py, _read_last_event_hash: the last line *)
(* of a file, found by reading backward.  A window at the end of the file  *)
(* is read, and doubled until it is known to hold the whole last line.     *)
(*                                                                         *)
(* A file is a sequence of bytes, of which only the two that rstrip and    *)
(* rfind look for are told apart.                                          *)
(***************************************************************************)
EXTENDS Naturals, Sequences

CONSTANTS LF, CR

Largest(S) == CHOOSE i \in S : \A j \in S : j <= i

Smallest(S) == CHOOSE i \in S : \A j \in S : i <= j

(* Where the text is that rstrip(b"\r\n") would not remove if it came last. *)
TextAfter(bytes, start) == {i \in (start + 1)..Len(bytes) : bytes[i] \notin {LF, CR}}

BreaksBetween(bytes, start, end) == {i \in (start + 1)..end : bytes[i] = LF}

(***************************************************************************)
(* The last line of the file, without its newlines; empty in a file that   *)
(* holds nothing else.                                                     *)
(***************************************************************************)
LastLine(bytes) ==
  LET text == TextAfter(bytes, 0)
      end == Largest(text)
      breaks == BreaksBetween(bytes, 0, end)
  IN  IF text = {} THEN <<>>
      ELSE SubSeq(bytes, IF breaks = {} THEN 1 ELSE Largest(breaks) + 1, end)

(* Mutant: a window without a newline is taken for the whole line. *)
LineInTooSmall(bytes, start) ==
  LET text == TextAfter(bytes, start)
      end == Largest(text)
      breaks == BreaksBetween(bytes, start, end)
  IN  IF text = {} THEN {<<>> : s \in {start} \cap {0}}
      ELSE {SubSeq(bytes, IF breaks = {} THEN start + 1 ELSE Largest(breaks) + 1, end)}

(* The line that the window from start on gives; none if it is too small. *)
LineIn(bytes, start) ==
  LET text == TextAfter(bytes, start)
      end == Largest(text)
      breaks == BreaksBetween(bytes, start, end)
  IN  IF text = {} THEN {<<>> : s \in {start} \cap {0}}
      ELSE IF breaks # {} THEN {SubSeq(bytes, Largest(breaks) + 1, end)}
      ELSE {SubSeq(bytes, 1, end) : s \in {start} \cap {0}}

StartOf(bytes, window) == IF window < Len(bytes) THEN Len(bytes) - window ELSE 0

(* The sizes of the windows: first, doubled until it is past the file. *)
WindowSizes(bytes, first) ==
  LET size[n \in 0..Len(bytes)] == IF n = 0 THEN first ELSE 2 * size[n - 1]
  IN  {size[n] : n \in 0..Len(bytes)}

(* The loop: the line that the smallest sufficient window gives. *)
ReadBackward(bytes, first) ==
  LET sufficient == {w \in WindowSizes(bytes, first) : LineIn(bytes, StartOf(bytes, w)) # {}}
  IN  IF sufficient = {} THEN {}
      ELSE LineIn(bytes, StartOf(bytes, Smallest(sufficient)))

=============================================================================
