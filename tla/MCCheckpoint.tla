---------------------------- MODULE MCCheckpoint ----------------------------
(***************************************************************************)
(* Instances of Checkpoint for TLC.  A radix of two makes the texts of the *)
(* witnesses differ in length after two events.                            *)
(***************************************************************************)
EXTENDS Checkpoint, TLC

CONSTANTS p1, p2

ProcessSymmetry == Permutations({p1, p2})

=============================================================================
