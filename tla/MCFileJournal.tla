--------------------------- MODULE MCFileJournal ---------------------------
(***************************************************************************)
(* Instances of JournalTail for TLC.  Writers w1 and w2 are threads of     *)
(* process p1, w3 is the only thread of p2.                                *)
(***************************************************************************)
EXTENDS JournalTail, TLC

CONSTANTS w1, w2, w3, p1, p2, l1, l2, l3

MCWriters == {w1, w2, w3}

MCProcesses == {p1, p2}

MCThreadLocks == {l1, l2, l3}

MCProcessOf == (w1 :> p1) @@ (w2 :> p1) @@ (w3 :> p2)

(* The two threads of p1 reach the file under the same path. *)
MCOnePath == (w1 :> l1) @@ (w2 :> l1) @@ (w3 :> l3)

(* One spells the path relative and the other absolute: two locks. *)
MCAliasedPaths == (w1 :> l1) @@ (w2 :> l2) @@ (w3 :> l3)

=============================================================================
