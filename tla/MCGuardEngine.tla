--------------------------- MODULE MCGuardEngine ---------------------------
(***************************************************************************)
(* Instances of GuardEngine for TLC: two calls for one contract.  Either   *)
(* both go through the same observer, or each has its own and the two      *)
(* observers share one id.                                                 *)
(***************************************************************************)
EXTENDS GuardEngine, TLC

CONSTANTS c1, c2, o1, o2, k1

MCSharedObserver == (c1 :> o1) @@ (c2 :> o1)

MCOwnObservers == (c1 :> o1) @@ (c2 :> o2)

MCContractOf == (c1 :> k1) @@ (c2 :> k1)

MCIdOf == (o1 :> 1) @@ (o2 :> 2) @@ (None :> 0)

MCReusedId == (o1 :> 1) @@ (o2 :> 1) @@ (None :> 0)

=============================================================================
