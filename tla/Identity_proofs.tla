-------------------------- MODULE Identity_proofs --------------------------
(***************************************************************************)
(* Proofs about Identity, for any number of processes, keys and calls.     *)
(***************************************************************************)
EXTENDS Identity, TLAPS

-----------------------------------------------------------------------------
(***************************************************************************)
(* The inductive invariant behind the theorems of Identity_proofs.  A file *)
(* of the trusted set is cut only while somebody is writing it, or since   *)
(* such a write was given up.  A key that has signed has a file there, or  *)
(* is the key of an older home in which nothing but it was ever read.      *)
(***************************************************************************)
CutInv ==
  \A k \in Keys : pem[k] = Cut =>
    k \in spoiled \/ \E p \in Processes : pc[p] = "writeTrusted" /\ key[p] = k

OldHome(k) ==
  /\ Registered = {}
  /\ public = k /\ private = k
  /\ \A p \in Processes :
       /\ pc[p] \notin {"openPrivate", "writePrivate", "openPublic", "writePublic"}
       /\ key[p] \in {k, Missing}

HandedInv == \A k \in handed \ spoiled : pem[k] # Missing \/ OldHome(k)

IdentityInv == TypeOK /\ CutInv /\ HandedInv

-----------------------------------------------------------------------------
LEMMA IdentityInit == Init => IdentityInv
<1> SUFFICES ASSUME Init PROVE IdentityInv
  OBVIOUS
<1> USE IdentityAssumption
<1>1. TypeOK
  BY DEF Init, TypeOK, PCs
<1>2. CutInv
  BY DEF Init, CutInv
<1>3. HandedInv
  BY DEF Init, HandedInv, OldHome, Registered
<1> QED
  BY <1>1, <1>2, <1>3 DEF IdentityInv

-----------------------------------------------------------------------------
(* Types. *)

LEMMA StepType ==
  ASSUME TypeOK, NEW p \in Processes, Step(p)
  PROVE  TypeOK'
<1> USE IdentityAssumption DEF TypeOK, PCs, files, Goto
<1>1. CASE LoadOrCreate(p)
  BY <1>1 DEF LoadOrCreate, Begin
<1>2. CASE RotateKey(p)
  BY <1>2 DEF RotateKey, Begin
<1>3. CASE FindKey(p)
  BY <1>3 DEF FindKey, Generate, Leave
<1>4. CASE Heal(p)
  BY <1>4 DEF Heal
<1>5. CASE OutgoingPublic(p)
  BY <1>5 DEF OutgoingPublic
<1>6. CASE OutgoingPrivate(p)
  BY <1>6 DEF OutgoingPrivate, Generate
<1>7. CASE OpenPrivate(p)
  BY <1>7 DEF OpenPrivate
<1>8. CASE WritePrivate(p)
  BY <1>8 DEF WritePrivate
<1>9. CASE OpenPublic(p)
  BY <1>9 DEF OpenPublic
<1>10. CASE WritePublic(p)
  BY <1>10 DEF WritePublic
<1>11. CASE Register(p)
  BY <1>11 DEF Register, GoOn, Generate, Leave
<1>12. CASE OpenTrusted(p)
  BY <1>12 DEF OpenTrusted
<1>13. CASE WriteTrusted(p)
  BY <1>13 DEF WriteTrusted, GoOn, Generate, Leave
<1>14. CASE FileError(p)
  BY <1>14 DEF FileError, GoOn, Generate, Leave
<1>15. CASE Kill(p)
  BY <1>15 DEF Kill, Leave
<1>16. CASE FindRefused(p)
  BY <1>16 DEF FindRefused, Leave
<1>17. CASE OutgoingRefused(p)
  BY <1>17 DEF OutgoingRefused, PrivateRefused, Generate
<1> QED
  BY <1>1, <1>2, <1>3, <1>4, <1>5, <1>6, <1>7, <1>8, <1>9, <1>10, <1>11, <1>12,
     <1>13, <1>14, <1>15, <1>16, <1>17 DEF Step

-----------------------------------------------------------------------------
(* A cut file of the trusted set has a writer, or was given up. *)

LEMMA StepCut ==
  ASSUME TypeOK, CutInv, NEW p \in Processes, Step(p)
  PROVE  CutInv'
<1> SUFFICES ASSUME NEW k \in Keys, pem'[k] = Cut
             PROVE  k \in spoiled' \/ \E q \in Processes : pc'[q] = "writeTrusted" /\ key'[q] = k
  BY DEF CutInv
<1> USE IdentityAssumption DEF files, Goto
<1>0. /\ pc \in [Processes -> PCs] /\ key \in [Processes -> drawn \cup {Missing}]
      /\ pem \in [Keys -> drawn \cup {Missing, Cut}] /\ drawn \subseteq Keys
  BY DEF TypeOK
<1>1. CASE OpenTrusted(p)
  <2>1. /\ pc' = [pc EXCEPT ![p] = "writeTrusted"] /\ key' = key /\ spoiled' = spoiled
        /\ pem' = [pem EXCEPT ![key[p]] = Cut] /\ pc[p] = "openTrusted"
    BY <1>1 DEF OpenTrusted
  <2>2. CASE k = key[p]
    BY <1>0, <2>1, <2>2
  <2>3. CASE k # key[p]
    BY <1>0, <2>1, <2>3 DEF CutInv
  <2> QED
    BY <2>2, <2>3
<1>2. CASE WriteTrusted(p)
  <2>1. /\ pem' = [pem EXCEPT ![key[p]] = key[p]] /\ spoiled' = spoiled
        /\ pc[p] = "writeTrusted" /\ key[p] \in drawn
        /\ \A q \in Processes \ {p} : pc'[q] = pc[q] /\ key'[q] = key[q]
    BY <1>0, <1>2 DEF WriteTrusted, GoOn, Leave, Generate, TypeOK
  <2>2. k # key[p] /\ pem[k] = Cut
    BY <1>0, <2>1
  <2> QED
    BY <2>1, <2>2 DEF CutInv
<1>3. CASE FileError(p)
  <2>1. /\ pem' = pem /\ spoiled \subseteq spoiled'
        /\ pc[p] = "writeTrusted" => key[p] \in spoiled'
        /\ \A q \in Processes \ {p} : pc'[q] = pc[q] /\ key'[q] = key[q]
    BY <1>0, <1>3 DEF FileError, GoOn, Leave, Generate
  <2> QED
    BY <2>1 DEF CutInv
<1>4. CASE Kill(p)
  <2>1. /\ pem' = pem /\ spoiled \subseteq spoiled'
        /\ pc[p] = "writeTrusted" => key[p] \in spoiled'
        /\ \A q \in Processes \ {p} : pc'[q] = pc[q] /\ key'[q] = key[q]
    BY <1>0, <1>4 DEF Kill, Leave
  <2> QED
    BY <2>1 DEF CutInv
<1>5. CASE ~(OpenTrusted(p) \/ WriteTrusted(p) \/ FileError(p) \/ Kill(p))
  <2>1. /\ pem' = pem /\ spoiled \subseteq spoiled' /\ pc[p] # "writeTrusted"
        /\ \A q \in Processes \ {p} : pc'[q] = pc[q] /\ key'[q] = key[q]
    BY <1>0, <1>5 DEF Step, LoadOrCreate, RotateKey, Begin, FindKey, Heal, OutgoingPublic,
       OutgoingPrivate, FindRefused, OutgoingRefused, OpenPrivate, WritePrivate,
       OpenPublic, WritePublic, Register, GoOn, Leave, Generate
  <2> QED
    BY <2>1 DEF CutInv
<1> QED
  BY <1>1, <1>2, <1>3, <1>4, <1>5

-----------------------------------------------------------------------------
(* A key that has signed is on file, or still the only one of an older home. *)

(* What a step does to the files of the trusted set and to what was handed out. *)
LEMMA StepHands ==
  ASSUME TypeOK, NEW p \in Processes, Step(p)
  PROVE  /\ \A k \in Keys : pem[k] # Missing => pem'[k] # Missing
         /\ handed' \subseteq handed \cup {key[p]}
         /\ handed' # handed => pem'[key[p]] # Missing
         /\ spoiled \subseteq spoiled'
<1> USE IdentityAssumption DEF files, Goto
<1>0. /\ pc \in [Processes -> PCs] /\ key \in [Processes -> drawn \cup {Missing}]
      /\ pem \in [Keys -> drawn \cup {Missing, Cut}] /\ drawn \subseteq Keys
  BY DEF TypeOK
<1>1. CASE OpenTrusted(p)
  BY <1>0, <1>1 DEF OpenTrusted
<1>2. CASE WriteTrusted(p)
  <2>1. key[p] \in Keys /\ key[p] # Missing
    BY <1>0, <1>2 DEF WriteTrusted, TypeOK
  <2> QED
    BY <1>0, <1>2, <2>1 DEF WriteTrusted, GoOn, Leave, Generate
<1>3. CASE ~(OpenTrusted(p) \/ WriteTrusted(p))
  BY <1>0, <1>3 DEF Step, LoadOrCreate, RotateKey, Begin, FindKey, Heal, OutgoingPublic,
     OutgoingPrivate, FindRefused, OutgoingRefused, OpenPrivate, WritePrivate, OpenPublic,
     WritePublic, Register, FileError, Kill, GoOn, Leave, Generate
<1> QED
  BY <1>1, <1>2, <1>3

(* As long as the key of an older home has not been registered, nor its
   registration given up, every step leaves it where it is. *)
LEMMA StepOldHome ==
  ASSUME TypeOK, NEW p \in Processes, Step(p), NEW k \in Keys, OldHome(k)
  PROVE  OldHome(k)' \/ pem'[k] # Missing \/ k \in spoiled'
<1> USE IdentityAssumption DEF files, Goto
<1>0. /\ pc \in [Processes -> PCs] /\ key \in [Processes -> drawn \cup {Missing}]
      /\ pem \in [Keys -> drawn \cup {Missing, Cut}] /\ drawn \subseteq Keys
      /\ \A q \in Processes :
           pc[q] \in {"idle", "find", "outgoingPublic", "outgoingPrivate"} \/ key[q] \in drawn
  BY DEF TypeOK
<1>1. /\ \A l \in Keys : pem[l] = Missing
      /\ public = k /\ private = k /\ k # Missing /\ k # Cut
      /\ pc[p] \notin {"openPrivate", "writePrivate", "openPublic", "writePublic"}
      /\ key[p] \in {k, Missing}
  BY DEF OldHome, Registered
<1>2. ASSUME UNCHANGED <<private, public, pem>>,
             \A q \in Processes \ {p} : pc'[q] = pc[q] /\ key'[q] = key[q],
             pc'[p] \notin {"openPrivate", "writePrivate", "openPublic", "writePublic"},
             key'[p] \in {k, Missing}
      PROVE  OldHome(k)'
  BY <1>2 DEF OldHome, Registered
<1>3. CASE OpenTrusted(p)
  BY <1>0, <1>1, <1>3 DEF OpenTrusted
<1>4. CASE WriteTrusted(p)
  BY <1>0, <1>1, <1>4 DEF WriteTrusted
<1>5. CASE FileError(p)
  <2>1. key[p] \in spoiled' /\ key[p] \in drawn
    BY <1>0, <1>1, <1>5 DEF FileError
  <2> QED
    BY <1>0, <1>1, <2>1
<1>6. CASE Kill(p)
  BY <1>0, <1>1, <1>2, <1>6 DEF Kill, Leave
<1>7. CASE Register(p)
  <2>1. key[p] = k /\ pem[k] = Missing
    BY <1>0, <1>1, <1>7 DEF Register
  <2> QED
    BY <1>0, <1>1, <1>2, <1>7, <2>1 DEF Register
<1>8. CASE FindKey(p)
  BY <1>0, <1>1, <1>2, <1>8 DEF FindKey
<1>9. CASE OutgoingPublic(p)
  BY <1>0, <1>1, <1>2, <1>9 DEF OutgoingPublic
<1>10. CASE LoadOrCreate(p) \/ RotateKey(p) \/ Heal(p)
  BY <1>0, <1>1, <1>2, <1>10 DEF LoadOrCreate, RotateKey, Begin, Heal
<1>11. CASE OutgoingPrivate(p)
  BY <1>0, <1>1, <1>2, <1>11 DEF OutgoingPrivate
<1>12. CASE FindRefused(p)
  BY <1>0, <1>1, <1>2, <1>12 DEF FindRefused, Leave
<1>13. CASE OutgoingRefused(p)
  BY <1>0, <1>1, <1>2, <1>13 DEF OutgoingRefused
<1>14. ~(OpenPrivate(p) \/ WritePrivate(p) \/ OpenPublic(p) \/ WritePublic(p))
  BY <1>1 DEF OpenPrivate, WritePrivate, OpenPublic, WritePublic
<1> QED
  BY <1>3, <1>4, <1>5, <1>6, <1>7, <1>8, <1>9, <1>10, <1>11, <1>12, <1>13, <1>14 DEF Step

LEMMA StepHanded ==
  ASSUME TypeOK, HandedInv, NEW p \in Processes, Step(p)
  PROVE  HandedInv'
<1> SUFFICES ASSUME NEW k \in handed' \ spoiled'
             PROVE  pem'[k] # Missing \/ OldHome(k)'
  BY DEF HandedInv
<1>1. CASE k \notin handed
  BY <1>1, StepHands
<1>2. CASE k \in handed
  <2>1. k \in Keys /\ k \notin spoiled /\ (pem[k] # Missing \/ OldHome(k))
    BY <1>2, StepHands DEF HandedInv, TypeOK
  <2> QED
    BY <2>1, StepHands, StepOldHome
<1> QED
  BY <1>1, <1>2

-----------------------------------------------------------------------------
LEMMA IdentityNext == IdentityInv /\ [Next]_vars => IdentityInv'
<1> SUFFICES ASSUME IdentityInv, [Next]_vars PROVE IdentityInv'
  OBVIOUS
<1>1. ASSUME NEW p \in Processes, Step(p) PROVE IdentityInv'
  BY <1>1, StepType, StepCut, StepHanded DEF IdentityInv
<1>2. CASE UNCHANGED vars
  <2> USE <1>2 DEF vars, files, IdentityInv
  <2>1. TypeOK'
    BY DEF TypeOK
  <2>2. CutInv'
    BY DEF CutInv
  <2>3. HandedInv'
    BY DEF HandedInv, OldHome, Registered
  <2> QED
    BY <2>1, <2>2, <2>3
<1> QED
  BY <1>1, <1>2 DEF Next, Terminating

THEOREM IdentityInvariance == Spec => []IdentityInv
  BY IdentityInit, IdentityNext, PTL DEF Spec

(***************************************************************************)
(* The variables keep their types.                                         *)
(***************************************************************************)
THEOREM TypeCorrect == Spec => []TypeOK
<1>1. IdentityInv => TypeOK
  BY DEF IdentityInv
<1> QED
  BY <1>1, IdentityInvariance, PTL

LEMMA Trusted == IdentityInv => HandedKeysStayTrusted
<1> SUFFICES ASSUME IdentityInv PROVE HandedKeysStayTrusted
  OBVIOUS
<1> USE IdentityAssumption DEF IdentityInv
<1>0. /\ handed \subseteq Keys /\ pem \in [Keys -> drawn \cup {Missing, Cut}]
      /\ \A k \in Keys : pem[k] \in {Missing, Cut, k}
  BY DEF TypeOK
<1>1. CASE LoadRaises
  <2> SUFFICES ASSUME handed # {}, spoiled = {}
               PROVE  \E p \in Processes : pc[p] = "writeTrusted"
    BY <1>1 DEF HandedKeysStayTrusted
  <2>1. PICK k \in handed : pem[k] # Missing \/ OldHome(k)
    BY DEF HandedInv
  <2>2. CASE \E l \in Registered : pem[l] = Cut
    BY <2>2 DEF CutInv, Registered
  <2>3. ~(Registered = {} /\ public = Cut)
    BY <1>0, <2>1 DEF OldHome, Registered
  <2> QED
    BY <1>1, <2>2, <2>3 DEF LoadRaises
<1>2. CASE ~LoadRaises
  <2>1. ASSUME NEW k \in handed \ spoiled PROVE k \in TrustedKeys
    <3>1. CASE pem[k] # Missing
      <4>1. k \in Registered /\ pem[k] = k
        BY <1>0, <1>2, <3>1 DEF Registered, LoadRaises
      <4> QED
        BY <4>1 DEF TrustedKeys, Registered
    <3>2. CASE OldHome(k)
      BY <1>0, <3>2 DEF OldHome, TrustedKeys
    <3> QED
      BY <3>1, <3>2 DEF HandedInv
  <2> QED
    BY <1>2, <2>1 DEF HandedKeysStayTrusted
<1> QED
  BY <1>1, <1>2

(***************************************************************************)
(* identity.py: whatever processes load, create and rotate at once, and    *)
(* wherever they fail or are killed, every key that has signed is in the   *)
(* trusted set, except one whose own registration failed or was skipped.   *)
(***************************************************************************)
THEOREM KeysStayTrusted == Spec => []HandedKeysStayTrusted
  BY Trusted, IdentityInvariance, PTL

=============================================================================
