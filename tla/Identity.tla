------------------------------ MODULE Identity ------------------------------
(***************************************************************************)
(* src/guardrail_evidence/identity.py: processes that share an evidence    *)
(* home.  Each loads the signing key, creating it if there is none, or     *)
(* rotates it, and registers public keys in the trusted set.  There is no  *)
(* lock: every file is opened, which empties it, and then written.         *)
(*                                                                         *)
(* exists() and the read behind it are one step, which loses nothing since *)
(* no file is ever removed.  The PEM texts of keys have one length, so     *)
(* that a write replaces whatever was written since the file was opened.   *)
(***************************************************************************)
EXTENDS FiniteSets, Naturals

CONSTANTS
  Processes,
  Keys,       \* key pairs; generating one draws a fresh member
  Missing,    \* no such file; no key in hand
  Cut,        \* a file that was emptied and not, or not wholly, written
  Faults,     \* the faults that may happen, among AllFaults
  MaxCalls    \* bound: calls of load_or_create and rotate_key

AllFaults == {"io", "kill"}

ASSUME IdentityAssumption ==
  /\ Missing \notin Keys /\ Cut \notin Keys /\ Missing # Cut
  /\ Faults \subseteq AllFaults
  /\ MaxCalls \in Nat

VARIABLES
  private,  \* signing_key.pem
  public,   \* verify_key.pem
  pem,      \* the files of trusted_keys, by the key that gives the name
  drawn,    \* the keys generated so far
  calls,    \* how many calls were started
  pc,       \* where each process is
  key,      \* the key it has in hand
  after,    \* where it goes on after register_public_key
  handed,   \* history: keys of the identities that were returned
  added,    \* history: keys for which register_public_key has returned
  spoiled   \* history: keys one of whose registrations failed, or was cut off or skipped

files == <<private, public, pem>>
vars == <<files, drawn, calls, pc, key, after, handed, added, spoiled>>

PCs == {"idle", "find", "heal", "outgoingPublic", "outgoingPrivate",
        "openPrivate", "writePrivate", "openPublic", "writePublic",
        "register", "openTrusted", "writeTrusted"}

TypeOK ==
  /\ {private, public} \subseteq drawn \cup {Missing, Cut}
  /\ pem \in [Keys -> drawn \cup {Missing, Cut}]
  /\ \A k \in Keys : pem[k] \in {Missing, Cut, k}
  /\ calls \in 0..MaxCalls
  /\ pc \in [Processes -> PCs]
  /\ key \in [Processes -> drawn \cup {Missing}]
  /\ \A p \in Processes :
       pc[p] \in {"idle", "find", "outgoingPublic", "outgoingPrivate"} \/ key[p] \in drawn
  /\ after \in [Processes -> {"outgoingPrivate", "generate", "return"}]
  /\ handed \cup added \cup spoiled \subseteq drawn /\ drawn \subseteq Keys

(* A home without keys, or one from before the trusted set existed, whose key
   has been in use. *)
Init ==
  /\ \E old \in Keys \cup {Missing} :
       /\ private = old
       /\ public = old
       /\ drawn = {old} \ {Missing}
  /\ pem = [k \in Keys |-> Missing]
  /\ calls = 0
  /\ pc = [p \in Processes |-> "idle"]
  /\ key = [p \in Processes |-> Missing]
  /\ after = [p \in Processes |-> "return"]
  /\ handed = drawn
  /\ added = {}
  /\ spoiled = {}

-----------------------------------------------------------------------------
(* load_trusted_public_keys *)

Registered == {k \in Keys : pem[k] # Missing}

LoadRaises ==
  \/ \E k \in Registered : pem[k] = Cut
  \/ Registered = {} /\ public = Cut

TrustedKeys ==
  IF Registered = {} THEN {public} \cap Keys ELSE {k \in Keys : pem[k] = k}

-----------------------------------------------------------------------------
Goto(p, from, to) ==
  /\ pc[p] = from
  /\ pc' = [pc EXCEPT ![p] = to]

Begin(p, to) ==
  /\ Goto(p, "idle", to)
  /\ calls < MaxCalls
  /\ calls' = calls + 1
  /\ UNCHANGED <<files, drawn, key, after, handed, added, spoiled>>

LoadOrCreate(p) == Begin(p, "find")

RotateKey(p) == Begin(p, "outgoingPublic")

(* Ed25519PrivateKey.generate() *)
Generate(p) ==
  \E k \in Keys \ drawn :
    /\ drawn' = drawn \cup {k}
    /\ key' = [key EXCEPT ![p] = k]
    /\ after' = [after EXCEPT ![p] = "return"]
    /\ pc' = [pc EXCEPT ![p] = "openPrivate"]
    /\ UNCHANGED handed

Leave(p) ==
  /\ pc' = [pc EXCEPT ![p] = "idle"]
  /\ key' = [key EXCEPT ![p] = Missing]
  /\ after' = [after EXCEPT ![p] = "return"]
  /\ UNCHANGED drawn

(* register_public_key is over; the identity is returned, or rotate_key goes on. *)
GoOn(p) ==
  \/ /\ after[p] = "return"
     /\ Leave(p)
     /\ handed' = handed \cup {key[p]}
  \/ /\ after[p] = "outgoingPrivate"
     /\ pc' = [pc EXCEPT ![p] = "outgoingPrivate"]
     /\ UNCHANGED <<drawn, key, after, handed>>
  \/ after[p] = "generate" /\ Generate(p)

-----------------------------------------------------------------------------
(* load_or_create *)

(* Mutant: whatever the file holds passes for a key. *)
FindAnything(p) ==
  /\ pc[p] = "find"
  /\ \/ private = Missing /\ Generate(p)
     \/ /\ private # Missing
        /\ key' = [key EXCEPT ![p] = private]
        /\ pc' = [pc EXCEPT ![p] = "heal"]
        /\ UNCHANGED <<drawn, after, handed>>
  /\ UNCHANGED <<files, calls, added, spoiled>>

FindKey(p) ==
  /\ pc[p] = "find"
  /\ \/ private = Missing /\ Generate(p)
     \/ private = Cut /\ Leave(p) /\ UNCHANGED handed
     \/ /\ private \in Keys
        /\ key' = [key EXCEPT ![p] = private]
        /\ pc' = [pc EXCEPT ![p] = "heal"]
        /\ UNCHANGED <<drawn, after, handed>>
  /\ UNCHANGED <<files, calls, added, spoiled>>

(* A missing verify_key.pem is written anew. *)
Heal(p) ==
  /\ Goto(p, "heal", IF public = Missing THEN "openPublic" ELSE "register")
  /\ UNCHANGED <<files, drawn, calls, key, after, handed, added, spoiled>>

-----------------------------------------------------------------------------
(* rotate_key: the candidates for the outgoing key; an unreadable file is skipped. *)

(* Mutant: the new key replaces the old one before that is registered. *)
GenerateFirst(p) ==
  /\ pc[p] = "outgoingPublic"
  /\ Generate(p)
  /\ UNCHANGED <<files, calls, added, spoiled>>

OutgoingPublic(p) ==
  /\ Goto(p, "outgoingPublic", IF public \in Keys THEN "register" ELSE "outgoingPrivate")
  /\ IF public \in Keys
     THEN /\ key' = [key EXCEPT ![p] = public]
          /\ after' = [after EXCEPT ![p] = "outgoingPrivate"]
     ELSE UNCHANGED <<key, after>>
  /\ UNCHANGED <<files, drawn, calls, handed, added, spoiled>>

OutgoingPrivate(p) ==
  /\ pc[p] = "outgoingPrivate"
  /\ \/ private \notin Keys /\ Generate(p)
     \/ /\ private \in Keys
        /\ key' = [key EXCEPT ![p] = private]
        /\ after' = [after EXCEPT ![p] = "generate"]
        /\ pc' = [pc EXCEPT ![p] = "register"]
        /\ UNCHANGED <<drawn, handed>>
  /\ UNCHANGED <<files, calls, added, spoiled>>

(***************************************************************************)
(* _load_private_key raises, or before it _require_private_permissions:    *)
(* the mode of the file is an outside matter and may be wrong at any time. *)
(***************************************************************************)
PrivateRefused == "io" \in Faults /\ private \in Keys

(* The call ends with IdentityError. *)
FindRefused(p) ==
  /\ pc[p] = "find"
  /\ PrivateRefused
  /\ Leave(p)
  /\ UNCHANGED <<files, calls, handed, added, spoiled>>

(* rotate_key goes on without the candidate: "a stale or unreadable file must
   not block rotation". *)
OutgoingRefused(p) ==
  /\ \/ /\ Goto(p, "outgoingPublic", "outgoingPrivate")
        /\ "io" \in Faults /\ public \in Keys
        /\ UNCHANGED <<drawn, key, after, handed, spoiled>>
     \/ /\ pc[p] = "outgoingPrivate"
        /\ PrivateRefused
        /\ Generate(p)
        /\ spoiled' = spoiled \cup {k \in {private} : pem[k] = Missing}
  /\ UNCHANGED <<files, calls, added>>

-----------------------------------------------------------------------------
(* The key files *)

OpenPrivate(p) ==
  /\ Goto(p, "openPrivate", "writePrivate")
  /\ private' = Cut
  /\ UNCHANGED <<public, pem, drawn, calls, key, after, handed, added, spoiled>>

WritePrivate(p) ==
  /\ Goto(p, "writePrivate", "openPublic")
  /\ private' = key[p]
  /\ UNCHANGED <<public, pem, drawn, calls, key, after, handed, added, spoiled>>

OpenPublic(p) ==
  /\ Goto(p, "openPublic", "writePublic")
  /\ public' = Cut
  /\ UNCHANGED <<private, pem, drawn, calls, key, after, handed, added, spoiled>>

WritePublic(p) ==
  /\ Goto(p, "writePublic", "register")
  /\ public' = key[p]
  /\ UNCHANGED <<private, pem, drawn, calls, key, after, handed, added, spoiled>>

(* register_public_key: a file that exists is left alone. *)
Register(p) ==
  /\ pc[p] = "register"
  /\ \/ /\ pem[key[p]] = Missing
        /\ pc' = [pc EXCEPT ![p] = "openTrusted"]
        /\ UNCHANGED <<drawn, key, after, handed, added>>
     \/ /\ pem[key[p]] # Missing
        /\ added' = added \cup {key[p]}
        /\ GoOn(p)
  /\ UNCHANGED <<files, calls, spoiled>>

OpenTrusted(p) ==
  /\ Goto(p, "openTrusted", "writeTrusted")
  /\ pem' = [pem EXCEPT ![key[p]] = Cut]
  /\ UNCHANGED <<private, public, drawn, calls, key, after, handed, added, spoiled>>

WriteTrusted(p) ==
  /\ pc[p] = "writeTrusted"
  /\ pem' = [pem EXCEPT ![key[p]] = key[p]]
  /\ added' = added \cup {key[p]}
  /\ GoOn(p)
  /\ UNCHANGED <<private, public, calls, spoiled>>

-----------------------------------------------------------------------------
(* Opening or writing a file raises.  rotate_key ignores that it could not
   register an outgoing key; every other error ends the call. *)
FileError(p) ==
  /\ "io" \in Faults
  /\ \/ /\ pc[p] \in {"openPrivate", "writePrivate", "openPublic", "writePublic"}
        /\ Leave(p)
        /\ UNCHANGED <<handed, added, spoiled>>
     \/ /\ pc[p] \in {"openTrusted", "writeTrusted"}
        /\ spoiled' = spoiled \cup {key[p]}
        /\ \/ after[p] # "return" /\ GoOn(p)
           \/ after[p] = "return" /\ Leave(p) /\ UNCHANGED handed
  /\ UNCHANGED <<files, calls, added>>

Kill(p) ==
  /\ "kill" \in Faults
  /\ pc[p] # "idle"
  /\ Leave(p)
  /\ spoiled' = spoiled \cup (IF pc[p] = "writeTrusted" THEN {key[p]} ELSE {})
  /\ UNCHANGED <<files, calls, handed, added>>

-----------------------------------------------------------------------------
Step(p) ==
  \/ LoadOrCreate(p)
  \/ RotateKey(p)
  \/ FindKey(p)
  \/ Heal(p)
  \/ OutgoingPublic(p)
  \/ OutgoingPrivate(p)
  \/ FindRefused(p)
  \/ OutgoingRefused(p)
  \/ OpenPrivate(p)
  \/ WritePrivate(p)
  \/ OpenPublic(p)
  \/ WritePublic(p)
  \/ Register(p)
  \/ OpenTrusted(p)
  \/ WriteTrusted(p)
  \/ FileError(p)
  \/ Kill(p)

AllIdle == \A p \in Processes : pc[p] = "idle"

Terminating == calls = MaxCalls /\ AllIdle /\ UNCHANGED vars

Next == (\E p \in Processes : Step(p)) \/ Terminating

Spec == Init /\ [][Next]_vars

-----------------------------------------------------------------------------
(***************************************************************************)
(* identity.py, rotate_key: "events signed before the rotation continue to *)
(* verify".  Whatever other processes load, create or rotate meanwhile,    *)
(* the trusted set holds every key that has signed, unless a registration  *)
(* of that very key failed, was cut off, or was skipped in a rotation that *)
(* could read neither key file; and it can be read, unless a registration  *)
(* is under way or was cut off.                                            *)
(***************************************************************************)
HandedKeysStayTrusted ==
  IF LoadRaises
  THEN handed = {} \/ spoiled # {} \/ \E p \in Processes : pc[p] = "writeTrusted"
  ELSE handed \ spoiled \subseteq TrustedKeys

(***************************************************************************)
(* identity.py, register_public_key: "Add key to the trusted set           *)
(* (idempotent)".  When no call is under way, the trusted set holds every  *)
(* key for which the function has returned.                                *)
(***************************************************************************)
RegisteredMeansTrusted ==
  AllIdle => added \subseteq TrustedKeys

=============================================================================
