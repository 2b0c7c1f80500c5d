--------------------------- MODULE Checkpoint_proofs ---------------------------
(***************************************************************************)
(* The custody of journals and witnesses, proved for any number of         *)
(* processes, keys, events and edits, and under every fault.               *)
(***************************************************************************)
EXTENDS Checkpoint, Verification_proofs

-----------------------------------------------------------------------------
(***************************************************************************)
(* The inductive invariant behind the theorems of Checkpoint_proofs.       *)
(*                                                                         *)
(* The journal and the journal as it was copied are chains of events whose *)
(* ids have been drawn, and one chain as far as both hold the same event.  *)
(***************************************************************************)
EventFields ==
  {"id", "shape", "kind", "body", "prev", "head", "count", "key", "hash", "sig"}

Drawn(log) ==
  \A i \in DOMAIN log :
    /\ DOMAIN log[i] = EventFields
    /\ log[i].body = "written"
    /\ log[i].id \in 1..issued

LogInv == Chain(journal, trusted) /\ Drawn(journal)

TakenInv ==
  /\ Chain(taken, trusted) /\ Drawn(taken)
  /\ \A i \in DOMAIN taken, j \in DOMAIN journal :
       taken[i].id = journal[j].id => i = j /\ \A k \in 1..i : taken[k] = journal[k]

(* A checkpoint is behind the events it counts, and durable before its
   witness is opened. *)
InPlace(e) ==
  /\ e.kind = "checkpoint" /\ e.count \in Nat
  /\ e.count + 1 \in DOMAIN journal /\ journal[e.count + 1] = e

Settled(e) == InPlace(e) /\ e.count + 1 <= kept

WriterInv(c) ==
  CASE pc[c] = "idle" -> event[c] = None
    [] pc[c] = "sync" -> InPlace(event[c])
    [] OTHER -> Settled(event[c])

WitnessFileInv ==
  \A content \in {witness, durable} : content \in {None, Blank, Garbled} \/ Settled(content)

WitnessInv ==
  /\ \A c \in Checkpointers : WriterInv(c)
  /\ WitnessFileInv
  /\ saved = None \/ Settled(saved)

(* Whatever was done to a line of the copy, it is as it was written, or lacks
   a field, or no key of the trusted set has signed it. *)
Plausible(line) ==
  \/ line \in {Blank, Garbled}
  \/ /\ DOMAIN line = EventFields
     /\ \/ line \in Range(taken)
        \/ line.shape # "known"
        \/ line.body = "changed" /\ \A k \in Keys : line.sig # Sign(k, Digest(line))

CopyInv ==
  copy # None => copy \in Seq(Range(copy)) /\ \A i \in DOMAIN copy : Plausible(copy[i])

CustodyInv == TypeOK /\ LogInv /\ TakenInv /\ WitnessInv /\ CopyInv

-----------------------------------------------------------------------------
LEMMA InitInv ==
  ASSUME Init PROVE CustodyInv
<1>1. TypeOK
  BY CheckpointAssumption DEF Init, TypeOK, PCs, Checkpoints, Range
<1>2. \A keys : Chain(<<>>, keys)
  BY EmptySeq DEF Chain
<1>3. LogInv /\ TakenInv
  BY <1>2 DEF Init, LogInv, TakenInv, Drawn
<1>4. WitnessInv /\ CopyInv
  BY DEF Init, WitnessInv, WriterInv, WitnessFileInv, CopyInv
<1> QED BY <1>1, <1>3, <1>4 DEF CustodyInv

(* finalize_event of what the engine or append_checkpoint builds *)
LEMMA NewEventFacts ==
  ASSUME NEW kind, NEW e, e = NewEvent(kind)
  PROVE  /\ DOMAIN e = EventFields
         /\ e.id = issued + 1 /\ e.shape = "known" /\ e.kind = kind /\ e.body = "written"
         /\ e.prev = IF journal = <<>> THEN None ELSE Last(journal).hash
         /\ kind = "checkpoint" => e.head = e.prev /\ e.count = Len(journal)
         /\ Authentic(e, {key})
BY DEF NewEvent, Finalize, EventFields, Authentic, Digest, Sign

-----------------------------------------------------------------------------
(* What a step may do to the journal, the keys and the copied journal. *)

Extended(kind) ==
  /\ journal' = Append(journal, NewEvent(kind)) /\ kind \in {"decision", "checkpoint"}
  /\ issued' = issued + 1 /\ issued < MaxEvents
  /\ UNCHANGED <<key, trusted, taken>>

Shortened ==
  /\ \E k \in kept..Len(journal) : kept' = k /\ journal' = SubSeq(journal, 1, k)
  /\ UNCHANGED <<issued, key, trusted, taken>>

Rotated ==
  /\ key' \in Keys /\ trusted' = trusted \cup {key'}
  /\ UNCHANGED <<journal, issued, taken>>

Copied == taken' = journal /\ UNCHANGED <<journal, issued, key, trusted>>

LEMMA LogSteps ==
  ASSUME [Next]_vars
  PROVE  \/ \E kind : Extended(kind)
         \/ Shortened
         \/ Rotated
         \/ Copied
         \/ UNCHANGED <<journal, issued, key, trusted, taken>>
<1>1. CASE AppendEvent
  BY <1>1 DEF AppendEvent, Extend, Extended, keyVars, custodyVars
<1>2. CASE RotateKey
  BY <1>2 DEF RotateKey, Rotated, journalVars, custodyVars
<1>3. ASSUME NEW c \in Checkpointers, CheckpointStep(c)
      PROVE  (\E kind : Extended(kind)) \/ UNCHANGED <<journal, issued, key, trusted, taken>>
  <2>1. CASE AppendCheckpoint(c)
    BY <2>1 DEF AppendCheckpoint, Extend, Extended, keyVars, custodyVars
  <2>2. CASE SyncCheckpoint(c)
    BY <2>2 DEF SyncCheckpoint, keyVars, custodyVars
  <2>3. CASE OpenWitness(c) \/ WriteWitness(c)
    BY <2>3 DEF OpenWitness, WriteWitness, journalVars, keyVars, custodyVars
  <2>4. CASE FsyncWitness(c) \/ CheckpointFails(c) \/ Kill(c)
    BY <2>4 DEF FsyncWitness, CheckpointFails, Kill, journalVars, keyVars, custodyVars
  <2> QED BY <1>3, <2>1, <2>2, <2>3, <2>4 DEF CheckpointStep
<1>4. CASE PowerLoss
  BY <1>4 DEF PowerLoss, Shortened, keyVars, custodyVars
<1>5. CASE SaveWitness \/ EditCopy
  BY <1>5 DEF SaveWitness, EditCopy, journalVars, keyVars
<1>6. CASE CopyJournal
  BY <1>6 DEF CopyJournal, Copied, journalVars, keyVars
<1>7. CASE Terminating \/ UNCHANGED vars
  BY <1>7 DEF Terminating, vars, journalVars, keyVars, custodyVars
<1> QED BY <1>1, <1>2, <1>3, <1>4, <1>5, <1>6, <1>7 DEF Next

LEMMA LogTypes ==
  ASSUME CustodyInv
  PROVE  /\ Len(journal) \in Nat /\ DOMAIN journal = 1..Len(journal)
         /\ Len(taken) \in Nat /\ DOMAIN taken = 1..Len(taken)
         /\ kept \in 0..Len(journal) /\ issued \in Nat
BY CheckpointAssumption DEF CustodyInv, TypeOK, LogInv, TakenInv, Chain

(* The event that is appended makes a longer chain. *)
LEMMA ExtendedChain ==
  ASSUME NoiseIsNoData, CustodyInv, NEW kind, Extended(kind)
  PROVE  /\ Chain(journal', trusted)
         /\ Len(journal') = Len(journal) + 1
         /\ DOMAIN journal' = 1..(Len(journal) + 1)
         /\ \A i \in DOMAIN journal : journal'[i] = journal[i]
         /\ journal'[Len(journal) + 1] = NewEvent(kind)
<1> DEFINE e == NewEvent(kind)
<1>1. /\ DOMAIN e = EventFields
      /\ e.id = issued + 1 /\ e.shape = "known" /\ e.kind = kind /\ e.body = "written"
      /\ e.prev = IF journal = <<>> THEN None ELSE Last(journal).hash
      /\ kind = "checkpoint" => e.head = e.prev /\ e.count = Len(journal)
      /\ Authentic(e, {key})
  BY NewEventFacts
<1> HIDE DEF e
<1>2. e \notin {None, Blank, Garbled}
  BY <1>1 DEF NoiseIsNoData, EventFields
<1>3. Authentic(e, trusted)
  BY <1>1 DEF Authentic, CustodyInv, TypeOK
<1>4. e.prev = IF journal = <<>> THEN None ELSE journal[Len(journal)].hash
  BY <1>1 DEF Last
<1>5. \A i \in DOMAIN journal : journal[i].id # e.id
  BY <1>1, LogTypes DEF CustodyInv, LogInv, Drawn
<1>6. e.kind = "checkpoint" => e.head = e.prev /\ e.count \in 0..Len(journal)
  BY <1>1, LogTypes
<1>7. Chain(journal, trusted)
  BY DEF CustodyInv, LogInv
<1>8. journal' = Append(journal, e)
  BY DEF Extended, e
<1> QED BY <1>1, <1>2, <1>3, <1>4, <1>5, <1>6, <1>7, <1>8, LongerChain DEF e

LEMMA LogNext ==
  ASSUME NoiseIsNoData, CustodyInv, [Next]_vars
  PROVE  LogInv' /\ TakenInv'
<1> USE LogTypes DEF CustodyInv
<1>1. ASSUME NEW kind, Extended(kind) PROVE LogInv' /\ TakenInv'
  <2>1. /\ Chain(journal', trusted)
        /\ Len(journal') = Len(journal) + 1
        /\ DOMAIN journal' = 1..(Len(journal) + 1)
        /\ \A i \in DOMAIN journal : journal'[i] = journal[i]
        /\ journal'[Len(journal) + 1] = NewEvent(kind)
    BY <1>1, ExtendedChain
  <2>2. /\ DOMAIN journal'[Len(journal) + 1] = EventFields
        /\ journal'[Len(journal) + 1].body = "written"
        /\ journal'[Len(journal) + 1].id = issued + 1
    BY <2>1, NewEventFacts
  <2>3. UNCHANGED <<trusted, taken>> /\ issued' = issued + 1
    BY <1>1 DEF Extended
  <2>4. \A j \in DOMAIN journal' :
          \/ j \in DOMAIN journal /\ journal'[j] = journal[j]
          \/ j = Len(journal) + 1
    BY <2>1
  <2>5. Drawn(journal)'
    BY <2>2, <2>3, <2>4 DEF LogInv, Drawn
  <2>6. Chain(taken, trusted)' /\ Drawn(taken)'
    BY <2>3 DEF TakenInv, Drawn
  <2>7. ASSUME NEW i \in DOMAIN taken, NEW j \in DOMAIN journal',
               taken[i].id = journal'[j].id
        PROVE  i = j /\ \A k \in 1..i : taken[k] = journal'[k]
    <3>1. taken[i].id \in 1..issued
      BY DEF TakenInv, Drawn
    <3>2. j \in DOMAIN journal /\ journal'[j] = journal[j]
      BY <2>2, <2>4, <2>7, <3>1
    <3>3. i = j /\ \A k \in 1..i : taken[k] = journal[k]
      BY <2>7, <3>2 DEF TakenInv
    <3> QED BY <2>1, <3>2, <3>3
  <2> QED BY <2>1, <2>3, <2>5, <2>6, <2>7 DEF LogInv, TakenInv
<1>2. CASE Shortened
  <2>1. PICK k \in kept..Len(journal) : journal' = SubSeq(journal, 1, k)
    BY <1>2 DEF Shortened
  <2>2. UNCHANGED <<issued, trusted, taken>>
    BY <1>2 DEF Shortened
  <2>3. /\ Chain(journal', trusted)
        /\ DOMAIN journal' = 1..k
        /\ \A i \in 1..k : i \in DOMAIN journal /\ journal'[i] = journal[i]
    BY <2>1, PrefixChain DEF LogInv
  <2>4. Drawn(journal)'
    BY <2>2, <2>3 DEF LogInv, Drawn
  <2>5. ASSUME NEW i \in DOMAIN taken, NEW j \in DOMAIN journal',
               taken[i].id = journal'[j].id
        PROVE  i = j /\ \A n \in 1..i : taken[n] = journal'[n]
    <3>1. j \in DOMAIN journal /\ journal'[j] = journal[j] /\ j \in 1..k
      BY <2>3
    <3>2. i = j /\ \A n \in 1..i : taken[n] = journal[n]
      BY <2>5, <3>1 DEF TakenInv
    <3> QED BY <2>3, <3>1, <3>2
  <2> QED BY <2>2, <2>3, <2>4, <2>5 DEF LogInv, TakenInv, Drawn
<1>3. CASE Rotated
  <2>1. trusted \subseteq trusted' /\ UNCHANGED <<journal, issued, taken>>
    BY <1>3 DEF Rotated
  <2>2. Chain(journal, trusted') /\ Chain(taken, trusted')
    BY <2>1, MoreKeys DEF LogInv, TakenInv
  <2> QED BY <2>1, <2>2 DEF LogInv, TakenInv, Drawn
<1>4. CASE Copied
  <2>1. taken' = journal /\ UNCHANGED <<journal, issued, trusted>>
    BY <1>4 DEF Copied
  <2>2. \A i, j \in DOMAIN journal : journal[i].id = journal[j].id => i = j
    BY DEF LogInv, Chain
  <2> QED BY <2>1, <2>2 DEF LogInv, TakenInv, Drawn
<1>5. CASE UNCHANGED <<journal, issued, key, trusted, taken>>
  BY <1>5 DEF LogInv, TakenInv, Drawn
<1> QED BY <1>1, <1>2, <1>3, <1>4, <1>5, LogSteps

-----------------------------------------------------------------------------
(* What is durable stays, and stays where it is. *)
LEMMA KeptStays ==
  ASSUME NoiseIsNoData, CustodyInv, [Next]_vars
  PROVE  /\ kept' \in kept..Len(journal')
         /\ \A i \in 1..kept : i \in DOMAIN journal' /\ journal'[i] = journal[i]
<1> USE LogTypes
<1>1. CASE AppendEvent
  <2>1. Extended("decision") /\ kept' \in {kept, Len(journal')}
    BY <1>1 DEF AppendEvent, Extend, Extended, keyVars, custodyVars
  <2> QED BY <2>1, ExtendedChain
<1>2. CASE PowerLoss
  <2>1. PICK k \in kept..Len(journal) : kept' = k /\ journal' = SubSeq(journal, 1, k)
    BY <1>2 DEF PowerLoss
  <2>2. /\ DOMAIN journal' = 1..k /\ Len(journal') = k
        /\ \A i \in 1..k : journal'[i] = journal[i]
    BY <2>1 DEF CustodyInv, LogInv, Chain
  <2> QED BY <2>1, <2>2
<1>3. ASSUME NEW c \in Checkpointers, CheckpointStep(c)
      PROVE  /\ kept' \in kept..Len(journal')
             /\ \A i \in 1..kept : i \in DOMAIN journal' /\ journal'[i] = journal[i]
  <2>1. CASE AppendCheckpoint(c)
    <3>1. Extended("checkpoint") /\ kept' = kept
      BY <2>1 DEF AppendCheckpoint, Extend, Extended, keyVars, custodyVars
    <3> QED BY <3>1, ExtendedChain
  <2>2. CASE SyncCheckpoint(c)
    BY <2>2 DEF SyncCheckpoint
  <2>3. CASE OpenWitness(c) \/ WriteWitness(c) \/ FsyncWitness(c) \/ CheckpointFails(c) \/ Kill(c)
    BY <2>3 DEF OpenWitness, WriteWitness, FsyncWitness, CheckpointFails, Kill, journalVars
  <2> QED BY <1>3, <2>1, <2>2, <2>3 DEF CheckpointStep
<1>4. CASE RotateKey \/ SaveWitness \/ CopyJournal \/ EditCopy \/ Terminating \/ UNCHANGED vars
  BY <1>4 DEF RotateKey, SaveWitness, CopyJournal, EditCopy, Terminating, vars, journalVars
<1> QED BY <1>1, <1>2, <1>3, <1>4 DEF Next

LEMMA SettledStays ==
  ASSUME NoiseIsNoData, CustodyInv, [Next]_vars, NEW e, Settled(e)
  PROVE  Settled(e)'
BY LogTypes, KeptStays DEF Settled, InPlace

(* finalize_event and append_checkpoint: what another process appends leaves an
   event that waits for its fsync in place. *)
LEMMA InPlaceStays ==
  ASSUME NoiseIsNoData, CustodyInv, NEW e, InPlace(e),
         (\E kind : Extended(kind)) \/ UNCHANGED journal
  PROVE  InPlace(e)'
BY LogTypes, ExtendedChain DEF InPlace

(* A process that takes no step keeps its place. *)
LEMMA OthersStay ==
  ASSUME NoiseIsNoData, CustodyInv, [Next]_vars,
         (\E kind : Extended(kind)) \/ UNCHANGED journal,
         NEW c \in Checkpointers, UNCHANGED <<pc[c], event[c]>>
  PROVE  WriterInv(c)'
<1>1. WriterInv(c)
  BY DEF CustodyInv, WitnessInv
<1>2. Settled(event[c]) => Settled(event[c])'
  BY SettledStays DEF Settled, InPlace
<1>3. InPlace(event[c]) => InPlace(event[c])'
  BY InPlaceStays DEF InPlace
<1> QED BY <1>1, <1>2, <1>3 DEF WriterInv

LEMMA WitnessNext ==
  ASSUME NoiseIsNoData, CustodyInv, [Next]_vars
  PROVE  WitnessInv'
<1>1. \A c \in Checkpointers : WriterInv(c)
  BY DEF CustodyInv, WitnessInv
<1>2. WitnessFileInv /\ (saved = None \/ Settled(saved))
  BY DEF CustodyInv, WitnessInv
<1>3. /\ pc \in [Checkpointers -> PCs]
      /\ event \in [Checkpointers -> Checkpoints \cup {None}]
  BY DEF CustodyInv, TypeOK
<1>4. ASSUME UNCHANGED <<witness, durable>> PROVE WitnessFileInv'
  BY <1>2, <1>4, SettledStays DEF WitnessFileInv
<1>5. ASSUME UNCHANGED saved PROVE (saved = None \/ Settled(saved))'
  BY <1>2, <1>5, SettledStays DEF Settled, InPlace
<1>6. CASE AppendEvent
  <2>1. UNCHANGED <<pc, event, witness, durable, saved>> /\ Extended("decision")
    BY <1>6 DEF AppendEvent, Extend, Extended, keyVars, custodyVars, witnessVars
  <2> QED BY <1>4, <1>5, <2>1, OthersStay DEF WitnessInv
<1>7. CASE RotateKey
  <2>1. UNCHANGED <<journal, pc, event, witness, durable, saved>>
    BY <1>7 DEF RotateKey, journalVars, custodyVars, witnessVars
  <2> QED BY <1>4, <1>5, <2>1, OthersStay DEF WitnessInv
<1>8. CASE PowerLoss
  <2>1. /\ witness' \in {witness, durable, Blank} /\ durable' = witness'
        /\ pc' = [c \in Checkpointers |-> "idle"]
        /\ event' = [c \in Checkpointers |-> None]
        /\ saved' = saved
    BY <1>8 DEF PowerLoss, custodyVars
  <2>2. WitnessFileInv'
    BY <1>2, <2>1, SettledStays DEF WitnessFileInv
  <2>3. \A c \in Checkpointers : WriterInv(c)'
    BY <2>1 DEF WriterInv
  <2> QED BY <1>5, <2>1, <2>2, <2>3 DEF WitnessInv
<1>9. CASE SaveWitness
  <2>1. /\ UNCHANGED <<journal, pc, event, witness, durable>>
        /\ WitnessIssues(witness, trusted) = {} /\ saved' = witness
    BY <1>9 DEF SaveWitness, journalVars, witnessVars
  <2>2. Settled(witness)
    BY <1>2, <2>1 DEF WitnessFileInv, WitnessIssues
  <2>3. Settled(saved)'
    BY <2>1, <2>2, SettledStays DEF Settled, InPlace
  <2> QED BY <1>4, <2>1, <2>3, OthersStay DEF WitnessInv
<1>10. CASE CopyJournal \/ EditCopy \/ Terminating \/ UNCHANGED vars
  <2>1. UNCHANGED <<journal, pc, event, witness, durable, saved>>
    BY <1>10 DEF CopyJournal, EditCopy, Terminating, vars, journalVars, custodyVars, witnessVars
  <2> QED BY <1>4, <1>5, <2>1, OthersStay DEF WitnessInv
<1>11. ASSUME NEW c \in Checkpointers, CheckpointStep(c) PROVE WitnessInv'
  <2>1. UNCHANGED saved
    BY <1>11 DEF CheckpointStep, AppendCheckpoint, SyncCheckpoint, OpenWitness, WriteWitness,
                 FsyncWitness, CheckpointFails, Kill, custodyVars
  <2>2. /\ \A d \in Checkpointers \ {c} : UNCHANGED <<pc[d], event[d]>>
        /\ (\E kind : Extended(kind)) \/ UNCHANGED journal
    <3>1. CASE AppendCheckpoint(c)
      <4>1. Extended("checkpoint")
        BY <3>1 DEF AppendCheckpoint, Extend, Extended, keyVars, custodyVars
      <4> QED BY <1>3, <3>1, <4>1 DEF AppendCheckpoint, Goto
    <3>2. CASE SyncCheckpoint(c) \/ OpenWitness(c) \/ WriteWitness(c)
      BY <1>3, <3>2 DEF SyncCheckpoint, OpenWitness, WriteWitness, Goto, journalVars
    <3>3. CASE FsyncWitness(c) \/ CheckpointFails(c) \/ Kill(c)
      BY <1>3, <3>3 DEF FsyncWitness, CheckpointFails, Kill, Goto, journalVars
    <3> QED BY <1>11, <3>1, <3>2, <3>3 DEF CheckpointStep
  <2>3. \A d \in Checkpointers \ {c} : WriterInv(d)'
    BY <2>2, OthersStay
  <2>4. WriterInv(c)' /\ WitnessFileInv'
    <3>1. CASE AppendCheckpoint(c)
      <4>1. /\ Extended("checkpoint") /\ UNCHANGED <<witness, durable>>
            /\ pc'[c] = "sync" /\ event'[c] = NewEvent("checkpoint")
        BY <1>3, <3>1 DEF AppendCheckpoint, Extend, Extended, Goto, keyVars, custodyVars, witnessVars
      <4>2. /\ NewEvent("checkpoint").kind = "checkpoint"
            /\ NewEvent("checkpoint").count = Len(journal)
        BY NewEventFacts
      <4>3. InPlace(event[c])'
        BY <4>1, <4>2, ExtendedChain, LogTypes DEF InPlace
      <4> QED BY <1>4, <4>1, <4>3 DEF WriterInv
    <3>2. CASE SyncCheckpoint(c)
      <4>1. /\ UNCHANGED <<journal, event, witness, durable>> /\ kept' = Len(journal)
            /\ pc[c] = "sync" /\ pc'[c] = "open"
        BY <1>3, <3>2 DEF SyncCheckpoint, Goto, witnessVars
      <4>2. InPlace(event[c])
        BY <1>1, <4>1 DEF WriterInv
      <4>3. Settled(event[c])'
        BY <4>1, <4>2, LogTypes DEF Settled, InPlace
      <4> QED BY <1>4, <4>1, <4>3 DEF WriterInv
    <3>3. CASE OpenWitness(c)
      <4>1. /\ UNCHANGED <<event, durable>> /\ witness' = Blank
            /\ pc[c] = "open" /\ pc'[c] = "write"
        BY <1>3, <3>3 DEF OpenWitness, Goto
      <4>2. Settled(event[c])'
        BY <1>1, <4>1, SettledStays DEF WriterInv, Settled, InPlace
      <4> QED BY <1>2, <4>1, <4>2, SettledStays DEF WriterInv, WitnessFileInv
    <3>4. CASE WriteWitness(c)
      <4>1. /\ UNCHANGED <<event, durable>> /\ witness' = Overwritten(witness, event[c])
            /\ pc[c] = "write" /\ pc'[c] = "fsync"
        BY <1>3, <3>4 DEF WriteWitness, Goto
      <4>2. Settled(event[c]) /\ Settled(event[c])'
        BY <1>1, <4>1, SettledStays DEF WriterInv, Settled, InPlace
      <4>3. witness' \in {Garbled, event[c]}
        BY <4>1 DEF Overwritten
      <4> QED BY <1>2, <4>1, <4>2, <4>3, SettledStays DEF WriterInv, WitnessFileInv
    <3>5. CASE FsyncWitness(c)
      <4>1. /\ UNCHANGED witness /\ durable' = witness
            /\ pc'[c] = "idle" /\ event'[c] = None
        BY <1>3, <3>5 DEF FsyncWitness, Goto
      <4> QED BY <1>2, <4>1, SettledStays DEF WriterInv, WitnessFileInv
    <3>6. CASE CheckpointFails(c) \/ Kill(c)
      <4>1. /\ UNCHANGED durable /\ witness' \in {witness, Garbled}
            /\ pc'[c] = "idle" /\ event'[c] = None
        BY <1>3, <3>6 DEF CheckpointFails, Kill, Goto, witnessVars
      <4> QED BY <1>2, <4>1, SettledStays DEF WriterInv, WitnessFileInv
    <3> QED BY <1>11, <3>1, <3>2, <3>3, <3>4, <3>5, <3>6 DEF CheckpointStep
  <2> QED BY <1>5, <2>1, <2>3, <2>4 DEF WitnessInv
<1> QED BY <1>6, <1>7, <1>8, <1>9, <1>10, <1>11 DEF Next

-----------------------------------------------------------------------------
(* Whatever is done to a copy, its lines stay plausible. *)
LEMMA PlausibleLines ==
  ASSUME NEW S, \A line \in S : Plausible(line), NEW lines \in Seq(S)
  PROVE  lines \in Seq(Range(lines)) /\ \A i \in DOMAIN lines : Plausible(lines[i])
BY SeqOfRange

LEMMA ChangedIsPlausible ==
  ASSUME CustodyInv, NEW line, Plausible(line), line \notin {Blank, Garbled}
  PROVE  /\ Plausible(Changed(line))
         /\ Plausible([Changed(line) EXCEPT !.hash = Digest(Changed(line))])
         /\ Plausible(Finalize(Changed(line), ForeignKey))
         /\ Plausible([Changed(line) EXCEPT !.count = None])
         /\ Plausible([line EXCEPT !.shape = "missing_fields", !.count = None])
<1> DEFINE unsigned == \A k \in Keys : line.sig # Sign(k, <<line.id, "changed", line.prev>>)
<1>1. DOMAIN line = EventFields
  BY DEF Plausible
<1>2. line.shape # "known" \/ unsigned
  <2>1. CASE line \in Range(taken)
    <3>1. PICK i \in DOMAIN taken : line = taken[i]
      BY <2>1 DEF Range
    <3>2. line.body = "written" /\ Authentic(line, trusted)
      BY <3>1 DEF CustodyInv, TakenInv, Drawn, Chain
    <3> QED BY <3>2 DEF Authentic, Sign, Digest
  <2>2. CASE line.body = "changed" /\ \A k \in Keys : line.sig # Sign(k, Digest(line))
    BY <2>2 DEF Digest
  <2> QED BY <2>1, <2>2 DEF Plausible
<1>3. ASSUME NEW e, DOMAIN e = EventFields, e.id = line.id, e.body = "changed",
             e.prev = line.prev, e.shape = line.shape, e.sig = line.sig
      PROVE  Plausible(e)
  BY <1>2, <1>3 DEF Plausible, Digest
<1>4. Plausible(Changed(line))
  BY <1>1, <1>3 DEF Changed, EventFields
<1>5. Plausible([Changed(line) EXCEPT !.hash = Digest(Changed(line))])
  BY <1>1, <1>3 DEF Changed, EventFields
<1>6. Plausible([Changed(line) EXCEPT !.count = None])
  BY <1>1, <1>3 DEF Changed, EventFields
<1>7. Plausible(Finalize(Changed(line), ForeignKey))
  <2> DEFINE e == Finalize(Changed(line), ForeignKey)
  <2>1. DOMAIN e = EventFields /\ e.body = "changed" /\ e.sig = Sign(ForeignKey, Digest(Changed(line)))
    BY <1>1 DEF Finalize, Changed, EventFields
  <2>2. \A k \in Keys : e.sig # Sign(k, Digest(e))
    BY <2>1, CheckpointAssumption DEF Sign
  <2> QED BY <2>1, <2>2 DEF Plausible
<1>8. Plausible([line EXCEPT !.shape = "missing_fields", !.count = None])
  BY <1>1 DEF Plausible, EventFields
<1> QED BY <1>4, <1>5, <1>6, <1>7, <1>8

LEMMA EditsArePlausible ==
  ASSUME CustodyInv, NEW lines, lines \in Seq(Range(lines)),
         \A i \in DOMAIN lines : Plausible(lines[i]),
         NEW edited \in EditsOf(lines)
  PROVE  edited \in Seq(Range(edited)) /\ \A i \in DOMAIN edited : Plausible(edited[i])
<1>0. /\ Len(lines) \in Nat /\ DOMAIN lines = 1..Len(lines)
      /\ \A line \in Range(lines) : Plausible(line)
  BY DEF Range
<1>1. \A line : lines \in Seq(Range(lines) \cup {line})
  BY SeqMonotonic
<1>2. ASSUME NEW i \in DOMAIN lines, NEW line, Plausible(line), edited = [lines EXCEPT ![i] = line]
      PROVE  edited \in Seq(Range(lines) \cup {line})
  BY <1>0, <1>1, <1>2, ExceptSeq
<1>3. ASSUME NEW i \in 1..(Len(lines) + 1), NEW line, Plausible(line), edited = InsertAt(lines, i, line)
      PROVE  edited \in Seq(Range(lines) \cup {line})
  <2> DEFINE S == Range(lines) \cup {line}
  <2>1. lines \in Seq(S) /\ i - 1 \in Int /\ 1 \in Int /\ i \in Int /\ Len(lines) \in Int
    BY <1>0, <1>1
  <2>2. (\A j \in 1..(i - 1) : lines[j] \in S) /\ (\A j \in i..Len(lines) : lines[j] \in S)
    BY <1>0, <2>1
  <2> HIDE DEF S
  <2>3. SubSeq(lines, 1, i - 1) \in Seq(S) /\ SubSeq(lines, i, Len(lines)) \in Seq(S)
    BY <2>1, <2>2, SubSeqProperties
  <2>4. <<line>> \in Seq(S)
    BY DEF S
  <2>5. SubSeq(lines, 1, i - 1) \o <<line>> \in Seq(S)
    BY <2>3, <2>4, ConcatProperties
  <2> QED BY <1>3, <2>3, <2>5, ConcatProperties DEF InsertAt, S
<1>4. ASSUME NEW i \in DOMAIN lines, lines[i] \notin {Blank, Garbled}, edited \in Altered(lines, i)
      PROVE  \E line : Plausible(line) /\ edited \in Seq(Range(lines) \cup {line})
  <2>1. \/ edited = InsertAt(lines, i, lines[i])
        \/ \E line : Plausible(line) /\ edited = [lines EXCEPT ![i] = line]
    BY <1>4, ChangedIsPlausible DEF ReplaceAt, Altered
  <2>2. i \in 1..(Len(lines) + 1)
    BY <1>0
  <2> QED BY <1>2, <1>3, <2>1, <2>2
<1>5. ASSUME NEW i \in DOMAIN lines, edited = RemoveAt(lines, i)
      PROVE  edited \in Seq(Range(lines))
  <2>1. i - 1 \in Int /\ 1 \in Int /\ i + 1 \in Int /\ Len(lines) \in Int
    BY <1>0
  <2>2. /\ \A j \in 1..(i - 1) : lines[j] \in Range(lines)
        /\ \A j \in (i + 1)..Len(lines) : lines[j] \in Range(lines)
    BY <1>0
  <2>3. SubSeq(lines, 1, i - 1) \in Seq(Range(lines)) /\ SubSeq(lines, i + 1, Len(lines)) \in Seq(Range(lines))
    BY <2>1, <2>2, SubSeqProperties
  <2> QED BY <1>5, <2>3, ConcatProperties DEF RemoveAt
<1>6. ASSUME NEW i \in 1..(Len(lines) - 1),
             edited = ReplaceAt(ReplaceAt(lines, i, lines[i + 1]), i + 1, lines[i])
      PROVE  edited \in Seq(Range(lines))
  <2>1. i \in 1..Len(lines) /\ i + 1 \in 1..Len(lines)
    BY <1>0
  <2>2. lines[i] \in Range(lines) /\ lines[i + 1] \in Range(lines)
    BY <1>0, <2>1
  <2>3. [lines EXCEPT ![i] = lines[i + 1]] \in Seq(Range(lines))
           /\ Len([lines EXCEPT ![i] = lines[i + 1]]) = Len(lines)
    BY <2>1, <2>2, ExceptSeq
  <2> QED BY <1>6, <2>1, <2>2, <2>3, ExceptSeq DEF ReplaceAt
<1>7. ASSUME NEW n \in 0..(Len(lines) - 1), edited = SubSeq(lines, 1, n)
      PROVE  edited \in Seq(Range(lines))
  BY <1>0, <1>7
<1>8. ASSUME NEW i \in 1..(Len(lines) + 1), NEW noise \in {Blank, Garbled},
             edited = InsertAt(lines, i, noise)
      PROVE  \E line : Plausible(line) /\ edited \in Seq(Range(lines) \cup {line})
  <2>1. Plausible(noise)
    BY DEF Plausible
  <2> QED BY <1>3, <1>8, <2>1
<1>9. \/ edited \in Seq(Range(lines))
      \/ \E line : Plausible(line) /\ edited \in Seq(Range(lines) \cup {line})
  <2> DEFINE events == {i \in DOMAIN lines : lines[i] \notin {Blank, Garbled}}
  <2>1. CASE edited \in UNION {Altered(lines, i) : i \in events}
    BY <1>4, <2>1
  <2>2. CASE edited \in {RemoveAt(lines, i) : i \in DOMAIN lines}
    BY <1>5, <2>2
  <2>3. CASE edited \in {ReplaceAt(ReplaceAt(lines, i, lines[i + 1]), i + 1, lines[i]) :
                           i \in 1..(Len(lines) - 1)}
    BY <1>6, <2>3
  <2>4. CASE \/ edited \in {InsertAt(lines, i, Blank) : i \in 1..(Len(lines) + 1)}
             \/ edited \in {InsertAt(lines, i, Garbled) : i \in 1..(Len(lines) + 1)}
    BY <1>8, <2>4
  <2>5. CASE edited \in {SubSeq(lines, 1, n) : n \in 0..(Len(lines) - 1)}
    BY <1>7, <2>5
  <2> QED BY <2>1, <2>2, <2>3, <2>4, <2>5, Zenon DEF EditsOf
<1> QED BY <1>0, <1>9, PlausibleLines

LEMMA CopyNext ==
  ASSUME CustodyInv, [Next]_vars
  PROVE  CopyInv'
<1>1. CASE CopyJournal
  <2>1. copy' = journal /\ taken' = journal
    BY <1>1 DEF CopyJournal
  <2>2. \A i \in DOMAIN journal : DOMAIN journal[i] = EventFields /\ journal[i] \in Range(journal)
    BY DEF CustodyInv, LogInv, Drawn, Range
  <2>3. journal \in Seq(Range(journal))
    BY DEF CustodyInv, LogInv, Chain, Range
  <2> QED BY <2>1, <2>2, <2>3 DEF CopyInv, Plausible
<1>2. CASE EditCopy
  <2>1. copy # None /\ copy' \in EditsOf(copy) /\ taken' = taken
    BY <1>2 DEF EditCopy
  <2>2. copy \in Seq(Range(copy)) /\ \A i \in DOMAIN copy : Plausible(copy[i])
    BY <2>1 DEF CustodyInv, CopyInv
  <2>3. copy' \in Seq(Range(copy')) /\ \A i \in DOMAIN copy' : Plausible(copy'[i])
    BY <2>1, <2>2, EditsArePlausible
  <2> QED BY <2>1, <2>3 DEF CopyInv, Plausible
<1>3. ASSUME UNCHANGED <<copy, taken>> PROVE CopyInv'
  BY <1>3 DEF CustodyInv, CopyInv, Plausible
<1>4. CASE AppendEvent \/ RotateKey \/ PowerLoss \/ SaveWitness \/ Terminating \/ UNCHANGED vars
  BY <1>3, <1>4 DEF AppendEvent, RotateKey, PowerLoss, SaveWitness, Terminating, vars, custodyVars
<1>5. ASSUME NEW c \in Checkpointers, CheckpointStep(c) PROVE CopyInv'
  BY <1>3, <1>5 DEF CheckpointStep, AppendCheckpoint, SyncCheckpoint, OpenWitness, WriteWitness,
               FsyncWitness, CheckpointFails, Kill, custodyVars
<1> QED BY <1>1, <1>2, <1>4, <1>5 DEF Next

-----------------------------------------------------------------------------
LEMMA TypeNext ==
  ASSUME NoiseIsNoData, CustodyInv, [Next]_vars
  PROVE  TypeOK'
<1> USE LogTypes
<1>1. /\ issued' \in Len(journal')..MaxEvents /\ Len(journal') \in Nat
      /\ key' \in trusted' /\ trusted' \subseteq Keys
  <2>1. /\ issued \in Len(journal)..MaxEvents
        /\ key \in trusted /\ trusted \subseteq Keys
    BY DEF CustodyInv, TypeOK
  <2>2. ASSUME NEW kind, Extended(kind) PROVE Len(journal') = Len(journal) + 1
    BY <2>2, ExtendedChain
  <2>3. CASE Shortened
    BY <2>1, <2>3, PrefixChain DEF Shortened, CustodyInv, LogInv
  <2> QED BY <2>1, <2>2, <2>3, LogSteps, CheckpointAssumption DEF Extended, Rotated, Copied
<1>2. kept' \in 0..Len(journal')
  BY <1>1, KeptStays
<1>3. /\ pc' \in [Checkpointers -> PCs]
      /\ DOMAIN event' = Checkpointers /\ event' = [c \in Checkpointers |-> event'[c]]
      /\ edits' \in 0..MaxEdits
  <2>1. /\ pc \in [Checkpointers -> PCs]
        /\ event \in [Checkpointers -> Checkpoints \cup {None}]
        /\ edits \in 0..MaxEdits
    BY DEF CustodyInv, TypeOK
  <2>2. ASSUME NEW c \in Checkpointers, CheckpointStep(c)
        PROVE  /\ pc' \in [Checkpointers -> PCs] /\ UNCHANGED edits
               /\ DOMAIN event' = Checkpointers /\ event' = [d \in Checkpointers |-> event'[d]]
    BY <2>1, <2>2 DEF CheckpointStep, AppendCheckpoint, SyncCheckpoint, OpenWitness, WriteWitness,
                      FsyncWitness, CheckpointFails, Kill, Goto, PCs, custodyVars
  <2>3. CASE EditCopy
    BY <2>1, <2>3, CheckpointAssumption DEF EditCopy
  <2>4. CASE PowerLoss
    BY <2>1, <2>4 DEF PowerLoss, PCs, custodyVars
  <2>5. CASE AppendEvent \/ RotateKey \/ SaveWitness \/ CopyJournal \/ Terminating \/ UNCHANGED vars
    BY <2>1, <2>5 DEF AppendEvent, RotateKey, SaveWitness, CopyJournal, Terminating, vars, custodyVars
  <2> QED BY <2>1, <2>2, <2>3, <2>4, <2>5 DEF Next
<1>4. /\ \A c \in Checkpointers : event'[c] \in Checkpoints' \cup {None}
      /\ {witness', durable'} \subseteq Checkpoints' \cup {None, Blank, Garbled}
      /\ saved' \in Checkpoints' \cup {None}
  <2>1. ASSUME NEW e, InPlace(e)' PROVE e \in Checkpoints'
    BY <2>1 DEF InPlace, Checkpoints, Range
  <2>2. WitnessInv'
    BY WitnessNext
  <2>3. \A c \in Checkpointers : event'[c] = None \/ InPlace(event[c])'
    BY <2>2 DEF WitnessInv, WriterInv, Settled
  <2>4. \A content \in {witness', durable'} : content \in {None, Blank, Garbled} \/ InPlace(content)'
    BY <2>2 DEF WitnessInv, WitnessFileInv, Settled
  <2>5. saved' = None \/ InPlace(saved)'
    BY <2>2 DEF WitnessInv, Settled
  <2> QED BY <2>1, <2>3, <2>4, <2>5
<1>5. \A e \in Range(journal') : Authentic(e, Keys) /\ (e.kind = "checkpoint" => e.head = e.prev)
  <2>1. Chain(journal', trusted')
    BY LogNext DEF LogInv
  <2>2. Chain(journal', Keys)
    BY <1>1, <2>1, MoreKeys
  <2> QED BY <2>2 DEF Chain, Range
<1>6. event' \in [Checkpointers -> Checkpoints' \cup {None}]
  BY <1>3, <1>4
<1> QED BY <1>1, <1>2, <1>3, <1>4, <1>5, <1>6 DEF TypeOK

LEMMA InvNext ==
  ASSUME NoiseIsNoData, CustodyInv, [Next]_vars
  PROVE  CustodyInv'
BY TypeNext, LogNext, WitnessNext, CopyNext DEF CustodyInv

(***************************************************************************)
(* The journal is one authentic chain, what was copied agrees with it,     *)
(* every witness is a checkpoint that is durable in it, and no line of a   *)
(* damaged copy is both changed and signed with a key of the operator.     *)
(***************************************************************************)
THEOREM CustodyInvariance ==
  ASSUME NoiseIsNoData PROVE Spec => []CustodyInv
<1>1. Init => CustodyInv
  BY InitInv
<1>2. CustodyInv /\ [Next]_vars => CustodyInv'
  BY InvNext
<1> QED BY <1>1, <1>2, PTL DEF Spec

(***************************************************************************)
(* Every state of the custody of a journal is well formed.                 *)
(***************************************************************************)
THEOREM TypeCorrect ==
  ASSUME NoiseIsNoData PROVE Spec => []TypeOK
<1>1. CustodyInv => TypeOK
  BY DEF CustodyInv
<1> QED BY <1>1, CustodyInvariance, PTL

(***************************************************************************)
(* verify_journal raises no false alarm: at every moment the journal       *)
(* verifies, alone and against every witness an operator has saved,        *)
(* however many processes append, checkpoint, crash and rotate the key.    *)
(***************************************************************************)
THEOREM NoFalseAlarm ==
  ASSUME NoiseIsNoData PROVE Spec => []IntactJournalVerifies
<1>1. ASSUME CustodyInv PROVE IntactJournalVerifies
  <2>1. Chain(journal, trusted)
    BY <1>1 DEF CustodyInv, LogInv
  <2>2. \/ saved = None
        \/ \E i \in DOMAIN journal : saved = journal[i] /\ journal[i].kind = "checkpoint"
    BY <1>1 DEF CustodyInv, WitnessInv, Settled, InPlace
  <2> QED BY <2>1, <2>2, ChainVerifies DEF IntactJournalVerifies
<1> QED BY <1>1, CustodyInvariance, PTL

-----------------------------------------------------------------------------
(* The events of a copy that verifies are those that were copied, one by one. *)
LEMMA VerifiedIsTaken ==
  ASSUME NoiseIsNoData, CustodyInv, copy # None,
         NEW given, VerifyJournal(copy, trusted, given) = {}
  PROVE  /\ EventsOf(copy) \in Seq(EventLines(copy))
         /\ \A i \in DOMAIN EventsOf(copy) : i \in DOMAIN taken /\ EventsOf(copy)[i] = taken[i]
<1> DEFINE events == EventsOf(copy)
<1>1. copy \in Seq(Range(copy)) /\ \A i \in DOMAIN copy : Plausible(copy[i])
  BY DEF CustodyInv, CopyInv
<1>2. events \in Seq(EventLines(copy))
  BY <1>1, EventsOfType
<1>3. \A i \in DOMAIN events :
        events[i].shape = "known" /\ Authentic(events[i], trusted) /\ Linked(events, i)
  BY AcceptedEvents, NoChainIssues
<1> HIDE DEF events
<1>4. ASSUME NEW i \in DOMAIN events PROVE \E j \in DOMAIN taken : events[i] = taken[j]
  <2>1. events[i] \in EventLines(copy)
    BY <1>2
  <2>2. Plausible(events[i]) /\ events[i] \notin {Blank, Garbled}
    BY <1>1, <2>1 DEF EventLines
  <2>3. events[i].sig = Sign(events[i].key, Digest(events[i])) /\ events[i].key \in Keys
    BY <1>3 DEF Authentic, CustodyInv, TypeOK
  <2>4. events[i] \in Range(taken)
    BY <1>3, <2>2, <2>3 DEF Plausible
  <2> QED BY <2>4 DEF Range
<1>5. PlacesAreTold(taken)
  BY ChainTellsPlaces DEF CustodyInv, TakenInv
<1>6. \A i \in DOMAIN events : i \in DOMAIN taken /\ events[i] = taken[i]
  BY <1>2, <1>3, <1>4, <1>5, LinkedIsBeginning
<1> QED BY <1>2, <1>6 DEF events

(***************************************************************************)
(* verify_journal shows every damage that is not the loss of a tail: a     *)
(* copy that verifies is a prefix of the journal that was copied, after    *)
(* any number of edits.                                                    *)
(***************************************************************************)
THEOREM DamageShows ==
  ASSUME NoiseIsNoData PROVE Spec => []DamageIsDetected
<1>1. ASSUME CustodyInv, copy # None, VerifyJournal(copy, trusted, None) = {}
      PROVE  IsPrefix(EventsOf(copy), taken)
  <2>1. /\ EventsOf(copy) \in Seq(EventLines(copy))
        /\ \A i \in DOMAIN EventsOf(copy) : i \in DOMAIN taken /\ EventsOf(copy)[i] = taken[i]
    BY <1>1, VerifiedIsTaken
  <2>2. taken \in Seq(Range(taken))
    BY <1>1 DEF CustodyInv, TakenInv, Chain, Range
  <2> QED BY <2>1, <2>2, BeginningIsPrefix DEF IsPrefix
<1> QED BY <1>1, CustodyInvariance, PTL DEF DamageIsDetected

(***************************************************************************)
(* _checkpoint_coverage: a copy that verifies against a saved witness has  *)
(* everything the journal had up to and including the checkpoint, whether  *)
(* it was copied before or after it.                                       *)
(***************************************************************************)
THEOREM LossShows ==
  ASSUME NoiseIsNoData PROVE Spec => []WitnessDetectsLoss
<1>1. ASSUME CustodyInv, copy # None, saved # None, VerifyJournal(copy, trusted, saved) = {}
      PROVE  /\ Len(EventsOf(copy)) >= saved.count + 1
             /\ SubSeq(EventsOf(copy), 1, saved.count + 1) = SubSeq(journal, 1, saved.count + 1)
  <2> DEFINE events == EventsOf(copy)
             n      == saved.count + 1
  <2>1. /\ events \in Seq(EventLines(copy))
        /\ \A i \in DOMAIN events : i \in DOMAIN taken /\ events[i] = taken[i]
    BY <1>1, VerifiedIsTaken
  <2>2. \E i \in DOMAIN events : events[i].id = saved.id
    <3>1. CoverageIssues(events, saved) = {}
      BY <1>1, AcceptedEvents
    <3> HIDE DEF events
    <3> QED BY <1>1, <3>1 DEF CoverageIssues
  <2> HIDE DEF events
  <2>3. /\ Len(events) \in Nat /\ DOMAIN events = 1..Len(events)
        /\ Len(journal) \in Nat /\ DOMAIN journal = 1..Len(journal)
    BY <1>1, <2>1, LogTypes
  <2>4. n \in DOMAIN journal /\ journal[n] = saved /\ saved.count \in Nat
    BY <1>1 DEF CustodyInv, WitnessInv, Settled, InPlace
  <2> HIDE DEF n
  <2>5. PICK i \in DOMAIN events : events[i].id = saved.id
    BY <2>2
  <2>6. i = n /\ \A k \in 1..i : taken[k] = journal[k]
    BY <1>1, <2>1, <2>4, <2>5 DEF CustodyInv, TakenInv
  <2>7. n \in Nat /\ n <= Len(events) /\ n <= Len(journal)
    BY <2>3, <2>4, <2>6
  <2>8. SubSeq(events, 1, n) = SubSeq(journal, 1, n)
    <3>1. journal \in Seq(Range(journal))
      BY <1>1 DEF CustodyInv, LogInv, Chain, Range
    <3>2. /\ Len(SubSeq(events, 1, n)) = n
          /\ \A k \in 1..n : SubSeq(events, 1, n)[k] = events[k]
      BY <2>1, <2>7
    <3>3. /\ Len(SubSeq(journal, 1, n)) = n
          /\ \A k \in 1..n : SubSeq(journal, 1, n)[k] = journal[k]
      BY <2>7, <3>1
    <3>4. \A k \in 1..n : events[k] = journal[k]
      BY <2>1, <2>3, <2>6, <2>7
    <3> QED BY <2>1, <2>7, <3>1, <3>2, <3>3, <3>4
  <2> QED BY <2>3, <2>7, <2>8 DEF events, n
<1> QED BY <1>1, CustodyInvariance, PTL DEF WitnessDetectsLoss

=============================================================================
