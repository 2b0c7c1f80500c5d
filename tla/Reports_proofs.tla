--------------------------- MODULE Reports_proofs ---------------------------
(***************************************************************************)
(* What the commands report, proved for any sayings, any keys and any      *)
(* number of events, whoever wrote the journal and whatever was damaged.   *)
(***************************************************************************)
EXTENDS Reports, Verification_proofs, FiniteSetTheorems

-----------------------------------------------------------------------------
(***************************************************************************)
(* The inductive invariant behind the theorems of Reports_proofs.          *)
(*                                                                         *)
(* Every event ever appended is signed and refers to the one before it, of *)
(* which it names the id even if that one had been changed by then.        *)
(***************************************************************************)
EventFields ==
  {"id", "shape", "kind", "body", "says", "prev", "head", "count", "key", "hash", "sig"}

Signers == Keys \cup {OtherKey}

IdIn(digest) == digest[1]

WrittenInv ==
  /\ written \in Seq(Range(written))
  /\ \A i \in DOMAIN written :
       LET e == written[i]
       IN  /\ DOMAIN e = EventFields
           /\ e.id = i /\ e.shape = "known" /\ e.kind = e.says.type /\ e.body = "written"
           /\ e.says \in Sayings \cup {[type |-> "checkpoint", id |-> i]}
           /\ Authentic(e, Signers)
           /\ IF i = 1 THEN e.prev = None ELSE 1 \in DOMAIN e.prev /\ IdIn(e.prev) = i - 1

(* A line is no JSON any more, or as it was appended, or it was changed and
   nobody has signed the change. *)
Plausible(line) ==
  \/ line \in {Blank, Garbled}
  \/ /\ DOMAIN line = EventFields
     /\ \/ line \in Range(written)
        \/ line.body = "changed" /\ \A k \in Signers : line.sig # Sign(k, Digest(line))

JournalInv ==
  /\ Lines \in Seq(Range(Lines)) /\ (Lines = <<>> <=> written = <<>>) /\ journal # <<>>
  /\ \A i \in DOMAIN Lines : Plausible(Lines[i])
  /\ LET last == Lines[Len(Lines)]
     IN  Lines # <<>> /\ last \notin {Blank, Garbled} =>
           1 \in DOMAIN last.hash /\ IdIn(last.hash) = Len(written)

(* Nobody damages the journal of this home back into what was written. *)
HomeInv == author = "home" /\ Lines = written => Chain(written, trusted)

WitnessInv ==
  witness = None \/ \E i \in DOMAIN written :
                       written[i] = witness /\ witness.kind = "checkpoint"

ReportsInv == TypeOK /\ WrittenInv /\ JournalInv /\ HomeInv /\ WitnessInv

-----------------------------------------------------------------------------
(* null is neither an empty sequence nor a set of keys. *)
NullIsNoData == None # <<>> /\ None \notin SUBSET Signers

LEMMA InitInv ==
  ASSUME NullIsNoData, Init PROVE ReportsInv
<1>1. Len(written) = 0 /\ DOMAIN written = {} /\ Lines = <<>> /\ DOMAIN Lines = {}
  BY DEF Init, Lines
<1>2. written \in Seq(Range(written)) /\ Lines \in Seq(Range(Lines))
  BY <1>1 DEF Init
<1>3. TypeOK
  BY <1>1, ReportsAssumption DEF Init, TypeOK
<1>4. WrittenInv /\ JournalInv
  BY <1>1, <1>2 DEF Init, WrittenInv, JournalInv, NullIsNoData
<1>5. HomeInv
  BY <1>1, <1>2 DEF Init, HomeInv, Chain, Range
<1>6. WitnessInv
  BY DEF Init, WitnessInv
<1> QED BY <1>3, <1>4, <1>5, <1>6 DEF ReportsInv

-----------------------------------------------------------------------------
(* The event that is appended. *)
NewEvent(says, count, signer) ==
  LET prev == IF Lines = <<>> THEN None ELSE Lines[Len(Lines)].hash
  IN  Finalize([id    |-> Len(written) + 1,
                shape |-> "known",
                kind  |-> says.type,
                body  |-> "written",
                says  |-> says,
                prev  |-> prev,
                head  |-> IF says.type = "checkpoint" THEN prev ELSE None,
                count |-> count,
                key   |-> None,
                hash  |-> None,
                sig   |-> None], signer)

Appended(says, count, signer) ==
  LET e == NewEvent(says, count, signer)
  IN  /\ Len(written) < MaxEvents
      /\ Lines # <<>> => Lines[Len(Lines)] \notin {Blank, Garbled}
      /\ journal' = Append(Lines, e)
      /\ written' = Append(written, e)

LEMMA NewEventFacts ==
  ASSUME NEW says, NEW count, NEW signer, NEW e, e = NewEvent(says, count, signer)
  PROVE  /\ DOMAIN e = EventFields
         /\ e.id = Len(written) + 1 /\ e.shape = "known" /\ e.kind = says.type
         /\ e.body = "written" /\ e.says = says /\ e.count = count
         /\ e.prev = IF Lines = <<>> THEN None ELSE Lines[Len(Lines)].hash
         /\ e.kind = "checkpoint" => e.head = e.prev
         /\ e.hash = Digest(e) /\ Authentic(e, {signer})
BY DEF NewEvent, Finalize, EventFields, Authentic, Digest, Sign

LEMMA InvTypes ==
  ASSUME ReportsInv
  PROVE  /\ Len(written) \in Nat /\ DOMAIN written = 1..Len(written)
         /\ Len(Lines) \in Nat /\ DOMAIN Lines = 1..Len(Lines)
         /\ Len(written) <= MaxEvents
         /\ written = <<>> <=> Len(written) = 0
         /\ Lines = <<>> <=> Len(Lines) = 0
BY DEF ReportsInv, TypeOK, WrittenInv, JournalInv

LEMMA AppendIsAppended ==
  ASSUME ReportsInv, NEW says, NEW count, NEW signer, AppendEvent(says, count, signer)
  PROVE  Appended(says, count, signer)
<1>1. Len(written) < MaxEvents
  BY InvTypes, ReportsAssumption DEF AppendEvent
<1>2. /\ Lines # <<>> => Lines[Len(Lines)] \notin {Blank, Garbled}
      /\ journal' = Append(Lines, NewEvent(says, count, signer))
      /\ written' = Append(written, journal'[Len(journal')])
  BY DEF AppendEvent, NewEvent
<1>3. journal'[Len(journal')] = NewEvent(says, count, signer)
  <2>1. Lines \in Seq(Range(Lines))
    BY DEF ReportsInv, JournalInv
  <2> QED BY <1>2, <2>1, AppendProperties
<1> QED BY <1>1, <1>2, <1>3 DEF Appended

(* Both sequences become longer by the one event. *)
LEMMA AppendedFacts ==
  ASSUME NoiseIsNoData, ReportsInv, NEW says, NEW count, NEW signer, Appended(says, count, signer)
  PROVE  /\ \A seq \in {<<written, written'>>, <<Lines, journal'>>} :
              /\ Len(seq[2]) = Len(seq[1]) + 1 /\ DOMAIN seq[2] = 1..(Len(seq[1]) + 1)
              /\ seq[2] \in Seq(Range(seq[2]))
              /\ \A i \in DOMAIN seq[1] : seq[2][i] = seq[1][i]
              /\ seq[2][Len(seq[1]) + 1] = NewEvent(says, count, signer)
         /\ Lines' = journal'
         /\ Lines' = written' => Lines = written
<1> DEFINE e == NewEvent(says, count, signer)
<1>1. ASSUME NEW seq, seq \in Seq(Range(seq))
      PROVE  /\ Len(Append(seq, e)) = Len(seq) + 1 /\ DOMAIN Append(seq, e) = 1..(Len(seq) + 1)
             /\ Append(seq, e) \in Seq(Range(Append(seq, e)))
             /\ \A i \in DOMAIN seq : Append(seq, e)[i] = seq[i]
             /\ Append(seq, e)[Len(seq) + 1] = e
  <2>1. /\ Len(Append(seq, e)) = Len(seq) + 1 /\ DOMAIN Append(seq, e) = 1..(Len(seq) + 1)
        /\ \A i \in DOMAIN seq : Append(seq, e)[i] = seq[i]
        /\ Append(seq, e)[Len(seq) + 1] = e
        /\ Append(seq, e) \in Seq(Range(seq) \cup {e})
    BY <1>1, AppendProperties, SeqMonotonic
  <2> HIDE DEF e
  <2> QED BY <2>1, SeqOfRange DEF Range
<1>2. /\ written \in Seq(Range(written)) /\ Lines \in Seq(Range(Lines))
      /\ written' = Append(written, e) /\ journal' = Append(Lines, e)
  BY DEF ReportsInv, WrittenInv, JournalInv, Appended
<1> HIDE DEF e
<1>3. 1 \in DOMAIN journal'
  BY <1>1, <1>2
<1>4. Lines' = journal'
  BY <1>3 DEF Lines, NoiseIsNoData
<1>5. ASSUME Lines' = written' PROVE Lines = written
  <2>1. Append(Lines, e) = Append(written, e)
    BY <1>2, <1>4, <1>5
  <2>2. Len(Lines) + 1 = Len(written) + 1
    BY <1>1, <1>2, <2>1
  <2>3. Len(Lines) = Len(written)
    <3>1. Len(Lines) \in Nat /\ Len(written) \in Nat
      BY InvTypes
    <3> QED BY <2>2, <3>1
  <2>4. \A i \in DOMAIN Lines : i \in DOMAIN written /\ Lines[i] = written[i]
    BY <1>1, <1>2, <2>1, <2>3, InvTypes
  <2> QED BY <1>2, <2>3, <2>4
<1> QED BY <1>1, <1>2, <1>4, <1>5 DEF e

LEMMA AppendNext ==
  ASSUME NoiseIsNoData, ReportsInv,
         NEW says \in Sayings \cup {[type |-> "checkpoint", id |-> Len(written) + 1]},
         NEW count, NEW signer \in Signers, Appended(says, count, signer)
  PROVE  WrittenInv' /\ JournalInv'
<1> DEFINE e == NewEvent(says, count, signer)
<1>1. /\ DOMAIN e = EventFields
      /\ e.id = Len(written) + 1 /\ e.shape = "known" /\ e.kind = says.type
      /\ e.body = "written" /\ e.says = says
      /\ e.prev = IF Lines = <<>> THEN None ELSE Lines[Len(Lines)].hash
      /\ e.hash = Digest(e) /\ Authentic(e, {signer})
  BY NewEventFacts
<1>2. /\ Len(written') = Len(written) + 1 /\ DOMAIN written' = 1..(Len(written) + 1)
      /\ written' \in Seq(Range(written'))
      /\ \A i \in DOMAIN written : written'[i] = written[i]
      /\ written'[Len(written) + 1] = e
  BY AppendedFacts
<1>3. /\ Len(journal') = Len(Lines) + 1 /\ DOMAIN journal' = 1..(Len(Lines) + 1)
      /\ journal' \in Seq(Range(journal'))
      /\ \A i \in DOMAIN Lines : journal'[i] = Lines[i]
      /\ journal'[Len(Lines) + 1] = e
      /\ Lines' = journal'
  BY AppendedFacts
<1>4. /\ Len(written) \in Nat /\ DOMAIN written = 1..Len(written)
      /\ Len(Lines) \in Nat /\ DOMAIN Lines = 1..Len(Lines)
      /\ written = <<>> <=> Len(written) = 0
      /\ Lines = <<>> <=> Len(Lines) = 0
      /\ Lines = <<>> <=> written = <<>>
  BY InvTypes DEF ReportsInv, JournalInv
<1> HIDE DEF e
<1>5. IF Len(written) + 1 = 1 THEN e.prev = None
      ELSE 1 \in DOMAIN e.prev /\ IdIn(e.prev) = (Len(written) + 1) - 1
  <2>1. CASE Len(written) = 0
    BY <1>1, <1>4, <2>1
  <2>2. CASE Len(written) # 0
    <3>1. Lines # <<>> /\ Lines[Len(Lines)] \notin {Blank, Garbled}
      BY <1>4, <2>2 DEF Appended
    <3>2. /\ 1 \in DOMAIN Lines[Len(Lines)].hash
          /\ IdIn(Lines[Len(Lines)].hash) = Len(written)
      BY <3>1 DEF ReportsInv, JournalInv
    <3> QED BY <1>1, <1>4, <2>2, <3>1, <3>2
  <2> QED BY <2>1, <2>2
<1>6. Authentic(e, Signers)
  BY <1>1 DEF Authentic
<1>7. \A i \in DOMAIN written' :
        \/ i \in DOMAIN written /\ written'[i] = written[i]
        \/ i = Len(written) + 1
  BY <1>2, <1>4
<1>8. WrittenInv'
  <2> DEFINE Good(x, i) ==
        /\ DOMAIN x = EventFields
        /\ x.id = i /\ x.shape = "known" /\ x.kind = x.says.type /\ x.body = "written"
        /\ x.says \in Sayings \cup {[type |-> "checkpoint", id |-> i]}
        /\ Authentic(x, Signers)
        /\ IF i = 1 THEN x.prev = None ELSE 1 \in DOMAIN x.prev /\ IdIn(x.prev) = i - 1
  <2>1. \A i \in DOMAIN written : Good(written[i], i)
    BY DEF ReportsInv, WrittenInv
  <2>2. Good(e, Len(written) + 1)
    BY <1>1, <1>5, <1>6
  <2> HIDE DEF Good
  <2>3. \A i \in DOMAIN written' : Good(written'[i], i)
    BY <1>2, <1>7, <2>1, <2>2
  <2> QED BY <1>2, <2>3 DEF WrittenInv, Good
<1>9. JournalInv'
  <2>1. \A line \in Range(written) \cup {e} : line \in Range(written')
    BY <1>2, <1>4 DEF Range
  <2>2. \A i \in DOMAIN Lines' : Plausible(Lines[i])'
    <3> TAKE i \in DOMAIN Lines'
    <3>1. i \in DOMAIN Lines \/ i = Len(Lines) + 1
      BY <1>3, <1>4
    <3>2. \A k \in DOMAIN Lines : Plausible(Lines[k])
      BY DEF ReportsInv, JournalInv
    <3>3. CASE i \in DOMAIN Lines
      <4>1. Lines'[i] = Lines[i]
        BY <1>3, <3>3
      <4>2. Plausible(Lines[i])
        BY <3>2, <3>3
      <4> QED BY <2>1, <4>1, <4>2 DEF Plausible
    <3>4. CASE i = Len(Lines) + 1
      BY <1>1, <1>3, <2>1, <3>4 DEF Plausible
    <3> QED BY <3>1, <3>3, <3>4
  <2>3. Lines' # <<>> /\ journal' # <<>> /\ written' # <<>> /\ Lines' \in Seq(Range(Lines'))
    BY <1>2, <1>3, <1>4
  <2>4. Lines'[Len(Lines')] = e
    BY <1>3
  <2>5. 1 \in DOMAIN e.hash /\ IdIn(e.hash) = Len(written')
    BY <1>1, <1>2 DEF Digest, IdIn
  <2> QED BY <2>2, <2>3, <2>4, <2>5 DEF JournalInv
<1> QED BY <1>8, <1>9

(* An append of this home keeps its undamaged journal a chain. *)
LEMMA HomeAppend ==
  ASSUME NoiseIsNoData, ReportsInv, author = "home",
         NEW says, NEW count \in 0..Len(Lines), NEW signer, Appended(says, count, signer),
         trusted \subseteq trusted', signer \in trusted', Lines' = written'
  PROVE  Chain(written', trusted')
<1> DEFINE e == NewEvent(says, count, signer)
<1>1. Lines = written
  BY AppendedFacts
<1>2. Chain(written, trusted')
  BY <1>1, MoreKeys DEF ReportsInv, HomeInv
<1>3. /\ DOMAIN e = EventFields /\ e.id = Len(written) + 1 /\ e.shape = "known" /\ e.count = count
      /\ e.prev = IF Lines = <<>> THEN None ELSE Lines[Len(Lines)].hash
      /\ e.kind = "checkpoint" => e.head = e.prev
      /\ Authentic(e, {signer})
  BY NewEventFacts
<1> HIDE DEF e
<1>4. e \notin {None, Blank, Garbled}
  BY <1>3 DEF NoiseIsNoData, EventFields
<1>5. Authentic(e, trusted')
  BY <1>3 DEF Authentic
<1>6. \A i \in DOMAIN written : written[i].id # e.id
  BY <1>3, InvTypes DEF ReportsInv, WrittenInv
<1>7. e.prev = IF written = <<>> THEN None ELSE written[Len(written)].hash
  BY <1>1, <1>3
<1>8. e.kind = "checkpoint" => e.head = e.prev /\ e.count \in 0..Len(written)
  BY <1>1, <1>3
<1>9. written' = Append(written, e)
  BY DEF Appended, e
<1> QED BY <1>2, <1>3, <1>4, <1>5, <1>6, <1>7, <1>8, <1>9, LongerChain

-----------------------------------------------------------------------------
(* The steps *)

(* load_or_create, key-info and key-rotate only add to the trusted set. *)
LEMMA KeysNext ==
  ASSUME ReportsInv, LoadOrCreate \/ KeyRotate
  PROVE  /\ key' \in Keys /\ key' \in trusted'
         /\ trusted \subseteq trusted' /\ trusted' \subseteq Keys
BY DEF LoadOrCreate, KeyRotate, ReportsInv, TypeOK

(* The files stay as they are. *)
LEMMA QuietNext ==
  ASSUME ReportsInv, UNCHANGED <<journal, witness, author, written>>,
         key' \in Keys \cup {None}, key' # None => key' \in trusted',
         trusted \subseteq trusted', trusted' \subseteq Keys
  PROVE  ReportsInv'
<1>1. TypeOK'
  BY DEF ReportsInv, TypeOK
<1>2. WrittenInv' /\ JournalInv' /\ WitnessInv'
  BY DEF ReportsInv, WrittenInv, JournalInv, WitnessInv, Lines, Plausible
<1>3. HomeInv'
  BY MoreKeys DEF ReportsInv, HomeInv, Lines
<1> QED BY <1>1, <1>2, <1>3 DEF ReportsInv

(* An event is appended, by this home or by the other machine. *)
LEMMA AppendingNext ==
  ASSUME NoiseIsNoData, ReportsInv,
         NEW says \in Sayings \cup {[type |-> "checkpoint", id |-> Len(written) + 1]},
         NEW count \in 0..Len(Lines), NEW signer \in Signers, AppendEvent(says, count, signer),
         author' = author, author = "home" => signer \in trusted',
         key' \in Keys \cup {None}, key' # None => key' \in trusted',
         trusted \subseteq trusted', trusted' \subseteq Keys,
         \/ witness' = witness
         \/ witness' = journal'[Len(journal')] /\ says.type = "checkpoint"
  PROVE  ReportsInv'
<1> DEFINE e == NewEvent(says, count, signer)
<1>1. Appended(says, count, signer)
  BY AppendIsAppended
<1>2. WrittenInv' /\ JournalInv'
  BY <1>1, AppendNext
<1>3. HomeInv'
  <2> SUFFICES ASSUME author' = "home", Lines' = written' PROVE Chain(written', trusted')
    BY DEF HomeInv
  <2> QED BY <1>1, HomeAppend
<1>4. e.id = Len(written) + 1 /\ e.kind = says.type
  BY DEF NewEvent, Finalize
<1>5. /\ Len(written') = Len(written) + 1 /\ DOMAIN written' = 1..(Len(written) + 1)
      /\ \A i \in DOMAIN written : written'[i] = written[i]
      /\ written'[Len(written) + 1] = e
      /\ Len(journal') = Len(Lines) + 1 /\ DOMAIN journal' = 1..(Len(Lines) + 1)
      /\ \A i \in DOMAIN Lines : journal'[i] = Lines[i]
      /\ journal'[Len(Lines) + 1] = e
  BY <1>1, AppendedFacts
<1> HIDE DEF e
<1>6. /\ Len(written) \in Nat /\ DOMAIN written = 1..Len(written)
      /\ Len(Lines) \in Nat /\ DOMAIN Lines = 1..Len(Lines)
  BY InvTypes
<1>7. WitnessInv'
  <2>1. Len(written) + 1 \in DOMAIN written' /\ \A i \in DOMAIN written : i \in DOMAIN written'
    BY <1>5, <1>6
  <2>2. CASE witness' = witness
    BY <1>5, <2>1, <2>2 DEF ReportsInv, WitnessInv
  <2>3. CASE witness' = journal'[Len(journal')] /\ says.type = "checkpoint"
    BY <1>4, <1>5, <2>1, <2>3 DEF WitnessInv
  <2> QED BY <2>2, <2>3
<1>8. TypeOK'
  <2>1. Len(written') <= MaxEvents /\ e.id \in 1..MaxEvents
    BY <1>1, <1>4, <1>5, <1>6, ReportsAssumption DEF Appended
  <2>2. \A i \in DOMAIN Lines : Lines[i] \in {Blank, Garbled} \/ Lines[i].id \in 1..MaxEvents
    BY DEF ReportsInv, TypeOK, Lines
  <2>3. \A i \in DOMAIN journal' : i \in DOMAIN Lines \/ i = Len(Lines) + 1
    BY <1>5, <1>6
  <2>4. \A i \in DOMAIN journal' :
          journal'[i] \in {Blank, Garbled} \/ journal'[i].id \in 1..MaxEvents
    BY <1>5, <2>1, <2>2, <2>3
  <2> QED BY <2>1, <2>4 DEF TypeOK
<1> QED BY <1>2, <1>3, <1>7, <1>8 DEF ReportsInv

(* A line of the journal is changed, or one but the last is lost. *)
LEMMA DamageNext ==
  ASSUME NoiseIsNoData, ReportsInv, Damage
  PROVE  ReportsInv'
<1>1. /\ journal = written /\ Len(written) \in Nat /\ Len(written) >= 1
      /\ UNCHANGED <<witness, key, trusted, author, written>>
  BY InvTypes, ReportsAssumption DEF Damage, homeVars
<1>2. /\ DOMAIN written = 1..Len(written) /\ written \in Seq(Range(written))
      /\ journal # None /\ Lines = journal
  <2>1. DOMAIN written = 1..Len(written) /\ written \in Seq(Range(written))
    BY InvTypes DEF ReportsInv, WrittenInv
  <2>2. 1 \in DOMAIN journal
    BY <1>1, <2>1
  <2> QED BY <2>1, <2>2 DEF Lines, NoiseIsNoData
<1> DEFINE Damaged(seq) ==
      /\ seq \in Seq(Range(seq)) /\ Len(seq) \in Nat /\ Len(seq) >= 1 /\ seq # written
      /\ \A i \in DOMAIN seq : Plausible(seq[i])
      /\ \A i \in DOMAIN seq : seq[i] \in {Blank, Garbled} \/ seq[i].id \in 1..MaxEvents
      /\ seq[Len(seq)] \notin {Blank, Garbled} =>
           1 \in DOMAIN seq[Len(seq)].hash /\ IdIn(seq[Len(seq)].hash) = Len(written)
<1>3. \A i \in DOMAIN written :
        LET e == written[i]
        IN  /\ DOMAIN e = EventFields /\ e.id \in 1..MaxEvents /\ e.body = "written"
            /\ Authentic(e, Signers) /\ Plausible(e) /\ e.id = i /\ e \notin {Blank, Garbled}
            /\ 1 \in DOMAIN e.hash /\ IdIn(e.hash) = i
  <2> TAKE i \in DOMAIN written
  <2> DEFINE e == written[i]
  <2>1. DOMAIN e = EventFields /\ e.id = i /\ e.body = "written" /\ Authentic(e, Signers)
    BY DEF ReportsInv, WrittenInv
  <2>2. e \in Range(written)
    BY DEF Range
  <2>3. Plausible(e)
    BY <2>1, <2>2 DEF Plausible
  <2>4. i \in 1..MaxEvents
    BY <1>1, <1>2, InvTypes, ReportsAssumption
  <2>5. e \notin {Blank, Garbled}
    BY <2>1 DEF NoiseIsNoData, EventFields
  <2>6. 1 \in DOMAIN e.hash /\ IdIn(e.hash) = i
    BY <2>1 DEF Authentic, Digest, IdIn
  <2> QED BY <2>1, <2>3, <2>4, <2>5, <2>6
<1>4. ASSUME NEW i \in DOMAIN journal, NEW line, journal' = [journal EXCEPT ![i] = line],
             Plausible(line), line # written[i],
             \/ line \in {Blank, Garbled}
             \/ line.id = written[i].id /\ 1 \in DOMAIN line.hash /\ IdIn(line.hash) = i
      PROVE  Damaged(journal')
  <2>1. /\ Len(journal') = Len(journal) /\ DOMAIN journal' = DOMAIN journal
        /\ \A j \in DOMAIN journal : journal'[j] = IF j = i THEN line ELSE written[j]
        /\ journal' \in Seq(Range(written) \cup {line})
    <3>1. i \in 1..Len(journal) /\ journal \in Seq(Range(written) \cup {line})
      BY <1>1, <1>2, SeqMonotonic
    <3> QED BY <1>1, <1>4, <3>1, ExceptSeq
  <2>2. journal' \in Seq(Range(journal')) /\ journal' # written
    BY <1>1, <1>4, <2>1, SeqOfRange
  <2>3. \A j \in DOMAIN journal' : Plausible(journal'[j])
    BY <1>1, <1>3, <1>4, <2>1
  <2>4. \A j \in DOMAIN journal' : journal'[j] \in {Blank, Garbled} \/ journal'[j].id \in 1..MaxEvents
    BY <1>1, <1>3, <1>4, <2>1
  <2>5. Len(journal') \in DOMAIN journal
    BY <1>1, <1>2, <2>1
  <2>6. journal'[Len(journal')] \notin {Blank, Garbled} =>
          /\ 1 \in DOMAIN journal'[Len(journal')].hash
          /\ IdIn(journal'[Len(journal')].hash) = Len(written)
    <3>1. CASE i = Len(written)
      BY <1>1, <1>4, <2>1, <2>5, <3>1
    <3>2. CASE i # Len(written)
      BY <1>1, <1>3, <2>1, <2>5, <3>2
    <3> QED BY <3>1, <3>2
  <2> QED BY <1>1, <2>1, <2>2, <2>3, <2>4, <2>6
<1>5. ASSUME NEW i \in 1..(Len(journal) - 1), journal' = RemoveAt(journal, i)
      PROVE  Damaged(journal')
  <2>1. /\ Len(journal') = Len(journal) - 1 /\ DOMAIN journal' = 1..(Len(journal) - 1)
        /\ \A j \in DOMAIN journal' : journal'[j] = IF j < i THEN written[j] ELSE written[j + 1]
        /\ journal' \in Seq(Range(written))
    <3> DEFINE front == SubSeq(written, 1, i - 1)
               back  == SubSeq(written, i + 1, Len(written))
    <3>1. i - 1 \in Nat /\ i + 1 <= Len(written) /\ i + 1 \in Nat
      BY <1>1
    <3>2. /\ front \in Seq(Range(written)) /\ Len(front) = i - 1
          /\ \A j \in 1..(i - 1) : front[j] = written[j]
      BY <1>1, <1>2, <3>1
    <3>3. /\ back \in Seq(Range(written)) /\ Len(back) = Len(written) - i
          /\ \A j \in 1..(Len(written) - i) : back[j] = written[i + j]
      BY <1>1, <1>2, <3>1
    <3>4. journal' = front \o back
      BY <1>1, <1>5 DEF RemoveAt
    <3> HIDE DEF front, back
    <3>5. /\ journal' \in Seq(Range(written)) /\ Len(journal') = Len(front) + Len(back)
          /\ \A j \in 1..(Len(front) + Len(back)) :
               journal'[j] = IF j <= Len(front) THEN front[j] ELSE back[j - Len(front)]
      <4>1. front \in Seq(Range(written)) /\ back \in Seq(Range(written))
        BY <3>2, <3>3
      <4> QED BY <3>4, <4>1, ConcatProperties
    <3>6. Len(journal') = Len(journal) - 1 /\ DOMAIN journal' = 1..(Len(journal) - 1)
      BY <1>1, <3>1, <3>2, <3>3, <3>5
    <3>7. ASSUME NEW j \in DOMAIN journal'
          PROVE  journal'[j] = IF j < i THEN written[j] ELSE written[j + 1]
      <4>1. j \in 1..Len(journal') /\ j \in Nat
        BY <1>1, <3>6
      <4>2. CASE j < i
        BY <3>1, <3>2, <3>5, <4>1, <4>2
      <4>3. CASE j >= i
        <5>1. j - (i - 1) \in 1..(Len(written) - i) /\ i + (j - (i - 1)) = j + 1
          BY <1>1, <3>1, <3>6, <4>1, <4>3
        <5>2. ~(j <= i - 1) /\ ~(j < i) /\ Len(front) + Len(back) = Len(journal')
          BY <3>1, <3>5, <4>1, <4>3
        <5>3. journal'[j] = back[j - (i - 1)]
          BY <3>2, <3>5, <4>1, <5>2
        <5>4. back[j - (i - 1)] = written[i + (j - (i - 1))]
          BY <3>3, <5>1
        <5> QED BY <5>1, <5>2, <5>3, <5>4
      <4> QED BY <3>1, <4>1, <4>2, <4>3
    <3> QED BY <3>5, <3>6, <3>7
  <2>2. \A j \in DOMAIN journal' : \E k \in DOMAIN written : journal'[j] = written[k]
    BY <1>1, <1>2, <2>1
  <2>3. journal'[Len(journal')] = written[Len(written)] /\ Len(written) \in DOMAIN written
    BY <1>1, <1>2, <2>1
  <2>4. /\ 1 \in DOMAIN written[Len(written)].hash
        /\ IdIn(written[Len(written)].hash) = Len(written)
    BY <1>3, <2>3
  <2>5. journal' \in Seq(Range(journal')) /\ journal' # written
    BY <1>1, <2>1, SeqOfRange
  <2>6. Len(journal') \in Nat /\ Len(journal') >= 1
    BY <1>1, <2>1
  <2> QED BY <1>3, <2>2, <2>3, <2>4, <2>5, <2>6
<1>6. Damaged(journal')
  <2>1. CASE \E i \in 1..(Len(journal) - 1) : journal' = RemoveAt(journal, i)
    BY <1>5, <2>1
  <2>2. ASSUME NEW i \in DOMAIN journal,
               journal' \in {[journal EXCEPT ![i] = Changed(journal[i])],
                             [journal EXCEPT ![i] = Finalize(Changed(journal[i]), None)],
                             [journal EXCEPT ![i] = Garbled]}
        PROVE  Damaged(journal')
    <3> DEFINE e == written[i]
    <3>1. /\ DOMAIN e = EventFields /\ e.id = i /\ e.body = "written" /\ Authentic(e, Signers)
          /\ e \notin {Blank, Garbled} /\ journal[i] = e
      BY <1>1, <1>3
    <3> HIDE DEF e, Damaged
    <3>2. CASE journal' = [journal EXCEPT ![i] = Changed(journal[i])]
      <4>1. /\ DOMAIN Changed(e) = EventFields /\ Changed(e).body = "changed"
            /\ Changed(e).id = i /\ Changed(e).prev = e.prev
            /\ Changed(e).hash = e.hash /\ Changed(e).sig = e.sig
        BY <3>1 DEF Changed, EventFields
      <4>2. Plausible(Changed(e))
        BY <3>1, <4>1 DEF Plausible, Authentic, Sign, Digest
      <4>3. 1 \in DOMAIN Changed(e).hash /\ IdIn(Changed(e).hash) = i
        BY <3>1, <4>1 DEF Authentic, Digest, IdIn
      <4>4. Changed(e) # e
        BY <3>1, <4>1
      <4> QED BY <1>4, <3>1, <3>2, <4>1, <4>2, <4>3, <4>4 DEF e
    <3>3. CASE journal' = [journal EXCEPT ![i] = Finalize(Changed(journal[i]), None)]
      <4> DEFINE f == Finalize(Changed(e), None)
      <4>1. /\ DOMAIN f = EventFields /\ f.body = "changed" /\ f.id = i
            /\ f.hash = Digest(Changed(e)) /\ f.sig = Sign(None, Digest(Changed(e)))
        BY <3>1 DEF Changed, Finalize, EventFields
      <4>2. Plausible(f)
        BY <4>1, ReportsAssumption DEF Plausible, Sign, Signers
      <4>3. 1 \in DOMAIN f.hash /\ IdIn(f.hash) = i
        BY <3>1, <4>1 DEF Changed, Digest, IdIn, EventFields
      <4>4. f # e
        BY <3>1, <4>1
      <4> HIDE DEF f
      <4>5. journal' = [journal EXCEPT ![i] = f]
        BY <3>1, <3>3 DEF f
      <4> QED BY <1>4, <3>1, <4>1, <4>2, <4>3, <4>4, <4>5 DEF e
    <3>4. CASE journal' = [journal EXCEPT ![i] = Garbled]
      <4>1. Plausible(Garbled) /\ Garbled # e
        BY <3>1 DEF Plausible
      <4> QED BY <1>4, <3>4, <4>1 DEF e
    <3> QED BY <2>2, <3>2, <3>3, <3>4
  <2> QED BY <2>1, <2>2 DEF Damage
<1>7. 1 \in DOMAIN journal'
  BY <1>6
<1>8. Lines' = journal' /\ Lines' # <<>> /\ written' # <<>>
  BY <1>1, <1>2, <1>6, <1>7 DEF Lines, NoiseIsNoData
<1>9. \A line : Plausible(line) <=> \/ line \in {Blank, Garbled}
                                    \/ /\ DOMAIN line = EventFields
                                       /\ \/ line \in Range(written')
                                          \/ /\ line.body = "changed"
                                             /\ \A k \in Signers : line.sig # Sign(k, Digest(line))
  BY <1>1 DEF Plausible
<1>10. JournalInv'
  BY <1>1, <1>6, <1>8, <1>9 DEF JournalInv, Plausible
<1>11. TypeOK'
  BY <1>1, <1>6 DEF ReportsInv, TypeOK
<1>12. WrittenInv' /\ WitnessInv'
  BY <1>1 DEF ReportsInv, WrittenInv, WitnessInv
<1>13. HomeInv'
  BY <1>1, <1>6, <1>8 DEF HomeInv
<1> QED BY <1>10, <1>11, <1>12, <1>13 DEF ReportsInv

LEMMA InvNext ==
  ASSUME NoiseIsNoData, ReportsInv, [Next]_vars
  PROVE  ReportsInv'
<1>1. ASSUME NEW says \in Sayings, Write(says) PROVE ReportsInv'
  <2>1. /\ UNCHANGED <<witness, author>>
        /\ AppendEvent(says, 0, IF author = "home" THEN key' ELSE OtherKey)
    BY <1>1 DEF Write
  <2>2. 0 \in 0..Len(Lines)
    BY InvTypes
  <2>3. CASE author = "home"
    <3>1. LoadOrCreate
      BY <1>1, <2>3 DEF Write
    <3>2. /\ key' \in Keys /\ key' \in trusted'
          /\ trusted \subseteq trusted' /\ trusted' \subseteq Keys
      BY <3>1, KeysNext
    <3>3. key' \in Signers /\ AppendEvent(says, 0, key')
      BY <2>1, <2>3, <3>2 DEF Signers
    <3> QED BY <2>1, <2>2, <3>2, <3>3, AppendingNext
  <2>4. CASE author # "home"
    <3>1. UNCHANGED <<key, trusted>> /\ OtherKey \in Signers /\ AppendEvent(says, 0, OtherKey)
      BY <1>1, <2>1, <2>4 DEF Write, homeVars, Signers
    <3>2. key \in Keys \cup {None} /\ (key # None => key \in trusted) /\ trusted \subseteq Keys
      BY DEF ReportsInv, TypeOK
    <3> QED BY <2>1, <2>2, <2>4, <3>1, <3>2, AppendingNext
  <2> QED BY <2>3, <2>4
<1>2. CASE CheckpointCommand
  <2>1. /\ key' \in Keys /\ key' \in trusted'
        /\ trusted \subseteq trusted' /\ trusted' \subseteq Keys
    BY <1>2, KeysNext DEF CheckpointCommand
  <2> DEFINE says == [type |-> "checkpoint", id |-> Len(written) + 1]
  <2>2. /\ AppendEvent(says, Len(Lines), key') /\ author' = author
        /\ witness' = journal'[Len(journal')] /\ says.type = "checkpoint"
        /\ key' \in Signers /\ Len(Lines) \in 0..Len(Lines)
        /\ says \in Sayings \cup {[type |-> "checkpoint", id |-> Len(written) + 1]}
    BY <1>2, <2>1, InvTypes DEF CheckpointCommand, CheckpointSaying, Signers
  <2> HIDE DEF says
  <2> QED BY <2>1, <2>2, AppendingNext
<1>3. CASE Damage
  BY <1>3, DamageNext
<1>4. CASE KeyInfo \/ KeyRotate
  <2>1. UNCHANGED <<journal, witness, author, written>> /\ (LoadOrCreate \/ KeyRotate)
    BY <1>4 DEF KeyInfo, KeyRotate
  <2> QED BY <2>1, KeysNext, QuietNext
<1>5. CASE SpoilTrusted \/ UNCHANGED vars
  <2>1. UNCHANGED <<journal, witness, author, written, key, trusted>>
    BY <1>5 DEF SpoilTrusted, vars, homeVars
  <2>2. key \in Keys \cup {None} /\ (key # None => key \in trusted) /\ trusted \subseteq Keys
    BY DEF ReportsInv, TypeOK
  <2> QED BY <2>1, <2>2, QuietNext
<1> QED BY <1>1, <1>2, <1>3, <1>4, <1>5 DEF Next

(***************************************************************************)
(* Every event ever appended is signed by an author of the journal and     *)
(* tells its place, every line of the journal is one of them or damaged    *)
(* beyond signing, and the undamaged journal of this home is a chain of    *)
(* its trusted keys.                                                       *)
(***************************************************************************)
THEOREM ReportsInvariance ==
  ASSUME NoiseIsNoData, NullIsNoData PROVE Spec => []ReportsInv
<1>1. Init => ReportsInv
  BY InitInv
<1>2. ReportsInv /\ [Next]_vars => ReportsInv'
  BY InvNext
<1> QED BY <1>1, <1>2, PTL DEF Spec

(***************************************************************************)
(* The keys and files the commands work on are well formed.                *)
(***************************************************************************)
THEOREM TypeCorrect ==
  ASSUME NoiseIsNoData, NullIsNoData PROVE Spec => []TypeOK
<1>1. ReportsInv => TypeOK
  BY DEF ReportsInv
<1> QED BY <1>1, ReportsInvariance, PTL

(***************************************************************************)
(* cli.py, _cmd_key_rotate, "old events remain verifiable via the trusted  *)
(* set": whatever was rotated, checkpointed and appended, the undamaged    *)
(* journal of this home verifies, alone and against its witness.           *)
(***************************************************************************)
THEOREM OldEventsVerify ==
  ASSUME NoiseIsNoData, NullIsNoData PROVE Spec => []OldEventsStayVerifiable
<1>1. ASSUME ReportsInv, author = "home", journal # None, journal = written, readable,
             NEW against \in {None, witness}
      PROVE  VerifyExit("trusted", against) = 0
  <2>1. Lines = written
    BY <1>1 DEF Lines
  <2>2. Chain(journal, trusted)
    BY <1>1, <2>1 DEF ReportsInv, HomeInv
  <2>3. 1 \in DOMAIN journal
    BY <1>1, <2>1, InvTypes DEF ReportsInv, JournalInv
  <2>4. trusted # {}
    BY <2>2, <2>3 DEF Chain, Authentic
  <2>5. trusted # None
    BY <1>1 DEF ReportsInv, TypeOK, NullIsNoData, Signers
  <2>6. Usable("trusted") /\ Resolve("trusted") = trusted
    BY <1>1, <2>4, <2>5 DEF Usable, Resolve
  <2>7. \/ against = None
        \/ \E i \in DOMAIN journal : against = journal[i] /\ journal[i].kind = "checkpoint"
    BY <1>1 DEF ReportsInv, WitnessInv
  <2>8. VerifyJournal(journal, trusted, against) = {}
    BY <2>2, <2>7, ChainVerifies
  <2> QED BY <2>6, <2>8 DEF VerifyExit
<1>2. ReportsInv => OldEventsStayVerifiable
  BY <1>1 DEF OldEventsStayVerifiable
<1> QED BY <1>2, ReportsInvariance, PTL

-----------------------------------------------------------------------------
(* What verifies is how the writing began. *)

LEMMA WrittenTellsPlaces ==
  ASSUME NoiseIsNoData, ReportsInv
  PROVE  PlacesAreTold(written)
<1>1. ASSUME NEW j \in DOMAIN written, written[j].prev = None PROVE j = 1
  BY <1>1 DEF ReportsInv, WrittenInv, NoiseIsNoData
<1>2. ASSUME NEW j \in DOMAIN written, NEW k \in DOMAIN written, written[j].prev = written[k].hash
      PROVE  j = k + 1
  <2>1. written[k].hash = Digest(written[k]) /\ written[k].id = k
    BY DEF ReportsInv, WrittenInv, Authentic
  <2>2. IdIn(written[j].prev) = k /\ written[j].prev # None
    BY <1>2, <2>1 DEF IdIn, Digest, NoiseIsNoData
  <2>3. j # 1 /\ IdIn(written[j].prev) = j - 1
    BY <2>2 DEF ReportsInv, WrittenInv
  <2>4. j \in Nat /\ k \in Nat
    BY InvTypes
  <2> QED BY <2>2, <2>3, <2>4
<1> QED BY <1>1, <1>2 DEF PlacesAreTold

LEMMA VerifiedIsWritten ==
  ASSUME NoiseIsNoData, ReportsInv, NEW choice \in KeyChoices, Usable(choice),
         VerifyJournal(journal, Resolve(choice), None) = {}
  PROVE  /\ EventsOf(journal) \in Seq(EventLines(journal))
         /\ \A i \in DOMAIN EventsOf(journal) :
              /\ i \in DOMAIN written /\ EventsOf(journal)[i] = written[i]
              /\ EventsOf(journal)[i].key \in Resolve(choice)
<1> DEFINE events == EventsOf(journal)
<1>1. Lines = journal /\ Resolve(choice) \subseteq Signers
  BY DEF Lines, Usable, Resolve, KeyChoices, ReportsInv, TypeOK, Signers
<1>2. /\ Len(journal) \in Nat /\ DOMAIN journal = 1..Len(journal)
      /\ \A i \in DOMAIN journal : Plausible(journal[i])
  BY <1>1, InvTypes DEF ReportsInv, JournalInv
<1>3. events \in Seq(EventLines(journal))
  BY <1>2, EventsOfType
<1>4. \A i \in DOMAIN events : Authentic(events[i], Resolve(choice)) /\ Linked(events, i)
  BY AcceptedEvents, NoChainIssues
<1> HIDE DEF events
<1>5. ASSUME NEW i \in DOMAIN events PROVE \E j \in DOMAIN written : events[i] = written[j]
  <2>1. Plausible(events[i]) /\ events[i] \notin {Blank, Garbled}
    BY <1>2, <1>3 DEF EventLines
  <2>2. events[i].sig = Sign(events[i].key, Digest(events[i])) /\ events[i].key \in Signers
    BY <1>1, <1>4 DEF Authentic
  <2>3. events[i] \in Range(written)
    BY <2>1, <2>2 DEF Plausible
  <2> QED BY <2>3 DEF Range
<1>6. \A i \in DOMAIN events : i \in DOMAIN written /\ events[i] = written[i]
  BY <1>3, <1>4, <1>5, WrittenTellsPlaces, LinkedIsBeginning
<1>7. \A i \in DOMAIN events : events[i].key \in Resolve(choice)
  BY <1>4 DEF Authentic
<1> QED BY <1>3, <1>6, <1>7 DEF events

(***************************************************************************)
(* load_journal_snapshot: whoever wrote the journal and whatever was done  *)
(* to it since, audit and inspect report on nothing but a prefix of what   *)
(* was written, signed by the keys that were chosen.                       *)
(***************************************************************************)
THEOREM ReportsAreGenuine ==
  ASSUME NoiseIsNoData, NullIsNoData PROVE Spec => []ReportsAreOfWhatWasWritten
<1>1. ASSUME ReportsInv, NEW choice \in KeyChoices,
             AuditExit(choice) = 0 \/ InspectReport(choice) # None
      PROVE  /\ IsPrefix(VerifiedSnapshot(choice), written)
             /\ \A i \in DOMAIN VerifiedSnapshot(choice) :
                  VerifiedSnapshot(choice)[i].key \in Resolve(choice)
  <2>1. VerifiedSnapshot(choice) # None
    BY <1>1 DEF AuditExit, InspectReport
  <2>2. /\ Usable(choice) /\ VerifyJournal(journal, Resolve(choice), None) = {}
        /\ VerifiedSnapshot(choice) = EventsOf(journal)
    BY <2>1 DEF VerifiedSnapshot
  <2>3. /\ EventsOf(journal) \in Seq(EventLines(journal))
        /\ \A i \in DOMAIN EventsOf(journal) :
             /\ i \in DOMAIN written /\ EventsOf(journal)[i] = written[i]
             /\ EventsOf(journal)[i].key \in Resolve(choice)
    BY <1>1, <2>2, VerifiedIsWritten
  <2>4. written \in Seq(Range(written))
    BY <1>1 DEF ReportsInv, WrittenInv
  <2>5. IsPrefix(EventsOf(journal), written)
    BY <2>3, <2>4, BeginningIsPrefix DEF IsPrefix
  <2> QED BY <2>2, <2>3, <2>5
<1>2. ReportsInv => ReportsAreOfWhatWasWritten
  BY <1>1 DEF ReportsAreOfWhatWasWritten
<1> QED BY <1>2, ReportsInvariance, PTL

-----------------------------------------------------------------------------
(* audit.py *)

LEMMA NoLinkIssues ==
  ASSUME NEW events, NEW d, NEW j, LinkIssues(events, d, j) = {}
  PROVE  /\ ~(j <= d) /\ events[d].verdict = "allowed"
         /\ events[j].identity = events[d].identity /\ events[j].verdict \in OutcomeKinds
<1> DEFINE codes == {"outcome_before_decision", "outcome_for_denied_decision",
                     "outcome_identity_mismatch", "invalid_outcome_status"}
           Issue(code) ==
             CASE code = "outcome_before_decision" -> j <= d
               [] code = "outcome_for_denied_decision" -> events[d].verdict # "allowed"
               [] code = "outcome_identity_mismatch" -> events[j].identity # events[d].identity
               [] code = "invalid_outcome_status" -> events[j].verdict \notin OutcomeKinds
<1>1. LinkIssues(events, d, j) = {code \in codes : Issue(code)}
  BY DEF LinkIssues
<1>2. /\ Issue("outcome_before_decision") <=> j <= d
      /\ Issue("outcome_for_denied_decision") <=> events[d].verdict # "allowed"
      /\ Issue("outcome_identity_mismatch") <=> events[j].identity # events[d].identity
      /\ Issue("invalid_outcome_status") <=> events[j].verdict \notin OutcomeKinds
  OBVIOUS
<1> HIDE DEF Issue
<1>3. \A code \in codes : ~Issue(code)
  BY <1>1
<1> QED BY <1>2, <1>3

LEMMA NoLinkIssuesConversely ==
  ASSUME NEW events, NEW d, NEW j,
         ~(j <= d), events[d].verdict = "allowed",
         events[j].identity = events[d].identity, events[j].verdict \in OutcomeKinds
  PROVE  LinkIssues(events, d, j) = {}
BY DEF LinkIssues

LEMMA NoAuditIssues ==
  ASSUME NEW events
  PROVE  AuditIssues(events) = {} <=>
           /\ \A j \in DOMAIN events : \A k \in 1..(j - 1) : events[k].id # events[j].id
           /\ \A j \in Outcomes(events) : \E d \in Decisions(events) : events[d].id = events[j].ref
           /\ \A d \in Decisions(events) :
                /\ ~(Cardinality(LinkedOutcomes(events, events[d].id)) > 1)
                /\ \A j \in LinkedOutcomes(events, events[d].id) : LinkIssues(events, d, j) = {}
                /\ events[d].verdict \in DecisionKinds
<1> DEFINE duplicateIds == {"duplicate_event_id" : i \in {j \in DOMAIN events :
                              \E k \in 1..(j - 1) : events[k].id = events[j].id}}
           orphans == {"orphan_outcome" : i \in {j \in Outcomes(events) :
                         \A d \in Decisions(events) : events[d].id # events[j].ref}}
           duplicates == {"duplicate_outcome" : i \in {d \in Decisions(events) :
                            Cardinality(LinkedOutcomes(events, events[d].id)) > 1}}
           links == UNION {UNION {LinkIssues(events, d, j) :
                             j \in LinkedOutcomes(events, events[d].id)} : d \in Decisions(events)}
           invalid == {"invalid_decision" : i \in {d \in Decisions(events) :
                         events[d].verdict \notin DecisionKinds}}
<1>1. AuditIssues(events) = duplicateIds \cup orphans \cup duplicates \cup links \cup invalid
  BY DEF AuditIssues
<1>2. duplicateIds = {} <=>
        \A j \in DOMAIN events : \A k \in 1..(j - 1) : events[k].id # events[j].id
  OBVIOUS
<1>3. orphans = {} <=>
        \A j \in Outcomes(events) : \E d \in Decisions(events) : events[d].id = events[j].ref
  OBVIOUS
<1>4. duplicates = {} <=>
        \A d \in Decisions(events) : ~(Cardinality(LinkedOutcomes(events, events[d].id)) > 1)
  OBVIOUS
<1>5. links = {} <=>
        \A d \in Decisions(events) :
          \A j \in LinkedOutcomes(events, events[d].id) : LinkIssues(events, d, j) = {}
  OBVIOUS
<1>6. invalid = {} <=> \A d \in Decisions(events) : events[d].verdict \in DecisionKinds
  OBVIOUS
<1> HIDE DEF duplicateIds, orphans, duplicates, links, invalid
<1>7. AuditIssues(events) = {} <=>
        duplicateIds = {} /\ orphans = {} /\ duplicates = {} /\ links = {} /\ invalid = {}
  BY <1>1
<1> QED BY <1>2, <1>3, <1>4, <1>5, <1>6, <1>7

(* What the audit computes from its issues and statuses is the definition of
   docs/EVIDENCE_FORMAT.md. *)
LEMMA AuditAgrees ==
  ASSUME NEW n \in Nat, NEW events, DOMAIN events = 1..n
  PROVE  AuditIssues(events) = {} /\ ~NeedsReconciliation(events) <=> Reconciled(events)
<1> DEFINE linked(d) == LinkedOutcomes(events, events[d].id)
           Unique == \A i, j \in DOMAIN events : i # j => events[i].id # events[j].id
           Clean(d) ==
             /\ events[d].verdict \in {"allowed", "denied"}
             /\ events[d].verdict = "allowed" =>
                  \E j \in DOMAIN events : linked(d) = {j} /\ events[j].verdict = "succeeded"
             /\ events[d].verdict = "denied" => linked(d) = {}
<1>1. \A d : IsFiniteSet(linked(d))
  <2>1. IsFiniteSet(1..n)
    BY FS_Interval
  <2>2. \A d : linked(d) \subseteq 1..n
    BY DEF LinkedOutcomes, Outcomes
  <2> QED BY <2>1, <2>2, FS_Subset
<1>2. \A d : /\ Cardinality(linked(d)) \in Nat
             /\ Cardinality(linked(d)) = 1 <=> \E j : linked(d) = {j}
             /\ linked(d) = {} <=> Cardinality(linked(d)) = 0
  <2> TAKE d
  <2>1. IsFiniteSet(linked(d))
    BY <1>1
  <2> HIDE DEF linked
  <2> QED BY <2>1, FS_CardinalityType, FS_Singleton, FS_EmptySet
<1>3. \A d, j : j \in linked(d) <=>
        j \in DOMAIN events /\ events[j].type = "outcome" /\ events[j].ref = events[d].id
  BY DEF LinkedOutcomes, Outcomes
<1>4. Unique <=> \A j \in DOMAIN events : \A k \in 1..(j - 1) : events[k].id # events[j].id
  OBVIOUS
<1>5. ASSUME Unique
      PROVE  Decisions(events) = {d \in DOMAIN events : events[d].type = "decision"}
  BY <1>5 DEF Decisions
<1>6. ASSUME NEW d, events[d].verdict \in {"allowed", "denied"},
             InvocationStatus(events, d) \notin {"failed", "needs_reconciliation"}
      PROVE  Clean(d)
  <2> DEFINE theOne == events[CHOOSE j \in linked(d) : TRUE]
  <2>1. CASE events[d].verdict = "denied"
    BY <1>6, <2>1 DEF InvocationStatus
  <2>2. CASE events[d].verdict = "allowed"
    <3>1. /\ Cardinality(linked(d)) = 1 /\ theOne.verdict \in OutcomeKinds
          /\ InvocationStatus(events, d) = theOne.verdict
      BY <1>6, <2>2 DEF InvocationStatus
    <3>2. PICK j : linked(d) = {j}
      BY <1>2, <3>1
    <3>3. theOne = events[j]
      BY <3>2
    <3>4. j \in DOMAIN events
      BY <1>3, <3>2
    <3>5. events[j].verdict = "succeeded"
      BY <1>6, <3>1, <3>3 DEF OutcomeKinds
    <3> QED BY <2>2, <3>2, <3>4, <3>5
  <2> QED BY <1>6, <2>1, <2>2
<1>7. ASSUME NEW d, Clean(d)
      PROVE  InvocationStatus(events, d) \notin {"failed", "needs_reconciliation"}
  <2> DEFINE theOne == events[CHOOSE j \in linked(d) : TRUE]
  <2>1. CASE events[d].verdict = "denied"
    <3>1. linked(d) = {}
      BY <1>7, <2>1
    <3>2. InvocationStatus(events, d) = "denied"
      BY <2>1, <3>1 DEF InvocationStatus
    <3> QED BY <3>2
  <2>2. CASE events[d].verdict = "allowed"
    <3>1. PICK j : linked(d) = {j} /\ events[j].verdict = "succeeded"
      BY <1>7, <2>2
    <3>2. theOne.verdict = "succeeded" /\ Cardinality(linked(d)) = 1
      BY <1>2, <3>1
    <3>3. InvocationStatus(events, d) = "succeeded"
      BY <2>2, <3>2 DEF InvocationStatus, OutcomeKinds
    <3> QED BY <3>3
  <2> QED BY <1>7, <2>1, <2>2
<1>8. ASSUME Unique
      PROVE  Reconciled(events) <=>
               /\ \A j \in DOMAIN events : events[j].type = "outcome" =>
                    \E d \in 1..(j - 1) :
                      /\ events[d].type = "decision"
                      /\ events[d].id = events[j].ref
                      /\ events[d].identity = events[j].identity
                      /\ events[d].verdict = "allowed"
                      /\ events[j].verdict = "succeeded"
               /\ \A d \in DOMAIN events : events[d].type = "decision" =>
                    CASE events[d].verdict = "allowed" -> Cardinality(linked(d)) = 1
                      [] events[d].verdict = "denied" -> linked(d) = {}
                      [] OTHER -> FALSE
  <2>1. \A d : linked(d) = {j \in DOMAIN events :
                              events[j].type = "outcome" /\ events[j].ref = events[d].id}
    BY DEF LinkedOutcomes, Outcomes
  <2> QED BY <1>8, <2>1, ZenonT(30) DEF Reconciled
<1>9. ASSUME AuditIssues(events) = {}, ~NeedsReconciliation(events)
      PROVE  Reconciled(events)
  <2>1. Unique
    BY <1>4, <1>9, NoAuditIssues
  <2>2. \A d \in Decisions(events) :
          /\ events[d].verdict \in {"allowed", "denied"}
          /\ \A j \in linked(d) : LinkIssues(events, d, j) = {}
    BY <1>9, NoAuditIssues DEF DecisionKinds
  <2>3. \A d \in Decisions(events) : Clean(d)
    BY <1>6, <1>9, <2>2 DEF NeedsReconciliation
  <2>4. ASSUME NEW j \in DOMAIN events, events[j].type = "outcome"
        PROVE  \E d \in 1..(j - 1) :
                 /\ events[d].type = "decision"
                 /\ events[d].id = events[j].ref
                 /\ events[d].identity = events[j].identity
                 /\ events[d].verdict = "allowed"
                 /\ events[j].verdict = "succeeded"
    <3>1. PICK d \in Decisions(events) : events[d].id = events[j].ref
      BY <1>9, <2>4, NoAuditIssues DEF Outcomes
    <3>2. j \in linked(d)
      BY <1>3, <2>4, <3>1
    <3>3. ~(j <= d) /\ events[d].verdict = "allowed" /\ events[j].identity = events[d].identity
      BY <2>2, <3>2, NoLinkIssues, ZenonT(30)
    <3>4. events[j].verdict = "succeeded"
      BY <2>3, <3>2, <3>3
    <3>5. d \in 1..(j - 1) /\ events[d].type = "decision"
      BY <3>3 DEF Decisions
    <3> QED BY <3>1, <3>3, <3>4, <3>5
  <2>5. ASSUME NEW d \in DOMAIN events, events[d].type = "decision"
        PROVE  CASE events[d].verdict = "allowed" -> Cardinality(linked(d)) = 1
                 [] events[d].verdict = "denied" -> linked(d) = {}
                 [] OTHER -> FALSE
    <3>1. Clean(d)
      BY <1>5, <2>1, <2>3, <2>5
    <3>2. events[d].verdict = "allowed" => Cardinality(linked(d)) = 1
      BY <1>2, <3>1
    <3> HIDE DEF linked
    <3> QED BY <3>1, <3>2
  <2> QED BY <1>8, <2>1, <2>4, <2>5
<1>10. ASSUME Reconciled(events)
       PROVE  AuditIssues(events) = {} /\ ~NeedsReconciliation(events)
  <2>1. Unique
    BY <1>10 DEF Reconciled
  <2>2. Decisions(events) = {d \in DOMAIN events : events[d].type = "decision"}
    BY <1>5, <2>1
  <2>3. ASSUME NEW j \in DOMAIN events, events[j].type = "outcome"
        PROVE  \E d \in 1..(j - 1) :
                 /\ events[d].type = "decision"
                 /\ events[d].id = events[j].ref
                 /\ events[d].identity = events[j].identity
                 /\ events[d].verdict = "allowed"
                 /\ events[j].verdict = "succeeded"
    BY <1>10, <2>3 DEF Reconciled
  <2>4. ASSUME NEW d \in Decisions(events)
        PROVE  /\ Clean(d) /\ ~(Cardinality(linked(d)) > 1)
               /\ \A j \in linked(d) : LinkIssues(events, d, j) = {}
    <3>1. (CASE events[d].verdict = "allowed" -> Cardinality(linked(d)) = 1
             [] events[d].verdict = "denied" -> linked(d) = {}
             [] OTHER -> FALSE)
      BY <1>8, <1>10, <2>1, <2>2
    <3>2. /\ events[d].verdict \in {"allowed", "denied"}
          /\ events[d].verdict = "allowed" => Cardinality(linked(d)) = 1
          /\ events[d].verdict = "denied" => linked(d) = {}
      <4> HIDE DEF linked
      <4> QED BY <3>1
    <3>3. ASSUME NEW j \in linked(d)
          PROVE  /\ LinkIssues(events, d, j) = {} /\ events[j].verdict = "succeeded"
                 /\ j \in DOMAIN events
      <4>1. j \in DOMAIN events /\ events[j].type = "outcome" /\ events[j].ref = events[d].id
        BY <1>3
      <4>2. PICK e \in 1..(j - 1) :
              /\ events[e].id = events[j].ref
              /\ events[e].identity = events[j].identity
              /\ events[e].verdict = "allowed"
              /\ events[j].verdict = "succeeded"
        BY <2>3, <4>1
      <4>3. e = d
        BY <2>1, <2>2, <4>1, <4>2
      <4>4. ~(j <= d)
        BY <4>1, <4>2, <4>3
      <4> QED BY <4>1, <4>2, <4>3, <4>4, NoLinkIssuesConversely DEF OutcomeKinds
    <3>4. ~(Cardinality(linked(d)) > 1)
      <4> HIDE DEF linked
      <4> QED BY <1>2, <3>2
    <3>5. Clean(d)
      BY <1>2, <3>2, <3>3
    <3> QED BY <3>3, <3>4, <3>5
  <2>5. \A j \in Outcomes(events) : \E d \in Decisions(events) : events[d].id = events[j].ref
    BY <2>2, <2>3 DEF Outcomes
  <2>6. AuditIssues(events) = {}
    BY <1>4, <2>1, <2>4, <2>5, NoAuditIssues DEF DecisionKinds
  <2>7. ~NeedsReconciliation(events)
    BY <1>7, <2>4 DEF NeedsReconciliation
  <2> QED BY <2>6, <2>7
<1> QED BY <1>9, <1>10

(* The events of a journal that verifies can be reported on. *)
LEMMA EventsAreSome ==
  ASSUME NoiseIsNoData, NullIsNoData, NEW Event, NEW events \in Seq(Event)
  PROVE  /\ events # None
         /\ Len(events) \in Nat /\ DOMAIN Said(events) = 1..Len(events)
<1>1. Len(events) \in Nat /\ DOMAIN events = 1..Len(events)
  OBVIOUS
<1>2. CASE Len(events) = 0
  BY <1>2, EmptySeq DEF NullIsNoData, Said
<1>3. CASE Len(events) # 0
  <2>1. 1 \in DOMAIN events
    BY <1>1, <1>3
  <2> QED BY <1>1, <2>1 DEF NoiseIsNoData, Said
<1> QED BY <1>2, <1>3

(***************************************************************************)
(* README.md, "audit": the command succeeds exactly on a journal that      *)
(* verifies and is reconciled, whatever its events say and link.           *)
(***************************************************************************)
THEOREM AuditIsExact ==
  ASSUME NoiseIsNoData, NullIsNoData PROVE Spec => []AuditSucceedsWhenReconciled
<1>1. ASSUME ReportsInv, NEW choice \in KeyChoices
      PROVE  AuditExit(choice) = 0
               <=> VerifyExit(choice, None) = 0 /\ Reconciled(Said(EventsOf(journal)))
  <2>1. CASE ~(Usable(choice) /\ VerifyJournal(journal, Resolve(choice), None) = {})
    BY <2>1 DEF AuditExit, VerifyExit, VerifiedSnapshot
  <2>2. CASE Usable(choice) /\ VerifyJournal(journal, Resolve(choice), None) = {}
    <3> DEFINE events == EventsOf(journal)
    <3>1. events \in Seq(EventLines(journal))
      BY <1>1, <2>2, VerifiedIsWritten
    <3> HIDE DEF events
    <3>2. events # None /\ Len(events) \in Nat /\ DOMAIN Said(events) = 1..Len(events)
      BY <3>1, EventsAreSome
    <3>3. VerifiedSnapshot(choice) = events /\ VerifyExit(choice, None) = 0
      BY <2>2 DEF VerifiedSnapshot, VerifyExit, events
    <3>4. AuditIssues(Said(events)) = {} /\ ~NeedsReconciliation(Said(events))
            <=> Reconciled(Said(events))
      BY <3>2, AuditAgrees
    <3>5. AuditExit(choice) = 0 <=> Reconciled(Said(events))
      BY <3>2, <3>3, <3>4 DEF AuditExit
    <3> QED BY <3>3, <3>5 DEF events
  <2> QED BY <2>1, <2>2
<1>2. ReportsInv => AuditSucceedsWhenReconciled
  BY <1>1 DEF AuditSucceedsWhenReconciled
<1> QED BY <1>2, ReportsInvariance, PTL

-----------------------------------------------------------------------------
(* privacy.py *)

SafeClasses == {"fully_redacted", "no_arguments"}

LEMMA VerdictClass ==
  ASSUME NEW records, NEW names
  PROVE  /\ Verdict(records, names).class \in Classifications
         /\ Verdict(records, names).class \in SafeClasses <=>
              \A i \in DOMAIN records : records[i].state \notin {"unsupported", "retained"}
<1>1. /\ NamesIn(records, {"unsupported"}) = {} <=>
           \A i \in DOMAIN records : records[i].state # "unsupported"
      /\ NamesIn(records, {"retained"}) = {} <=>
           \A i \in DOMAIN records : records[i].state # "retained"
  BY DEF NamesIn
<1> QED BY <1>1 DEF Verdict, Report, SafeClasses, Classifications

(* No name is recorded twice: as it is checked, and as it is meant. *)
LEMMA NamesCounted ==
  ASSUME NEW Record, NEW retention \in Seq(Record)
  PROVE  Cardinality(NamesOf(retention)) = Len(retention) <=>
           \A i \in DOMAIN retention : \A j \in 1..(i - 1) : retention[j].name # retention[i].name
<1> DEFINE n == Len(retention)
           name == [i \in 1..n |-> retention[i].name]
<1>1. n \in Nat /\ DOMAIN retention = 1..n
  OBVIOUS
<1>2. IsFiniteSet(1..n) /\ Cardinality(1..n) = n
  BY <1>1, FS_Interval, SMTT(30)
<1>3. name \in Surjection(1..n, NamesOf(retention))
  BY <1>1 DEF Surjection, NamesOf
<1>4. Cardinality(NamesOf(retention)) = n <=> name \in Injection(1..n, NamesOf(retention))
  BY <1>2, <1>3, FS_Surjection
<1>5. name \in Injection(1..n, NamesOf(retention)) <=>
        \A i, j \in 1..n : retention[i].name = retention[j].name => i = j
  BY <1>1, <1>3 DEF Injection, IsInjective, Surjection
<1>6. (\A i, j \in 1..n : retention[i].name = retention[j].name => i = j) <=>
        \A i \in DOMAIN retention : \A j \in 1..(i - 1) : retention[j].name # retention[i].name
  BY <1>1
<1> QED BY <1>4, <1>5, <1>6

LEMMA RetentionClass ==
  ASSUME NEW retention, retention = Malformed \/ retention \in Seq(Range(retention))
  PROVE  /\ ClassifyRetention(retention).class \in Classifications
         /\ ClassifyRetention(retention).class \in SafeClasses <=>
              /\ retention # Malformed
              /\ Cardinality(NamesOf(retention)) = Len(retention)
              /\ \A i \in DOMAIN retention : retention[i].state = "redacted"
<1>1. CASE retention = Malformed
  BY <1>1 DEF ClassifyRetention, Report, SafeClasses, Classifications
<1>2. CASE retention # Malformed /\ retention = <<>>
  <2>1. Cardinality(NamesOf(retention)) = 0 /\ Len(retention) = 0 /\ DOMAIN retention = {}
    BY <1>2, FS_EmptySet DEF NamesOf
  <2> QED BY <1>2, <2>1 DEF ClassifyRetention, Report, SafeClasses, Classifications
<1>3. CASE retention # Malformed /\ retention # <<>>
  <2> DEFINE Bad(i) == BadRecord(retention, i)
             before == {i \in DOMAIN retention : \A j \in 1..i : ~Bad(j)}
  <2>1. Len(retention) \in Nat /\ DOMAIN retention = 1..Len(retention)
    BY <1>3
  <2>2. before = DOMAIN retention <=> \A i \in DOMAIN retention : ~Bad(i)
    <3> HIDE DEF Bad
    <3> QED BY <2>1
  <2>3. ClassifyRetention(retention) =
          IF before # DOMAIN retention
          THEN Report("unknown", {retention[i].name : i \in before})
          ELSE Verdict(retention, NamesOf(retention))
    BY <1>3 DEF ClassifyRetention
  <2> HIDE DEF before
  <2>4. CASE before # DOMAIN retention
    <3>1. ClassifyRetention(retention).class = "unknown"
      BY <2>3, <2>4 DEF Report
    <3>2. PICK i \in DOMAIN retention : Bad(i)
      BY <2>2, <2>4
    <3>3. \/ retention[i].state # "redacted"
          \/ Cardinality(NamesOf(retention)) # Len(retention)
      BY <1>3, <3>2, NamesCounted DEF RetentionStates, BadRecord
    <3> QED BY <3>1, <3>3 DEF SafeClasses, Classifications
  <2>5. CASE before = DOMAIN retention
    <3>1. /\ \A i \in DOMAIN retention : retention[i].state \in RetentionStates
          /\ Cardinality(NamesOf(retention)) = Len(retention)
      BY <1>3, <2>2, <2>5, NamesCounted DEF BadRecord
    <3>2. ClassifyRetention(retention) = Verdict(retention, NamesOf(retention))
      BY <2>3, <2>5
    <3> QED BY <1>3, <3>1, <3>2, VerdictClass DEF RetentionStates
  <2> QED BY <2>4, <2>5
<1> QED BY <1>1, <1>2, <1>3

LEMMA SummaryClass ==
  ASSUME NEW summary,
         \/ summary = Malformed
         \/ /\ summary.parts \in Seq(Range(summary.parts)) /\ summary.cut \in BOOLEAN
            /\ summary.cut => summary.parts # <<>>
  PROVE  /\ ClassifySummary(summary).class \in Classifications
         /\ ClassifySummary(summary).class \in SafeClasses <=>
              /\ summary # Malformed /\ ~summary.cut
              /\ \A i \in DOMAIN summary.parts : summary.parts[i].value = Redacted
<1> DEFINE parts == summary.parts
<1>1. CASE summary = Malformed
  BY <1>1 DEF ClassifySummary, Report, SafeClasses, Classifications
<1>2. CASE summary # Malformed /\ parts = <<>>
  <2>1. DOMAIN parts = {} /\ ~summary.cut
    BY <1>2
  <2> QED BY <1>2, <2>1 DEF ClassifySummary, Report, SafeClasses, Classifications
<1>3. CASE summary # Malformed /\ parts # <<>>
  <2> DEFINE before == {i \in DOMAIN parts : \A j \in 1..i : parts[j].value # TheCut}
             marked == summary.cut \/ parts[Len(parts)].value = TheCut
             parsed == ParseExactSummary(summary)
             records == [i \in DOMAIN parsed.parts |->
                           [name |-> parsed.parts[i].name, state |-> StateOf(parsed.parts[i].value)]]
  <2>1. Len(parts) \in Nat /\ DOMAIN parts = 1..Len(parts) /\ Len(parts) \in DOMAIN parts
    BY <1>3
  <2>2. parsed = IF marked
                 THEN [ok |-> FALSE, parts |-> <<>>]
                 ELSE [ok |-> before = DOMAIN parts, parts |-> [i \in before |-> parts[i]]]
    BY DEF ParseExactSummary
  <2>3. ClassifySummary(summary) =
          IF ~parsed.ok
          THEN Report("unknown", NamesOf(records))
          ELSE Verdict(records, NamesIn(records, {"retained", "unsupported"}))
    BY <1>3 DEF ClassifySummary
  <2>4. Redacted # TheCut
    BY DEF Redacted, Text, TheCut
  <2> HIDE DEF parsed
  <2>5. CASE ~parsed.ok
    <3>1. ClassifySummary(summary).class = "unknown"
      BY <2>3, <2>5 DEF Report
    <3>2. summary.cut \/ \E i \in DOMAIN parts : parts[i].value = TheCut
      <4>1. marked \/ before # DOMAIN parts
        BY <2>2, <2>5
      <4> QED BY <2>1, <4>1
    <3> QED BY <2>4, <3>1, <3>2 DEF SafeClasses, Classifications
  <2>6. CASE parsed.ok
    <3>1. ~marked /\ before = DOMAIN parts /\ parsed.parts = [i \in DOMAIN parts |-> parts[i]]
      BY <2>2, <2>6
    <3>2. /\ DOMAIN records = DOMAIN parts
          /\ \A i \in DOMAIN parts : records[i].state = StateOf(parts[i].value)
      BY <3>1
    <3>3. \A value : StateOf(value) \notin {"unsupported", "retained"} <=> value = Redacted
      <4> TAKE value
      <4>1. CASE value = Redacted
        <5>1. Redacted[2][1] # "<unsupported:"
          BY DEF Redacted, Text
        <5>2. ~IsUnsupported(value)
          BY <4>1, <5>1 DEF IsUnsupported
        <5>3. StateOf(value) = "redacted"
          BY <4>1, <5>2 DEF StateOf
        <5> QED BY <4>1, <5>3
      <4>2. CASE value # Redacted /\ IsUnsupported(value)
        <5>1. StateOf(value) = "unsupported"
          BY <4>2 DEF StateOf
        <5> QED BY <4>2, <5>1
      <4>3. CASE value # Redacted /\ ~IsUnsupported(value)
        <5>1. StateOf(value) = "retained"
          BY <4>3 DEF StateOf
        <5> QED BY <4>3, <5>1
      <4> QED BY <4>1, <4>2, <4>3
    <3>4. ClassifySummary(summary) = Verdict(records, NamesIn(records, {"retained", "unsupported"}))
      BY <2>3, <2>6
    <3> HIDE DEF records
    <3> QED BY <1>3, <3>1, <3>2, <3>3, <3>4, VerdictClass
  <2> QED BY <2>5, <2>6
<1> QED BY <1>1, <1>2, <1>3

(***************************************************************************)
(* privacy.py: the report calls a journal safe for upload exactly when no  *)
(* decision in it shows an argument in the clear, whatever its records and *)
(* summaries look like.                                                    *)
(***************************************************************************)
THEOREM SafeIsExact ==
  ASSUME NoiseIsNoData, NullIsNoData PROVE Spec => []SafeMeansNothingInTheClear
<1>1. ASSUME NEW says \in Sayings, says.type = "decision"
      PROVE  /\ ClassifyEvent(says).class \in Classifications
             /\ ClassifyEvent(says).class \in SafeClasses <=> NothingInTheClear(says)
  BY <1>1, SayingsAssumption, RetentionClass, SummaryClass DEF ClassifyEvent, NothingInTheClear
<1>2. ASSUME ReportsInv, NEW choice \in KeyChoices, InspectReport(choice) # None
      PROVE  InspectReport(choice).safe_for_upload <=>
               \A i \in DOMAIN EventsOf(journal) :
                 EventsOf(journal)[i].says.type = "decision" =>
                   NothingInTheClear(EventsOf(journal)[i].says)
  <2> DEFINE events == EventsOf(journal)
             decisions == {i \in DOMAIN events : events[i].says.type = "decision"}
             classes == {ClassifyEvent(events[i].says).class : i \in decisions}
  <2>1. VerifiedSnapshot(choice) # None /\ ~InspectRaises(VerifiedSnapshot(choice))
    BY <1>2 DEF InspectReport
  <2>2. /\ Usable(choice) /\ VerifyJournal(journal, Resolve(choice), None) = {}
        /\ VerifiedSnapshot(choice) = events
    BY <2>1 DEF VerifiedSnapshot
  <2>3. \A i \in DOMAIN events : i \in DOMAIN written /\ events[i] = written[i]
    BY <1>2, <2>2, VerifiedIsWritten
  <2> HIDE DEF events
  <2>4. \A i \in decisions : events[i].says \in Sayings
    <3> TAKE i \in decisions
    <3>1. events[i].says \in Sayings \cup {[type |-> "checkpoint", id |-> i]}
      BY <1>2, <2>3 DEF ReportsInv, WrittenInv
    <3> QED BY <3>1
  <2>5. \A i \in decisions :
          /\ ClassifyEvent(events[i].says).class \in Classifications
          /\ ClassifyEvent(events[i].says).class \in SafeClasses <=> NothingInTheClear(events[i].says)
    BY <1>1, <2>4
  <2>6. SafeForUpload(classes) <=>
          \A i \in decisions : ClassifyEvent(events[i].says).class \in SafeClasses
    BY <2>5 DEF SafeForUpload, SafeClasses, Classifications
  <2>7. InspectReport(choice).safe_for_upload = SafeForUpload(classes)
    BY <2>1, <2>2 DEF InspectReport, Inspect
  <2> QED BY <2>5, <2>6, <2>7 DEF events
<1>3. ReportsInv => SafeMeansNothingInTheClear
  BY <1>2 DEF SafeMeansNothingInTheClear
<1> QED BY <1>3, ReportsInvariance, PTL

=============================================================================
