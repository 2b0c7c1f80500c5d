------------------------- MODULE Verification_proofs -------------------------
(***************************************************************************)
(* What verify_journal accepts: the lemmas about verification.py on which  *)
(* the theorems about custody and about the reports rest.                  *)
(***************************************************************************)
EXTENDS Verification, SequenceTheorems, WellFoundedInduction, TLAPS

(* null, a blank line and garbage have neither fields nor components, and null
   is no number. *)
NoiseIsNoData ==
  /\ None \notin Nat
  /\ \A c \in {None, Blank, Garbled} : "id" \notin DOMAIN c /\ 1 \notin DOMAIN c

-----------------------------------------------------------------------------
(* Induction, over a set of numbers in place of a formula. *)
LEMMA Induct ==
  ASSUME NEW S, 0 \in S, \A n \in Nat : n \in S => n + 1 \in S
  PROVE  Nat \subseteq S
<1> DEFINE T == Nat \ S
<1> SUFFICES ASSUME T # {} PROVE FALSE
  OBVIOUS
<1>1. PICK m \in T : \A k \in T : ~ (<<k, m>> \in OpToRel(<, Nat))
  BY NatLessThanWellFounded, WFMin
<1>2. m \in Nat /\ m # 0
  OBVIOUS
<1>3. m - 1 \in Nat /\ m - 1 < m
  BY <1>2
<1>4. m - 1 \in S
  BY <1>1, <1>2, <1>3 DEF OpToRel
<1>5. (m - 1) + 1 = m
  BY <1>2
<1>6. m \in S
  BY <1>3, <1>4, <1>5
<1> QED BY <1>6

-----------------------------------------------------------------------------
(* _read_events: what the loop has collected after n lines. *)

AfterLine(events, journal, n) ==
  IF n = 0 THEN <<>>
  ELSE IF n \notin Readable(journal) \/ journal[n] = Blank THEN events[n - 1]
  ELSE Append(events[n - 1], journal[n])

Reads(events, journal, last) ==
  events = [n \in 0..last |-> AfterLine(events, journal, n)]

LEMMA ReadingExists ==
  ASSUME NEW journal, NEW last \in Nat
  PROVE  \E events : Reads(events, journal, last)
<1> DEFINE S == {n \in Nat : \E events : Reads(events, journal, n)}
<1>1. 0 \in S
  <2>1. Reads([n \in 0..0 |-> <<>>], journal, 0)
    BY DEF Reads, AfterLine
  <2> QED BY <2>1
<1>2. ASSUME NEW n \in Nat, n \in S PROVE n + 1 \in S
  <2>1. PICK events : Reads(events, journal, n)
    BY <1>2
  <2> DEFINE more == [m \in 0..(n + 1) |-> IF m = n + 1 THEN AfterLine(events, journal, n + 1)
                                           ELSE events[m]]
  <2>2. \A m \in 0..(n + 1) : more[m] = AfterLine(more, journal, m)
    <3> TAKE m \in 0..(n + 1)
    <3>1. m # 0 => m - 1 \in 0..n /\ more[m - 1] = events[m - 1]
      OBVIOUS
    <3>2. AfterLine(more, journal, m) = AfterLine(events, journal, m)
      BY <3>1 DEF AfterLine
    <3>3. CASE m = n + 1
      BY <3>2, <3>3
    <3>4. CASE m # n + 1
      <4>1. m \in 0..n /\ more[m] = events[m]
        BY <3>4
      <4>2. events[m] = AfterLine(events, journal, m)
        BY <2>1, <4>1 DEF Reads
      <4> QED BY <3>2, <4>1, <4>2
    <3> QED BY <3>3, <3>4
  <2>3. Reads(more, journal, n + 1)
    BY <2>2 DEF Reads
  <2> QED BY <2>3
<1> HIDE DEF S
<1>3. last \in S
  BY <1>1, <1>2, Induct
<1> QED BY <1>3 DEF S

(* The lines that are events are what is collected. *)
EventLines(journal) ==
  {journal[i] : i \in {k \in DOMAIN journal : journal[k] \notin {Blank, Garbled}}}

LEMMA EventsOfReads ==
  ASSUME NEW journal, Len(journal) \in Nat
  PROVE  \E events : /\ Reads(events, journal, Len(journal))
                     /\ EventsOf(journal) = events[Len(journal)]
<1> DEFINE f == CHOOSE events : Reads(events, journal, Len(journal))
<1>1. Reads(f, journal, Len(journal))
  BY ReadingExists
<1>2. EventsOf(journal) = f[Len(journal)]
  BY DEF EventsOf, Reads, AfterLine
<1> QED BY <1>1, <1>2

LEMMA EventsOfType ==
  ASSUME NEW journal, Len(journal) \in Nat, DOMAIN journal = 1..Len(journal)
  PROVE  EventsOf(journal) \in Seq(EventLines(journal))
<1>1. PICK events : Reads(events, journal, Len(journal))
                      /\ EventsOf(journal) = events[Len(journal)]
  BY EventsOfReads
<1> DEFINE S == {n \in Nat : n <= Len(journal) => events[n] \in Seq(EventLines(journal))}
<1>2. 0 \in S
  <2>1. events[0] = <<>>
    BY <1>1 DEF Reads, AfterLine
  <2> QED BY <2>1, EmptySeq
<1>3. ASSUME NEW n \in Nat, n \in S PROVE n + 1 \in S
  <2> SUFFICES ASSUME n + 1 <= Len(journal)
               PROVE  events[n + 1] \in Seq(EventLines(journal))
    OBVIOUS
  <2>1. events[n] \in Seq(EventLines(journal))
    BY <1>3
  <2>2. events[n + 1] = AfterLine(events, journal, n + 1)
    BY <1>1 DEF Reads
  <2>3. CASE n + 1 \notin Readable(journal) \/ journal[n + 1] = Blank
    <3>1. events[n + 1] = events[n]
      BY <2>2, <2>3 DEF AfterLine
    <3> QED BY <2>1, <3>1
  <2>4. CASE n + 1 \in Readable(journal) /\ journal[n + 1] # Blank
    <3>1. events[n + 1] = Append(events[n], journal[n + 1])
      BY <2>2, <2>4 DEF AfterLine
    <3>2. journal[n + 1] \in EventLines(journal)
      BY <2>4 DEF Readable, EventLines
    <3> QED BY <2>1, <3>1, <3>2, AppendProperties
  <2> QED BY <2>3, <2>4
<1> HIDE DEF S
<1>4. Len(journal) \in S
  BY <1>2, <1>3, Induct
<1> QED BY <1>1, <1>4 DEF S

(* A journal that is nothing but events is read as it is. *)
LEMMA EventsOfClean ==
  ASSUME NEW Line, NEW journal \in Seq(Line),
         \A i \in DOMAIN journal : journal[i] \notin {Blank, Garbled}
  PROVE  EventsOf(journal) = journal /\ Readable(journal) = DOMAIN journal
<1>0. Len(journal) \in Nat /\ DOMAIN journal = 1..Len(journal)
  OBVIOUS
<1>1. PICK events : Reads(events, journal, Len(journal))
                      /\ EventsOf(journal) = events[Len(journal)]
  BY <1>0, EventsOfReads
<1>2. Readable(journal) = DOMAIN journal
  BY <1>0 DEF Readable
<1> DEFINE S == {n \in Nat : n <= Len(journal) => events[n] = SubSeq(journal, 1, n)}
<1>3. 0 \in S
  <2>1. events[0] = <<>>
    BY <1>1 DEF Reads, AfterLine
  <2>2. SubSeq(journal, 1, 0) = <<>>
    BY SubSeqEmpty
  <2> QED BY <2>1, <2>2
<1>4. ASSUME NEW n \in Nat, n \in S PROVE n + 1 \in S
  <2> SUFFICES ASSUME n + 1 <= Len(journal)
               PROVE  events[n + 1] = SubSeq(journal, 1, n + 1)
    OBVIOUS
  <2>1. events[n] = SubSeq(journal, 1, n)
    BY <1>4
  <2>2. events[n + 1] = AfterLine(events, journal, n + 1)
    BY <1>1 DEF Reads
  <2>3. n + 1 \in Readable(journal) /\ journal[n + 1] # Blank
    BY <1>0, <1>2
  <2>4. events[n + 1] = Append(events[n], journal[n + 1])
    BY <2>2, <2>3 DEF AfterLine
  <2>5. SubSeq(journal, 1, n) \in Seq(Line) /\ journal[n + 1] \in Line
    BY <1>0
  <2>6. Append(SubSeq(journal, 1, n), journal[n + 1]) = SubSeq(journal, 1, n) \o <<journal[n + 1]>>
    BY <2>5, AppendIsConcat
  <2>7. SubSeq(journal, 1, n + 1) = SubSeq(journal, 1, (n + 1) - 1) \o <<journal[n + 1]>>
    BY <1>0, SubSeqRecursiveSecond
  <2> QED BY <2>1, <2>4, <2>6, <2>7
<1> HIDE DEF S
<1>5. Len(journal) \in S
  BY <1>0, <1>3, <1>4, Induct
<1>6. EventsOf(journal) = SubSeq(journal, 1, Len(journal))
  BY <1>0, <1>1, <1>5 DEF S
<1> QED BY <1>2, <1>6, SubSeqFull

-----------------------------------------------------------------------------
(* What an empty set of issues says of the events. *)
Linked(events, i) == events[i].prev = IF i = 1 THEN None ELSE events[i - 1].hash

LEMMA NoEventIssues ==
  ASSUME NEW e, NEW expected, NEW trusted
  PROVE  EventIssues(e, expected, trusted) = {}
           <=> /\ e.shape = "known"
               /\ Authentic(e, trusted)
               /\ e.prev = expected
               /\ e.kind = "checkpoint" => e.head = e.prev /\ e.count # None
<1>1. CASE e.shape # "known"
  BY <1>1 DEF EventIssues
<1>2. CASE e.shape = "known"
  <2> DEFINE Issue(code) ==
        CASE code = "checkpoint_head_mismatch" -> e.kind = "checkpoint" /\ e.head # e.prev
          [] code = "checkpoint_bad_count" -> e.kind = "checkpoint" /\ e.count = None
          [] code = "chain_break" -> e.prev # expected
          [] code = "hash_mismatch" -> e.hash # Digest(e)
          [] code = "unknown_key" -> e.key \notin trusted
          [] code = "bad_signature" -> e.key \in trusted /\ e.sig # Sign(e.key, Digest(e))
  <2> DEFINE codes == {"checkpoint_head_mismatch", "checkpoint_bad_count", "chain_break",
                       "hash_mismatch", "unknown_key", "bad_signature"}
  <2>1. EventIssues(e, expected, trusted) = {code \in codes : Issue(code)}
    BY <1>2 DEF EventIssues
  <2>2. /\ Issue("checkpoint_head_mismatch") <=> e.kind = "checkpoint" /\ e.head # e.prev
        /\ Issue("checkpoint_bad_count") <=> e.kind = "checkpoint" /\ e.count = None
        /\ Issue("chain_break") <=> e.prev # expected
        /\ Issue("hash_mismatch") <=> e.hash # Digest(e)
        /\ Issue("unknown_key") <=> e.key \notin trusted
        /\ Issue("bad_signature") <=> e.key \in trusted /\ e.sig # Sign(e.key, Digest(e))
    OBVIOUS
  <2> HIDE DEF Issue
  <2>3. {code \in codes : Issue(code)} = {} <=> \A code \in codes : ~ Issue(code)
    OBVIOUS
  <2> QED BY <1>2, <2>1, <2>2, <2>3 DEF Authentic
<1> QED BY <1>1, <1>2

LEMMA NoChainIssues ==
  ASSUME NEW events, NEW trusted
  PROVE  ChainIssues(events, trusted) = {}
           <=> \A i \in DOMAIN events :
                 /\ events[i].shape = "known"
                 /\ Authentic(events[i], trusted)
                 /\ Linked(events, i)
                 /\ events[i].kind = "checkpoint"
                      => events[i].head = events[i].prev /\ events[i].count # None
<1> DEFINE expected(i) == IF i = 1 THEN None ELSE events[i - 1].hash
<1>1. ChainIssues(events, trusted) = {}
        <=> \A i \in DOMAIN events : EventIssues(events[i], expected(i), trusted) = {}
  BY DEF ChainIssues
<1> QED BY <1>1, NoEventIssues DEF Linked

LEMMA AcceptedEvents ==
  ASSUME NEW journal, NEW trusted, NEW witness,
         VerifyJournal(journal, trusted, witness) = {}
  PROVE  /\ ChainIssues(EventsOf(journal), trusted) = {}
         /\ Readable(journal) = DOMAIN journal
         /\ witness # None =>
              /\ WitnessIssues(witness, trusted) = {}
              /\ CoverageIssues(EventsOf(journal), witness) = {}
BY DEF VerifyJournal

-----------------------------------------------------------------------------
(* What an event refers to tells its place: only the first one refers to
   nothing, and only the next one to a given one. *)
PlacesAreTold(log) ==
  \A j \in DOMAIN log :
    /\ log[j].prev = None => j = 1
    /\ \A k \in DOMAIN log : log[j].prev = log[k].hash => j = k + 1

LEMMA ChainTellsPlaces ==
  ASSUME NoiseIsNoData, NEW log, NEW keys, Chain(log, keys)
  PROVE  PlacesAreTold(log)
<1>0. Len(log) \in Nat /\ DOMAIN log = 1..Len(log)
  BY DEF Chain
<1>1. \A j \in DOMAIN log : log[j].hash = Digest(log[j])
  BY DEF Chain, Authentic
<1>2. \A j \in DOMAIN log : log[j].hash # None
  BY <1>1 DEF Digest, NoiseIsNoData
<1>3. \A j, k \in DOMAIN log : log[j].hash = log[k].hash => j = k
  <2> TAKE j, k \in DOMAIN log
  <2> HAVE log[j].hash = log[k].hash
  <2>1. log[j].id = log[k].id
    BY <1>1 DEF Digest
  <2> QED BY <2>1 DEF Chain
<1>4. \A j \in DOMAIN log : log[j].prev = IF j = 1 THEN None ELSE log[j - 1].hash
  BY DEF Chain
<1>5. \A j \in DOMAIN log : j = 1 \/ j - 1 \in DOMAIN log
  BY <1>0
<1>6. \A j \in DOMAIN log : log[j].prev = None => j = 1
  BY <1>2, <1>4, <1>5
<1>7. \A j, k \in DOMAIN log : log[j].prev = log[k].hash => j = k + 1
  <2> TAKE j, k \in DOMAIN log
  <2> HAVE log[j].prev = log[k].hash
  <2>1. j # 1
    BY <1>2, <1>4
  <2>2. j - 1 \in DOMAIN log /\ log[j - 1].hash = log[k].hash
    BY <1>4, <1>5, <2>1
  <2>3. j - 1 = k
    BY <1>3, <2>2
  <2> QED BY <1>0, <2>3
<1> QED BY <1>6, <1>7 DEF PlacesAreTold

(* Linked events of a log whose places are told are the beginning of it. *)
LEMMA LinkedIsBeginning ==
  ASSUME NEW log, PlacesAreTold(log),
         NEW Event, NEW events \in Seq(Event),
         \A i \in DOMAIN events :
           Linked(events, i) /\ \E j \in DOMAIN log : events[i] = log[j]
  PROVE  \A i \in DOMAIN events : i \in DOMAIN log /\ events[i] = log[i]
<1>0. Len(events) \in Nat /\ DOMAIN events = 1..Len(events)
  OBVIOUS
<1> DEFINE S == {n \in Nat : n + 1 \in DOMAIN events =>
                               n + 1 \in DOMAIN log /\ events[n + 1] = log[n + 1]}
<1>1. 0 \in S
  <2> SUFFICES ASSUME 1 \in DOMAIN events PROVE 1 \in DOMAIN log /\ events[1] = log[1]
    OBVIOUS
  <2>1. PICK j \in DOMAIN log : events[1] = log[j]
    OBVIOUS
  <2>2. log[j].prev = None
    BY <2>1 DEF Linked
  <2> QED BY <2>1, <2>2 DEF PlacesAreTold
<1>2. ASSUME NEW n \in Nat, n \in S PROVE n + 1 \in S
  <2> DEFINE m == n + 2
  <2> SUFFICES ASSUME m \in DOMAIN events PROVE m \in DOMAIN log /\ events[m] = log[m]
    OBVIOUS
  <2>1. n + 1 \in DOMAIN events /\ m - 1 = n + 1 /\ m = (n + 1) + 1 /\ m # 1
    BY <1>0
  <2>2. n + 1 \in DOMAIN log /\ events[n + 1] = log[n + 1]
    BY <1>2, <2>1
  <2>3. PICK j \in DOMAIN log : events[m] = log[j]
    OBVIOUS
  <2>4. log[j].prev = log[n + 1].hash
    BY <2>1, <2>2, <2>3 DEF Linked
  <2>5. j = (n + 1) + 1
    BY <2>2, <2>4 DEF PlacesAreTold
  <2> QED BY <2>1, <2>3, <2>5
<1> HIDE DEF S
<1>3. Nat \subseteq S
  BY <1>1, <1>2, Induct
<1>4. \A i \in DOMAIN events : i - 1 \in Nat /\ (i - 1) + 1 = i
  BY <1>0
<1> QED BY <1>3, <1>4 DEF S

(* The beginning of a sequence, said in the other way. *)
LEMMA BeginningIsPrefix ==
  ASSUME NEW Event, NEW events \in Seq(Event), NEW Entries, NEW log \in Seq(Entries),
         \A i \in DOMAIN events : i \in DOMAIN log /\ events[i] = log[i]
  PROVE  /\ Len(events) <= Len(log)
         /\ SubSeq(events, 1, Len(events)) = SubSeq(log, 1, Len(events))
<1>1. /\ Len(events) \in Nat /\ DOMAIN events = 1..Len(events)
      /\ Len(log) \in Nat /\ DOMAIN log = 1..Len(log)
  OBVIOUS
<1>2. Len(events) <= Len(log)
  BY <1>1
<1>3. /\ SubSeq(log, 1, Len(events)) \in Seq(Entries)
      /\ Len(SubSeq(log, 1, Len(events))) = Len(events)
      /\ \A i \in 1..Len(events) : SubSeq(log, 1, Len(events))[i] = log[i]
  BY <1>1, <1>2
<1>4. /\ SubSeq(events, 1, Len(events)) \in Seq(Event)
      /\ Len(SubSeq(events, 1, Len(events))) = Len(events)
      /\ \A i \in 1..Len(events) : SubSeq(events, 1, Len(events))[i] = events[i]
  BY <1>1
<1> QED BY <1>1, <1>2, <1>3, <1>4

(* A chain verifies, alone and against any checkpoint in it. *)
LEMMA ChainVerifies ==
  ASSUME NoiseIsNoData,
         NEW log, NEW keys, Chain(log, keys),
         NEW witness,
         \/ witness = None
         \/ \E i \in DOMAIN log : witness = log[i] /\ log[i].kind = "checkpoint"
  PROVE  VerifyJournal(log, keys, witness) = {}
<1>0. log \in Seq({log[i] : i \in DOMAIN log}) /\ Len(log) \in Nat /\ DOMAIN log = 1..Len(log)
  BY DEF Chain
<1>1. EventsOf(log) = log /\ Readable(log) = DOMAIN log
  <2>1. \A i \in DOMAIN log : log[i] \notin {Blank, Garbled}
    BY DEF Chain
  <2> QED BY <1>0, <2>1, EventsOfClean
<1>2. \A i \in DOMAIN log : log[i].kind = "checkpoint" =>
        log[i].count \in Nat /\ log[i].count < Len(log)
  BY <1>0 DEF Chain
<1>3. ChainIssues(log, keys) = {}
  BY <1>2, NoChainIssues, SMTT(30) DEF Chain, Linked, NoiseIsNoData
<1>4. witness # None => WitnessIssues(witness, keys) = {}
  BY <1>2 DEF WitnessIssues, Chain, NoiseIsNoData
<1>5. CoverageIssues(log, witness) = {}
  <2> DEFINE found == witness # None /\ \E i \in DOMAIN log : log[i].id = witness.id
             candidates == Newest(log) \cup (IF found THEN {witness} ELSE {})
  <2>1. witness = None \/ found
    OBVIOUS
  <2>2. \A c \in candidates : c.count \in Nat /\ c.count < Len(log)
    BY <1>2 DEF Newest
  <2>3. \A c \in candidates : c.count # None /\ TruncationIssues(log, c) = {}
    BY <1>0, <2>2 DEF TruncationIssues, NoiseIsNoData
  <2> HIDE DEF candidates
  <2> QED BY <2>1, <2>3 DEF CoverageIssues, candidates
<1> QED BY <1>1, <1>3, <1>4, <1>5 DEF VerifyJournal

-----------------------------------------------------------------------------
(* Chains stay chains: with more keys, cut short, and with one more event. *)
LEMMA MoreKeys ==
  ASSUME NEW log, NEW keys, Chain(log, keys), NEW more, keys \subseteq more
  PROVE  Chain(log, more)
BY DEF Chain, Authentic

LEMMA PrefixChain ==
  ASSUME NEW log, NEW keys, Chain(log, keys), NEW k \in 0..Len(log)
  PROVE  /\ Chain(SubSeq(log, 1, k), keys)
         /\ DOMAIN SubSeq(log, 1, k) = 1..k
         /\ \A i \in 1..k : i \in DOMAIN log /\ SubSeq(log, 1, k)[i] = log[i]
<1> DEFINE start == SubSeq(log, 1, k)
<1>1. log \in Seq({log[i] : i \in DOMAIN log}) /\ Len(log) \in Nat /\ DOMAIN log = 1..Len(log)
  BY DEF Chain
<1>2. /\ DOMAIN start = 1..k /\ Len(start) = k
      /\ \A i \in 1..k : i \in DOMAIN log /\ start[i] = log[i]
  BY <1>1
<1>3. start \in Seq({start[i] : i \in DOMAIN start})
  <2> DEFINE S == {start[i] : i \in DOMAIN start}
  <2>1. \A i \in 1..k : log[i] \in S
    BY <1>2
  <2> HIDE DEF S
  <2>2. k \in Int /\ 1 \in Int
    BY <1>1
  <2>3. start \in Seq(S)
    BY <2>1, <2>2, SubSeqProperties
  <2> QED BY <2>3 DEF S
<1> HIDE DEF start
<1>4. \A i \in DOMAIN start :
        i \in DOMAIN log /\ start[i] = log[i] /\ (i # 1 => start[i - 1] = log[i - 1])
  BY <1>1, <1>2
<1>5. ASSUME NEW i \in DOMAIN start
      PROVE  /\ start[i] \notin {None, Blank, Garbled}
             /\ start[i].shape = "known"
             /\ Authentic(start[i], keys)
             /\ start[i].prev = IF i = 1 THEN None ELSE start[i - 1].hash
             /\ start[i].kind = "checkpoint" =>
                  start[i].head = start[i].prev /\ start[i].count \in 0..(i - 1)
  <2>1. i \in DOMAIN log /\ start[i] = log[i] /\ (i # 1 => start[i - 1] = log[i - 1])
    BY <1>4
  <2> QED BY <2>1 DEF Chain
<1>6. \A i, j \in DOMAIN start : start[i].id = start[j].id => i = j
  <2> TAKE i, j \in DOMAIN start
  <2>1. i \in DOMAIN log /\ start[i] = log[i] /\ j \in DOMAIN log /\ start[j] = log[j]
    BY <1>4
  <2> QED BY <2>1 DEF Chain
<1>7. Chain(start, keys)
  BY <1>3, <1>5, <1>6 DEF Chain
<1> QED BY <1>2, <1>7 DEF start

LEMMA LongerChain ==
  ASSUME NEW log, NEW keys, Chain(log, keys), NEW e,
         e \notin {None, Blank, Garbled}, e.shape = "known", Authentic(e, keys),
         e.prev = IF log = <<>> THEN None ELSE log[Len(log)].hash,
         e.kind = "checkpoint" => e.head = e.prev /\ e.count \in 0..Len(log),
         \A i \in DOMAIN log : log[i].id # e.id
  PROVE  /\ Chain(Append(log, e), keys)
         /\ Len(Append(log, e)) = Len(log) + 1
         /\ DOMAIN Append(log, e) = 1..(Len(log) + 1)
         /\ \A i \in DOMAIN log : Append(log, e)[i] = log[i]
         /\ Append(log, e)[Len(log) + 1] = e
<1> DEFINE longer == Append(log, e)
<1>1. log \in Seq({log[i] : i \in DOMAIN log}) /\ Len(log) \in Nat /\ DOMAIN log = 1..Len(log)
  BY DEF Chain
<1>2. /\ DOMAIN longer = 1..(Len(log) + 1) /\ Len(longer) = Len(log) + 1
      /\ \A i \in DOMAIN log : longer[i] = log[i]
      /\ longer[Len(log) + 1] = e
      /\ longer \in Seq({longer[i] : i \in DOMAIN longer})
  <2>1. log \in Seq({log[i] : i \in DOMAIN log} \cup {e})
    BY <1>1, SeqMonotonic
  <2>2. /\ DOMAIN longer = 1..(Len(log) + 1) /\ Len(longer) = Len(log) + 1
        /\ \A i \in DOMAIN log : longer[i] = log[i]
        /\ longer[Len(log) + 1] = e
        /\ longer \in Seq({log[i] : i \in DOMAIN log} \cup {e})
    BY <1>1, <2>1, AppendProperties, LenProperties
  <2> HIDE DEF longer
  <2>3. {log[i] : i \in DOMAIN log} \cup {e} \subseteq {longer[i] : i \in DOMAIN longer}
    BY <1>1, <2>2
  <2> QED BY <2>2, <2>3, SeqMonotonic
<1> HIDE DEF longer
<1>3. \A i \in DOMAIN longer :
        \/ i \in DOMAIN log /\ longer[i] = log[i] /\ (i # 1 => longer[i - 1] = log[i - 1])
        \/ i = Len(log) + 1 /\ longer[i] = e /\ (i # 1 => longer[i - 1] = log[Len(log)])
  BY <1>1, <1>2
<1>4. log = <<>> <=> Len(log) = 0
  BY <1>1
<1>5. ASSUME NEW i \in DOMAIN longer
      PROVE  /\ longer[i] \notin {None, Blank, Garbled}
             /\ longer[i].shape = "known"
             /\ Authentic(longer[i], keys)
             /\ longer[i].prev = IF i = 1 THEN None ELSE longer[i - 1].hash
             /\ longer[i].kind = "checkpoint" =>
                  longer[i].head = longer[i].prev /\ longer[i].count \in 0..(i - 1)
  <2>1. CASE i \in DOMAIN log /\ longer[i] = log[i] /\ (i # 1 => longer[i - 1] = log[i - 1])
    BY <2>1 DEF Chain
  <2>2. CASE i = Len(log) + 1 /\ longer[i] = e /\ (i # 1 => longer[i - 1] = log[Len(log)])
    BY <1>1, <1>4, <2>2
  <2> QED BY <1>3, <2>1, <2>2
<1>6. \A i, j \in DOMAIN longer : longer[i].id = longer[j].id => i = j
  <2> TAKE i, j \in DOMAIN longer
  <2>1. CASE i \in DOMAIN log /\ j \in DOMAIN log
    BY <1>2, <2>1 DEF Chain
  <2>2. CASE i \notin DOMAIN log \/ j \notin DOMAIN log
    BY <1>3, <2>2
  <2> QED BY <2>1, <2>2
<1>7. Chain(longer, keys)
  BY <1>2, <1>5, <1>6 DEF Chain
<1> QED BY <1>2, <1>7 DEF longer

=============================================================================
