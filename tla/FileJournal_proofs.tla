------------------------- MODULE FileJournal_proofs -------------------------
(***************************************************************************)
(* Proofs about FileJournal for any writers, processes, locks and bounds.  *)
(***************************************************************************)
EXTENDS FileJournal, FiniteSetTheorems, TLAPS

-----------------------------------------------------------------------------
(* The inductive invariants behind the theorems of FileJournal_proofs.     *)

(***************************************************************************)
(* First, what holds under every fault.  Each event gets into the file     *)
(* once, although a refused flush, a short one and the close of the handle *)
(* may each write parts of it.                                             *)
(***************************************************************************)
IsHeadOf(fragment, h) == fragment.part = "head" /\ fragment.event.hash = h

HeadIn(line, h) == \E j \in DOMAIN line : IsHeadOf(line[j], h)

(* The lines, the unterminated one included, on which the event h begins. *)
Heads(ls, h) == {i \in DOMAIN ls : HeadIn(ls[i], h)}

(* No event begins on two lines, and every event has a hash. *)
HeadsInv ==
  /\ Heads(FileLines, None) = {}
  /\ \A h \in Hashes : \A i, k \in Heads(FileLines, h) : i = k

BeforeFlush == {"thread_lock", "open", "count", "read", "build"}

(* Nothing of the draft is in the file before the flush, nor while all of it
   is in the buffer. *)
WriterUnwritten(w) ==
  /\ pc[w] # "idle" => attempts[w] > 0 /\ draft[w].hash = <<w, attempts[w]>>
  /\ pc[w] \in BeforeFlush \cup {"idle"} => unwritten[w] = 0
  /\ \A n \in 1..MaxAppends :
       Heads(FileLines, <<w, n>>) # {} =>
         /\ n <= attempts[w]
         /\ pc[w] \in BeforeFlush \/ unwritten[w] = 3 => n < attempts[w]

OnceInv == HeadsInv /\ \A w \in Writers : WriterUnwritten(w)

(* A writer commits to events that have been started. *)
Issued(h) ==
  \A w \in Writers, n \in 1..MaxAppends : h = <<w, n>> => n <= attempts[w]

IssuedInv ==
  /\ \A w \in Writers : Issued(draft[w].prev)
  /\ \A e \in acked : Issued(e.prev)

(* The append of the event h is over. *)
Over(h) ==
  \A w \in Writers, n \in 1..MaxAppends :
    h = <<w, n>> => n <= attempts[w] /\ (n = attempts[w] => pc[w] = "idle")

(* The event was lost with a new file, and so was the one before it, which
   nobody is about to write. *)
Gone(e) ==
  /\ "new" \in Faults /\ e \in lost
  /\ Heads(FileLines, e.prev) = {}
  /\ Over(e.prev)

(***************************************************************************)
(* The text of an event that was or will be returned is in a terminated    *)
(* line, below synced once the fsync has returned, unless a new file was   *)
(* lost since.                                                             *)
(***************************************************************************)
HeadOf(e) == [event |-> e, part |-> "head"]

TextWithin(ls, e, n) ==
  \E i \in DOMAIN ls : i <= n /\ \E j \in DOMAIN ls[i] : ls[i][j] = HeadOf(e)

WriterDurable(w) ==
  /\ pc[w] = "flush" => unwritten[w] = 3
  /\ pc[w] = "fsync" => TextWithin(lines, draft[w], Len(lines))
  /\ pc[w] \in {"unlock", "close"} /\ status[w] = "ok"
       => TextWithin(lines, draft[w], synced)

DurabilityInv ==
  /\ \A e \in acked : TextWithin(lines, e, synced) \/ Gone(e)
  /\ \A w \in Writers : WriterDurable(w)

RecordInv == TypeOK /\ OnceInv /\ IssuedInv /\ DurabilityInv

(***************************************************************************)
(* Second, what holds when the writers are serialized and every write is   *)
(* all or nothing.                                                         *)
(***************************************************************************)
Serialized ==
  \/ HasFileLock
  \/ \A v, w \in Writers : ThreadLockOf[v] = ThreadLockOf[w]

WholeWrites == Faults \cap {"flush", "torn"} = {}

LastHash == IF lines = <<>> THEN None ELSE lines[Len(lines)][1].event.hash

(* A writer inside the locks is the owner of the locks. *)
LockInv ==
  \A w \in Writers :
    /\ pc[w] \notin {"idle", "thread_lock"} => threadLock[ThreadLockOf[w]] = w
    /\ pc[w] \in {"count", "read", "build", "flush", "fsync", "unlock"} /\ HasFileLock
         => fileLock = w

(* The file is a chain of whole lines; a checkpoint counts those before it. *)
FileInv ==
  /\ partial = <<>>
  /\ \A i \in DOMAIN lines :
       LET e == lines[i][1].event
       IN  /\ lines[i] = LineOf(e)
           /\ e.prev = IF i = 1 THEN None ELSE lines[i - 1][1].event.hash
           /\ e.count = IF e.kind = "checkpoint" THEN i - 1 ELSE 0

(* What a writer has read about the file is still so. *)
WriterLinked(w) ==
  /\ pc[w] # "flush" => unwritten[w] = 0
  /\ pc[w] = "count" => draft[w].kind = "checkpoint"
  /\ pc[w] \in {"build", "flush"} => draft[w].prev = LastHash
  /\ pc[w] \in {"read", "build", "flush"} /\ draft[w].kind = "checkpoint"
       => draft[w].count = Len(lines)
  /\ draft[w].kind = "event" => draft[w].count = 0

DraftInv == \A w \in Writers : WriterLinked(w)

ChainInv == LockInv /\ FileInv /\ DraftInv

(* Every event in the file is of an append that has reached its flush: the
   event a writer is about to flush is a new one. *)
WriterFresh(w) ==
  /\ pc[w] # "idle" => attempts[w] > 0 /\ draft[w].hash = <<w, attempts[w]>>
  /\ \A i \in DOMAIN lines, n \in 1..MaxAppends :
       lines[i][1].event.hash = <<w, n>> =>
         /\ n <= attempts[w]
         /\ pc[w] \in {"thread_lock", "open", "count", "read", "build", "flush"}
              => n < attempts[w]

FreshInv == \A w \in Writers : WriterFresh(w)

-----------------------------------------------------------------------------
(* Lemmas about the lines of a file. *)

LEMMA CountType ==
  ASSUME NEW ls \in Seq(Line)
  PROVE  Cardinality(NonBlank(ls)) \in Nat
<1>1. IsFiniteSet(1..Len(ls))
  BY FS_Interval
<1>2. NonBlank(ls) \in SUBSET (1..Len(ls))
  BY DEF NonBlank
<1>3. IsFiniteSet(NonBlank(ls))
  BY <1>1, <1>2, FS_Subset
<1> QED
  BY <1>3, FS_CardinalityType

LEMMA LineOfType ==
  ASSUME NEW e \in Event
  PROVE  /\ LineOf(e) \in Line
         /\ Len(LineOf(e)) = 2
         /\ LineOf(e)[1] = HeadOf(e)
  BY DEF LineOf, Line, Fragment, HeadOf

LEMMA FileLinesType ==
  ASSUME TypeOK
  PROVE  FileLines \in Seq(Line)
<1>1. lines \in Seq(Line) /\ partial \in Line
  BY DEF TypeOK
<1> QED
  BY <1>1 DEF FileLines

LEMMA TailHashesType ==
  ASSUME NEW ls \in Seq(Line), NEW h \in TailHashes(ls)
  PROVE  h \in Hashes \cup {None}
<1>1. CASE NonBlank(ls) = {}
  BY <1>1 DEF TailHashes
<1>2. CASE NonBlank(ls) # {}
  <2>1. PICK i \in NonBlank(ls) : IsEventLine(ls[i]) /\ h = ls[i][1].event.hash
    BY <1>2 DEF TailHashes, LastNonBlank
  <2>2. ls[i] \in Line /\ Len(ls[i]) = 2
    BY <2>1 DEF NonBlank, IsEventLine
  <2>3. ls[i][1] \in Fragment
    BY <2>2 DEF Line
  <2> QED
    BY <2>1, <2>3 DEF Fragment, Event
<1> QED
  BY <1>1, <1>2

-----------------------------------------------------------------------------
(* Types. *)

(* Whatever part of a line is written, the file remains a file. *)
LEMMA PutType ==
  ASSUME TypeOK, NEW w \in Writers, NEW n \in 0..unwritten[w], Put(w, n)
  PROVE  /\ lines' \in Seq(Line)
         /\ partial' \in Line
         /\ Len(lines) <= Len(lines')
         /\ \A i \in DOMAIN lines : i \in DOMAIN lines' /\ lines'[i] = lines[i]
<1> DEFINE text == LineOf(draft[w])
           done == 3 - unwritten[w]
<1>1. draft[w] \in Event /\ unwritten[w] \in 0..3
  BY DEF TypeOK
<1>2. text \in Line /\ Len(text) = 2
  BY <1>1, LineOfType
<1>3. ASSUME NEW m \in 0..2 PROVE SubSeq(text, done + 1, m) \in Line
  BY <1>1, <1>2, <1>3 DEF Line
<1> lines \in Seq(Line) /\ partial \in Line
  BY DEF TypeOK
<1>4. CASE n > 0 /\ done + n = 3
  <2> DEFINE line == partial \o SubSeq(text, done + 1, 2)
  <2>1. line \in Line
    BY <1>3 DEF Line
  <2>2. lines' = Append(lines, line) /\ partial' = <<>>
    BY <1>4 DEF Put
  <2>3. <<>> \in Line
    BY DEF Line
  <2> HIDE DEF line
  <2>4. /\ Append(lines, line) \in Seq(Line)
        /\ Len(Append(lines, line)) = Len(lines) + 1
        /\ \A i \in DOMAIN lines : /\ i \in DOMAIN Append(lines, line)
                                  /\ Append(lines, line)[i] = lines[i]
    BY <2>1
  <2> QED
    BY <2>1, <2>2, <2>3, <2>4
<1>5. CASE ~(n > 0 /\ done + n = 3)
  <2>1. done + n \in 0..3
    BY <1>1
  <2>2. SubSeq(text, done + 1, done + n) \in Line
    <3>1. CASE done + n = 3
      BY <1>1, <1>2, <1>5, <3>1 DEF Line
    <3> QED
      BY <1>3, <2>1, <3>1
  <2>3. partial \o SubSeq(text, done + 1, done + n) \in Line
    BY <2>2 DEF Line
  <2>4. /\ lines' = lines
        /\ partial' = partial \o SubSeq(text, done + 1, done + n)
    BY <1>5 DEF Put
  <2> HIDE DEF text, done
  <2> QED
    BY <2>3, <2>4
<1> QED
  BY <1>4, <1>5

LEMMA InitType == Init => TypeOK
  BY JournalAssumption DEF Init, TypeOK, Line, Event, Kinds, PCs

LEMMA ShortWritesType ==
  ASSUME TypeOK, NEW w \in Writers
  PROVE  /\ unwritten[w] \in 0..3
         /\ unwritten[w] \in 0..unwritten[w]
         /\ ShortWrites(w) \subseteq 0..unwritten[w]
         /\ \A n \in 0..unwritten[w] : unwritten[w] - n \in 0..3
<1>1. unwritten[w] \in 0..3
  BY DEF TypeOK
<1> QED
  BY <1>1 DEF ShortWrites

LEMMA NextType == TypeOK /\ [Next]_vars => TypeOK'
<1> SUFFICES ASSUME TypeOK, [Next]_vars PROVE TypeOK'
  OBVIOUS
<1> USE DEF TypeOK, PCs, diskVars, lockVars
<1>1. ASSUME NEW w \in Writers, NEW k \in Kinds, Begin(w, k) PROVE TypeOK'
  <2>1. <<w, attempts[w] + 1>> \in Hashes
    BY <1>1, JournalAssumption DEF Begin, Hashes
  <2>2. [hash |-> <<w, attempts[w] + 1>>, kind |-> k, prev |-> None, count |-> 0]
          \in Event
    BY <2>1 DEF Event
  <2>3. attempts[w] + 1 \in 0..MaxAppends
    BY <1>1, JournalAssumption DEF Begin
  <2> QED
    BY <1>1, <2>2, <2>3 DEF Begin, Goto, Report
<1>2. ASSUME NEW w \in Writers, Step(w) PROVE TypeOK'
  <2>1. CASE AcquireThreadLock(w)
    BY <2>1 DEF AcquireThreadLock, Goto
  <2>2. CASE OpenAndLock(w)
    BY <2>2 DEF OpenAndLock, Goto
  <2>3. CASE OpenFails(w)
    BY <2>3 DEF OpenFails, Goto, Report
  <2>4. CASE CountLines(w)
    <3>1. Cardinality(NonBlank(FileLines)) \in Nat
      BY CountType, FileLinesType
    <3>2. [draft[w] EXCEPT !.count = Cardinality(NonBlank(FileLines))] \in Event
      BY <3>1 DEF Event
    <3> QED
      BY <2>4, <3>2 DEF CountLines, Goto
  <2>5. CASE ReadTail(w)
    <3>1. PICK h \in TailHashes(FileLines) : draft' = [draft EXCEPT ![w].prev = h]
      BY <2>5 DEF ReadTail
    <3>2. h \in Hashes \cup {None}
      BY <3>1, TailHashesType, FileLinesType
    <3>3. [draft[w] EXCEPT !.prev = h] \in Event
      BY <3>2, ZenonT(30) DEF Event
    <3> QED
      BY <2>5, <3>1, <3>3 DEF ReadTail, Goto
  <2>6. CASE TailRefused(w)
    BY <2>6 DEF TailRefused, Goto, Report
  <2>7. CASE Build(w)
    BY <2>7 DEF Build, Goto
  <2>8. CASE FailBeforeWrite(w)
    BY <2>8 DEF FailBeforeWrite, Goto, Report
  <2>9. CASE Flush(w)
    <3>1. unwritten[w] \in 0..unwritten[w] /\ Put(w, unwritten[w])
      BY <2>9, ShortWritesType DEF Flush
    <3>2. /\ lines' \in Seq(Line) /\ partial' \in Line
          /\ Len(lines) <= Len(lines')
      BY <3>1, PutType
    <3> QED
      BY <2>9, <3>2 DEF Flush, Goto
  <2>10. CASE FlushFails(w)
    <3>1. PICK n \in ShortWrites(w) :
            Put(w, n) /\ unwritten' = [unwritten EXCEPT ![w] = @ - n]
      BY <2>10 DEF FlushFails
    <3>2. n \in 0..unwritten[w]
      BY <3>1, ShortWritesType
    <3>3. /\ lines' \in Seq(Line) /\ partial' \in Line
          /\ Len(lines) <= Len(lines')
      BY <3>1, <3>2, PutType
    <3>4. unwritten[w] - n \in 0..3
      BY <3>2, ShortWritesType
    <3> HIDE DEF Put, ShortWrites
    <3>5. unwritten' \in [Writers -> 0..3]
      BY <3>1, <3>4
    <3>6. synced' \in 0..Len(lines')
      BY <2>10, <3>3 DEF FlushFails
    <3> QED
      BY <2>10, <3>3, <3>5, <3>6 DEF FlushFails, Goto, Report
  <2>11. CASE Fsync(w)
    BY <2>11 DEF Fsync, Goto, Report
  <2>12. CASE FsyncFails(w)
    BY <2>12 DEF FsyncFails, Goto, Report
  <2>13. CASE Unlock(w)
    BY <2>13 DEF Unlock, Goto
  <2>14. CASE Close(w)
    <3>1. PICK n \in 0..unwritten[w] : Put(w, n)
      BY <2>14, ShortWritesType DEF Close
    <3>2. /\ lines' \in Seq(Line) /\ partial' \in Line
          /\ Len(lines) <= Len(lines')
      BY <3>1, PutType
    <3>3. synced' \in 0..Len(lines')
      BY <2>14, <3>2 DEF Close
    <3>4. acked' \subseteq Event /\ acked \subseteq acked'
      BY <2>14 DEF Close
    <3>5. /\ pc' = [pc EXCEPT ![w] = "idle"]
          /\ unwritten' = [unwritten EXCEPT ![w] = 0]
          /\ threadLock' = [threadLock EXCEPT ![ThreadLockOf[w]] = None]
          /\ UNCHANGED <<named, lost, fileLock, attempts, draft, status>>
      BY <2>14 DEF Close, Goto
    <3>6. pc' \in [Writers -> PCs]
      BY <3>5
    <3>7. unwritten' \in [Writers -> 0..3]
      BY <3>5
    <3>8. threadLock' \in [ThreadLocks -> Writers \cup {None}]
      BY <3>5
    <3>9. lost' \subseteq acked'
      BY <3>4, <3>5
    <3> QED
      BY <3>2, <3>3, <3>4, <3>5, <3>6, <3>7, <3>8, <3>9
  <2> QED
    BY <1>2, <2>1, <2>2, <2>3, <2>4, <2>5, <2>6, <2>7, <2>8, <2>9, <2>10, <2>11,
       <2>12, <2>13, <2>14 DEF Step, Proceed, Fail
<1>3. ASSUME NEW p \in Processes, Kill(p) PROVE TypeOK'
  BY <1>3 DEF Kill, Die
<1>4. ASSUME PowerLoss PROVE TypeOK'
  <2>1. PICK k \in synced..Len(lines) :
          /\ lines' = SubSeq(lines, 1, k) /\ synced' = k
          /\ \E j \in 0..Len(FileLines[k + 1]) :
               partial' = SubSeq(FileLines[k + 1], 1, j)
    BY <1>4 DEF PowerLoss, FileLines
  <2>2. FileLines[k + 1] \in Line
    BY <2>1 DEF FileLines
  <2>3. partial' \in Line /\ lines' \in Seq(Line) /\ synced' \in 0..Len(lines')
    BY <2>1, <2>2 DEF Line
  <2> QED
    BY <1>4, <2>3 DEF PowerLoss, Die
<1>5. ASSUME NewFileLost PROVE TypeOK'
  BY <1>5 DEF NewFileLost, Die, Line
<1>6. ASSUME UNCHANGED vars PROVE TypeOK'
  BY <1>6 DEF vars
<1> QED
  BY <1>1, <1>2, <1>3, <1>4, <1>5, <1>6 DEF Next, Terminating

(***************************************************************************)
(* The variables keep their types.                                         *)
(***************************************************************************)
THEOREM TypeCorrect == Spec => []TypeOK
  BY InitType, NextType, PTL DEF Spec

-----------------------------------------------------------------------------
(* Each event is written once. *)

LEMMA OnceInit == Init => OnceInv
<1> SUFFICES ASSUME Init PROVE OnceInv
  OBVIOUS
<1>1. FileLines = << <<>> >>
  BY DEF Init, FileLines
<1>2. \A h : Heads(FileLines, h) = {}
  BY <1>1 DEF Heads, HeadIn
<1> QED
  BY <1>2 DEF Init, OnceInv, HeadsInv, WriterUnwritten, BeforeFlush

LEMMA SubSeqItems ==
  ASSUME NEW S, NEW s \in Seq(S), NEW a \in Nat \ {0}, NEW b \in 0..Len(s)
  PROVE  /\ SubSeq(s, a, b) \in Seq(S)
         /\ \A j \in DOMAIN SubSeq(s, a, b) :
              /\ j \in Nat \ {0} /\ a + j - 1 \in 1..b
              /\ SubSeq(s, a, b)[j] = s[a + j - 1]
  OBVIOUS

LEMMA ConcatItems ==
  ASSUME NEW S, NEW s \in Seq(S), NEW t \in Seq(S), NEW j \in DOMAIN (s \o t)
  PROVE  \/ j \in DOMAIN s /\ (s \o t)[j] = s[j]
         \/ j - Len(s) \in DOMAIN t /\ (s \o t)[j] = t[j - Len(s)]
  OBVIOUS

(* A write adds at most the head of the draft, to the last line, and only as
   the first piece of a full buffer. *)
LEMMA PutHeads ==
  ASSUME TypeOK, NEW w \in Writers, NEW n \in 0..unwritten[w], Put(w, n), NEW h
  PROVE  /\ Heads(FileLines, h)' \subseteq Heads(FileLines, h) \cup {Len(lines) + 1}
         /\ \/ unwritten[w] = 3 /\ n > 0 /\ h = draft[w].hash
            \/ Heads(FileLines, h)' \subseteq Heads(FileLines, h)
<1> DEFINE text == LineOf(draft[w])
           done == 3 - unwritten[w]
           end == IF n > 0 /\ done + n = 3 THEN 2 ELSE done + n
           part == SubSeq(text, done + 1, end)
           line == partial \o part
<1>1. /\ draft[w] \in Event /\ unwritten[w] \in 0..3 /\ done \in 0..3
      /\ lines \in Seq(Line) /\ partial \in Seq(Fragment)
  BY DEF TypeOK, Line
<1>2. /\ text \in Seq(Fragment) /\ Len(text) = 2
      /\ text[1] = [event |-> draft[w], part |-> "head"]
      /\ text[2] = [event |-> draft[w], part |-> "tail"]
  BY <1>1, LineOfType DEF LineOf, Line
<1>3. /\ end \in 0..3 /\ (end = 3 => done = 3 /\ n = 0)
  BY <1>1
<1> HIDE DEF text, end, done, part
<1>4. /\ part \in Seq(Fragment)
      /\ \A j \in DOMAIN part :
           j \in Nat \ {0} /\ done + j \in 1..2 /\ part[j] = text[done + j]
  <2>1. CASE end = 3
    BY <1>1, <1>2, <1>3, <2>1 DEF part
  <2>2. CASE end # 3
    <3>1. end \in 0..Len(text) /\ done + 1 \in Nat \ {0}
      BY <1>1, <1>2, <1>3, <2>2
    <3>2. ASSUME NEW a \in Nat \ {0}, NEW b \in 0..Len(text)
          PROVE  /\ SubSeq(text, a, b) \in Seq(Fragment)
                 /\ \A j \in DOMAIN SubSeq(text, a, b) :
                      /\ j \in Nat \ {0} /\ a + j - 1 \in 1..b
                      /\ SubSeq(text, a, b)[j] = text[a + j - 1]
      BY <1>2, SubSeqItems, SMTT(30)
    <3>3. /\ part \in Seq(Fragment)
          /\ \A j \in DOMAIN part :
               /\ j \in Nat \ {0} /\ done + 1 + j - 1 \in 1..end
               /\ part[j] = text[done + 1 + j - 1]
      BY <3>1, <3>2 DEF part
    <3> QED
      BY <1>1, <1>2, <3>1, <3>3, SMTT(30)
  <2> QED
    BY <2>1, <2>2
<1>5. ASSUME NEW j \in DOMAIN part, IsHeadOf(part[j], h)
      PROVE  unwritten[w] = 3 /\ n > 0 /\ h = draft[w].hash
  <2>1. done + j = 1
    BY <1>2, <1>4, <1>5 DEF IsHeadOf
  <2>2. j \in Nat \ {0}
    BY <1>4
  <2>3. done = 0 /\ j = 1
    BY <1>1, <2>1, <2>2
  <2>4. n > 0
    <3>1. n \in Nat
      BY <1>1
    <3>2. CASE n = 0
      <4>1. end = 0
        BY <1>1, <2>3, <3>2 DEF end
      <4>2. part = <<>>
        BY <1>2, <2>3, <4>1 DEF part
      <4> QED
        BY <4>2
    <3> QED
      BY <3>1, <3>2
  <2>5. part[j] = [event |-> draft[w], part |-> "head"]
    BY <1>2, <1>4, <2>1
  <2>6. h = draft[w].hash
    BY <1>5, <2>5 DEF IsHeadOf
  <2>7. unwritten[w] = 3
    BY <1>1, <2>3 DEF done
  <2> QED
    BY <2>4, <2>6, <2>7
<1>6. HeadIn(line, h) => HeadIn(partial, h) \/ (unwritten[w] = 3 /\ n > 0 /\ h = draft[w].hash)
  <2> SUFFICES ASSUME NEW j \in DOMAIN line, IsHeadOf(line[j], h), ~HeadIn(partial, h)
               PROVE  \E i \in DOMAIN part : IsHeadOf(part[i], h)
    BY <1>5 DEF HeadIn
  <2>1. \/ j \in DOMAIN partial /\ line[j] = partial[j]
        \/ j - Len(partial) \in DOMAIN part /\ line[j] = part[j - Len(partial)]
    BY <1>1, <1>4, ConcatItems
  <2> QED
    BY <2>1 DEF HeadIn
<1>7. line \in Line
  BY <1>1, <1>4 DEF Line
<1>8. FileLines' \in {Append(Append(lines, line), <<>>), Append(lines, line)}
  <2>1. CASE n > 0 /\ done + n = 3
    BY <2>1 DEF Put, FileLines, text, end, part, done
  <2>2. CASE ~(n > 0 /\ done + n = 3)
    BY <2>2 DEF Put, FileLines, text, end, part, done
  <2> QED
    BY <2>1, <2>2
<1> HIDE DEF line
<1>9. /\ DOMAIN FileLines = 1..(Len(lines) + 1)
      /\ \A i \in 1..Len(lines) : FileLines[i] = lines[i] /\ FileLines'[i] = lines[i]
      /\ FileLines[Len(lines) + 1] = partial /\ FileLines'[Len(lines) + 1] = line
      /\ DOMAIN FileLines' \subseteq 1..(Len(lines) + 2)
      /\ Len(lines) + 2 \in DOMAIN FileLines' => FileLines'[Len(lines) + 2] = <<>>
      /\ Len(lines) \in Nat
  <2>1. partial \in Line /\ <<>> \in Line
    BY <1>1 DEF Line
  <2>2. FileLines = Append(lines, partial)
    BY DEF FileLines
  <2>3. ASSUME NEW x \in Line
        PROVE  /\ Append(lines, x) \in Seq(Line)
               /\ DOMAIN Append(lines, x) = 1..(Len(lines) + 1)
               /\ \A i \in 1..Len(lines) : Append(lines, x)[i] = lines[i]
               /\ Append(lines, x)[Len(lines) + 1] = x
    BY <1>1
  <2>4. CASE FileLines' = Append(lines, line)
    BY <1>1, <1>7, <2>1, <2>2, <2>3, <2>4
  <2>5. CASE FileLines' = Append(Append(lines, line), <<>>)
    <3> DEFINE longer == Append(lines, line)
    <3>1. longer \in Seq(Line) /\ Len(longer) = Len(lines) + 1
      BY <1>1, <1>7
    <3>2. /\ \A i \in 1..Len(lines) : longer[i] = lines[i]
          /\ longer[Len(lines) + 1] = line
      BY <1>7, <2>3
    <3> HIDE DEF longer
    <3>3. /\ DOMAIN Append(longer, <<>>) = 1..(Len(lines) + 2)
          /\ \A i \in 1..(Len(lines) + 1) : Append(longer, <<>>)[i] = longer[i]
          /\ Append(longer, <<>>)[Len(lines) + 2] = <<>>
      BY <1>1, <2>1, <3>1
    <3>4. FileLines' = Append(longer, <<>>)
      BY <2>5 DEF longer
    <3> QED
      BY <1>1, <2>1, <2>2, <2>3, <3>2, <3>3, <3>4
  <2> QED
    BY <1>8, <2>4, <2>5
<1>10. ASSUME NEW i \in Heads(FileLines, h)'
       PROVE  \/ i \in Heads(FileLines, h)
              \/ i = Len(lines) + 1 /\ HeadIn(line, h)
  <2>1. i \in DOMAIN FileLines' /\ HeadIn(FileLines'[i], h)
    BY DEF Heads
  <2>2. ~HeadIn(<<>>, h)
    BY DEF HeadIn
  <2> QED
    BY <1>9, <2>1, <2>2 DEF Heads
<1> QED
  <2>1. HeadIn(partial, h) => Len(lines) + 1 \in Heads(FileLines, h)
    BY <1>9 DEF Heads
  <2> QED
    BY <1>6, <1>10, <2>1

(* Others' events are where they were, and the writer's own is there once. *)
LEMMA OncePut ==
  ASSUME TypeOK, OnceInv, NEW w \in Writers, NEW n \in 0..unwritten[w], Put(w, n),
         pc[w] # "idle", pc'[w] \notin BeforeFlush,
         pc'[w] = "idle" => unwritten'[w] = 0,
         unwritten'[w] = 3 => unwritten[w] = 3 /\ n = 0,
         UNCHANGED <<attempts, draft>>,
         \A v \in Writers \ {w} : UNCHANGED <<pc[v], unwritten[v]>>
  PROVE  OnceInv'
<1>1. /\ \A v \in Writers : WriterUnwritten(v)
      /\ attempts[w] \in 1..MaxAppends
      /\ draft[w].hash = <<w, attempts[w]>> /\ draft[w].hash \in Hashes
  <2>1. \A v \in Writers : WriterUnwritten(v)
    BY DEF OnceInv
  <2>2. attempts[w] > 0 /\ draft[w].hash = <<w, attempts[w]>>
    BY <2>1 DEF WriterUnwritten
  <2>3. attempts[w] \in 1..MaxAppends
    BY <2>2, JournalAssumption DEF TypeOK
  <2> QED
    BY <2>1, <2>2, <2>3 DEF Hashes
<1>2. ASSUME NEW h
      PROVE  \/ Heads(FileLines, h)' \subseteq Heads(FileLines, h)
             \/ /\ unwritten[w] = 3 /\ n > 0 /\ h = draft[w].hash
                /\ Heads(FileLines, h)' \subseteq {Len(lines) + 1}
  <2>1. unwritten[w] = 3 /\ h = draft[w].hash => Heads(FileLines, h) = {}
    BY <1>1 DEF WriterUnwritten, TypeOK
  <2> QED
    BY <2>1, PutHeads
<1>3. HeadsInv'
  <2>1. Heads(FileLines, None)' = {}
    BY <1>1, <1>2, JournalAssumption DEF OnceInv, HeadsInv
  <2>2. ASSUME NEW h \in Hashes, NEW i \in Heads(FileLines, h)', NEW k \in Heads(FileLines, h)'
        PROVE  i = k
    BY <1>2 DEF OnceInv, HeadsInv
  <2> QED
    BY <2>1, <2>2 DEF HeadsInv
<1>4. ASSUME NEW v \in Writers PROVE WriterUnwritten(v)'
  <2>1. pc'[v] # "idle" => pc[v] # "idle"
    OBVIOUS
  <2>2. pc'[v] \in BeforeFlush \cup {"idle"} => unwritten'[v] = 0
    BY <1>1 DEF WriterUnwritten
  <2>3. ASSUME NEW m \in 1..MaxAppends, Heads(FileLines, <<v, m>>)' # {}
        PROVE  /\ m <= attempts[v]
               /\ pc'[v] \in BeforeFlush \/ unwritten'[v] = 3 => m < attempts[v]
    <3>1. CASE Heads(FileLines, <<v, m>>) # {}
      BY <1>1, <3>1 DEF WriterUnwritten
    <3>2. CASE Heads(FileLines, <<v, m>>) = {}
      <4>1. /\ n > 0 /\ <<v, m>> = <<w, attempts[w]>>
        BY <1>1, <1>2, <2>3, <3>2
      <4> QED
        BY <4>1 DEF TypeOK
    <3> QED
      BY <3>1, <3>2
  <2> QED
    BY <1>1, <2>1, <2>2, <2>3 DEF WriterUnwritten
<1> QED
  BY <1>3, <1>4 DEF OnceInv

(* A step that writes nothing into the file. *)
LEMMA OnceQuiet ==
  ASSUME OnceInv, \A h : Heads(FileLines, h)' \subseteq Heads(FileLines, h),
         \A v \in Writers :
           WriterUnwritten(v) /\ HeadsInv =>
             /\ pc'[v] # "idle" => attempts'[v] > 0 /\ draft'[v].hash = <<v, attempts'[v]>>
             /\ pc'[v] \in BeforeFlush \cup {"idle"} => unwritten'[v] = 0
             /\ \A n \in 1..MaxAppends :
                  Heads(FileLines, <<v, n>>) # {} =>
                    /\ n <= attempts'[v]
                    /\ pc'[v] \in BeforeFlush \/ unwritten'[v] = 3 => n < attempts'[v]
  PROVE  OnceInv'
<1>1. HeadsInv'
  BY DEF OnceInv, HeadsInv
<1>2. ASSUME NEW v \in Writers PROVE WriterUnwritten(v)'
  BY DEF OnceInv, WriterUnwritten
<1> QED
  BY <1>1, <1>2 DEF OnceInv

(* What a power loss leaves of the file was there before. *)
LEMMA PowerLossHeads ==
  ASSUME TypeOK, PowerLoss
  PROVE  \A h : Heads(FileLines, h)' \subseteq Heads(FileLines, h)
<1>1. PICK k \in synced..Len(lines) :
        /\ lines' = SubSeq(lines, 1, k)
        /\ \E j \in 0..Len(FileLines[k + 1]) : partial' = SubSeq(FileLines[k + 1], 1, j)
  <2>1. /\ lines \in Seq(Line) /\ partial \in Line /\ synced \in 0..Len(lines)
        /\ FileLines = Append(lines, partial)
    BY DEF TypeOK, FileLines
  <2>2. \A k \in synced..Len(lines) : FileLines[k + 1] \in Line
    BY <2>1
  <2>3. \A k \in synced..Len(lines) : {0} \subseteq 0..Len(FileLines[k + 1])
    BY <2>2 DEF Line
  <2> QED
    BY <2>3 DEF PowerLoss
<1>2. PICK j \in 0..Len(FileLines[k + 1]) : partial' = SubSeq(FileLines[k + 1], 1, j)
  BY <1>1
<1>3. /\ lines \in Seq(Line) /\ partial \in Line /\ k \in 0..Len(lines)
      /\ FileLines = Append(lines, partial)
  BY <1>1 DEF TypeOK, FileLines
<1>4. /\ FileLines[k + 1] \in Seq(Fragment) /\ k + 1 \in DOMAIN FileLines
      /\ \A i \in 1..k : i \in DOMAIN FileLines /\ FileLines[i] = lines[i]
  <2>1. /\ FileLines \in Seq(Line) /\ Len(FileLines) = Len(lines) + 1
        /\ \A i \in DOMAIN lines : FileLines[i] = lines[i]
    BY <1>3
  <2>2. k + 1 \in 1..Len(FileLines) /\ 1..k \subseteq DOMAIN lines
    BY <1>3, <2>1
  <2>3. FileLines[k + 1] \in Line
    BY <2>1, <2>2
  <2>4. k + 1 \in DOMAIN FileLines /\ 1..k \subseteq DOMAIN FileLines
    BY <1>3, <2>1
  <2>5. \A i \in 1..k : i \in DOMAIN FileLines /\ FileLines[i] = lines[i]
    BY <2>1, <2>2, <2>4
  <2> QED
    BY <2>3, <2>4, <2>5 DEF Line
<1>5. /\ \A i \in DOMAIN partial' :
           i \in DOMAIN FileLines[k + 1] /\ partial'[i] = FileLines[k + 1][i]
      /\ partial' \in Line
  BY <1>2, <1>4 DEF Line
<1>6. /\ lines' \in Seq(Line) /\ Len(lines') = k
      /\ \A i \in 1..k : lines'[i] = lines[i]
  BY <1>1, <1>3
<1>7. /\ DOMAIN FileLines' = 1..(k + 1)
      /\ \A i \in 1..k : FileLines'[i] = lines'[i]
      /\ FileLines'[k + 1] = partial'
  BY <1>3, <1>5, <1>6 DEF FileLines
<1>8. ASSUME NEW h, NEW i \in Heads(FileLines, h)'
      PROVE  i \in Heads(FileLines, h)
  <2>1. i \in 1..(k + 1) /\ HeadIn(FileLines'[i], h)
    BY <1>7 DEF Heads
  <2>2. CASE i = k + 1
    BY <1>4, <1>5, <1>7, <2>1, <2>2 DEF Heads, HeadIn
  <2>3. CASE i # k + 1
    <3>1. i \in 1..k
      BY <1>3, <2>1, <2>3
    <3> QED
      BY <1>4, <1>6, <1>7, <2>1, <3>1 DEF Heads
  <2> QED
    BY <2>2, <2>3
<1> QED
  BY <1>8

LEMMA NewFileHeads ==
  ASSUME NewFileLost
  PROVE  \A h : Heads(FileLines, h)' = {}
<1>1. FileLines' = << <<>> >>
  BY DEF NewFileLost, FileLines
<1> QED
  BY <1>1 DEF Heads, HeadIn

LEMMA OnceNext == TypeOK /\ OnceInv /\ [Next]_vars => OnceInv'
<1> SUFFICES ASSUME TypeOK, OnceInv, [Next]_vars PROVE OnceInv'
  OBVIOUS
<1>0. /\ pc \in [Writers -> PCs] /\ unwritten \in [Writers -> 0..3]
      /\ attempts \in [Writers -> 0..MaxAppends] /\ draft \in [Writers -> Event]
      /\ MaxAppends \in Nat
  BY JournalAssumption DEF TypeOK
<1>1. ASSUME NEW w \in Writers, Step(w) PROVE OnceInv'
  <2>0. WriterUnwritten(w)
    BY DEF OnceInv
  <2>1. CASE Flush(w)
    <3>1. /\ unwritten[w] \in 0..unwritten[w] /\ Put(w, unwritten[w])
          /\ pc[w] = "flush" /\ pc' = [pc EXCEPT ![w] = "fsync"]
          /\ unwritten' = [unwritten EXCEPT ![w] = 0] /\ UNCHANGED <<attempts, draft>>
      BY <2>1, ShortWritesType DEF Flush, Goto
    <3> QED
      BY <1>0, <3>1, OncePut DEF BeforeFlush
  <2>2. CASE FlushFails(w)
    <3>1. PICK n \in ShortWrites(w) :
            Put(w, n) /\ unwritten' = [unwritten EXCEPT ![w] = @ - n]
      BY <2>2 DEF FlushFails
    <3>2. /\ n \in 0..unwritten[w]
          /\ pc[w] = "flush" /\ pc' = [pc EXCEPT ![w] = "unlock"]
          /\ UNCHANGED <<attempts, draft>>
      BY <2>2, <3>1, ShortWritesType DEF FlushFails, Goto
    <3>3. unwritten'[w] = 3 => unwritten[w] = 3 /\ n = 0
      BY <1>0, <3>1, <3>2
    <3> QED
      BY <1>0, <3>1, <3>2, <3>3, OncePut DEF BeforeFlush
  <2>3. CASE Close(w)
    <3>1. PICK n \in 0..unwritten[w] : Put(w, n)
      BY <2>3, ShortWritesType DEF Close
    <3>2. /\ pc[w] = "close" /\ pc' = [pc EXCEPT ![w] = "idle"]
          /\ unwritten' = [unwritten EXCEPT ![w] = 0] /\ UNCHANGED <<attempts, draft>>
      BY <2>3 DEF Close, Goto
    <3> QED
      BY <1>0, <3>1, <3>2, OncePut DEF BeforeFlush
  <2>4. CASE ~(Flush(w) \/ FlushFails(w) \/ Close(w))
    <3>1. /\ FileLines' = FileLines
          /\ attempts' = attempts /\ \A v \in Writers : draft'[v].hash = draft[v].hash
          /\ \A v \in Writers \ {w} : pc'[v] = pc[v] /\ unwritten'[v] = unwritten[v]
      <4>1. /\ UNCHANGED <<lines, partial, attempts>>
            /\ \A v \in Writers \ {w} : pc'[v] = pc[v] /\ unwritten'[v] = unwritten[v]
        BY <1>0, <1>1, <2>4 DEF Step, Proceed, Fail, AcquireThreadLock, OpenAndLock, OpenFails,
           CountLines, ReadTail, TailRefused, Build, FailBeforeWrite, Fsync, FsyncFails, Unlock,
           Goto, diskVars
      <4>2. \A v \in Writers : draft'[v].hash = draft[v].hash
        <5>1. CASE CountLines(w)
          BY <1>0, <5>1 DEF CountLines, Event
        <5>2. CASE ReadTail(w)
          BY <1>0, <5>2 DEF ReadTail, Event
        <5>3. CASE ~(CountLines(w) \/ ReadTail(w))
          BY <1>1, <2>4, <5>3 DEF Step, Proceed, Fail, AcquireThreadLock, OpenAndLock,
             OpenFails, TailRefused, Build, FailBeforeWrite, Fsync, FsyncFails, Unlock
        <5> QED
          BY <5>1, <5>2, <5>3
      <4> QED
        BY <4>1, <4>2 DEF FileLines
    <3>2. /\ pc[w] # "idle"
          /\ pc'[w] \in BeforeFlush => pc[w] \in BeforeFlush
          /\ pc'[w] = "idle" => pc[w] \in BeforeFlush
          /\ \/ unwritten'[w] = unwritten[w]
             \/ pc[w] \in BeforeFlush /\ pc'[w] = "flush"
      BY <1>0, <1>1, <2>4 DEF Step, Proceed, Fail, AcquireThreadLock, OpenAndLock, OpenFails,
         CountLines, ReadTail, TailRefused, Build, FailBeforeWrite, Fsync, FsyncFails, Unlock,
         Goto, BeforeFlush
    <3>3. ASSUME NEW v \in Writers, WriterUnwritten(v)
          PROVE  /\ pc'[v] # "idle" => attempts'[v] > 0 /\ draft'[v].hash = <<v, attempts'[v]>>
                 /\ pc'[v] \in BeforeFlush \cup {"idle"} => unwritten'[v] = 0
                 /\ \A n \in 1..MaxAppends :
                      Heads(FileLines, <<v, n>>) # {} =>
                        /\ n <= attempts'[v]
                        /\ pc'[v] \in BeforeFlush \/ unwritten'[v] = 3 => n < attempts'[v]
      <4>1. CASE v = w
        BY <3>1, <3>2, <3>3, <4>1 DEF WriterUnwritten, BeforeFlush
      <4>2. CASE v # w
        BY <3>1, <3>3, <4>2 DEF WriterUnwritten
      <4> QED
        BY <4>1, <4>2
    <3> QED
      BY <3>1, <3>3, OnceQuiet
  <2> QED
    BY <2>1, <2>2, <2>3, <2>4
<1>2. ASSUME NEW w \in Writers, NEW kind \in Kinds, Begin(w, kind) PROVE OnceInv'
  <2>1. /\ FileLines' = FileLines /\ unwritten' = unwritten
        /\ pc[w] = "idle" /\ pc' = [pc EXCEPT ![w] = "thread_lock"]
        /\ attempts' = [attempts EXCEPT ![w] = @ + 1]
        /\ draft'[w].hash = <<w, attempts[w] + 1>>
        /\ \A v \in Writers \ {w} : draft'[v] = draft[v]
    BY <1>0, <1>2 DEF Begin, Goto, diskVars, FileLines
  <2>2. ASSUME NEW v \in Writers, WriterUnwritten(v)
        PROVE  /\ pc'[v] # "idle" => attempts'[v] > 0 /\ draft'[v].hash = <<v, attempts'[v]>>
               /\ pc'[v] \in BeforeFlush \cup {"idle"} => unwritten'[v] = 0
               /\ \A n \in 1..MaxAppends :
                    Heads(FileLines, <<v, n>>) # {} =>
                      /\ n <= attempts'[v]
                      /\ pc'[v] \in BeforeFlush \/ unwritten'[v] = 3 => n < attempts'[v]
    <3>1. CASE v = w
      <4>1. attempts'[v] = attempts[v] + 1 /\ attempts[v] \in Nat
        BY <1>0, <2>1, <3>1
      <4>2. pc'[v] = "thread_lock" /\ unwritten'[v] = 0
        BY <1>0, <2>1, <2>2, <3>1 DEF WriterUnwritten
      <4> QED
        BY <2>1, <2>2, <3>1, <4>1, <4>2 DEF WriterUnwritten
    <3>2. CASE v # w
      BY <1>0, <2>1, <2>2, <3>2 DEF WriterUnwritten
    <3> QED
      BY <3>1, <3>2
  <2> QED
    BY <2>1, <2>2, OnceQuiet
<1>3. ASSUME NEW ps, Die(ps), \A h : Heads(FileLines, h)' \subseteq Heads(FileLines, h)
      PROVE  OnceInv'
  <2>1. /\ UNCHANGED <<attempts, draft>>
        /\ \A v \in Writers :
             \/ pc'[v] = pc[v] /\ unwritten'[v] = unwritten[v]
             \/ pc'[v] = "idle" /\ unwritten'[v] = 0
    BY <1>3 DEF Die
  <2>2. ASSUME NEW v \in Writers, WriterUnwritten(v)
        PROVE  /\ pc'[v] # "idle" => attempts'[v] > 0 /\ draft'[v].hash = <<v, attempts'[v]>>
               /\ pc'[v] \in BeforeFlush \cup {"idle"} => unwritten'[v] = 0
               /\ \A n \in 1..MaxAppends :
                    Heads(FileLines, <<v, n>>) # {} =>
                      /\ n <= attempts'[v]
                      /\ pc'[v] \in BeforeFlush \/ unwritten'[v] = 3 => n < attempts'[v]
    BY <2>1, <2>2 DEF WriterUnwritten, BeforeFlush
  <2> QED
    BY <1>3, <2>2, OnceQuiet
<1>4. ASSUME NEW p \in Processes, Kill(p) PROVE OnceInv'
  BY <1>3, <1>4 DEF Kill, diskVars, FileLines
<1>5. CASE PowerLoss
  BY <1>3, <1>5, PowerLossHeads DEF PowerLoss
<1>6. CASE NewFileLost
  BY <1>3, <1>6, NewFileHeads DEF NewFileLost
<1>7. CASE UNCHANGED vars
  <2>1. FileLines' = FileLines /\ UNCHANGED <<pc, attempts, draft, unwritten>>
    BY <1>7 DEF vars, FileLines
  <2> QED
    BY <2>1 DEF OnceInv, HeadsInv, WriterUnwritten
<1> QED
  BY <1>1, <1>2, <1>4, <1>5, <1>6, <1>7 DEF Next, Terminating

(* A step of a writer only adds to the file and leaves the others alone. *)
LEMMA StepFrame ==
  ASSUME TypeOK, NEW w \in Writers,
         Step(w) \/ \E k \in Kinds : Begin(w, k)
  PROVE  /\ \A i \in DOMAIN lines : i \in DOMAIN lines' /\ lines'[i] = lines[i]
         /\ Len(lines) <= Len(lines')
         /\ synced <= synced'
         /\ \A v \in Writers \ {w} :
              UNCHANGED <<pc[v], draft[v], unwritten[v], status[v]>>
<1>0. Len(lines) \in Nat /\ synced \in 0..Len(lines)
  BY DEF TypeOK
<1> DEFINE Frame ==
             \A v \in Writers \ {w} :
               UNCHANGED <<pc[v], draft[v], unwritten[v], status[v]>>
<1>1. CASE Flush(w)
  <2>1. unwritten[w] \in 0..unwritten[w] /\ Put(w, unwritten[w])
    BY <1>1, ShortWritesType DEF Flush
  <2>2. Frame /\ synced' = synced
    <3>1. /\ pc' = [pc EXCEPT ![w] = "fsync"]
          /\ unwritten' = [unwritten EXCEPT ![w] = 0]
          /\ UNCHANGED <<synced, draft, status>>
      BY <1>1 DEF Flush, Goto
    <3> QED
      BY <3>1 DEF TypeOK
  <2> QED
    BY <2>1, <2>2, <1>0, PutType
<1>2. CASE FlushFails(w)
  <2>1. PICK n \in ShortWrites(w) :
          Put(w, n) /\ unwritten' = [unwritten EXCEPT ![w] = @ - n]
    BY <1>2 DEF FlushFails
  <2>2. n \in 0..unwritten[w]
    BY <2>1, ShortWritesType
  <2>3. Frame /\ synced' = synced
    <3>1. /\ pc' = [pc EXCEPT ![w] = "unlock"]
          /\ status' = [status EXCEPT ![w] = "error"]
          /\ UNCHANGED <<synced, draft>>
      BY <1>2 DEF FlushFails, Goto, Report
    <3> QED
      BY <2>1, <3>1 DEF TypeOK
  <2> QED
    BY <2>1, <2>2, <2>3, <1>0, PutType
<1>3. CASE Close(w)
  <2>1. PICK n \in 0..unwritten[w] : Put(w, n)
    BY <1>3, ShortWritesType DEF Close
  <2>2. Frame /\ synced' = synced
    <3>1. /\ pc' = [pc EXCEPT ![w] = "idle"]
          /\ unwritten' = [unwritten EXCEPT ![w] = 0]
          /\ UNCHANGED <<synced, draft, status>>
      BY <1>3 DEF Close, Goto
    <3> QED
      BY <3>1 DEF TypeOK
  <2> QED
    BY <2>1, <2>2, <1>0, PutType
<1>4. CASE ~(Flush(w) \/ FlushFails(w) \/ Close(w))
  <2>1. lines' = lines /\ synced' \in {synced, Len(lines)}
    BY <1>4 DEF Step, Proceed, Fail, Begin, AcquireThreadLock, OpenAndLock, OpenFails,
       CountLines, ReadTail, TailRefused, Build, FailBeforeWrite, Fsync,
       FsyncFails, Unlock, diskVars
  <2>2. Frame
    BY <1>4 DEF TypeOK, Step, Proceed, Fail, Begin, AcquireThreadLock, OpenAndLock, OpenFails,
       CountLines, ReadTail, TailRefused, Build, FailBeforeWrite, Fsync,
       FsyncFails, Unlock, Goto, Report
  <2> QED
    BY <2>1, <2>2, <1>0
<1> QED
  BY <1>1, <1>2, <1>3, <1>4

(* A writer puts nothing at the head of a line but the event it is at. *)
LEMMA HeadsStep ==
  ASSUME TypeOK, OnceInv, NEW w \in Writers, Step(w), NEW h
  PROVE  \/ Heads(FileLines, h)' \subseteq Heads(FileLines, h)
         \/ pc[w] # "idle" /\ h = <<w, attempts[w]>> /\ attempts[w] \in 1..MaxAppends
<1>1. ASSUME NEW n \in 0..unwritten[w], Put(w, n), pc[w] # "idle"
      PROVE  \/ Heads(FileLines, h)' \subseteq Heads(FileLines, h)
             \/ h = <<w, attempts[w]>> /\ attempts[w] \in 1..MaxAppends
  <2>1. draft[w].hash = <<w, attempts[w]>> /\ attempts[w] > 0
    BY <1>1 DEF OnceInv, WriterUnwritten
  <2>2. attempts[w] \in 1..MaxAppends
    BY <2>1, JournalAssumption DEF TypeOK
  <2> QED
    BY <1>1, <2>1, <2>2, PutHeads
<1>2. CASE Flush(w)
  BY <1>1, <1>2, ShortWritesType DEF Flush, Goto
<1>3. CASE FlushFails(w)
  BY <1>1, <1>3, ShortWritesType DEF FlushFails, Goto
<1>4. CASE Close(w)
  BY <1>1, <1>4, ShortWritesType DEF Close, Goto
<1>5. CASE ~(Flush(w) \/ FlushFails(w) \/ Close(w))
  <2>1. UNCHANGED <<lines, partial>>
    BY <1>5 DEF Step, Proceed, Fail, AcquireThreadLock, OpenAndLock, OpenFails,
       CountLines, ReadTail, TailRefused, Build, FailBeforeWrite, Fsync, FsyncFails, Unlock,
       diskVars
  <2> QED
    BY <2>1 DEF FileLines
<1> QED
  BY <1>2, <1>3, <1>4, <1>5

(* Whoever is at work stays in its append, or is idle after it. *)
LEMMA AppendsGoOn ==
  ASSUME TypeOK, [Next]_vars, NEW w \in Writers
  PROVE  \/ attempts'[w] = attempts[w] /\ (pc[w] = "idle" => pc'[w] = "idle")
         \/ attempts'[w] = attempts[w] + 1
<1>0. pc \in [Writers -> PCs] /\ attempts \in [Writers -> 0..MaxAppends]
  BY DEF TypeOK
<1>1. ASSUME NEW v \in Writers, Step(v)
      PROVE  attempts' = attempts /\ (pc[w] = "idle" => pc'[w] = "idle")
  <2>1. attempts' = attempts /\ pc[v] # "idle"
    BY <1>1 DEF Step, Proceed, Fail, AcquireThreadLock, OpenAndLock, OpenFails, CountLines,
       ReadTail, TailRefused, Build, FailBeforeWrite, Flush, FlushFails, Fsync, FsyncFails,
       Unlock, Close, Goto
  <2> QED
    BY <1>1, <2>1, StepFrame
<1>2. ASSUME NEW v \in Writers, NEW k \in Kinds, Begin(v, k)
      PROVE  \/ attempts'[w] = attempts[w] /\ (pc[w] = "idle" => pc'[w] = "idle")
             \/ attempts'[w] = attempts[w] + 1
  BY <1>0, <1>2 DEF Begin, Goto
<1>3. ASSUME NEW ps, Die(ps)
      PROVE  attempts' = attempts /\ (pc[w] = "idle" => pc'[w] = "idle")
  BY <1>3 DEF Die
<1>4. CASE UNCHANGED vars
  BY <1>4 DEF vars
<1> QED
  BY <1>1, <1>2, <1>3, <1>4 DEF Next, Kill, PowerLoss, NewFileLost, Terminating

(* What was lost stays lost. *)
LEMMA GoneStays ==
  ASSUME TypeOK, OnceInv, [Next]_vars, NEW e \in acked, Gone(e)
  PROVE  Gone(e)'
<1>1. attempts \in [Writers -> 0..MaxAppends] /\ MaxAppends \in Nat
  BY JournalAssumption DEF TypeOK
<1>2. Over(e.prev)'
  <2> SUFFICES ASSUME NEW w \in Writers, NEW n \in 1..MaxAppends, e.prev = <<w, n>>
               PROVE  n <= attempts'[w] /\ (n = attempts'[w] => pc'[w] = "idle")
    BY DEF Over
  <2>1. n <= attempts[w] /\ (n = attempts[w] => pc[w] = "idle") /\ attempts[w] \in Nat
    BY <1>1 DEF Gone, Over
  <2> QED
    BY <2>1, AppendsGoOn
<1>3. Heads(FileLines, e.prev)' = {}
  <2>0. Heads(FileLines, e.prev) = {}
    BY DEF Gone
  <2>1. ASSUME NEW w \in Writers, Step(w) PROVE Heads(FileLines, e.prev)' = {}
    <3>1. ~(pc[w] # "idle" /\ e.prev = <<w, attempts[w]>> /\ attempts[w] \in 1..MaxAppends)
      BY DEF Gone, Over
    <3> QED
      BY <2>0, <2>1, <3>1, HeadsStep
  <2>2. ASSUME UNCHANGED <<lines, partial>> PROVE Heads(FileLines, e.prev)' = {}
    BY <2>0, <2>2 DEF FileLines
  <2>3. CASE PowerLoss
    BY <2>0, <2>3, PowerLossHeads
  <2>4. CASE NewFileLost
    BY <2>4, NewFileHeads
  <2> QED
    BY <2>1, <2>2, <2>3, <2>4 DEF Next, Begin, Kill, Terminating, diskVars, vars
<1>4. lost' = lost \/ lost' = acked
  BY DEF Next, Step, Proceed, Fail, Begin, AcquireThreadLock, OpenAndLock, OpenFails, CountLines,
     ReadTail, TailRefused, FailBeforeWrite, Build, Put, Flush, FlushFails, Fsync, FsyncFails,
     Unlock, Close, Report, Kill, PowerLoss, NewFileLost, Terminating, diskVars, vars
<1> QED
  BY <1>2, <1>3, <1>4 DEF Gone

LEMMA IssuedInit == Init => IssuedInv
  BY JournalAssumption DEF Init, IssuedInv, Issued, Hashes

(* The event that the tail read finds was started. *)
LEMMA TailIssued ==
  ASSUME TypeOK, OnceInv, NEW h \in TailHashes(FileLines)
  PROVE  Issued(h)
<1>1. CASE h = None
  BY <1>1, JournalAssumption DEF Issued, Hashes
<1>2. CASE h # None
  <2>1. PICK k \in LastNonBlank(FileLines) :
          IsEventLine(FileLines[k]) /\ h = FileLines[k][1].event.hash
    BY <1>2 DEF TailHashes
  <2>2. k \in DOMAIN FileLines /\ FileLines[k] = LineOf(FileLines[k][1].event)
    BY <2>1 DEF LastNonBlank, NonBlank, IsEventLine
  <2>3. 1 \in DOMAIN FileLines[k] /\ FileLines[k][1].part = "head"
    BY <2>2 DEF LineOf
  <2>4. Heads(FileLines, h) # {}
    BY <2>1, <2>2, <2>3 DEF Heads, HeadIn, IsHeadOf
  <2> QED
    BY <2>4 DEF Issued, OnceInv, WriterUnwritten
<1> QED
  BY <1>1, <1>2

LEMMA IssuedNext == TypeOK /\ OnceInv /\ IssuedInv /\ [Next]_vars => IssuedInv'
<1> SUFFICES ASSUME TypeOK, OnceInv, IssuedInv, [Next]_vars PROVE IssuedInv'
  OBVIOUS
<1>1. ASSUME NEW h, Issued(h) PROVE Issued(h)'
  <2> SUFFICES ASSUME NEW w \in Writers, NEW n \in 1..MaxAppends, h = <<w, n>>
               PROVE  n <= attempts'[w]
    BY DEF Issued
  <2>1. n <= attempts[w] /\ attempts[w] \in Nat
    BY <1>1, JournalAssumption DEF Issued, TypeOK
  <2> QED
    BY <2>1, AppendsGoOn
<1>2. Issued(None)
  BY JournalAssumption DEF Issued, Hashes
<1>3. ASSUME NEW v \in Writers
      PROVE  Issued(draft'[v].prev)
  <2>1. Issued(draft[v].prev) /\ draft \in [Writers -> Event]
    BY DEF IssuedInv, TypeOK
  <2>2. ASSUME NEW w \in Writers, Step(w) PROVE Issued(draft'[v].prev)
    <3>1. CASE CountLines(w)
      <4>1. draft'[v].prev = draft[v].prev
        BY <2>1, <3>1 DEF CountLines, Event
      <4> QED
        BY <2>1, <4>1
    <3>2. CASE ReadTail(w)
      <4>1. PICK h \in TailHashes(FileLines) : draft' = [draft EXCEPT ![w].prev = h]
        BY <3>2 DEF ReadTail
      <4>2. draft'[v].prev \in {h, draft[v].prev}
        BY <2>1, <4>1 DEF Event
      <4> QED
        BY <2>1, <4>2, TailIssued
    <3>3. CASE ~(CountLines(w) \/ ReadTail(w))
      <4>1. draft' = draft
        BY <2>2, <3>3 DEF Step, Proceed, Fail, AcquireThreadLock, OpenAndLock, OpenFails,
           TailRefused, Build, FailBeforeWrite, Flush, FlushFails, Fsync, FsyncFails, Unlock,
           Close
      <4> QED
        BY <2>1, <4>1
    <3> QED
      BY <3>1, <3>2, <3>3
  <2>3. ASSUME NEW w \in Writers, NEW k \in Kinds, Begin(w, k) PROVE Issued(draft'[v].prev)
    <3>1. draft'[v].prev \in {None, draft[v].prev}
      BY <2>1, <2>3 DEF Begin
    <3> QED
      BY <1>2, <2>1, <3>1
  <2>4. ASSUME draft' = draft PROVE Issued(draft'[v].prev)
    BY <2>1, <2>4
  <2> QED
    BY <2>2, <2>3, <2>4 DEF Next, Kill, PowerLoss, NewFileLost, Die, Terminating, vars
<1>4. acked' \subseteq acked \cup {draft[w] : w \in Writers}
  BY DEF Next, Step, Proceed, Fail, Begin, AcquireThreadLock, OpenAndLock, OpenFails,
     CountLines, ReadTail, TailRefused, Build, FailBeforeWrite, Flush, FlushFails, Fsync,
     FsyncFails, Unlock, Close, Kill, PowerLoss, NewFileLost, Die, Terminating, vars
<1>5. \A e \in acked' : Issued(e.prev)
  BY <1>4 DEF IssuedInv
<1> QED
  BY <1>1, <1>3, <1>5 DEF IssuedInv

-----------------------------------------------------------------------------
(* Durability. *)

(* Text stays where it is in a file that only changes behind it. *)
LEMMA TextStays ==
  ASSUME NEW ls \in Seq(Line), NEW ms \in Seq(Line), NEW e,
         NEW n \in Nat, NEW m \in Nat, n <= m,
         \A i \in DOMAIN ls : i <= n => i \in DOMAIN ms /\ ms[i] = ls[i],
         TextWithin(ls, e, n)
  PROVE  TextWithin(ms, e, m)
<1>1. PICK i \in DOMAIN ls : i <= n /\ \E j \in DOMAIN ls[i] : ls[i][j] = HeadOf(e)
  BY DEF TextWithin
<1>2. i \in DOMAIN ms /\ ms[i] = ls[i] /\ i <= m
  BY <1>1
<1> QED
  BY <1>1, <1>2 DEF TextWithin

(* A whole flush puts the text into a terminated line. *)
LEMMA FlushWrites ==
  ASSUME TypeOK, NEW w \in Writers, unwritten[w] = 3, Put(w, 3)
  PROVE  TextWithin(lines', draft[w], Len(lines'))
<1> DEFINE text == LineOf(draft[w])
           line == partial \o SubSeq(text, 1, 2)
<1>1. draft[w] \in Event /\ lines \in Seq(Line) /\ partial \in Seq(Fragment)
  BY DEF TypeOK, Line
<1>2. text \in Seq(Fragment) /\ Len(text) = 2 /\ text[1] = HeadOf(draft[w])
  BY <1>1, LineOfType DEF Line
<1>3. lines' = Append(lines, line)
  BY DEF Put
<1> HIDE DEF text
<1>4. line[Len(partial) + 1] = HeadOf(draft[w]) /\ Len(partial) + 1 \in DOMAIN line
  BY <1>1, <1>2
<1>5. line \in Line
  <2>1. SubSeq(text, 1, 2) \in Seq(Fragment)
    BY <1>2, SMTT(30)
  <2> QED
    BY <1>1, <2>1 DEF Line
<1> HIDE DEF line
<1>6. /\ Len(lines') \in DOMAIN lines'
      /\ lines'[Len(lines')] = line
  BY <1>1, <1>3, <1>5
<1> QED
  BY <1>4, <1>6 DEF TextWithin

LEMMA DurabilityInit == Init => DurabilityInv
  BY DEF Init, DurabilityInv, WriterDurable

(* A step of w keeps what holds of the events returned so far and of the
   other writers; of w itself it must be shown. *)
LEMMA DurabilityStep ==
  ASSUME TypeOK, TypeOK', DurabilityInv, NEW w \in Writers,
         Step(w) \/ \E k \in Kinds : Begin(w, k),
         WriterDurable(w)', \A e \in acked : Gone(e) => Gone(e)',
         acked' \subseteq acked \/ ( /\ TextWithin(lines, draft[w], synced)
                                   /\ acked' = acked \cup {draft[w]} )
  PROVE  DurabilityInv'
<1>1. /\ lines \in Seq(Line) /\ lines' \in Seq(Line)
      /\ Len(lines) \in Nat /\ Len(lines') \in Nat
      /\ synced \in Nat /\ synced' \in Nat /\ synced <= Len(lines)
  BY DEF TypeOK
<1>2. /\ \A i \in DOMAIN lines : i \in DOMAIN lines' /\ lines'[i] = lines[i]
      /\ Len(lines) <= Len(lines')
      /\ synced <= synced'
      /\ \A v \in Writers \ {w} :
           UNCHANGED <<pc[v], draft[v], unwritten[v], status[v]>>
  BY StepFrame
<1>3. ASSUME NEW e, TextWithin(lines, e, synced)
      PROVE  TextWithin(lines', e, synced')
  BY <1>1, <1>2, <1>3, TextStays
<1>4. ASSUME NEW e, TextWithin(lines, e, Len(lines))
      PROVE  TextWithin(lines', e, Len(lines'))
  BY <1>1, <1>2, <1>4, TextStays
<1>5. \A e \in acked' : TextWithin(lines', e, synced') \/ Gone(e)'
  BY <1>3 DEF DurabilityInv
<1>6. ASSUME NEW v \in Writers \ {w} PROVE WriterDurable(v)'
  <2>1. WriterDurable(v)
    BY DEF DurabilityInv
  <2> QED
    BY <1>2, <1>3, <1>4, <2>1 DEF WriterDurable
<1> QED
  BY <1>5, <1>6 DEF DurabilityInv

LEMMA DurabilityNext ==
  TypeOK /\ TypeOK' /\ OnceInv /\ IssuedInv /\ DurabilityInv /\ [Next]_vars => DurabilityInv'
<1> SUFFICES ASSUME TypeOK, TypeOK', OnceInv, IssuedInv, DurabilityInv, [Next]_vars
             PROVE  DurabilityInv'
  OBVIOUS
<1>0. \A e \in acked : Gone(e) => Gone(e)'
  BY GoneStays
<1>1. ASSUME NEW w \in Writers, Step(w) PROVE DurabilityInv'
  <2> DEFINE Kept == acked' \subseteq acked
                     \/ ( /\ TextWithin(lines, draft[w], synced)
                          /\ acked' = acked \cup {draft[w]} )
  <2>0. WriterDurable(w) /\ unwritten[w] \in 0..3 /\ pc[w] \in PCs
    BY DEF DurabilityInv, TypeOK
  <2> SUFFICES WriterDurable(w)' /\ Kept
    BY <1>0, <1>1, DurabilityStep
  <2>1. CASE Flush(w)
    <3>1. pc'[w] = "fsync" /\ acked' = acked /\ draft' = draft
      BY <2>1 DEF Flush, Goto, TypeOK
    <3>2. TextWithin(lines', draft[w], Len(lines'))
      BY <2>0, <2>1, FlushWrites DEF Flush, Goto, WriterDurable
    <3> QED
      BY <3>1, <3>2 DEF WriterDurable
  <2>2. CASE Fsync(w)
    <3>1. /\ pc'[w] = "unlock" /\ acked' = acked /\ draft' = draft
          /\ lines' = lines /\ synced' = Len(lines)
      BY <2>2 DEF Fsync, Goto, TypeOK
    <3>2. TextWithin(lines, draft[w], Len(lines))
      BY <2>0, <2>2 DEF Fsync, Goto, WriterDurable
    <3> QED
      BY <3>1, <3>2 DEF WriterDurable
  <2>3. CASE Unlock(w)
    <3>1. /\ pc[w] = "unlock" /\ pc'[w] = "close"
          /\ UNCHANGED <<acked, draft, lines, synced, status>>
      BY <2>3 DEF Unlock, Goto, TypeOK, diskVars
    <3> QED
      BY <2>0, <3>1 DEF WriterDurable
  <2>4. CASE Close(w)
    <3>1. /\ pc[w] = "close" /\ pc'[w] = "idle"
          /\ acked' = IF status[w] = "ok" THEN acked \cup {draft[w]} ELSE acked
      BY <2>4 DEF Close, Goto, TypeOK
    <3> QED
      BY <2>0, <3>1 DEF WriterDurable
  <2>5. CASE Build(w)
    BY <2>5 DEF Build, Goto, TypeOK, WriterDurable
  <2>6. CASE ~(Flush(w) \/ Fsync(w) \/ Unlock(w) \/ Close(w) \/ Build(w))
    <3>1. /\ acked' = acked
          /\ pc'[w] \notin {"flush", "fsync"}
          /\ pc'[w] = "unlock" => status'[w] = "error"
          /\ pc'[w] # "close"
      BY <1>1, <2>6 DEF Step, Proceed, Fail, AcquireThreadLock, OpenAndLock, OpenFails,
         CountLines, ReadTail, TailRefused, FailBeforeWrite, FlushFails,
         FsyncFails, Goto, Report, TypeOK
    <3> QED
      BY <3>1 DEF WriterDurable
  <2> QED
    BY <2>1, <2>2, <2>3, <2>4, <2>5, <2>6
<1>2. ASSUME NEW w \in Writers, NEW k \in Kinds, Begin(w, k) PROVE DurabilityInv'
  <2>1. pc'[w] = "thread_lock" /\ acked' = acked
    BY <1>2 DEF Begin, Goto, TypeOK
  <2>2. WriterDurable(w)'
    BY <2>1 DEF WriterDurable
  <2> QED
    BY <1>0, <1>2, <2>1, <2>2, DurabilityStep
<1>3. ASSUME NEW p \in Processes, Kill(p) PROVE DurabilityInv'
  <2>1. UNCHANGED <<lines, synced, acked, draft>>
    BY <1>3 DEF Kill, Die, diskVars
  <2>2. ASSUME NEW w \in Writers PROVE WriterDurable(w)'
    <3>1. WriterDurable(w)
      BY DEF DurabilityInv
    <3>2. pc'[w] = "idle" \/ UNCHANGED <<pc[w], unwritten[w], status[w]>>
      BY <1>3 DEF Kill, Die
    <3> QED
      BY <2>1, <3>1, <3>2 DEF WriterDurable
  <2> QED
    BY <1>0, <2>1, <2>2 DEF DurabilityInv
<1>4. CASE PowerLoss
  <2>1. PICK k \in synced..Len(lines) : lines' = SubSeq(lines, 1, k) /\ synced' = k
    BY <1>4 DEF PowerLoss
  <2>2. /\ lines \in Seq(Line) /\ lines' \in Seq(Line) /\ Len(lines) \in Nat
        /\ synced \in Nat /\ synced' \in Nat /\ synced <= synced'
    BY <2>1 DEF TypeOK
  <2>3. \A i \in DOMAIN lines : i <= synced => i \in DOMAIN lines' /\ lines'[i] = lines[i]
    BY <2>1, <2>2
  <2>4. acked' = acked
    BY <1>4 DEF PowerLoss, Die
  <2>5. \A e \in acked' : TextWithin(lines', e, synced') \/ Gone(e)'
    BY <1>0, <2>2, <2>3, <2>4, TextStays DEF DurabilityInv
  <2>6. \A w \in Writers : pc'[w] = "idle"
    BY <1>4, JournalAssumption DEF PowerLoss, Die
  <2> QED
    BY <2>5, <2>6 DEF DurabilityInv, WriterDurable
<1>5. CASE NewFileLost
  <2>1. acked' = acked /\ UNCHANGED attempts /\ \A w \in Writers : pc'[w] = "idle"
    BY <1>5, JournalAssumption DEF NewFileLost, Die
  <2>2. ASSUME NEW e \in acked PROVE Gone(e)'
    <3>1. Over(e.prev)'
      BY <2>1 DEF IssuedInv, Issued, Over
    <3> QED
      BY <1>5, <3>1, NewFileHeads DEF Gone, NewFileLost
  <2> QED
    BY <2>1, <2>2 DEF DurabilityInv, WriterDurable
<1>6. CASE UNCHANGED vars
  BY <1>0, <1>6 DEF vars, DurabilityInv, WriterDurable
<1> QED
  BY <1>1, <1>2, <1>3, <1>4, <1>5, <1>6 DEF Next, Terminating

(* A verifiable journal that holds the text of an event holds it as a line. *)
LEMMA VerifiedText ==
  ASSUME TypeOK, Verifies, NEW e, TextWithin(lines, e, synced)
  PROVE  \E i \in DOMAIN lines : lines[i] = LineOf(e)
<1>1. PICK i \in DOMAIN lines : \E j \in DOMAIN lines[i] : lines[i][j] = HeadOf(e)
  BY DEF TextWithin
<1>2. PICK j \in DOMAIN lines[i] : lines[i][j] = HeadOf(e)
  BY <1>1
<1>3. lines \in Seq(Line) /\ lines[i] \in Seq(Fragment) /\ FileLines \in Seq(Line)
  BY FileLinesType DEF TypeOK, Line
<1>4. i \in DOMAIN FileLines /\ FileLines[i] = lines[i]
  BY <1>3, FileLinesType DEF FileLines, TypeOK
<1>5. lines[i] # <<>>
  BY <1>2, <1>3
<1>6. IsEventLine(lines[i])
  BY <1>4, <1>5 DEF Verifies, ChainFollows, NonBlank
<1>7. lines[i] = LineOf(lines[i][1].event) /\ j \in {1, 2}
  BY <1>2, <1>3, <1>6 DEF IsEventLine
<1>8. j = 1
  BY <1>2, <1>7 DEF LineOf, HeadOf
<1> QED
  BY <1>2, <1>7, <1>8 DEF HeadOf

LEMMA RecordInvariant == Spec => []RecordInv
<1>1. Init => RecordInv
  BY InitType, OnceInit, IssuedInit, DurabilityInit DEF RecordInv
<1>2. RecordInv /\ [Next]_vars => RecordInv'
  BY NextType, OnceNext, IssuedNext, DurabilityNext DEF RecordInv
<1> QED
  BY <1>1, <1>2, PTL DEF Spec

(***************************************************************************)
(* Under every fault, and with or without the file lock, a journal that    *)
(* verifies holds every event append_event or append_checkpoint has        *)
(* returned since the file's name is on disk: what was acknowledged is     *)
(* either there or missed.                                                 *)
(***************************************************************************)
THEOREM NothingSilentlyLost == Spec => []VerifiedMeansComplete
<1>1. RecordInv => VerifiedMeansComplete
  BY VerifiedText DEF RecordInv, DurabilityInv, Gone, VerifiedMeansComplete, OnFile
<1> QED
  BY <1>1, RecordInvariant, PTL

(***************************************************************************)
(* Under every fault, with or without the file lock: what a journal that   *)
(* verifies lacks of the returned events, it lost as a whole file.         *)
(***************************************************************************)
THEOREM WhatIsLostIsWhole == Spec => []LossIsWhole
<1>1. RecordInv => LossIsWhole
  <2> SUFFICES ASSUME RecordInv, Verifies, NEW e \in acked, ~OnFile(e),
                      NEW i \in NonBlank(lines)
               PROVE  lines[i][1].event.hash # e.prev
    BY DEF LossIsWhole
  <2>1. TypeOK /\ lines \in Seq(Line) /\ partial \in Line
    BY DEF RecordInv, TypeOK
  <2>2. i \in DOMAIN FileLines /\ FileLines[i] = lines[i] /\ lines[i] # <<>>
    BY <2>1 DEF FileLines, NonBlank
  <2>3. lines[i] = LineOf(lines[i][1].event)
    BY <2>2 DEF Verifies, ChainFollows, NonBlank, IsEventLine
  <2>4. 1 \in DOMAIN lines[i] /\ lines[i][1].part = "head"
    BY <2>3 DEF LineOf
  <2>5. i \in Heads(FileLines, lines[i][1].event.hash)
    BY <2>2, <2>4 DEF Heads, HeadIn, IsHeadOf
  <2>6. Heads(FileLines, e.prev) = {}
    BY <2>1, VerifiedText DEF RecordInv, DurabilityInv, Gone, OnFile
  <2> QED
    BY <2>5, <2>6
<1> QED
  BY <1>1, RecordInvariant, PTL

-----------------------------------------------------------------------------
(* Files of whole lines. *)

(* What append_event reads at the end of a file of n events, with or without
   an unterminated blank, and how many lines append_checkpoint counts. *)
LEMMA WholeLines ==
  ASSUME NEW ls \in Seq(Line), NEW n \in 0..Len(ls),
         \A i \in 1..n : ls[i] = LineOf(ls[i][1].event),
         \A i \in DOMAIN ls : i > n => ls[i] = <<>>
  PROVE  /\ NonBlank(ls) = 1..n
         /\ Cardinality(NonBlank(ls)) = n
         /\ \A i \in 1..n : IsEventLine(ls[i])
         /\ TailHashes(ls) = IF n = 0 THEN {None} ELSE {ls[n][1].event.hash}
<1>0. n \in Nat /\ Len(ls) \in Nat
  OBVIOUS
<1>1. ASSUME NEW i \in 1..n PROVE IsEventLine(ls[i])
  <2>1. Len(LineOf(ls[i][1].event)) = 2
    BY DEF LineOf
  <2> QED
    BY <2>1 DEF IsEventLine
<1>2. NonBlank(ls) = 1..n
  <2>1. ASSUME NEW i \in 1..n PROVE i \in NonBlank(ls)
    BY <1>1 DEF NonBlank, IsEventLine
  <2>2. ASSUME NEW i \in NonBlank(ls) PROVE i \in 1..n
    BY DEF NonBlank
  <2> QED
    BY <2>1, <2>2
<1>3. Cardinality(1..n) = n
  BY FS_Interval
<1>4. CASE n = 0
  BY <1>1, <1>2, <1>3, <1>4 DEF TailHashes
<1>5. CASE n > 0
  <2>0. n \in 1..n
    BY <1>0, <1>5
  <2>1. LastNonBlank(ls) = {n}
    <3>1. \A i \in 1..n : (\A j \in 1..n : j <= i) <=> i = n
      BY <1>0, <2>0
    <3> QED
      BY <1>2, <2>0, <3>1 DEF LastNonBlank
  <2>2. {k \in LastNonBlank(ls) : IsEventLine(ls[k])} = {n}
    BY <1>1, <2>0, <2>1
  <2>3. TailHashes(ls) = {ls[n][1].event.hash}
    <3>1. NonBlank(ls) # {}
      BY <1>2, <2>0
    <3> QED
      BY <2>2, <3>1 DEF TailHashes
  <2> QED
    BY <1>1, <1>2, <1>3, <1>5, <2>3
<1> QED
  BY <1>4, <1>5

(* The file as it is, and its prefixes. *)
LEMMA FileIsWhole ==
  ASSUME TypeOK, FileInv
  PROVE  /\ NonBlank(FileLines) = DOMAIN lines
         /\ Cardinality(NonBlank(FileLines)) = Len(lines)
         /\ TailHashes(FileLines) = {LastHash}
<1>1. lines \in Seq(Line) /\ FileLines = Append(lines, <<>>) /\ <<>> \in Line
  BY DEF TypeOK, FileInv, FileLines, Line
<1>2. /\ FileLines \in Seq(Line)
      /\ Len(lines) \in 0..Len(FileLines)
      /\ DOMAIN lines = 1..Len(lines)
      /\ \A i \in 1..Len(lines) : FileLines[i] = lines[i]
      /\ \A i \in DOMAIN FileLines : i > Len(lines) => FileLines[i] = <<>>
  BY <1>1
<1>3. \A i \in 1..Len(lines) : lines[i] = LineOf(lines[i][1].event)
  BY <1>2 DEF FileInv
<1>4. lines = <<>> <=> Len(lines) = 0
  BY <1>1
<1>5. \A i \in 1..Len(lines) : FileLines[i] = LineOf(FileLines[i][1].event)
  BY <1>2, <1>3
<1>6. /\ NonBlank(FileLines) = 1..Len(lines)
      /\ Cardinality(NonBlank(FileLines)) = Len(lines)
      /\ TailHashes(FileLines) = IF Len(lines) = 0
                                  THEN {None}
                                  ELSE {FileLines[Len(lines)][1].event.hash}
  BY <1>2, <1>5, WholeLines
<1> QED
  BY <1>2, <1>4, <1>6 DEF LastHash

LEMMA PrefixIsWhole ==
  ASSUME TypeOK, FileInv, NEW ls \in {lines, FileLines}, NEW i \in DOMAIN lines
  PROVE  /\ Cardinality(NonBlank(SubSeq(ls, 1, i - 1))) = i - 1
         /\ lines[i][1].event.prev \in TailHashes(SubSeq(ls, 1, i - 1))
<1> DEFINE prefix == SubSeq(ls, 1, i - 1)
<1>1. lines \in Seq(Line) /\ FileLines = Append(lines, partial) /\ partial \in Line
  BY DEF TypeOK, FileLines
<1>2. /\ i \in 1..Len(lines)
      /\ prefix \in Seq(Line)
      /\ Len(prefix) = i - 1
      /\ \A k \in 1..(i - 1) : prefix[k] = lines[k]
  <2>1. /\ i \in 1..Len(lines)
        /\ ls \in Seq(Line) /\ Len(lines) <= Len(ls)
        /\ \A k \in 1..(i - 1) : ls[k] = lines[k]
    BY <1>1
  <2>2. i - 1 \in 0..Len(ls)
    BY <2>1
  <2> QED
    BY <2>1, <2>2
<1>3. \A k \in 1..(i - 1) : prefix[k] = LineOf(prefix[k][1].event)
  BY <1>2 DEF FileInv
<1> HIDE DEF prefix
<1>4. /\ i - 1 \in 0..Len(prefix)
      /\ \A k \in DOMAIN prefix : k > i - 1 => prefix[k] = <<>>
  BY <1>2
<1>5. /\ Cardinality(NonBlank(prefix)) = i - 1
      /\ TailHashes(prefix) = IF i - 1 = 0
                               THEN {None}
                               ELSE {prefix[i - 1][1].event.hash}
  BY <1>2, <1>3, <1>4, WholeLines
<1>6. lines[i][1].event.prev = IF i = 1 THEN None ELSE lines[i - 1][1].event.hash
  BY DEF FileInv
<1> QED
  BY <1>2, <1>5, <1>6 DEF prefix

LEMMA WholeFileVerifies == TypeOK /\ FileInv => ChainIntact
<1> SUFFICES ASSUME TypeOK, FileInv, NEW i \in NonBlank(FileLines)
             PROVE  /\ IsEventLine(FileLines[i])
                    /\ FileLines[i][1].event.prev
                         \in TailHashes(SubSeq(FileLines, 1, i - 1))
  BY DEF ChainIntact, Verifies, ChainFollows
<1>1. i \in DOMAIN lines
  BY FileIsWhole
<1>2. FileLines[i] = lines[i]
  BY <1>1 DEF FileLines, TypeOK
<1>3. IsEventLine(lines[i])
  BY <1>1 DEF FileInv, IsEventLine, LineOf
<1> QED
  BY <1>1, <1>2, <1>3, PrefixIsWhole

LEMMA WholeFileCounts == TypeOK /\ FileInv => CheckpointCoversPrefix
<1> SUFFICES ASSUME TypeOK, FileInv, NEW i \in DOMAIN lines,
                    lines[i][1].event.kind = "checkpoint"
             PROVE  lines[i][1].event.count
                      = Cardinality(NonBlank(SubSeq(lines, 1, i - 1)))
  BY DEF CheckpointCoversPrefix
<1> QED
  BY PrefixIsWhole DEF FileInv

-----------------------------------------------------------------------------
(* The locks. *)

LEMMA LockInit == Init => LockInv
  BY DEF Init, LockInv

LEMMA LockNext == TypeOK /\ LockInv /\ [Next]_vars => LockInv'
<1> SUFFICES ASSUME TypeOK, LockInv, [Next]_vars, NEW v \in Writers
             PROVE  /\ pc'[v] \notin {"idle", "thread_lock"}
                         => threadLock'[ThreadLockOf[v]] = v
                    /\ pc'[v] \in {"count", "read", "build", "flush", "fsync", "unlock"}
                         /\ HasFileLock => fileLock' = v
  BY DEF LockInv
<1>0. /\ pc \in [Writers -> PCs]
      /\ threadLock \in [ThreadLocks -> Writers \cup {None}]
      /\ ThreadLockOf \in [Writers -> ThreadLocks]
      /\ None \notin Writers
  BY JournalAssumption DEF TypeOK
<1> USE DEF LockInv, PCs
<1>1. ASSUME NEW w \in Writers, Step(w)
      PROVE  /\ pc'[v] \notin {"idle", "thread_lock"}
                  => threadLock'[ThreadLockOf[v]] = v
             /\ pc'[v] \in {"count", "read", "build", "flush", "fsync", "unlock"}
                  /\ HasFileLock => fileLock' = v
  <2>1. CASE AcquireThreadLock(w)
    BY <1>0, <2>1 DEF AcquireThreadLock, Goto
  <2>2. CASE OpenAndLock(w)
    BY <1>0, <2>2 DEF OpenAndLock, Goto
  <2>3. CASE OpenFails(w)
    BY <1>0, <2>3 DEF OpenFails, Goto
  <2>4. CASE Unlock(w)
    BY <1>0, <2>4 DEF Unlock, Goto
  <2>5. CASE Close(w)
    <3>1. /\ pc[w] = "close" /\ pc' = [pc EXCEPT ![w] = "idle"]
          /\ threadLock' = [threadLock EXCEPT ![ThreadLockOf[w]] = None]
          /\ fileLock' = fileLock
      BY <2>5 DEF Close, Goto
    <3> QED
      BY <1>0, <3>1
  <2>6. CASE ~( \/ AcquireThreadLock(w) \/ OpenAndLock(w) \/ OpenFails(w)
                \/ Unlock(w) \/ Close(w) )
    <3>1. /\ UNCHANGED <<threadLock, fileLock>>
          /\ pc[w] \in {"count", "read", "build", "flush", "fsync"}
          /\ \E to \in PCs : pc' = [pc EXCEPT ![w] = to]
      BY <1>1, <2>6 DEF Step, Proceed, Fail, CountLines, ReadTail, TailRefused, Build,
         FailBeforeWrite, Flush, FlushFails, Fsync, FsyncFails, Goto, lockVars
    <3> QED
      BY <1>0, <3>1
  <2> QED
    BY <2>1, <2>2, <2>3, <2>4, <2>5, <2>6
<1>2. CASE \E w \in Writers, k \in Kinds : Begin(w, k)
  BY <1>0, <1>2 DEF Begin, Goto, lockVars
<1>3. ASSUME NEW ps, Die(ps)
      PROVE  /\ pc'[v] \notin {"idle", "thread_lock"}
                  => threadLock'[ThreadLockOf[v]] = v
             /\ pc'[v] \in {"count", "read", "build", "flush", "fsync", "unlock"}
                  /\ HasFileLock => fileLock' = v
  BY <1>0, <1>3 DEF Die
<1>4. CASE UNCHANGED vars
  BY <1>4 DEF vars
<1> QED
  BY <1>1, <1>2, <1>3, <1>4 DEF Next, Kill, PowerLoss, NewFileLost, Terminating

(* Serialized writers are never two inside the locks. *)
LEMMA Exclusion ==
  ASSUME LockInv, Serialized, NEW v \in Writers, NEW w \in Writers,
         pc[v] \in {"count", "read", "build", "flush", "fsync", "unlock"},
         pc[w] \in {"count", "read", "build", "flush", "fsync", "unlock"}
  PROVE  v = w
  BY DEF LockInv, Serialized

-----------------------------------------------------------------------------
(* The chain. *)

LEMMA ChainInit == Init => FileInv /\ DraftInv
  BY DEF Init, FileInv, DraftInv, WriterLinked

(* A flush adds the event the writer has linked to the tail. *)
LEMMA FlushExtends ==
  ASSUME TypeOK, FileInv, DraftInv, DurabilityInv, NEW w \in Writers, Flush(w)
  PROVE  /\ lines' = Append(lines, LineOf(draft[w]))
         /\ partial' = <<>>
         /\ FileInv'
<1>1. pc[w] = "flush" /\ unwritten[w] = 3 /\ Put(w, 3)
  BY DEF Flush, Goto, DurabilityInv, WriterDurable
<1>2. draft[w] \in Event /\ lines \in Seq(Line) /\ partial = <<>>
  BY DEF TypeOK, FileInv
<1>3. /\ LineOf(draft[w]) \in Line
      /\ LineOf(draft[w])[1].event = draft[w]
      /\ <<>> \o SubSeq(LineOf(draft[w]), 1, 2) = LineOf(draft[w])
  <2> DEFINE text == LineOf(draft[w])
  <2>1. text \in Seq(Fragment) /\ Len(text) = 2 /\ text[1] = HeadOf(draft[w])
    BY <1>2, LineOfType DEF Line
  <2> HIDE DEF text
  <2>2. SubSeq(text, 1, 2) = text /\ <<>> \o text = text
    BY <2>1
  <2> QED
    BY <2>1, <2>2 DEF text, Line, HeadOf
<1>4. lines' = Append(lines, LineOf(draft[w])) /\ partial' = <<>>
  BY <1>1, <1>2, <1>3 DEF Put
<1>5. /\ draft[w].prev = LastHash
      /\ draft[w].count = IF draft[w].kind = "checkpoint" THEN Len(lines) ELSE 0
  BY <1>1, <1>2 DEF DraftInv, WriterLinked, Event, Kinds
<1>6. ASSUME NEW i \in DOMAIN lines'
      PROVE  /\ lines'[i] = LineOf(lines'[i][1].event)
             /\ lines'[i][1].event.prev
                  = IF i = 1 THEN None ELSE lines'[i - 1][1].event.hash
             /\ lines'[i][1].event.count
                  = IF lines'[i][1].event.kind = "checkpoint" THEN i - 1 ELSE 0
  <2> HIDE DEF LineOf
  <2>1. CASE i \in DOMAIN lines
    <3>1. /\ lines'[i] = lines[i]
          /\ i # 1 => lines'[i - 1] = lines[i - 1]
      BY <1>2, <1>3, <1>4, <2>1
    <3> QED
      BY <2>1, <3>1 DEF FileInv
  <2>2. CASE i = Len(lines) + 1
    <3>1. /\ lines'[i] = LineOf(draft[w])
          /\ i - 1 = Len(lines)
          /\ i = 1 <=> lines = <<>>
          /\ i # 1 => lines'[i - 1] = lines[Len(lines)]
      BY <1>2, <1>3, <1>4, <2>2
    <3> QED
      BY <1>3, <1>5, <3>1 DEF LastHash
  <2> QED
    BY <1>2, <1>3, <1>4, <2>1, <2>2
<1> QED
  BY <1>4, <1>6 DEF FileInv

(* A power loss leaves a prefix of whole lines. *)
LEMMA PowerLossKeepsFile ==
  ASSUME TypeOK, FileInv, WholeWrites, PowerLoss
  PROVE  FileInv'
<1>1. PICK k \in synced..Len(lines) :
        /\ lines' = SubSeq(lines, 1, k)
        /\ \E j \in {0} : partial' = SubSeq(FileLines[k + 1], 1, j)
  BY DEF PowerLoss, WholeWrites
<1>2. lines \in Seq(Line) /\ k \in 0..Len(lines) /\ FileLines \in Seq(Line)
  BY FileLinesType DEF TypeOK
<1>3. FileLines[k + 1] \in Seq(Fragment)
  BY <1>2 DEF FileLines, TypeOK, Line
<1>4. partial' = <<>>
  BY <1>1, <1>3
<1>5. ASSUME NEW i \in DOMAIN lines'
      PROVE  /\ i \in DOMAIN lines /\ lines'[i] = lines[i]
             /\ i # 1 => lines'[i - 1] = lines[i - 1]
  BY <1>1, <1>2
<1> QED
  BY <1>4, <1>5 DEF FileInv

LEMMA FileNext ==
  TypeOK /\ FileInv /\ DraftInv /\ DurabilityInv /\ WholeWrites /\ [Next]_vars => FileInv'
<1> SUFFICES ASSUME TypeOK, FileInv, DraftInv, DurabilityInv, WholeWrites, [Next]_vars
             PROVE  FileInv'
  OBVIOUS
<1>1. CASE UNCHANGED <<lines, partial>>
  BY <1>1 DEF FileInv
<1>2. ASSUME NEW w \in Writers, Flush(w) PROVE FileInv'
  BY <1>2, FlushExtends
<1>3. ASSUME NEW w \in Writers, FlushFails(w) PROVE FALSE
  BY <1>3 DEF FlushFails, ShortWrites, WholeWrites
<1>4. ASSUME NEW w \in Writers, Close(w) PROVE UNCHANGED <<lines, partial>>
  <2>1. unwritten[w] = 0
    BY <1>4 DEF Close, Goto, DraftInv, WriterLinked
  <2>2. Put(w, 0)
    BY <1>4, <2>1 DEF Close, ShortWrites, WholeWrites
  <2>3. partial = <<>> /\ draft[w] \in Event
    BY DEF FileInv, TypeOK
  <2>4. LineOf(draft[w]) \in Seq(Fragment) /\ Len(LineOf(draft[w])) = 2
    BY <2>3, LineOfType DEF Line
  <2> HIDE DEF LineOf
  <2>5. <<>> \o SubSeq(LineOf(draft[w]), 4, 3) = <<>>
    BY <2>4
  <2> QED
    BY <2>1, <2>2, <2>3, <2>5 DEF Put
<1>5. ASSUME NEW w \in Writers, Step(w) PROVE FileInv'
  <2>1. \/ Flush(w) \/ FlushFails(w) \/ Close(w)
        \/ UNCHANGED <<lines, partial>>
    BY <1>5 DEF Step, Proceed, Fail, AcquireThreadLock, OpenAndLock, OpenFails, CountLines,
       ReadTail, TailRefused, Build, FailBeforeWrite, Fsync, FsyncFails, Unlock,
       diskVars
  <2> QED
    BY <1>1, <1>2, <1>3, <1>4, <2>1
<1>6. CASE \E w \in Writers, k \in Kinds : Begin(w, k)
  BY <1>1, <1>6 DEF Begin, diskVars
<1>7. CASE \E p \in Processes : Kill(p)
  BY <1>1, <1>7 DEF Kill, diskVars
<1>8. CASE PowerLoss
  BY <1>8, PowerLossKeepsFile
<1>9. CASE NewFileLost
  BY <1>9 DEF NewFileLost, FileInv
<1> QED
  BY <1>1, <1>5, <1>6, <1>7, <1>8, <1>9 DEF Next, Terminating, vars

(* Outside a flush and a power loss nothing changes in the file. *)
LEMMA LinesStay ==
  ASSUME TypeOK, FileInv, DraftInv, WholeWrites, NEW w \in Writers,
         Step(w) \/ \E k \in Kinds : Begin(w, k), ~Flush(w)
  PROVE  UNCHANGED lines
<1>1. ASSUME Close(w) PROVE UNCHANGED lines
  <2>1. unwritten[w] = 0
    BY <1>1 DEF Close, Goto, DraftInv, WriterLinked
  <2> QED
    BY <1>1, <2>1 DEF Close, ShortWrites, WholeWrites, Put
<1>2. ASSUME FlushFails(w) PROVE FALSE
  BY <1>2 DEF FlushFails, ShortWrites, WholeWrites
<1> QED
  BY <1>1, <1>2 DEF Step, Proceed, Fail, Begin, AcquireThreadLock, OpenAndLock, OpenFails,
     CountLines, ReadTail, TailRefused, Build, FailBeforeWrite, Fsync, FsyncFails,
     Unlock, diskVars

(* A step of w keeps what the other writers have read up to date. *)
LEMMA OthersLinked ==
  ASSUME TypeOK, LockInv, FileInv, DraftInv, WholeWrites, Serialized,
         NEW w \in Writers, Step(w) \/ \E k \in Kinds : Begin(w, k),
         NEW v \in Writers \ {w}
  PROVE  WriterLinked(v)'
<1>1. WriterLinked(v)
  BY DEF DraftInv
<1>2. UNCHANGED <<pc[v], draft[v], unwritten[v]>>
  BY StepFrame
<1>3. CASE Flush(w)
  <2>1. pc[v] \notin {"read", "build", "flush"}
    BY <1>3, Exclusion DEF Flush, Goto
  <2> QED
    BY <1>1, <1>2, <2>1 DEF WriterLinked
<1>4. CASE ~Flush(w)
  <2>1. lines' = lines
    BY <1>4, LinesStay
  <2>2. LastHash' = LastHash
    BY <2>1 DEF LastHash
  <2> QED
    BY <1>1, <1>2, <2>1, <2>2 DEF WriterLinked
<1> QED
  BY <1>3, <1>4

LEMMA StepLinks ==
  ASSUME TypeOK, FileInv, DraftInv, WholeWrites, NEW w \in Writers, Step(w)
  PROVE  WriterLinked(w)'
<1>0. /\ WriterLinked(w) /\ draft[w] \in Event /\ pc[w] \in PCs
      /\ unwritten[w] \in 0..3
  BY DEF DraftInv, TypeOK
<1>1. ASSUME ~Flush(w) PROVE lines' = lines /\ LastHash' = LastHash
  BY <1>1, LinesStay DEF LastHash
<1>2. CASE CountLines(w)
  <2>1. /\ pc'[w] = "read" /\ unwritten' = unwritten /\ lines' = lines
        /\ draft'[w] = [draft[w] EXCEPT !.count = Len(lines)]
    BY <1>2, FileIsWhole DEF CountLines, Goto, TypeOK, diskVars
  <2>2. pc[w] = "count"
    BY <1>2 DEF CountLines, Goto
  <2>3. draft[w].kind = "checkpoint"
    BY <1>0, <2>2 DEF WriterLinked
  <2> QED
    BY <1>0, <2>1, <2>2, <2>3 DEF WriterLinked, Event
<1>3. CASE ReadTail(w)
  <2>1. /\ pc[w] = "read" /\ pc'[w] = "build"
        /\ unwritten' = unwritten /\ lines' = lines
        /\ draft'[w] = [draft[w] EXCEPT !.prev = LastHash]
    BY <1>3, FileIsWhole DEF ReadTail, Goto, TypeOK, diskVars
  <2> QED
    BY <1>0, <1>1, <1>3, <2>1 DEF WriterLinked, Event, LastHash
<1>4. CASE OpenAndLock(w)
  <2>1. /\ pc[w] = "open"
        /\ pc'[w] = IF draft[w].kind = "checkpoint" THEN "count" ELSE "read"
        /\ UNCHANGED <<draft, unwritten, lines>>
    BY <1>4 DEF OpenAndLock, Goto, TypeOK, diskVars
  <2> QED
    BY <1>0, <2>1 DEF WriterLinked
<1>5. CASE Build(w)
  <2>1. /\ pc[w] = "build" /\ pc'[w] = "flush"
        /\ UNCHANGED <<draft, lines>>
    BY <1>5 DEF Build, Goto, TypeOK, diskVars
  <2> QED
    BY <1>0, <2>1 DEF WriterLinked, LastHash
<1>6. CASE Flush(w) \/ Close(w)
  <2>1. /\ pc'[w] \in {"fsync", "idle"} /\ unwritten'[w] = 0
        /\ UNCHANGED draft
    BY <1>6 DEF Flush, Close, Goto, TypeOK
  <2> QED
    BY <1>0, <2>1 DEF WriterLinked
<1>7. CASE ~( \/ CountLines(w) \/ ReadTail(w) \/ OpenAndLock(w)
              \/ Build(w) \/ Flush(w) \/ Close(w) )
  <2>1. /\ pc[w] # "flush"
        /\ pc'[w] \in {"open", "idle", "unlock", "close"}
        /\ UNCHANGED <<draft, unwritten>>
    BY <1>7 DEF Step, Proceed, Fail, AcquireThreadLock, OpenFails, TailRefused,
       FailBeforeWrite, FlushFails, Fsync, FsyncFails, Unlock, Goto, TypeOK,
       ShortWrites, WholeWrites
  <2> QED
    BY <1>0, <2>1 DEF WriterLinked
<1> QED
  BY <1>2, <1>3, <1>4, <1>5, <1>6, <1>7

LEMMA DraftNext ==
  /\ TypeOK /\ LockInv /\ FileInv /\ DraftInv
  /\ WholeWrites /\ Serialized /\ [Next]_vars
  => DraftInv'
<1> SUFFICES ASSUME TypeOK, LockInv, FileInv, DraftInv, WholeWrites, Serialized,
                    [Next]_vars
             PROVE  DraftInv'
  OBVIOUS
<1>1. ASSUME NEW w \in Writers, Step(w) PROVE DraftInv'
  BY <1>1, OthersLinked, StepLinks DEF DraftInv
<1>2. ASSUME NEW w \in Writers, NEW k \in Kinds, Begin(w, k) PROVE DraftInv'
  <2>1. /\ pc[w] = "idle" /\ pc'[w] = "thread_lock" /\ unwritten' = unwritten
        /\ draft'[w].count = 0
    BY <1>2 DEF Begin, Goto, TypeOK
  <2>2. WriterLinked(w)'
    BY <2>1 DEF DraftInv, WriterLinked
  <2> QED
    BY <1>2, <2>2, OthersLinked DEF DraftInv
<1>3. ASSUME NEW p \in Processes, Kill(p) PROVE DraftInv'
  <2> SUFFICES ASSUME NEW w \in Writers PROVE WriterLinked(w)'
    BY DEF DraftInv
  <2>1. WriterLinked(w)
    BY DEF DraftInv
  <2>2. UNCHANGED <<lines, draft>> /\ LastHash' = LastHash
    BY <1>3 DEF Kill, Die, diskVars, LastHash
  <2>3. \/ pc'[w] = "idle" /\ unwritten'[w] = 0
        \/ UNCHANGED <<pc[w], unwritten[w]>>
    BY <1>3 DEF Kill, Die
  <2> QED
    BY <2>1, <2>2, <2>3 DEF WriterLinked
<1>4. CASE PowerLoss \/ NewFileLost
  <2> SUFFICES ASSUME NEW w \in Writers PROVE WriterLinked(w)'
    BY DEF DraftInv
  <2>1. draft' = draft /\ pc'[w] = "idle" /\ unwritten'[w] = 0
    BY <1>4, JournalAssumption DEF PowerLoss, NewFileLost, Die
  <2> QED
    BY <2>1 DEF DraftInv, WriterLinked
<1>5. CASE UNCHANGED vars
  BY <1>5 DEF vars, DraftInv, WriterLinked, LastHash
<1> QED
  BY <1>1, <1>2, <1>3, <1>4, <1>5 DEF Next, Terminating

-----------------------------------------------------------------------------
JournalInv == RecordInv /\ ChainInv

LEMMA JournalInvariant ==
  ASSUME Serialized, WholeWrites
  PROVE  Spec => []JournalInv
<1>1. Init => LockInv /\ FileInv /\ DraftInv
  BY LockInit, ChainInit
<1>2. RecordInv /\ ChainInv /\ [Next]_vars => ChainInv'
  BY LockNext, FileNext, DraftNext DEF RecordInv, ChainInv
<1> QED
  BY <1>1, <1>2, RecordInvariant, PTL DEF Spec, JournalInv, ChainInv

(***************************************************************************)
(* Serialized by the file lock, or by one in-process lock, writers whose   *)
(* writes are whole keep the file a verifiable chain at every moment.      *)
(***************************************************************************)
THEOREM ChainStaysIntact ==
  ASSUME Serialized, WholeWrites
  PROVE  Spec => []ChainIntact
<1>1. JournalInv => ChainIntact
  BY WholeFileVerifies DEF JournalInv, RecordInv, ChainInv
<1> QED
  BY <1>1, JournalInvariant, PTL

(***************************************************************************)
(* Under the same conditions every checkpoint in the file commits to       *)
(* exactly the events in front of it.                                      *)
(***************************************************************************)
THEOREM CheckpointsCount ==
  ASSUME Serialized, WholeWrites
  PROVE  Spec => []CheckpointCoversPrefix
<1>1. JournalInv => CheckpointCoversPrefix
  BY WholeFileCounts DEF JournalInv, RecordInv, ChainInv
<1> QED
  BY <1>1, JournalInvariant, PTL

-----------------------------------------------------------------------------
(* The file as a log. *)

LEMMA FreshInit == Init => FreshInv
  BY DEF Init, FreshInv, WriterFresh

(* As long as the events in the file stay or disappear, and w is not given
   a new event, its events remain fresh. *)
LEMMA FreshStays ==
  ASSUME TypeOK, FreshInv, NEW w \in Writers,
         \A i \in DOMAIN lines' : i \in DOMAIN lines /\ lines'[i] = lines[i],
         UNCHANGED <<attempts[w], draft[w].hash>>,
         \/ pc'[w] \in {"idle", pc[w]}
         \/ pc'[w] \in {"fsync", "unlock", "close"} /\ pc[w] # "idle"
         \/ pc[w] \in {"thread_lock", "open", "count", "read", "build", "flush"}
  PROVE  WriterFresh(w)'
<1>1. WriterFresh(w)
  BY DEF FreshInv
<1> QED
  BY <1>1 DEF WriterFresh

LEMMA FreshNext ==
  ASSUME TypeOK, FileInv, DraftInv, DurabilityInv, FreshInv, WholeWrites, [Next]_vars
  PROVE  FreshInv'
<1>1. ASSUME NEW w \in Writers, Step(w) PROVE FreshInv'
  <2> SUFFICES ASSUME NEW v \in Writers PROVE WriterFresh(v)'
    BY DEF FreshInv
  <2>0. /\ WriterFresh(v) /\ WriterFresh(w)
        /\ lines \in Seq(Line) /\ draft[w] \in Event
        /\ attempts \in [Writers -> 0..MaxAppends]
    BY DEF FreshInv, TypeOK
  <2>1. CASE Flush(w)
    <3>1. /\ pc[w] = "flush" /\ pc' = [pc EXCEPT ![w] = "fsync"]
          /\ UNCHANGED <<attempts, draft>>
      BY <2>1 DEF Flush, Goto
    <3>2. lines' = Append(lines, LineOf(draft[w]))
      BY <2>1, FlushExtends
    <3>3. LineOf(draft[w]) \in Line /\ LineOf(draft[w])[1].event = draft[w]
      <4>1. LineOf(draft[w]) \in Line /\ LineOf(draft[w])[1] = HeadOf(draft[w])
        BY <2>0, LineOfType
      <4> QED
        BY <4>1 DEF HeadOf
    <3>4. draft[w].hash = <<w, attempts[w]>>
      BY <2>0, <3>1 DEF WriterFresh
    <3>5. pc'[w] = "fsync" /\ \A u \in Writers \ {w} : pc'[u] = pc[u]
      BY <3>1 DEF TypeOK
    <3>6. ASSUME NEW i \in DOMAIN lines', NEW n \in 1..MaxAppends,
                 lines'[i][1].event.hash = <<v, n>>
          PROVE  /\ n <= attempts[v]
                 /\ pc'[v] \in {"thread_lock", "open", "count", "read", "build", "flush"}
                      => n < attempts[v]
      <4>1. CASE i \in DOMAIN lines
        <5>1. lines'[i] = lines[i]
          BY <2>0, <3>2, <3>3, <4>1
        <5> QED
          BY <2>0, <3>1, <3>5, <3>6, <4>1, <5>1 DEF WriterFresh
      <4>2. CASE i = Len(lines) + 1
        <5>1. lines'[i] = LineOf(draft[w])
          BY <2>0, <3>2, <3>3, <4>2
        <5>2. v = w /\ n = attempts[w]
          BY <3>3, <3>4, <3>6, <5>1
        <5> QED
          BY <2>0, <3>5, <5>2
      <4> QED
        BY <2>0, <3>2, <3>3, <4>1, <4>2
    <3> QED
      BY <2>0, <3>1, <3>5, <3>6 DEF WriterFresh
  <2>2. CASE ~Flush(w)
    <3>1. lines' = lines
      BY <1>1, <2>2, LinesStay
    <3>2. CASE v # w
      <4>1. UNCHANGED <<pc[v], draft[v]>>
        BY <1>1, <3>2, StepFrame
      <4>2. attempts' = attempts
        BY <1>1 DEF Step, Proceed, Fail, AcquireThreadLock, OpenAndLock, OpenFails, CountLines,
           ReadTail, TailRefused, Build, FailBeforeWrite, Flush, FlushFails,
           Fsync, FsyncFails, Unlock, Close
      <4> QED
        BY <3>1, <4>1, <4>2, FreshStays
    <3>3. CASE v = w
      <4>1. attempts' = attempts
        BY <1>1 DEF Step, Proceed, Fail, AcquireThreadLock, OpenAndLock, OpenFails, CountLines,
           ReadTail, TailRefused, Build, FailBeforeWrite, Flush, FlushFails,
           Fsync, FsyncFails, Unlock, Close
      <4>2. draft'[w].hash = draft[w].hash
        <5>1. CASE CountLines(w) \/ ReadTail(w)
          BY <2>0, <5>1 DEF CountLines, ReadTail, TypeOK, Event
        <5>2. CASE ~(CountLines(w) \/ ReadTail(w))
          BY <1>1, <5>2 DEF Step, Proceed, Fail, AcquireThreadLock, OpenAndLock, OpenFails,
             TailRefused, Build, FailBeforeWrite, Flush, FlushFails, Fsync,
             FsyncFails, Unlock, Close
        <5> QED
          BY <5>1, <5>2
      <4>3. \/ pc'[w] = "idle"
            \/ pc'[w] \in {"fsync", "unlock", "close"} /\ pc[w] # "idle"
            \/ pc[w] \in {"thread_lock", "open", "count", "read", "build", "flush"}
        BY <1>1 DEF Step, Proceed, Fail, AcquireThreadLock, OpenAndLock, OpenFails, CountLines,
           ReadTail, TailRefused, Build, FailBeforeWrite, Flush, FlushFails,
           Fsync, FsyncFails, Unlock, Close, Goto, TypeOK
      <4> QED
        BY <3>1, <3>3, <4>1, <4>2, <4>3, FreshStays
    <3> QED
      BY <3>2, <3>3
  <2> QED
    BY <2>1, <2>2
<1>2. ASSUME NEW w \in Writers, NEW k \in Kinds, Begin(w, k) PROVE FreshInv'
  <2> SUFFICES ASSUME NEW v \in Writers PROVE WriterFresh(v)'
    BY DEF FreshInv
  <2>1. /\ WriterFresh(v) /\ attempts[v] \in Nat
    BY JournalAssumption DEF FreshInv, TypeOK
  <2>2. /\ lines' = lines
        /\ attempts'[v] = IF v = w THEN attempts[v] + 1 ELSE attempts[v]
        /\ v = w => draft'[v].hash = <<w, attempts[w] + 1>>
        /\ v # w => UNCHANGED <<pc[v], draft[v]>>
    BY <1>2 DEF Begin, Goto, TypeOK, diskVars
  <2> QED
    BY <2>1, <2>2 DEF WriterFresh
<1>3. ASSUME NEW p \in Processes, Kill(p) PROVE FreshInv'
  <2> SUFFICES ASSUME NEW v \in Writers PROVE WriterFresh(v)'
    BY DEF FreshInv
  <2>1. /\ UNCHANGED <<lines, attempts, draft>>
        /\ pc'[v] = "idle" \/ pc'[v] = pc[v]
    BY <1>3 DEF Kill, Die, diskVars
  <2> QED
    BY <2>1, FreshStays
<1>4. CASE PowerLoss
  <2> SUFFICES ASSUME NEW v \in Writers PROVE WriterFresh(v)'
    BY DEF FreshInv
  <2>1. /\ UNCHANGED <<attempts, draft>>
        /\ pc'[v] = "idle"
    BY <1>4, JournalAssumption DEF PowerLoss, Die
  <2>2. PICK k \in synced..Len(lines) : lines' = SubSeq(lines, 1, k)
    BY <1>4 DEF PowerLoss
  <2>3. \A i \in DOMAIN lines' : i \in DOMAIN lines /\ lines'[i] = lines[i]
    BY <2>2 DEF TypeOK
  <2> QED
    BY <2>1, <2>3, FreshStays
<1>5. CASE NewFileLost
  BY <1>5, JournalAssumption DEF NewFileLost, Die, FreshInv, WriterFresh
<1>6. CASE UNCHANGED vars
  BY <1>6 DEF vars, FreshInv, WriterFresh
<1> QED
  BY <1>1, <1>2, <1>3, <1>4, <1>5, <1>6 DEF Next, Terminating

LEMMA EventsType ==
  ASSUME TypeOK
  PROVE  /\ EventsOnLines \in Seq({lines[i][1].event : i \in DOMAIN lines})
         /\ Len(EventsOnLines) = Len(lines)
         /\ \A i \in DOMAIN lines : EventsOnLines[i] = lines[i][1].event
<1>1. Len(lines) \in Nat /\ DOMAIN lines = 1..Len(lines)
  BY DEF TypeOK
<1> QED
  BY <1>1 DEF EventsOnLines

LEMMA LogInit == Init => Log!Init
  BY DEF Init, Log!Init, EventsOnLines

(* A flush is an extension of the log. *)
LEMMA FlushIsExtend ==
  ASSUME TypeOK, FileInv, DraftInv, DurabilityInv, FreshInv,
         NEW w \in Writers, Flush(w)
  PROVE  \E h \in Hashes, k \in Kinds : Log!Extend(h, k)
<1> DEFINE d == draft[w]
<1>1. /\ d \in Event /\ lines \in Seq(Line) /\ pc[w] = "flush"
      /\ attempts[w] \in 1..MaxAppends /\ d.hash = <<w, attempts[w]>>
  BY JournalAssumption DEF TypeOK, Flush, Goto, FreshInv, WriterFresh
<1>2. d.hash \in Hashes /\ d.kind \in Kinds
  BY <1>1 DEF Hashes, Event
<1>3. ASSUME NEW i \in DOMAIN EventsOnLines PROVE EventsOnLines[i].hash # d.hash
  BY <1>1 DEF FreshInv, WriterFresh, EventsOnLines
<1>4. lines' = Append(lines, LineOf(d)) /\ LineOf(d) \in Line
  BY <1>1, FlushExtends, LineOfType
<1>5. LineOf(d)[1].event = d
  <2>1. LineOf(d)[1] = HeadOf(d)
    BY <1>1, LineOfType
  <2> QED
    BY <2>1 DEF HeadOf
<1>6. EventsOnLines' = Append(EventsOnLines, d)
  <2> HIDE DEF d
  <2>1. /\ Len(lines) \in Nat /\ DOMAIN lines = 1..Len(lines)
        /\ DOMAIN lines' = 1..(Len(lines) + 1)
        /\ \A i \in 1..Len(lines) : lines'[i] = lines[i]
        /\ lines'[Len(lines) + 1] = LineOf(d)
    BY <1>1, <1>4
  <2> QED
    BY <1>5, <2>1, EventsType DEF EventsOnLines
<1>7. d = [hash |-> d.hash, kind |-> d.kind, prev |-> d.prev, count |-> d.count]
  BY <1>1 DEF Event
<1>8. d.prev = Log!HashOfLast
  <2>1. d.prev = LastHash
    BY <1>1 DEF DraftInv, WriterLinked
  <2>2. EventsOnLines = <<>> <=> lines = <<>>
    BY <1>1, EventsType
  <2>3. lines # <<>> => Len(lines) \in DOMAIN lines
    BY <1>1
  <2> QED
    BY <2>1, <2>2, <2>3, EventsType DEF LastHash, Log!HashOfLast, Log!Last
<1>9. d.count = IF d.kind = "checkpoint" THEN Len(EventsOnLines) ELSE 0
  BY <1>1, <1>2, EventsType DEF DraftInv, WriterLinked, Kinds
<1>10. acked' = acked
  BY DEF Flush
<1> HIDE DEF d
<1> QED
  BY <1>2, <1>3, <1>6, <1>7, <1>8, <1>9, <1>10 DEF Log!Extend

(* An event whose text is in a file of whole lines is in the log. *)
LEMMA TextIsLogged ==
  ASSUME TypeOK, FileInv, NEW e, NEW n \in Nat, TextWithin(lines, e, n)
  PROVE  \E i \in DOMAIN EventsOnLines : i <= n /\ EventsOnLines[i] = e
<1>1. PICK i \in DOMAIN lines :
        i <= n /\ \E j \in DOMAIN lines[i] : lines[i][j] = HeadOf(e)
  BY DEF TextWithin
<1>2. PICK j \in DOMAIN lines[i] : lines[i][j] = HeadOf(e)
  BY <1>1
<1>3. lines[i] = LineOf(lines[i][1].event)
  BY DEF FileInv
<1>4. j \in {1, 2}
  BY <1>2, <1>3 DEF LineOf
<1>5. j = 1
  BY <1>2, <1>3, <1>4 DEF LineOf, HeadOf
<1> QED
  BY <1>1, <1>2, <1>5 DEF HeadOf, EventsOnLines

LEMMA CloseIsAcknowledge ==
  ASSUME TypeOK, FileInv, DraftInv, DurabilityInv, WholeWrites,
         NEW w \in Writers, Close(w)
  PROVE  \/ \E i \in DOMAIN EventsOnLines : Log!Acknowledge(i)
         \/ UNCHANGED <<EventsOnLines, acked>>
<1>1. lines' = lines
  BY LinesStay DEF Step, Proceed, Fail, Close, Flush, Goto
<1>2. EventsOnLines' = EventsOnLines
  BY <1>1 DEF EventsOnLines
<1>3. CASE status[w] = "ok"
  <2>1. TextWithin(lines, draft[w], synced) /\ synced \in Nat
    BY <1>3 DEF Close, Goto, DurabilityInv, WriterDurable, TypeOK
  <2>2. PICK i \in DOMAIN EventsOnLines : EventsOnLines[i] = draft[w]
    BY <2>1, TextIsLogged
  <2>3. acked' = acked \cup {draft[w]}
    BY <1>3 DEF Close
  <2> QED
    BY <1>2, <2>2, <2>3 DEF Log!Acknowledge
<1>4. CASE status[w] # "ok"
  BY <1>2, <1>4 DEF Close
<1> QED
  BY <1>3, <1>4

LEMMA PowerLossIsLoseTail ==
  ASSUME "new" \notin Faults, TypeOK, FileInv, DurabilityInv, PowerLoss
  PROVE  \E n \in 0..Len(EventsOnLines) : Log!LoseTail(n)
<1>1. PICK k \in synced..Len(lines) : lines' = SubSeq(lines, 1, k)
  BY DEF PowerLoss
<1>2. lines \in Seq(Line) /\ synced \in Nat /\ k \in 0..Len(lines)
  BY <1>1 DEF TypeOK
<1>3. k \in 0..Len(EventsOnLines)
  BY <1>2, EventsType
<1>4. ASSUME NEW e \in acked PROVE \E i \in 1..k : EventsOnLines[i] = e
  <2>1. PICK i \in DOMAIN EventsOnLines : i <= synced /\ EventsOnLines[i] = e
    BY <1>2, TextIsLogged DEF DurabilityInv, Gone
  <2>2. i \in 1..k
    BY <1>1, <1>2, <2>1 DEF EventsOnLines
  <2> QED
    BY <2>1, <2>2
<1>5. EventsOnLines' = SubSeq(EventsOnLines, 1, k)
  <2>1. /\ DOMAIN lines' = 1..k /\ DOMAIN lines = 1..Len(lines)
        /\ \A i \in 1..k : lines'[i] = lines[i]
    BY <1>1, <1>2
  <2> QED
    BY <1>2, <2>1, EventsType DEF EventsOnLines
<1>6. acked' = acked
  BY DEF PowerLoss, Die
<1> QED
  BY <1>3, <1>4, <1>5, <1>6 DEF Log!LoseTail

LEMMA StepImplements ==
  ASSUME "new" \notin Faults, JournalInv, FreshInv, WholeWrites, [Next]_vars
  PROVE  [Log!Next]_(Log!vars)
<1> USE DEF JournalInv, RecordInv, ChainInv
<1>1. ASSUME UNCHANGED <<lines, acked>> PROVE UNCHANGED Log!vars
  BY <1>1 DEF Log!vars, EventsOnLines
<1>2. ASSUME NEW w \in Writers, Step(w) PROVE [Log!Next]_(Log!vars)
  <2>1. CASE Flush(w)
    BY <2>1, FlushIsExtend DEF Log!Next
  <2>2. CASE Close(w)
    BY <2>2, CloseIsAcknowledge DEF Log!Next, Log!vars
  <2>3. CASE ~(Flush(w) \/ Close(w))
    <3>1. lines' = lines
      BY <1>2, <2>3, LinesStay
    <3>2. acked' = acked
      BY <1>2, <2>3 DEF Step, Proceed, Fail, AcquireThreadLock, OpenAndLock, OpenFails,
         CountLines, ReadTail, TailRefused, Build, FailBeforeWrite, FlushFails,
         Fsync, FsyncFails, Unlock
    <3> QED
      BY <1>1, <3>1, <3>2
  <2> QED
    BY <2>1, <2>2, <2>3
<1>3. CASE \E w \in Writers, k \in Kinds : Begin(w, k)
  BY <1>1, <1>3 DEF Begin, diskVars
<1>4. CASE \E p \in Processes : Kill(p)
  BY <1>1, <1>4 DEF Kill, Die, diskVars
<1>5. CASE PowerLoss
  BY <1>5, PowerLossIsLoseTail DEF Log!Next
<1> QED
  BY <1>1, <1>2, <1>3, <1>4, <1>5 DEF Next, NewFileLost, Terminating, vars

(***************************************************************************)
(* Serialized writers whose writes are whole, on a file whose name is on   *)
(* disk, implement the abstract log: a flush is Extend, the return of an   *)
(* event is Acknowledge, a power loss is LoseTail, and every other step is *)
(* invisible.                                                              *)
(***************************************************************************)
THEOREM JournalImplementsLog ==
  ASSUME Serialized, WholeWrites, "new" \notin Faults
  PROVE  Spec => ImplementsEvidenceLog
<1>1. Init => FreshInv /\ Log!Init
  BY FreshInit, LogInit
<1>2. JournalInv /\ FreshInv /\ [Next]_vars => FreshInv'
  BY FreshNext DEF JournalInv, RecordInv, ChainInv
<1>3. JournalInv /\ FreshInv /\ [Next]_vars => [Log!Next]_(Log!vars)
  BY StepImplements
<1> QED
  BY <1>1, <1>2, <1>3, JournalInvariant, PTL
     DEF Spec, ImplementsEvidenceLog, Log!Spec

-----------------------------------------------------------------------------
(* What the event on line k of a chain commits to. *)
LEMMA TailIsEarlier ==
  ASSUME NEW ls \in Seq(Line), NEW k \in DOMAIN ls,
         NEW h \in TailHashes(SubSeq(ls, 1, k - 1))
  PROVE  \/ h = None /\ \A m \in 1..(k - 1) : ls[m] = <<>>
         \/ \E m \in 1..(k - 1) :
              m \in Heads(ls, h) /\ \A i \in 1..(k - 1) : ls[i] # <<>> => i <= m
<1> DEFINE prefix == SubSeq(ls, 1, k - 1)
<1>1. /\ prefix \in Seq(Line) /\ DOMAIN prefix = 1..(k - 1)
      /\ \A i \in 1..(k - 1) : prefix[i] = ls[i] /\ i \in DOMAIN ls
  <2>1. k \in 1..Len(ls) /\ k - 1 \in 0..Len(ls)
    OBVIOUS
  <2> QED
    BY <2>1
<1> HIDE DEF prefix
<1>2. CASE NonBlank(prefix) = {}
  BY <1>1, <1>2 DEF TailHashes, NonBlank, prefix
<1>3. CASE NonBlank(prefix) # {}
  <2>1. PICK m \in LastNonBlank(prefix) : IsEventLine(prefix[m]) /\ h = prefix[m][1].event.hash
    BY <1>3 DEF TailHashes, prefix
  <2>2. m \in 1..(k - 1) /\ \A i \in 1..(k - 1) : ls[i] # <<>> => i <= m
    BY <1>1, <2>1 DEF LastNonBlank, NonBlank
  <2>3. prefix[m] = LineOf(prefix[m][1].event)
    BY <2>1 DEF IsEventLine
  <2>4. 1 \in DOMAIN prefix[m] /\ prefix[m][1].part = "head"
    BY <2>3 DEF LineOf
  <2> QED
    BY <1>1, <2>1, <2>2, <2>4 DEF Heads, HeadIn, IsHeadOf
<1> QED
  BY <1>2, <1>3

(* In a file that verifies the later of two events commits to the first, or
   to one after it; the first to one before it. *)
LEMMA NoFork ==
  ASSUME TypeOK, HeadsInv, Verifies, NEW d, NEW e,
         NEW i \in DOMAIN lines, NEW k \in DOMAIN lines, i < k,
         lines[i] = LineOf(d), lines[k] = LineOf(e)
  PROVE  d.prev # e.prev
<1> DEFINE ls == FileLines
<1>1. /\ ls \in Seq(Line) /\ i \in DOMAIN ls /\ k \in DOMAIN ls
      /\ ls[i] = LineOf(d) /\ ls[k] = LineOf(e)
      /\ i \in Nat /\ k \in Nat /\ i \in 1..(k - 1)
  BY FileLinesType DEF FileLines, TypeOK
<1> HIDE DEF ls
<1>2. /\ ls[i] # <<>> /\ ls[k] # <<>>
      /\ ls[i][1].event = d /\ ls[k][1].event = e
  BY <1>1 DEF LineOf
<1>3. /\ d.prev \in TailHashes(SubSeq(ls, 1, i - 1))
      /\ e.prev \in TailHashes(SubSeq(ls, 1, k - 1))
  BY <1>1, <1>2 DEF Verifies, ChainFollows, NonBlank, ls
<1>4. PICK m \in 1..(k - 1) : m \in Heads(ls, e.prev) /\ i <= m
  BY <1>1, <1>2, <1>3, TailIsEarlier
<1>5. \/ d.prev = None
      \/ \E n \in 1..(i - 1) : n \in Heads(ls, d.prev)
  BY <1>1, <1>3, TailIsEarlier
<1>6. SubSeq(ls, 1, k - 1) \in Seq(Line)
  <2>1. k - 1 \in 0..Len(ls)
    BY <1>1
  <2> QED
    BY <1>1, <2>1
<1>7. e.prev \in Hashes \cup {None}
  BY <1>3, <1>6, TailHashesType
<1> SUFFICES ASSUME d.prev = e.prev PROVE FALSE
  OBVIOUS
<1>8. e.prev \in Hashes
  BY <1>4, <1>7 DEF HeadsInv, ls
<1>9. PICK n \in 1..(i - 1) : n \in Heads(ls, e.prev)
  BY <1>5, <1>8, JournalAssumption
<1>10. m = n
  BY <1>4, <1>8, <1>9 DEF HeadsInv, ls
<1> QED
  BY <1>1, <1>4, <1>9, <1>10

(***************************************************************************)
(* Under every fault, with file locks and without: a journal in which two  *)
(* appends that returned, and did not go with a new file, extend the same  *)
(* event does not verify.                                                  *)
(***************************************************************************)
THEOREM ForksNeverVerify == Spec => []ForkIsDetected
<1>1. RecordInv => ForkIsDetected
  <2> SUFFICES ASSUME RecordInv, Verifies,
                      NEW d \in acked \ lost, NEW e \in acked \ lost, d # e
               PROVE  d.prev # e.prev
    BY DEF ForkIsDetected
  <2> USE DEF RecordInv
  <2>1. PICK i \in DOMAIN lines : lines[i] = LineOf(d)
    BY VerifiedText DEF DurabilityInv, Gone
  <2>2. PICK k \in DOMAIN lines : lines[k] = LineOf(e)
    BY VerifiedText DEF DurabilityInv, Gone
  <2>3. i # k /\ i \in Nat /\ k \in Nat
    BY <2>1, <2>2 DEF LineOf, TypeOK
  <2>4. CASE i < k
    BY <2>1, <2>2, <2>4, NoFork DEF OnceInv
  <2>5. CASE k < i
    BY <2>1, <2>2, <2>5, NoFork DEF OnceInv
  <2> QED
    BY <2>3, <2>4, <2>5
<1> QED
  BY <1>1, RecordInvariant, PTL

=============================================================================
