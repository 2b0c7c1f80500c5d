---------------------------- MODULE FileJournal ----------------------------
(***************************************************************************)
(* src/guardrail_evidence/journal.py: FileJournal.append_event and         *)
(* append_checkpoint, run by threads of several processes on one file.     *)
(*                                                                         *)
(* An append takes the in-process lock of its path spelling, opens the     *)
(* file "a+b", takes the OS file lock, (for a checkpoint) counts the       *)
(* lines, reads the hash of the last line, builds and signs the event,     *)
(* writes it to the handle's buffer, flushes, fsyncs, releases the file    *)
(* lock, and only then closes the handle and releases the in-process lock. *)
(* Closing a handle whose flush failed writes what is left in its buffer,  *)
(* without the file lock.                                                  *)
(*                                                                         *)
(* The file is a sequence of terminated lines and one unterminated last    *)
(* line.  The bytes of an event are three pieces: the first and the second *)
(* part of its JSON text and the newline.  A line holds the pieces of JSON *)
(* text found between two newlines, so a torn or interleaved write is      *)
(* visible, and nothing else about the bytes is.                           *)
(***************************************************************************)
EXTENDS Naturals, Sequences, FiniteSets

CONSTANTS
  Writers,       \* threads that append to the journal
  Processes,
  ProcessOf,     \* the process of each writer
  ThreadLocks,   \* entries of _process_locks, in every process
  ThreadLockOf,  \* the entry of each writer's path spelling in its process
  HasFileLock,   \* FALSE on a platform with neither fcntl nor msvcrt
  Faults,        \* the faults that may happen, among AllFaults
  MaxAppends,    \* bound: the appends each writer starts
  None           \* JSON null; also the owner of a lock nobody holds

AllFaults ==
  {"early",  \* mkdir, open, the lock call, or build (signing) raises
   "flush",  \* flush is refused or interrupted before any byte is written
   "torn",   \* a write or a crash leaves part of a line in the file
   "fsync",  \* fsync raises, or an interrupt arrives after the flush
   "kill",   \* a process dies
   "power",  \* the machine dies: what was not fsynced may be lost
   "new"}    \* it dies when the new file's name is not on disk: all is lost

(* Event identity: the n-th append of a writer; event_hash covers event_id. *)
Hashes == Writers \X (1..MaxAppends)

ASSUME JournalAssumption ==
  /\ ProcessOf \in [Writers -> Processes]
  /\ ThreadLockOf \in [Writers -> ThreadLocks]
  /\ \A v, w \in Writers :
       ThreadLockOf[v] = ThreadLockOf[w] => ProcessOf[v] = ProcessOf[w]
  /\ HasFileLock \in BOOLEAN
  /\ Faults \subseteq AllFaults
  /\ MaxAppends \in Nat
  /\ None \notin Writers
  /\ None \notin Hashes

VARIABLES
  lines,       \* the terminated lines of the file
  partial,     \* what follows the last newline
  synced,      \* how many terminated lines the last fsync made durable
  named,       \* the file's entry in its directory is on disk
  acked,       \* history: the events returned to callers
  lost,        \* history: the returned events that went with a new file
  threadLock,  \* the holder of each in-process lock
  fileLock,    \* the holder of the OS file lock
  pc,          \* where each writer is in append_event / append_checkpoint
  attempts,    \* how many appends each writer has started
  draft,       \* the event each writer is building
  unwritten,   \* pieces of the draft still in the handle's buffer
  status       \* what the current or last append of each writer reports

diskVars == <<lines, partial, synced, named, lost>>
lockVars == <<threadLock, fileLock>>
vars == <<lines, partial, synced, named, lost, acked, threadLock, fileLock, pc,
          attempts, draft, unwritten, status>>

Kinds == {"event", "checkpoint"}

Event == [hash  : Hashes \cup {None},
          kind  : Kinds,
          prev  : Hashes \cup {None},
          count : Nat]

Fragment == [event : Event, part : {"head", "tail"}]

Line == Seq(Fragment)

PCs == {"idle", "thread_lock", "open", "count", "read", "build", "flush",
        "fsync", "unlock", "close"}

TypeOK ==
  /\ lines \in Seq(Line)
  /\ partial \in Line
  /\ synced \in 0..Len(lines)
  /\ named \in BOOLEAN
  /\ acked \subseteq Event
  /\ lost \subseteq acked
  /\ threadLock \in [ThreadLocks -> Writers \cup {None}]
  /\ fileLock \in Writers \cup {None}
  /\ pc \in [Writers -> PCs]
  /\ attempts \in [Writers -> 0..MaxAppends]
  /\ draft \in [Writers -> Event]
  /\ unwritten \in [Writers -> 0..3]
  /\ status \in [Writers -> {"none", "ok", "error"}]

-----------------------------------------------------------------------------
(* Reading the file. *)

FileLines == Append(lines, partial)

(* The JSON text of one event, on a line of its own. *)
LineOf(e) == << [event |-> e, part |-> "head"], [event |-> e, part |-> "tail"] >>

(* Mutant: whatever follows the first JSON object on the line is ignored. *)
IsEventLineLax(line) ==
  Len(line) >= 2 /\ SubSeq(line, 1, 2) = LineOf(line[1].event)

IsEventLine(line) == Len(line) = 2 /\ line = LineOf(line[1].event)

NonBlank(ls) == {i \in DOMAIN ls : ls[i] # <<>>}

LastNonBlank(ls) == {i \in NonBlank(ls) : \A j \in NonBlank(ls) : j <= i}

(***************************************************************************)
(* The event_hash of the last line that is not blank, null in a file that  *)
(* has none; the empty set if that line is not the JSON text of an event.  *)
(***************************************************************************)
TailHashes(ls) ==
  IF NonBlank(ls) = {}
  THEN {None}
  ELSE {ls[i][1].event.hash : i \in {k \in LastNonBlank(ls) : IsEventLine(ls[k])}}

-----------------------------------------------------------------------------
Init ==
  /\ lines = <<>>
  /\ partial = <<>>
  /\ synced = 0
  /\ named = ("new" \notin Faults)
  /\ acked = {}
  /\ lost = {}
  /\ threadLock = [l \in ThreadLocks |-> None]
  /\ fileLock = None
  /\ pc = [w \in Writers |-> "idle"]
  /\ attempts = [w \in Writers |-> 0]
  /\ draft = [w \in Writers |->
                [hash |-> None, kind |-> "event", prev |-> None, count |-> 0]]
  /\ unwritten = [w \in Writers |-> 0]
  /\ status = [w \in Writers |-> "none"]

Goto(w, from, to) ==
  /\ pc[w] = from
  /\ pc' = [pc EXCEPT ![w] = to]

Report(w, s) == status' = [status EXCEPT ![w] = s]

(* append_event is called with a builder of kind "event", append_checkpoint
   with one of kind "checkpoint". *)
Begin(w, k) ==
  /\ Goto(w, "idle", "thread_lock")
  /\ attempts[w] < MaxAppends
  /\ attempts' = [attempts EXCEPT ![w] = @ + 1]
  /\ draft' = [draft EXCEPT ![w] = [hash  |-> <<w, attempts[w] + 1>>,
                                    kind  |-> k,
                                    prev  |-> None,
                                    count |-> 0]]
  /\ Report(w, "none")
  /\ UNCHANGED <<diskVars, acked, lockVars, unwritten>>

(* with self._lock *)
AcquireThreadLock(w) ==
  /\ Goto(w, "thread_lock", "open")
  /\ threadLock[ThreadLockOf[w]] = None
  /\ threadLock' = [threadLock EXCEPT ![ThreadLockOf[w]] = w]
  /\ UNCHANGED <<diskVars, acked, fileLock, attempts, draft, unwritten, status>>

(* Mutant: the file lock is taken in shared mode. *)
OpenAndLockShared(w) ==
  /\ Goto(w, "open", IF draft[w].kind = "checkpoint" THEN "count" ELSE "read")
  /\ fileLock' = w
  /\ UNCHANGED <<diskVars, acked, threadLock, attempts, draft, unwritten, status>>

(* mkdir, open "a+b", _lock_file; blocks while another handle holds the lock. *)
OpenAndLock(w) ==
  /\ Goto(w, "open", IF draft[w].kind = "checkpoint" THEN "count" ELSE "read")
  /\ IF HasFileLock
       THEN fileLock = None /\ fileLock' = w
       ELSE UNCHANGED fileLock
  /\ UNCHANGED <<diskVars, acked, threadLock, attempts, draft, unwritten, status>>

OpenFails(w) ==
  /\ "early" \in Faults
  /\ Goto(w, "open", "idle")
  /\ threadLock' = [threadLock EXCEPT ![ThreadLockOf[w]] = None]
  /\ Report(w, "error")
  /\ UNCHANGED <<diskVars, acked, fileLock, attempts, draft, unwritten>>

(* Mutant: blank lines are counted too. *)
CountAllLines(w) ==
  /\ Goto(w, "count", "read")
  /\ draft' = [draft EXCEPT ![w].count = Cardinality(DOMAIN FileLines)]
  /\ UNCHANGED <<diskVars, acked, lockVars, attempts, unwritten, status>>

(* _count_event_lines *)
CountLines(w) ==
  /\ Goto(w, "count", "read")
  /\ draft' = [draft EXCEPT ![w].count = Cardinality(NonBlank(FileLines))]
  /\ UNCHANGED <<diskVars, acked, lockVars, attempts, unwritten, status>>

(* _read_last_event_hash *)
ReadTail(w) ==
  /\ Goto(w, "read", "build")
  /\ \E h \in TailHashes(FileLines) : draft' = [draft EXCEPT ![w].prev = h]
  /\ UNCHANGED <<diskVars, acked, lockVars, attempts, unwritten, status>>

(* "journal tail is corrupt; refusing to extend a broken chain" *)
TailRefused(w) ==
  /\ Goto(w, "read", "unlock")
  /\ TailHashes(FileLines) = {}
  /\ Report(w, "error")
  /\ UNCHANGED <<diskVars, acked, lockVars, attempts, draft, unwritten>>

(* build(previous_hash), json.dumps, handle.write into the buffer *)
Build(w) ==
  /\ Goto(w, "build", "flush")
  /\ unwritten' = [unwritten EXCEPT ![w] = 3]
  /\ UNCHANGED <<diskVars, acked, lockVars, attempts, draft, status>>

(* Mutant: the unlock is not in a finally block. *)
FailWithoutUnlock(w) ==
  /\ "early" \in Faults
  /\ \E from \in {"count", "read", "build"} : Goto(w, from, "close")
  /\ Report(w, "error")
  /\ UNCHANGED <<diskVars, acked, lockVars, attempts, draft, unwritten>>

FailBeforeWrite(w) ==
  /\ "early" \in Faults
  /\ \E from \in {"count", "read", "build"} : Goto(w, from, "unlock")
  /\ Report(w, "error")
  /\ UNCHANGED <<diskVars, acked, lockVars, attempts, draft, unwritten>>

(* The next n buffered pieces of w's line reach the end of the file. *)
Put(w, n) ==
  LET done == 3 - unwritten[w]
      text == LineOf(draft[w])
  IN  IF n > 0 /\ done + n = 3
      THEN /\ lines' = Append(lines, partial \o SubSeq(text, done + 1, 2))
           /\ partial' = <<>>
      ELSE /\ partial' = partial \o SubSeq(text, done + 1, done + n)
           /\ UNCHANGED lines

(* How many pieces a write that does not finish may have written. *)
ShortWrites(w) ==
  (IF "flush" \in Faults THEN {0} ELSE {})
    \cup (IF "torn" \in Faults THEN 1..(unwritten[w] - 1) ELSE {})

(* handle.flush *)
Flush(w) ==
  /\ Goto(w, "flush", "fsync")
  /\ Put(w, unwritten[w])
  /\ unwritten' = [unwritten EXCEPT ![w] = 0]
  /\ UNCHANGED <<synced, named, lost, acked, lockVars, attempts, draft, status>>

FlushFails(w) ==
  /\ Goto(w, "flush", "unlock")
  /\ \E n \in ShortWrites(w) :
       /\ Put(w, n)
       /\ unwritten' = [unwritten EXCEPT ![w] = @ - n]
  /\ Report(w, "error")
  /\ UNCHANGED <<synced, named, lost, acked, lockVars, attempts, draft>>

(* Mutant: an unterminated line is taken for durable, too. *)
FsyncCountsPartial(w) ==
  /\ Goto(w, "fsync", "unlock")
  /\ synced' = Len(FileLines)
  /\ Report(w, "ok")
  /\ UNCHANGED <<lines, partial, named, lost, acked, lockVars, attempts, draft, unwritten>>

(* os.fsync; the caller will get the event back. *)
Fsync(w) ==
  /\ Goto(w, "fsync", "unlock")
  /\ synced' = Len(lines)
  /\ Report(w, "ok")
  /\ UNCHANGED <<lines, partial, named, lost, acked, lockVars, attempts, draft, unwritten>>

(* Mutant: an error of fsync is swallowed. *)
FsyncErrorIgnored(w) ==
  /\ "fsync" \in Faults
  /\ Goto(w, "fsync", "unlock")
  /\ Report(w, "ok")
  /\ UNCHANGED <<diskVars, acked, lockVars, attempts, draft, unwritten>>

FsyncFails(w) ==
  /\ "fsync" \in Faults
  /\ Goto(w, "fsync", "unlock")
  /\ Report(w, "error")
  /\ UNCHANGED <<diskVars, acked, lockVars, attempts, draft, unwritten>>

(* finally: _unlock_file(handle) *)
Unlock(w) ==
  /\ Goto(w, "unlock", "close")
  /\ fileLock' = IF HasFileLock THEN None ELSE fileLock
  /\ UNCHANGED <<diskVars, acked, threadLock, attempts, draft, unwritten, status>>

(***************************************************************************)
(* The with blocks end: the handle is closed, which writes what is left in *)
(* its buffer or gives up on it, the in-process lock is released, and the  *)
(* event is returned or JournalError raised.                               *)
(***************************************************************************)
Close(w) ==
  /\ Goto(w, "close", "idle")
  /\ \E n \in {unwritten[w]} \cup ShortWrites(w) : Put(w, n)
  /\ unwritten' = [unwritten EXCEPT ![w] = 0]
  /\ threadLock' = [threadLock EXCEPT ![ThreadLockOf[w]] = None]
  /\ acked' = IF status[w] = "ok" THEN acked \cup {draft[w]} ELSE acked
  /\ UNCHANGED <<synced, named, lost, fileLock, attempts, draft, status>>

-----------------------------------------------------------------------------
(* The processes ps die: their buffers are gone, the system drops their locks. *)
Die(ps) ==
  LET Dead(o) == o \in Writers /\ ProcessOf[o] \in ps
  IN  /\ pc' = [w \in Writers |-> IF Dead(w) THEN "idle" ELSE pc[w]]
      /\ unwritten' = [w \in Writers |-> IF Dead(w) THEN 0 ELSE unwritten[w]]
      /\ status' = [w \in Writers |-> IF Dead(w) THEN "none" ELSE status[w]]
      /\ threadLock' = [l \in ThreadLocks |->
                          IF Dead(threadLock[l]) THEN None ELSE threadLock[l]]
      /\ fileLock' = IF Dead(fileLock) THEN None ELSE fileLock
      /\ UNCHANGED <<acked, attempts, draft>>

Kill(p) ==
  /\ "kill" \in Faults
  /\ \E w \in Writers : ProcessOf[w] = p /\ pc[w] # "idle"
  /\ Die({p})
  /\ UNCHANGED diskVars

(* Any prefix of the file that holds everything fsynced may remain; a file
   that is found with something in it has its name on disk. *)
PowerLoss ==
  /\ "power" \in Faults
  /\ Die(Processes)
  /\ \E k \in synced..Len(lines) :
       /\ lines' = SubSeq(lines, 1, k)
       /\ synced' = k
       /\ \E j \in IF "torn" \in Faults THEN 0..Len(FileLines[k + 1]) ELSE {0} :
            partial' = SubSeq(FileLines[k + 1], 1, j)
  /\ named' = (named \/ lines' # <<>> \/ partial' # <<>>)
  /\ UNCHANGED lost

(* An append creates the file and fsyncs it, never the directory it is in. *)
NewFileLost ==
  /\ "new" \in Faults
  /\ ~named
  /\ Die(Processes)
  /\ lines' = <<>>
  /\ partial' = <<>>
  /\ synced' = 0
  /\ lost' = acked
  /\ UNCHANGED named

-----------------------------------------------------------------------------
Proceed(w) ==
  \/ AcquireThreadLock(w)
  \/ OpenAndLock(w)
  \/ CountLines(w)
  \/ ReadTail(w)
  \/ TailRefused(w)
  \/ Build(w)
  \/ Flush(w)
  \/ Fsync(w)
  \/ Unlock(w)
  \/ Close(w)

Fail(w) ==
  \/ OpenFails(w)
  \/ FailBeforeWrite(w)
  \/ FlushFails(w)
  \/ FsyncFails(w)

Step(w) == Proceed(w) \/ Fail(w)

(* Every writer has used up its appends. *)
Terminating ==
  /\ \A w \in Writers : pc[w] = "idle" /\ attempts[w] = MaxAppends
  /\ UNCHANGED vars

Next ==
  \/ \E w \in Writers, k \in Kinds : Begin(w, k)
  \/ \E w \in Writers : Step(w)
  \/ \E p \in Processes : Kill(p)
  \/ PowerLoss
  \/ NewFileLost
  \/ Terminating

Spec == Init /\ [][Next]_vars

(***************************************************************************)
(* A thread that can proceed is eventually run; nothing need ever fail.    *)
(* Neither lock is fair, but the appends are bounded, so a lock somebody   *)
(* waits for is free for good once the others are done.                    *)
(***************************************************************************)
FairSpec == Spec /\ \A w \in Writers : WF_vars(Proceed(w))

-----------------------------------------------------------------------------
(* Mutant: the linkage of the events is not checked. *)
ChainUnlinked(ls) == \A i \in NonBlank(ls) : IsEventLine(ls[i])

(* What `guardrail-evidence verify` accepts: every non-blank line, terminated
   or not, is one event that commits to the event before it. *)
ChainFollows(ls) ==
  \A i \in NonBlank(ls) :
    /\ IsEventLine(ls[i])
    /\ ls[i][1].event.prev \in TailHashes(SubSeq(ls, 1, i - 1))

Verifies == ChainFollows(FileLines)

(***************************************************************************)
(* Serialized appends keep the file a verifiable chain at every moment,    *)
(* whatever dies and whenever: append_event and append_checkpoint never    *)
(* extend anything but the last event.                                     *)
(***************************************************************************)
ChainIntact == Verifies

(***************************************************************************)
(* A checkpoint commits to exactly the events in front of it, although     *)
(* append_checkpoint counts, reads the tail and writes in separate steps.  *)
(***************************************************************************)
CheckpointCoversPrefix ==
  \A i \in DOMAIN lines :
    LET e == lines[i][1].event
    IN  IsEventLine(lines[i]) /\ e.kind = "checkpoint"
          => e.count = Cardinality(NonBlank(SubSeq(lines, 1, i - 1)))

OnFile(e) == \E i \in DOMAIN lines : lines[i] = LineOf(e)

(***************************************************************************)
(* Under every fault, with and without the file lock: a journal that       *)
(* verifies holds every event an append has returned, whole, on a line of  *)
(* its own, unless the file was lost before its name was on disk.  Losing  *)
(* or garbling one in any other way is at worst a false alarm.             *)
(***************************************************************************)
VerifiedMeansComplete == Verifies => \A e \in acked \ lost : OnFile(e)

(***************************************************************************)
(* A new file is lost as a whole or not at all: a returned event that a    *)
(* journal that verifies lacks does not follow anything it has, although   *)
(* appends go on before and after the loss, and others may be torn or lost *)
(* as well.  So a tail is never what is missing.                           *)
(***************************************************************************)
LossIsWhole ==
  Verifies => \A e \in acked :
    OnFile(e) \/ \A i \in NonBlank(lines) : lines[i][1].event.hash # e.prev

(***************************************************************************)
(* Two appends that read the same tail (the interleaving the file lock is  *)
(* there to prevent) are never both accepted by the verifier, as long as   *)
(* the file is not lost with its name.                                     *)
(***************************************************************************)
ForkIsDetected ==
  Verifies => \A d, e \in acked \ lost : d # e => d.prev # e.prev

(***************************************************************************)
(* Every append returns or raises: the two locks are always taken in the   *)
(* same order, released on every path, and dropped when a process dies.    *)
(***************************************************************************)
EveryAppendEnds == \A w \in Writers : pc[w] # "idle" ~> pc[w] = "idle"

(***************************************************************************)
(* The file, read as the events on its lines, is an EvidenceLog.           *)
(***************************************************************************)
EventsOnLines == [i \in DOMAIN lines |-> lines[i][1].event]

Log == INSTANCE EvidenceLog WITH log <- EventsOnLines

(***************************************************************************)
(* Serialized appends implement the abstract log: a flush extends it by    *)
(* one event that commits to the last one, a return acknowledges an event  *)
(* that is there, and a power loss drops only what was never acknowledged. *)
(***************************************************************************)
ImplementsEvidenceLog == Log!Spec

=============================================================================
