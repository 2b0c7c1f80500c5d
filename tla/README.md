# Verification of guardrail-evidence

TLA+ specifications of `src/guardrail_evidence`, the TLC runs that check them
on small instances, and TLAPS proofs of what matters most for every instance.

The library wraps a Python function in a *guard*: before the function runs, a
signed decision event is appended to a hash-chained journal; afterwards an
outcome event is. Everything it promises is about that journal: nothing runs
without its decision on record, nothing that was acknowledged disappears, and
whatever happens to the file later shows when it is verified. So the project
starts with the journal and the engine that writes it, and goes on to what
reads it, commits to it and signs it, and to what is put into it.

## Inventory

### The components

**Journal** (`journal.py`). State: the file; one in-process lock for each
spelling of a path; the OS file lock; the buffer of each open handle.
Operations: `append_event`, `append_checkpoint`: lock, open, lock the file,
(count,) read the last event's hash, build and sign the event, write, flush,
fsync, unlock, close. Called by the engine and by `checkpoint_journal`, in any
number of threads and processes. Hard: the order of releases on every error
path, a buffer that is written by `close()`, torn writes, what a power loss
takes, the name of a new file, the platform without file locks, two spellings of
one path. Correct
when: the file is always one chain; a returned event is never lost unnoticed; a
checkpoint counts exactly what is in front of it; nobody waits for ever.

**Engine** (`engine.py`), with **observer** (`observer.py`) and **approval**
(`approval.py`). State: where each call is; the process-wide set of pairs
(observer, contract) already notified. Operations: `execute_sync`,
`execute_async`; they differ in how the function is run. Interacts with an
observer and an approval provider (callbacks that may raise), the identity, and
the journal (two appends). Hard: concurrent calls share the observer set without
a lock around check-call-mark; an append can fail before or after the event is
stored; the function has run when the second append fails; interrupts and
crashes anywhere. Correct when: fail closed; the caller is told what is on
record; the observer hears of a contract first; each call ends.

**Audit** (`audit.py`). A pure function of a verified journal: issues, and a
status for each decision. Correct when: whatever interleaving or crash wrote the
journal, the statuses are true and no issue is raised.

**Verification** (`verification.py`). A pure function of a journal file, a
witness file and the trusted keys. Correct when: no intact journal is rejected,
and no changed, reordered, duplicated, incomplete one is accepted, as far as the
documentation promises.

**Checkpoint** (`checkpoint.py`). State: the witness file. Operation:
`checkpoint_journal`: append a checkpoint event, then overwrite the witness
file with it. Hard: racing processes, a crash while the file is being replaced.

**Identity** (`identity.py`). State: `signing_key.pem`, `verify_key.pem`,
`trusted_keys/*.pem`, shared by all processes without a lock. Operations:
`load_or_create`, `rotate_key`, `register_public_key`,
`load_trusted_public_keys`. Hard: every step of two processes interleaves, files
are emptied before they are written, errors are swallowed during a rotation.
Correct when: every key that has signed stays in the trusted set.

**Canonical form** and **redaction** (`canonical.py`, `redaction.py`). No state of
their own: a recursive traversal of the caller's objects, which it redacts and
canonicalizes in one pass, and the texts made from the result. Called by the
engine with arguments, metadata and results. Hard: the objects are shared,
cyclic and changed by other threads; names come in lookalike letters; removed
values turn up in results and error texts, overlapping and cut. Correct when:
exactly the visible is shown, and no removed text that is long enough to be
remembered comes back.

**Contracts** (`contracts.py`) and **decorators** (`guard.py`, `wrap_tool.py`).
Immutable records and closures made once, when a tool is declared. Hard: they
copy what the program may change later; `wrap_tools` is all or nothing. Correct
when: every call records what was declared.

**Privacy** (`privacy.py`). A pure function of a verified journal: for each
decision, how much of its arguments it shows. Hard: older journals have only a
summary cut to length; records of other writers may be odd. Correct when:
nothing shown in the clear is missed or called unknown without need.

**Command line** (`cli.py`). `verify`, `audit`, `inspect` answer about a journal
with the keys of a home; `checkpoint`, `key-info` and `key-rotate` change the
home. Hard: any order of them, on a journal of this home or of another machine,
intact or not. Correct when: no report is made on changed evidence, and old
evidence stays verifiable.

**Errors and exports** (`errors.py`, `__init__.py`). Class definitions.

The hazards, each with its line and the properties aimed at it, are listed in
`PROJECT.json`.

### How the modules are composed

| Module | Models | Uses |
| --- | --- | --- |
| `EvidenceLog` | what the journal promises its callers (abstract) | |
| `FileJournal` | `journal.py` on a file, step by step | `EvidenceLog` as refinement target |
| `FileJournal_proofs` | theorems about `FileJournal` | `FileJournal`, `EvidenceLog` |
| `TailRead` | the backward, windowed tail read | |
| `JournalTail` | that read on the files `FileJournal` makes | `FileJournal`, `TailRead` |
| `TailRead_proofs` | theorems about `TailRead` and `JournalTail` | `JournalTail`, `FileJournal_proofs` |
| `Audit` | `audit.py` | |
| `GuardedCalls` | what the engine promises its callers (abstract) | |
| `GuardEngine` | `engine.py`, `observer.py`, approval | `Audit`; `EvidenceLog` as its journal; `GuardedCalls` as refinement target |
| `GuardEngine_proofs` | theorems about `GuardEngine` | `GuardEngine` |
| `Verification` | `verification.py`, `finalize_event` | |
| `Verification_proofs` | lemmas about what the verifier accepts | `Verification` |
| `Checkpoint` | `checkpoint.py`, custody of journal and witness | `Verification` |
| `Checkpoint_proofs` | theorems about custody | `Checkpoint`, `Verification_proofs` |
| `Identity` | the key files of `identity.py` | |
| `Identity_proofs` | theorems about `Identity` | `Identity` |
| `Canonical` | `canonical.py`, `redaction.py` | |
| `Privacy` | `privacy.py`, retention records of `engine.py` | `Canonical` |
| `Registration` | `guard.py`, `wrap_tool.py`, `build_contract` | `Privacy` |
| `CallContent` | what a call puts on record | `Registration` |
| `CallContent_proofs` | theorems about that, and about the traversal | `CallContent` |
| `Reports` | `cli.py` | `Audit`, `Verification`, `Privacy` |
| `Reports_proofs` | theorems about `Reports` | `Reports`, `Verification_proofs` |
| `MC*` | the values of the constants for TLC | |

`EvidenceLog` is the joint. `FileJournal` is shown to implement it, and
`GuardEngine` uses it in place of a file: the engine needs to know only that an
append puts one event at the end of the log, returns it durably, or raises with
or without the event being there. What breaks this contract in the code is
excluded from the theorem: a failed flush (`WholeWrites`), which has a run of its
own, `journal_late_flush`, and the loss of a whole new file (`"new"`). `Checkpoint`
and `Reports` rely on the same contract for their appends.

`GuardedCalls` says in nine actions what all the steps, callbacks and failures of
`GuardEngine` amount to for someone who sees the durable events, whether the
function runs, and the caller's answer.

A guarded call is modelled twice, for two questions. `GuardEngine` has every
step, failure and interleaving and treats what is recorded as opaque;
`CallContent` has the content, in the same order of steps, and leaves the
failures out.

## From the code to the modules

### FileJournal

`pc[w]` is the line a writer has reached in `append_event` or
`append_checkpoint`; one action is one call that other threads or a crash can
be interleaved with (`AcquireThreadLock`, `OpenAndLock`, `CountLines`,
`ReadTail`, `Build`, `Flush`, `Fsync`, `Unlock`, `Close`). `Begin` starts an
append, of an event or of a checkpoint.

*The file* is a sequence of terminated lines and an unterminated rest. An event
is three pieces of bytes: the head and the tail of its JSON text, and the
newline. Any prefix of the pieces can reach the file when a write is torn
(`Put`, `ShortWrites`), and pieces of two events can meet on one line; a line is
the JSON text of an event if it is exactly its two pieces. That a line mixing
pieces of two events could be JSON by accident is left out.

*Durability*: `synced` terminated lines survive a `PowerLoss`; of the others any
prefix does, possibly cut within a line. `acked` is history: what was returned.
`named` tells whether the file's entry in its directory is on disk. The first
append creates the file and fsyncs it, and nothing fsyncs the directory: until
the name is on disk, `NewFileLost` is a power loss that takes the whole file, and
`lost` is history: the returned events that went with it.
Where `"new"` is not among the `Faults`, the journal is one that was there before.

*Locks*: `threadLock` has one entry for each spelling of the path in a process
(the code resolves absolute paths and leaves relative ones alone). `Die` drops a
dead process's file lock and writes nothing that was buffered. `FlushFails`
leaves pieces in `unwritten`, which `Close` puts into the file after `Unlock`:
the order of the code's nested `with` and `finally`.

*Hashes*: SHA-256 has no collisions and event ids are unique, so an event's hash
is the identity of the append that built it. What `Verifies` asks of a line is
parsing and linkage; hashes and signatures over changed content are the subject
of `Verification`.

*Tail read*: `TailHashes` is what the backward, windowed read returns; that it
does is the subject of the next two modules. The code strips newlines where the
count strips all white space; no append writes a line for which that matters.

### TailRead and JournalTail

`LineIn(bytes, start)` is one turn of the loop of `_read_last_event_hash`: what
`rstrip` and `rfind` make of the window that begins at `start`, as a set that is
empty when the code doubles the window and goes on. `ReadBackward` takes the
smallest window of the doubling sequence that gives a line. `LastLine` is the
definition it is measured by, of `_read_last_event_hash_scan`'s kind. Bytes are
LF, CR or anything else. `JournalTail` writes the file of `FileJournal` as such
bytes, one for each piece of an event and each newline, and asks for every
writer that is about to read, and every first window from 1 to `MaxWindow`,
whether the windowed read agrees with `TailHashes`.

### GuardEngine

`pc[c]` is where call `c` is between `signature.bind` and the return to its
caller. Each step that can raise has its own exits, named by what the caller
gets (`result`). `Declare` is the call of the observer between the check and the
mark in `notify_once`. `AppendEvent`, `AppendRaises`, `AppendReturns` are the
journal's three behaviours, used for decision and outcome: `"append"` raises
with nothing written, `"stored"` raises with the event in the file, `"torn"`
leaves half a line, after which every append is refused. `FunctionInterrupted`
is a `BaseException` (also `CancelledError`) that passes the `except Exception`;
`Interrupt` is one outside the function. `Crash` ends the process: running
calls have no result, and the observer set is empty for the next ones;
`PowerLoss` also loses unacknowledged events. `runs` and `body` are history:
how often the function was started and how it ended.

The tracker knows an observer by its id (`IdOf`), the caller by what it is;
`heard` is history and holds observers. Two observers with one id are an object
that was freed and its successor: `IdsUnique` (in the proofs) is the assumption
that there are none.

Contents of events are reduced to kind and identity: decisions *allowed* and
*denied*, outcomes *succeeded* and *failed*. Arguments, contracts and texts are
opaque. `ProviderDecisions` is what the two providers of `approval.py` can answer.

`Promise` maps the engine to `GuardedCalls`: the evidence is what `append_event`
has returned, the answer is `result`, and `Phase` is how far the function is. An
append that raised is not evidence, whatever it left in the file.

### Verification and Checkpoint

An event has an id (for all fields as written), a body that tells whether a
field was changed later, its linkage, its key, hash and signature. A signature
is the key and the digest it was made over; it cannot be made without the key.
`EventIssues`, `WitnessIssues` and `CoverageIssues` return the codes of the
functions they are named after; `VerifyJournal` puts them together in the code's
order: an unusable witness is reported and not used, reading stops at the first
line that is no JSON object. `EventsOf` collects the events line by line, as the
loop of `_read_and_verify` does.

`Checkpoint` has processes in `checkpoint_journal`: append, fsync, open the
witness file (which empties it), write, fsync. `Longer` and `Overwritten` are
what happens when two processes hold the file open: the shorter text over the
longer one is garbage. `AppendEvent` and `RotateKey` are everybody else.
*Custody* is outside the program: `SaveWitness` is the operator copying the
witness file at some moment when it holds a valid witness; `CopyJournal` and
`EditCopy` are a copy that gets damaged. `EditsOf` has the damage the tests and
the documentation speak of: a changed event, as it is, rehashed, or signed with
a key outside the trusted set, a missing field, a dropped, moved or repeated
event, noise, a cut tail.

### Identity

Every file is missing, cut (opened, not wholly written) or holds a key. `pc[p]`
steps through `load_or_create` (`FindKey`, `Heal`), `rotate_key`
(`OutgoingPublic`, `OutgoingPrivate`), and the writes they share; `after[p]` is
where `register_public_key` returns to. A test for existence and the read after
it are one step: no file is ever removed, so nothing is lost. `FileError` is
where the difference lies between an error that ends the call and one that
`rotate_key` skips. Reading is refused where the code may refuse it: the mode of
the private key file, or whatever makes it unreadable, is an outside matter, so
`PrivateRefused` may hold at any read (`FindRefused` ends the call,
`OutgoingRefused` skips the candidate). `spoiled` is history: the keys of which a
registration failed, was cut off, or was skipped because no key file could be
read. PEM encoding is left out; a private key and its public key are one value.

### Canonical, Privacy and Registration

Pure definitions. Objects live in a heap (`heap[o]` has a shape and items) so
that they can be shared, cyclic and changed. `Visit` is the body of `_walk`, whose
arguments are the value, the depth and the containers around it (`_seen`); it
returns what its calls of itself, `walk`, make it return. `Walk` is the
recursive function that this defines on all `Visits`: not a `RECURSIVE` operator,
so that the prover can reason about it. `Entry` is the `_redact`-or-descend of
one argument. A text is a sequence of symbols,
a name is the word it spells and the letters it uses; `FoldName` is what
`fold_name` makes of the letters, in the code's order: `Compatible` (NFKC),
`Translate`, `Unmarked` (NFD without the marks), `CaseFold`. Canonical JSON and
SHA-256 are injective here: the hash of a value is the value. `VisibleAt`,
`Hidden`, `Canonicalizable` and `Removed` define the same by paths through the
object graph, without the traversal. Depth is counted from a result or metadata
itself, and for an argument from the dict of arguments around it;
`WalkShowsTheVisible` checks both.
`ScrubText` replaces as the code does, one value after the other, then cuts.
`LongestFirst` are the orders the code's sort can give: the set it sorts leaves
open which of two values of one length comes first. The lengths of JSON are
abstracted: `IsLong` says whether a value is cut in a summary, and
`MaxSummaryParts` how many fit. `redacted_values` is a set: its order and
repetitions make no difference, as `scrub_text` sorts it.

`Privacy` has both classifiers and the parser of older summaries; a part that
was cut is no JSON, and a summary whose parts `bounded_summary` would not have
printed is *Malformed*. A retention record whose state is a list or an object
makes the classifier raise instead (`LoopRaises`). `Registration` has `guard`, `wrap_tool` and `wrap_tools`
as functions from tools and settings to what the wrapper closes over, or to a
refusal; `BuildContract` is the part of `contracts.py` in it.

### CallContent

`pc` goes from the declaration of the tools through one call. `WalkNext`
canonicalizes one argument, so that `Edit`, another thread that changes an
object, may come between any two arguments, and between any two steps after
them. (Within one argument the traversal is one step.) `Raises` quotes any two
texts the function can reach, in an order of its choice; `echoed` is history.
`received` is history too: what the objects looked like when the function was
called. So is `removed`: every value of the arguments, of whatever kind, that the
traversal replaced by the marker, found by paths and not by the traversal. `kept`
is what the code remembers of these, the texts of at least `MinScrubbable`
symbols, and `LongRemovedTextsStayOut` is stated of `removed`. Failures of journal, observer, identity and process are left to
`GuardEngine`.

### Reports

State: the files. The commands that only read are operators of the files
(`VerifyExit`, `AuditExit`, `InspectReport`), evaluated in every state for every
choice of keys; those that write are actions. `Inspect` is the report that
`InspectReport` makes of a journal once it is verified; there is none when the
classifier raises (`InspectRaises`). The ids that `Audit` compares are those the
code does, after its `str()`. `Write` appends an event that may
say what no engine writes: the holder of a key need not use this library's
engine. `Damage` changes, drops or garbles lines once; the trusted set may
become unreadable (`SpoilTrusted`, from `Identity`).

## The runs

Passing runs:

| Run | Instance | What it shows |
| --- | --- | --- |
| `journal_locked` | three writers, two of them threads of one process that spell the path differently; one append each, of either kind; failing opens, builds and fsyncs, kills, power losses | the file is always one chain, checkpoints count right, every append ends, and the file implements `EvidenceLog` |
| `journal_unlocked` | three writers without a file lock create the journal, one spelling; all faults, the loss of the new file included; windows of 1 to 4 | a journal that verifies holds every returned event that did not go with the new file, which is lost as a whole; no two of them fork the chain; and the tail read finds the last line of whatever file comes about |
| `guard` | two calls with one observer and contract, one of them pre-approved; all faults | fail closed, the caller knows the record, the audit is true and finds no issue, the observer hears first, each call ends, and the engine implements `GuardedCalls` |
| `call_content` | two objects with four and three states, tools of each kind and declaration, two changes by other threads | the traversal shows the visible and no more; approver, journal and function agree; the privacy report misses nothing, from retention records or summary; no removed text of the scrubbing length or more comes back; metadata is as declared |
| `checkpoint_custody` | two checkpointing processes, two keys, three events, two edits; all faults | no false alarm; damage is detected; a saved witness shows any loss up to its checkpoint |
| `identity_races` | two processes, three calls, a new or an old home; refused and failing files, kills | every key that has signed stays trusted, unless its own registration failed or was skipped |
| `reports` | two keys of the home and one of another machine, three events of fourteen kinds of content | no report on changed evidence; `audit` succeeds exactly on reconciled journals, `inspect` says safe exactly when nothing is in the clear; rotations and checkpoints leave old events verifiable |

Runs that end in a violation of something a comment or a doc says:

| Run | What TLC finds |
| --- | --- |
| `journal_late_flush` | a refused flush leaves the line in the buffer, and `close()` writes it after the file lock was released, behind another process's event: the chain breaks |
| `guard_unencodable` | a result or exception that cannot be turned into text makes the call raise that error, with the function run and no `ExecutionCompletedEvidenceError` |
| `observer_reuse` | an observer that is given the id of one that is gone is taken for it and never told |
| `checkpoint_witness` | a crash while the witness file is replaced leaves no witness, not even the older one |
| `identity_crash` | a crash while a key is registered leaves an empty file, which counts as registered ever after |

### Observations without a run

* A write torn just before the newline puts the next event on the same line,
  where `docs/EVIDENCE_FORMAT.md:3` speaks of one event per line. The journal
  then reads as corrupt, so nothing is lost unnoticed (`VerifiedMeansComplete`).
* `journal.py:126` says "durably append it", but the directory of a new journal is
  never fsynced: a power loss may take the file with an event that was returned,
  and an empty journal verifies. `VerifiedMeansComplete` excepts exactly the events
  that are `lost` in this way, and `LossIsWhole` says how little else can be.
* After a failed fsync the file may hold a decision although nothing was
  started; `engine.py:36-38` takes a decision without outcome for a call that
  started. The audit asks for reconciliation in either case.
* Two processes that create or rotate keys at once can leave
  `signing_key.pem` and `verify_key.pem` with different keys. No doc promises
  that they agree, and verification uses the trusted set.
* `README.md:133` calls `wrap_tools(existing_tools, risk="high")`, which is not
  its signature; `cli.py:3` says "Every subcommand is read-only", and three are not.
* `redacted_values` has only removed texts of at least `_MIN_SCRUBBABLE_LENGTH`,
  that is 4, characters (`canonical.py:202`). A shorter text, a number such as a
  PIN, or a container is removed from the arguments, but a function that returns
  it has its hash recorded as `redacted_output_hash`, because the comparison at
  `engine.py:438` finds no match. `docs/EVIDENCE_FORMAT.md:102-104` says the hash
  "is absent when the result is itself one of the redacted input values — hashing
  a low-entropy secret commits something confirmable by guessing", and
  `engine.py:427-429` says the same. The values that are easiest to guess are the
  ones it does not hold for. (That a short text stays in an error's text is
  intended: the comment at `canonical.py:137-138`.) `LongRemovedTextsStayOut`
  is what does hold; without its condition on the length, TLC finds the short
  token of `call_content` returned and hashed.
* `fold_name` translates lookalike letters before it strips marks and folds case,
  where its docstring (`canonical.py:278-283`) has the marks stripped first. Its
  table has small letters only, few of them with marks: a capital lookalike, or
  one with a mark (the Greek ά), is folded to a lookalike that nothing translates
  any more. `FoldName` says so.
* A retention record whose `state` is a list or an object makes `privacy.py:190`
  raise a TypeError, which `main` does not catch: `inspect` ends with a traceback
  where other malformed records give "unknown". No report is made, so nothing is
  called safe.

### Bounds, and why they are enough

*Writers*: the conflicts of an append are between two writers; the third makes
the difference between two threads of one process and a thread of another, and
lets a third event follow a conflict. One append per writer is enough for that.
The theorems need neither bound. *Windows*: a line has up to four pieces when
two writers share it, so that windows of 1 to 4, doubled, begin at every place
of a line; the theorems have no bound. *Calls*: two race for a notification;
the theorems hold for any number. *Objects*: two make a cycle, a shared object
and an object inside the other; depth 2 puts a value at the limit and one beyond
it; texts of two and three symbols are at and above the scrubbing length and
one is part of the other; two edits change an object and change it back, or
both objects. *Events in `Checkpoint`*: three give two checkpoints with an event
before, between or after, and a middle to delete; two edits let one undo or hide
the other. A radix of two gives the checkpoint counts 0 to 3 texts of different
length. `EditCopy` happens last and with everything on disk, which loses
nothing: it depends on the copy only, and any copy, witness and journal can be
carried to such a state unchanged. *Events in `Reports`*: a decision, its outcome
and one event that contradicts them; only journals of up to two events are
damaged, as edits are the subject of `Checkpoint`. *Identity*: a rotation racing
a load and one more call after both; three calls and one key of an older home
need four keys.

Symmetry is used in `checkpoint_custody`, `checkpoint_witness`, `reports` and
the two runs of `Identity`, for interchangeable processes and keys, where no
liveness is checked. Deadlock is checked in every run: the specifications have a
`Terminating` step for the state in which every bound is used up.

### Fairness

`FileJournal`: weak fairness of `Proceed(w)`, the steps that do not fail: a
thread that can run is run. Failing steps need not happen. Weak fairness is
enough for the locks although neither is fair, because the appends are bounded;
an unbounded stream of other writers could starve one in the code as well.
`GuardEngine`: weak fairness of each call's steps: a function, an observer and a
provider that are called return or raise. A provider that waits for ever blocks
its own call and no other.

## What is proved

`tlapm` checks these for all values of the constants.

Each theorem of a specification follows the same way: an invariant, written as a
conjunction of named parts at the top of the proof module and checked by TLC
before it was proved; a lemma for each action, or for each part of the invariant,
that a step preserves it; and a lemma that it implies the property. What a
recursive function of the specification computes is proved by induction on its
argument. The induction rule cannot be instantiated with a formula here, so each
module that needs one has the lemma `Induct`, for a set of numbers in place of a
formula, from the well-ordering of the numbers.

`FileJournal_proofs`, from `JournalAssumption`, has two invariants.

`RecordInv` holds under every fault, with or without file locks. An event can be
written in parts: by a torn flush, by the flush of `close()`, and from there
behind other events. What `OnceInv` keeps through all of it is that the head of
each event gets into the file at most once: `HeadsInv` counts it there, and
`WriterUnwritten` says who may still write it. `IssuedInv`: a writer commits only
to events that were started. `DurabilityInv`: the head of each acknowledged event
is on a line below `synced`, or the event is `Gone` with a new file, and then so
is the event before it, which nobody is going to write again. With `VerifiedText`
(in a file that verifies, a line with the head of an event is the whole event)
these follow:

* `TypeCorrect`: the type invariant.
* `WhatIsLostIsWhole` (`LossIsWhole`). That no event of the file is one that the
  lost event followed needs both of the facts about what is `Gone`.
* `NothingSilentlyLost` (`VerifiedMeansComplete`) and `ForksNeverVerify`
  (`ForkIsDetected`), for all that did not go with a new file. Where every line is
  one whole event and follows the line before, two lines with one predecessor are
  the same line.

`JournalInv` holds with the further assumptions `Serialized` (a file lock, or a
single in-process lock) and `WholeWrites` (no flush is refused or torn). It is the
invariant of an optimistic reader made safe by a lock: `LockInv` (whoever is
between the locks owns them), `FileInv` (the file is whole lines, each linked to
the one before), and `DraftInv` (what a writer has read, the last hash and the
count, is still true of the file). None is inductive without the others. From it:

* `ChainStaysIntact` (`ChainIntact`) and `CheckpointsCount`
  (`CheckpointCoversPrefix`), also when a new file can be lost.
* `JournalImplementsLog` (`ImplementsEvidenceLog`), for a file whose name is on
  disk (`"new"` is not among the `Faults`), as `EvidenceLog` loses nothing that was
  acknowledged. The refinement also needs `FreshInv`: the event about to be flushed
  is not yet in the file. `Flush` maps to `Extend`, `Close` to `Acknowledge`,
  `PowerLoss` to `LoseTail`, every other step to a stutter.

`journal_late_flush` shows that `WholeWrites` cannot be dropped, and
`journal_unlocked` what is left without `Serialized`.

`TailRead_proofs`, first without assumptions: a window that gives a line gives the
last line of the file (`AnyWindowGivesTheLastLine`); doubling gets past the file
(`SizesDouble`), where a window is always enough; so the loop ends with the last
line and nothing else, for every file and every first window
(`ReadBackwardEnds`). The code's first window of 64 KiB is one instance. Then,
from `TailAssumption` (the JSON text of an event has no newline in it):
`TailIsFound` (`WindowsFindTheTail`), that on every file the journal can be left
with, the backward read gives the hash, the null or the refusal on which the
other theorems about `FileJournal` rest. The bytes of a file are shown, by
induction on its lines, to be whole lines, the last line that is not blank, and
newlines (`LinesEnd`).

`GuardEngine_proofs`, from `EngineAssumption`: `Invariance` of `EngineInv`,
which says for each position of a call what it implies about its run, approval,
observer and events; from it `TypeCorrect`, `FailClosed`
(`DecisionPrecedesRun`), `CallerIsTold` (`CallerKnowsTheRecord`) and, if the ids
of observers are unique, `ObserverComesFirst` (`ObserverHeardFirst`), for any
number of calls and under every fault. `DecisionPrecedesRun` alone is not
inductive: the decision must be known to be acknowledged from the return of the
append to the start of the function, across other calls' steps and losses of the
journal's tail. `observer_reuse` shows that `IdsUnique` cannot be dropped.

The same module proves the audit right on every journal the engine leaves:
`AuditIsTrue` (`AuditTellsTheTruth`) and `AuditIsClean`
(`AuditFindsNoIssue`). The invariant is `LogInv`: no event is twice in the
log (`EventsAreUnique`), what was returned is in it (`ReturnedAreLogged`), and
an outcome stands behind its decision (`OutcomeFollows`). Each part is disturbed
by an append, by a crash or by the loss of a tail, and needs `EngineInv` to know
which events a call may still write.

`EngineImplementsPromise` (`ImplementsGuardedCalls`) is the refinement: every step
of the engine, and every fault, is a step of `GuardedCalls` or invisible to it.
The return of an append is `Allow` or `Deny` or `Conclude`, according to the call's
position; a crash is invisible, as the callers of a dead process get no answer.
`EngineInv` is not enough for this: that a call which is about to be decided
was not decided before is a fact about everything ever returned, and that the
function starts in phase *waiting* and goes on *running* needs its end to be
unknown until then. `PromiseInv` adds both.

`Identity_proofs`, from `IdentityAssumption`: `TypeCorrect` and
`KeysStayTrusted` (`HandedKeysStayTrusted`), for any number of processes, keys
and calls. `IdentityInv` adds two facts to the types. A file of the trusted set
is cut only while somebody writes it, or its key is spoiled (`CutInv`). A key that
has signed and is not spoiled has such a file (`HandedInv`), or is the key of an
`OldHome`: one from before the trusted set, where both key files hold it, nothing
was registered and nobody has any other key in hand. The second case is needed
because the home's key has signed long before its first registration; it ends
with that registration, from which on the first case holds.

`Verification_proofs` has no theorem of its own but the lemmas on which the next
two modules rest. A `Chain` is a sequence of authentic events, each linked to the
one before. A chain verifies, alone and against an event of its own as the
witness (`ChainVerifies`); what the verifier accepts is authentic and linked
(`AcceptedEvents`); and a linked sequence made of events of a chain is a
beginning of it (`LinkedIsBeginning`): hashes tell places, so nothing can be left
out or moved. They assume `NoiseIsNoData`: null, a blank line and a garbled line
are values without fields, which is what they stand for.

`Checkpoint_proofs`, from `CheckpointAssumption` and `NoiseIsNoData`:
`TypeCorrect`, `NoFalseAlarm` (`IntactJournalVerifies`), `DamageShows`
(`DamageIsDetected`) and `LossShows` (`WitnessDetectsLoss`), for any number of
processes, keys, events and edits, and under every fault. `CustodyInv` has four
parts besides the types. The journal is a chain (`LogInv`), and so is the journal
as it was copied, the two being one as far as they hold the same event
(`TakenInv`): a power loss after the copy may have made the journal grow
differently from there. A checkpoint that is being made, is in the witness file,
or was saved by the operator stands behind exactly the events it counts, and is
durable from its fsync on (`WitnessInv`), which is why a saved witness never
accuses an intact journal. And whatever was done to a line of the copy, it is
still as it was written, or lacks a field, or carries no signature of a trusted
key over what it says (`CopyInv`).

`Reports_proofs`, from `ReportsAssumption`, `SayingsAssumption`, `NoiseIsNoData`
and `NullIsNoData` (null is no sequence and no set of keys): `TypeCorrect`;
`OldEventsVerify` (`OldEventsStayVerifiable`); `ReportsAreGenuine`
(`ReportsAreOfWhatWasWritten`); `AuditIsExact` (`AuditSucceedsWhenReconciled`);
`SafeIsExact` (`SafeMeansNothingInTheClear`). `SayingsAssumption` says what JSON
types a recorded decision may have and nothing about what it says, so the last
two hold for every journal that a holder of a key can sign. `ReportsInv` keeps
what was ever appended apart from what is in the file: the former is authentic and
each event names the one before it (`WrittenInv`), a line of the latter is one of
these or is damaged (`JournalInv`). An append to a damaged journal is linked to the
damage, which is why only the id of the predecessor is certain. That a journal
that verifies holds only events that were written, from the first one on, is
`VerifiedIsWritten`, a second use of the lemmas about chains.

`CallContent_proofs`, from `CanonicalAssumption`, `ContentsAssumption` and
`RegistrationsAssumption`, which say of objects and tools what Python guarantees
(the keys of a dict, the fields of a record and the parameters of a function have
distinct names), and `AbsentIsNoData` (a field that is not there, or of the wrong
type, is no sequence):

* `TypeCorrect`; `SnapshotIsRecorded` (`ApprovedIsRecorded`);
  `ReceivesWhatIsRecorded` (`ReceivedIsRecorded`); `MetadataStays`
  (`MetadataAsDeclared`); `ReportIsHonest` (`ReportHidesNothing`): for any objects,
  tools, arguments and number of changes by other threads. Of `CallInv`,
  `WalkInv` is the part that is not obvious: as long as nobody changed an object
  since the call was bound, each argument that was canonicalized would come out
  the same now.
* `TraversalIsExact` (`WalkShowsTheVisible`), for every heap. That the recursion
  of `_walk` ends and each call returns what `Visit` says (`WalkExists`,
  `WalkIs`) is an induction on the depth that is left. That it returns what the
  paths through the object graph say (`WalkAgrees`) is another, which must hold at
  every visit, wherever the walk has come from: it needs to know of the containers
  around a visit that each shows another of them or the value that is visited
  (`Trail`). A container found inside itself is then on a cycle of visible values,
  which has values at every depth (`CyclesDoNotEnd`), so that the reference, which
  knows of no cycles, finds it too deep as well.
* `NoLongTextComesBack` (`LongRemovedTextsStayOut`), for any texts, limits and
  orders of values of one length. Its core is what one `Replace` leaves, by
  induction on the suffixes of the text: no occurrence of the value, nothing that
  was not in the text or the marker. Then an induction on the passes: a later
  replacement cannot put together an earlier, longer value again, because it puts
  a marker between the pieces. That is where `IsPlain` comes in: it speaks of
  values that have none of the symbols of the marker, of the mark of a cut, or of
  the blanks in a message. `RemovedInv` ties what the code remembers to what was
  removed, `kept = LongRemoved`, by `WalkIsExact` for each argument as it was when
  it was walked, and carries the rest from the exception to the recorded outcome.
  It says nothing of shorter removed texts or of removed values of other kinds.

Every safety invariant and action property of a passing run, and both
refinements, are theorems. Only model-checked are the two liveness properties
(`EveryAppendEnds`, `EveryCallEnds`), as the prover handles neither fairness nor
ENABLED, and the violations.

## What is not modelled

* `errors.py`, `__init__.py`: class definitions and re-exports.
* The terminal prompt and its I/O: an approval is allowed, denied, invalid or
  raised. Parsing of arguments and printing in `cli.py`.
* The directory entries of files other than the journal: those of the witness and
  of the keys are taken to be durable.
* PEM encoding in `identity.py`; who set the mode of a key file.
* A journal file that cannot be read at all, and one that grows while it is read.
* How a contract is hashed: in `GuardEngine` the contract of a call is a constant,
  and in `Registration` it is compared as a value.
* Counts and orderings in reports; the exact character lengths at which JSON is
  cut; the order of `redacted_values`.

## What is left

1. *Verification* of a journal that another process extends while it is read:
   the reader takes no lock, and may see half of a line.
2. *Checkpoint* with the directory entry of a new witness file, as `named` has it
   for the journal; `checkpoint_witness` shows the same consequence of a crash.
3. *Liveness* for every instance, when the prover can handle it.
