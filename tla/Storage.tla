------------------------------ MODULE Storage ------------------------------
(***************************************************************************)
(* core/storage.py: preferences are read from an in-memory mirror; writes  *)
(* are recorded in a dirty set and carried to the TinyDB file by one       *)
(* background writer thread, or inline by flush().  Every region the code  *)
(* holds _lock for is one step here, so the lock itself needs no variable. *)
(*                                                                         *)
(* A value is abstracted to the number of the call that wrote it, so two   *)
(* writes are never confused; 0 is a row that was on disk before the first *)
(* call, and Missing is the absence of a row.                              *)
(*                                                                         *)
(* An operator named M<Action><Change> is <Action> with a plausible bug: a *)
(* property has to fail when it takes the place of <Action>.               *)
(***************************************************************************)
EXTENDS Integers

CONSTANTS
    Tables,      \* table names (one per module, in the code)
    Keys,        \* keys within a table
    Writer,      \* the background writer thread
    Flushers,    \* threads that call flush()
    Missing,     \* "no row under this key"
    MaxWrites    \* bound on the calls that change the mirror

ASSUME StorageAssumption ==
    /\ MaxWrites \in Nat
    /\ Missing \notin Nat
    /\ Writer \notin Flushers

Slots   == Tables \X Keys
Workers == Flushers \cup {Writer}
Row     == (0 .. MaxWrites) \cup {Missing}
NoRows  == [s \in Slots |-> Missing]

VARIABLES
    loaded,      \* has the mirror been read from disk (_cache is not None)?
    mirror,      \* _cache, as a function on slots
    dirty,       \* _dirty: tables changed since the last flush
    deleted,     \* _deleted: slots deleted since the last flush
    work,        \* the _work event
    idle,        \* the _idle event
    disk,        \* the rows of the TinyDB file
    readable,    \* does the file still parse as JSON?
    pc,          \* where each worker is
    job,         \* what a worker took to write, and what is left of it
    writes,      \* history: how many calls have changed the mirror
    stamp,       \* history: the last call of this process to change a slot
    began,       \* history: value of writes when a flush() was called
    faulty,      \* environment: may a disk access raise OSError or ValueError?
    orderly      \* history: has every state so far been Orderly (see below)?

mem  == <<loaded, mirror, dirty, deleted, work, idle>>
file == <<disk, readable>>
hist == <<writes, stamp, began>>
vars == <<mem, file, pc, job, hist, faulty, orderly>>

\* off: thread not started, or not inside flush(); waiting: in _work.wait();
\* ready: about to take the pending work; writing: between two TinyDB calls;
\* rewriting: inside one, the file read and not yet written; joining: in
\* flush()'s _idle.wait().
Places == {"off", "waiting", "ready", "writing", "rewriting", "joining"}

Job == [tables: SUBSET Tables, removals: SUBSET Slots, rows: [Slots -> Row],
        upserts: SUBSET Slots, removes: SUBSET Slots, copy: [Slots -> Row]]

NoJob == [tables |-> {}, removals |-> {}, rows |-> NoRows,
          upserts |-> {}, removes |-> {}, copy |-> NoRows]

TypeOK ==
    /\ loaded \in BOOLEAN
    /\ mirror \in [Slots -> Row]
    /\ dirty \in SUBSET Tables
    /\ deleted \in SUBSET Slots
    /\ work \in BOOLEAN
    /\ idle \in BOOLEAN
    /\ disk \in [Slots -> Row]
    /\ readable \in BOOLEAN
    /\ pc \in [Workers -> Places]
    /\ job \in [Workers -> Job]
    /\ writes \in 0 .. MaxWrites
    /\ stamp \in [Slots -> 0 .. MaxWrites]
    /\ began \in [Workers -> 0 .. MaxWrites]
    /\ faulty \in BOOLEAN
    /\ orderly \in BOOLEAN

Init ==
    /\ loaded = FALSE
    /\ mirror = NoRows
    /\ dirty = {}
    /\ deleted = {}
    /\ work = FALSE
    /\ idle = TRUE
    /\ disk \in [Slots -> {0, Missing}]
    /\ readable = TRUE
    /\ pc = [p \in Workers |-> "off"]
    /\ job = [p \in Workers |-> NoJob]
    /\ writes = 0
    /\ stamp = [s \in Slots |-> 0]
    /\ began = [p \in Workers |-> 0]
    /\ faulty \in BOOLEAN
    /\ orderly = TRUE

-----------------------------------------------------------------------------
(* The mirror and the calls that use it.                                   *)

Pending == dirty # {} \/ deleted # {}

\* What _mirror() may return: the cache, or on first use whatever _load()
\* makes of the file -- all of it, or nothing when it cannot be read.
Mirrors ==
    IF loaded THEN {mirror}
    ELSE (IF readable THEN {disk} ELSE {})
         \cup (IF faulty \/ ~readable THEN {NoRows} ELSE {})

MMarkDirtyQuietly(t) ==
    /\ dirty' = dirty \cup {t}
    /\ idle' = FALSE
    /\ work' = work
    /\ pc' = [pc EXCEPT ![Writer] = IF @ = "off" THEN "waiting" ELSE @]

\* _mark_dirty: the table is dirty, the store is not idle, a writer thread
\* exists and is woken.
MarkDirty(t) ==
    /\ dirty' = dirty \cup {t}
    /\ idle' = FALSE
    /\ work' = TRUE
    /\ pc' = [pc EXCEPT ![Writer] = IF @ = "off" THEN "waiting" ELSE @]

\* The history of one more call that changed slot s.
Stamp(s) ==
    /\ writes < MaxWrites
    /\ writes' = writes + 1
    /\ stamp' = [stamp EXCEPT ![s] = writes + 1]
    /\ UNCHANGED began

StoreSet(s) ==
    /\ Stamp(s)
    /\ \E m \in Mirrors : mirror' = [m EXCEPT ![s] = writes + 1]
    /\ loaded' = TRUE
    /\ MarkDirty(s[1])
    /\ UNCHANGED <<deleted, file, job>>

MStoreDeleteMisfiled(s) ==
    /\ Stamp(s)
    /\ \E m \in Mirrors :
          /\ m[s] # Missing
          /\ mirror' = [m EXCEPT ![s] = Missing]
    /\ loaded' = TRUE
    /\ deleted' = deleted \cup {s}
    /\ MarkDirty(s)
    /\ UNCHANGED <<file, job>>

StoreDelete(s) ==
    /\ Stamp(s)
    /\ \E m \in Mirrors :
          /\ m[s] # Missing
          /\ mirror' = [m EXCEPT ![s] = Missing]
    /\ loaded' = TRUE
    /\ deleted' = deleted \cup {s}
    /\ MarkDirty(s[1])
    /\ UNCHANGED <<file, job>>

\* store_get, and store_delete of an absent key: they only load the mirror.
StoreGet ==
    /\ ~loaded
    /\ loaded' = TRUE
    /\ mirror' \in Mirrors
    /\ UNCHANGED <<dirty, deleted, work, idle, file, pc, job, hist>>

-----------------------------------------------------------------------------
(* _write_pending, run by the writer thread and by flush().                *)

\* Where a worker goes when _write_pending returns.
Return(p) ==
    pc' = [pc EXCEPT ![p] = IF p = Writer THEN "waiting" ELSE "joining"]

\* Lines 176-179: nothing to write.
FindIdle(p) ==
    /\ pc[p] = "ready"
    /\ ~Pending
    /\ idle' = TRUE
    /\ Return(p)
    /\ UNCHANGED <<loaded, mirror, dirty, deleted, work, file, job, hist>>

MTakeWorkInferred(p) ==
    LET absent == {s \in Slots : s[1] \in dirty /\ mirror[s] = Missing} IN
    /\ pc[p] = "ready"
    /\ Pending
    /\ job' = [job EXCEPT ![p] =
                 [tables   |-> dirty,
                  removals |-> absent,
                  rows     |-> mirror,
                  upserts  |-> {s \in Slots : s[1] \in dirty /\ mirror[s] # Missing},
                  removes  |-> absent,
                  copy     |-> NoRows]]
    /\ dirty' = {}
    /\ deleted' = {}
    /\ pc' = [pc EXCEPT ![p] = "writing"]
    /\ UNCHANGED <<loaded, mirror, work, idle, file, hist>>

\* Lines 176-184: the pending work becomes this worker's own.
TakeWork(p) ==
    /\ pc[p] = "ready"
    /\ Pending
    /\ job' = [job EXCEPT ![p] =
                 [tables   |-> dirty,
                  removals |-> deleted,
                  rows     |-> mirror,
                  upserts  |-> {s \in Slots : s[1] \in dirty /\ mirror[s] # Missing},
                  removes  |-> deleted,
                  copy     |-> NoRows]]
    /\ dirty' = {}
    /\ deleted' = {}
    /\ pc' = [pc EXCEPT ![p] = "writing"]
    /\ UNCHANGED <<loaded, mirror, work, idle, file, hist>>

MReadFileOnce(p) ==
    /\ pc[p] = "writing"
    /\ job[p].upserts # {} \/ job[p].removes # {}
    /\ readable
    /\ job' = [job EXCEPT ![p].copy = [s \in Slots |-> IF @[s] = Missing THEN disk[s] ELSE @[s]]]
    /\ pc' = [pc EXCEPT ![p] = "rewriting"]
    /\ UNCHANGED <<mem, file, hist>>

\* Every TinyDB call reads the whole file ...
ReadFile(p) ==
    /\ pc[p] = "writing"
    /\ job[p].upserts # {} \/ job[p].removes # {}
    /\ readable
    /\ job' = [job EXCEPT ![p].copy = disk]
    /\ pc' = [pc EXCEPT ![p] = "rewriting"]
    /\ UNCHANGED <<mem, file, hist>>

\* ... and writes it back with one row changed (lines 191-192) ...
Upsert(p) ==
    /\ pc[p] = "rewriting"
    /\ \E s \in job[p].upserts :
          /\ disk' = [job[p].copy EXCEPT ![s] = job[p].rows[s]]
          /\ job' = [job EXCEPT ![p].upserts = @ \ {s}]
    /\ pc' = [pc EXCEPT ![p] = "writing"]
    /\ UNCHANGED <<mem, readable, hist>>

\* ... or, once every row is written, with one row gone (lines 193-197).
Remove(p) ==
    /\ pc[p] = "rewriting"
    /\ job[p].upserts = {}
    /\ \E s \in job[p].removes :
          /\ disk' = [job[p].copy EXCEPT ![s] = Missing]
          /\ job' = [job EXCEPT ![p].removes = @ \ {s}]
    /\ pc' = [pc EXCEPT ![p] = "writing"]
    /\ UNCHANGED <<mem, readable, hist>>

\* Lines 201-209: the work goes back for a later flush.  A rewrite that was
\* interrupted may leave a file that no longer parses.
Fail(p) ==
    /\ pc[p] \in {"writing", "rewriting"}
    /\ job[p].upserts # {} \/ job[p].removes # {}
    /\ faulty \/ ~readable
    /\ dirty' = dirty \cup job[p].tables
    /\ deleted' = deleted \cup job[p].removals
    /\ readable' \in IF pc[p] = "rewriting" THEN {readable, FALSE} ELSE {readable}
    /\ job' = [job EXCEPT ![p] = NoJob]
    /\ Return(p)
    /\ UNCHANGED <<loaded, mirror, work, idle, disk, hist>>

MFinishIdle(p) ==
    /\ pc[p] = "writing"
    /\ job[p].upserts = {}
    /\ job[p].removes = {}
    /\ idle' = TRUE
    /\ job' = [job EXCEPT ![p] = NoJob]
    /\ Return(p)
    /\ UNCHANGED <<loaded, mirror, dirty, deleted, work, file, hist>>

MFinishClearsWork(p) ==
    /\ pc[p] = "writing"
    /\ job[p].upserts = {}
    /\ job[p].removes = {}
    /\ idle' = IF Pending THEN idle ELSE TRUE
    /\ work' = FALSE
    /\ job' = [job EXCEPT ![p] = NoJob]
    /\ Return(p)
    /\ UNCHANGED <<loaded, mirror, dirty, deleted, file, hist>>

\* Lines 211-213: all of it is on disk.
Finish(p) ==
    /\ pc[p] = "writing"
    /\ job[p].upserts = {}
    /\ job[p].removes = {}
    /\ idle' = IF Pending THEN idle ELSE TRUE
    /\ job' = [job EXCEPT ![p] = NoJob]
    /\ Return(p)
    /\ UNCHANGED <<loaded, mirror, dirty, deleted, work, file, hist>>

WritePending(p) ==
    FindIdle(p) \/ TakeWork(p) \/ ReadFile(p) \/ Upsert(p) \/ Remove(p)
        \/ Fail(p) \/ Finish(p)

-----------------------------------------------------------------------------
(* The writer thread, flush(), and the end of the process.                 *)

\* _writer_loop: consume the wake-up, then wait out the debounce.
Wake ==
    /\ pc[Writer] = "waiting"
    /\ work
    /\ work' = FALSE
    /\ pc' = [pc EXCEPT ![Writer] = "ready"]
    /\ UNCHANGED <<loaded, mirror, dirty, deleted, idle, file, job, hist>>

FlushCall(f) ==
    /\ pc[f] = "off"
    /\ pc' = [pc EXCEPT ![f] = IF Pending THEN "ready" ELSE "joining"]
    /\ began' = [began EXCEPT ![f] = writes]
    /\ UNCHANGED <<mem, file, job, writes, stamp>>

\* flush() returns True when the store is idle, False when it timed out.
FlushReturnsTrue(f)  == pc[f] = "joining" /\ idle
FlushReturnsFalse(f) == pc[f] = "joining" /\ ~idle

FlushReturn(f) ==
    /\ FlushReturnsTrue(f) \/ FlushReturnsFalse(f)
    /\ pc' = [pc EXCEPT ![f] = "off"]
    /\ UNCHANGED <<mem, file, job, hist>>

\* The process is killed and started again: only the file survives.
Crash ==
    /\ readable' \in IF \E p \in Workers : pc[p] = "rewriting"
                     THEN {readable, FALSE} ELSE {readable}
    /\ loaded' = FALSE
    /\ mirror' = NoRows
    /\ dirty' = {}
    /\ deleted' = {}
    /\ work' = FALSE
    /\ idle' = TRUE
    /\ pc' = [p \in Workers |-> "off"]
    /\ job' = [p \in Workers |-> NoJob]
    /\ stamp' = [s \in Slots |-> 0]
    /\ UNCHANGED <<disk, writes, began>>

\* Worker p is inside _write_pending with a job in its hands.
Writing(p) == pc[p] \in {"writing", "rewriting"}

\* "TinyDB is never touched concurrently" (core/storage.py:80-81), although
\* flush() calls _write_pending without joining the writer.
OneWriterAtATime ==
    \A p, q \in Workers : Writing(p) /\ Writing(q) => p = q

\* _write_pending, entered with nothing pending, calls the store idle
\* (core/storage.py:177-179) only when no other worker is still writing what
\* it took earlier.  Nothing in the code enforces it.
NoEarlyIdle == idle => \A p \in Workers : ~Writing(p)

\* No key is set again while its deletion is still pending.  Nothing in the
\* code enforces that either; the application itself never deletes.
NoRevival == \A s \in deleted : mirror[s] = Missing

\* The conditions under which the store keeps its promise.
Orderly == OneWriterAtATime /\ NoEarlyIdle /\ NoRevival

\* The history of that; the environment does not change.
Watch ==
    /\ faulty' = faulty
    /\ orderly' = (orderly /\ Orderly')

Step ==
    \/ \E s \in Slots : StoreSet(s) \/ StoreDelete(s)
    \/ StoreGet
    \/ Wake
    \/ \E p \in Workers : WritePending(p)
    \/ \E f \in Flushers : FlushCall(f) \/ FlushReturn(f)
    \/ Crash

Next == Step /\ Watch

Spec == Init /\ [][Next]_vars
-----------------------------------------------------------------------------
(* What the component promises.                                            *)

\* A row is never changed on disk unless a caller of this process wrote or
\* deleted that very key, even when the mirror was loaded incompletely
\* (core/storage.py:170-174).
UntouchedRowsSurvive ==
    [][\A s \in Slots : disk'[s] # disk[s] => stamp[s] > 0]_vars

\* Pending work is never left without a wake-up: the writer has either been
\* signalled or is about to take it (_writer_loop clears the event before it
\* takes the work).  A failed flush is the one exception the code allows.
NoLostWakeup ==
    ~faulty /\ readable /\ Pending => work \/ pc[Writer] = "ready"

\* Once the store calls itself idle, whatever this process wrote or deleted is
\* on disk exactly as the mirror shows it, in spite of failed flushes, crashes
\* and incomplete loads, if the schedule has been orderly.
IdleMeansDurable ==
    orderly /\ idle => \A s \in Slots : stamp[s] > 0 => disk[s] = mirror[s]

\* flush() blocks "until every pending write has reached disk"
\* (core/storage.py:281): when it returns True, every slot last changed before
\* the call is on disk.
FlushIsLossless ==
    \A f \in Flushers : FlushReturnsTrue(f) =>
        \A s \in Slots : stamp[s] \in 1 .. began[f] => disk[s] = mirror[s]

\* A row on disk is never replaced by an older one, if the schedule has been
\* orderly: each TinyDB call rewrites the whole file from what it has read.
DiskNeverGoesBack ==
    [][\A s \in Slots : orderly' /\ disk[s] # Missing /\ disk'[s] # Missing
                            => disk'[s] >= disk[s]]_vars

\* The threads are scheduled, and every TinyDB call ends.
FairSpec ==
    /\ Spec
    /\ WF_vars(Wake /\ Watch)
    /\ \A p \in Workers : WF_vars(WritePending(p) /\ Watch)

\* Every change reaches the disk unless a newer one or a crash overtakes it, a
\* crash has left the file unreadable, or the schedule is not orderly.
ChangesReachDisk ==
    \A s \in Slots : \A n \in 1 .. MaxWrites :
        ~faulty /\ stamp[s] = n ~> stamp[s] # n \/ disk[s] = mirror[s]
                                       \/ ~readable \/ ~orderly
-----------------------------------------------------------------------------
(* Inductive invariants (see Storage_proofs).                              *)

\* What holds of a slot no call of this process has changed: the mirror shows
\* it as the disk does or not at all, and no job would alter it.
Untouched(s) ==
    /\ mirror[s] \in {disk[s], Missing}
    /\ s \notin deleted
    /\ \A p \in Workers : Writing(p) =>
          /\ s \in job[p].upserts => job[p].rows[s] = disk[s]
          /\ s \notin job[p].removes \cup job[p].removals
          /\ pc[p] = "rewriting" => job[p].copy[s] = disk[s]

UntouchedInv == \A s \in Slots : stamp[s] = 0 => Untouched(s)

\* The change of slot s still has to be taken by a worker.
Owed(s) == s \in deleted \/ (s[1] \in dirty /\ mirror[s] # Missing)

\* The worker that is writing, if any, brings slot s to what the mirror shows;
\* if it has nothing left to do there, the slot is there already.
Landing(s) ==
    /\ \A p \in Workers : Writing(p) =>
          /\ s \in job[p].upserts => job[p].rows[s] = mirror[s]
          /\ s \in job[p].removes => mirror[s] = Missing
    /\ (\A p \in Workers : Writing(p) => s \notin job[p].upserts \cup job[p].removes)
          => disk[s] = mirror[s]

\* A job remembers where its rows came from, and works on the current file.
JobSound(p) ==
    /\ \A s \in job[p].upserts : s[1] \in job[p].tables /\ job[p].rows[s] # Missing
    /\ job[p].removes \subseteq job[p].removals
    /\ pc[p] = "rewriting" => job[p].copy = disk

DurableInv ==
    /\ ~loaded => \A s \in Slots : stamp[s] = 0
    /\ idle => ~Pending
    /\ \A p \in Workers : Writing(p) => JobSound(p)
    /\ \A s \in Slots : stamp[s] > 0 => Owed(s) \/ Landing(s)
=============================================================================
