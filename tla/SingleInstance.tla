--------------------------- MODULE SingleInstance ---------------------------
(***************************************************************************)
(* core/single_instance.py: the lock file that lets one OmniForge run at a *)
(* time.  Every launch is a process of its own identity (the record holds  *)
(* the PID and the start time, so a recycled PID is another process).  A   *)
(* system call on the lock path is one step; whatever the code does        *)
(* between two of them may interleave with the other launches.             *)
(*                                                                         *)
(* An operator named M<Action><Change> is <Action> with a plausible bug: a *)
(* property has to fail when it takes the place of <Action>.               *)
(*                                                                         *)
(* The names of the specification as a whole begin with Launch: one module *)
(* of proofs extends this one beside Lifecycle.                            *)
(***************************************************************************)
EXTENDS Integers

CONSTANTS
    Procs,          \* the launches of the application, past and to come
    NoFile,         \* "the lock path does not exist"
    NoRecord,       \* "no owner could be read"
    ReadAttempts,   \* LOCK_READ_ATTEMPTS
    PromptWriters   \* does a live winner write its record within that window?

ASSUME SingleInstanceAssumption ==
    /\ ReadAttempts \in Nat \ {0}
    /\ NoRecord \notin Procs
    /\ PromptWriters \in BOOLEAN

\* A lock file: who created it, and whether the record has been written.  A
\* process that writes to a file unlinked in the meantime changes nothing
\* others can see, so the creator stands for the inode.
File == [by: Procs, written: BOOLEAN]

ASSUME NoFileAssumption == NoFile \notin File

MAttemptsOne == 1

Attempts == 2    \* range(2) in acquire

VARIABLES
    lock,      \* what the lock path names
    pc,        \* where each process is
    attempt,   \* iterations of acquire's loop that are over
    reads,     \* reads _await_record has made in this iteration
    record,    \* what _await_record returned
    alone,     \* history: has the launch had no live rival so far?
    faulty     \* environment: may a system call raise OSError?

launchVars == <<lock, pc, attempt, reads, record, alone, faulty>>

\* off: not launched; gone: exited or killed; refused: acquire returned False.
Places == {"off", "create", "write", "read", "judge", "unlink",
           "running", "refused", "gone"}

LaunchTypeOK ==
    /\ lock \in File \cup {NoFile}
    /\ pc \in [Procs -> Places]
    /\ attempt \in [Procs -> 0 .. Attempts]
    /\ reads \in [Procs -> 0 .. ReadAttempts]
    /\ record \in [Procs -> Procs \cup {NoRecord}]
    /\ alone \in [Procs -> BOOLEAN]
    /\ faulty \in BOOLEAN

Alive(p) == pc[p] \notin {"off", "refused", "gone"}

\* Earlier launches are gone; one of them may have left its lock behind, with
\* its record or (killed before writing it) without.
LaunchInit ==
    /\ pc \in [Procs -> {"off", "gone"}]
    /\ lock \in {NoFile} \cup {f \in File : pc[f.by] = "gone"}
    /\ attempt = [p \in Procs |-> 0]
    /\ reads = [p \in Procs |-> 0]
    /\ record = [p \in Procs |-> NoRecord]
    /\ alone = [p \in Procs |-> FALSE]
    /\ faulty \in BOOLEAN

GoesTo(p, place) == pc' = [pc EXCEPT ![p] = place]

Launch(p) ==
    /\ pc[p] = "off"
    /\ GoesTo(p, "create")
    /\ alone' = [q \in Procs |-> IF q = p THEN \A r \in Procs : ~Alive(r)
                                 ELSE alone[q] /\ ~Alive(q)]
    /\ UNCHANGED <<lock, attempt, reads, record, faulty>>

MCreateWinsAlways(p) ==
    /\ pc[p] = "create"
    /\ lock' = [by |-> p, written |-> FALSE]
    /\ GoesTo(p, "write")
    /\ UNCHANGED <<attempt, reads, record, alone, faulty>>

\* os.open with O_CREAT | O_EXCL finds no file ...
CreateWins(p) ==
    /\ pc[p] = "create"
    /\ lock = NoFile
    /\ lock' = [by |-> p, written |-> FALSE]
    /\ GoesTo(p, "write")
    /\ UNCHANGED <<attempt, reads, record, alone, faulty>>

\* ... or raises FileExistsError.
CreateLoses(p) ==
    /\ pc[p] = "create"
    /\ lock # NoFile
    /\ reads' = [reads EXCEPT ![p] = 0]
    /\ GoesTo(p, "read")
    /\ UNCHANGED <<lock, attempt, record, alone, faulty>>

WriteRecord(p) ==
    /\ pc[p] = "write"
    /\ lock' = IF lock # NoFile /\ lock.by = p THEN [lock EXCEPT !.written = TRUE]
               ELSE lock
    /\ GoesTo(p, "running")
    /\ UNCHANGED <<attempt, reads, record, alone, faulty>>

Written == lock # NoFile /\ lock.written

\* A read yields no record: no file, an empty one, or one it cannot open.
Unreadable == ~Written \/ faulty

\* One read of _await_record finds a record ...
ReadRecord(p) ==
    /\ pc[p] = "read"
    /\ Written
    /\ record' = [record EXCEPT ![p] = lock.by]
    /\ GoesTo(p, "judge")
    /\ UNCHANGED <<lock, attempt, reads, alone, faulty>>

MReadNothingForever(p) ==
    /\ pc[p] = "read"
    /\ Unreadable
    /\ reads' = [reads EXCEPT ![p] = 1 - @]
    /\ UNCHANGED <<lock, pc, attempt, record, alone, faulty>>

\* ... or nothing, and is repeated ...
ReadNothing(p) ==
    /\ pc[p] = "read"
    /\ Unreadable
    /\ reads[p] + 1 < ReadAttempts
    /\ reads' = [reads EXCEPT ![p] = @ + 1]
    /\ UNCHANGED <<lock, pc, attempt, record, alone, faulty>>

\* ... or given up after the last attempt.  With PromptWriters the window
\* outlasts a live winner's write (lines 137-139).
GiveUpReading(p) ==
    /\ pc[p] = "read"
    /\ Unreadable
    /\ reads[p] + 1 = ReadAttempts
    /\ PromptWriters /\ lock # NoFile => pc[lock.by] # "write"
    /\ record' = [record EXCEPT ![p] = NoRecord]
    /\ GoesTo(p, "judge")
    /\ UNCHANGED <<lock, attempt, reads, alone, faulty>>

\* _is_owner_alive
OwnerAlive(r) == r # NoRecord /\ Alive(r)

Judge(p) ==
    /\ pc[p] = "judge"
    /\ GoesTo(p, IF OwnerAlive(record[p]) THEN "refused" ELSE "unlink")
    /\ UNCHANGED <<lock, attempt, reads, record, alone, faulty>>

\* The lock is taken for stale: whatever the path names now is removed.
Reclaim(p) ==
    /\ pc[p] = "unlink"
    /\ lock' = NoFile
    /\ attempt' = [attempt EXCEPT ![p] = @ + 1]
    /\ GoesTo(p, IF attempt[p] + 1 < Attempts THEN "create" ELSE "refused")
    /\ UNCHANGED <<reads, record, alone, faulty>>

\* An OSError from os.open or from unlink.
RefuseOnError(p) ==
    /\ faulty
    /\ pc[p] \in {"create", "unlink"}
    /\ GoesTo(p, "refused")
    /\ UNCHANGED <<lock, attempt, reads, record, alone, faulty>>

\* release() on a clean shutdown: unlink, whoever owns the file.
ReleaseLock(p) ==
    /\ pc[p] = "running"
    /\ lock' \in IF faulty THEN {NoFile, lock} ELSE {NoFile}
    /\ GoesTo(p, "gone")
    /\ UNCHANGED <<attempt, reads, record, alone, faulty>>

Crash(p) ==
    /\ Alive(p)
    /\ GoesTo(p, "gone")
    /\ UNCHANGED <<lock, attempt, reads, record, alone, faulty>>

Acquire(p) ==
    CreateWins(p) \/ CreateLoses(p) \/ WriteRecord(p) \/ ReadRecord(p) \/ ReadNothing(p)
        \/ GiveUpReading(p) \/ Judge(p) \/ Reclaim(p) \/ RefuseOnError(p)

LaunchNext == \E p \in Procs : Launch(p) \/ Acquire(p) \/ ReleaseLock(p) \/ Crash(p)

LaunchSpec     == LaunchInit /\ [][LaunchNext]_launchVars
FairLaunchSpec == LaunchSpec /\ \A p \in Procs : WF_launchVars(Acquire(p))

-----------------------------------------------------------------------------
(* What the component promises.                                            *)

\* Two instances never run at the same time (core/single_instance.py:81-86).
AtMostOneRunning ==
    ~faulty => \A p, q \in Procs : pc[p] = "running" /\ pc[q] = "running" => p = q

\* As long as no process has ever exited or crashed and no system call fails,
\* however many launches race: at most one runs, and the lock is its own.
RaceHasOneWinner ==
    ~faulty /\ (\A p \in Procs : pc[p] # "gone") =>
        \A p \in Procs : pc[p] = "running" =>
            /\ lock = [by |-> p, written |-> TRUE]
            /\ \A q \in Procs : pc[q] = "running" => q = p

\* "A crash never bars the next launch": a launch that never had a live rival
\* is not refused, whatever its predecessors left behind.
NeverLockedOut ==
    ~faulty => \A p \in Procs : pc[p] = "refused" => ~alone[p]

\* Every launch ends: it runs, it is refused, or it is killed.
LaunchSettles ==
    \A p \in Procs : pc[p] = "create" ~> pc[p] \in {"running", "refused", "gone"}

-----------------------------------------------------------------------------
(* Inductive invariants (see Lifecycle_proofs).                       *)

\* The places in acquire before the lock is created.
Trying == {"create", "read", "judge", "unlink"}

\* A launch still trying has an attempt left, has created no file, and has not
\* read its own record.
TryInv ==
    \A p \in Procs :
        /\ pc[p] = "off" => attempt[p] = 0
        /\ pc[p] \in Trying => attempt[p] < Attempts
        /\ pc[p] \in Trying \cup {"off"} => lock = NoFile \/ lock.by # p
        /\ pc[p] = "judge" => record[p] # p

\* While nobody has gone, the lock names the one process that created it, that
\* process is alive, and every record read is the record of a running process.
RaceInv ==
    ~faulty /\ (\A p \in Procs : pc[p] # "gone") =>
        /\ lock # NoFile => pc[lock.by] = IF lock.written THEN "running" ELSE "write"
        /\ \A p \in Procs : pc[p] \in {"write", "running"} => lock # NoFile /\ lock.by = p
        /\ \A p \in Procs : pc[p] = "read" => lock # NoFile
        /\ \A p \in Procs : pc[p] = "judge" =>
              record[p] # NoRecord /\ pc[record[p]] = "running"
        /\ \A p \in Procs : pc[p] # "unlink"

\* A launch without a rival meets at most one lock, that of a dead process, and
\* finds the path free in its second attempt.
AloneInv ==
    ~faulty => \A p \in Procs : alone[p] =>
        /\ pc[p] # "refused"
        /\ Alive(p) => \A q \in Procs : Alive(q) => q = p
        /\ pc[p] \in {"read", "judge", "unlink"} => attempt[p] = 0
        /\ pc[p] = "create" => attempt[p] = 0 \/ lock = NoFile
=============================================================================
