---------------------------- MODULE BulkRenamer ----------------------------
(***************************************************************************)
(* modules/extractors/bulk_renamer/logic.py: a preview proposes a new name *)
(* for each file of a directory, a run carries out the approved plan, and  *)
(* an undo reverses the pairs a run has reported.  All three work in       *)
(* threads, next to other programs that use the directory, and next to     *)
(* each other: a run that timed out goes on (see ModuleRun).               *)
(*                                                                         *)
(* One directory stands for the tree, and the regular expression and its   *)
(* template for the name they happen to propose for a file.                *)
(*                                                                         *)
(* An operator named M<Action><Change> is <Action> with a plausible bug: a *)
(* property has to fail when it takes the place of <Action>.               *)
(***************************************************************************)
EXTENDS Naturals, SequencesExt

CONSTANTS
    Sorted,      \* the names of the directory, in the order of _walk
    Fold,        \* each name in lower case
    Systems,     \* the kinds of machine to consider
    Files,       \* files (inodes), those there and those to come
    NoFile,      \* "no file under this name"
    Threads,     \* worker threads
    MaxCalls,    \* bound on the runs and undos started
    MaxUpsets    \* bound on what goes wrong: other programs, errors, timeouts

\* sys: Windows, a POSIX system, or one on a file system without hard links;
\* folds: does the file system take names that differ in case for one?
Machine == [sys: {"windows", "posix", "nolinks"}, folds: BOOLEAN]
Names   == ToSet(Sorted)

ASSUME BulkRenamerAssumption ==
    /\ Sorted \in Seq(Names) /\ IsInjective(Sorted)
    /\ Fold \in [Names -> Names]
    /\ \A n \in Names : Fold[Fold[n]] = Fold[n]
    /\ Systems \subseteq Machine
    /\ NoFile \notin Files
    /\ MaxCalls \in Nat /\ MaxUpsets \in Nat

VARIABLES
    machine,     \* environment: the machine this execution runs on
    dir,         \* the file under each name
    kept,        \* files their owner has put there and has not deleted
    preview,     \* the preview being computed
    plan,        \* the preview on screen, as the pairs it would rename
    undo,        \* the result on screen, as the pairs it can undo
    call,        \* what each worker thread does
    calls,       \* runs and undos still to start
    upsets,      \* upsets still to come
    calm         \* history: has no one come between a check and its use?

vars == <<machine, dir, kept, preview, plan, undo, call, calls, upsets, calm>>

Pair  == [old: Names, new: Names]
Dir   == [Names -> Files \cup {NoFile}]
Empty == [n \in Names |-> NoFile]

\* quiet, here and below, is history: has nothing else touched the directory
\* since the preview this derives from began?
Preview   == [todo: Seq(Names), pairs: Seq(Pair), quiet: BOOLEAN]
NoPreview == [todo |-> <<>>, pairs |-> <<>>, quiet |-> FALSE]
Plan      == [pairs: Seq(Pair), quiet: BOOLEAN]
NoPlan    == [pairs |-> <<>>, quiet |-> FALSE]

\* A call has pairs to rename and pairs renamed.  heard: is its result still
\* waited for?  before, history: the directory a run has found, or the one an
\* undo is to bring back, as long as all is quiet.
Call   == [kind: {"rename", "undo"}, at: {"check", "move", "unlink", "over"},
           todo: Seq(Pair), done: Seq(Pair), heard: BOOLEAN, quiet: BOOLEAN, before: Dir]
NoCall == [kind |-> "none"]
Undo   == [pairs: Seq(Pair), before: Dir, quiet: BOOLEAN]
NoUndo == [pairs |-> <<>>, before |-> Empty, quiet |-> FALSE]

TypeOK ==
    /\ machine \in Systems
    /\ dir \in Dir
    /\ kept \subseteq Files
    /\ preview \in Preview \cup {NoPreview}
    /\ plan \in Plan
    /\ undo \in Undo
    /\ call \in [Threads -> Call \cup {NoCall}]
    /\ calls \in 0..MaxCalls /\ upsets \in 0..MaxUpsets
    /\ calm \in BOOLEAN

-----------------------------------------------------------------------------
(* The directory.                                                          *)

SameName(n, m) == IF machine.folds THEN Fold[n] = Fold[m] ELSE n = m

\* Path.__eq__: of the systems, only Windows compares paths without case.
SamePath(n, m) == IF machine.sys = "windows" THEN Fold[n] = Fold[m] ELSE n = m

\* The entry a path leads to, if any.
EntryOf(n) == {m \in Names : dir[m] # NoFile /\ SameName(m, n)}
Exists(n)  == EntryOf(n) # {}
FileAt(n)  == IF Exists(n) THEN dir[CHOOSE m \in EntryOf(n) : TRUE] ELSE NoFile

\* _same_file
SameFile(n, m) == Exists(n) /\ FileAt(n) = FileAt(m)

\* rename(2) replaces, and does nothing to two names of one file.
Renamed(n, m) ==
    IF SameFile(n, m) /\ EntryOf(n) # EntryOf(m) THEN dir
    ELSE [k \in Names |-> IF k = m THEN FileAt(n)
                          ELSE IF k \in EntryOf(n) \cup EntryOf(m) THEN NoFile ELSE dir[k]]

Init ==
    /\ machine \in Systems
    /\ dir \in Dir
    /\ \A n, m \in Names : dir[n] # NoFile /\ (SameName(n, m) \/ dir[n] = dir[m]) =>
          n = m \/ dir[m] = NoFile
    /\ kept = {dir[n] : n \in Names} \ {NoFile}
    /\ preview = NoPreview
    /\ plan = NoPlan
    /\ undo = NoUndo
    /\ call = [t \in Threads |-> NoCall]
    /\ calls = MaxCalls /\ upsets = MaxUpsets
    /\ calm = TRUE

-----------------------------------------------------------------------------
(* Other programs, and the system calls that fail.                         *)

Active(t) == call[t].kind # "none"
Alone     == \A t \in Threads : ~Active(t)

\* Calls c, the preview, the plan and the result, none of them quiet any longer.
Loud(c) == [t \in Threads |-> IF c[t].kind = "none" THEN c[t]
                              ELSE [c[t] EXCEPT !.quiet = FALSE, !.before = Empty]]
Disturb ==
    /\ preview' = [preview EXCEPT !.quiet = FALSE]
    /\ plan' = [plan EXCEPT !.quiet = FALSE]
    /\ undo' = [undo EXCEPT !.quiet = FALSE, !.before = Empty]

Upset == upsets > 0 /\ upsets' = upsets - 1 /\ UNCHANGED calls
Usual == UNCHANGED <<calls, upsets>>

UserCreates(f, n) ==
    /\ f \notin kept \cup {dir[m] : m \in Names}
    /\ ~Exists(n)
    /\ dir' = [dir EXCEPT ![n] = f]
    /\ kept' = kept \cup {f}
    /\ call' = Loud(call)
    /\ Disturb
    /\ Upset
    /\ UNCHANGED machine

UserDeletes(n) ==
    /\ dir[n] # NoFile
    /\ dir' = [dir EXCEPT ![n] = NoFile]
    /\ kept' = kept \ {dir[n]}
    /\ call' = Loud(call)
    /\ Disturb
    /\ Upset
    /\ UNCHANGED machine

-----------------------------------------------------------------------------
(* preview                                                                 *)

\* quiet starts with no thread at work and no hard links in the directory, which
\* a run that failed between link and unlink leaves behind.
OneName == \A n, m \in Names : dir[n] # NoFile /\ dir[n] = dir[m] => n = m

\* The names of P, each once and in the order of _walk: one sequence, that is.
Before(n, m) == \E i, j \in DOMAIN Sorted : i < j /\ Sorted[i] = n /\ Sorted[j] = m
Listings(P)  == {s \in [1..Cardinality(P) -> P] : \A i, j \in DOMAIN s : i < j => Before(s[i], s[j])}

\* _walk lists the files ...
PreviewStart ==
    /\ preview.todo = <<>>
    /\ \E s \in Listings({n \in Names : dir[n] # NoFile}) \ {<<>>} :
          preview' = [todo |-> s, pairs |-> <<>>, quiet |-> Alone /\ OneName]
    /\ Usual
    /\ UNCHANGED <<machine, dir, kept, plan, undo, call>>

\* ... and _preview_one proposes a name for each, or none that is to be used:
\* the pattern does not match, or the name stays, or is unsafe, or already
\* promised to another file of this preview, or another file has it.
Proposable(h, n) ==
    /\ n # h
    /\ \A p \in ToSet(preview.pairs) : ~SamePath(p.new, n)
    /\ Exists(n) => SameFile(n, h)

PreviewOne ==
    /\ preview.todo # <<>>
    /\ LET h == Head(preview.todo) IN
       \E s \in {<<>>} \cup {<<[old |-> h, new |-> n]>> : n \in {m \in Names : Proposable(h, m)}} :
          LET p == [preview EXCEPT !.todo = Tail(@), !.pairs = @ \o s] IN
          IF p.todo # <<>>
          THEN preview' = p /\ UNCHANGED plan
          ELSE /\ preview' = NoPreview
               /\ plan' = [pairs |-> p.pairs, quiet |-> p.quiet]
    /\ Usual
    /\ UNCHANGED <<machine, dir, kept, undo, call>>

-----------------------------------------------------------------------------
(* rename and undo                                                         *)

Start(t, kind, pairs, quiet, before) ==
    /\ ~Active(t)
    /\ pairs # <<>>
    /\ call' = [Loud(call) EXCEPT ![t] =
                  [kind |-> kind, at |-> "check", todo |-> pairs, done |-> <<>>, heard |-> TRUE,
                   quiet |-> quiet /\ Alone,
                   before |-> IF quiet /\ Alone THEN before ELSE Empty]]
    /\ Disturb
    /\ calls > 0 /\ calls' = calls - 1
    /\ UNCHANGED <<machine, dir, kept, upsets>>

\* The Run button: the plan on screen is carried out as it is.
Run(t) == Start(t, "rename", plan.pairs, plan.quiet, dir)

\* The Undo button of the result on screen.
UndoRun(t) ==
    Start(t, "undo", [i \in DOMAIN undo.pairs |-> [old |-> undo.pairs[i].new, new |-> undo.pairs[i].old]],
          undo.quiet, undo.before)

\* The pair thread t is at.
Source(t) == Head(call[t].todo).old
Target(t) == Head(call[t].todo).new

At(t, place) == Active(t) /\ call[t].at = place /\ call[t].todo # <<>>

Goto(t, place) == call' = [call EXCEPT ![t].at = place]
Skip(t) == call' = [call EXCEPT ![t].at = "check", ![t].todo = Tail(@)]
Did(t)  == call' = [call EXCEPT ![t].at = "check", ![t].todo = Tail(@),
                                ![t].done = Append(@, Head(call[t].todo))]

MStaleTaken(t) ==
    \/ ~Exists(Source(t))
    \/ call[t].kind = "rename" /\ \E p \in ToSet(call[t].done) : SamePath(p.new, Target(t))
    \/ Exists(Target(t))

\* _stale_reason, and the same checks in undo, which keeps no list of the names
\* it has taken.
Stale(t) ==
    \/ ~Exists(Source(t))
    \/ call[t].kind = "rename" /\ \E p \in ToSet(call[t].done) : SamePath(p.new, Target(t))
    \/ Exists(Target(t)) /\ ~SameFile(Target(t), Source(t))

Check(t) ==
    /\ At(t, "check")
    /\ IF Stale(t) THEN Skip(t)
       ELSE Goto(t, IF call[t].kind = "undo" /\ machine.sys # "windows" THEN "over" ELSE "move")
    /\ Usual
    /\ UNCHANGED <<machine, dir, kept, preview, plan, undo>>

\* Windows: Path.rename raises if another entry has the name.
MoveOnWindows(t) ==
    /\ At(t, "move")
    /\ machine.sys = "windows"
    /\ IF Exists(Source(t)) /\ (Exists(Target(t)) => EntryOf(Target(t)) = EntryOf(Source(t)))
       THEN dir' = Renamed(Source(t), Target(t)) /\ Did(t)
       ELSE Skip(t) /\ UNCHANGED dir
    /\ Usual
    /\ UNCHANGED <<machine, kept, preview, plan, undo>>

MLinkSkipped(t) ==
    /\ At(t, "move")
    /\ machine.sys # "windows"
    /\ Goto(t, "over")
    /\ Usual
    /\ UNCHANGED <<machine, dir, kept, preview, plan, undo>>

\* Elsewhere os.link comes first.  It raises if the name is taken, even by the
\* file itself in other letters; without hard links it leaves it to rename.
Link(t) ==
    /\ At(t, "move")
    /\ machine.sys # "windows"
    /\ IF ~Exists(Source(t)) \/ Exists(Target(t)) THEN Skip(t) /\ UNCHANGED dir
       ELSE IF machine.sys = "nolinks" THEN Goto(t, "over") /\ UNCHANGED dir
       ELSE dir' = [dir EXCEPT ![Target(t)] = FileAt(Source(t))] /\ Goto(t, "unlink")
    /\ Usual
    /\ UNCHANGED <<machine, kept, preview, plan, undo>>

MUnlinkForgotten(t) ==
    /\ At(t, "unlink")
    /\ Did(t)
    /\ Usual
    /\ UNCHANGED <<machine, dir, kept, preview, plan, undo>>

\* The old name goes once the new one is there.
Unlink(t) ==
    /\ At(t, "unlink")
    /\ IF Exists(Source(t))
       THEN dir' = [n \in Names |-> IF n \in EntryOf(Source(t)) THEN NoFile ELSE dir[n]] /\ Did(t)
       ELSE Skip(t) /\ UNCHANGED dir
    /\ Usual
    /\ UNCHANGED <<machine, kept, preview, plan, undo>>

\* Path.rename on POSIX: whatever has the name by now is replaced.
RenameOver(t) ==
    /\ At(t, "over")
    /\ IF Exists(Source(t)) THEN dir' = Renamed(Source(t), Target(t)) /\ Did(t)
       ELSE Skip(t) /\ UNCHANGED dir
    /\ Usual
    /\ UNCHANGED <<machine, kept, preview, plan, undo>>

\* Any of these calls raises another OSError, and the pair is skipped.
Fail(t) ==
    /\ \E place \in {"move", "unlink", "over"} : At(t, place)
    /\ call' = [Loud(call) EXCEPT ![t].at = "check", ![t].todo = Tail(@)]
    /\ Disturb
    /\ Upset
    /\ UNCHANGED <<machine, dir, kept>>

\* A timeout or a cancel: nobody waits for the result, but the thread goes on.
Abandon(t) ==
    /\ Active(t)
    /\ call[t].heard
    /\ call' = [call EXCEPT ![t].heard = FALSE]
    /\ Upset
    /\ UNCHANGED <<machine, dir, kept, preview, plan, undo>>

\* The result is shown, unless there is none (ValueError) or nobody waits.
Finish(t) ==
    /\ Active(t)
    /\ call[t].todo = <<>>
    /\ undo' = IF call[t].heard /\ call[t].done # <<>>
               THEN [pairs |-> call[t].done, before |-> call[t].before,
                     quiet |-> call[t].quiet /\ call[t].kind = "rename"]
               ELSE undo
    /\ call' = [call EXCEPT ![t] = NoCall]
    /\ Usual
    /\ UNCHANGED <<machine, dir, kept, preview, plan>>

-----------------------------------------------------------------------------

\* The names a thread has looked at and will use without looking again: the one
\* an unlink removes; the one a POSIX rename replaces and, if there is something
\* to replace, the one that shows it to be the file itself.
Exposed(t) ==
    IF At(t, "unlink") THEN {Source(t)}
    ELSE IF At(t, "over") THEN {Target(t)} \cup {n \in {Source(t)} : Exists(Target(t))}
    ELSE {}

Watch ==
    calm' = (calm /\ \A t \in Threads :
                Exposed(t) # {} /\ call'[t].at = call[t].at =>
                    \A n \in Exposed(t) : FileAt(n)' = FileAt(n))

Step ==
    \/ \E n \in Names : UserDeletes(n) \/ \E f \in Files : UserCreates(f, n)
    \/ PreviewStart \/ PreviewOne
    \/ \E t \in Threads :
          \/ Run(t) \/ UndoRun(t) \/ Check(t) \/ MoveOnWindows(t) \/ Link(t) \/ Unlink(t)
          \/ RenameOver(t) \/ Fail(t) \/ Abandon(t) \/ Finish(t)

Next == Step /\ Watch
Spec == Init /\ [][Next]_vars

-----------------------------------------------------------------------------
(* What the renamer promises.                                              *)

\* "Nothing is removed from disk" (logic.py:13): every file its owner has not
\* deleted has a name, however runs, undos and other programs interleave, as
\* long as nobody changes a name in the instant between a check and the one call
\* that depends on it -- the unlink that ends a rename, the replacing rename of
\* an undo, and of a rename where hard links are missing.
NothingLost == calm => \A f \in kept : \E n \in Names : dir[n] = f

\* The step passes over a pair of a run although nothing has touched the
\* directory since the preview.
Skips(t) ==
    /\ Active(t) /\ call[t].kind = "rename" /\ call[t].todo # <<>>
    /\ Active(t)' /\ call'[t].quiet
    /\ call'[t].todo # call[t].todo /\ call'[t].done = call[t].done

\* "What was shown is exactly what runs" (logic.py:5-7): no pair of an undisturbed
\* plan is passed over -- on Windows, and wherever names in other letters are
\* other names.  (Elsewhere a pair that only changes case is refused by os.link,
\* and two names that differ in case only are promised to two files.)
ShownIsRun == [][\A t \in Threads : Skips(t) => machine.folds /\ machine.sys # "windows"]_vars

\* An undo brings the directory back as the run has found it, if nothing else
\* has touched it since the preview.
RoundTrip ==
    \A t \in Threads :
        Active(t) /\ call[t].kind = "undo" /\ call[t].quiet /\ call[t].todo = <<>> =>
            dir = call[t].before
=============================================================================
