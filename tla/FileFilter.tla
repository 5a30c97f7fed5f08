----------------------------- MODULE FileFilter -----------------------------
(***************************************************************************)
(* modules/extractors/file_filter: a scan counts what a tree holds, a run  *)
(* copies, moves, archives or lists the ticked types of a tree, and Undo   *)
(* moves a Move run's files back -- outside the sandbox, so next to a run. *)
(* A run that was cancelled or timed out is no longer heard; its thread    *)
(* goes on writing.                                                        *)
(*                                                                         *)
(* Exclude patterns only thin a tree out, and are left out; a walk is one  *)
(* step.  Files are told apart by content: a number each.                  *)
(*                                                                         *)
(* An operator named M<Name><Change> is <Name> with a plausible bug: a     *)
(* property has to fail when it takes the place of <Name>.                 *)
(***************************************************************************)
EXTENDS Naturals, FiniteSets, SequencesExt

CONSTANTS
    Sorted,      \* the places of the trees where files can be, as a walk lists them
    Present,     \* the places where there are files to begin with
    ExtOf,       \* the extension of each name
    Jobs,        \* worker threads
    Seconds,     \* the time stamps of output folders
    MaxCalls,    \* bound on the runs and undos started
    MaxUpsets    \* bound on what goes wrong: other programs, errors, cancels

\* A place is a root, a path below it as <<directory, name>>, and the number of
\* the " (k)" that keeps it apart from others, 0 for none.  The root is a tree
\* or, for what a run writes, the tree's name and the second it was written in.
Sources == ToSet(Sorted)
Trees   == {p.root : p \in Sources}
Stamped == Trees \X Seconds
Rel     == {p.rel : p \in Sources} \cup {<<"", n>> : n \in DOMAIN ExtOf}
Place   == [root: Trees \cup Stamped, rel: Rel, k: Nat]
Pair    == [from: Place, to: Place]
NoRoot  == <<>>
Modes   == {"copy", "move", "zip", "manifest"}
Torn    == 0                          \* content of a file whose copy broke off
Content == 0..(Len(Sorted) + MaxUpsets)

ASSUME FileFilterAssumption ==
    /\ Sorted \in Seq(Place) /\ IsInjective(Sorted)
    /\ \A p \in Sources : p.k = 0 /\ p.rel[2] \in DOMAIN ExtOf
    /\ Trees \cap Stamped = {}
    /\ Present \subseteq Sources
    /\ MaxCalls \in Nat /\ MaxUpsets \in Nat

VARIABLES
    fs,          \* the content of every file there is, by its place
    kept,        \* contents their owner has put there and has not deleted
    books,       \* archives and manifests written, by <<mode, root>>
    scan,        \* the scan on screen
    job,         \* what each worker thread does, and the handler that waits for it
    last,        \* _last_result
    screen,      \* the result on screen, the same in every client
    calls,       \* runs and undos still to start
    upsets,      \* upsets still to come
    raced        \* history: has a name been taken after a thread had found it free?

vars == <<fs, kept, books, scan, job, last, screen, calls, upsets, raced>>

\* quiet is history throughout: has nothing else touched files since?
Scan   == [tree: Trees, found: SUBSET Sources, quiet: BOOLEAN]
NoScan == [tree |-> "none", found |-> {}, quiet |-> FALSE]

\* before (history): the tree as the run has found it; asked (history): the files
\* that were confirmed, none if the scan behind it was of another tree or is stale.
Tree     == SUBSET (Place \X Content)
Result   == [mode: Modes \cup {"undo"}, flat: BOOLEAN, root: Stamped, pairs: Seq(Pair),
             quiet: BOOLEAN, before: Tree, asked: SUBSET Sources]
NoResult == [mode |-> "none", pairs |-> <<>>, quiet |-> FALSE]

Job   == [mode: Modes \cup {"undo"}, at: {"select", "check", "choose", "carry", "pack", "publish"},
          tree: Trees, flat: BOOLEAN, wanted: SUBSET {ExtOf[n] : n \in DOMAIN ExtOf},
          root: Stamped \cup {NoRoot}, todo: Seq(Pair), done: Seq(Pair), dest: Place, packed: Seq([rel: Rel, content: Content]),
          heard: BOOLEAN, quiet: BOOLEAN, before: Tree, asked: SUBSET Sources]
NoJob == [mode |-> "none"]

TypeOK ==
    /\ DOMAIN fs \subseteq Place /\ IsFiniteSet(DOMAIN fs) /\ \A p \in DOMAIN fs : fs[p] \in Content
    /\ kept \subseteq Content
    /\ \A b \in DOMAIN books : b \in {"zip", "manifest"} \X Stamped
    /\ scan \in Scan \cup {NoScan}
    /\ job \in [Jobs -> Job \cup {NoJob}]
    /\ {last, screen} \subseteq Result \cup {NoResult}
    /\ calls \in 0..MaxCalls /\ upsets \in 0..MaxUpsets
    /\ raced \in BOOLEAN

-----------------------------------------------------------------------------
(* Files and trees.                                                        *)

Exists(p)    == p \in DOMAIN fs
With(f, p, c) == [q \in DOMAIN f \cup {p} |-> IF q = p THEN c ELSE f[q]]
Without(f, p) == Restrict(f, DOMAIN f \ {p})
TreeNow(t)   == {<<p, fs[p]>> : p \in {q \in DOMAIN fs : q.root = t}}

\* extension_of
Extension(p) == ExtOf[p.rel[2]]

MMatchingAll(t, wanted) == {p \in Sources : p.root = t /\ Exists(p)}

\* walk and select; no extension at all would mean every file.  (Not listed: a file
\* an undo has had to number, a name taken under its hands.)
Matching(t, wanted) == {p \in Sources : p.root = t /\ Exists(p) /\ Extension(p) \in wanted}

\* The places in S, each once and in the order of the walk: one sequence, that is.
Before(p, q) == \E i, k \in DOMAIN Sorted : i < k /\ Sorted[i] = p /\ Sorted[k] = q
Listings(S)  == {s \in [1..Cardinality(S) -> S] : \A i, k \in DOMAIN s : i < k => Before(s[i], s[k])}

MUniqueDestinationKept(p) == p

\* unique_destination: the first of the names "x", "x (1)", ... nobody has; with n
\* files there are, one of the first n + 1 is free.
UniqueDestination(p) ==
    [p EXCEPT !.k = CHOOSE k \in 0..Cardinality(DOMAIN fs) :
        /\ ~Exists([p EXCEPT !.k = k])
        /\ \A i \in 0..(k - 1) : Exists([p EXCEPT !.k = i])]

MRelativeTargetName(p, flat) == <<"", p.rel[2]>>

\* _relative_target
RelativeTarget(p, flat) == IF flat THEN <<"", p.rel[2]>> ELSE p.rel

Init ==
    /\ fs = [p \in Present |-> CHOOSE i \in DOMAIN Sorted : Sorted[i] = p]
    /\ kept = Range(fs)
    /\ books = <<>>
    /\ scan = NoScan
    /\ job = [j \in Jobs |-> NoJob]
    /\ last = NoResult /\ screen = NoResult
    /\ calls = MaxCalls /\ upsets = MaxUpsets
    /\ raced = FALSE

-----------------------------------------------------------------------------
(* Other programs.                                                         *)

Active(j) == job[j].mode # "none"
Alone     == \A j \in Jobs : ~Active(j)

\* The jobs, with none quiet any longer but those in spared.
Loud(js, spared) ==
    [j \in Jobs |-> IF js[j].mode = "none" \/ j \in spared THEN js[j]
                    ELSE [js[j] EXCEPT !.quiet = FALSE, !.before = {}, !.asked = {}]]
Hush(r)  == IF r.mode = "none" THEN r
            ELSE [r EXCEPT !.quiet = FALSE, !.before = {}, !.asked = {}]
Disturb  == /\ scan' = [scan EXCEPT !.quiet = FALSE]
            /\ last' = Hush(last)
            /\ screen' = Hush(screen)
Upset    == upsets > 0 /\ upsets' = upsets - 1 /\ UNCHANGED calls
Usual    == UNCHANGED <<calls, upsets>>

\* Somebody puts a new file into a tree, or deletes one.
UserCreates(p) ==
    /\ ~Exists(p)
    /\ fs' = With(fs, p, Len(Sorted) + upsets)
    /\ kept' = kept \cup {Len(Sorted) + upsets}
    /\ job' = Loud(job, {})
    /\ Disturb /\ Upset
    /\ UNCHANGED books

UserDeletes(p) ==
    /\ Exists(p)
    /\ fs' = Without(fs, p)
    /\ kept' = kept \ {fs[p]}
    /\ job' = Loud(job, {})
    /\ Disturb /\ Upset
    /\ UNCHANGED books

-----------------------------------------------------------------------------
(* The panel.                                                              *)

\* scan
Counted(t) == {p \in Sources : p.root = t /\ Exists(p)}

\* _on_scan_click, _on_scan and _on_scanned
ScanTree(t) ==
    /\ scan' = [tree |-> t, found |-> Counted(t), quiet |-> Alone]
    /\ scan' # scan
    /\ Usual
    /\ UNCHANGED <<fs, kept, books, job, last, screen>>

Start(j, new) ==
    /\ ~Active(j)
    /\ calls > 0 /\ calls' = calls - 1
    /\ job' = [Loud(job, {}) EXCEPT ![j] = new]
    /\ UNCHANGED <<fs, kept, books, upsets>>

Somewhere == Sorted[1]
Fresh(mode, t) ==
    [mode |-> mode, at |-> "select", tree |-> t, flat |-> FALSE, wanted |-> {}, root |-> NoRoot, todo |-> <<>>,
     done |-> <<>>, dest |-> Somewhere, packed |-> <<>>, heard |-> TRUE, quiet |-> FALSE, before |-> {},
     asked |-> {}]

\* The rows of the checklist: a type each.
Tickable == {Extension(p) : p \in scan.found}

\* What the confirmation counts.
Impact(wanted) == {p \in scan.found : Extension(p) \in wanted}

\* _on_run_click, _start and the head of _on_execute.  The tree is the one in the
\* form; the impact that is confirmed is that of the scan, of another tree perhaps.
Run(j, t, mode, flat, wanted) ==
    /\ scan.tree # "none"
    /\ wanted # {} /\ wanted \subseteq Tickable
    /\ Start(j, [Fresh(mode, t) EXCEPT !.flat = flat, !.wanted = wanted, !.quiet = Alone /\ mode # "copy",
                   !.asked = IF scan.quiet /\ Alone /\ scan.tree = t /\ mode # "copy"
                             THEN Impact(wanted) ELSE {}])
    /\ last' = NoResult
    /\ screen' = Hush(screen) /\ scan' = [scan EXCEPT !.quiet = FALSE]

Reversed(pairs) == [i \in DOMAIN pairs |-> [from |-> pairs[i].to, to |-> pairs[i].from]]

\* _on_undo_click and the head of _on_undo, which takes no turn in the sandbox.
UndoRun(j) ==
    /\ screen.pairs # <<>>
    /\ Start(j, [Fresh("undo", screen.root[1]) EXCEPT !.at = "check", !.root = screen.root,
                   !.todo = Reversed(screen.pairs), !.quiet = screen.quiet /\ Alone,
                   !.before = IF screen.quiet /\ Alone THEN screen.before ELSE {}])
    /\ last' = Hush(last)
    /\ screen' = Hush(screen) /\ scan' = [scan EXCEPT !.quiet = FALSE]

-----------------------------------------------------------------------------
(* The worker threads.                                                     *)

At(j, place) == Active(j) /\ job[j].at = place
This(j)      == Head(job[j].todo)
More(j, place) == At(j, place) /\ job[j].todo # <<>>
Book(j)      == <<job[j].mode, job[j].root>>

First(mode) == IF mode \in {"copy", "move"} THEN "choose" ELSE "pack"
Goto(j, place) == job' = [job EXCEPT ![j].at = place]
Skip(j) == job' = [job EXCEPT ![j].todo = Tail(@), ![j].at = IF @ = "carry" /\ job[j].mode = "undo" THEN "check"
                                                              ELSE First(job[j].mode)]

\* The head of execute: select lists the files, and what they go to is named after
\* the tree and the second on the clock, perhaps that of another run; opening an
\* archive empties one of that name.
Select(j) ==
    /\ At(j, "select")
    /\ LET found == Matching(job[j].tree, job[j].wanted)
       IN IF found = {} \/ ~job[j].heard
          THEN job' = [job EXCEPT ![j] = NoJob] /\ UNCHANGED books
          ELSE \E m \in Listings(found), r \in {job[j].tree} \X Seconds :
               /\ job' = [job EXCEPT ![j].at = First(job[j].mode), ![j].root = r, ![j].wanted = {},
                            ![j].todo = [i \in DOMAIN m |-> [from |-> m[i], to |->
                                [root |-> r, rel |-> RelativeTarget(m[i], job[j].flat), k |-> 0]]],
                            ![j].before = IF job[j].quiet THEN TreeNow(job[j].tree) ELSE {}]
               /\ books' = IF job[j].mode = "zip" THEN With(books, <<"zip", r>>, <<>>) ELSE books
    /\ Usual
    /\ UNCHANGED <<fs, kept, scan, last, screen>>

\* undo passes over a pair that is gone, or whose old place is taken.
Check(j) ==
    /\ More(j, "check")
    /\ IF Exists(This(j).from) /\ ~Exists(This(j).to) THEN Goto(j, "choose")
       ELSE job' = [job EXCEPT ![j].todo = Tail(@)]
    /\ Usual
    /\ UNCHANGED <<fs, kept, books, scan, last, screen>>

\* safe_copy, safe_move: a free name is found first ...
Choose(j) ==
    /\ More(j, "choose")
    /\ job' = [job EXCEPT ![j].at = "carry", ![j].dest = UniqueDestination(This(j).to)]
    /\ Usual
    /\ UNCHANGED <<fs, kept, books, scan, last, screen>>

MCarriedAsAsked(j) == This(j)

\* A MovedPair holds the place the file has landed at.
Carried(j) == [This(j) EXCEPT !.to = job[j].dest]

\* ... and then written, whatever is there by now; a file that is gone is skipped.
Carry(j) ==
    /\ More(j, "carry")
    /\ IF Exists(This(j).from)
       THEN /\ fs' = With(IF job[j].mode = "copy" THEN fs ELSE Without(fs, This(j).from),
                          job[j].dest, fs[This(j).from])
            /\ job' = [Loud(job, {j}) EXCEPT
                         ![j].at = IF job[j].mode = "undo" THEN "check" ELSE "choose",
                         ![j].todo = Tail(@), ![j].done = Append(@, Carried(j))]
            /\ scan' = [scan EXCEPT !.quiet = FALSE] /\ last' = Hush(last) /\ screen' = Hush(screen)
       ELSE Skip(j) /\ UNCHANGED <<fs, scan, last, screen>>
    /\ Usual
    /\ UNCHANGED <<kept, books>>

\* archive.write, or a row of the manifest.
Pack(j) ==
    /\ More(j, "pack")
    /\ job' = [job EXCEPT ![j].todo = Tail(@),
                 ![j].packed = IF Exists(This(j).from)
                    THEN Append(@, [rel |-> This(j).to.rel, content |-> fs[This(j).from]]) ELSE @]
    /\ Usual
    /\ UNCHANGED <<fs, kept, books, scan, last, screen>>

\* An OSError: the file is skipped with a warning, and half a copy may stay.
Fail(j) ==
    /\ More(j, "carry") \/ More(j, "pack")
    /\ job' = [Loud(job, {}) EXCEPT ![j].todo = Tail(@), ![j].quiet = FALSE, ![j].before = {}, ![j].asked = {},
                 ![j].at = IF job[j].mode = "undo" THEN "check" ELSE First(job[j].mode)]
    /\ fs' \in {fs, IF job[j].mode = "copy" /\ ~Exists(job[j].dest) THEN With(fs, job[j].dest, Torn) ELSE fs}
    /\ Disturb /\ Upset
    /\ UNCHANGED <<kept, books>>

-----------------------------------------------------------------------------
(* The handlers.                                                           *)

\* A cancel or a timeout.  undo has neither.
LetGo(j) ==
    /\ Active(j) /\ job[j].heard /\ job[j].mode # "undo"
    /\ job' = IF job[j].at = "publish" THEN [job EXCEPT ![j] = NoJob] ELSE [job EXCEPT ![j].heard = FALSE]
    /\ Upset
    /\ UNCHANGED <<fs, kept, books, scan, last, screen>>

ResultOf(j) ==
    [mode |-> job[j].mode, flat |-> job[j].flat, root |-> job[j].root,
     pairs |-> IF job[j].mode = "move" THEN job[j].done ELSE <<>>,
     quiet |-> job[j].quiet, before |-> job[j].before, asked |-> job[j].asked]

Written(j) == Active(j) /\ job[j].at \in {"choose", "pack", "check"} /\ job[j].todo = <<>>

\* The tail of execute: the file of an archive or a manifest is complete, and the
\* result is kept, unless nobody waits.
Finish(j) ==
    /\ Written(j) /\ job[j].mode # "undo"
    /\ books' = IF job[j].mode \in {"zip", "manifest"} THEN With(books, Book(j), job[j].packed) ELSE books
    /\ IF job[j].heard
       THEN Goto(j, "publish") /\ last' = ResultOf(j)
       ELSE job' = [job EXCEPT ![j] = NoJob] /\ UNCHANGED last
    /\ Usual
    /\ UNCHANGED <<fs, kept, scan, screen>>

\* _on_done: the result takes the place of the one on screen, and of its Undo.
Show(r) == screen' = r

\* The tail of _on_execute: whatever result is there by now is shown.
Publish(j) ==
    /\ At(j, "publish")
    /\ IF last.mode # "none" THEN Show(last) ELSE UNCHANGED screen
    /\ job' = [job EXCEPT ![j] = NoJob]
    /\ Usual
    /\ UNCHANGED <<fs, kept, books, scan, last>>

\* The tail of _on_undo: its own result, or an error if nothing came back.
FinishUndo(j) ==
    /\ Written(j) /\ job[j].mode = "undo"
    /\ IF job[j].done # <<>> THEN last' = ResultOf(j) /\ Show(ResultOf(j))
       ELSE UNCHANGED <<last, screen>>
    /\ job' = [job EXCEPT ![j] = NoJob]
    /\ Usual
    /\ UNCHANGED <<fs, kept, books, scan>>

-----------------------------------------------------------------------------

Watch ==
    raced' = (raced \/ \E j \in Jobs : /\ At(j, "carry") /\ At(j, "carry")' /\ This(j)' = This(j)
                                       /\ job[j].dest \in DOMAIN fs' \ DOMAIN fs)

Step ==
    \/ \E p \in Sources : UserCreates(p) \/ UserDeletes(p)
    \/ \E t \in Trees : ScanTree(t)
    \/ \E j \in Jobs :
          \/ \E t \in Trees, mode \in Modes, flat \in BOOLEAN, wanted \in SUBSET {ExtOf[n] : n \in DOMAIN ExtOf} :
                Run(j, t, mode, flat, wanted)
          \/ UndoRun(j) \/ Select(j) \/ Check(j) \/ Choose(j) \/ Carry(j) \/ Pack(j) \/ Fail(j)
          \/ LetGo(j) \/ Finish(j) \/ Publish(j) \/ FinishUndo(j)

Next == Step /\ Watch
Spec == Init /\ [][Next]_vars

-----------------------------------------------------------------------------
(* What the filter promises.                                               *)

\* Copies and moves "never overwrite silently" (shared/file_utils.py:4), and a
\* move "is not destructive" (logic.py, _write_files): every content its owner
\* has not deleted is still in some file, however runs, abandoned runs and undos
\* overlap, unless a name was taken between the look and the move.
NothingLost == ~raced => \A c \in kept : \E p \in DOMAIN fs : fs[p] = c

\* An undo that nothing has come between brings the tree back as the run has
\* found it, files of one name in a flat folder included (models.py, MovedPair).
RoundTrip ==
    \A j \in Jobs :
        Active(j) /\ job[j].mode = "undo" /\ job[j].quiet /\ job[j].todo = <<>> =>
            TreeNow(job[j].tree) = job[j].before

\* What a Move run offers to undo is what was confirmed, file by file, if the form
\* still named the scanned tree and nothing has come between scan and result:
\* neither a failed cancel, nor the result of another run, nor one of an undo.
MovesAsConfirmed ==
    screen.mode = "move" /\ screen.quiet /\ screen.asked # {} =>
        /\ {p.from : p \in ToSet(screen.pairs)} = screen.asked
        /\ \A p \in ToSet(screen.pairs) : <<p.from, fs[p.to]>> \in screen.before

\* An archive, once shown, gives every file of the run back when it is unpacked,
\* and a manifest lists them, if the folders are kept.  (Flat, files of one name
\* get one name in the archive, and unpacking it leaves the last.)
Unpacked(entries) ==
    {<<e.rel, e.content>> : e \in {entries[i] : i \in {n \in DOMAIN entries :
        \A k \in DOMAIN entries : k > n => entries[k].rel # entries[n].rel}}}

ArchiveIsWhole ==
    screen.mode \in {"zip", "manifest"} /\ screen.quiet /\ ~screen.flat =>
        \E b \in DOMAIN books : b = <<screen.mode, screen.root>> /\
            (screen.asked # {} =>
                Unpacked(books[b]) = {<<x[1].rel, x[2]>> : x \in {y \in screen.before : y[1] \in screen.asked}})
=============================================================================
