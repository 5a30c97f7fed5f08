-------------------------- MODULE DuplicateFinder --------------------------
(***************************************************************************)
(* modules/extractors/duplicate_finder: a scan groups the files of a tree  *)
(* by size and digest, and a resolve keeps one file of each group the user *)
(* has confirmed and recycles the others.  Scan and resolve read one file  *)
(* after the other in worker threads while others change them: the user,   *)
(* and other resolves, which are not told apart.  A path may also be a     *)
(* symbolic link to another one.                                           *)
(*                                                                         *)
(* Every edit is taken to change a file's size or mtime, so the outcomes   *)
(* filecmp remembers by size and mtime are those it would find again.      *)
(*                                                                         *)
(* An operator named M<Action><Change> is <Action> with a plausible bug: a *)
(* property has to fail when it takes the place of <Action>.               *)
(***************************************************************************)
EXTENDS Naturals, FiniteSets, SequencesExt

CONSTANTS
    Sorted,      \* the paths of the tree, in the order of _walk
    Contents,    \* what a file may hold
    Size,        \* the size of each content
    Digest,      \* its xxh3_128 digest, which two contents may share
    NoPath,      \* "no valid file to keep"
    Linked,      \* paths that may be symbolic links
    MaxTime,     \* bound on the clock, which moves with each edit
    Upsets       \* bound on what other programs do to the tree

Paths == ToSet(Sorted)
Times == 0 .. MaxTime

ASSUME DuplicateFinderAssumption ==
    /\ Sorted \in Seq(Paths) /\ IsInjective(Sorted)
    /\ Size \in [Contents -> Nat]
    /\ DOMAIN Digest = Contents
    /\ Linked \subseteq Paths
    /\ NoPath \notin Paths
    /\ MaxTime \in Nat /\ Upsets \in Nat

Files == [kind: {"file"}, data: Contents, mtime: Times]
Links == [kind: {"link"}, to: Paths]
Gone  == [kind |-> "gone"]

Digests == {Digest[c] : c \in Contents}
Sizes   == {Size[c] : c \in Contents}
Entry   == [path: Paths, mtime: Times]
Group   == [digest: Digests, size: Sizes, files: SUBSET Entry]

VARIABLES
    node,        \* what is under each path
    left,        \* upsets still to come
    scan,        \* the scan under way
    screen,      \* the groups on screen
    run          \* what the resolve does

vars == <<node, left, scan, screen, run>>

\* A scan knows the sizes, digests and entries it has gathered.  quiet, here
\* and below, is history: has the tree stayed the same since the scan began, or
\* since the resolve began to compare?
Scan == [phase: {"size", "hash", "stat"}, todo: SUBSET Paths,
         sized: SUBSET [path: Paths, size: Sizes],
         hashed: SUBSET [path: Paths, digest: Digests],
         listed: SUBSET [path: Paths, digest: Digests, size: Sizes, mtime: Times],
         quiet: BOOLEAN]
NoScan == [phase |-> "none"]

\* A resolve has a keeper for each of its groups, pairs of files to compare, and
\* files to recycle.  fresh, history: nothing has changed since the scan began
\* but what this resolve has recycled.
Pair == [keep: Paths, path: Paths]
Run  == [at: {"dialog", "plan", "recycle"}, groups: SUBSET Group,
         keepers: SUBSET Paths, todo: SUBSET Pair, doomed: SUBSET Paths,
         quiet: BOOLEAN, fresh: BOOLEAN]
NoRun == [at |-> "off"]

TypeOK ==
    /\ node \in [Paths -> Files \cup Links \cup {Gone}]
    /\ left \in 0 .. Upsets
    /\ scan = NoScan \/ scan \in Scan
    /\ screen \in [groups: SUBSET Group, fresh: BOOLEAN]
    /\ run = NoRun \/ run \in Run

\* What opening a path reads: links are followed.
Read(p)   == IF node[p].kind = "link" THEN node[node[p].to] ELSE node[p]
Exists(p) == Read(p).kind = "file"

Init ==
    /\ node \in [Paths -> [kind: {"file"}, data: Contents, mtime: {0}] \cup Links]
    /\ \A p \in Paths : node[p].kind = "link" => p \in Linked /\ node[node[p].to].kind = "file"
    /\ left = Upsets
    /\ scan = NoScan
    /\ screen = [groups |-> {}, fresh |-> FALSE]
    /\ run = NoRun

-----------------------------------------------------------------------------
(* Everyone else who uses the tree.                                        *)

\* The histories of a scan or resolve, once something else has changed a file.
Noticed(task) == IF "quiet" \in DOMAIN task THEN [task EXCEPT !.quiet = FALSE] ELSE task

Upset ==
    /\ left > 0
    /\ left' = left - 1
    /\ screen' = [screen EXCEPT !.fresh = FALSE]
    /\ scan' = Noticed(scan)
    /\ run' = IF run = NoRun THEN NoRun ELSE [run EXCEPT !.quiet = FALSE, !.fresh = FALSE]

\* A file is written, or created, at a time nothing else was.
UserWrites(p, c) ==
    /\ node[p].kind # "link"
    /\ Upset
    /\ Upsets - left < MaxTime
    /\ node' = [node EXCEPT ![p] = [kind |-> "file", data |-> c, mtime |-> Upsets - left + 1]]

UserDeletes(p) ==
    /\ node[p] # Gone
    /\ Upset
    /\ node' = [node EXCEPT ![p] = Gone]

-----------------------------------------------------------------------------
(* scan.  Scans change nothing but the screen, so one at a time is enough. *)

ScanStart ==
    /\ scan = NoScan
    /\ scan' = [phase |-> "size", todo |-> {p \in Paths : Exists(p)}, sized |-> {}, hashed |-> {},
                listed |-> {}, quiet |-> TRUE]
    /\ UNCHANGED <<node, left, screen, run>>

Position(p) == CHOOSE i \in DOMAIN Sorted : Sorted[i] = p

\* The scan reads the next file, or finds it gone.  Hashing in a pool of processes
\* takes them in any order.
Reads(phase, p) ==
    /\ scan.phase = phase
    /\ p \in scan.todo
    /\ phase # "hash" => \A q \in scan.todo : Position(p) <= Position(q)
    /\ UNCHANGED <<node, left, screen, run>>

SizeOne(p) ==
    /\ Reads("size", p)
    /\ scan' = [scan EXCEPT !.todo = @ \ {p}, !.sized = @ \cup
                  (IF Exists(p) THEN {[path |-> p, size |-> Size[Read(p).data]]} ELSE {})]

MCandidatesMany(sized) ==
    {e.path : e \in {x \in sized : Cardinality({y \in sized : y.size = x.size}) > 2}}

\* Only a size that two files share is worth hashing.
Candidates(sized) ==
    {e.path : e \in {x \in sized : Cardinality({y \in sized : y.size = x.size}) >= 2}}

HashStart ==
    /\ scan.phase = "size" /\ scan.todo = {}
    /\ scan' = [scan EXCEPT !.phase = "hash", !.todo = Candidates(scan.sized), !.sized = {}]
    /\ UNCHANGED <<node, left, screen, run>>

\* _hash_path, in this thread or in the pool's processes.
HashOne(p) ==
    /\ Reads("hash", p)
    /\ scan' = [scan EXCEPT !.todo = @ \ {p}, !.hashed = @ \cup
                  (IF Exists(p) THEN {[path |-> p, digest |-> Digest[Read(p).data]]} ELSE {})]

StatStart ==
    /\ scan.phase = "hash" /\ scan.todo = {}
    /\ scan' = [scan EXCEPT !.phase = "stat", !.todo = {h.path : h \in scan.hashed}]
    /\ UNCHANGED <<node, left, screen, run>>

\* _to_duplicate_file
StatOne(p) ==
    /\ Reads("stat", p)
    /\ scan' = [scan EXCEPT !.todo = @ \ {p}, !.listed = @ \cup
                  {[path |-> p, digest |-> h.digest, size |-> Size[Read(p).data],
                    mtime |-> Read(p).mtime] :
                      h \in {x \in scan.hashed : x.path = p /\ Exists(p)}}]

\* The entries of one size and digest, if there are two.
Groups(listed) ==
    {g \in {[digest |-> e.digest, size |-> e.size,
             files |-> {[path |-> f.path, mtime |-> f.mtime] :
                          f \in {x \in listed : x.digest = e.digest /\ x.size = e.size}}] :
               e \in listed} : Cardinality(g.files) >= 2}

\* The result replaces the groups on screen.
ScanDone ==
    /\ scan.phase = "stat" /\ scan.todo = {}
    /\ screen' = [groups |-> Groups(scan.listed), fresh |-> scan.quiet]
    /\ scan' = NoScan
    /\ UNCHANGED <<node, left, run>>

-----------------------------------------------------------------------------
(* resolve                                                                 *)

\* The Run button asks the user to confirm what is selected now.
Click ==
    /\ run = NoRun
    /\ \E chosen \in (SUBSET screen.groups) \ {{}} :
          run' = [at |-> "dialog", groups |-> chosen, keepers |-> {}, todo |-> {}, doomed |-> {},
                  quiet |-> FALSE, fresh |-> screen.fresh]
    /\ UNCHANGED <<node, left, scan, screen>>

Dismiss ==
    /\ run.at = "dialog"
    /\ run' = NoRun
    /\ UNCHANGED <<node, left, scan, screen>>

\* Of files with one mtime, the first in path order: both sorts are stable, and so
\* are min and max.
FirstByPath(files) ==
    CHOOSE e \in files : \A f \in files : Position(e.path) <= Position(f.path)

\* _choose_keeper: by time as the scan has seen it, or what the user has picked,
\* if anything.
Keeper(g, strategy) ==
    IF strategy = "manual" THEN {e.path : e \in g.files} \cup {NoPath}
    ELSE LET ahead(e, f) == IF strategy = "newest" THEN e.mtime >= f.mtime ELSE e.mtime <= f.mtime
         IN {FirstByPath({e \in g.files : \A f \in g.files : ahead(e, f)}).path}

MPairsTail(g, keep) ==
    IF keep = NoPath THEN {}
    ELSE LET first == FirstByPath(g.files).path
         IN {[keep |-> keep, path |-> e.path] : e \in {f \in g.files : f.path \notin {keep, first}}}

\* The comparisons _plan_deletions makes for one group.
Pairs(g, keep) ==
    IF keep = NoPath THEN {}
    ELSE {[keep |-> keep, path |-> e.path] : e \in {f \in g.files : f.path # keep}}

\* Strategy and picks were taken with the groups, but only count from here on.
Confirm ==
    /\ run.at = "dialog"
    /\ \E strategy \in {"newest", "oldest", "manual"},
          keeper \in [run.groups -> Paths \cup {NoPath}] :
          /\ \A g \in run.groups : keeper[g] \in Keeper(g, strategy)
          /\ run' = [run EXCEPT !.at = "plan", !.quiet = TRUE,
                                !.keepers = {keeper[g] : g \in run.groups} \ {NoPath},
                                !.todo = UNION {Pairs(g, keeper[g]) : g \in run.groups}]
    /\ UNCHANGED <<node, left, scan, screen>>

MIdenticalShallow(p, q) == Exists(p) /\ Exists(q) /\ Size[Read(p).data] = Size[Read(q).data]

\* _is_identical
Identical(p, q) == Exists(p) /\ Exists(q) /\ Read(p).data = Read(q).data

Compare ==
    /\ run.at = "plan"
    /\ \E c \in run.todo :
          run' = [run EXCEPT !.todo = @ \ {c},
                             !.doomed = IF Identical(c.keep, c.path) THEN @ \cup {c.path} ELSE @]
    /\ UNCHANGED <<node, left, scan, screen>>

\* With nothing to delete the resolve fails.
PlanDone ==
    /\ run.at = "plan"
    /\ run.todo = {}
    /\ run' = (IF run.doomed = {} THEN NoRun ELSE [run EXCEPT !.at = "recycle"])
    /\ UNCHANGED <<node, left, scan, screen>>

\* A timeout or a cancel while the plan is made: nothing is recycled.  (Later the
\* thread goes on to the end, see ModuleRun.)
Interrupt ==
    /\ run.at = "plan"
    /\ run' = NoRun
    /\ UNCHANGED <<node, left, scan, screen>>

\* recycle_paths moves one file, or the link itself, to the recycle store ...
RecycleOne(p) ==
    /\ run.at = "recycle"
    /\ p \in run.doomed
    /\ Exists(p)
    /\ node' = [node EXCEPT ![p] = Gone]
    /\ run' = [run EXCEPT !.doomed = @ \ {p}]
    /\ scan' = Noticed(scan)
    /\ screen' = [screen EXCEPT !.fresh = FALSE]
    /\ UNCHANGED left

\* ... or skips it: it is gone, or cannot be moved.
SkipOne(p) ==
    /\ run.at = "recycle"
    /\ p \in run.doomed
    /\ run' = [run EXCEPT !.doomed = @ \ {p}, !.fresh = FALSE]
    /\ UNCHANGED <<node, left, scan, screen>>

Finish ==
    /\ run.at = "recycle"
    /\ run.doomed = {}
    /\ run' = NoRun
    /\ UNCHANGED <<node, left, scan, screen>>

Next ==
    \/ \E p \in Paths : UserDeletes(p) \/ \E c \in Contents : UserWrites(p, c)
    \/ ScanStart \/ HashStart \/ StatStart \/ ScanDone
    \/ \E p \in Paths : SizeOne(p) \/ HashOne(p) \/ StatOne(p)
    \/ Click \/ Dismiss \/ Confirm \/ Compare \/ PlanDone \/ Interrupt \/ Finish
    \/ \E p \in Paths : RecycleOne(p) \/ SkipOne(p)

Spec == Init /\ [][Next]_vars

-----------------------------------------------------------------------------
(* What the duplicate finder promises.                                     *)

\* The resolve recycles path p, a real file, and nobody else has changed a file since
\* it began to compare.
Recycles(p) ==
    /\ run.at = "recycle" /\ run.quiet /\ p \in run.doomed
    /\ node[p].kind = "file" /\ node'[p] = Gone

Survives(p) == \E q \in Paths : node'[q].kind = "file" /\ node'[q].data = node[p].data

\* "Deletion always keeps exactly one file per group" (logic.py:10): when a file
\* is recycled, a file with the same content stays, however old the scan is and
\* whatever digests collide.  It holds of trees without symbolic links.
OneCopyStays == [][\A p \in Paths : Recycles(p) => Survives(p)]_vars

\* A resolve that nothing has interfered with since the scan began leaves, of
\* all the files of a group that are the same as its keeper, the keeper only.
ResolveIsComplete ==
    run.at = "recycle" /\ run.doomed = {} /\ run.fresh =>
        \A g \in run.groups : \A k \in run.keepers \cap {e.path : e \in g.files} :
            Exists(k) /\ \A e \in g.files : Identical(k, e.path) => e.path = k

\* The groups on screen, if the tree has stayed the same since the scan began,
\* are right: files are in one group if they are the same, and only if they at
\* least share size and digest, although most files are never hashed.
GroupsAreRight ==
    screen.fresh =>
        \A p, q \in Paths : p # q /\ Exists(p) /\ Exists(q) =>
            LET together == \E g \in screen.groups : {p, q} \subseteq {e.path : e \in g.files}
            IN /\ Identical(p, q) => together
               /\ together => /\ Size[Read(p).data] = Size[Read(q).data]
                              /\ Digest[Read(p).data] = Digest[Read(q).data]
=============================================================================
