---------------------------- MODULE RecycleStore ----------------------------
(***************************************************************************)
(* core/recycle_store.py: destructive operations move files into batches   *)
(* that stay restorable for a retention window.  A batch has a directory   *)
(* with a manifest in the central store, and payloads on the volumes its   *)
(* files came from.                                                        *)
(*                                                                         *)
(* Recycle, restore and delete run on worker threads and interleave at     *)
(* every file-system call that matters to another one; the purge runs at   *)
(* startup, before anything else.  A file or directory tree is one item,   *)
(* with an identity that follows its content wherever it is moved.         *)
(*                                                                         *)
(* An operator named M<Action><Change> is <Action> with a plausible bug: a *)
(* property has to fail when it takes the place of <Action>.               *)
(***************************************************************************)
EXTENDS Integers, FiniteSets

CONSTANTS
    Items,       \* files the user has, or will have
    Paths,       \* paths they are saved under
    Home,        \* the path each item is first saved under
    Volumes,     \* volumes of the machine
    Volume,      \* the volume of each path
    Central,     \* the volume of data/recycle
    Threads,     \* worker threads
    Retention,   \* RECYCLE_RETENTION_HOURS, in ticks
    MaxTime,     \* bound on the clock
    Troubles     \* what may go wrong, in each combination to consider: a "kill" in
                 \* the middle of a call, a "move" or a "removal" that raises OSError,
                 \* something else that spoils a manifest (it "breaks" it, "adds" an
                 \* entry or "forges" what it says)

ASSUME RecycleStoreAssumption ==
    /\ IsFiniteSet(Items)
    /\ Home \in [Items -> Paths]
    /\ Volume \in [Paths -> Volumes]
    /\ Central \in Volumes
    /\ Retention \in Nat \ {0}
    /\ MaxTime \in Nat
    /\ Troubles \subseteq SUBSET {"kill", "move", "removal", "breaks", "adds", "forges"}

\* A batch id is the time it was created, to the microsecond: no two calls of
\* recycle_paths share one.
Batches == 0 .. MaxTime

\* Where an item can be: under a path, with the (n) suffix of a restore, or in
\* the payload directory of a batch on some volume.  A suffix added to a
\* suffixed name, "x (1) (1)", is the next number.
Suffixes == 0 .. Cardinality(Items) * (MaxTime + 1)
Outside == [path: Paths, n: Suffixes]
Payload == [batch: Batches, vol: Volumes]
Locs    == Outside \cup Payload

\* An item that is nowhere: not saved yet, destroyed by a removal, or clobbered
\* by another item moved to its path.
Absent    == [fate |-> "absent"]
Destroyed == [fate |-> "destroyed"]
Clobbered == [fate |-> "clobbered"]
Fates     == {Absent, Destroyed, Clobbered}

\* A manifest entry: RecycledEntry's original_path and stored_path, the latter
\* as the item that was stored and the directory it was stored in.
Entry == [orig: Outside, item: Items, loc: Locs]

\* What stands for the manifest file of a batch; its head is the batch_id and the
\* created_at that RecycleBatch keeps beside the entries.
Head     == [id: Batches, created: 0 .. MaxTime]
Manifest == [head: Head, entries: SUBSET Entry]
NoManifest  == [fault |-> "missing"]
BadManifest == [fault |-> "unreadable"]

\* What one thread is doing: the sources still to recycle, the entries still to
\* restore and the one being moved, the head and the entries of the manifest it
\* will write, the directories still to delete.
Nothing == [entry |-> "none"]
Call == [kind: {"recycle", "restore", "delete"}, at: {"moving", "landing", "removing"},
         batch: Batches, sources: SUBSET Outside, entries: SUBSET Entry,
         aim: [entry: Entry, dest: Outside] \cup {Nothing},
         head: Head, kept: SUBSET Entry, targets: SUBSET Payload]
NoCall == [kind |-> "none"]

VARIABLES
    now,        \* the clock
    where,      \* where each item is
    dirs,       \* batches with a directory in the central store
    dirAt,      \* mtime of that directory, 0 without one
    manifest,   \* manifest file of each batch
    call,       \* what each thread is doing
    up,         \* "down", "purging" (startup) or "serving"
    offered,    \* batches listed in the Recycle Bin dialog of some page
    purge,      \* directories the startup purge still has to delete
    forged,     \* history: batches whose manifest something else has rewritten,
                \* and those such a manifest has named
    calm,       \* history: has every restore landed undisturbed (see below)?
    trouble     \* rigid: what may go wrong in this execution

vars == <<now, where, dirs, dirAt, manifest, call, up, offered, purge, forged, calm, trouble>>

TypeOK ==
    /\ now \in 0 .. MaxTime
    /\ where \in [Items -> Locs \cup Fates]
    /\ dirs \subseteq Batches
    /\ dirAt \in [Batches -> 0 .. MaxTime]
    /\ manifest \in [Batches -> Manifest \cup {NoManifest, BadManifest}]
    /\ \A t \in Threads : call[t] \in Call \cup {NoCall}
    /\ up \in {"down", "purging", "serving"}
    /\ offered \subseteq Batches
    /\ purge \subseteq Payload
    /\ forged \subseteq Batches
    /\ calm \in BOOLEAN
    /\ trouble \in Troubles

Init ==
    /\ now = 0
    /\ where = [i \in Items |-> Absent]
    /\ dirs = {}
    /\ dirAt = [b \in Batches |-> 0]
    /\ manifest = [b \in Batches |-> NoManifest]
    /\ call = [t \in Threads |-> NoCall]
    /\ up = "serving"
    /\ offered = {}
    /\ purge = {}
    /\ forged = {}
    /\ calm = TRUE
    /\ trouble \in Troubles

-----------------------------------------------------------------------------
(* The environment: the clock, and the user saving files.                  *)

Tick ==
    /\ up # "purging"
    /\ now < MaxTime
    /\ now' = now + 1
    /\ UNCHANGED <<where, dirs, dirAt, manifest, call, up, offered, purge, forged>>

Occupied(loc) == \E i \in Items : where[i] = loc

UserSaves(i) ==
    LET place == [path |-> Home[i], n |-> 0] IN
    /\ where[i] = Absent
    /\ ~Occupied(place)
    /\ where' = [where EXCEPT ![i] = place]
    /\ UNCHANGED <<now, dirs, dirAt, manifest, call, up, offered, purge, forged>>

-----------------------------------------------------------------------------
(* Shared by the operations.                                               *)

Idle(t) == call[t].kind = "none"
Doing(t, kind, at) == call[t].kind = kind /\ call[t].at = at

Begin(t, c) == call' = [call EXCEPT ![t] = c]
End(t)      == call' = [call EXCEPT ![t] = NoCall]

MFreshEarly(kind, at, b) ==
    [kind |-> kind, at |-> at, batch |-> b, sources |-> {}, entries |-> {},
     head |-> [id |-> b, created |-> b - 1], kept |-> {}, targets |-> {}, aim |-> Nothing]

Fresh(kind, at, b) ==
    [kind |-> kind, at |-> at, batch |-> b, sources |-> {}, entries |-> {},
     head |-> [id |-> b, created |-> b], kept |-> {}, targets |-> {}, aim |-> Nothing]

Readable(b) == manifest[b] \notin {NoManifest, BadManifest}

MValidStored(e, b)  == e.loc \in Payload

\* _is_valid_store_path
Valid(e, b) == e.loc \in Payload /\ e.loc.batch = b

MReachCentral(b, entries) == {[batch |-> b, vol |-> Central]}

\* The directories of batch b that _remove_batch_dir finds with some entries.
Reach(b, entries) ==
    {[batch |-> b, vol |-> Central]} \cup {e.loc : e \in {x \in entries : Valid(x, b)}}

\* Those it hands to _remove_paths when it has to read the manifest itself.
Targets(b) == Reach(b, IF Readable(b) THEN manifest[b].entries ELSE {})

\* One rmtree of _remove_paths: everything in the directory goes, and with the
\* central one the manifest.
RemoveDir(loc) ==
    /\ where' = [i \in Items |-> IF where[i] = loc THEN Destroyed ELSE where[i]]
    /\ IF loc.vol = Central
       THEN /\ dirs' = dirs \ {loc.batch}
            /\ manifest' = [manifest EXCEPT ![loc.batch] = NoManifest]
            /\ dirAt' = [dirAt EXCEPT ![loc.batch] = 0]
       ELSE UNCHANGED <<dirs, manifest, dirAt>>

\* An rmtree that raises half-way: some of the contents are gone.
RemoveDirPartly(loc) ==
    /\ "removal" \in trouble
    /\ \E gone \in SUBSET {i \in Items : where[i] = loc} :
          where' = [i \in Items |-> IF i \in gone THEN Destroyed ELSE where[i]]
    /\ IF loc.vol = Central /\ loc.batch \in dirs
       THEN /\ manifest' \in {manifest, [manifest EXCEPT ![loc.batch] = NoManifest]}
            /\ dirAt' = [dirAt EXCEPT ![loc.batch] = now]
       ELSE UNCHANGED <<manifest, dirAt>>
    /\ UNCHANGED dirs

-----------------------------------------------------------------------------
(* recycle_paths                                                           *)

Recycle(t) ==
    /\ up = "serving"
    /\ Idle(t)
    /\ now < MaxTime
    /\ now' = now + 1
    /\ \E S \in (SUBSET {where[i] : i \in {j \in Items : where[j] \in Outside}}) \ {{}} :
          Begin(t, [Fresh("recycle", "moving", now) EXCEPT !.sources = S])
    /\ dirs' = dirs \cup {now}
    /\ dirAt' = [dirAt EXCEPT ![now] = now]
    /\ UNCHANGED <<where, manifest, up, offered, purge, forged>>

\* One source is moved into the payload directory on its own volume.
StoreSource(t) ==
    /\ Doing(t, "recycle", "moving")
    /\ \E src \in call[t].sources : \E i \in Items :
          LET dest == [batch |-> call[t].batch, vol |-> Volume[src.path]] IN
          /\ where[i] = src
          /\ where' = [where EXCEPT ![i] = dest]
          /\ call' = [call EXCEPT ![t].sources = @ \ {src},
                                  ![t].kept = @ \cup {[orig |-> src, item |-> i, loc |-> dest]}]
          /\ dirs' = IF dest.vol = Central THEN dirs \cup {dest.batch} ELSE dirs
          /\ dirAt' = IF dest.vol = Central /\ (dest.batch \notin dirs \/ \A e \in call[t].kept : e.loc # dest)
                      THEN [dirAt EXCEPT ![dest.batch] = now] ELSE dirAt
    /\ UNCHANGED <<now, manifest, up, offered, purge, forged>>

\* One source is skipped: it is missing, or it cannot be moved.
SkipSource(t) ==
    /\ Doing(t, "recycle", "moving")
    /\ \E src \in call[t].sources :
          /\ ~Occupied(src) \/ "move" \in trouble
          /\ call' = [call EXCEPT ![t].sources = @ \ {src}]
    /\ UNCHANGED <<now, where, dirs, dirAt, manifest, up, offered, purge, forged>>

\* _write_manifest, to the directory its head names: it fails when that is gone.
WriteManifest(head, entries) ==
    IF head.id \in dirs
    THEN /\ manifest' = [manifest EXCEPT ![head.id] = [head |-> head, entries |-> entries]]
         /\ dirAt' = IF manifest[head.id] = NoManifest THEN [dirAt EXCEPT ![head.id] = now] ELSE dirAt
    ELSE UNCHANGED <<manifest, dirAt>>

FinishRecycle(t) ==
    /\ Doing(t, "recycle", "moving")
    /\ call[t].sources = {}
    /\ WriteManifest(call[t].head, call[t].kept)
    /\ End(t)
    /\ UNCHANGED <<now, where, dirs, up, offered, purge, forged>>

-----------------------------------------------------------------------------
(* The Recycle Bin dialog.  It is drawn from list_batches, and drawn again *)
(* after a click of its own; what other pages do meanwhile it does not show. *)
(* Its buttons go by the id that the manifest tells.                       *)

Repaint ==
    /\ up = "serving"
    /\ offered' = offered \cup {manifest[b].head.id : b \in {x \in dirs : Readable(x)}}
    /\ UNCHANGED <<now, where, dirs, dirAt, manifest, call, up, purge, forged>>

-----------------------------------------------------------------------------
(* restore_batch, which does nothing without a readable manifest.          *)

Restore(t, b) ==
    /\ up = "serving"
    /\ Idle(t)
    /\ b \in offered /\ Readable(b)
    /\ Begin(t, [Fresh("restore", "moving", b) EXCEPT !.head = manifest[b].head,
                                                       !.entries = manifest[b].entries])
    /\ UNCHANGED <<now, where, dirs, dirAt, manifest, up, offered, purge, forged>>

\* An entry outside the store, or whose file is missing, is kept as failed.
SkipEntry(t) ==
    /\ Doing(t, "restore", "moving")
    /\ \E e \in call[t].entries :
          /\ ~Valid(e, call[t].batch) \/ where[e.item] # e.loc
          /\ call' = [call EXCEPT ![t].entries = @ \ {e}, ![t].kept = @ \cup {e}]
    /\ UNCHANGED <<now, where, dirs, dirAt, manifest, up, offered, purge, forged>>

MUniqueDestinationKept(orig) == orig

\* unique_destination: the path itself when free, else the next free (n).
UniqueDestination(orig) ==
    IF ~Occupied(orig) THEN orig
    ELSE [orig EXCEPT !.n = CHOOSE n \in Suffixes :
            /\ n > orig.n /\ ~Occupied([orig EXCEPT !.n = n])
            /\ \A m \in orig.n + 1 .. n - 1 : Occupied([orig EXCEPT !.n = m])]

\* Lines 366-372: the entry exists, and its destination is chosen ...
AimEntry(t) ==
    /\ Doing(t, "restore", "moving")
    /\ \E e \in call[t].entries :
          /\ Valid(e, call[t].batch)
          /\ where[e.item] = e.loc
          /\ call' = [call EXCEPT
                        ![t].at = "landing",
                        ![t].entries = @ \ {e},
                        ![t].aim = [entry |-> e, dest |-> UniqueDestination(e.orig)]]
    /\ UNCHANGED <<now, where, dirs, dirAt, manifest, up, offered, purge, forged>>

\* ... and then the file is moved there, replacing what has appeared in
\* between ...
LandEntry(t) ==
    /\ Doing(t, "restore", "landing")
    /\ LET e == call[t].aim.entry
           d == call[t].aim.dest IN
       /\ where[e.item] = e.loc
       /\ where' = [i \in Items |-> IF i = e.item THEN d
                                    ELSE IF where[i] = d THEN Clobbered ELSE where[i]]
    /\ call' = [call EXCEPT ![t].at = "moving", ![t].aim = Nothing]
    /\ UNCHANGED <<now, dirs, dirAt, manifest, up, offered, purge, forged>>

MMissEntryDropped(t) ==
    /\ Doing(t, "restore", "landing")
    /\ where[call[t].aim.entry.item] # call[t].aim.entry.loc \/ "move" \in trouble
    /\ call' = [call EXCEPT ![t].at = "moving", ![t].aim = Nothing]
    /\ UNCHANGED <<now, where, dirs, dirAt, manifest, up, offered, purge, forged>>

\* ... or the move fails, for one because another thread has taken the file.
MissEntry(t) ==
    /\ Doing(t, "restore", "landing")
    /\ where[call[t].aim.entry.item] # call[t].aim.entry.loc \/ "move" \in trouble
    /\ call' = [call EXCEPT ![t].at = "moving", ![t].aim = Nothing,
                            ![t].kept = @ \cup {call[t].aim.entry}]
    /\ UNCHANGED <<now, where, dirs, dirAt, manifest, up, offered, purge, forged>>

\* The failed entries stay for a retry; without any, the batch is removed.
FinishRestore(t) ==
    /\ Doing(t, "restore", "moving")
    /\ call[t].entries = {}
    /\ IF call[t].kept # {}
       THEN WriteManifest(call[t].head, call[t].kept) /\ End(t)
       ELSE /\ call' = [call EXCEPT ![t].at = "removing", ![t].targets = Targets(call[t].batch)]
            /\ UNCHANGED <<manifest, dirAt>>
    /\ UNCHANGED <<now, where, dirs, up, offered, purge, forged>>

-----------------------------------------------------------------------------
(* delete_batch, _remove_batch_dir and _remove_paths                       *)

Delete(t, b) ==
    /\ up = "serving"
    /\ Idle(t)
    /\ b \in offered \cap dirs
    /\ Begin(t, [Fresh("delete", "removing", b) EXCEPT !.targets = Targets(b)])
    /\ UNCHANGED <<now, where, dirs, dirAt, manifest, up, offered, purge, forged>>

RemoveTarget(t) ==
    /\ \E kind \in {"restore", "delete"} : Doing(t, kind, "removing")
    /\ \E loc \in call[t].targets :
          /\ RemoveDir(loc) \/ RemoveDirPartly(loc)
          /\ call' = [call EXCEPT ![t].targets = @ \ {loc}]
    /\ UNCHANGED <<now, up, offered, purge, forged>>

FinishRemove(t) ==
    /\ \E kind \in {"restore", "delete"} : Doing(t, kind, "removing")
    /\ call[t].targets = {}
    /\ End(t)
    /\ UNCHANGED <<now, where, dirs, dirAt, manifest, up, offered, purge, forged>>

-----------------------------------------------------------------------------
(* purge_expired at startup, and the end of the process.                   *)

\* is_expired, on a time of creation.
Expired(created) == now >= created + Retention

\* _purge_unreadable judges by the mtime of the directory instead.
LongDead(b) == dirAt[b] <= now - Retention

\* What list_batches yields, and what of it purge_expired takes: it believes what
\* each manifest says, of its time of creation and of its id.
Batched == {manifest[b] : b \in {x \in dirs : Readable(x)}}

MStartLate ==
    /\ up = "down"
    /\ up' = "purging"
    /\ purge' = UNION {Reach(m.head.id, m.entries) : m \in {x \in Batched : now > x.head.created + Retention}}
    /\ UNCHANGED <<now, where, dirs, dirAt, manifest, call, offered, forged>>

Start ==
    /\ up = "down"
    /\ up' = "purging"
    /\ purge' = (UNION {Reach(m.head.id, m.entries) : m \in {x \in Batched : Expired(x.head.created)}})
                  \cup {[batch |-> b, vol |-> Central] :
                           b \in {x \in dirs : ~Readable(x) /\ LongDead(x)}}
    /\ UNCHANGED <<now, where, dirs, dirAt, manifest, call, offered, forged>>

PurgeTarget ==
    /\ up = "purging"
    /\ \E loc \in purge :
          /\ RemoveDir(loc) \/ RemoveDirPartly(loc)
          /\ purge' = purge \ {loc}
    /\ UNCHANGED <<now, call, up, offered, forged>>

Serve ==
    /\ up = "purging"
    /\ purge = {}
    /\ up' = "serving"
    /\ UNCHANGED <<now, where, dirs, dirAt, manifest, call, offered, purge, forged>>

\* A clean exit waits for the worker threads.
Stop ==
    /\ up = "serving"
    /\ \A t \in Threads : Idle(t)
    /\ up' = "down"
    /\ offered' = {}
    /\ UNCHANGED <<now, where, dirs, dirAt, manifest, call, purge, forged>>

\* Batches whose manifest some thread is about to write.
BeingWritten ==
    {call[t].head.id : t \in {u \in Threads :
        \/ Doing(u, "recycle", "moving") /\ call[u].sources = {}
        \/ Doing(u, "restore", "moving") /\ call[u].entries = {} /\ call[u].kept # {}}} \cap dirs

\* A kill loses what the threads remember, and may cut a manifest write short.
Crash ==
    /\ "kill" \in trouble
    /\ up # "down"
    /\ up' = "down"
    /\ call' = [t \in Threads |-> NoCall]
    /\ offered' = {}
    /\ purge' = {}
    /\ \E cut \in SUBSET BeingWritten :
          manifest' = [b \in Batches |-> IF b \in cut THEN BadManifest ELSE manifest[b]]
    /\ UNCHANGED <<now, where, dirs, dirAt, forged>>

\* Something else than this program spoils a manifest, ...
Break(b) ==
    /\ "breaks" \in trouble
    /\ Readable(b)
    /\ manifest' = [manifest EXCEPT ![b] = BadManifest]
    /\ UNCHANGED <<now, where, dirs, dirAt, call, up, offered, purge, forged>>

\* ... adds an entry that names any file of the machine, ...
Add(b) ==
    /\ "adds" \in trouble
    /\ Readable(b)
    /\ \E i \in {j \in Items : where[j] \in Locs} :
          manifest' = [manifest EXCEPT ![b].entries = @ \cup
             {[orig |-> [path |-> Home[i], n |-> 0], item |-> i, loc |-> where[i]]}]
    /\ UNCHANGED <<now, where, dirs, dirAt, call, up, offered, purge, forged>>

\* ... or gives it the head of another batch or another time, or fewer entries.
Forge(b) ==
    /\ "forges" \in trouble
    /\ Readable(b)
    /\ \E head \in Head, entries \in SUBSET manifest[b].entries :
          /\ manifest' = [manifest EXCEPT ![b] = [head |-> head, entries |-> entries]]
          /\ manifest' # manifest
          /\ forged' = forged \cup {b, head.id}
    /\ UNCHANGED <<now, where, dirs, dirAt, call, up, offered, purge>>

Step ==
    \/ Tick
    \/ \E i \in Items : UserSaves(i)
    \/ Repaint
    \/ \E t \in Threads :
          \/ Recycle(t) \/ StoreSource(t) \/ SkipSource(t) \/ FinishRecycle(t)
          \/ \E b \in Batches : Restore(t, b) \/ Delete(t, b)
          \/ SkipEntry(t) \/ AimEntry(t) \/ LandEntry(t) \/ MissEntry(t)
          \/ FinishRestore(t) \/ RemoveTarget(t) \/ FinishRemove(t)
    \/ Start \/ PurgeTarget \/ Serve \/ Stop \/ Crash
    \/ \E b \in Batches : Break(b) \/ Add(b) \/ Forge(b)

\* Nothing appears between the choice of a destination and the move to it: one
\* restore lands at a time, and the user saves nothing meanwhile.
Landing(t) == Doing(t, "restore", "landing")
Undisturbed ==
    /\ \A t, u \in Threads : Landing(t)' /\ Landing(u)' => t = u
    /\ (\E t \in Threads : Landing(t)) =>
          \A i \in Items : where[i] = Absent => where'[i] = Absent

Watch == calm' = (calm /\ Undisturbed)

Next == Step /\ Watch /\ UNCHANGED trouble

Spec == Init /\ [][Next]_vars

-----------------------------------------------------------------------------
(* Properties.                                                             *)

Dies(i) == where[i] # Destroyed /\ where'[i] = Destroyed

\* Deleted because the user deleted that very batch.
DeletedByUser(b) == \E t \in Threads : Doing(t, "delete", "removing") /\ call[t].batch = b

\* A file is destroyed only inside the payload of a batch, and only because the
\* user deletes that batch or the startup purge runs a whole retention window
\* after it was created (recycle_store.py:3-5).  No crash, failed move, failed
\* removal, unreadable manifest or added entry makes a restore, a purge or the
\* delete of another batch destroy it.  A manifest that has been given another id,
\* time or fewer entries is believed: it can cost the files of its own batch and
\* of the one it names, but of no third.
KeepsRetention ==
    [][ \A i \in Items : Dies(i) =>
          /\ where[i] \in Payload
          /\ \/ where[i].batch \in forged
             \/ DeletedByUser(where[i].batch)
             \/ up = "purging" /\ Expired(where[i].batch) ]_vars

\* A manifest does not reach into the payload of another batch, least of all in
\* the purge, which nobody attends (recycle_store.py:215-217): what the purge is
\* going to remove belongs to batches whose own manifest says that their time has
\* come, or that have none.
ReachesOwnOnly ==
    [][ up = "down" /\ up' = "purging" =>
          \A loc \in purge' : Readable(loc.batch) => Expired(manifest[loc.batch].head.created) ]_vars

\* What a thread, or the purge, still knows of an item in the store.
InHand(i) ==
    \/ \E t \in Threads : /\ call[t].kind # "none"
                          /\ \/ \E e \in call[t].entries \cup call[t].kept : e.item = i
                             \/ call[t].aim # Nothing /\ call[t].aim.entry.item = i
                             \/ where[i] \in call[t].targets
    \/ where[i] \in purge

Listed(i) ==
    LET b == where[i].batch IN
    Readable(b) /\ \E e \in manifest[b].entries : e.item = i /\ e.loc = where[i]

\* Whatever is in the store can be restored: a manifest lists it where it is,
\* unless an operation on it is still running.  Two restores and a delete of one
\* batch may interleave, each rewriting or removing the manifest the others have
\* read, and any of their moves may fail.
Restorable == \A i \in Items : where[i] \in Payload => Listed(i) \/ InHand(i)

\* The startup purge leaves no expired payload behind on any volume.
PurgeIsComplete ==
    up = "purging" /\ purge = {} =>
        \A i \in Items : where[i] \in Payload => ~Expired(where[i].batch)

\* What the purge leaves can be found by a later one: its batch still has a
\* directory in the central store, the only place list_batches and
\* _purge_unreadable look.
PurgeLeavesNoOrphans ==
    up = "purging" /\ purge = {} =>
        \A i \in Items : where[i] \in Payload => where[i].batch \in dirs

\* A restore never overwrites a file that was there when its destination was
\* chosen: neither one saved since under the original path nor one another
\* restore has put there (recycle_store.py:339-340).
NothingClobbered == calm => \A i \in Items : where[i] # Clobbered
=============================================================================
