------------------------------ MODULE Lifecycle ------------------------------
(***************************************************************************)
(* The application from startup to shutdown (app.py): every page that      *)
(* connects loads the modules that are still missing (core/registry.py)    *)
(* and shows them (ui/shell.py, core/command_palette.py); a module puts    *)
(* its handlers, and those of a panel per client (core/base_module.py), on *)
(* the event bus (core/event_bus.py), and takes them off when unloaded.    *)
(*                                                                         *)
(* Whatever the source awaits may suspend here, although on_load and       *)
(* on_unload of the present modules do not: their contract allows it, and  *)
(* the registry's lock is there for it.                                    *)
(*                                                                         *)
(* An operator named M<Name><Change> is <Name> with a plausible bug: a     *)
(* property has to fail when it takes the place of <Name>.                 *)
(***************************************************************************)
EXTENDS Naturals, SequencesExt

CONSTANTS
    Manifests,   \* the manifest files, in the order of discovery
    Garbled,     \* those that cannot be parsed
    Parked,      \* those of another platform or an unshipped tier
    Unknown,     \* the id under which a garbled one is recorded
    Pages,       \* page loads, one per browser client
    Stored,      \* the lists of recent modules an earlier session may have left
    RecentLimit, \* RECENT_OPERATIONS_LIMIT
    MaxClicks    \* bound on the modules opened

Found   == ToSet(Manifests)
Modules == Found \ (Garbled \cup Parked)
Ids     == Modules \cup {Unknown}

ASSUME LifecycleAssumption ==
    /\ Manifests \in Seq(Found) /\ IsInjective(Manifests)
    /\ Garbled \cup Parked \subseteq Found /\ Garbled \cap Parked = {}
    /\ Unknown \notin Found
    /\ Stored \subseteq Seq(Found \cup {Unknown})
    /\ RecentLimit \in Nat \ {0} /\ MaxClicks \in Nat

VARIABLES
    app,         \* how far startup or shutdown is
    leaving,     \* unload_all: the modules it has yet to visit
    size,        \* unload_all: how many modules there were when it began
    loaded,      \* _modules and _metadata, in the order of loading
    degraded,    \* _degraded
    queue,       \* the discovery lock: its holder, then those who wait for it
    page,        \* what each page load has come to
    logic,       \* event bus: the logic handlers of each module on its topics
    panels,      \* event bus: the panel handlers of each module and client
    attached,    \* _client_uis: the panel each module keeps for each client
    recent,      \* the stored list of recently used modules
    clicks,      \* modules still to be opened
    late         \* history: has shutdown met a page that was loading, or a click?

registry == <<loaded, degraded, queue>>
bus      == <<logic, panels, attached>>
closing  == <<app, leaving, size>>
vars     == <<closing, registry, page, bus, recent, clicks, late>>

\* A page: the manifests it has yet to look at, the one it is loading; once it
\* is shown, its modules, what is degraded, its palette and its active module.
None     == "none"
Page     == [at: {"out", "waiting", "walking", "loading", "shown", "gone"},
             todo: Seq(Found), lists: Seq(Modules), bad: SUBSET Ids, palette: Seq(Modules),
             active: Modules \cup {None}]
NoPage   == [at |-> "out", todo |-> <<>>, lists |-> <<>>, bad |-> {}, palette |-> <<>>, active |-> None]

TypeOK ==
    /\ app \in {"starting", "serving", "unloading", "draining", "flushed", "down", "broken"}
    /\ leaving \in Seq(Modules) /\ size \in 0..Len(Manifests)
    /\ loaded \in Seq(Modules) /\ degraded \subseteq Ids
    /\ queue \in Seq(Pages)
    /\ page \in [Pages -> Page]
    /\ logic \in [Modules -> 0..Cardinality(Pages)]
    /\ panels \in [Modules \X Pages -> 0..MaxClicks]
    /\ attached \subseteq Modules \X Pages
    /\ recent \in Seq(Found \cup {Unknown}) /\ (clicks < MaxClicks => Len(recent) <= RecentLimit)
    /\ clicks \in 0..MaxClicks /\ late \in BOOLEAN

Init ==
    /\ app = "starting" /\ leaving = <<>> /\ size = 0
    /\ loaded = <<>> /\ degraded = {} /\ queue = <<>>
    /\ page = [p \in Pages |-> NoPage]
    /\ logic = [m \in Modules |-> 0]
    /\ panels = [x \in Modules \X Pages |-> 0]
    /\ attached = {}
    /\ recent \in Stored
    /\ clicks = MaxClicks /\ late = FALSE

-----------------------------------------------------------------------------
(* Startup.                                                                *)

\* _on_startup: the purge of the recycle store (RecycleStore) is over.
Start ==
    /\ app = "starting"
    /\ app' = "serving"
    /\ UNCHANGED <<leaving, size, registry, page, bus, recent, clicks, late>>

-----------------------------------------------------------------------------
(* A page: index, discover_and_load, Shell.                                *)

Goto(p, place) == page' = [page EXCEPT ![p].at = place]

Connect(p) ==
    /\ app \in {"starting", "serving"}
    /\ page[p].at = "out"
    /\ page' = [page EXCEPT ![p].at = "waiting", ![p].todo = Manifests]
    /\ queue' = Append(queue, p)
    /\ UNCHANGED <<closing, loaded, degraded, bus, recent, clicks, late>>

MMayEnter(p) == p \in ToSet(queue)

\* asyncio.Lock is taken in the order of asking.
MayEnter(p) == queue[1] = p

Enter(p) ==
    /\ page[p].at = "waiting"
    /\ MayEnter(p)
    /\ Goto(p, "walking")
    /\ UNCHANGED <<closing, registry, bus, recent, clicks, late>>

\* The id a manifest is looked up by: that of a garbled one is "", which nothing
\* is ever recorded under.
MKnown(m) == m \in ToSet(loaded)
Known(m)  == m \in ToSet(loaded) \cup degraded

Walking(p) == page[p].at = "walking" /\ page[p].todo # <<>>
Next1(p)   == Head(page[p].todo)
Passed(p)  == page' = [page EXCEPT ![p].at = "walking", ![p].todo = Tail(@)]

\* An already settled module, and one of another platform or tier, is passed.
PassBy(p) ==
    /\ Walking(p)
    /\ Known(Next1(p)) \/ Next1(p) \in Parked
    /\ Passed(p)
    /\ UNCHANGED <<closing, registry, bus, recent, clicks, late>>

\* _load_from_manifest up to the handlers on_load subscribes before it suspends.
Subscribe(m) == logic' = [logic EXCEPT ![m] = @ + 1]

Load(p) ==
    /\ Walking(p)
    /\ Next1(p) \in Modules /\ ~Known(Next1(p))
    /\ Goto(p, "loading")
    /\ Subscribe(Next1(p))
    /\ UNCHANGED <<closing, registry, panels, attached, recent, clicks, late>>

\* Its end: the instance is kept, in the place of an earlier one if there is one.
Keep(p) ==
    /\ page[p].at = "loading"
    /\ loaded' = IF Next1(p) \in ToSet(loaded) THEN loaded ELSE Append(loaded, Next1(p))
    /\ Passed(p)
    /\ UNCHANGED <<closing, degraded, queue, bus, recent, clicks, late>>

\* A missing library, a wrong key or version, an on_load that raises before it
\* subscribes, or a manifest that cannot be parsed.
Degrade(p) ==
    /\ Walking(p)
    /\ ~Known(Next1(p)) /\ Next1(p) \notin Parked
    /\ degraded' = degraded \cup {IF Next1(p) \in Garbled THEN Unknown ELSE Next1(p)}
    /\ Passed(p)
    /\ UNCHANGED <<closing, loaded, queue, bus, recent, clicks, late>>

\* Those of the members of s that are in S, in their order; each once, if so asked.
Selected(s, S, once) ==
    LET upTo[i \in 0..Len(s)] ==
            IF i = 0 THEN <<>>
            ELSE IF s[i] \in S /\ ~(once /\ s[i] \in ToSet(upTo[i - 1])) THEN Append(upTo[i - 1], s[i])
            ELSE upTo[i - 1]
    IN upTo[Len(s)]

MBuildEntries(listed, stored) == Selected(stored, ToSet(listed), FALSE) \o listed

\* build_entries: the recent modules that are loaded, then the others, each once.
BuildEntries(listed, stored) == Selected(stored \o listed, ToSet(listed), TRUE)

MShowUnderLock(p) ==
    /\ page[p].at = "walking" /\ page[p].todo = <<>>
    /\ page' = [page EXCEPT ![p].at = "shown", ![p].lists = loaded, ![p].bad = degraded,
                  ![p].palette = BuildEntries(loaded, recent)]
    /\ UNCHANGED <<closing, registry, bus, recent, clicks, late>>

\* The lock is left, and the shell built from what is there: no await between.
Show(p) ==
    /\ page[p].at = "walking" /\ page[p].todo = <<>>
    /\ queue' = Tail(queue)
    /\ page' = [page EXCEPT ![p].at = "shown", ![p].lists = loaded, ![p].bad = degraded,
                  ![p].palette = BuildEntries(loaded, recent)]
    /\ UNCHANGED <<closing, loaded, degraded, bus, recent, clicks, late>>

-----------------------------------------------------------------------------
(* Navigation: the sidebar or the palette opens a module.                  *)

\* record_recent
Recorded(m) ==
    LET r == <<m>> \o Selected(recent, ToSet(recent) \ {m}, FALSE)
    IN SubSeq(r, 1, IF Len(r) < RecentLimit THEN Len(r) ELSE RecentLimit)

MDetached(m, ps) == panels

\* detach_ui for clients ps: the handlers of the panels they have go.
Detached(m, ps) ==
    [x \in Modules \X Pages |->
        IF x[1] = m /\ x[2] \in ps /\ x \in attached THEN panels[x] - 1 ELSE panels[x]]

\* attach_ui: the client's old panel of the module goes, a fresh one comes.
AttachUI(m, p) ==
    /\ panels' = [Detached(m, {p}) EXCEPT ![<<m, p>>] = @ + 1]
    /\ attached' = attached \cup {<<m, p>>}

\* _activate_module, by a click or by _activate_by_id from the palette.  The
\* panels of the modules the client has left stay attached.
Activate(p, m) ==
    /\ app \in {"starting", "serving", "unloading"}
    /\ page[p].at = "shown"
    /\ m \in ToSet(page[p].lists)
    /\ clicks > 0 /\ clicks' = clicks - 1
    /\ page' = [page EXCEPT ![p].active = m]
    /\ recent' = Recorded(m)
    /\ AttachUI(m, p)
    /\ late' = (late \/ app = "unloading")
    /\ UNCHANGED <<closing, registry, logic>>

\* The tab is closed: every panel of the client is detached.
Disconnect(p) ==
    /\ page[p].at = "shown"
    /\ Goto(p, "gone")
    /\ panels' = [x \in Modules \X Pages |-> IF x[2] = p THEN Detached(x[1], {p})[x] ELSE panels[x]]
    /\ attached' = {x \in attached : x[2] # p}
    /\ UNCHANGED <<closing, registry, logic, recent, clicks, late>>

-----------------------------------------------------------------------------
(* Shutdown: _on_shutdown.                                                 *)

Shutdown ==
    /\ app = "serving"
    /\ app' = "unloading"
    /\ leaving' = loaded
    /\ size' = Len(loaded)
    /\ late' = (late \/ \E p \in Pages : page[p].at \in {"waiting", "walking", "loading"})
    /\ UNCHANGED <<registry, page, bus, recent, clicks>>

\* The dictionary iterator finds that a module has come since it began: the
\* error is nobody's to catch, and what remains of the shutdown is skipped.
Resized == Len(loaded) # size

Break ==
    /\ app = "unloading" /\ Resized
    /\ app' = "broken"
    /\ UNCHANGED <<leaving, size, registry, page, bus, recent, clicks, late>>

\* on_unload of one module: detach_ui of all clients, and unregister.
UnloadOne ==
    /\ app = "unloading" /\ ~Resized
    /\ leaving # <<>>
    /\ leaving' = Tail(leaving)
    /\ panels' = Detached(Head(leaving), Pages)
    /\ attached' = {x \in attached : x[1] # Head(leaving)}
    /\ logic' = [logic EXCEPT ![Head(leaving)] = IF @ > 0 THEN @ - 1 ELSE 0]
    /\ UNCHANGED <<app, size, registry, page, recent, clicks, late>>

MUnloadAll ==
    /\ app = "unloading" /\ ~Resized
    /\ app' = "draining"
    /\ loaded' = <<>>
    /\ UNCHANGED <<leaving, size, degraded, queue, page, bus, recent, clicks, late>>

UnloadAll ==
    /\ app = "unloading" /\ ~Resized
    /\ leaving = <<>>
    /\ app' = "draining"
    /\ loaded' = <<>>
    /\ UNCHANGED <<leaving, size, degraded, queue, page, bus, recent, clicks, late>>

\* shutdown_process_pool and storage.flush, done or timed out (Storage).
Drain ==
    /\ app = "draining"
    /\ app' = "flushed"
    /\ UNCHANGED <<leaving, size, registry, page, bus, recent, clicks, late>>

\* single_instance.release (SingleInstance).
Release ==
    /\ app = "flushed"
    /\ app' = "down"
    /\ UNCHANGED <<leaving, size, registry, page, bus, recent, clicks, late>>

-----------------------------------------------------------------------------

Closing == Start \/ Break \/ UnloadOne \/ UnloadAll \/ Drain \/ Release
Loading(p) == Enter(p) \/ PassBy(p) \/ Load(p) \/ Keep(p) \/ Degrade(p) \/ Show(p)

Next ==
    \/ Closing \/ Shutdown
    \/ \E p \in Pages : Connect(p) \/ Loading(p) \/ Disconnect(p) \/ \E m \in Modules : Activate(p, m)

\* The event loop runs whatever is ready; nobody has to click or to quit.
Spec == Init /\ [][Next]_vars /\ WF_vars(Closing) /\ \A p \in Pages : WF_vars(Loading(p))

-----------------------------------------------------------------------------
(* What the application promises.                                          *)

\* Two clients that connect at once used to subscribe everything twice, "which
\* made a single user action run the whole operation twice" (registry.py,
\* discover_and_load): until shutdown, a module's logic is on the bus once if it
\* is loaded or being loaded, and else not at all; a client has one panel of a
\* module on the bus if it has opened it and not gone, and else none.
HandledOnce ==
    app \in {"starting", "serving"} =>
        /\ \A m \in Modules : logic[m] =
              IF m \in ToSet(loaded) \/ \E p \in Pages : page[p].at = "loading" /\ Next1(p) = m THEN 1 ELSE 0
        /\ \A m \in Modules, p \in Pages : panels[<<m, p>>] = IF <<m, p>> \in attached THEN 1 ELSE 0

\* Shutdown takes every handler off the bus before the lock is released, and the
\* lock is released, if shutdown met no page that was still loading and no click.
CleanShutdown ==
    ~late =>
        /\ app # "broken"
        /\ app \in {"draining", "flushed", "down"} =>
              /\ \A m \in Modules : logic[m] = 0
              /\ \A x \in Modules \X Pages : panels[x] = 0

\* A page lists every module there is, as loaded or as degraded, even if it has
\* connected while another page was loading them, and its palette offers each
\* loaded one once, whatever an earlier session has left in the recent list.
PageIsComplete ==
    \A p \in Pages : page[p].at = "shown" /\ ~late =>
        /\ Modules = ToSet(page[p].lists) \cup (page[p].bad \cap Modules)
        /\ ToSet(page[p].lists) \cap page[p].bad = {}
        /\ Garbled # {} => Unknown \in page[p].bad
        /\ IsInjective(page[p].palette) /\ ToSet(page[p].palette) = ToSet(page[p].lists)

\* Nobody waits for the lock for ever: every page that connects is shown.
EveryPageIsShown == \A p \in Pages : page[p].at = "waiting" ~> page[p].at \in {"shown", "gone"}

\* The registry keeps the book of verdicts: each module is settled once, however
\* many pages ask for it, and whether or not what it needs is there by then.
Verdict ==
    [m \in Modules |-> IF m \in ToSet(loaded) THEN "loaded"
                       ELSE IF m \in degraded THEN "degraded" ELSE "open"]
Book == INSTANCE VerdictBook WITH verdict <- Verdict
VerdictsStand == Book!Spec
=============================================================================
