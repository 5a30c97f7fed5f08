--------------------------- MODULE Lifecycle_proofs ---------------------------
(***************************************************************************)
(* Proofs about Lifecycle, for any modules and any number of clients: the  *)
(* discovery lock keeps two pages from loading at once, so the registry    *)
(* implements VerdictBook, and no handler is ever on the bus twice; a      *)
(* shutdown takes all of them off; every page shows every module.  At the  *)
(* end, the lock that a launch has to win before there is an application.  *)
(***************************************************************************)
EXTENDS Lifecycle, SingleInstance, WellFoundedInduction, TLAPS

-----------------------------------------------------------------------------
(* The invariant.                                                          *)

Busy(p)  == page[p].at \in {"walking", "loading"}
Queued(p) == \E i \in 1..Len(queue) : queue[i] = p

\* Only the parts of a page that its loading reads need a type.
Typed ==
    /\ loaded \in Seq(Modules) /\ degraded \subseteq Ids
    /\ queue \in Seq(Pages)
    /\ DOMAIN page = Pages
    /\ \A p \in Pages : {"at", "todo"} \subseteq DOMAIN page[p] /\ page[p].todo \in Seq(Found)

\* Whoever walks or loads holds the lock, and whoever waits is in its queue.
LockInv ==
    \A p \in Pages :
        /\ page[p].at = "waiting" => Queued(p)
        /\ Busy(p) => queue # <<>> /\ queue[1] = p

\* What a page is loading is still to be settled.
LoadInv ==
    \A p \in Pages : page[p].at = "loading" =>
        /\ page[p].todo # <<>>
        /\ Next1(p) \in Modules
        /\ ~Known(Next1(p))

\* A module is not both loaded and degraded.
OneVerdict == ToSet(loaded) \cap degraded = {}

Inv == Typed /\ LockInv /\ LoadInv /\ OneVerdict

-----------------------------------------------------------------------------
(* What the steps do to the pages and to the sequences.                    *)

LEMMA AppendSet ==
    ASSUME NEW S, NEW s \in Seq(S), NEW x \in S
    PROVE  ToSet(Append(s, x)) = ToSet(s) \cup {x}
<1>1. DOMAIN Append(s, x) = 1..(Len(s) + 1) /\ DOMAIN s = 1..Len(s)
  OBVIOUS
<1>2. \A i \in 1..Len(s) : Append(s, x)[i] = s[i]
  OBVIOUS
<1>3. Append(s, x)[Len(s) + 1] = x
  OBVIOUS
<1> QED
  BY <1>1, <1>2, <1>3 DEF ToSet

LEMMA EmptySet == ToSet(<<>>) = {}
BY DEF ToSet

LEMMA GotoMoves ==
    ASSUME Typed, NEW p \in Pages, NEW place, Goto(p, place)
    PROVE  /\ DOMAIN page' = Pages
           /\ \A q \in Pages : /\ {"at", "todo"} \subseteq DOMAIN page'[q]
                               /\ page'[q].at = IF q = p THEN place ELSE page[q].at
                               /\ page'[q].todo = page[q].todo
BY DEF Typed, Goto

LEMMA HeadInFound ==
    ASSUME Typed, NEW p \in Pages, page[p].todo # <<>>
    PROVE  Next1(p) \in Found /\ Tail(page[p].todo) \in Seq(Found)
BY DEF Typed, Next1

LEMMA PassedMoves ==
    ASSUME Typed, NEW p \in Pages, Passed(p), page[p].todo # <<>>
    PROVE  /\ DOMAIN page' = Pages
           /\ \A q \in Pages : /\ {"at", "todo"} \subseteq DOMAIN page'[q]
                               /\ page'[q].at = IF q = p THEN "walking" ELSE page[q].at
                               /\ page'[q].todo \in Seq(Found)
           /\ \A q \in Pages : q # p => page'[q].todo = page[q].todo
<1>1. /\ DOMAIN page' = Pages
      /\ \A q \in Pages : /\ {"at", "todo"} \subseteq DOMAIN page'[q]
                          /\ page'[q].at = IF q = p THEN "walking" ELSE page[q].at
                          /\ page'[q].todo = IF q = p THEN Tail(page[q].todo) ELSE page[q].todo
  BY DEF Typed, Passed
<1>2. \A q \in Pages : page[q].todo \in Seq(Found)
  BY DEF Typed
<1>3. Tail(page[p].todo) \in Seq(Found)
  BY HeadInFound
<1> QED
  BY <1>1, <1>2, <1>3, Zenon

LEMMA ConnectMoves ==
    ASSUME Typed, NEW p \in Pages, Connect(p)
    PROVE  /\ DOMAIN page' = Pages
           /\ \A q \in Pages : /\ {"at", "todo"} \subseteq DOMAIN page'[q]
                               /\ page'[q].at = IF q = p THEN "waiting" ELSE page[q].at
                               /\ page'[q].todo = IF q = p THEN Manifests ELSE page[q].todo
BY DEF Typed, Connect

LEMMA ShowMoves ==
    ASSUME Typed, NEW p \in Pages, Show(p)
    PROVE  /\ DOMAIN page' = Pages
           /\ \A q \in Pages : /\ {"at", "todo"} \subseteq DOMAIN page'[q]
                               /\ page'[q].at = IF q = p THEN "shown" ELSE page[q].at
                               /\ page'[q].todo = page[q].todo
BY DEF Typed, Show

LEMMA ActivateMoves ==
    ASSUME Typed, NEW p \in Pages, NEW m \in Modules, Activate(p, m)
    PROVE  /\ DOMAIN page' = Pages
           /\ \A q \in Pages : /\ {"at", "todo"} \subseteq DOMAIN page'[q]
                               /\ page'[q].at = page[q].at
                               /\ page'[q].todo = page[q].todo
BY DEF Typed, Activate

LEMMA TailQueued ==
    ASSUME Typed, NEW p \in Pages, NEW q \in Pages, q # p, Queued(q),
           queue # <<>>, queue[1] = p, queue' = Tail(queue)
    PROVE  Queued(q)'
<1>1. PICK i \in 1..Len(queue) : queue[i] = q
  BY DEF Queued
<1>2. i # 1 /\ i - 1 \in 1..Len(Tail(queue)) /\ Tail(queue)[i - 1] = q
  BY <1>1 DEF Typed
<1> QED
  BY <1>2 DEF Queued

LEMMA AppendQueued ==
    ASSUME Typed, NEW p \in Pages, queue' = Append(queue, p)
    PROVE  /\ queue' # <<>> /\ queue' \in Seq(Pages)
           /\ Queued(p)'
           /\ \A q \in Pages : Queued(q) => Queued(q)'
           /\ queue # <<>> => queue'[1] = queue[1]
<1>1. Len(queue') = Len(queue) + 1 /\ queue'[Len(queue) + 1] = p
  BY DEF Typed
<1>2. \A i \in 1..Len(queue) : queue'[i] = queue[i]
  BY DEF Typed
<1>3. Len(queue) \in Nat
  BY DEF Typed
<1> QED
  BY <1>1, <1>2, <1>3 DEF Queued, Typed

-----------------------------------------------------------------------------
(* The invariant holds.                                                    *)

LEMMA InvInit == Init => Inv
<1> SUFFICES ASSUME Init PROVE Inv
  OBVIOUS
<1>1. DOMAIN page = Pages
  BY DEF Init
<1>2. \A p \in Pages : page[p].at = "out" /\ {"at", "todo"} \subseteq DOMAIN page[p] /\ page[p].todo = <<>>
  BY DEF Init, NoPage
<1>3. <<>> \in Seq(Found)
  OBVIOUS
<1> HIDE DEF Init
<1>4. loaded \in Seq(Modules) /\ queue \in Seq(Pages) /\ degraded \subseteq Ids
  BY DEF Init
<1>5. Typed
  BY <1>1, <1>2, <1>3, <1>4, Zenon DEF Typed
<1>6. OneVerdict
  BY DEF Init, OneVerdict
<1> QED
  BY <1>2, <1>5, <1>6 DEF Inv, LockInv, LoadInv, Busy

\* The steps that only move page p while it keeps the lock.
LEMMA HolderKeepsLock ==
    ASSUME LockInv, UNCHANGED queue, NEW p \in Pages, Busy(p),
           page'[p].at \in {"walking", "loading"},
           \A q \in Pages : q # p => page'[q].at = page[q].at
    PROVE  LockInv'
BY DEF LockInv, Queued, Busy

\* The others are not loading while page p holds the lock.
LEMMA HolderIsAlone ==
    ASSUME LockInv, NEW p \in Pages, NEW q \in Pages, Busy(p), Busy(q)
    PROVE  p = q
BY DEF LockInv

LEMMA InvStep == Inv /\ [Next]_vars => Inv'
<1> SUFFICES ASSUME Inv, [Next]_vars PROVE Inv'
  OBVIOUS
<1> USE DEF Inv
<1>1. ASSUME UNCHANGED <<registry, page>> PROVE Inv'
  BY <1>1 DEF registry, Typed, LockInv, LoadInv, OneVerdict, Busy, Queued, Known, Next1
<1>2. ASSUME NEW p \in Pages, Connect(p) PROVE Inv'
  <2>1. queue' = Append(queue, p) /\ UNCHANGED <<loaded, degraded>> /\ page[p].at = "out"
    BY <1>2 DEF Connect
  <2>2. Typed'
    BY <1>2, <2>1, ConnectMoves, AppendQueued, LifecycleAssumption DEF Typed
  <2>3. LockInv'
    BY <1>2, <2>1, ConnectMoves, AppendQueued DEF LockInv, Busy
  <2>4. LoadInv'
    BY <1>2, <2>1, ConnectMoves DEF LoadInv, Known, Next1
  <2> QED
    BY <2>1, <2>2, <2>3, <2>4 DEF OneVerdict
<1>3. ASSUME NEW p \in Pages, Enter(p) PROVE Inv'
  <2>1. Goto(p, "walking") /\ UNCHANGED registry /\ page[p].at = "waiting" /\ queue[1] = p
    BY <1>3 DEF Enter, MayEnter
  <2>2. queue # <<>>
    BY <2>1 DEF LockInv, Queued
  <2>3. Typed'
    BY <2>1, GotoMoves DEF Typed, registry
  <2>4. LockInv'
    BY <2>1, <2>2, GotoMoves DEF LockInv, Busy, Queued, registry
  <2>5. LoadInv'
    BY <2>1, GotoMoves DEF LoadInv, Known, Next1, registry
  <2> QED
    BY <2>1, <2>3, <2>4, <2>5 DEF OneVerdict, registry
<1>4. ASSUME NEW p \in Pages, PassBy(p) PROVE Inv'
  <2>1. Passed(p) /\ UNCHANGED registry /\ page[p].at = "walking" /\ page[p].todo # <<>>
    BY <1>4 DEF PassBy, Walking
  <2>2. Typed'
    BY <2>1, PassedMoves DEF Typed, registry
  <2>3. LockInv'
    BY <2>1, PassedMoves, HolderKeepsLock DEF Busy, registry
  <2>4. LoadInv'
    BY <2>1, PassedMoves DEF LoadInv, Known, Next1, registry
  <2> QED
    BY <2>1, <2>2, <2>3, <2>4 DEF OneVerdict, registry
<1>5. ASSUME NEW p \in Pages, Load(p) PROVE Inv'
  <2>1. Goto(p, "loading") /\ UNCHANGED registry /\ page[p].at = "walking" /\ page[p].todo # <<>>
        /\ Next1(p) \in Modules /\ ~Known(Next1(p))
    BY <1>5 DEF Load, Walking
  <2>2. Typed'
    BY <2>1, GotoMoves DEF Typed, registry
  <2>3. LockInv'
    BY <2>1, GotoMoves, HolderKeepsLock DEF Busy, registry
  <2>4. LoadInv'
    BY <2>1, GotoMoves DEF LoadInv, Known, Next1, registry
  <2> QED
    BY <2>1, <2>2, <2>3, <2>4 DEF OneVerdict, registry
<1>6. ASSUME NEW p \in Pages, Keep(p) PROVE Inv'
  <2>1. Passed(p) /\ UNCHANGED <<degraded, queue>> /\ page[p].at = "loading"
        /\ page[p].todo # <<>> /\ Next1(p) \in Modules /\ ~Known(Next1(p))
    BY <1>6 DEF Keep, LoadInv
  <2>2. loaded' = Append(loaded, Next1(p))
    BY <1>6, <2>1 DEF Keep, Known
  <2>3. loaded' \in Seq(Modules) /\ ToSet(loaded') = ToSet(loaded) \cup {Next1(p)}
    BY <2>1, <2>2, AppendSet DEF Typed
  <2>4. Typed'
    BY <2>1, <2>3, PassedMoves DEF Typed
  <2>5. LockInv'
    BY <2>1, PassedMoves, HolderKeepsLock DEF Busy
  <2>6. \A q \in Pages : page'[q].at # "loading"
    BY <2>1, PassedMoves, HolderIsAlone DEF Busy
  <2> QED
    BY <2>1, <2>3, <2>4, <2>5, <2>6 DEF OneVerdict, LoadInv, Known
<1>7. ASSUME NEW p \in Pages, Degrade(p) PROVE Inv'
  <2>1. Passed(p) /\ UNCHANGED <<loaded, queue>> /\ page[p].at = "walking" /\ page[p].todo # <<>>
        /\ ~Known(Next1(p)) /\ Next1(p) \notin Parked
        /\ degraded' = degraded \cup {IF Next1(p) \in Garbled THEN Unknown ELSE Next1(p)}
    BY <1>7 DEF Degrade, Walking
  <2>2. Next1(p) \notin Garbled => Next1(p) \in Modules
    BY <2>1, HeadInFound DEF Modules
  <2>3. degraded' \subseteq Ids
    BY <2>1, <2>2 DEF Typed, Ids
  <2>4. Typed'
    BY <2>1, <2>3, PassedMoves DEF Typed
  <2>5. LockInv'
    BY <2>1, PassedMoves, HolderKeepsLock DEF Busy
  <2>6. \A q \in Pages : page'[q].at # "loading"
    BY <2>1, PassedMoves, HolderIsAlone DEF Busy
  <2>7. Unknown \notin ToSet(loaded)
    BY LifecycleAssumption DEF Typed, ToSet, Modules
  <2> QED
    BY <2>1, <2>4, <2>5, <2>6, <2>7 DEF OneVerdict, LoadInv, Known
<1>8. ASSUME NEW p \in Pages, Show(p) PROVE Inv'
  <2>1. queue' = Tail(queue) /\ UNCHANGED <<loaded, degraded>> /\ page[p].at = "walking"
    BY <1>8 DEF Show
  <2>2. queue # <<>> /\ queue[1] = p
    BY <2>1 DEF LockInv, Busy
  <2>3. Typed'
    BY <1>8, <2>1, <2>2, ShowMoves DEF Typed
  <2>4. \A q \in Pages : q # p => ~Busy(q)
    BY <2>1, HolderIsAlone DEF Busy
  <2>5. \A q \in Pages : page'[q].at = "waiting" => q # p /\ page[q].at = "waiting"
    BY <1>8, ShowMoves
  <2>6. \A q \in Pages : page'[q].at = "waiting" => Queued(q)'
    BY <2>1, <2>2, <2>5, TailQueued DEF LockInv
  <2>7. \A q \in Pages : page'[q].at \notin {"walking", "loading"}
    BY <1>8, <2>4, ShowMoves DEF Busy
  <2> QED
    BY <2>1, <2>3, <2>6, <2>7 DEF OneVerdict, LoadInv, LockInv, Busy
<1>9. ASSUME NEW p \in Pages, NEW m \in Modules, Activate(p, m) PROVE Inv'
  <2>1. UNCHANGED registry
    BY <1>9 DEF Activate
  <2>2. Typed'
    BY <1>9, <2>1, ActivateMoves DEF Typed, registry
  <2>3. LockInv' /\ LoadInv'
    BY <1>9, <2>1, ActivateMoves DEF LockInv, LoadInv, Busy, Queued, Known, Next1, registry
  <2> QED
    BY <2>1, <2>2, <2>3 DEF OneVerdict, registry
<1>10. ASSUME NEW p \in Pages, Disconnect(p) PROVE Inv'
  <2>1. Goto(p, "gone") /\ UNCHANGED registry
    BY <1>10 DEF Disconnect
  <2>2. Typed'
    BY <2>1, GotoMoves DEF Typed, registry
  <2>3. LockInv' /\ LoadInv'
    BY <2>1, GotoMoves DEF LockInv, LoadInv, Busy, Queued, Known, Next1, registry
  <2> QED
    BY <2>1, <2>2, <2>3 DEF OneVerdict, registry
<1>11. CASE UnloadAll
  <2>1. loaded' = <<>> /\ UNCHANGED <<degraded, queue, page>>
    BY <1>11 DEF UnloadAll
  <2>2. ToSet(loaded') = {}
    BY <2>1, EmptySet
  <2> QED
    BY <2>1, <2>2 DEF Typed, LockInv, LoadInv, OneVerdict, Busy, Queued, Known, Next1
<1>12. UNCHANGED vars => UNCHANGED <<registry, page>>
  BY DEF vars
<1>13. Start \/ Break \/ UnloadOne \/ Drain \/ Release \/ Shutdown => UNCHANGED <<registry, page>>
  BY DEF Start, Break, UnloadOne, Drain, Release, Shutdown
<1> QED
  BY <1>1, <1>2, <1>3, <1>4, <1>5, <1>6, <1>7, <1>8, <1>9, <1>10, <1>11, <1>12, <1>13
  DEF Next, Closing, Loading

-----------------------------------------------------------------------------
(* The registry implements the book of verdicts.                           *)

\* A step that settles nothing is a stutter of the book.
LEMMA SameVerdict == UNCHANGED <<loaded, degraded>> => UNCHANGED Verdict
BY DEF Verdict, ToSet

LEMMA BookInit == Init => Book!Init
BY EmptySet DEF Init, Book!Init, Verdict

LEMMA BookStep == Inv /\ [Next]_vars => [Book!Next]_Verdict
<1> SUFFICES ASSUME Inv, [Next]_vars PROVE [Book!Next]_Verdict
  OBVIOUS
<1>1. ASSUME UNCHANGED <<loaded, degraded>> PROVE [Book!Next]_Verdict
  BY <1>1, SameVerdict
<1>2. ASSUME NEW p \in Pages, Keep(p) PROVE Book!Settle(Next1(p)) /\ Next1(p) \in Modules
  <2>1. UNCHANGED degraded /\ Next1(p) \in Modules /\ ~Known(Next1(p))
    BY <1>2 DEF Keep, Inv, LoadInv
  <2>2. loaded' = Append(loaded, Next1(p))
    BY <1>2, <2>1 DEF Keep, Known
  <2>3. ToSet(loaded') = ToSet(loaded) \cup {Next1(p)}
    BY <2>1, <2>2, AppendSet DEF Inv, Typed
  <2>4. Verdict[Next1(p)] = "open"
    BY <2>1 DEF Verdict, Known
  <2>5. Verdict' = [Verdict EXCEPT ![Next1(p)] = "loaded"]
    BY <2>1, <2>3 DEF Verdict
  <2> QED
    BY <2>1, <2>4, <2>5 DEF Book!Settle
<1>3. ASSUME NEW p \in Pages, Degrade(p), Next1(p) \notin Garbled
      PROVE  Book!Settle(Next1(p)) /\ Next1(p) \in Modules
  <2>1. UNCHANGED loaded /\ ~Known(Next1(p)) /\ degraded' = degraded \cup {Next1(p)}
    BY <1>3 DEF Degrade
  <2>2. Next1(p) \in Modules
    BY <1>3, HeadInFound DEF Degrade, Walking, Inv, Modules
  <2>3. Verdict[Next1(p)] = "open"
    BY <2>1, <2>2 DEF Verdict, Known
  <2>4. Verdict' = [Verdict EXCEPT ![Next1(p)] = "degraded"]
    BY <2>1, <2>2 DEF Verdict, Known
  <2> QED
    BY <2>2, <2>3, <2>4 DEF Book!Settle
<1>4. ASSUME NEW p \in Pages, Degrade(p), Next1(p) \in Garbled PROVE UNCHANGED Verdict
  <2>1. UNCHANGED loaded /\ degraded' = degraded \cup {Unknown}
    BY <1>4 DEF Degrade
  <2>2. Unknown \notin Modules
    BY LifecycleAssumption DEF Modules
  <2> QED
    BY <2>1, <2>2 DEF Verdict
<1>5. CASE UnloadAll
  <2>1. UNCHANGED degraded /\ ToSet(loaded') = {}
    BY <1>5, EmptySet DEF UnloadAll
  <2>2. \A m \in Modules : m \in ToSet(loaded) => m \notin degraded
    BY DEF Inv, OneVerdict
  <2> QED
    BY <2>1, <2>2 DEF Verdict, Book!Next, Book!Unload
<1>6. UNCHANGED vars => UNCHANGED <<loaded, degraded>>
  BY DEF vars, registry
<1>7. Start \/ Break \/ UnloadOne \/ Drain \/ Release \/ Shutdown => UNCHANGED <<loaded, degraded>>
  BY DEF Start, Break, UnloadOne, Drain, Release, Shutdown, registry
<1>8. ASSUME NEW p \in Pages,
             \/ Connect(p) \/ Enter(p) \/ PassBy(p) \/ Load(p) \/ Show(p) \/ Disconnect(p)
             \/ \E m \in Modules : Activate(p, m)
      PROVE  UNCHANGED <<loaded, degraded>>
  BY <1>8 DEF Connect, Enter, PassBy, Load, Show, Disconnect, Activate, registry
<1> QED
  BY <1>1, <1>2, <1>3, <1>4, <1>5, <1>6, <1>7, <1>8 DEF Next, Closing, Loading, Book!Next

\* However many pages load the modules at once, the registry keeps the book of
\* verdicts: each module is settled once, and stays so until all are unloaded.
THEOREM RegistryKeepsBook == Spec => VerdictsStand
<1>1. Init => Inv
  BY InvInit
<1>2. Inv /\ [Next]_vars => Inv'
  BY InvStep
<1> QED
  BY <1>1, <1>2, BookInit, BookStep, PTL DEF Spec, VerdictsStand, Book!Spec

-----------------------------------------------------------------------------
(* No handler is on the bus twice.                                         *)

Serving == app \in {"starting", "serving"}

\* Who puts the logic of module m on the bus: itself, once loaded, or a page.
Present(m) == m \in ToSet(loaded) \/ \E p \in Pages : page[p].at = "loading" /\ Next1(p) = m

LogicOnce ==
    /\ logic \in [Modules -> Int]
    /\ \A m \in Modules : logic[m] = IF Present(m) THEN 1 ELSE 0

PanelsOnce ==
    /\ panels \in [Modules \X Pages -> Int]
    /\ \A x \in Modules \X Pages : panels[x] = IF x \in attached THEN 1 ELSE 0

BusInv == (Serving => LogicOnce) /\ PanelsOnce

LEMMA BusInit == Init => BusInv
BY EmptySet DEF Init, BusInv, LogicOnce, PanelsOnce, Present, NoPage

LEMMA LogicStep ==
    ASSUME Inv, [Next]_vars, Serving, Serving', LogicOnce
    PROVE  LogicOnce'
<1> USE DEF Inv
<1>1. ASSUME UNCHANGED <<loaded, page, logic>> PROVE LogicOnce'
  BY <1>1 DEF LogicOnce, Present, Next1
<1>2. ASSUME UNCHANGED <<loaded, logic>>,
             \A p \in Pages : page[p].at = "loading" <=> page'[p].at = "loading",
             \A p \in Pages : page[p].at = "loading" => page'[p].todo = page[p].todo
      PROVE  LogicOnce'
  BY <1>2 DEF LogicOnce, Present, Next1
<1>3. ASSUME NEW p \in Pages, Connect(p) PROVE LogicOnce'
  BY <1>2, <1>3, ConnectMoves DEF Connect, bus
<1>4. ASSUME NEW p \in Pages, Enter(p) PROVE LogicOnce'
  BY <1>2, <1>4, GotoMoves DEF Enter, bus, registry
<1>5. ASSUME NEW p \in Pages, PassBy(p) PROVE LogicOnce'
  BY <1>2, <1>5, PassedMoves DEF PassBy, Walking, bus, registry
<1>6. ASSUME NEW p \in Pages, Degrade(p) PROVE LogicOnce'
  BY <1>2, <1>6, PassedMoves DEF Degrade, Walking, bus
<1>7. ASSUME NEW p \in Pages, Show(p) PROVE LogicOnce'
  BY <1>2, <1>7, ShowMoves DEF Show, bus
<1>8. ASSUME NEW p \in Pages, NEW m \in Modules, Activate(p, m) PROVE LogicOnce'
  BY <1>2, <1>8, ActivateMoves DEF Activate, registry
<1>9. ASSUME NEW p \in Pages, Disconnect(p) PROVE LogicOnce'
  BY <1>2, <1>9, GotoMoves DEF Disconnect, registry
<1>10. ASSUME NEW p \in Pages, Load(p) PROVE LogicOnce'
  <2> DEFINE m == Next1(p)
  <2>1. Goto(p, "loading") /\ UNCHANGED loaded /\ page[p].at = "walking"
        /\ m \in Modules /\ ~Known(m) /\ logic' = [logic EXCEPT ![m] = @ + 1]
    BY <1>10 DEF Load, Walking, Subscribe, registry
  <2>2. \A q \in Pages : page[q].at # "loading"
    BY <2>1, HolderIsAlone DEF Busy
  <2>3. m \notin ToSet(loaded)
    BY <2>1 DEF Known
  <2>4. Next1(p)' = m
    BY <2>1, GotoMoves DEF Next1
  <2>5. \A q \in Pages : page'[q].at = "loading" <=> q = p
    BY <2>1, <2>2, GotoMoves
  <2>6. \A k \in Modules : Present(k)' <=> Present(k) \/ k = m
    BY <2>1, <2>2, <2>4, <2>5 DEF Present
  <2>7. ~Present(m)
    BY <2>2, <2>3 DEF Present
  <2> HIDE DEF m
  <2> QED
    BY <2>1, <2>6, <2>7 DEF LogicOnce
<1>11. ASSUME NEW p \in Pages, Keep(p) PROVE LogicOnce'
  <2> DEFINE m == Next1(p)
  <2>1. Passed(p) /\ UNCHANGED logic /\ page[p].at = "loading" /\ page[p].todo # <<>>
        /\ m \in Modules /\ ~Known(m)
    BY <1>11 DEF Keep, LoadInv, bus
  <2>2. loaded' = Append(loaded, m)
    BY <1>11, <2>1 DEF Keep, Known
  <2>3. ToSet(loaded') = ToSet(loaded) \cup {m}
    BY <2>1, <2>2, AppendSet DEF Typed
  <2>4. \A q \in Pages : page[q].at = "loading" <=> q = p
    BY <2>1, HolderIsAlone DEF Busy
  <2>5. \A q \in Pages : page'[q].at # "loading"
    BY <2>1, <2>4, PassedMoves
  <2>6. \A k \in Modules : Present(k)' <=> Present(k)
    BY <2>3, <2>4, <2>5 DEF Present
  <2> QED
    BY <2>1, <2>6 DEF LogicOnce
<1>12. Start \/ Drain \/ Release \/ Shutdown => UNCHANGED <<loaded, page, logic>>
  BY DEF Start, Drain, Release, Shutdown, registry, bus
<1>13. ~(Break \/ UnloadOne \/ UnloadAll)
  BY DEF Break, UnloadOne, UnloadAll, Serving
<1>14. UNCHANGED vars => UNCHANGED <<loaded, page, logic>>
  BY DEF vars, registry, bus
<1> QED
  BY <1>1, <1>3, <1>4, <1>5, <1>6, <1>7, <1>8, <1>9, <1>10, <1>11, <1>12, <1>13, <1>14
  DEF Next, Closing, Loading

LEMMA PanelStep ==
    ASSUME [Next]_vars, PanelsOnce
    PROVE  PanelsOnce'
<1>1. ASSUME UNCHANGED <<panels, attached>> PROVE PanelsOnce'
  BY <1>1 DEF PanelsOnce
<1>2. ASSUME NEW p \in Pages, NEW m \in Modules, Activate(p, m) PROVE PanelsOnce'
  <2>1. panels' = [Detached(m, {p}) EXCEPT ![<<m, p>>] = @ + 1] /\ attached' = attached \cup {<<m, p>>}
    BY <1>2 DEF Activate, AttachUI
  <2> DEFINE d == Detached(m, {p})
  <2>2. d \in [Modules \X Pages -> Int] /\ d[<<m, p>>] = 0
    BY DEF Detached, PanelsOnce
  <2>3. \A x \in Modules \X Pages : x # <<m, p>> => d[x] = panels[x]
    BY DEF Detached
  <2>4. panels' = [d EXCEPT ![<<m, p>>] = @ + 1]
    BY <2>1
  <2> HIDE DEF d
  <2>5. panels' \in [Modules \X Pages -> Int] /\ panels'[<<m, p>>] = 1
    BY <2>2, <2>4
  <2>6. \A x \in Modules \X Pages : x # <<m, p>> => panels'[x] = panels[x]
    BY <2>2, <2>3, <2>4
  <2> QED
    BY <2>1, <2>5, <2>6 DEF PanelsOnce
<1>3. ASSUME NEW p \in Pages, Disconnect(p) PROVE PanelsOnce'
  <2>1. panels' = [x \in Modules \X Pages |-> IF x[2] = p THEN Detached(x[1], {p})[x] ELSE panels[x]]
        /\ attached' = {x \in attached : x[2] # p}
    BY <1>3 DEF Disconnect
  <2>2. \A m \in Modules : Detached(m, {p})[<<m, p>>] = 0
    BY DEF Detached, PanelsOnce
  <2>3. \A m \in Modules, q \in Pages :
            panels'[<<m, q>>] = IF q = p THEN Detached(m, {p})[<<m, p>>] ELSE panels[<<m, q>>]
    BY <2>1
  <2>4. \A m \in Modules, q \in Pages : panels'[<<m, q>>] = IF q = p THEN 0 ELSE panels[<<m, q>>]
    BY <2>2, <2>3
  <2>5. \A m \in Modules, q \in Pages : <<m, q>> \in attached' <=> <<m, q>> \in attached /\ q # p
    BY <2>1
  <2>6. DOMAIN panels' = Modules \X Pages /\ panels' = [x \in Modules \X Pages |-> panels'[x]]
    BY <2>1
  <2> QED
    BY <2>4, <2>5, <2>6 DEF PanelsOnce
<1>4. ASSUME NEW p \in Pages, Connect(p) \/ Loading(p) PROVE PanelsOnce'
  BY <1>1, <1>4 DEF Connect, Loading, Enter, PassBy, Load, Keep, Degrade, Show, bus
<1>5. Start \/ Break \/ UnloadAll \/ Drain \/ Release \/ Shutdown => UNCHANGED <<panels, attached>>
  BY DEF Start, Break, UnloadAll, Drain, Release, Shutdown, bus
<1>6. ASSUME UnloadOne PROVE PanelsOnce'
  <2> DEFINE m == Head(leaving)
  <2>1. panels' = Detached(m, Pages) /\ attached' = {x \in attached : x[1] # m}
    BY <1>6 DEF UnloadOne
  <2> HIDE DEF m
  <2>2. panels' \in [Modules \X Pages -> Int]
    BY <2>1 DEF Detached, PanelsOnce
  <2>3. ASSUME NEW k \in Modules, NEW q \in Pages
        PROVE  panels'[<<k, q>>] = IF <<k, q>> \in attached' THEN 1 ELSE 0
    <3>1. panels'[<<k, q>>] = IF k = m /\ <<k, q>> \in attached THEN panels[<<k, q>>] - 1 ELSE panels[<<k, q>>]
      BY <2>1 DEF Detached
    <3>2. <<k, q>> \in attached' <=> <<k, q>> \in attached /\ k # m
      BY <2>1
    <3>3. panels[<<k, q>>] = IF <<k, q>> \in attached THEN 1 ELSE 0
      BY DEF PanelsOnce
    <3> QED BY <3>1, <3>2, <3>3
  <2> QED BY <2>2, <2>3 DEF PanelsOnce
<1>7. UNCHANGED vars => UNCHANGED <<panels, attached>>
  BY DEF vars, bus
<1> QED
  BY <1>1, <1>2, <1>3, <1>4, <1>5, <1>6, <1>7 DEF Next, Closing

LEMMA ServesNoMore == [Next]_vars /\ Serving' => Serving
BY DEF Next, vars, closing, Serving, Closing, Start, Break, UnloadOne, UnloadAll, Drain, Release,
       Shutdown, Loading, Connect, Enter, PassBy, Load, Keep, Degrade, Show, Activate, Disconnect

LEMMA BusStep == Inv /\ BusInv /\ [Next]_vars => BusInv'
BY LogicStep, PanelStep, ServesNoMore DEF BusInv

\* Until shutdown no module's logic and no panel is on the bus twice, however
\* many pages load at once and however often their modules are opened.
THEOREM NothingRunsTwice == Spec => []HandledOnce
<1>1. Init => Inv /\ BusInv
  BY InvInit, BusInit
<1>2. Inv /\ BusInv /\ [Next]_vars => (Inv /\ BusInv)'
  BY InvStep, BusStep
<1>3. BusInv => HandledOnce
  BY DEF BusInv, HandledOnce, Serving, LogicOnce, PanelsOnce, Present
<1> QED
  BY <1>1, <1>2, <1>3, PTL DEF Spec


-----------------------------------------------------------------------------
(* Shutdown.                                                               *)

Waiting(p) == page[p].at \in {"waiting", "walking", "loading"}

\* What a page shows once its shell is built.
Views == \A p \in Pages : {"lists", "bad", "palette"} \subseteq DOMAIN page[p]

\* A page offers only what is loaded, so only what is loaded has panels.
OfferInv ==
    /\ Views /\ IsInjective(loaded)
    /\ Serving => /\ \A p \in Pages : ToSet(page[p].lists) \subseteq ToSet(loaded)
                  /\ \A x \in attached : x[1] \in ToSet(loaded)

\* The handlers left are those of the modules unload_all has yet to visit.
LeavingInv ==
    /\ size = Len(loaded) /\ leaving \in Seq(Modules) /\ IsInjective(leaving)
    /\ logic \in [Modules -> Int]
    /\ \A m \in Modules : logic[m] = IF m \in ToSet(leaving) THEN 1 ELSE 0
    /\ \A x \in attached : x[1] \in ToSet(leaving)

ShutInv ==
    /\ app \in {"starting", "serving", "unloading", "draining", "flushed", "down", "broken"}
    /\ ~late /\ ~Serving =>
          /\ app # "broken"
          /\ \A p \in Pages : ~Waiting(p)
          /\ app = "unloading" => LeavingInv
          /\ app # "unloading" => attached = {} /\ \A m \in Modules : logic[m] = 0

LEMMA ViewsKept ==
    ASSUME Typed, Views, NEW p \in Pages,
           (\E place : Goto(p, place)) \/ Passed(p) \/ Connect(p) \/ (\E m \in Modules : Activate(p, m))
    PROVE  /\ Views'
           /\ \A q \in Pages : /\ page'[q].lists = page[q].lists
                               /\ page'[q].bad = page[q].bad
                               /\ page'[q].palette = page[q].palette
<1>1. CASE \E place : Goto(p, place)
  BY <1>1 DEF Typed, Views, Goto
<1>2. CASE Passed(p)
  BY <1>2 DEF Typed, Views, Passed
<1>3. CASE Connect(p)
  BY <1>3 DEF Typed, Views, Connect
<1>4. CASE \E m \in Modules : Activate(p, m)
  BY <1>4 DEF Typed, Views, Activate
<1> QED BY <1>1, <1>2, <1>3, <1>4

LEMMA ShowViews ==
    ASSUME Typed, Views, NEW p \in Pages, Show(p)
    PROVE  /\ Views'
           /\ \A q \in Pages : q # p => page'[q] = page[q]
           /\ page'[p].lists = loaded /\ page'[p].bad = degraded
           /\ page'[p].palette = BuildEntries(loaded, recent)
BY DEF Typed, Views, Show

LEMMA AppendsNew ==
    ASSUME NEW S, NEW s \in Seq(S), NEW x \in S, IsInjective(s), x \notin ToSet(s)
    PROVE  IsInjective(Append(s, x))
<1>1. DOMAIN Append(s, x) = 1..(Len(s) + 1) /\ DOMAIN s = 1..Len(s) /\ Len(s) \in Nat
  OBVIOUS
<1>2. \A i \in 1..Len(s) : Append(s, x)[i] = s[i]
  OBVIOUS
<1>3. Append(s, x)[Len(s) + 1] = x
  OBVIOUS
<1>4. \A i \in 1..Len(s) : s[i] # x
  BY <1>1 DEF ToSet
<1>5. \A i, j \in 1..Len(s) : s[i] = s[j] => i = j
  BY <1>1 DEF IsInjective
<1> QED BY <1>1, <1>2, <1>3, <1>4, <1>5 DEF IsInjective

LEMMA TailsOnce ==
    ASSUME NEW S, NEW s \in Seq(S), s # <<>>, IsInjective(s)
    PROVE  /\ Tail(s) \in Seq(S) /\ Head(s) \in S
           /\ IsInjective(Tail(s))
           /\ ToSet(Tail(s)) = ToSet(s) \ {Head(s)} /\ Head(s) \in ToSet(s)
<1>1. DOMAIN s = 1..Len(s) /\ Len(s) \in Nat \ {0} /\ Head(s) = s[1]
  OBVIOUS
<1>2. DOMAIN Tail(s) = 1..(Len(s) - 1) /\ \A i \in 1..(Len(s) - 1) : Tail(s)[i] = s[i + 1]
  OBVIOUS
<1>3. \A i, j \in 1..Len(s) : s[i] = s[j] => i = j
  BY <1>1 DEF IsInjective
<1>4. IsInjective(Tail(s))
  BY <1>1, <1>2, <1>3 DEF IsInjective
<1>5. ASSUME NEW x PROVE x \in ToSet(Tail(s)) <=> x \in ToSet(s) /\ x # Head(s)
  <2>1. x \in ToSet(Tail(s)) <=> \E i \in 1..(Len(s) - 1) : s[i + 1] = x
    BY <1>2 DEF ToSet
  <2>2. x \in ToSet(s) <=> \E i \in 1..Len(s) : s[i] = x
    BY <1>1 DEF ToSet
  <2>3. ASSUME NEW i \in 1..(Len(s) - 1), s[i + 1] = x PROVE x \in ToSet(s) /\ x # Head(s)
    <3>1. i + 1 \in 1..Len(s) /\ i + 1 # 1 /\ 1 \in 1..Len(s)
      BY <1>1
    <3> QED BY <1>1, <1>3, <2>2, <2>3, <3>1
  <2>4. ASSUME NEW i \in 1..Len(s), s[i] = x, x # Head(s) PROVE \E k \in 1..(Len(s) - 1) : s[k + 1] = x
    <3>1. i # 1 /\ i - 1 \in 1..(Len(s) - 1) /\ (i - 1) + 1 = i
      BY <1>1, <2>4
    <3> QED BY <2>4, <3>1
  <2> QED BY <2>1, <2>2, <2>3, <2>4
<1>6. Head(s) \in ToSet(s)
  BY <1>1 DEF ToSet
<1> QED BY <1>4, <1>5, <1>6

LEMMA OfferInit == Init => OfferInv /\ ShutInv
BY EmptySet DEF Init, OfferInv, ShutInv, Views, Serving, NoPage, IsInjective

LEMMA OfferStep ==
    ASSUME Inv, OfferInv, [Next]_vars
    PROVE  OfferInv'
<1> USE DEF Inv, OfferInv
<1>1. Views'
  <2>1. ASSUME NEW p \in Pages, Connect(p) \/ Loading(p) \/ Disconnect(p) \/ \E m \in Modules : Activate(p, m)
        PROVE  Views'
    BY <2>1, ViewsKept, ShowViews DEF Loading, Enter, PassBy, Load, Keep, Degrade, Disconnect
  <2>2. Closing \/ Shutdown \/ UNCHANGED vars => UNCHANGED page
    BY DEF Closing, Start, Break, UnloadOne, UnloadAll, Drain, Release, Shutdown, vars
  <2> QED BY <2>1, <2>2 DEF Next, Views
<1>2. ASSUME NEW p \in Pages, Keep(p)
      PROVE  IsInjective(loaded') /\ ToSet(loaded) \subseteq ToSet(loaded')
  <2>1. Next1(p) \in Modules /\ ~Known(Next1(p)) /\ loaded' = Append(loaded, Next1(p))
    BY <1>2 DEF Keep, LoadInv, Known
  <2>2. loaded \in Seq(Modules) /\ Next1(p) \notin ToSet(loaded) /\ IsInjective(loaded)
    BY <2>1 DEF Known, Typed
  <2>3. IsInjective(loaded')
    BY <2>1, <2>2, AppendsNew
  <2>4. ToSet(Append(loaded, Next1(p))) = ToSet(loaded) \cup {Next1(p)}
    BY <2>1, <2>2, AppendSet
  <2> QED BY <2>1, <2>3, <2>4
<1>3. (\E p \in Pages : Keep(p)) \/ UnloadAll \/ UNCHANGED loaded
  BY DEF Next, Closing, Start, Break, UnloadOne, Drain, Release, Shutdown, vars, registry,
         Connect, Loading, Enter, PassBy, Load, Degrade, Show, Disconnect, Activate
<1>4. IsInjective(loaded')
  <2>1. UnloadAll => loaded' = <<>>
    BY DEF UnloadAll
  <2>2. IsInjective(<<>>)
    BY DEF IsInjective
  <2> QED BY <1>2, <1>3, <2>1, <2>2
<1>5. ASSUME Serving'
      PROVE  /\ \A p \in Pages : ToSet(page'[p].lists) \subseteq ToSet(loaded')
             /\ \A x \in attached' : x[1] \in ToSet(loaded')
  <2>1. Serving
    BY <1>5, ServesNoMore
  <2>2. ~UnloadAll
    BY <2>1 DEF UnloadAll, Serving
  <2>3. ToSet(loaded) \subseteq ToSet(loaded')
    BY <1>2, <1>3, <2>2
  <2>4. CASE UNCHANGED <<page, attached>>
    BY <2>1, <2>3, <2>4
  <2>5. ASSUME NEW p \in Pages, Connect(p) \/ Enter(p) \/ PassBy(p) \/ Load(p) \/ Keep(p) \/ Degrade(p)
        PROVE  UNCHANGED attached /\ \A q \in Pages : page'[q].lists = page[q].lists
    BY <2>5, ViewsKept DEF Connect, Enter, PassBy, Load, Keep, Degrade, bus
  <2>6. ASSUME NEW p \in Pages, Show(p)
        PROVE  /\ UNCHANGED <<attached, loaded>>
               /\ \A q \in Pages : page'[q].lists = page[q].lists \/ page'[q].lists = loaded
    BY <2>6, ShowViews DEF Show, bus
  <2>7. ASSUME NEW p \in Pages, Disconnect(p)
        PROVE  attached' \subseteq attached /\ \A q \in Pages : page'[q].lists = page[q].lists
    BY <2>7, ViewsKept DEF Disconnect
  <2>8. ASSUME NEW p \in Pages, NEW m \in Modules, Activate(p, m)
        PROVE  /\ attached' = attached \cup {<<m, p>>} /\ m \in ToSet(page[p].lists)
               /\ \A q \in Pages : page'[q].lists = page[q].lists
    BY <2>8, ViewsKept DEF Activate, AttachUI
  <2>9. Closing \/ Shutdown \/ UNCHANGED vars => UNCHANGED <<page, attached>>
    BY <2>1 DEF Closing, Start, Break, UnloadOne, UnloadAll, Drain, Release, Shutdown, vars, bus, Serving
  <2> QED
    BY <2>1, <2>3, <2>4, <2>5, <2>6, <2>7, <2>8, <2>9 DEF Next, Loading
<1> QED BY <1>1, <1>4, <1>5

LEMMA ShutStep ==
    ASSUME Inv, BusInv, OfferInv, ShutInv, [Next]_vars
    PROVE  ShutInv'
<1> USE DEF Inv
<1>1. app' \in {"starting", "serving", "unloading", "draining", "flushed", "down", "broken"}
  BY DEF ShutInv, Next, Closing, Start, Break, UnloadOne, UnloadAll, Drain, Release, Shutdown, vars, closing,
         Connect, Loading, Enter, PassBy, Load, Keep, Degrade, Show, Disconnect, Activate
<1>2. SUFFICES ASSUME ~late', ~Serving'
      PROVE  /\ app' # "broken"
             /\ \A p \in Pages : ~Waiting(p)'
             /\ app' = "unloading" => LeavingInv'
             /\ app' # "unloading" => attached' = {} /\ \A m \in Modules : logic'[m] = 0
  BY <1>1 DEF ShutInv
<1>3. ~late
  BY <1>2 DEF Next, Closing, Start, Break, UnloadOne, UnloadAll, Drain, Release, Shutdown, vars,
         Connect, Loading, Enter, PassBy, Load, Keep, Degrade, Show, Disconnect, Activate
<1>4. CASE Shutdown
  <2>1. /\ app = "serving" /\ app' = "unloading" /\ leaving' = loaded /\ size' = Len(loaded)
        /\ UNCHANGED <<loaded, page, logic, attached>>
        /\ \A p \in Pages : ~Waiting(p)
    BY <1>2, <1>4 DEF Shutdown, registry, bus, Waiting
  <2>2. \A p \in Pages : ~Waiting(p)'
    BY <2>1 DEF Waiting
  <2>3. \A m \in Modules : Present(m) <=> m \in ToSet(loaded)
    BY <2>1 DEF Present, Waiting
  <2>4. LogicOnce /\ \A x \in attached : x[1] \in ToSet(loaded)
    BY <2>1 DEF BusInv, OfferInv, Serving
  <2>5. LeavingInv'
    BY <2>1, <2>3, <2>4 DEF LeavingInv, LogicOnce, OfferInv, Typed
  <2> QED BY <2>1, <2>2, <2>5
<1>5. CASE ~Serving /\ ~Shutdown
  <2>1. /\ app # "broken"
        /\ \A p \in Pages : ~Waiting(p)
        /\ app = "unloading" => LeavingInv
        /\ app # "unloading" => attached = {} /\ \A m \in Modules : logic[m] = 0
    BY <1>3, <1>5 DEF ShutInv
  <2>2. ASSUME UNCHANGED page PROVE \A p \in Pages : ~Waiting(p)'
    BY <2>1, <2>2 DEF Waiting
  <2>3. \A p \in Pages : ~Connect(p) /\ ~Loading(p) /\ \A m \in Modules : ~Activate(p, m)
    BY <1>2, <1>5, <2>1 DEF Connect, Loading, Enter, PassBy, Load, Keep, Degrade, Show, Activate, Serving, Waiting, Walking
  <2>4. ~Start
    BY <1>5 DEF Start, Serving
  <2>5. CASE UNCHANGED vars
    BY <2>1, <2>2, <2>5 DEF vars, closing, registry, bus, LeavingInv
  <2>6. ASSUME NEW p \in Pages, Disconnect(p)
        PROVE  /\ app' # "broken"
               /\ \A q \in Pages : ~Waiting(q)'
               /\ app' = "unloading" => LeavingInv'
               /\ app' # "unloading" => attached' = {} /\ \A m \in Modules : logic'[m] = 0
    <3>1. /\ UNCHANGED <<closing, loaded, logic>> /\ attached' = {x \in attached : x[2] # p}
          /\ Goto(p, "gone")
      BY <2>6 DEF Disconnect, registry
    <3>2. \A q \in Pages : ~Waiting(q)'
      BY <2>1, <3>1, GotoMoves DEF Waiting
    <3>3. app = "unloading" => LeavingInv'
      BY <2>1, <3>1 DEF LeavingInv, closing
    <3> QED BY <2>1, <3>1, <3>2, <3>3 DEF closing
  <2>7. ~Break
    BY <2>1 DEF Break, Resized, LeavingInv
  <2>8. CASE UnloadOne
    <3> DEFINE m == Head(leaving)
    <3>1. /\ app = "unloading" /\ LeavingInv /\ leaving # <<>> /\ leaving' = Tail(leaving)
          /\ attached' = {x \in attached : x[1] # m}
          /\ logic' = [logic EXCEPT ![m] = IF @ > 0 THEN @ - 1 ELSE 0]
          /\ UNCHANGED <<app, size, loaded, page>>
      BY <2>1, <2>8 DEF UnloadOne, registry
    <3>2. /\ leaving' \in Seq(Modules) /\ m \in Modules /\ IsInjective(leaving')
          /\ ToSet(leaving') = ToSet(leaving) \ {m} /\ m \in ToSet(leaving)
      BY <3>1, TailsOnce DEF LeavingInv
    <3> HIDE DEF m
    <3>3. logic[m] = 1
      BY <3>1, <3>2 DEF LeavingInv
    <3>4. logic' = [logic EXCEPT ![m] = 0]
      BY <3>1, <3>2, <3>3 DEF LeavingInv
    <3>5. \A k \in Modules : logic'[k] = IF k \in ToSet(leaving') THEN 1 ELSE 0
      BY <3>1, <3>2, <3>4 DEF LeavingInv
    <3>6. logic' \in [Modules -> Int]
      BY <3>1, <3>2, <3>4 DEF LeavingInv
    <3>7. LeavingInv'
      BY <3>1, <3>2, <3>5, <3>6 DEF LeavingInv
    <3> QED BY <2>2, <3>1, <3>7
  <2>9. CASE UnloadAll
    <3>1. /\ app = "unloading" /\ LeavingInv /\ leaving = <<>> /\ app' = "draining"
          /\ UNCHANGED <<page, logic, attached>>
      BY <2>1, <2>9 DEF UnloadAll, bus
    <3> QED BY <2>2, <3>1, EmptySet DEF LeavingInv
  <2>10. CASE Drain \/ Release
    <3>1. app # "unloading" /\ app' \in {"flushed", "down"} /\ UNCHANGED <<page, logic, attached>>
      BY <2>10 DEF Drain, Release, bus
    <3> QED BY <2>1, <2>2, <3>1
  <2> QED BY <1>5, <2>3, <2>4, <2>5, <2>6, <2>7, <2>8, <2>9, <2>10 DEF Next, Closing
<1>6. Serving => Shutdown
  BY <1>2 DEF Serving, Next, Closing, Start, Break, UnloadOne, UnloadAll, Drain, Release, vars, closing,
         Connect, Loading, Enter, PassBy, Load, Keep, Degrade, Show, Disconnect, Activate
<1> QED BY <1>4, <1>5, <1>6

\* A shutdown that meets no loading page and no click takes every handler off the
\* bus before the process pool is drained, and it is not cut short.
THEOREM ShutdownIsClean == Spec => []CleanShutdown
<1> DEFINE I == Inv /\ BusInv /\ OfferInv /\ ShutInv
<1>1. Init => I
  BY InvInit, BusInit, OfferInit
<1>2. I /\ [Next]_vars => I'
  BY InvStep, BusStep, OfferStep, ShutStep
<1>3. I => CleanShutdown
  <2> SUFFICES ASSUME I, ~late
               PROVE  /\ app # "broken"
                      /\ app \in {"draining", "flushed", "down"} =>
                            /\ \A m \in Modules : logic[m] = 0
                            /\ \A x \in Modules \X Pages : panels[x] = 0
    BY DEF CleanShutdown
  <2> QED BY DEF ShutInv, BusInv, PanelsOnce, Serving
<1> QED BY <1>1, <1>2, <1>3, PTL DEF Spec


-----------------------------------------------------------------------------
(* The palette.  A recursive function on 0..n exists, and has a property,  *)
(* if there is no least number where it fails.                             *)

\* Every set of numbers has a least one.
LEMMA LeastOf == ASSUME NEW T, T \subseteq Nat, T # {} PROVE \E x \in T : \A y \in T : x <= y
<1>1. PICK x \in T : \A y \in T : <<y, x>> \notin OpToRel(<, Nat)
  BY NatLessThanWellFounded, WFMin
<1>2. \A y \in T : ~(y < x)
  BY <1>1 DEF OpToRel
<1> QED BY <1>2

\* One more member of s looked at, when r is what has been selected so far.
Extended(r, x, S, once) == IF x \in S /\ ~(once /\ x \in ToSet(r)) THEN Append(r, x) ELSE r

UpTo(f, s, S, once, n) ==
    f = [i \in 0..n |-> IF i = 0 THEN <<>> ELSE Extended(f[i - 1], s[i], S, once)]

LEMMA UpToExists ==
    ASSUME NEW T, NEW s \in Seq(T), NEW S, NEW once \in BOOLEAN
    PROVE  \E f : UpTo(f, s, S, once, Len(s))
<1> DEFINE Bad == {n \in 0..Len(s) : ~\E f : UpTo(f, s, S, once, n)}
<1>1. Len(s) \in Nat
  OBVIOUS
<1>2. SUFFICES Bad = {}
  BY <1>1
<1>3. SUFFICES ASSUME NEW n \in Bad, \A k \in Bad : n <= k PROVE FALSE
  <2>1. Bad \subseteq Nat
    BY <1>1
  <2> HIDE DEF Bad
  <2> QED BY <2>1, LeastOf
<1>4. n \in Nat /\ n <= Len(s) /\ ~\E f : UpTo(f, s, S, once, n)
  BY <1>1
<1>5. n # 0
  <2> DEFINE f == [i \in 0..0 |-> <<>>]
  <2>1. UpTo(f, s, S, once, 0)
    BY DEF UpTo
  <2> QED BY <1>4, <2>1
<1>6. PICK g : UpTo(g, s, S, once, n - 1)
  <2>1. n - 1 \in 0..Len(s) /\ ~(n <= n - 1)
    BY <1>1, <1>4, <1>5
  <2> QED BY <1>3, <2>1
<1> DEFINE f == [i \in 0..n |-> IF i = n THEN Extended(g[n - 1], s[n], S, once) ELSE g[i]]
<1>7. /\ DOMAIN g = 0..(n - 1) /\ g[0] = <<>>
      /\ \A i \in 1..(n - 1) : g[i] = Extended(g[i - 1], s[i], S, once)
  <2>1. 0 \in 0..(n - 1) /\ \A i \in 1..(n - 1) : i \in 0..(n - 1) /\ i # 0
    BY <1>4, <1>5
  <2> QED BY <1>6, <2>1 DEF UpTo
<1>8. f[0] = <<>> /\ \A i \in 1..n : f[i] = Extended(f[i - 1], s[i], S, once)
  <2>1. 0 \in 0..n /\ n \in 0..n /\ n - 1 \in 0..n /\ n - 1 # n
    BY <1>4, <1>5
  <2>2. \A i \in 1..(n - 1) : i - 1 \in 0..n /\ i \in 0..n /\ i # n /\ i - 1 # n
    BY <1>4, <1>5
  <2>3. \A i \in 1..n : i = n \/ i \in 1..(n - 1)
    BY <1>4, <1>5
  <2>4. f[0] = g[0] /\ f[n] = Extended(g[n - 1], s[n], S, once) /\ f[n - 1] = g[n - 1]
    BY <1>5, <2>1
  <2>5. \A i \in 1..(n - 1) : f[i] = g[i] /\ f[i - 1] = g[i - 1]
    BY <2>2
  <2> HIDE DEF f
  <2> QED BY <1>7, <2>3, <2>4, <2>5
<1>9. UpTo(f, s, S, once, n)
  <2>1. f = [i \in 0..n |-> f[i]]
    OBVIOUS
  <2> HIDE DEF f
  <2>2. \A i \in 0..n : i = 0 \/ i \in 1..n
    BY <1>4
  <2>3. \A i \in 0..n : f[i] = IF i = 0 THEN <<>> ELSE Extended(f[i - 1], s[i], S, once)
    BY <1>8, <2>2
  <2> QED BY <2>1, <2>3 DEF UpTo
<1> QED BY <1>4, <1>9

\* Selected is the last of the sequences that follow the definition.
LEMMA SelectedIs ==
    ASSUME NEW T, NEW s \in Seq(T), NEW S, NEW once \in BOOLEAN
    PROVE  \E f : /\ f[0] = <<>>
                  /\ \A i \in 1..Len(s) : f[i] = Extended(f[i - 1], s[i], S, once)
                  /\ Selected(s, S, once) = f[Len(s)]
<1> DEFINE f == CHOOSE f : UpTo(f, s, S, once, Len(s))
<1>1. UpTo(f, s, S, once, Len(s))
  BY UpToExists
<1>2. Selected(s, S, once) = f[Len(s)]
  BY DEF Selected, UpTo, Extended
<1> HIDE DEF f
<1>3. 0 \in 0..Len(s) /\ \A i \in 1..Len(s) : i \in 0..Len(s) /\ i # 0
  OBVIOUS
<1>4. f[0] = <<>> /\ \A i \in 1..Len(s) : f[i] = Extended(f[i - 1], s[i], S, once)
  BY <1>1, <1>3 DEF UpTo
<1> QED BY <1>2, <1>4


LEMMA ExtendedAdds ==
    ASSUME NEW T, NEW r \in Seq(T), NEW x \in T, NEW S, NEW once \in BOOLEAN,
           once => IsInjective(r)
    PROVE  /\ Extended(r, x, S, once) \in Seq(T)
           /\ once => IsInjective(Extended(r, x, S, once))
           /\ ToSet(Extended(r, x, S, once)) = ToSet(r) \cup ({x} \cap S)
<1>1. CASE x \in S /\ ~(once /\ x \in ToSet(r))
  <2>1. Extended(r, x, S, once) = Append(r, x)
    BY <1>1 DEF Extended
  <2>2. ToSet(Append(r, x)) = ToSet(r) \cup {x} /\ Append(r, x) \in Seq(T)
    BY AppendSet
  <2>3. once => IsInjective(Append(r, x))
    BY <1>1, AppendsNew
  <2> QED BY <1>1, <2>1, <2>2, <2>3
<1>2. CASE ~(x \in S /\ ~(once /\ x \in ToSet(r)))
  <2>1. Extended(r, x, S, once) = r
    BY <1>2 DEF Extended
  <2> QED BY <1>2, <2>1
<1> QED BY <1>1, <1>2

LEMMA SelectedFacts ==
    ASSUME NEW T, NEW s \in Seq(T), NEW S, NEW once \in BOOLEAN
    PROVE  /\ Selected(s, S, once) \in Seq(T)
           /\ once => IsInjective(Selected(s, S, once))
           /\ ToSet(Selected(s, S, once)) = ToSet(s) \cap S
<1>1. PICK f : /\ f[0] = <<>>
               /\ \A i \in 1..Len(s) : f[i] = Extended(f[i - 1], s[i], S, once)
               /\ Selected(s, S, once) = f[Len(s)]
  BY SelectedIs
<1> DEFINE Good(i) == /\ f[i] \in Seq(T)
                      /\ once => IsInjective(f[i])
                      /\ ToSet(f[i]) = {s[k] : k \in 1..i} \cap S
           Bad == {i \in 0..Len(s) : ~Good(i)}
<1>2. Len(s) \in Nat /\ \A i \in 1..Len(s) : s[i] \in T
  OBVIOUS
<1>3. Bad = {}
  <2> SUFFICES ASSUME NEW i \in Bad, \A k \in Bad : i <= k PROVE FALSE
    <3>1. Bad \subseteq Nat
      BY <1>2
    <3> HIDE DEF Bad
    <3> QED BY <3>1, LeastOf
  <2>1. i \in Nat /\ i <= Len(s) /\ ~Good(i)
    BY <1>2
  <2>2. i # 0
    <3>1. f[0] \in Seq(T) /\ IsInjective(f[0]) /\ ToSet(f[0]) = {}
      BY <1>1, EmptySet DEF IsInjective
    <3>2. {s[k] : k \in 1..0} = {}
      OBVIOUS
    <3>3. Good(0)
      BY <3>1, <3>2
    <3> HIDE DEF Good
    <3> QED BY <2>1, <3>3
  <2>3. Good(i - 1)
    <3>1. i - 1 \in 0..Len(s) /\ ~(i <= i - 1)
      BY <1>2, <2>1, <2>2
    <3> HIDE DEF Good
    <3> QED BY <3>1
  <2>4. f[i] = Extended(f[i - 1], s[i], S, once) /\ s[i] \in T
    BY <1>1, <1>2, <2>1, <2>2
  <2>5. /\ f[i] \in Seq(T)
        /\ once => IsInjective(f[i])
        /\ ToSet(f[i]) = ToSet(f[i - 1]) \cup ({s[i]} \cap S)
    BY <2>3, <2>4, ExtendedAdds
  <2>6. {s[k] : k \in 1..i} = {s[k] : k \in 1..(i - 1)} \cup {s[i]}
    <3>1. \A k : k \in 1..i <=> k \in 1..(i - 1) \/ k = i
      BY <2>1, <2>2
    <3> QED BY <3>1
  <2>7. Good(i)
    BY <2>3, <2>5, <2>6
  <2> HIDE DEF Good
  <2> QED BY <2>1, <2>7
<1>4. Good(Len(s))
  <2> HIDE DEF Good
  <2> QED BY <1>2, <1>3
<1>5. ToSet(s) = {s[k] : k \in 1..Len(s)}
  BY DEF ToSet
<1> QED BY <1>1, <1>4, <1>5

\* The palette offers each listed module once, whatever the recent list holds.
LEMMA PaletteOffersAll ==
    ASSUME NEW listed \in Seq(Modules), NEW stored \in Seq(Found \cup {Unknown})
    PROVE  /\ IsInjective(BuildEntries(listed, stored))
           /\ ToSet(BuildEntries(listed, stored)) = ToSet(listed)
<1> DEFINE T == Found \cup {Unknown}
           s == stored \o listed
<1>1. listed \in Seq(T)
  BY DEF Modules
<1>2. s \in Seq(T)
  BY <1>1
<1>3. ToSet(listed) \subseteq ToSet(s)
  <2>1. /\ \A i \in 1..Len(listed) : s[Len(stored) + i] = listed[i] /\ Len(stored) + i \in 1..Len(s)
        /\ DOMAIN listed = 1..Len(listed) /\ DOMAIN s = 1..Len(s)
    BY <1>1
  <2> HIDE DEF s
  <2> QED BY <2>1 DEF ToSet
<1> HIDE DEF s, T
<1>4. \A S, once : once \in BOOLEAN =>
          /\ once => IsInjective(Selected(s, S, once))
          /\ ToSet(Selected(s, S, once)) = ToSet(s) \cap S
  BY <1>2, SelectedFacts, Zenon
<1>5. BuildEntries(listed, stored) = Selected(s, ToSet(listed), TRUE)
  BY DEF BuildEntries, s
<1>6. IsInjective(Selected(s, ToSet(listed), TRUE)) /\ ToSet(Selected(s, ToSet(listed), TRUE)) = ToSet(s) \cap ToSet(listed)
  BY <1>4
<1> QED BY <1>3, <1>5, <1>6

LEMMA RecordedType ==
    ASSUME NEW m \in Modules, recent \in Seq(Found \cup {Unknown})
    PROVE  Recorded(m) \in Seq(Found \cup {Unknown})
<1> DEFINE T == Found \cup {Unknown}
           e == Selected(recent, ToSet(recent) \ {m}, FALSE)
           r == <<m>> \o e
<1>1. m \in T
  BY DEF Modules
<1> HIDE DEF T
<1>2. e \in Seq(T)
  BY SelectedFacts DEF T
<1> HIDE DEF e
<1>3. r \in Seq(T) /\ Len(r) \in Nat /\ Len(r) > 0
  BY <1>1, <1>2
<1> HIDE DEF r
<1>4. SubSeq(r, 1, IF Len(r) < RecentLimit THEN Len(r) ELSE RecentLimit) \in Seq(T)
  BY <1>3, LifecycleAssumption
<1> QED BY <1>4 DEF Recorded, r, e, T


-----------------------------------------------------------------------------
(* Pages.                                                                  *)

\* What no page has to look at any more.
Settled(m) == \/ m \in Parked
              \/ m \in Garbled /\ Unknown \in degraded
              \/ m \in ToSet(loaded) \cup degraded

\* A page that loads has settled what is not before it, or found it settled.
CoverInv ==
    Serving => \A p \in Pages : Waiting(p) => \A m \in Found : m \in ToSet(page[p].todo) \/ Settled(m)

Complete(p) ==
    /\ Modules = ToSet(page[p].lists) \cup (page[p].bad \cap Modules)
    /\ ToSet(page[p].lists) \cap page[p].bad = {}
    /\ Garbled # {} => Unknown \in page[p].bad
    /\ IsInjective(page[p].palette) /\ ToSet(page[p].palette) = ToSet(page[p].lists)

PageInv ==
    /\ recent \in Seq(Found \cup {Unknown})
    /\ CoverInv
    /\ ~late => \A p \in Pages : page[p].at = "shown" => Complete(p)

LEMMA HeadOrTail ==
    ASSUME NEW S, NEW s \in Seq(S), s # <<>>, NEW x \in ToSet(s)
    PROVE  x = Head(s) \/ x \in ToSet(Tail(s))
<1>1. DOMAIN s = 1..Len(s) /\ Len(s) \in Nat \ {0} /\ Head(s) = s[1]
  OBVIOUS
<1>2. DOMAIN Tail(s) = 1..(Len(s) - 1) /\ \A i \in 1..(Len(s) - 1) : Tail(s)[i] = s[i + 1]
  OBVIOUS
<1>3. PICK i \in 1..Len(s) : s[i] = x
  BY <1>1 DEF ToSet
<1>4. CASE i # 1
  <2>1. i - 1 \in 1..(Len(s) - 1) /\ Tail(s)[i - 1] = x
    BY <1>1, <1>2, <1>3, <1>4
  <2> QED BY <1>2, <2>1 DEF ToSet
<1> QED BY <1>1, <1>3, <1>4

LEMMA PassedTodo ==
    ASSUME Typed, NEW p \in Pages, Passed(p), page[p].todo # <<>>, NEW m \in ToSet(page[p].todo)
    PROVE  m = Next1(p) \/ m \in ToSet(page'[p].todo)
<1>1. page'[p].todo = Tail(page[p].todo) /\ page[p].todo \in Seq(Found)
  BY DEF Typed, Passed
<1> QED BY <1>1, HeadOrTail DEF Next1

LEMMA PageInit == Init => PageInv
BY LifecycleAssumption DEF Init, PageInv, CoverInv, Waiting, NoPage

LEMMA SettledStays ==
    ASSUME Inv, OfferInv, [Next]_vars, Serving', NEW m, Settled(m)
    PROVE  Settled(m)'
<1>1. degraded \subseteq degraded'
  BY DEF Next, Closing, Start, Break, UnloadOne, UnloadAll, Drain, Release, Shutdown, vars, registry,
         Connect, Loading, Enter, PassBy, Load, Keep, Degrade, Show, Disconnect, Activate
<1>2. ASSUME NEW p \in Pages, Keep(p) PROVE ToSet(loaded) \subseteq ToSet(loaded')
  <2>1. Next1(p) \in Modules /\ loaded' = Append(loaded, Next1(p))
    BY <1>2 DEF Keep, Inv, LoadInv, Known
  <2> QED BY <2>1, AppendSet DEF Inv, Typed
<1>3. (\E p \in Pages : Keep(p)) \/ UNCHANGED loaded
  <2>1. ~UnloadAll
    BY ServesNoMore DEF UnloadAll, Serving
  <2> QED
    BY <2>1 DEF Next, Closing, Start, Break, UnloadOne, Drain, Release, Shutdown, vars, registry,
           Connect, Loading, Enter, PassBy, Load, Degrade, Show, Disconnect, Activate
<1> QED BY <1>1, <1>2, <1>3 DEF Settled

LEMMA CoverStep ==
    ASSUME Inv, OfferInv, CoverInv, [Next]_vars
    PROVE  CoverInv'
<1> USE DEF Inv
<1> SUFFICES ASSUME Serving', NEW p \in Pages, Waiting(p)', NEW m \in Found
             PROVE  m \in ToSet(page'[p].todo) \/ Settled(m)'
  BY DEF CoverInv
<1>1. Serving
  BY ServesNoMore
<1>2. Waiting(p) => m \in ToSet(page[p].todo) \/ Settled(m)'
  BY <1>1, SettledStays DEF CoverInv
<1>3. CASE UNCHANGED page
  BY <1>2, <1>3 DEF Waiting
<1>4. ASSUME NEW q \in Pages, Connect(q) PROVE m \in ToSet(page'[p].todo) \/ Settled(m)'
  <2>1. page'[p].at = (IF p = q THEN "waiting" ELSE page[p].at)
        /\ page'[p].todo = IF p = q THEN Manifests ELSE page[p].todo
    BY <1>4, ConnectMoves
  <2>2. p = q => m \in ToSet(page'[p].todo)
    BY <2>1 DEF Found
  <2>3. p # q => Waiting(p) /\ page'[p].todo = page[p].todo
    BY <2>1 DEF Waiting
  <2> QED BY <1>2, <2>2, <2>3
<1>5. ASSUME NEW q \in Pages, Enter(q) \/ Load(q) \/ Show(q) \/ Disconnect(q) \/ \E k \in Modules : Activate(q, k)
      PROVE  m \in ToSet(page'[p].todo) \/ Settled(m)'
  <2>1. page'[p].todo = page[p].todo
    BY <1>5, GotoMoves, ShowMoves, ActivateMoves DEF Enter, Load, Disconnect
  <2>2. Enter(q) \/ Load(q) => Waiting(q)
    BY DEF Enter, Load, Walking, Waiting
  <2>3. Waiting(p)
    BY <1>5, <2>2, GotoMoves, ShowMoves, ActivateMoves DEF Enter, Load, Disconnect, Waiting
  <2> QED BY <1>2, <2>1, <2>3
<1>6. ASSUME NEW q \in Pages, Passed(q), page[q].todo # <<>>, Waiting(q), NEW h, h = Next1(q), Settled(h)'
      PROVE  m \in ToSet(page'[p].todo) \/ Settled(m)'
  <2>1. p # q => page'[p].todo = page[p].todo /\ page'[p].at = page[p].at
    BY <1>6, PassedMoves
  <2>2. Waiting(p)
    BY <1>6, <2>1 DEF Waiting
  <2>3. m \in ToSet(page[p].todo) => m \in ToSet(page'[p].todo) \/ m = h
    BY <1>6, <2>1, PassedTodo
  <2>4. m = h => Settled(m)'
    <3> SUFFICES ASSUME m = h PROVE Settled(m)'
      OBVIOUS
    <3> QED BY <1>6
  <2> QED BY <1>2, <2>2, <2>3, <2>4
<1>7. ASSUME NEW q \in Pages, PassBy(q)
      PROVE  m \in ToSet(page'[p].todo) \/ Settled(m)'
  <2>0. PICK h : h = Next1(q)
    OBVIOUS
  <2>1. Passed(q) /\ page[q].todo # <<>> /\ page[q].at = "walking" /\ (Known(h) \/ h \in Parked)
    BY <1>7, <2>0 DEF PassBy, Walking
  <2>2. Settled(h)
    BY <2>1 DEF Settled, Known
  <2>3. Settled(h)'
    BY <2>2, SettledStays
  <2> QED BY <1>6, <2>0, <2>1, <2>3 DEF Waiting
<1>8. ASSUME NEW q \in Pages, Keep(q)
      PROVE  m \in ToSet(page'[p].todo) \/ Settled(m)'
  <2>0. PICK h : h = Next1(q)
    OBVIOUS
  <2>1. Passed(q) /\ page[q].todo # <<>> /\ page[q].at = "loading" /\ h \in Modules /\ loaded' = Append(loaded, h)
    BY <1>8, <2>0 DEF Keep, LoadInv, Known
  <2>2. Settled(h)'
    BY <2>1, AppendSet DEF Settled, Typed
  <2> QED BY <1>6, <2>0, <2>1, <2>2 DEF Waiting
<1>9. ASSUME NEW q \in Pages, Degrade(q)
      PROVE  m \in ToSet(page'[p].todo) \/ Settled(m)'
  <2>0. PICK h : h = Next1(q)
    OBVIOUS
  <2>1. /\ Passed(q) /\ page[q].todo # <<>> /\ page[q].at = "walking"
        /\ degraded' = degraded \cup {IF h \in Garbled THEN Unknown ELSE h}
    BY <1>9, <2>0 DEF Degrade, Walking
  <2>2. Settled(h)'
    BY <2>1 DEF Settled
  <2> QED BY <1>6, <2>0, <2>1, <2>2 DEF Waiting
<1>10. Closing \/ Shutdown \/ UNCHANGED vars => UNCHANGED page
  BY DEF Closing, Start, Break, UnloadOne, UnloadAll, Drain, Release, Shutdown, vars
<1> QED
  BY <1>3, <1>4, <1>5, <1>7, <1>8, <1>9, <1>10 DEF Next, Loading

LEMMA PageStep ==
    ASSUME Inv, OfferInv, ShutInv, PageInv, [Next]_vars
    PROVE  PageInv'
<1> USE DEF Inv
<1>1. recent' \in Seq(Found \cup {Unknown})
  <2>1. (\E p \in Pages, m \in Modules : Activate(p, m)) \/ UNCHANGED recent
    BY DEF Next, Closing, Start, Break, UnloadOne, UnloadAll, Drain, Release, Shutdown, vars,
           Connect, Loading, Enter, PassBy, Load, Keep, Degrade, Show, Disconnect
  <2>2. ASSUME NEW p \in Pages, NEW m \in Modules, Activate(p, m) PROVE recent' = Recorded(m)
    BY <2>2 DEF Activate
  <2> QED BY <2>1, <2>2, RecordedType DEF PageInv
<1>2. CoverInv'
  BY CoverStep DEF PageInv
<1>3. ASSUME ~late', NEW p \in Pages, page'[p].at = "shown" PROVE Complete(p)'
  <2>1. ~late
    BY <1>3 DEF Next, Closing, Start, Break, UnloadOne, UnloadAll, Drain, Release, Shutdown, vars,
           Connect, Loading, Enter, PassBy, Load, Keep, Degrade, Show, Disconnect, Activate
  <2>2. ASSUME page[p].at = "shown", page'[p].lists = page[p].lists, page'[p].bad = page[p].bad,
               page'[p].palette = page[p].palette
        PROVE  Complete(p)'
    <3>1. Complete(p)
      BY <2>1, <2>2 DEF PageInv
    <3> QED BY <2>2, <3>1 DEF Complete
  <2>3. ASSUME NEW q \in Pages, Show(q) PROVE Complete(p)'
    <3>1. page[q].at = "walking" /\ page[q].todo = <<>>
      BY <2>3 DEF Show
    <3>2. Serving
      BY <2>1, <3>1 DEF ShutInv, Waiting
    <3>3. CASE p # q
      <4>1. page'[p] = page[p]
        BY <2>3, <3>3, ShowViews DEF OfferInv
      <4> QED BY <1>3, <2>2, <4>1
    <3>4. CASE p = q
      <4>1. page'[p].lists = loaded /\ page'[p].bad = degraded /\ page'[p].palette = BuildEntries(loaded, recent)
        BY <2>3, <3>4, ShowViews DEF OfferInv
      <4>2. \A m \in Found : Settled(m)
        BY <3>1, <3>2, EmptySet DEF PageInv, CoverInv, Waiting
      <4>3. ToSet(loaded) \subseteq Modules
        BY DEF Typed, ToSet
      <4>4. Modules = ToSet(loaded) \cup (degraded \cap Modules)
        BY <4>2, <4>3 DEF Settled, Modules
      <4>5. ASSUME Garbled # {} PROVE Unknown \in degraded
        <5>1. PICK m : m \in Garbled
          BY <4>5
        <5>2. m \in Found /\ m \notin Parked /\ m \notin Modules /\ m # Unknown
          BY <5>1, LifecycleAssumption DEF Modules
        <5>3. m \notin ToSet(loaded) \cup degraded
          BY <4>3, <5>2 DEF Typed, Ids
        <5> QED BY <4>2, <5>2, <5>3 DEF Settled
      <4>6. IsInjective(BuildEntries(loaded, recent)) /\ ToSet(BuildEntries(loaded, recent)) = ToSet(loaded)
        BY PaletteOffersAll DEF Typed, PageInv
      <4>7. ToSet(loaded) \cap degraded = {}
        BY DEF OneVerdict
      <4> QED BY <4>1, <4>4, <4>5, <4>6, <4>7 DEF Complete
    <3> QED BY <3>3, <3>4
  <2>4. CASE UNCHANGED page
    BY <1>3, <2>2, <2>4
  <2>5. ASSUME NEW q \in Pages, (\E place : Goto(q, place)) \/ Passed(q) \/ Connect(q) \/ (\E m \in Modules : Activate(q, m))
        PROVE  page'[p].lists = page[p].lists /\ page'[p].bad = page[p].bad /\ page'[p].palette = page[p].palette
    BY <2>5, ViewsKept DEF OfferInv
  <2>6. ASSUME NEW q \in Pages, Connect(q) PROVE Complete(p)'
    BY <1>3, <2>2, <2>5, <2>6, ConnectMoves
  <2>7. ASSUME NEW q \in Pages, Enter(q) \/ Load(q) \/ Disconnect(q) PROVE Complete(p)'
    <3>1. PICK place \in {"walking", "loading", "gone"} : Goto(q, place)
      BY <2>7 DEF Enter, Load, Disconnect
    <3> QED BY <1>3, <2>2, <2>5, <3>1, GotoMoves
  <2>8. ASSUME NEW q \in Pages, PassBy(q) \/ Keep(q) \/ Degrade(q) PROVE Complete(p)'
    <3>1. Passed(q) /\ page[q].todo # <<>>
      BY <2>8 DEF PassBy, Keep, Degrade, Walking, LoadInv
    <3> QED BY <1>3, <2>2, <2>5, <3>1, PassedMoves
  <2>9. ASSUME NEW q \in Pages, NEW m \in Modules, Activate(q, m) PROVE Complete(p)'
    BY <1>3, <2>2, <2>5, <2>9, ActivateMoves
  <2>10. Closing \/ Shutdown \/ UNCHANGED vars => UNCHANGED page
    BY DEF Closing, Start, Break, UnloadOne, UnloadAll, Drain, Release, Shutdown, vars
  <2> QED
    BY <2>3, <2>4, <2>6, <2>7, <2>8, <2>9, <2>10 DEF Next, Loading
<1> QED BY <1>1, <1>2, <1>3 DEF PageInv

\* Each page shows every module, as loaded or as degraded, even if another page
\* was loading them, and a palette of the loaded ones without repetition.
THEOREM PagesAreComplete == Spec => []PageIsComplete
<1> DEFINE I == Inv /\ BusInv /\ OfferInv /\ ShutInv /\ PageInv
<1>1. Init => I
  BY InvInit, BusInit, OfferInit, PageInit
<1>2. I /\ [Next]_vars => I'
  BY InvStep, BusStep, OfferStep, ShutStep, PageStep
<1>3. I => PageIsComplete
  BY DEF PageIsComplete, PageInv, Complete
<1> QED BY <1>1, <1>2, <1>3, PTL DEF Spec

-----------------------------------------------------------------------------
(* The launch: SingleInstance decides whether there is an application at   *)
(* all.  It shares no state with Lifecycle.                                *)

LEMMA LockInitType == LaunchInit => LaunchTypeOK
BY SingleInstanceAssumption DEF LaunchInit, LaunchTypeOK, Places, Attempts

LEMMA LockInitTry == LaunchInit => TryInv
BY DEF LaunchInit, TryInv, Trying, Attempts

LEMMA LockNextType == LaunchTypeOK /\ TryInv /\ [LaunchNext]_launchVars => LaunchTypeOK'
<1> SUFFICES ASSUME LaunchTypeOK, TryInv, [LaunchNext]_launchVars PROVE LaunchTypeOK'
  OBVIOUS
<1> USE SingleInstanceAssumption, NoFileAssumption
<1>1. ASSUME NEW q \in Procs, Launch(q) PROVE LaunchTypeOK'
  BY <1>1 DEF Launch, GoesTo, LaunchTypeOK, Places
<1>2. ASSUME NEW q \in Procs, CreateWins(q) PROVE LaunchTypeOK'
  BY <1>2 DEF CreateWins, GoesTo, LaunchTypeOK, Places, File
<1>3. ASSUME NEW q \in Procs, CreateLoses(q) PROVE LaunchTypeOK'
  BY <1>3 DEF CreateLoses, GoesTo, LaunchTypeOK, Places
<1>4. ASSUME NEW q \in Procs, WriteRecord(q) PROVE LaunchTypeOK'
  BY <1>4 DEF WriteRecord, GoesTo, LaunchTypeOK, Places, File
<1>5. ASSUME NEW q \in Procs, ReadRecord(q) PROVE LaunchTypeOK'
  BY <1>5 DEF ReadRecord, GoesTo, LaunchTypeOK, Places, File, Written
<1>6. ASSUME NEW q \in Procs, ReadNothing(q) PROVE LaunchTypeOK'
  BY <1>6 DEF ReadNothing, LaunchTypeOK
<1>7. ASSUME NEW q \in Procs, GiveUpReading(q) PROVE LaunchTypeOK'
  BY <1>7 DEF GiveUpReading, GoesTo, LaunchTypeOK, Places, File, Written
<1>8. ASSUME NEW q \in Procs, Judge(q) PROVE LaunchTypeOK'
  BY <1>8 DEF Judge, GoesTo, LaunchTypeOK, Places
<1>9. ASSUME NEW q \in Procs, Reclaim(q) PROVE LaunchTypeOK'
  BY <1>9 DEF Reclaim, GoesTo, LaunchTypeOK, Places, Attempts, TryInv, Trying
<1>10. ASSUME NEW q \in Procs, RefuseOnError(q) PROVE LaunchTypeOK'
  BY <1>10 DEF RefuseOnError, GoesTo, LaunchTypeOK, Places
<1>11. ASSUME NEW q \in Procs, ReleaseLock(q) PROVE LaunchTypeOK'
  BY <1>11 DEF ReleaseLock, GoesTo, LaunchTypeOK, Places
<1>12. ASSUME NEW q \in Procs, Crash(q) PROVE LaunchTypeOK'
  BY <1>12 DEF Crash, GoesTo, LaunchTypeOK, Places
<1>13. CASE UNCHANGED launchVars
  BY <1>13 DEF launchVars, LaunchTypeOK
<1> QED
  BY <1>1, <1>2, <1>3, <1>4, <1>5, <1>6, <1>7,
     <1>8, <1>9, <1>10, <1>11, <1>12, <1>13 DEF LaunchNext, Acquire

LEMMA LockNextTry == LaunchTypeOK /\ TryInv /\ [LaunchNext]_launchVars => TryInv'
<1> SUFFICES ASSUME LaunchTypeOK, TryInv, [LaunchNext]_launchVars, NEW p \in Procs
             PROVE  /\ (pc[p] = "off" => attempt[p] = 0)'
                    /\ (pc[p] \in Trying => attempt[p] < Attempts)'
                    /\ (pc[p] \in Trying \cup {"off"} => lock = NoFile \/ lock.by # p)'
                    /\ (pc[p] = "judge" => record[p] # p)'
  BY DEF TryInv
<1> DEFINE Goal == /\ pc[p] = "off" => attempt[p] = 0
                   /\ pc[p] \in Trying => attempt[p] < Attempts
                   /\ pc[p] \in Trying \cup {"off"} => lock = NoFile \/ lock.by # p
                   /\ pc[p] = "judge" => record[p] # p
<1> USE SingleInstanceAssumption, NoFileAssumption
<1>1. ASSUME NEW q \in Procs, Launch(q) PROVE Goal'
  BY <1>1 DEF Launch, GoesTo, LaunchTypeOK, Attempts, TryInv, Trying
<1>2. ASSUME NEW q \in Procs, CreateWins(q) PROVE Goal'
  BY <1>2 DEF CreateWins, GoesTo, LaunchTypeOK, File, TryInv, Trying
<1>3. ASSUME NEW q \in Procs, CreateLoses(q) PROVE Goal'
  BY <1>3 DEF CreateLoses, GoesTo, LaunchTypeOK, TryInv, Trying
<1>4. ASSUME NEW q \in Procs, WriteRecord(q) PROVE Goal'
  BY <1>4 DEF WriteRecord, GoesTo, LaunchTypeOK, File, TryInv, Trying
<1>5. ASSUME NEW q \in Procs, ReadRecord(q) PROVE Goal'
  BY <1>5 DEF ReadRecord, GoesTo, LaunchTypeOK, File, TryInv, Trying, Written
<1>6. ASSUME NEW q \in Procs, ReadNothing(q) PROVE Goal'
  BY <1>6 DEF ReadNothing, GoesTo, LaunchTypeOK, TryInv, Trying, Written
<1>7. ASSUME NEW q \in Procs, GiveUpReading(q) PROVE Goal'
  BY <1>7 DEF GiveUpReading, GoesTo, LaunchTypeOK, File, TryInv, Trying, Written
<1>8. ASSUME NEW q \in Procs, Judge(q) PROVE Goal'
  BY <1>8 DEF Judge, GoesTo, LaunchTypeOK, TryInv, Trying
<1>9. ASSUME NEW q \in Procs, Reclaim(q) PROVE Goal'
  BY <1>9 DEF Reclaim, GoesTo, LaunchTypeOK, Attempts, TryInv, Trying
<1>10. ASSUME NEW q \in Procs, RefuseOnError(q) PROVE Goal'
  BY <1>10 DEF RefuseOnError, GoesTo, LaunchTypeOK, TryInv, Trying
<1>11. ASSUME NEW q \in Procs, ReleaseLock(q) PROVE Goal'
  BY <1>11 DEF ReleaseLock, GoesTo, LaunchTypeOK, TryInv, Trying
<1>12. ASSUME NEW q \in Procs, Crash(q) PROVE Goal'
  BY <1>12 DEF Crash, GoesTo, LaunchTypeOK, TryInv, Trying
<1>13. CASE UNCHANGED launchVars
  BY <1>13 DEF launchVars, LaunchTypeOK, TryInv
<1> QED
  BY <1>1, <1>2, <1>3, <1>4, <1>5, <1>6, <1>7,
     <1>8, <1>9, <1>10, <1>11, <1>12, <1>13 DEF LaunchNext, Acquire

\* Every variable of the launch protocol keeps its type.
THEOREM LaunchTypeCorrect == LaunchSpec => []LaunchTypeOK
<1>1. LaunchInit => LaunchTypeOK /\ TryInv
  BY LockInitType, LockInitTry
<1>2. LaunchTypeOK /\ TryInv /\ [LaunchNext]_launchVars => (LaunchTypeOK /\ TryInv)'
  BY LockNextType, LockNextTry
<1> QED
  BY <1>1, <1>2, PTL DEF LaunchSpec

-----------------------------------------------------------------------------
(* A race of fresh launches has one winner.                                *)

LEMMA LockInitRace == LaunchInit => RaceInv
<1> SUFFICES ASSUME LaunchInit, ~faulty, \A p \in Procs : pc[p] # "gone" PROVE RaceInv
  BY DEF RaceInv
<1>1. lock = NoFile
  BY DEF LaunchInit, File
<1> QED
  BY <1>1 DEF LaunchInit, RaceInv

LEMMA LockNextRace ==
    ASSUME PromptWriters
    PROVE  LaunchTypeOK /\ TryInv /\ RaceInv /\ [LaunchNext]_launchVars => RaceInv'
<1> SUFFICES ASSUME LaunchTypeOK, TryInv, RaceInv, [LaunchNext]_launchVars, ~faulty',
                    \A p \in Procs : pc'[p] # "gone"
             PROVE  RaceInv'
  BY DEF RaceInv
<1> USE SingleInstanceAssumption, NoFileAssumption
<1>0. ~faulty /\ \A p \in Procs : pc[p] # "gone"
  BY
     DEF LaunchNext, Acquire, Launch, CreateWins, CreateLoses, WriteRecord, ReadRecord,
         ReadNothing, GiveUpReading, Judge, Reclaim, RefuseOnError, ReleaseLock, Crash,
         GoesTo, LaunchTypeOK, launchVars
<1>1. ASSUME NEW q \in Procs, Launch(q) PROVE RaceInv'
  BY <1>1, <1>0 DEF Launch, GoesTo, LaunchTypeOK, RaceInv, TryInv, Trying, Alive
<1>2. ASSUME NEW q \in Procs, CreateWins(q) PROVE RaceInv'
  <2>0. lock' = [by |-> q, written |-> FALSE]
    BY <1>2 DEF CreateWins
  <2>1. lock' \in File /\ lock'.by = q /\ lock'.written = FALSE
    BY <2>0 DEF File
  <2>2. lock' # NoFile
    BY <2>1
  <2>3. lock = NoFile /\ pc[q] = "create" /\ pc' = [pc EXCEPT ![q] = "write"]
    BY <1>2 DEF CreateWins, GoesTo
  <2>4. UNCHANGED record
    BY <1>2 DEF CreateWins
  <2> QED
    BY <1>0, <2>1, <2>2, <2>3, <2>4 DEF RaceInv, LaunchTypeOK
<1>3. ASSUME NEW q \in Procs, CreateLoses(q) PROVE RaceInv'
  BY <1>3, <1>0 DEF CreateLoses, GoesTo, LaunchTypeOK, RaceInv, TryInv, Trying
<1>4. ASSUME NEW q \in Procs, WriteRecord(q) PROVE RaceInv'
  BY <1>4, <1>0 DEF WriteRecord, GoesTo, LaunchTypeOK, File, RaceInv, TryInv, Trying
<1>5. ASSUME NEW q \in Procs, ReadRecord(q) PROVE RaceInv'
  BY <1>5, <1>0 DEF ReadRecord, GoesTo, LaunchTypeOK, File, RaceInv, TryInv, Trying, Written
<1>6. ASSUME NEW q \in Procs, ReadNothing(q) PROVE RaceInv'
  BY <1>6, <1>0
     DEF ReadNothing, GoesTo, LaunchTypeOK, RaceInv, TryInv, Trying, Written, Unreadable
<1>7. ASSUME NEW q \in Procs, GiveUpReading(q) PROVE RaceInv'
  BY <1>7, <1>0
     DEF GiveUpReading, GoesTo, LaunchTypeOK, File, RaceInv, TryInv, Trying, Written,
         Unreadable
<1>8. ASSUME NEW q \in Procs, Judge(q) PROVE RaceInv'
  BY <1>8, <1>0 DEF Judge, GoesTo, LaunchTypeOK, RaceInv, TryInv, Trying, OwnerAlive, Alive
<1>9. ASSUME NEW q \in Procs, Reclaim(q) PROVE RaceInv'
  BY <1>9, <1>0 DEF Reclaim, GoesTo, LaunchTypeOK, RaceInv, TryInv, Trying
<1>10. ASSUME NEW q \in Procs, RefuseOnError(q) PROVE RaceInv'
  BY <1>10, <1>0 DEF RefuseOnError, GoesTo, LaunchTypeOK, RaceInv, TryInv, Trying
<1>11. ASSUME NEW q \in Procs, ReleaseLock(q) PROVE RaceInv'
  BY <1>11, <1>0 DEF ReleaseLock, GoesTo, LaunchTypeOK, RaceInv, TryInv, Trying
<1>12. ASSUME NEW q \in Procs, Crash(q) PROVE RaceInv'
  BY <1>12, <1>0 DEF Crash, GoesTo, LaunchTypeOK, RaceInv, TryInv, Trying, Alive
<1>13. CASE UNCHANGED launchVars
  BY <1>13 DEF launchVars, LaunchTypeOK, RaceInv, TryInv, Alive
<1> QED
  BY <1>1, <1>2, <1>3, <1>4, <1>5, <1>6, <1>7,
     <1>8, <1>9, <1>10, <1>11, <1>12, <1>13 DEF LaunchNext, Acquire

LEMMA LockRaceImplies == RaceInv /\ LaunchTypeOK => RaceHasOneWinner
<1> SUFFICES ASSUME RaceInv, LaunchTypeOK, ~faulty, \A p \in Procs : pc[p] # "gone",
                    NEW p \in Procs, pc[p] = "running"
             PROVE  /\ lock = [by |-> p, written |-> TRUE]
                    /\ \A q \in Procs : pc[q] = "running" => q = p
  BY DEF RaceHasOneWinner
<1>1. lock \in File /\ lock.by = p
  BY DEF RaceInv, LaunchTypeOK
<1>2. lock.written = TRUE
  BY <1>1 DEF RaceInv, File
<1>3. lock = [by |-> p, written |-> TRUE]
  BY <1>1, <1>2 DEF File
<1>4. \A q \in Procs : pc[q] = "running" => q = p
  BY <1>1 DEF RaceInv
<1> QED
  BY <1>3, <1>4

\* When every launch is fresh (no lock was left behind, nobody has exited), the
\* winner of a race writes its record within the read window and no system call
\* fails, then at most one process runs and the lock file is its own, however
\* many launches race.
THEOREM OneWinner ==
    ASSUME PromptWriters
    PROVE  LaunchSpec => []RaceHasOneWinner
<1>1. LaunchInit => LaunchTypeOK /\ TryInv /\ RaceInv
  BY LockInitType, LockInitTry, LockInitRace
<1>2. LaunchTypeOK /\ TryInv /\ RaceInv /\ [LaunchNext]_launchVars => (LaunchTypeOK /\ TryInv /\ RaceInv)'
  BY LockNextType, LockNextTry, LockNextRace
<1>3. LaunchTypeOK /\ TryInv /\ RaceInv => RaceHasOneWinner
  BY LockRaceImplies
<1> QED
  BY <1>1, <1>2, <1>3, PTL DEF LaunchSpec

-----------------------------------------------------------------------------
(* A dead owner bars nobody.                                               *)

LEMMA LockInitAlone == LaunchInit => AloneInv
BY DEF LaunchInit, AloneInv

LEMMA LockNextAlone == LaunchTypeOK /\ TryInv /\ AloneInv /\ [LaunchNext]_launchVars => AloneInv'
<1> SUFFICES ASSUME LaunchTypeOK, TryInv, AloneInv, [LaunchNext]_launchVars, ~faulty',
                    NEW p \in Procs, alone'[p]
             PROVE  /\ (pc[p] # "refused")'
                    /\ (Alive(p) => \A q \in Procs : Alive(q) => q = p)'
                    /\ (pc[p] \in {"read", "judge", "unlink"} => attempt[p] = 0)'
                    /\ (pc[p] = "create" => attempt[p] = 0 \/ lock = NoFile)'
  BY DEF AloneInv
<1> DEFINE Goal == /\ pc[p] # "refused"
                   /\ Alive(p) => \A q \in Procs : Alive(q) => q = p
                   /\ pc[p] \in {"read", "judge", "unlink"} => attempt[p] = 0
                   /\ pc[p] = "create" => attempt[p] = 0 \/ lock = NoFile
<1>0. ~faulty
  BY DEF LaunchNext, Acquire, Launch, CreateWins, CreateLoses, WriteRecord, ReadRecord,
         ReadNothing, GiveUpReading, Judge, Reclaim, RefuseOnError, ReleaseLock, Crash, launchVars
<1> USE SingleInstanceAssumption, NoFileAssumption, <1>0
<1>1. ASSUME NEW q \in Procs, Launch(q) PROVE Goal'
  BY <1>1 DEF Launch, GoesTo, LaunchTypeOK, AloneInv, TryInv, Trying, Alive
<1>2. ASSUME NEW q \in Procs, CreateWins(q) PROVE Goal'
  BY <1>2 DEF CreateWins, GoesTo, LaunchTypeOK, AloneInv, TryInv, Trying, Alive
<1>3. ASSUME NEW q \in Procs, CreateLoses(q) PROVE Goal'
  BY <1>3 DEF CreateLoses, GoesTo, LaunchTypeOK, AloneInv, TryInv, Trying, Alive
<1>4. ASSUME NEW q \in Procs, WriteRecord(q) PROVE Goal'
  BY <1>4 DEF WriteRecord, GoesTo, LaunchTypeOK, AloneInv, TryInv, Trying, Alive
<1>5. ASSUME NEW q \in Procs, ReadRecord(q) PROVE Goal'
  BY <1>5 DEF ReadRecord, GoesTo, LaunchTypeOK, AloneInv, TryInv, Trying, Alive
<1>6. ASSUME NEW q \in Procs, ReadNothing(q) PROVE Goal'
  BY <1>6 DEF ReadNothing, GoesTo, LaunchTypeOK, AloneInv, TryInv, Trying, Alive
<1>7. ASSUME NEW q \in Procs, GiveUpReading(q) PROVE Goal'
  BY <1>7 DEF GiveUpReading, GoesTo, LaunchTypeOK, AloneInv, TryInv, Trying, Alive
<1>8. ASSUME NEW q \in Procs, Judge(q) PROVE Goal'
  BY <1>8 DEF Judge, GoesTo, LaunchTypeOK, AloneInv, TryInv, Trying, OwnerAlive, Alive
<1>9. ASSUME NEW q \in Procs, Reclaim(q) PROVE Goal'
  BY <1>9 DEF Reclaim, GoesTo, LaunchTypeOK, AloneInv, TryInv, Trying, Attempts, Alive
<1>10. ASSUME NEW q \in Procs, RefuseOnError(q) PROVE Goal'
  BY <1>10 DEF RefuseOnError, GoesTo, LaunchTypeOK, AloneInv, TryInv, Trying, Alive
<1>11. ASSUME NEW q \in Procs, ReleaseLock(q) PROVE Goal'
  BY <1>11 DEF ReleaseLock, GoesTo, LaunchTypeOK, AloneInv, TryInv, Trying, Alive
<1>12. ASSUME NEW q \in Procs, Crash(q) PROVE Goal'
  BY <1>12 DEF Crash, GoesTo, LaunchTypeOK, AloneInv, TryInv, Trying, Alive
<1>13. CASE UNCHANGED launchVars
  BY <1>13 DEF launchVars, LaunchTypeOK, AloneInv, TryInv, Alive
<1> QED
  BY <1>1, <1>2, <1>3, <1>4, <1>5, <1>6, <1>7,
     <1>8, <1>9, <1>10, <1>11, <1>12, <1>13 DEF LaunchNext, Acquire

\* acquire's promise that a crash never bars the next launch: with no system
\* call failing, a launch that had no live rival is not refused.
THEOREM NotLockedOut == LaunchSpec => []NeverLockedOut
<1>1. LaunchInit => LaunchTypeOK /\ TryInv /\ AloneInv
  BY LockInitType, LockInitTry, LockInitAlone
<1>2. LaunchTypeOK /\ TryInv /\ AloneInv /\ [LaunchNext]_launchVars => (LaunchTypeOK /\ TryInv /\ AloneInv)'
  BY LockNextType, LockNextTry, LockNextAlone
<1>3. AloneInv => NeverLockedOut
  BY DEF AloneInv, NeverLockedOut
<1> QED
  BY <1>1, <1>2, <1>3, PTL DEF LaunchSpec
=============================================================================
