--------------------------- MODULE Recycle_proofs ---------------------------
(***************************************************************************)
(* Proofs about the recycle store (core/recycle_store.py).                 *)
(*                                                                         *)
(* Inv holds whatever the constants: it says who may work on a batch, that *)
(* what is in a batch is on record with whoever does, and that a manifest  *)
(* tells the truth about every batch that does not count as forged.  From  *)
(* it follow KeepsRetention and, with the numbers a restored file may get  *)
(* (NumberInv), NothingClobbered.  The three properties about what stays   *)
(* restorable and what the purge leaves are not true when the process may  *)
(* be killed, a removal may fail or something else edits the manifests:    *)
(* Undamaged excludes these, and RestInv is what holds besides.            *)
(***************************************************************************)
EXTENDS RecycleStore, FiniteSetTheorems, TLAPS

-----------------------------------------------------------------------------
(* The invariant.                                                          *)

\* What one thread, or the store, holds of the files of a batch.
Busy(t)      == call[t].kind # "none"
Stored(i, b) == where[i] \in Payload /\ where[i].batch = b
Names(es, i) == \E e \in es : e.item = i /\ e.loc = where[i]

\* The destination of a restore need not be one of the numbered names that
\* UniqueDestination looks through: that it is a place is all that counts.
IsPlace(x) == DOMAIN x = {"path", "n"}

Fields == {"kind", "at", "batch", "sources", "entries", "aim", "head", "kept", "targets"}

TypedCall(c) ==
    /\ DOMAIN c = Fields
    /\ c.kind \in {"recycle", "restore", "delete"}
    /\ c.at \in {"moving", "landing", "removing"}
    /\ c.batch \in Batches
    /\ c.sources \subseteq Outside
    /\ c.entries \subseteq Entry /\ c.head \in Head /\ c.kept \subseteq Entry
    /\ c.at = "landing" => c.aim.entry \in Entry /\ IsPlace(c.aim.dest)

Typed ==
    /\ now \in Nat
    /\ DOMAIN where = Items
    /\ \A i \in Items : where[i] \in Payload \/ IsPlace(where[i]) \/ where[i] \in Fates
    /\ dirs \subseteq Batches /\ offered \subseteq Batches /\ DOMAIN dirAt = Batches
    /\ manifest \in [Batches -> Manifest \cup {NoManifest, BadManifest}]
    /\ DOMAIN call = Threads
    /\ \A t \in Threads : Busy(t) => TypedCall(call[t])
    /\ forged \subseteq Batches

\* No thread works on the store but while it is served.
QuietInv == up # "serving" => \A t \in Threads : ~Busy(t)

\* What there is of a batch dates from before now.
PastInv ==
    /\ \A i \in Items : where[i] \in Payload => where[i].batch < now
    /\ \A b \in Batches : manifest[b] # NoManifest => b < now
    /\ \A b \in offered : b \notin forged => b < now
    /\ \A t \in Threads : Busy(t) => call[t].batch < now
    /\ \A b \in dirs : b < now /\ dirAt[b] \in Nat /\ b <= dirAt[b]

\* A manifest that can be read tells the id and the time of its batch, and what a
\* thread knows of them is right.  One that something else has rewritten may lie,
\* but only about batches that count as forged.
Vouches(head, b) ==
    /\ head.id = b \/ head.id \in forged
    /\ b \notin forged => head.id = b /\ head.created = b
HeadInv    == \A b \in Batches : Readable(b) => Vouches(manifest[b].head, b)
Knowing(t) == Busy(t) => Vouches(call[t].head, call[t].batch)

\* A manifest that can be read lists all that is in its batch.
ListInv ==
    \A b \in Batches : Readable(b) /\ b \notin forged =>
        \A i \in Items : Stored(i, b) => Names(manifest[b].entries, i)

\* The startup purge removes directories of expired batches only.
PurgeInv == \A loc \in purge : loc \in Payload /\ (loc.batch \in forged \/ Expired(loc.batch))

\* A batch that is being filled is nobody else's, and all in it is on record.
Own(t) ==
    LET b == call[t].batch IN
    /\ b \in dirs /\ b \notin offered /\ manifest[b] = NoManifest
    /\ \A u \in Threads : u # t /\ Busy(u) => call[u].batch # b
    /\ \A i \in Items : Stored(i, b) => Names(call[t].kept, i)
Filling(t) ==
    call[t].kind = "recycle" => call[t].at = "moving" /\ (call[t].batch \notin forged => Own(t))

\* A restore has all that is in its batch on record, until it finds that it has
\* moved all of it out.
Holding(t) ==
    call[t].kind = "restore" /\ call[t].batch \notin forged =>
        \A i \in Items : Stored(i, call[t].batch) =>
            \/ Names(call[t].entries \cup call[t].kept, i) /\ call[t].at \in {"moving", "landing"}
            \/ call[t].at = "landing" /\ Names({call[t].aim.entry}, i)

\* Restores and deletes remove only directories of the batch at hand.
Removing(t) ==
    /\ call[t].kind \in {"restore", "delete"} /\ call[t].at = "removing" =>
          \A loc \in call[t].targets : loc \in Payload /\ loc.batch = call[t].batch
    /\ call[t].kind = "delete" => call[t].at = "removing"

Inv ==
    /\ Typed /\ QuietInv /\ PastInv /\ HeadInv /\ ListInv /\ PurgeInv
    /\ \A t \in Threads : Knowing(t) /\ Filling(t) /\ Holding(t) /\ Removing(t)

-----------------------------------------------------------------------------
(* Places, payloads and fates are told apart by their fields.              *)

LEMMA OutsideIsPlace == \A x \in Outside : IsPlace(x)
BY DEF Outside, IsPlace

LEMMA SuffixedIsPlace == \A x, n : IsPlace(x) => IsPlace([x EXCEPT !.n = n])
BY DEF IsPlace

LEMMA PayloadDomain == \A x \in Payload : DOMAIN x = {"batch", "vol"}
BY DEF Payload

LEMMA PlacesApart == \A x : IsPlace(x) => x \notin Payload
<1>1. {"path", "n"} # {"batch", "vol"}
  OBVIOUS
<1> QED BY <1>1, PayloadDomain DEF IsPlace

LEMMA FatesApart == \A x \in Fates : x \notin Payload
<1>1. \A x \in Fates : DOMAIN x = {"fate"}
  BY DEF Fates, Absent, Destroyed, Clobbered
<1>2. {"fate"} # {"batch", "vol"}
  OBVIOUS
<1> QED BY <1>1, <1>2, PayloadDomain

LEMMA PlaceNotDestroyed == \A x : IsPlace(x) => x # Destroyed
<1>1. DOMAIN Destroyed = {"fate"}
  BY DEF Destroyed
<1>2. {"fate"} # {"path", "n"}
  OBVIOUS
<1> QED BY <1>1, <1>2 DEF IsPlace

-----------------------------------------------------------------------------
(* Two kinds of steps.                                                     *)

\* A step of one thread that moves no file: what it does to its own call, and
\* perhaps to a manifest, has to be right; nobody else is concerned.
LEMMA CallStep ==
    ASSUME Inv, NEW t \in Threads,
           UNCHANGED <<now, where, dirs, up, offered, purge, forged>>,
           DOMAIN call' = Threads, \A u \in Threads : u # t => call'[u] = call[u],
           call'[t].kind # "none" =>
              /\ up = "serving" /\ TypedCall(call'[t]) /\ call'[t].batch < now
              /\ \A u \in Threads : u # t /\ call[u].kind = "recycle" /\ call[u].batch \notin forged =>
                    call[u].batch # call'[t].batch,
           manifest' \in [Batches -> Manifest \cup {NoManifest, BadManifest}],
           \A b \in Batches : manifest'[b] # NoManifest => b < now,
           \A u \in Threads : u # t /\ call[u].kind = "recycle" /\ call[u].batch \notin forged =>
              manifest'[call[u].batch] = NoManifest,
           DOMAIN dirAt' = Batches, \A b \in dirs : dirAt'[b] \in Nat /\ b <= dirAt'[b],
           HeadInv', ListInv', Knowing(t)', Filling(t)', Holding(t)', Removing(t)'
    PROVE  Inv'
<1>1. Typed'
  BY DEF Inv, Typed, Busy
<1>2. QuietInv'
  BY DEF Inv, QuietInv, Busy
<1>3. PastInv'
  BY DEF Inv, PastInv, Busy
<1>4. PurgeInv'
  BY DEF Inv, PurgeInv, Expired
<1>5. ASSUME NEW u \in Threads, u # t PROVE (Knowing(u) /\ Filling(u) /\ Holding(u) /\ Removing(u))'
  <2>1. Filling(u) /\ Holding(u) /\ Removing(u) /\ call'[u] = call[u]
    BY <1>5 DEF Inv
  <2>2. Filling(u)'
    <3>1. CASE call[u].kind = "recycle" /\ call[u].batch \notin forged
      BY <1>5, <2>1, <3>1 DEF Filling, Own, Stored, Names, Busy
    <3>2. CASE ~(call[u].kind = "recycle" /\ call[u].batch \notin forged)
      BY <2>1, <3>2 DEF Filling
    <3> QED BY <3>1, <3>2
  <2>3. Holding(u)'
    BY <2>1 DEF Holding, Stored, Names
  <2>4. Removing(u)'
    BY <2>1 DEF Removing
  <2>5. Knowing(u)'
    BY <2>1 DEF Inv, Knowing, Vouches, Busy
  <2> QED BY <2>2, <2>3, <2>4, <2>5
<1> QED BY <1>1, <1>2, <1>3, <1>4, <1>5 DEF Inv

\* What a thread that is at work has in hand.
LEMMA AtWork ==
    ASSUME Inv, NEW t \in Threads, Busy(t)
    PROVE  /\ TypedCall(call[t]) /\ up = "serving" /\ call[t].batch < now
           /\ Vouches(call[t].head, call[t].batch)
           /\ \A u \in Threads : u # t /\ call[u].kind = "recycle" /\ call[u].batch \notin forged =>
                 call[u].batch # call[t].batch
BY DEF Inv, Typed, QuietInv, PastInv, Knowing, Filling, Own, Busy

\* A step that changes only what one thread knows of its batch.
LEMMA OwnStep ==
    ASSUME Inv, NEW t \in Threads, Busy(t),
           UNCHANGED <<now, where, dirs, dirAt, manifest, up, offered, purge, forged>>,
           DOMAIN call' = Threads, \A u \in Threads : u # t => call'[u] = call[u],
           TypedCall(call'[t]), call'[t].batch = call[t].batch, call'[t].kind = call[t].kind,
           call'[t].head = call[t].head,
           Filling(t)', Holding(t)', Removing(t)'
    PROVE  Inv'
<1>1. /\ TypedCall(call[t]) /\ up = "serving" /\ call[t].batch < now
      /\ \A u \in Threads : u # t /\ call[u].kind = "recycle" /\ call[u].batch \notin forged =>
            call[u].batch # call[t].batch
  BY AtWork
<1>2. /\ manifest' \in [Batches -> Manifest \cup {NoManifest, BadManifest}]
      /\ \A b \in Batches : manifest'[b] # NoManifest => b < now
      /\ DOMAIN dirAt' = Batches
      /\ \A b \in dirs : dirAt'[b] \in Nat /\ b <= dirAt'[b]
  BY DEF Inv, Typed, PastInv
<1>3. \A u \in Threads : u # t /\ call[u].kind = "recycle" /\ call[u].batch \notin forged =>
         manifest'[call[u].batch] = NoManifest
  BY DEF Inv, Filling, Own
<1>4. ListInv' /\ HeadInv' /\ Knowing(t)'
  BY DEF Inv, ListInv, HeadInv, Knowing, Vouches, Busy, Readable, Stored, Names
<1> QED
  BY <1>1, <1>2, <1>3, <1>4, CallStep

LEMMA SkipSourceInv == ASSUME Inv, NEW t \in Threads, SkipSource(t) PROVE Inv'
<1>1. Busy(t) /\ TypedCall(call[t]) /\ call[t].kind = "recycle" /\ Filling(t)
  BY AtWork DEF SkipSource, Doing, Busy, Inv
<1>2. PICK src \in call[t].sources : call' = [call EXCEPT ![t].sources = @ \ {src}]
  BY DEF SkipSource
<1>3. /\ DOMAIN call' = Threads
      /\ \A u \in Threads : u # t => call'[u] = call[u]
      /\ call'[t] = [call[t] EXCEPT !.sources = @ \ {src}]
  BY <1>2 DEF Inv, Typed
<1>4. TypedCall(call'[t])
  BY <1>1, <1>3 DEF TypedCall
<1>5. /\ call'[t].kind = call[t].kind /\ call'[t].at = call[t].at /\ call'[t].batch = call[t].batch
      /\ call'[t].kept = call[t].kept /\ call'[t].head = call[t].head
  BY <1>3
<1>6. UNCHANGED <<now, where, dirs, dirAt, manifest, up, offered, purge, forged>>
  BY DEF SkipSource
<1>7. Filling(t)'
  BY <1>1, <1>3, <1>5, <1>6 DEF Filling, Own, Busy, Stored, Names
<1>8. Holding(t)' /\ Removing(t)'
  BY <1>1, <1>5 DEF Holding, Removing
<1> QED
  BY <1>1, <1>3, <1>4, <1>5, <1>6, <1>7, <1>8, OwnStep

LEMMA SkipEntryInv == ASSUME Inv, NEW t \in Threads, SkipEntry(t) PROVE Inv'
<1>1. Busy(t) /\ TypedCall(call[t]) /\ call[t].kind = "restore" /\ call[t].at = "moving" /\ Holding(t)
  BY AtWork DEF SkipEntry, Doing, Busy, Inv
<1>2. PICK e \in call[t].entries : call' = [call EXCEPT ![t].entries = @ \ {e}, ![t].kept = @ \cup {e}]
  BY DEF SkipEntry
<1>3. /\ DOMAIN call' = Threads
      /\ \A u \in Threads : u # t => call'[u] = call[u]
      /\ call'[t] = [call[t] EXCEPT !.entries = @ \ {e}, !.kept = @ \cup {e}]
  BY <1>2 DEF Inv, Typed
<1>4. TypedCall(call'[t])
  BY <1>1, <1>2, <1>3 DEF TypedCall
<1>5. /\ call'[t].kind = call[t].kind /\ call'[t].at = call[t].at /\ call'[t].batch = call[t].batch
      /\ call'[t].head = call[t].head
      /\ call'[t].entries \cup call'[t].kept = call[t].entries \cup call[t].kept
  BY <1>1, <1>2, <1>3 DEF TypedCall, Fields
<1>6. UNCHANGED <<now, where, dirs, dirAt, manifest, up, offered, purge, forged>>
  BY DEF SkipEntry
<1>7. Holding(t)'
  BY <1>1, <1>5, <1>6 DEF Holding, Stored, Names
<1>8. Filling(t)' /\ Removing(t)'
  BY <1>1, <1>5 DEF Filling, Removing
<1> QED
  BY <1>1, <1>3, <1>4, <1>5, <1>6, <1>7, <1>8, OwnStep

LEMMA AimEntryInv == ASSUME Inv, NEW t \in Threads, AimEntry(t) PROVE Inv'
<1>1. Busy(t) /\ TypedCall(call[t]) /\ call[t].kind = "restore" /\ call[t].at = "moving" /\ Holding(t)
  BY AtWork DEF AimEntry, Doing, Busy, Inv
<1>2. PICK e \in call[t].entries :
          call' = [call EXCEPT ![t].at = "landing", ![t].entries = @ \ {e},
                               ![t].aim = [entry |-> e, dest |-> UniqueDestination(e.orig)]]
  BY DEF AimEntry
<1>3. /\ DOMAIN call' = Threads
      /\ \A u \in Threads : u # t => call'[u] = call[u]
      /\ call'[t] = [call[t] EXCEPT !.at = "landing", !.entries = @ \ {e},
                                    !.aim = [entry |-> e, dest |-> UniqueDestination(e.orig)]]
  BY <1>2 DEF Inv, Typed
<1>4. IsPlace(UniqueDestination(e.orig))
  <2>1. e \in Entry
    BY <1>1, <1>2 DEF TypedCall
  <2>2. IsPlace(e.orig)
    BY <2>1, OutsideIsPlace DEF Entry
  <2> QED BY <2>2, SuffixedIsPlace DEF UniqueDestination
<1>5. /\ DOMAIN call'[t] = Fields /\ call'[t].at = "landing"
      /\ call'[t].kind = call[t].kind /\ call'[t].batch = call[t].batch
      /\ call'[t].sources = call[t].sources /\ call'[t].kept = call[t].kept
      /\ call'[t].entries = call[t].entries \ {e} /\ call'[t].head = call[t].head
      /\ call'[t].aim.entry = e /\ call'[t].aim.dest = UniqueDestination(e.orig)
  BY <1>1, <1>3 DEF TypedCall, Fields
<1>6. TypedCall(call'[t])
  BY <1>1, <1>2, <1>4, <1>5 DEF TypedCall
<1>7. UNCHANGED <<now, where, dirs, dirAt, manifest, up, offered, purge, forged>>
  BY DEF AimEntry
<1>8. Holding(t)'
  <2> SUFFICES ASSUME call[t].batch \notin forged, NEW i \in Items, Stored(i, call[t].batch)
               PROVE  Names(call'[t].entries \cup call'[t].kept, i) \/ Names({e}, i)
    BY <1>5, <1>7 DEF Holding, Stored, Names
  <2>1. Names(call[t].entries \cup call[t].kept, i)
    BY <1>1 DEF Holding
  <2> QED BY <1>2, <1>5, <2>1 DEF Names
<1>9. Filling(t)' /\ Removing(t)'
  BY <1>1, <1>5 DEF Filling, Removing
<1> QED
  BY <1>1, <1>3, <1>5, <1>6, <1>7, <1>8, <1>9, OwnStep

LEMMA MissEntryInv == ASSUME Inv, NEW t \in Threads, MissEntry(t) PROVE Inv'
<1>1. Busy(t) /\ TypedCall(call[t]) /\ call[t].kind = "restore" /\ call[t].at = "landing" /\ Holding(t)
  BY AtWork DEF MissEntry, Doing, Busy, Inv
<1>2. call' = [call EXCEPT ![t].at = "moving", ![t].aim = Nothing, ![t].kept = @ \cup {call[t].aim.entry}]
  BY DEF MissEntry
<1>3. /\ DOMAIN call' = Threads
      /\ \A u \in Threads : u # t => call'[u] = call[u]
      /\ call'[t] = [call[t] EXCEPT !.at = "moving", !.aim = Nothing, !.kept = @ \cup {call[t].aim.entry}]
  BY <1>2 DEF Inv, Typed
<1>5. /\ DOMAIN call'[t] = Fields /\ call'[t].at = "moving"
      /\ call'[t].kind = call[t].kind /\ call'[t].batch = call[t].batch
      /\ call'[t].sources = call[t].sources /\ call'[t].entries = call[t].entries
      /\ call'[t].kept = call[t].kept \cup {call[t].aim.entry} /\ call'[t].head = call[t].head
  BY <1>1, <1>3 DEF TypedCall, Fields
<1>6. TypedCall(call'[t])
  BY <1>1, <1>5 DEF TypedCall
<1>7. UNCHANGED <<now, where, dirs, dirAt, manifest, up, offered, purge, forged>>
  BY DEF MissEntry
<1>8. Holding(t)'
  BY <1>1, <1>5, <1>7 DEF Holding, Stored, Names
<1>9. Filling(t)' /\ Removing(t)'
  BY <1>1, <1>5 DEF Filling, Removing
<1> QED
  BY <1>1, <1>3, <1>5, <1>6, <1>7, <1>8, <1>9, OwnStep

LEMMA WriteManifestSound ==
    ASSUME Inv, NEW b \in Batches, NEW head \in Head, Vouches(head, b), NEW entries \in SUBSET Entry,
           UNCHANGED <<now, where, dirs, forged>>, WriteManifest(head, entries),
           b \notin forged => \A i \in Items : Stored(i, b) => Names(entries, i)
    PROVE  /\ manifest' \in [Batches -> Manifest \cup {NoManifest, BadManifest}]
           /\ \A c \in Batches : manifest'[c] # NoManifest => c < now
           /\ \A c \in Batches : c # b /\ c \notin forged => manifest'[c] = manifest[c]
           /\ DOMAIN dirAt' = Batches
           /\ \A c \in dirs : dirAt'[c] \in Nat /\ c <= dirAt'[c]
           /\ ListInv' /\ HeadInv'
<1>0. /\ manifest \in [Batches -> Manifest \cup {NoManifest, BadManifest}]
      /\ \A c \in Batches : manifest[c] # NoManifest => c < now
      /\ DOMAIN dirAt = Batches /\ now \in Nat /\ dirs \subseteq Batches
      /\ \A c \in dirs : c < now /\ dirAt[c] \in Nat /\ c <= dirAt[c]
      /\ ListInv /\ HeadInv /\ head.id \in Batches
  BY DEF Inv, Typed, PastInv, Head
<1>1. \A i \in Items : \A c : Stored(i, c)' <=> Stored(i, c)
  BY DEF Stored
<1>2. \A i \in Items : \A es : Names(es, i)' <=> Names(es, i)
  BY DEF Names
<1>3. CASE UNCHANGED <<manifest, dirAt>>
  <2>1. ListInv'
    BY <1>0, <1>1, <1>2, <1>3 DEF ListInv, Readable
  <2>2. HeadInv'
    BY <1>0, <1>3 DEF HeadInv, Vouches, Readable
  <2> QED BY <1>0, <1>3, <2>1, <2>2
<1>4. CASE /\ head.id \in dirs
           /\ manifest' = [manifest EXCEPT ![head.id] = [head |-> head, entries |-> entries]]
           /\ dirAt' = dirAt \/ dirAt' = [dirAt EXCEPT ![head.id] = now]
  <2>1. [head |-> head, entries |-> entries] \in Manifest
    BY DEF Manifest
  <2>2. /\ manifest' \in [Batches -> Manifest \cup {NoManifest, BadManifest}]
        /\ \A c \in Batches : c # head.id => manifest'[c] = manifest[c]
        /\ manifest'[head.id] = [head |-> head, entries |-> entries]
    BY <1>0, <1>4, <2>1
  <2>3. /\ DOMAIN dirAt' = Batches
        /\ \A c \in dirs : dirAt'[c] = dirAt[c] \/ (c = head.id /\ dirAt'[c] = now)
    BY <1>0, <1>4
  <2>4. \A c \in dirs : dirAt'[c] \in Nat /\ c <= dirAt'[c]
    BY <1>0, <2>3 DEF Batches
  <2>5. manifest'[head.id].entries = entries /\ manifest'[head.id].head = head
    BY <2>2
  <2>6. ListInv'
    <3> SUFFICES ASSUME NEW c \in Batches, Readable(c)', c \notin forged, NEW i \in Items, Stored(i, c)
                 PROVE  Names(manifest'[c].entries, i)
      BY <1>1, <1>2 DEF ListInv, Names
    <3>1. CASE c = head.id
      BY <2>5, <3>1 DEF Vouches
    <3>2. CASE c # head.id
      BY <1>0, <2>2, <3>2 DEF ListInv, Readable
    <3> QED BY <3>1, <3>2
  <2>7. HeadInv'
    <3> SUFFICES ASSUME NEW c \in Batches, Readable(c)'
                 PROVE  Vouches(manifest[c].head, c)'
      BY DEF HeadInv
    <3>1. CASE c = head.id
      BY <2>5, <3>1 DEF Vouches
    <3>2. CASE c # head.id
      BY <1>0, <2>2, <3>2 DEF HeadInv, Readable, Vouches
    <3> QED BY <3>1, <3>2
  <2>8. \A c \in Batches : c # b /\ c \notin forged => manifest'[c] = manifest[c]
    BY <2>2 DEF Vouches
  <2>9. \A c \in Batches : manifest'[c] # NoManifest => c < now
    BY <1>0, <1>4, <2>2
  <2> QED BY <2>2, <2>3, <2>4, <2>6, <2>7, <2>8, <2>9
<1> QED BY <1>3, <1>4 DEF WriteManifest

LEMMA NoCallIsNone == NoCall.kind = "none"
BY DEF NoCall

LEMMA FinishRecycleInv == ASSUME Inv, NEW t \in Threads, FinishRecycle(t) PROVE Inv'
<1>1. /\ Busy(t) /\ TypedCall(call[t]) /\ call[t].kind = "recycle" /\ Filling(t) /\ call[t].batch < now
      /\ Vouches(call[t].head, call[t].batch)
      /\ \A u \in Threads : u # t /\ call[u].kind = "recycle" /\ call[u].batch \notin forged =>
            call[u].batch # call[t].batch
  BY AtWork DEF FinishRecycle, Doing, Busy, Inv
<1>2. /\ DOMAIN call' = Threads
      /\ \A u \in Threads : u # t => call'[u] = call[u]
      /\ call'[t].kind = "none"
  BY NoCallIsNone DEF FinishRecycle, End, Inv, Typed
<1>3. UNCHANGED <<now, where, dirs, up, offered, purge, forged>>
  BY DEF FinishRecycle
<1>4. /\ call[t].batch \in Batches /\ call[t].kept \in SUBSET Entry
      /\ call[t].head \in Head
      /\ call[t].batch \notin forged => \A i \in Items : Stored(i, call[t].batch) => Names(call[t].kept, i)
  BY <1>1 DEF TypedCall, Filling, Own
<1>5. /\ manifest' \in [Batches -> Manifest \cup {NoManifest, BadManifest}]
      /\ \A c \in Batches : manifest'[c] # NoManifest => c < now
      /\ \A c \in Batches : c # call[t].batch /\ c \notin forged => manifest'[c] = manifest[c]
      /\ DOMAIN dirAt' = Batches
      /\ \A c \in dirs : dirAt'[c] \in Nat /\ c <= dirAt'[c]
      /\ ListInv' /\ HeadInv'
  BY <1>1, <1>3, <1>4, WriteManifestSound DEF FinishRecycle
<1>6. \A u \in Threads : u # t /\ call[u].kind = "recycle" /\ call[u].batch \notin forged =>
         manifest'[call[u].batch] = NoManifest
  <2> SUFFICES ASSUME NEW u \in Threads, u # t, call[u].kind = "recycle", call[u].batch \notin forged
               PROVE  manifest'[call[u].batch] = NoManifest
    OBVIOUS
  <2>1. TypedCall(call[u]) /\ Filling(u) /\ call[u].batch # call[t].batch
    BY <1>1 DEF Inv, Typed, Busy
  <2> QED BY <1>5, <2>1 DEF Filling, Own, TypedCall
<1>7. Knowing(t)' /\ Filling(t)' /\ Holding(t)' /\ Removing(t)'
  BY <1>2 DEF Knowing, Busy, Filling, Holding, Removing
<1> QED
  BY <1>2, <1>3, <1>5, <1>6, <1>7, CallStep

LEMMA TargetsInBatch ==
    ASSUME NEW b \in Batches, NEW entries
    PROVE  \A loc \in Reach(b, entries) : loc \in Payload /\ loc.batch = b
<1>1. [batch |-> b, vol |-> Central] \in Payload
  BY RecycleStoreAssumption DEF Payload
<1> QED BY <1>1 DEF Reach, Valid

LEMMA FinishRestoreInv == ASSUME Inv, NEW t \in Threads, FinishRestore(t) PROVE Inv'
<1>1. /\ Busy(t) /\ TypedCall(call[t]) /\ call[t].kind = "restore" /\ call[t].at = "moving"
      /\ Holding(t) /\ call[t].batch < now /\ up = "serving" /\ Vouches(call[t].head, call[t].batch)
      /\ \A u \in Threads : u # t /\ call[u].kind = "recycle" /\ call[u].batch \notin forged =>
            call[u].batch # call[t].batch
  BY AtWork DEF FinishRestore, Doing, Busy, Inv
<1>2. UNCHANGED <<now, where, dirs, up, offered, purge, forged>>
  BY DEF FinishRestore
<1>3. /\ call[t].batch \in Batches /\ call[t].kept \in SUBSET Entry
      /\ call[t].head \in Head
      /\ call[t].batch \notin forged => \A i \in Items : Stored(i, call[t].batch) => Names(call[t].kept, i)
  BY <1>1 DEF TypedCall, Holding, FinishRestore, Names
<1>4. CASE call[t].kept # {}
  <2>1. WriteManifest(call[t].head, call[t].kept) /\ End(t)
    BY <1>4 DEF FinishRestore
  <2>2. /\ DOMAIN call' = Threads
        /\ \A u \in Threads : u # t => call'[u] = call[u]
        /\ call'[t].kind = "none"
    BY <2>1, NoCallIsNone DEF End, Inv, Typed
  <2>3. /\ manifest' \in [Batches -> Manifest \cup {NoManifest, BadManifest}]
        /\ \A c \in Batches : manifest'[c] # NoManifest => c < now
        /\ \A c \in Batches : c # call[t].batch /\ c \notin forged => manifest'[c] = manifest[c]
        /\ DOMAIN dirAt' = Batches
        /\ \A c \in dirs : dirAt'[c] \in Nat /\ c <= dirAt'[c]
        /\ ListInv' /\ HeadInv'
    BY <1>1, <1>2, <1>3, <2>1, WriteManifestSound
  <2>4. \A u \in Threads : u # t /\ call[u].kind = "recycle" /\ call[u].batch \notin forged =>
           manifest'[call[u].batch] = NoManifest
    <3> SUFFICES ASSUME NEW u \in Threads, u # t, call[u].kind = "recycle", call[u].batch \notin forged
                 PROVE  manifest'[call[u].batch] = NoManifest
      OBVIOUS
    <3>1. TypedCall(call[u]) /\ Filling(u) /\ call[u].batch # call[t].batch
      BY <1>1 DEF Inv, Typed, Busy
    <3> QED BY <2>3, <3>1 DEF Filling, Own, TypedCall
  <2>5. Knowing(t)' /\ Filling(t)' /\ Holding(t)' /\ Removing(t)'
    BY <2>2 DEF Knowing, Busy, Filling, Holding, Removing
  <2> QED
    BY <1>2, <2>2, <2>3, <2>4, <2>5, CallStep
<1>5. CASE call[t].kept = {}
  <2>1. /\ call' = [call EXCEPT ![t].at = "removing", ![t].targets = Targets(call[t].batch)]
        /\ UNCHANGED <<manifest, dirAt>>
    BY <1>5 DEF FinishRestore
  <2>2. /\ DOMAIN call' = Threads
        /\ \A u \in Threads : u # t => call'[u] = call[u]
        /\ call'[t] = [call[t] EXCEPT !.at = "removing", !.targets = Targets(call[t].batch)]
    BY <2>1 DEF Inv, Typed
  <2>3. /\ DOMAIN call'[t] = Fields /\ call'[t].at = "removing"
        /\ call'[t].kind = call[t].kind /\ call'[t].batch = call[t].batch
        /\ call'[t].sources = call[t].sources /\ call'[t].entries = call[t].entries
        /\ call'[t].kept = call[t].kept /\ call'[t].head = call[t].head
        /\ call'[t].targets = Targets(call[t].batch)
    BY <1>1, <2>2 DEF TypedCall, Fields
  <2>4. TypedCall(call'[t])
    BY <1>1, <2>3 DEF TypedCall
  <2>5. Filling(t)'
    BY <1>1, <2>3 DEF Filling
  <2>6. Holding(t)'
    BY <1>2, <1>3, <1>5, <2>3 DEF Holding, Stored, Names
  <2>7. Removing(t)'
    BY <1>1, <1>3, <2>3, TargetsInBatch DEF Removing, Targets
  <2> QED
    BY <1>1, <1>2, <2>1, <2>2, <2>3, <2>4, <2>5, <2>6, <2>7, OwnStep
<1> QED BY <1>4, <1>5

\* A step by which a thread that was idle takes up a batch from the dialog, or
\* one that was at work is through.
LEMMA OfferedStep ==
    ASSUME Inv, NEW t \in Threads,
           UNCHANGED <<now, where, dirs, dirAt, manifest, up, offered, purge, forged>>,
           DOMAIN call' = Threads, \A u \in Threads : u # t => call'[u] = call[u],
           call'[t].kind # "none" =>
              /\ up = "serving" /\ TypedCall(call'[t]) /\ call'[t].batch \in offered /\ call'[t].kind # "recycle"
              /\ call'[t].batch < now,
           Knowing(t)', Holding(t)', Removing(t)'
    PROVE  Inv'
<1>1. /\ manifest' \in [Batches -> Manifest \cup {NoManifest, BadManifest}]
      /\ \A b \in Batches : manifest'[b] # NoManifest => b < now
      /\ DOMAIN dirAt' = Batches
      /\ \A b \in dirs : dirAt'[b] \in Nat /\ b <= dirAt'[b]
  BY DEF Inv, Typed, PastInv
<1>2. \A u \in Threads : u # t /\ call[u].kind = "recycle" /\ call[u].batch \notin forged =>
         manifest'[call[u].batch] = NoManifest /\ call[u].batch \notin offered
  BY DEF Inv, Filling, Own
<1>3. ListInv' /\ HeadInv'
  BY DEF Inv, ListInv, HeadInv, Vouches, Readable, Stored, Names
<1>4. Filling(t)'
  <2>1. CASE call'[t].kind = "none"
    BY <2>1 DEF Filling
  <2>2. CASE call'[t].kind # "none"
    BY <2>2 DEF Filling
  <2> QED BY <2>1, <2>2
<1> QED
  BY <1>1, <1>2, <1>3, <1>4, CallStep

LEMMA RestoreInv == ASSUME Inv, NEW t \in Threads, NEW b \in Batches, Restore(t, b) PROVE Inv'
<1> DEFINE c == [Fresh("restore", "moving", b) EXCEPT !.head = manifest[b].head, !.entries = manifest[b].entries]
<1>1. /\ up = "serving" /\ b \in offered /\ Readable(b)
      /\ UNCHANGED <<now, where, dirs, dirAt, manifest, up, offered, purge, forged>>
      /\ call' = [call EXCEPT ![t] = c]
  BY DEF Restore, Begin
<1>2. DOMAIN call' = Threads /\ (\A u \in Threads : u # t => call'[u] = call[u]) /\ call'[t] = c
  BY <1>1 DEF Inv, Typed
<1>3. manifest[b].entries \subseteq Entry /\ manifest[b].head \in Head /\ b < now /\ Vouches(manifest[b].head, b)
  BY <1>1 DEF Inv, Typed, PastInv, HeadInv, Readable, Manifest
<1>4. /\ DOMAIN c = Fields /\ c.kind = "restore" /\ c.at = "moving" /\ c.batch = b
      /\ c.sources = {} /\ c.kept = {} /\ c.entries = manifest[b].entries /\ c.head = manifest[b].head
  BY DEF Fresh, Fields
<1> HIDE DEF c
<1>5. TypedCall(c)
  BY <1>3, <1>4 DEF TypedCall
<1>6. b \notin forged => \A i \in Items : Stored(i, b) => Names(manifest[b].entries, i)
  BY <1>1 DEF Inv, ListInv
<1>7. Holding(t)'
  BY <1>1, <1>2, <1>4, <1>6 DEF Holding, Stored, Names
<1>8. Removing(t)' /\ Knowing(t)'
  BY <1>1, <1>2, <1>3, <1>4 DEF Removing, Knowing, Vouches
<1> QED
  BY <1>1, <1>2, <1>3, <1>4, <1>5, <1>7, <1>8, OfferedStep

LEMMA DeleteInv == ASSUME Inv, NEW t \in Threads, NEW b \in Batches, Delete(t, b) PROVE Inv'
<1> DEFINE c == [Fresh("delete", "removing", b) EXCEPT !.targets = Targets(b)]
<1>1. /\ up = "serving" /\ b \in offered /\ b \in dirs
      /\ UNCHANGED <<now, where, dirs, dirAt, manifest, up, offered, purge, forged>>
      /\ call' = [call EXCEPT ![t] = c]
  BY DEF Delete, Begin
<1>2. DOMAIN call' = Threads /\ (\A u \in Threads : u # t => call'[u] = call[u]) /\ call'[t] = c
  BY <1>1 DEF Inv, Typed
<1>3. /\ DOMAIN c = Fields /\ c.kind = "delete" /\ c.at = "removing" /\ c.batch = b
      /\ c.sources = {} /\ c.kept = {} /\ c.entries = {} /\ c.targets = Targets(b)
      /\ c.head = [id |-> b, created |-> b]
  BY DEF Fresh, Fields
<1> HIDE DEF c
<1>4. TypedCall(c) /\ b < now
  <2>1. c.head \in Head
    BY <1>3 DEF Head, Batches
  <2> QED BY <1>1, <1>3, <2>1 DEF TypedCall, Inv, PastInv
<1>5. Holding(t)' /\ Knowing(t)'
  BY <1>2, <1>3 DEF Holding, Knowing, Vouches
<1>6. Removing(t)'
  BY <1>2, <1>3, TargetsInBatch DEF Removing, Targets
<1> QED
  BY <1>1, <1>2, <1>3, <1>4, <1>5, <1>6, OfferedStep

LEMMA FinishRemoveInv == ASSUME Inv, NEW t \in Threads, FinishRemove(t) PROVE Inv'
<1>1. /\ UNCHANGED <<now, where, dirs, dirAt, manifest, up, offered, purge, forged>>
      /\ DOMAIN call' = Threads
      /\ \A u \in Threads : u # t => call'[u] = call[u]
      /\ call'[t].kind = "none"
  BY NoCallIsNone DEF FinishRemove, End, Inv, Typed
<1>2. Knowing(t)' /\ Holding(t)' /\ Removing(t)'
  BY <1>1 DEF Knowing, Busy, Holding, Removing
<1> QED
  BY <1>1, <1>2, OfferedStep

-----------------------------------------------------------------------------
(* Steps that move files, but none into the store.                         *)

\* What is in the store stays there or leaves it; the other parts are as in
\* CallStep.
LEMMA StoreShrinks ==
    ASSUME Inv, Typed', QuietInv', PurgeInv',
           \A i \in Items : where'[i] \in Payload => where'[i] = where[i],
           UNCHANGED <<now, offered, forged>>, dirs' \subseteq dirs,
           \A b \in dirs' : dirAt'[b] \in Nat /\ b <= dirAt'[b],
           \A b \in Batches : manifest'[b] \in {manifest[b], NoManifest},
           \A t \in Threads : call[t].kind = "recycle" /\ call[t].batch \notin forged => call[t].batch \in dirs',
           \A t \in Threads :
              /\ call'[t].kind = call[t].kind
              /\ Busy(t) => /\ call'[t].batch = call[t].batch /\ call'[t].head = call[t].head
                            /\ call'[t].kept = call[t].kept /\ call'[t].entries = call[t].entries,
           \A t \in Threads : call[t].kind = "recycle" => call'[t].at = call[t].at,
           \A t \in Threads : Holding(t)' /\ Removing(t)'
    PROVE  Inv'
<1>1. \A i \in Items : \A b : Stored(i, b)' => Stored(i, b)
  BY DEF Stored
<1>2. \A i \in Items : \A b, es : Stored(i, b)' => (Names(es, i)' <=> Names(es, i))
  BY DEF Stored, Names
<1>3. PastInv'
  BY DEF Inv, PastInv, Busy
<1>4. ListInv'
  <2> SUFFICES ASSUME NEW b \in Batches, Readable(b)', b \notin forged, NEW i \in Items, Stored(i, b)'
               PROVE  Names(manifest[b].entries, i)'
    BY DEF ListInv
  <2>1. manifest'[b] = manifest[b] /\ Readable(b)
    BY DEF Readable
  <2>2. Names(manifest[b].entries, i)
    BY <1>1, <2>1 DEF Inv, ListInv
  <2> QED BY <1>2, <2>1, <2>2 DEF Names
<1>5. ASSUME NEW t \in Threads PROVE Filling(t)'
  <2> SUFFICES ASSUME call'[t].kind = "recycle", call[t].batch \notin forged PROVE Filling(t)'
    <3>1. call'[t].kind = "recycle" => call'[t].at = "moving" /\ call'[t].batch = call[t].batch
      BY DEF Inv, Filling, Busy
    <3> QED BY <3>1 DEF Filling
  <2> DEFINE b == call[t].batch
  <2>1. Busy(t) /\ call[t].kind = "recycle" /\ Filling(t) /\ TypedCall(call[t])
    BY DEF Inv, Typed, Busy
  <2>2. /\ call'[t].at = "moving" /\ call'[t].batch = b /\ call'[t].kept = call[t].kept
        /\ b \in dirs' /\ b \notin offered' /\ b \in Batches
    BY <2>1 DEF Filling, Own, TypedCall
  <2>3. manifest'[b] = NoManifest
    BY <2>1, <2>2 DEF Filling, Own
  <2>4. \A u \in Threads : u # t /\ Busy(u)' => call'[u].batch # b
    BY <2>1 DEF Filling, Own, Busy
  <2>5. \A i \in Items : Stored(i, b)' => Names(call[t].kept, i)'
    BY <1>1, <1>2, <2>1 DEF Filling, Own, Names
  <2> QED BY <2>2, <2>3, <2>4, <2>5 DEF Filling, Own, Stored, Names
<1>6. HeadInv'
  BY DEF Inv, HeadInv, Vouches, Readable
<1>7. \A t \in Threads : Knowing(t)'
  BY DEF Inv, Knowing, Vouches, Busy
<1> QED BY <1>3, <1>4, <1>5, <1>6, <1>7 DEF Inv

\* A step that moves files but leaves the threads alone.
LEMMA WhereType ==
    ASSUME Inv, forged' = forged, DOMAIN where' = Items,
           \A i \in Items : where'[i] = where[i] \/ IsPlace(where'[i]) \/ where'[i] \in Fates
    PROVE  /\ \A i \in Items : where'[i] \in Payload => where'[i] = where[i]
           /\ \A i \in Items : where'[i] \in Payload \/ IsPlace(where'[i]) \/ where'[i] \in Fates
           /\ \A t \in Threads : call'[t] = call[t] => Holding(t)'
<1>1. \A i \in Items : where'[i] \in Payload => where'[i] = where[i]
  BY PlacesApart, FatesApart
<1>2. \A i \in Items : where'[i] \in Payload \/ IsPlace(where'[i]) \/ where'[i] \in Fates
  BY DEF Inv, Typed
<1>3. ASSUME NEW t \in Threads, call'[t] = call[t] PROVE Holding(t)'
  <2>1. Holding(t)
    BY DEF Inv
  <2> QED BY <1>1, <1>3, <2>1 DEF Holding, Stored, Names
<1> QED BY <1>1, <1>2, <1>3

LEMMA UserSavesInv == ASSUME Inv, NEW i \in Items, UserSaves(i) PROVE Inv'
<1>1. /\ where' = [where EXCEPT ![i] = [path |-> Home[i], n |-> 0]]
      /\ UNCHANGED <<now, dirs, dirAt, manifest, call, up, offered, purge, forged>>
  BY DEF UserSaves
<1>2. IsPlace([path |-> Home[i], n |-> 0])
  BY DEF IsPlace
<1>3. DOMAIN where' = Items /\ \A j \in Items : where'[j] = where[j] \/ IsPlace(where'[j])
  BY <1>1, <1>2 DEF Inv, Typed
<1>4. /\ \A j \in Items : where'[j] \in Payload => where'[j] = where[j]
      /\ \A j \in Items : where'[j] \in Payload \/ IsPlace(where'[j]) \/ where'[j] \in Fates
      /\ \A t \in Threads : Holding(t)'
  BY <1>1, <1>3, WhereType
<1>5. Typed'
  BY <1>1, <1>3, <1>4 DEF Inv, Typed, Busy
<1>6. QuietInv' /\ PurgeInv'
  BY <1>1 DEF Inv, QuietInv, PurgeInv, Busy, Expired
<1>7. \A t \in Threads : Removing(t)'
  BY <1>1 DEF Inv, Removing
<1>8. /\ \A b \in dirs' : dirAt'[b] \in Nat /\ b <= dirAt'[b]
      /\ \A t \in Threads : call[t].kind = "recycle" /\ call[t].batch \notin forged => call[t].batch \in dirs'
  BY <1>1 DEF Inv, PastInv, Filling, Own
<1> QED BY <1>1, <1>4, <1>5, <1>6, <1>7, <1>8, StoreShrinks

LEMMA LandEntryInv == ASSUME Inv, NEW t \in Threads, LandEntry(t) PROVE Inv'
<1> DEFINE e == call[t].aim.entry
           d == call[t].aim.dest
<1>1. /\ where' = [i \in Items |-> IF i = e.item THEN d ELSE IF where[i] = d THEN Clobbered ELSE where[i]]
      /\ call' = [call EXCEPT ![t].at = "moving", ![t].aim = Nothing]
      /\ UNCHANGED <<now, dirs, dirAt, manifest, up, offered, purge, forged>>
  BY DEF LandEntry
<1>2. /\ Busy(t) /\ TypedCall(call[t]) /\ call[t].kind = "restore" /\ call[t].at = "landing" /\ Holding(t)
      /\ IsPlace(d)
  BY AtWork DEF LandEntry, Doing, Busy, Inv, TypedCall
<1>3. /\ DOMAIN call' = Threads
      /\ \A u \in Threads : u # t => call'[u] = call[u]
      /\ call'[t] = [call[t] EXCEPT !.at = "moving", !.aim = Nothing]
  BY <1>1 DEF Inv, Typed
<1>4. /\ DOMAIN call'[t] = Fields /\ call'[t].at = "moving"
      /\ call'[t].kind = call[t].kind /\ call'[t].batch = call[t].batch
      /\ call'[t].sources = call[t].sources /\ call'[t].entries = call[t].entries
      /\ call'[t].kept = call[t].kept /\ call'[t].head = call[t].head
  BY <1>2, <1>3 DEF TypedCall, Fields
<1> HIDE DEF d
<1>5. DOMAIN where' = Items /\ \A i \in Items : where'[i] = where[i] \/ IsPlace(where'[i]) \/ where'[i] \in Fates
  BY <1>1, <1>2 DEF Fates
<1>6. /\ \A i \in Items : where'[i] \in Payload => where'[i] = where[i]
      /\ \A i \in Items : where'[i] \in Payload \/ IsPlace(where'[i]) \/ where'[i] \in Fates
      /\ \A u \in Threads : call'[u] = call[u] => Holding(u)'
  BY <1>1, <1>5, WhereType
<1>7. TypedCall(call'[t])
  BY <1>2, <1>4 DEF TypedCall
<1>8. Typed'
  BY <1>1, <1>3, <1>5, <1>6, <1>7 DEF Inv, Typed, Busy
<1>9. QuietInv' /\ PurgeInv'
  BY <1>1, <1>2, <1>3, <1>4 DEF Inv, QuietInv, PurgeInv, Busy, Expired
<1>10. Holding(t)'
  <2>1. \A i \in Items : Stored(i, call[t].batch)' => Stored(i, call[t].batch) /\ i # e.item
    BY <1>1, <1>2, <1>4, <1>6, PlacesApart DEF Stored
  <2>2. \A i \in Items : \A es : Stored(i, call[t].batch)' => (Names(es, i)' <=> Names(es, i))
    BY <1>4, <1>6 DEF Stored, Names
  <2>3. \A i \in Items : Names({e}, i) => i = e.item
    BY DEF Names
  <2>4. call[t].batch \notin forged => \A i \in Items : Stored(i, call[t].batch)' => Names(call[t].entries \cup call[t].kept, i)
    BY <1>2, <2>1, <2>3 DEF Holding
  <2>5. CASE call[t].batch \in forged
    BY <1>1, <1>4, <2>5 DEF Holding
  <2>6. CASE call[t].batch \notin forged
    <3>1. \A i \in Items : Stored(i, call[t].batch)' => Names(call[t].entries \cup call[t].kept, i)
      BY <2>4, <2>6
    <3> QED BY <1>4, <2>2, <3>1 DEF Holding, Names, Stored
  <2> QED BY <2>5, <2>6
<1>11. \A u \in Threads : Holding(u)' /\ Removing(u)'
  <2>1. Removing(t)'
    BY <1>2, <1>4 DEF Removing
  <2>2. \A u \in Threads : u # t => Removing(u)'
    BY <1>3 DEF Inv, Removing
  <2> QED BY <1>3, <1>6, <1>10, <2>1, <2>2
<1>12. /\ \A b \in dirs' : dirAt'[b] \in Nat /\ b <= dirAt'[b]
       /\ \A u \in Threads : call[u].kind = "recycle" /\ call[u].batch \notin forged => call[u].batch \in dirs'
  BY <1>1 DEF Inv, PastInv, Filling, Own
<1>13. \A u \in Threads :
         /\ call'[u].kind = call[u].kind
         /\ Busy(u) => /\ call'[u].batch = call[u].batch /\ call'[u].head = call[u].head
                       /\ call'[u].kept = call[u].kept /\ call'[u].entries = call[u].entries
         /\ call[u].kind = "recycle" => call'[u].at = call[u].at
  BY <1>2, <1>3, <1>4
<1> QED BY <1>1, <1>6, <1>8, <1>9, <1>11, <1>12, <1>13, StoreShrinks

LEMMA DirsPast ==
    ASSUME Inv
    PROVE  now \in Nat /\ \A b \in dirs : b \in Nat /\ b < now /\ dirAt[b] \in Nat /\ b <= dirAt[b]
<1>1. now \in Nat /\ dirs \subseteq Batches
  BY DEF Inv, Typed
<1>2. \A b \in dirs : b < now /\ dirAt[b] \in Nat /\ b <= dirAt[b]
  BY DEF Inv, PastInv
<1> QED BY <1>1, <1>2 DEF Batches

LEMMA RemoveDirSound ==
    ASSUME Inv, NEW loc \in Payload, RemoveDir(loc) \/ RemoveDirPartly(loc)
    PROVE  /\ DOMAIN where' = Items
           /\ \A i \in Items : where'[i] = where[i] \/ (where[i] = loc /\ where'[i] = Destroyed)
           /\ dirs' \subseteq dirs /\ dirs \ {loc.batch} \subseteq dirs'
           /\ DOMAIN dirAt' = Batches
           /\ \A b \in dirs' : dirAt'[b] = dirAt[b] \/ (b = loc.batch /\ dirAt'[b] = now)
           /\ manifest' \in [Batches -> Manifest \cup {NoManifest, BadManifest}]
           /\ \A b \in Batches : manifest'[b] \in {manifest[b], NoManifest}
           /\ \A b \in Batches : b # loc.batch => manifest'[b] = manifest[b]
<1>1. /\ DOMAIN where = Items /\ dirs \subseteq Batches /\ DOMAIN dirAt = Batches
      /\ manifest \in [Batches -> Manifest \cup {NoManifest, BadManifest}]
  BY DEF Inv, Typed
<1>2. CASE RemoveDir(loc)
  <2>1. where' = [i \in Items |-> IF where[i] = loc THEN Destroyed ELSE where[i]]
    BY <1>2 DEF RemoveDir
  <2>2. \/ /\ dirs' = dirs \ {loc.batch}
           /\ manifest' = [manifest EXCEPT ![loc.batch] = NoManifest]
           /\ dirAt' = [dirAt EXCEPT ![loc.batch] = 0]
        \/ UNCHANGED <<dirs, manifest, dirAt>>
    BY <1>2 DEF RemoveDir
  <2> QED BY <1>1, <2>1, <2>2
<1>3. CASE RemoveDirPartly(loc)
  <2>1. PICK gone \in SUBSET {i \in Items : where[i] = loc} :
           where' = [i \in Items |-> IF i \in gone THEN Destroyed ELSE where[i]]
    BY <1>3 DEF RemoveDirPartly
  <2>2. /\ dirs' = dirs
        /\ manifest' = manifest \/ manifest' = [manifest EXCEPT ![loc.batch] = NoManifest]
        /\ dirAt' = dirAt \/ dirAt' = [dirAt EXCEPT ![loc.batch] = now]
    BY <1>3 DEF RemoveDirPartly
  <2> QED BY <1>1, <2>1, <2>2
<1> QED BY <1>2, <1>3

LEMMA RemoveTargetInv == ASSUME Inv, NEW t \in Threads, RemoveTarget(t) PROVE Inv'
<1>1. PICK loc \in call[t].targets :
        /\ RemoveDir(loc) \/ RemoveDirPartly(loc)
        /\ call' = [call EXCEPT ![t].targets = @ \ {loc}]
  BY DEF RemoveTarget
<1>2. /\ Busy(t) /\ TypedCall(call[t]) /\ call[t].kind \in {"restore", "delete"} /\ call[t].at = "removing"
      /\ up = "serving"
      /\ \A u \in Threads : u # t /\ call[u].kind = "recycle" /\ call[u].batch \notin forged =>
            call[u].batch # call[t].batch
      /\ Holding(t) /\ Removing(t)
  BY AtWork DEF RemoveTarget, Doing, Busy, Inv
<1>3. loc \in Payload /\ loc.batch = call[t].batch /\ loc.batch \in Batches
  BY <1>1, <1>2 DEF Removing, TypedCall
<1>4. /\ DOMAIN where' = Items
      /\ \A i \in Items : where'[i] = where[i] \/ (where[i] = loc /\ where'[i] = Destroyed)
      /\ dirs' \subseteq dirs /\ dirs \ {loc.batch} \subseteq dirs'
      /\ DOMAIN dirAt' = Batches
      /\ \A b \in dirs' : dirAt'[b] = dirAt[b] \/ (b = loc.batch /\ dirAt'[b] = now)
      /\ manifest' \in [Batches -> Manifest \cup {NoManifest, BadManifest}]
      /\ \A b \in Batches : manifest'[b] \in {manifest[b], NoManifest}
  BY <1>1, <1>3, RemoveDirSound
<1>5. UNCHANGED <<now, up, offered, purge, forged>>
  BY DEF RemoveTarget
<1>6. /\ DOMAIN call' = Threads
      /\ \A u \in Threads : u # t => call'[u] = call[u]
      /\ call'[t] = [call[t] EXCEPT !.targets = @ \ {loc}]
  BY <1>1 DEF Inv, Typed
<1>7. /\ DOMAIN call'[t] = Fields /\ call'[t].at = call[t].at
      /\ call'[t].kind = call[t].kind /\ call'[t].batch = call[t].batch
      /\ call'[t].sources = call[t].sources /\ call'[t].entries = call[t].entries
      /\ call'[t].head = call[t].head
      /\ call'[t].kept = call[t].kept /\ call'[t].targets = call[t].targets \ {loc}
  BY <1>2, <1>6 DEF TypedCall, Fields
<1>8. /\ \A i \in Items : where'[i] \in Payload => where'[i] = where[i]
      /\ \A i \in Items : where'[i] \in Payload \/ IsPlace(where'[i]) \/ where'[i] \in Fates
      /\ \A u \in Threads : call'[u] = call[u] => Holding(u)'
  BY <1>4, <1>5, WhereType DEF Fates
<1>9. TypedCall(call'[t])
  BY <1>2, <1>7 DEF TypedCall
<1>10. Typed'
  BY <1>4, <1>5, <1>6, <1>8, <1>9 DEF Inv, Typed, Busy
<1>11. QuietInv' /\ PurgeInv'
  BY <1>2, <1>5, <1>6, <1>7 DEF Inv, QuietInv, PurgeInv, Busy, Expired
<1>12. Holding(t)'
  BY <1>2, <1>5, <1>7, <1>8 DEF Holding, Stored, Names
<1>13. \A u \in Threads : Holding(u)' /\ Removing(u)'
  <2>1. Removing(t)'
    BY <1>2, <1>7 DEF Removing
  <2>2. \A u \in Threads : u # t => Removing(u)'
    BY <1>6 DEF Inv, Removing
  <2> QED BY <1>6, <1>8, <1>12, <2>1, <2>2
<1>14. \A b \in dirs' : dirAt'[b] \in Nat /\ b <= dirAt'[b]
  <2>1. \A b \in dirs : b \in Nat /\ now \in Nat /\ b < now /\ dirAt[b] \in Nat /\ b <= dirAt[b]
    BY DirsPast
  <2> QED BY <1>4, <2>1
<1>15. \A u \in Threads : call[u].kind = "recycle" /\ call[u].batch \notin forged => call[u].batch \in dirs'
  <2>1. \A u \in Threads : call[u].kind = "recycle" /\ call[u].batch \notin forged =>
           call[u].batch \in dirs /\ call[u].batch # loc.batch
    BY <1>2, <1>3 DEF Inv, Filling, Own
  <2> QED BY <1>4, <2>1
<1>16. \A u \in Threads :
         /\ call'[u].kind = call[u].kind
         /\ Busy(u) => /\ call'[u].batch = call[u].batch /\ call'[u].head = call[u].head
                       /\ call'[u].kept = call[u].kept /\ call'[u].entries = call[u].entries
         /\ call[u].kind = "recycle" => call'[u].at = call[u].at
  BY <1>2, <1>6, <1>7
<1> QED BY <1>4, <1>5, <1>8, <1>10, <1>11, <1>13, <1>14, <1>15, <1>16, StoreShrinks

LEMMA PurgeTargetInv == ASSUME Inv, PurgeTarget PROVE Inv'
<1>1. PICK loc \in purge : (RemoveDir(loc) \/ RemoveDirPartly(loc)) /\ purge' = purge \ {loc}
  BY DEF PurgeTarget
<1>2. loc \in Payload
  BY <1>1 DEF Inv, PurgeInv
<1>3. /\ DOMAIN where' = Items
      /\ \A i \in Items : where'[i] = where[i] \/ (where[i] = loc /\ where'[i] = Destroyed)
      /\ dirs' \subseteq dirs
      /\ DOMAIN dirAt' = Batches
      /\ \A b \in dirs' : dirAt'[b] = dirAt[b] \/ (b = loc.batch /\ dirAt'[b] = now)
      /\ manifest' \in [Batches -> Manifest \cup {NoManifest, BadManifest}]
      /\ \A b \in Batches : manifest'[b] \in {manifest[b], NoManifest}
  BY <1>1, <1>2, RemoveDirSound
<1>4. UNCHANGED <<now, call, up, offered, forged>> /\ up = "purging"
  BY DEF PurgeTarget
<1>5. /\ \A i \in Items : where'[i] \in Payload => where'[i] = where[i]
      /\ \A i \in Items : where'[i] \in Payload \/ IsPlace(where'[i]) \/ where'[i] \in Fates
      /\ \A u \in Threads : Holding(u)'
  BY <1>3, <1>4, WhereType DEF Fates
<1>6. Typed'
  BY <1>3, <1>4, <1>5 DEF Inv, Typed, Busy
<1>7. QuietInv' /\ PurgeInv'
  BY <1>1, <1>4 DEF Inv, QuietInv, PurgeInv, Busy, Expired
<1>8. \A u \in Threads : Removing(u)'
  BY <1>4 DEF Inv, Removing
<1>9. \A b \in dirs' : dirAt'[b] \in Nat /\ b <= dirAt'[b]
  <2>1. \A b \in dirs : b \in Nat /\ now \in Nat /\ b < now /\ dirAt[b] \in Nat /\ b <= dirAt[b]
    BY DirsPast
  <2> QED BY <1>3, <2>1
<1>10. \A u \in Threads : ~Busy(u)
  BY <1>4 DEF Inv, QuietInv
<1>11. \A u \in Threads : call[u].kind = "recycle" => call[u].batch \in dirs'
  BY <1>10 DEF Busy
<1> QED BY <1>3, <1>4, <1>5, <1>6, <1>7, <1>8, <1>9, <1>11, StoreShrinks

-----------------------------------------------------------------------------
(* Steps that fill a batch.                                                *)

LEMMA RecycleInv == ASSUME Inv, NEW t \in Threads, Recycle(t) PROVE Inv'
<1>1. PICK S \in SUBSET Outside :
         call' = [call EXCEPT ![t] = [Fresh("recycle", "moving", now) EXCEPT !.sources = S]]
  <2>1. PICK S \in SUBSET {where[i] : i \in {j \in Items : where[j] \in Outside}} :
           call' = [call EXCEPT ![t] = [Fresh("recycle", "moving", now) EXCEPT !.sources = S]]
    BY DEF Recycle, Begin
  <2>2. S \in SUBSET Outside
    OBVIOUS
  <2> QED BY <2>1, <2>2
<1> DEFINE c == [Fresh("recycle", "moving", now) EXCEPT !.sources = S]
<1>2. /\ up = "serving" /\ ~Busy(t) /\ now' = now + 1
      /\ dirs' = dirs \cup {now} /\ dirAt' = [dirAt EXCEPT ![now] = now]
      /\ UNCHANGED <<where, manifest, up, offered, purge, forged>>
  BY DEF Recycle, Idle, Busy
<1>3. now \in Nat /\ now \in Batches
  BY RecycleStoreAssumption DEF Inv, Typed, Recycle, Batches
<1>4. DOMAIN call' = Threads /\ (\A u \in Threads : u # t => call'[u] = call[u]) /\ call'[t] = c
  BY <1>1 DEF Inv, Typed
<1>5. /\ DOMAIN c = Fields /\ c.kind = "recycle" /\ c.at = "moving" /\ c.batch = now
      /\ c.sources = S /\ c.kept = {} /\ c.entries = {}
      /\ c.head = [id |-> now, created |-> now]
  BY DEF Fresh, Fields
<1> HIDE DEF c
<1>6. TypedCall(c)
  <2>1. c.head \in Head
    BY <1>3, <1>5 DEF Head, Batches
  <2> QED BY <1>3, <1>5, <2>1 DEF TypedCall
<1>7. Typed'
  BY <1>2, <1>3, <1>4, <1>6 DEF Inv, Typed, Busy
<1>8. QuietInv'
  BY <1>2 DEF QuietInv
<1>9. PurgeInv'
  BY <1>2, <1>3, RecycleStoreAssumption DEF Inv, PurgeInv, Expired, Payload, Batches
<1>10. /\ \A i \in Items : where[i] \in Payload => where[i].batch < now
       /\ \A b \in Batches : manifest[b] # NoManifest => b < now
       /\ \A b \in offered : b \notin forged => b < now
       /\ \A u \in Threads : Busy(u) => call[u].batch < now
       /\ \A b \in dirs : b < now /\ dirAt[b] \in Nat /\ b <= dirAt[b]
  BY DEF Inv, PastInv
<1>11. PastInv'
  <2>1. /\ \A i \in Items : where'[i] \in Payload => where'[i].batch < now'
        /\ \A b \in Batches : manifest'[b] # NoManifest => b < now'
    BY <1>2, <1>3, <1>10 DEF Batches, Payload
  <2>2. \A b \in offered : b \notin forged => b < now'
    <3>1. \A b \in offered : b \in Nat
      BY DEF Inv, Typed, Batches
    <3> QED BY <1>2, <1>3, <1>10, <3>1
  <2>3. \A u \in Threads : Busy(u)' => call'[u].batch < now'
    <3>1. \A u \in Threads : Busy(u) => call[u].batch \in Nat
      BY DEF Inv, Typed, TypedCall, Batches
    <3> QED BY <1>2, <1>3, <1>4, <1>5, <1>10, <3>1 DEF Busy
  <2>4. \A b \in dirs' : b < now' /\ dirAt'[b] \in Nat /\ b <= dirAt'[b]
    <3>1. \A b \in dirs' : b \in Nat /\ b < now + 1 /\ (b = now \/ b \in dirs)
      <4>1. dirs \subseteq Batches /\ \A b \in Batches : b \in Nat
        BY DEF Inv, Typed, Batches
      <4>2. dirs' = dirs \cup {now} /\ now \in Nat /\ \A b \in dirs : b < now
        BY <1>2, <1>3, <1>10
      <4> TAKE b \in dirs'
      <4>3. CASE b = now
        BY <4>2, <4>3
      <4>4. CASE b \in dirs
        BY <4>1, <4>2, <4>4
      <4> QED BY <4>2, <4>3, <4>4
    <3>2. \A b \in dirs' : dirAt'[b] = IF b = now THEN now ELSE dirAt[b]
      BY <1>2, <1>3 DEF Inv, Typed
    <3> QED BY <1>2, <1>3, <1>10, <3>1, <3>2
  <2> QED BY <1>2, <2>1, <2>2, <2>3, <2>4 DEF PastInv
<1>12. ListInv' /\ HeadInv'
  BY <1>2 DEF Inv, ListInv, HeadInv, Vouches, Readable, Stored, Names
<1>13. Filling(t)'
  <2>1. \A i \in Items : ~Stored(i, now)
    BY <1>3, <1>10 DEF Stored
  <2>2. now \in dirs' /\ (now \notin forged => now \notin offered) /\ manifest[now] = NoManifest
    BY <1>2, <1>3, <1>10
  <2>3. \A u \in Threads : u # t /\ Busy(u)' => call'[u].batch # now
    BY <1>3, <1>4, <1>10 DEF Busy
  <2> QED BY <1>2, <1>4, <1>5, <2>1, <2>2, <2>3 DEF Filling, Own, Stored
<1>14. ASSUME NEW u \in Threads, u # t PROVE Filling(u)'
  <2>1. Filling(u) /\ call'[u] = call[u] /\ (Busy(u) => call[u].batch # now)
    BY <1>3, <1>4, <1>10, <1>14 DEF Inv
  <2>2. \A v \in Threads : v # t => call'[v] = call[v]
    BY <1>4
  <2>3. CASE call[u].kind = "recycle" /\ call[u].batch \notin forged
    BY <1>2, <1>4, <1>5, <2>1, <2>2, <2>3 DEF Filling, Own, Busy, Stored, Names
  <2>4. CASE ~(call[u].kind = "recycle" /\ call[u].batch \notin forged)
    BY <1>2, <2>1, <2>4 DEF Filling
  <2> QED BY <2>3, <2>4
<1>15. \A u \in Threads : Knowing(u)' /\ Holding(u)' /\ Removing(u)'
  <2>1. Knowing(t)' /\ Holding(t)' /\ Removing(t)'
    BY <1>4, <1>5 DEF Knowing, Vouches, Holding, Removing
  <2>2. \A u \in Threads : u # t => Knowing(u)' /\ Holding(u)' /\ Removing(u)'
    BY <1>2, <1>4 DEF Inv, Knowing, Vouches, Busy, Holding, Removing, Stored, Names
  <2> QED BY <2>1, <2>2
<1> QED BY <1>7, <1>8, <1>9, <1>11, <1>12, <1>13, <1>14, <1>15 DEF Inv

LEMMA StoreSourceInv == ASSUME Inv, NEW t \in Threads, StoreSource(t) PROVE Inv'
<1>1. /\ Busy(t) /\ TypedCall(call[t]) /\ call[t].kind = "recycle" /\ call[t].at = "moving"
      /\ Filling(t) /\ up = "serving"
  BY AtWork DEF StoreSource, Doing, Busy, Inv
<1> DEFINE b == call[t].batch
<1>2. PICK src \in call[t].sources, i \in Items :
         LET dest == [batch |-> b, vol |-> Volume[src.path]] IN
         /\ where' = [where EXCEPT ![i] = dest]
         /\ call' = [call EXCEPT ![t].sources = @ \ {src},
                                 ![t].kept = @ \cup {[orig |-> src, item |-> i, loc |-> dest]}]
         /\ dirs' = IF dest.vol = Central THEN dirs \cup {dest.batch} ELSE dirs
         /\ dirAt' \in {dirAt, [dirAt EXCEPT ![dest.batch] = now]}
         /\ dest.vol = Central /\ dest.batch \notin dirs => dirAt' = [dirAt EXCEPT ![dest.batch] = now]
  BY DEF StoreSource
<1> DEFINE dest == [batch |-> b, vol |-> Volume[src.path]]
           e    == [orig |-> src, item |-> i, loc |-> dest]
<1>3. UNCHANGED <<now, manifest, up, offered, purge, forged>>
  BY DEF StoreSource
<1>4. b \in Batches /\ (b \notin forged => b \in dirs /\ b \notin offered /\ manifest[b] = NoManifest)
  BY <1>1 DEF TypedCall, Filling, Own
<1>5. dest \in Payload /\ dest.batch = b
  BY <1>1, <1>2, <1>4, RecycleStoreAssumption DEF TypedCall, Outside, Payload
<1>6. e \in Entry /\ e.item = i /\ e.loc = dest
  BY <1>1, <1>2, <1>5 DEF TypedCall, Entry, Locs
<1>7. /\ dirs \subseteq dirs' /\ dirs' \subseteq dirs \cup {b} /\ (b \notin forged => dirs' = dirs)
      /\ dirAt' \in {dirAt, [dirAt EXCEPT ![b] = now]}
      /\ b \notin dirs /\ b \in dirs' => dirAt' = [dirAt EXCEPT ![b] = now]
  BY <1>2, <1>4
<1>8. /\ DOMAIN call' = Threads
      /\ \A u \in Threads : u # t => call'[u] = call[u]
      /\ call'[t] = [call[t] EXCEPT !.sources = @ \ {src}, !.kept = @ \cup {e}]
  BY <1>2 DEF Inv, Typed
<1>9. /\ DOMAIN where' = Items /\ where'[i] = dest
      /\ \A j \in Items : j # i => where'[j] = where[j]
  BY <1>2 DEF Inv, Typed
<1> HIDE DEF dest, e
<1>10. /\ DOMAIN call'[t] = Fields /\ call'[t].at = "moving"
       /\ call'[t].kind = "recycle" /\ call'[t].batch = b
       /\ call'[t].sources = call[t].sources \ {src} /\ call'[t].entries = call[t].entries
       /\ call'[t].kept = call[t].kept \cup {e} /\ call'[t].head = call[t].head
  BY <1>1, <1>8 DEF TypedCall, Fields
<1>11. TypedCall(call'[t])
  BY <1>1, <1>4, <1>6, <1>10 DEF TypedCall
<1>12. Typed'
  <2>1. \A j \in Items : where'[j] \in Payload \/ IsPlace(where'[j]) \/ where'[j] \in Fates
    BY <1>5, <1>9 DEF Inv, Typed
  <2>2. \A u \in Threads : Busy(u)' => TypedCall(call'[u])
    BY <1>8, <1>11 DEF Inv, Typed, Busy
  <2> QED BY <1>3, <1>4, <1>7, <1>8, <1>9, <2>1, <2>2 DEF Inv, Typed
<1>13. QuietInv' /\ PurgeInv'
  BY <1>1, <1>3 DEF Inv, QuietInv, PurgeInv, Expired
<1>14. PastInv'
  <2>1. b < now
    BY <1>1 DEF Inv, PastInv
  <2>2. \A c \in dirs' : c < now /\ dirAt'[c] \in Nat /\ c <= dirAt'[c]
    <3>1. \A c \in dirs : c \in Nat /\ c < now /\ dirAt[c] \in Nat /\ c <= dirAt[c]
      BY DirsPast
    <3>2. now \in Nat /\ DOMAIN dirAt = Batches /\ dirs \subseteq Batches
      BY DEF Inv, Typed
    <3>3. \A c \in dirs' : (c \in dirs /\ dirAt'[c] = dirAt[c]) \/ (c = b /\ dirAt'[c] = now)
      BY <1>4, <1>7, <3>2
    <3>4. b \in Nat
      BY <1>4 DEF Batches
    <3> QED BY <2>1, <3>1, <3>2, <3>3, <3>4
  <2>3. \A j \in Items : where'[j] \in Payload => where'[j].batch < now
    BY <1>5, <1>9, <2>1 DEF Inv, PastInv
  <2>4. \A u \in Threads : Busy(u)' => call'[u].batch < now
    BY <1>8, <1>10, <2>1 DEF Inv, PastInv, Busy
  <2> QED BY <1>3, <2>2, <2>3, <2>4 DEF Inv, PastInv
\* Elsewhere than in batch b nothing has come.
<1>15. \A j \in Items : \A c : c # b => /\ Stored(j, c)' => Stored(j, c)
                                        /\ Stored(j, c)' => where'[j] = where[j]
  BY <1>5, <1>9 DEF Stored
<1>16. ListInv'
  <2> SUFFICES ASSUME NEW c \in Batches, Readable(c)', c \notin forged, NEW j \in Items, Stored(j, c)'
               PROVE  Names(manifest[c].entries, j)'
    BY <1>3 DEF ListInv
  <2>1. Readable(c) /\ c # b
    BY <1>3, <1>4 DEF Readable
  <2> QED BY <1>3, <1>15, <2>1 DEF Inv, ListInv, Names
<1>17. Filling(t)'
  <2> SUFFICES ASSUME b \notin forged PROVE Filling(t)'
    BY <1>3, <1>10 DEF Filling
  <2>1. \A j \in Items : where'[j] \in Payload /\ where'[j].batch = b =>
           \E x \in call'[t].kept : x.item = j /\ x.loc = where'[j]
    <3> SUFFICES ASSUME NEW j \in Items, where'[j] \in Payload, where'[j].batch = b
                 PROVE  \E x \in call'[t].kept : x.item = j /\ x.loc = where'[j]
      OBVIOUS
    <3>1. CASE j = i
      BY <1>6, <1>9, <1>10, <3>1
    <3>2. CASE j # i
      BY <1>1, <1>9, <1>10, <3>2 DEF Filling, Own, Stored, Names
    <3> QED BY <3>1, <3>2
  <2>2. \A u \in Threads : u # t /\ Busy(u)' => call'[u].batch # b
    BY <1>1, <1>8 DEF Filling, Own, Busy
  <2> QED BY <1>3, <1>4, <1>7, <1>10, <2>1, <2>2 DEF Filling, Own, Stored, Names
<1>18. ASSUME NEW u \in Threads, u # t PROVE (Knowing(u) /\ Filling(u) /\ Holding(u) /\ Removing(u))'
  <2>1. /\ Filling(u) /\ Holding(u) /\ Removing(u) /\ call'[u] = call[u]
        /\ Knowing(u) /\ (Busy(u) /\ call[u].batch \notin forged => call[u].batch # b)
    BY <1>1, <1>8, <1>18 DEF Inv, Filling, Own
  <2>2. Filling(u)'
    <3> SUFFICES ASSUME call[u].kind = "recycle", call[u].batch \notin forged PROVE Filling(u)'
      BY <1>3, <2>1 DEF Filling
    <3>1. \A j \in Items : Stored(j, call[u].batch)' => Names(call[u].kept, j)'
      BY <1>15, <2>1 DEF Filling, Own, Busy, Names
    <3>2. \A v \in Threads : v # u /\ Busy(v)' => call'[v].batch # call[u].batch
      BY <1>1, <1>8, <1>10, <2>1 DEF Filling, Own, Busy
    <3> QED BY <1>3, <1>7, <2>1, <3>1, <3>2 DEF Filling, Own, Stored, Names
  <2>3. Holding(u)'
    <3> SUFFICES ASSUME call[u].kind = "restore", call[u].batch \notin forged, NEW j \in Items, Stored(j, call[u].batch)'
                 PROVE  \/ Names(call[u].entries \cup call[u].kept, j)' /\ call[u].at \in {"moving", "landing"}
                        \/ call[u].at = "landing" /\ Names({call[u].aim.entry}, j)'
      BY <1>3, <2>1 DEF Holding, Stored, Names
    <3>1. Stored(j, call[u].batch) /\ where'[j] = where[j]
      BY <1>15, <2>1 DEF Busy
    <3> QED BY <2>1, <3>1 DEF Holding, Names
  <2>4. Removing(u)'
    BY <2>1 DEF Removing
  <2>5. Knowing(u)'
    BY <1>3, <2>1 DEF Knowing, Vouches, Busy
  <2> QED BY <2>2, <2>3, <2>4, <2>5
<1>19. Knowing(t)' /\ Holding(t)' /\ Removing(t)'
  BY <1>1, <1>3, <1>10 DEF Inv, Knowing, Vouches, Busy, Holding, Removing
<1>20. HeadInv'
  BY <1>3 DEF Inv, HeadInv, Vouches, Readable
<1> QED BY <1>12, <1>13, <1>14, <1>16, <1>17, <1>18, <1>19, <1>20 DEF Inv

-----------------------------------------------------------------------------
(* The environment, and the process as a whole.                            *)

\* A step that moves no file and leaves the batches and the threads alone.
LEMMA OutsideStep ==
    ASSUME Inv, UNCHANGED <<where, dirs, dirAt, manifest, call, forged>>,
           now' \in Nat, now <= now', offered' \subseteq Batches, \A b \in offered' : b \notin forged => b < now',
           \A t \in Threads : call[t].kind = "recycle" /\ call[t].batch \notin forged => call[t].batch \notin offered',
           QuietInv', PurgeInv'
    PROVE  Inv'
<1>1. Typed'
  BY DEF Inv, Typed, Busy
<1>2. PastInv'
  <2>1. now \in Nat /\ \A b \in Batches : b \in Nat
    BY DEF Inv, Typed, Batches
  <2>2. \A i \in Items : where'[i] \in Payload => where'[i].batch < now'
    BY <2>1 DEF Inv, PastInv, Payload
  <2>3. \A b \in Batches : manifest'[b] # NoManifest => b < now'
    BY <2>1 DEF Inv, PastInv
  <2>4. \A t \in Threads : Busy(t)' => call'[t].batch < now'
    BY <2>1 DEF Inv, Typed, TypedCall, PastInv, Busy
  <2>5. \A b \in dirs' : b < now' /\ dirAt'[b] \in Nat /\ b <= dirAt'[b]
    BY DirsPast
  <2> QED BY <2>2, <2>3, <2>4, <2>5 DEF PastInv
<1>3. ListInv' /\ HeadInv'
  BY DEF Inv, ListInv, HeadInv, Vouches, Readable, Stored, Names
<1>4. \A t \in Threads : Filling(t)'
  BY DEF Inv, Filling, Own, Stored, Names, Busy
<1>5. \A t \in Threads : Knowing(t)' /\ Holding(t)' /\ Removing(t)'
  BY DEF Inv, Knowing, Vouches, Busy, Holding, Removing, Stored, Names
<1> QED BY <1>1, <1>2, <1>3, <1>4, <1>5 DEF Inv

LEMMA OfferedPast ==
    ASSUME Inv
    PROVE  /\ offered \subseteq Batches /\ now \in Nat
           /\ \A b \in offered : b \notin forged => b < now
           /\ \A t \in Threads : call[t].kind = "recycle" /\ call[t].batch \notin forged => call[t].batch \notin offered
BY DEF Inv, Typed, PastInv, Filling, Own

LEMMA TickInv == ASSUME Inv, Tick PROVE Inv'
<1>1. now' = now + 1 /\ UNCHANGED <<where, dirs, dirAt, manifest, call, up, offered, purge, forged>>
  BY DEF Tick
<1>2. now' \in Nat /\ now <= now' /\ \A b \in offered' : b \notin forged => b < now'
  BY <1>1, OfferedPast DEF Batches
<1>3. QuietInv' /\ PurgeInv'
  BY <1>1, <1>2, OfferedPast, RecycleStoreAssumption DEF Inv, QuietInv, PurgeInv, Busy, Expired, Payload, Batches
<1> QED BY <1>1, <1>2, <1>3, OfferedPast, OutsideStep

LEMMA RepaintInv == ASSUME Inv, Repaint PROVE Inv'
<1>1. /\ offered' = offered \cup {manifest[b].head.id : b \in {x \in dirs : Readable(x)}}
      /\ UNCHANGED <<now, where, dirs, dirAt, manifest, call, up, purge, forged>>
  BY DEF Repaint
<1>2. \A x \in dirs : Readable(x) =>
         manifest[x].head.id \in Batches /\ (manifest[x].head.id \notin forged => manifest[x].head.id = x)
  BY DEF Inv, Typed, HeadInv, Vouches, Readable, Manifest, Head
<1>3. /\ offered' \subseteq Batches /\ \A b \in offered' : b \notin forged => b < now'
      /\ \A b \in offered' : b \notin forged => b \in offered \/ Readable(b)
  BY <1>1, <1>2, OfferedPast, DirsPast
<1>5. \A t \in Threads : call[t].kind = "recycle" /\ call[t].batch \notin forged => call[t].batch \notin offered'
  BY <1>3, OfferedPast DEF Inv, Filling, Own, Readable
<1>4. QuietInv' /\ PurgeInv'
  BY <1>1 DEF Inv, QuietInv, PurgeInv, Busy, Expired
<1> QED BY <1>1, <1>3, <1>5, <1>4, OfferedPast, OutsideStep

LEMMA StartInv == ASSUME Inv, Start PROVE Inv'
<1>1. /\ up = "down" /\ up' = "purging"
      /\ purge' = (UNION {Reach(m.head.id, m.entries) : m \in {x \in Batched : Expired(x.head.created)}})
                    \cup {[batch |-> b, vol |-> Central] : b \in {x \in dirs : ~Readable(x) /\ LongDead(x)}}
      /\ UNCHANGED <<now, where, dirs, dirAt, manifest, call, offered, forged>>
  BY DEF Start
<1>2. QuietInv'
  BY <1>1 DEF Inv, QuietInv, Busy
<1>3. PurgeInv'
  <2> SUFFICES ASSUME NEW loc \in purge' PROVE loc \in Payload /\ (loc.batch \in forged \/ Expired(loc.batch))'
    BY DEF PurgeInv
  <2>1. CASE \E m \in Batched : Expired(m.head.created) /\ loc \in Reach(m.head.id, m.entries)
    <3>1. PICK b \in dirs : /\ Readable(b) /\ Expired(manifest[b].head.created)
                            /\ loc \in Reach(manifest[b].head.id, manifest[b].entries)
      BY <2>1 DEF Batched
    <3>2. manifest[b].head.id \in Batches /\ Vouches(manifest[b].head, b)
      BY <3>1 DEF Inv, Typed, HeadInv, Readable, Manifest, Head
    <3>3. loc \in Payload /\ loc.batch = manifest[b].head.id
      BY <3>1, <3>2, TargetsInBatch
    <3> QED BY <1>1, <3>1, <3>2, <3>3 DEF Vouches, Expired
  <2>2. CASE \E b \in dirs : LongDead(b) /\ loc = [batch |-> b, vol |-> Central]
    <3>1. PICK b \in dirs : LongDead(b) /\ loc = [batch |-> b, vol |-> Central]
      BY <2>2
    <3>2. b \in Batches /\ loc \in Payload /\ loc.batch = b
      BY <3>1, RecycleStoreAssumption DEF Inv, Typed, Payload
    <3>3. now >= b + Retention
      BY <3>1, DirsPast, RecycleStoreAssumption DEF LongDead
    <3> QED BY <1>1, <3>2, <3>3 DEF Expired
  <2> DEFINE Whole == UNION {Reach(m.head.id, m.entries) : m \in {x \in Batched : Expired(x.head.created)}}
             Dead  == {[batch |-> b, vol |-> Central] : b \in {x \in dirs : ~Readable(x) /\ LongDead(x)}}
  <2>3. loc \in Whole \/ loc \in Dead
    <3>1. purge' = Whole \cup Dead
      BY <1>1, Zenon
    <3> HIDE DEF Whole, Dead
    <3> QED BY <3>1
  <2>4. CASE loc \in Whole
    BY <2>1, <2>4
  <2>5. CASE loc \in Dead
    BY <2>2, <2>5
  <2> QED BY <2>3, <2>4, <2>5
<1> QED BY <1>1, <1>2, <1>3, OfferedPast, OutsideStep

LEMMA ServeInv == ASSUME Inv, Serve PROVE Inv'
<1>1. up' = "serving" /\ UNCHANGED <<now, where, dirs, dirAt, manifest, call, offered, purge, forged>>
  BY DEF Serve
<1>2. QuietInv' /\ PurgeInv'
  BY <1>1 DEF Inv, QuietInv, PurgeInv, Expired
<1> QED BY <1>1, <1>2, OfferedPast, OutsideStep

LEMMA StopInv == ASSUME Inv, Stop PROVE Inv'
<1>1. offered' = {} /\ UNCHANGED <<now, where, dirs, dirAt, manifest, call, purge, forged>>
  BY DEF Stop
<1>2. QuietInv' /\ PurgeInv'
  BY <1>1 DEF Inv, QuietInv, PurgeInv, Expired, Stop, Idle, Busy
<1> QED BY <1>1, <1>2, OfferedPast, OutsideStep

LEMMA CrashInv == ASSUME Inv, Crash PROVE Inv'
<1>1. PICK cut \in SUBSET BeingWritten :
         manifest' = [b \in Batches |-> IF b \in cut THEN BadManifest ELSE manifest[b]]
  BY DEF Crash
<1>2. /\ call' = [t \in Threads |-> NoCall] /\ offered' = {} /\ purge' = {}
      /\ UNCHANGED <<now, where, dirs, dirAt, forged>>
  BY DEF Crash
<1>3. \A t \in Threads : call'[t].kind = "none"
  BY <1>2, NoCallIsNone
<1>4. cut \subseteq dirs
  BY <1>1 DEF BeingWritten
<1>5. Typed'
  BY <1>1, <1>2, <1>3 DEF Inv, Typed, Busy
<1>6. PastInv'
  BY <1>1, <1>2, <1>3, <1>4 DEF Inv, PastInv, Busy
<1>7. ListInv' /\ HeadInv'
  BY <1>1, <1>2 DEF Inv, ListInv, HeadInv, Vouches, Readable, Stored, Names
<1>8. QuietInv' /\ PurgeInv' /\ \A t \in Threads : Knowing(t)' /\ Filling(t)' /\ Holding(t)' /\ Removing(t)'
  BY <1>2, <1>3 DEF QuietInv, PurgeInv, Knowing, Filling, Holding, Removing, Busy
<1> QED BY <1>5, <1>6, <1>7, <1>8 DEF Inv

\* A manifest of entries is none of the two faults.
LEMMA ManifestIsReadable == \A m \in Manifest : m # NoManifest /\ m # BadManifest
<1>1. \A m \in Manifest : DOMAIN m = {"head", "entries"}
  BY DEF Manifest
<1>2. DOMAIN NoManifest = {"fault"} /\ DOMAIN BadManifest = {"fault"}
  BY DEF NoManifest, BadManifest
<1>3. {"head", "entries"} # {"fault"}
  OBVIOUS
<1> QED BY <1>1, <1>2, <1>3

LEMMA ZeroSuffix == 0 \in Suffixes
<1>1. Cardinality(Items) \in Nat
  BY FS_CardinalityType, RecycleStoreAssumption
<1>2. Cardinality(Items) * (MaxTime + 1) \in Nat
  BY <1>1, RecycleStoreAssumption
<1> QED BY <1>2 DEF Suffixes

\* Something else changes one manifest: what it makes of it has to be right.
LEMMA ManifestStep ==
    ASSUME Inv, NEW b \in Batches, Readable(b),
           UNCHANGED <<now, where, dirs, dirAt, call, up, offered, purge>>,
           manifest' \in [Batches -> Manifest \cup {NoManifest, BadManifest}],
           \A c \in Batches : c # b => manifest'[c] = manifest[c],
           forged \subseteq forged', forged' \subseteq Batches,
           Readable(b)' => Vouches(manifest[b].head, b)',
           Readable(b)' /\ b \notin forged' => manifest[b].entries \subseteq manifest'[b].entries
    PROVE  Inv'
<1>1. b < now
  BY DEF Inv, PastInv, Readable
<1>2. Typed'
  BY DEF Inv, Typed, Busy
<1>3. PastInv'
  BY <1>1 DEF Inv, PastInv, Busy
<1>4. ListInv'
  <2> SUFFICES ASSUME NEW c \in Batches, Readable(c)', c \notin forged', NEW i \in Items, Stored(i, c)
               PROVE  Names(manifest'[c].entries, i)
    BY DEF ListInv, Stored, Names
  <2>1. CASE c = b
    BY <2>1 DEF Inv, ListInv, Names
  <2>2. CASE c # b
    BY <2>2 DEF Inv, ListInv, Readable, Names
  <2> QED BY <2>1, <2>2
<1>5. HeadInv'
  <2> SUFFICES ASSUME NEW c \in Batches, Readable(c)', c # b PROVE Vouches(manifest[c].head, c)'
    BY DEF HeadInv
  <2> QED BY DEF Inv, HeadInv, Vouches, Readable
<1>6. QuietInv' /\ PurgeInv' /\ \A t \in Threads : Knowing(t)' /\ Holding(t)' /\ Removing(t)'
  BY DEF Inv, QuietInv, PurgeInv, Knowing, Vouches, Holding, Removing, Busy, Stored, Names, Expired
<1>7. ASSUME NEW t \in Threads PROVE Filling(t)'
  <2>1. call[t].kind = "recycle" /\ call[t].batch \notin forged => call[t].batch \in Batches /\ call[t].batch # b
    BY DEF Inv, Typed, TypedCall, Busy, Filling, Own, Readable
  <2>2. CASE call[t].kind = "recycle" /\ call[t].batch \notin forged'
    BY <2>1, <2>2 DEF Inv, Filling, Own, Stored, Names, Busy
  <2>3. CASE ~(call[t].kind = "recycle" /\ call[t].batch \notin forged')
    BY <2>3 DEF Inv, Filling
  <2> QED BY <2>2, <2>3
<1> QED BY <1>2, <1>3, <1>4, <1>5, <1>6, <1>7 DEF Inv

LEMMA BreakInv == ASSUME Inv, NEW b \in Batches, Break(b) PROVE Inv'
<1>1. /\ Readable(b) /\ manifest' = [manifest EXCEPT ![b] = BadManifest]
      /\ UNCHANGED <<now, where, dirs, dirAt, call, up, offered, purge, forged>>
  BY DEF Break
<1>2. /\ manifest' \in [Batches -> Manifest \cup {NoManifest, BadManifest}]
      /\ \A c \in Batches : c # b => manifest'[c] = manifest[c]
      /\ ~Readable(b)'
  BY <1>1 DEF Inv, Typed, Readable
<1>3. forged \subseteq Batches
  BY DEF Inv, Typed
<1> QED BY <1>1, <1>2, <1>3, ManifestStep

LEMMA AddInv == ASSUME Inv, NEW b \in Batches, Add(b) PROVE Inv'
<1>1. Readable(b) /\ UNCHANGED <<now, where, dirs, dirAt, call, up, offered, purge, forged>>
  BY DEF Add
<1>2. manifest \in [Batches -> Manifest \cup {NoManifest, BadManifest}] /\ manifest[b] \in Manifest
  BY <1>1 DEF Inv, Typed, Readable
<1>3. PICK i \in {j \in Items : where[j] \in Locs} :
            manifest' = [manifest EXCEPT ![b].entries = @ \cup
               {[orig |-> [path |-> Home[i], n |-> 0], item |-> i, loc |-> where[i]]}]
  BY DEF Add
<1> DEFINE x == [orig |-> [path |-> Home[i], n |-> 0], item |-> i, loc |-> where[i]]
<1>4. x \in Entry
  BY <1>3, ZeroSuffix, RecycleStoreAssumption DEF Entry, Outside
<1>5. manifest' = [manifest EXCEPT ![b].entries = @ \cup {x}]
  BY <1>3
<1> HIDE DEF x
<1>6. PICK h \in Head, es \in SUBSET Entry : manifest[b] = [head |-> h, entries |-> es]
  BY <1>2 DEF Manifest
<1>7. [head |-> h, entries |-> es \cup {x}] \in Manifest
  <2>1. es \cup {x} \in SUBSET Entry
    BY <1>4
  <2> QED BY <2>1 DEF Manifest
<1>8. manifest' = [manifest EXCEPT ![b] = [head |-> h, entries |-> es \cup {x}]]
  <2>1. [manifest[b] EXCEPT !.entries = @ \cup {x}] = [head |-> h, entries |-> es \cup {x}]
    BY <1>6
  <2> QED BY <1>5, <2>1, Zenon
<1>9. /\ manifest' \in [Batches -> Manifest \cup {NoManifest, BadManifest}]
      /\ \A c \in Batches : c # b => manifest'[c] = manifest[c]
      /\ manifest'[b].head = manifest[b].head /\ manifest[b].entries \subseteq manifest'[b].entries
  BY <1>2, <1>6, <1>7, <1>8
<1>10. Vouches(manifest[b].head, b)' /\ forged \subseteq Batches
  BY <1>1, <1>9 DEF Inv, Typed, HeadInv, Vouches
<1> QED BY <1>1, <1>9, <1>10, ManifestStep

LEMMA ForgeInv == ASSUME Inv, NEW b \in Batches, Forge(b) PROVE Inv'
<1>1. Readable(b) /\ UNCHANGED <<now, where, dirs, dirAt, call, up, offered, purge>>
  BY DEF Forge
<1>2. PICK head \in Head, entries \in SUBSET manifest[b].entries :
            /\ manifest' = [manifest EXCEPT ![b] = [head |-> head, entries |-> entries]]
            /\ forged' = forged \cup {b, head.id}
  BY DEF Forge
<1>3. manifest \in [Batches -> Manifest \cup {NoManifest, BadManifest}] /\ manifest[b] \in Manifest
  BY <1>1 DEF Inv, Typed, Readable
<1>4. [head |-> head, entries |-> entries] \in Manifest
  BY <1>3 DEF Manifest
<1>5. /\ manifest' \in [Batches -> Manifest \cup {NoManifest, BadManifest}]
      /\ \A c \in Batches : c # b => manifest'[c] = manifest[c]
      /\ manifest'[b].head = head
  BY <1>2, <1>3, <1>4
<1>6. Vouches(manifest[b].head, b)' /\ b \in forged'
  BY <1>2, <1>5 DEF Vouches
<1>7. forged \subseteq forged' /\ forged' \subseteq Batches
  BY <1>2 DEF Inv, Typed, Head
<1> QED BY <1>1, <1>5, <1>6, <1>7, ManifestStep

-----------------------------------------------------------------------------
(* The invariant holds, and so what it says of destroyed files.            *)

LEMMA InitInv == Init => Inv
<1> SUFFICES ASSUME Init PROVE Inv
  OBVIOUS
<1>1. \A t \in Threads : call[t].kind = "none"
  BY NoCallIsNone DEF Init
<1>2. \A i \in Items : where[i] \in Fates /\ where[i] \notin Payload
  BY FatesApart DEF Init, Fates
<1>3. Typed
  BY <1>1, <1>2 DEF Init, Typed, Busy
<1>4. QuietInv /\ PastInv /\ HeadInv /\ ListInv /\ PurgeInv
  BY <1>1, <1>2 DEF Init, QuietInv, PastInv, HeadInv, ListInv, PurgeInv, Busy, Stored, Readable
<1> QED BY <1>1, <1>3, <1>4 DEF Inv, Knowing, Busy, Filling, Holding, Removing

LEMMA StepInv == Inv /\ Step => Inv'
<1> SUFFICES ASSUME Inv, Step PROVE Inv'
  OBVIOUS
<1>1. CASE Tick
  BY <1>1, TickInv
<1>2. CASE \E i \in Items : UserSaves(i)
  BY <1>2, UserSavesInv
<1>3. CASE Repaint
  BY <1>3, RepaintInv
<1>4. ASSUME NEW t \in Threads,
             \/ Recycle(t) \/ StoreSource(t) \/ SkipSource(t) \/ FinishRecycle(t)
             \/ \E b \in Batches : Restore(t, b) \/ Delete(t, b)
             \/ SkipEntry(t) \/ AimEntry(t) \/ LandEntry(t) \/ MissEntry(t)
             \/ FinishRestore(t) \/ RemoveTarget(t) \/ FinishRemove(t)
      PROVE  Inv'
  <2>1. CASE Recycle(t) \/ StoreSource(t) \/ SkipSource(t) \/ FinishRecycle(t)
    BY <2>1, RecycleInv, StoreSourceInv, SkipSourceInv, FinishRecycleInv
  <2>2. CASE \E b \in Batches : Restore(t, b) \/ Delete(t, b)
    BY <2>2, RestoreInv, DeleteInv
  <2>3. CASE SkipEntry(t) \/ AimEntry(t) \/ LandEntry(t) \/ MissEntry(t)
    BY <2>3, SkipEntryInv, AimEntryInv, LandEntryInv, MissEntryInv
  <2>4. CASE FinishRestore(t) \/ RemoveTarget(t) \/ FinishRemove(t)
    BY <2>4, FinishRestoreInv, RemoveTargetInv, FinishRemoveInv
  <2> QED BY <1>4, <2>1, <2>2, <2>3, <2>4
<1>5. CASE Start \/ PurgeTarget \/ Serve \/ Stop \/ Crash
  BY <1>5, StartInv, PurgeTargetInv, ServeInv, StopInv, CrashInv
<1>6. CASE \E b \in Batches : Break(b) \/ Add(b) \/ Forge(b)
  BY <1>6, BreakInv, AddInv, ForgeInv
<1> QED BY <1>1, <1>2, <1>3, <1>4, <1>5, <1>6 DEF Step

LEMMA NextInv == Inv /\ [Next]_vars => Inv'
<1>1. Inv /\ Step => Inv'
  BY StepInv
<1>2. ASSUME Inv, UNCHANGED vars PROVE Inv'
  <2>1. UNCHANGED <<now, where, dirs, dirAt, manifest, call, up, offered, purge, forged>>
    BY <1>2 DEF vars
  <2> QED
    BY <1>2, <2>1 DEF Inv, Typed, QuietInv, PastInv, HeadInv, ListInv, PurgeInv, Knowing, Vouches, Filling, Own, Holding, Removing,
                      Busy, Stored, Names, Readable, Expired
<1> QED BY <1>1, <1>2 DEF Next

\* In every reachable state, with whatever crashes and faults the constants
\* allow, no two threads fill or share a batch in conflict, and a readable
\* manifest lists all that is in its batch.
THEOREM InvHolds == Spec => []Inv
BY InitInv, NextInv, PTL DEF Spec

\* An item that dies is in a directory being removed.
LEMMA RemovalKills ==
    ASSUME Inv, NEW loc \in Payload, RemoveDir(loc) \/ RemoveDirPartly(loc), NEW i \in Items, Dies(i)
    PROVE  where[i] = loc
BY RemoveDirSound DEF Dies

LEMMA StepKeepsRetention ==
    ASSUME Inv, Step, NEW i \in Items, Dies(i)
    PROVE  /\ where[i] \in Payload
           /\ \/ where[i].batch \in forged
              \/ DeletedByUser(where[i].batch)
              \/ up = "purging" /\ Expired(where[i].batch)
<1>1. CASE \E t \in Threads : RemoveTarget(t)
  <2>1. PICK t \in Threads : RemoveTarget(t)
    BY <1>1
  <2>2. PICK loc \in call[t].targets : RemoveDir(loc) \/ RemoveDirPartly(loc)
    BY <2>1 DEF RemoveTarget
  <2>3. call[t].kind \in {"restore", "delete"} /\ call[t].at = "removing" /\ Removing(t) /\ Holding(t)
    BY <2>1 DEF RemoveTarget, Doing, Inv
  <2>4. loc \in Payload /\ loc.batch = call[t].batch
    BY <2>2, <2>3 DEF Removing
  <2>5. where[i] = loc
    BY <2>2, <2>4, RemovalKills
  <2>6. CASE call[t].kind = "restore"
    \* It has found that it moved everything out: nothing is left to destroy.
    BY <2>3, <2>4, <2>5, <2>6 DEF Holding, Stored
  <2>7. CASE call[t].kind = "delete"
    BY <2>3, <2>4, <2>5, <2>7 DEF DeletedByUser, Doing
  <2> QED BY <2>3, <2>6, <2>7
<1>2. CASE PurgeTarget
  <2>1. PICK loc \in purge : RemoveDir(loc) \/ RemoveDirPartly(loc)
    BY <1>2 DEF PurgeTarget
  <2>2. loc \in Payload /\ (loc.batch \in forged \/ Expired(loc.batch)) /\ up = "purging"
    BY <1>2, <2>1 DEF Inv, PurgeInv, PurgeTarget
  <2> QED BY <2>1, <2>2, RemovalKills
<1>3. CASE \E j \in Items : UserSaves(j)
  <2>1. PICK j \in Items : where' = [where EXCEPT ![j] = [path |-> Home[j], n |-> 0]]
    BY <1>3 DEF UserSaves
  <2>2. [path |-> Home[j], n |-> 0] # Destroyed
    BY PlaceNotDestroyed DEF IsPlace
  <2> QED BY <2>1, <2>2 DEF Dies, Inv, Typed
<1>4. CASE \E t \in Threads : StoreSource(t)
  <2>0. PICK t \in Threads : StoreSource(t)
    BY <1>4
  <2>1. PICK src \in call[t].sources, j \in Items :
           where' = [where EXCEPT ![j] = [batch |-> call[t].batch, vol |-> Volume[src.path]]]
    BY <2>0 DEF StoreSource
  <2>2. [batch |-> call[t].batch, vol |-> Volume[src.path]] # Destroyed
    BY DEF Destroyed
  <2> QED BY <2>1, <2>2 DEF Dies, Inv, Typed
<1>5. CASE \E t \in Threads : LandEntry(t)
  <2>1. PICK t \in Threads : LandEntry(t)
    BY <1>5
  <2> DEFINE d == call[t].aim.dest
  <2>2. where' = [j \in Items |-> IF j = call[t].aim.entry.item THEN d
                                  ELSE IF where[j] = d THEN Clobbered ELSE where[j]]
    BY <2>1 DEF LandEntry
  <2>3. d # Destroyed
    BY <2>1, PlaceNotDestroyed, AtWork DEF LandEntry, Doing, Busy, TypedCall
  <2>4. Clobbered # Destroyed
    BY DEF Clobbered, Destroyed
  <2> HIDE DEF d
  <2> QED BY <2>2, <2>3, <2>4 DEF Dies
<1>6. CASE where' = where
  BY <1>6 DEF Dies
<1>7. \/ \E t \in Threads : RemoveTarget(t) \/ StoreSource(t) \/ LandEntry(t)
      \/ PurgeTarget \/ (\E j \in Items : UserSaves(j)) \/ where' = where
  BY DEF Step, Tick, Repaint, Recycle, SkipSource, FinishRecycle, Restore, Delete, SkipEntry, AimEntry,
         MissEntry, FinishRestore, FinishRemove, Start, Serve, Stop, Crash, Break, Add, Forge
<1> QED BY <1>1, <1>2, <1>3, <1>4, <1>5, <1>6, <1>7

\* A recycled file is destroyed only when the user deletes its batch, or when
\* the startup purge runs a retention window after it was recycled
\* (_remove_batch_dir, purge_expired).  No crash, failed move, failed removal,
\* unreadable manifest or added entry changes that; a manifest rewritten with
\* another id, time or fewer entries does, but only for its own batch and the
\* one it names.
THEOREM RetentionKept == Spec => KeepsRetention
<1> DEFINE A == \A i \in Items : Dies(i) =>
                  /\ where[i] \in Payload
                  /\ \/ where[i].batch \in forged
                     \/ DeletedByUser(where[i].batch)
                     \/ up = "purging" /\ Expired(where[i].batch)
<1>1. Inv /\ [Next]_vars => [A]_vars
  BY StepKeepsRetention DEF Next
<1> QED BY <1>1, InvHolds, PTL DEF Spec, KeepsRetention

-----------------------------------------------------------------------------
(* Nothing is lost while the process is not killed, removals work, and     *)
(* nobody else touches the manifests.                                      *)

\* A thread fills batch b, or removes its directories.
Fills(t, b)   == call[t].kind = "recycle" /\ call[t].batch = b
Empties(t, b) == call[t].kind \in {"restore", "delete"} /\ call[t].at = "removing" /\ call[t].batch = b

\* A batch has a directory as long as it has a manifest or is being filled, and
\* what is in one without a manifest is being filled in, removed or purged.
DirsInv ==
    /\ \A b \in dirs : Readable(b) \/ \E t \in Threads : Fills(t, b)
    /\ \A b \in Batches : Readable(b) => b \in dirs
HeldInv ==
    \A b \in Batches, i \in Items : Stored(i, b) =>
        Readable(b) \/ (\E t \in Threads : Fills(t, b) \/ Empties(t, b)) \/ where[i] \in purge

\* A removal takes all that is in the batch, and so does the purge.
EmptyInv ==
    \A t \in Threads, b \in Batches, i \in Items :
        Empties(t, b) /\ Stored(i, b) => where[i] \in call[t].targets
WholeInv ==
    /\ up # "purging" => purge = {}
    /\ \A loc \in purge, i \in Items : Stored(i, loc.batch) => where[i] \in purge
    /\ up = "purging" => \A i \in Items : where[i] \in Payload => ~Expired(where[i].batch) \/ where[i] \in purge

RestInv == forged = {} /\ DirsInv /\ HeldInv /\ EmptyInv /\ WholeInv

Undamaged == Troubles \subseteq SUBSET {"move"}

Spared == trouble \subseteq {"move"}

\* A step that leaves the batches alone and puts nothing into the store.
LEMMA RestKept ==
    ASSUME Inv, RestInv, UNCHANGED <<dirs, manifest, up, purge, forged>>,
           \A i \in Items : where'[i] \in Payload => where'[i] = where[i],
           now' = now \/ up # "purging",
           \A t \in Threads, b \in Batches : Fills(t, b)' <=> Fills(t, b),
           \A t \in Threads, b \in Batches, i \in Items : Empties(t, b) /\ Stored(i, b)' => Empties(t, b)',
           EmptyInv'
    PROVE  RestInv'
<1>1. \A i \in Items : \A b : Stored(i, b)' => Stored(i, b) /\ where'[i] = where[i]
  BY DEF Stored
<1>2. DirsInv'
  <2>1. \A b \in Batches : Readable(b)' <=> Readable(b)
    BY DEF Readable
  <2> QED BY <2>1 DEF RestInv, DirsInv, Inv, Typed
<1>3. HeldInv'
  <2> SUFFICES ASSUME NEW b \in Batches, NEW i \in Items, Stored(i, b)'
               PROVE  Readable(b)' \/ (\E t \in Threads : Fills(t, b)' \/ Empties(t, b)') \/ where'[i] \in purge'
    BY DEF HeldInv
  <2>1. Readable(b) \/ (\E t \in Threads : Fills(t, b) \/ Empties(t, b)) \/ where[i] \in purge
    BY <1>1 DEF RestInv, HeldInv
  <2>2. Readable(b)' <=> Readable(b)
    BY DEF Readable
  <2> QED BY <1>1, <2>1, <2>2
<1>4. WholeInv'
  BY <1>1 DEF RestInv, WholeInv, Expired
<1> QED BY <1>2, <1>3, <1>4 DEF RestInv

\* A step of one thread that touches nothing else and is not about to remove.
LEMMA RestOwn ==
    ASSUME Inv, RestInv, NEW t \in Threads, UNCHANGED <<now, dirs, manifest, up, purge, forged>>,
           \A i \in Items : where'[i] \in Payload => where'[i] = where[i],
           \A u \in Threads : u # t => call'[u] = call[u],
           \A b \in Batches : Fills(t, b)' <=> Fills(t, b),
           \A b \in Batches, i \in Items : ~(Empties(t, b) /\ Stored(i, b)'),
           \A b \in Batches, i \in Items : Empties(t, b)' /\ Stored(i, b)' => where[i] \in call'[t].targets
    PROVE  RestInv'
<1>1. \A u \in Threads, b \in Batches : Fills(u, b)' <=> Fills(u, b)
  BY DEF Fills
<1>2. \A u \in Threads, b \in Batches, i \in Items : Empties(u, b) /\ Stored(i, b)' => Empties(u, b)'
  BY DEF Empties
<1>3. EmptyInv'
  BY DEF RestInv, EmptyInv, Empties, Stored
<1> QED BY <1>1, <1>2, <1>3, RestKept

LEMMA MovingRest ==
    ASSUME Inv, RestInv, NEW t \in Threads,
           SkipSource(t) \/ SkipEntry(t) \/ AimEntry(t) \/ MissEntry(t)
    PROVE  RestInv'
<1>1. Busy(t) /\ TypedCall(call[t]) /\ call[t].at # "removing"
  BY AtWork DEF SkipSource, SkipEntry, AimEntry, MissEntry, Doing, Busy
<1>2. /\ UNCHANGED <<now, where, dirs, manifest, up, purge, forged>>
      /\ \A u \in Threads : u # t => call'[u] = call[u]
  BY DEF SkipSource, SkipEntry, AimEntry, MissEntry, Inv, Typed
<1>3. call'[t].kind = call[t].kind /\ call'[t].batch = call[t].batch /\ call'[t].at # "removing"
  <2>0. DOMAIN call = Threads /\ DOMAIN call[t] = Fields
    BY <1>1 DEF Inv, Typed, TypedCall
  <2>1. CASE SkipSource(t)
    <3>1. PICK src \in call[t].sources : call' = [call EXCEPT ![t].sources = @ \ {src}]
      BY <2>1 DEF SkipSource
    <3> QED BY <1>1, <2>0, <3>1 DEF Fields
  <2>2. CASE SkipEntry(t)
    <3>1. PICK e \in call[t].entries : call' = [call EXCEPT ![t].entries = @ \ {e}, ![t].kept = @ \cup {e}]
      BY <2>2 DEF SkipEntry
    <3> QED BY <1>1, <2>0, <3>1 DEF Fields
  <2>3. CASE AimEntry(t)
    <3>1. PICK e \in call[t].entries :
              call' = [call EXCEPT ![t].at = "landing", ![t].entries = @ \ {e},
                                   ![t].aim = [entry |-> e, dest |-> UniqueDestination(e.orig)]]
      BY <2>3 DEF AimEntry
    <3> QED BY <1>1, <2>0, <3>1 DEF Fields
  <2>4. CASE MissEntry(t)
    <3>1. call' = [call EXCEPT ![t].at = "moving", ![t].aim = Nothing, ![t].kept = @ \cup {call[t].aim.entry}]
      BY <2>4 DEF MissEntry
    <3> QED BY <1>1, <2>0, <3>1 DEF Fields
  <2> QED BY <2>1, <2>2, <2>3, <2>4
<1> QED BY <1>1, <1>2, <1>3, RestOwn DEF Fills, Empties

LEMMA LandEntryRest == ASSUME Inv, RestInv, NEW t \in Threads, LandEntry(t) PROVE RestInv'
<1> DEFINE d == call[t].aim.dest
<1>1. /\ where' = [i \in Items |-> IF i = call[t].aim.entry.item THEN d
                                   ELSE IF where[i] = d THEN Clobbered ELSE where[i]]
      /\ call' = [call EXCEPT ![t].at = "moving", ![t].aim = Nothing]
      /\ UNCHANGED <<now, dirs, manifest, up, purge, forged>>
  BY DEF LandEntry
<1>2. Busy(t) /\ TypedCall(call[t]) /\ call[t].at = "landing" /\ IsPlace(d)
  BY AtWork DEF LandEntry, Doing, Busy, TypedCall
<1>3. /\ \A u \in Threads : u # t => call'[u] = call[u]
      /\ call'[t].kind = call[t].kind /\ call'[t].batch = call[t].batch /\ call'[t].at # "removing"
  BY <1>1, <1>2 DEF Inv, Typed, TypedCall, Fields
<1> HIDE DEF d
<1>4. \A i \in Items : where'[i] \in Payload => where'[i] = where[i]
  BY <1>1, <1>2, PlacesApart, FatesApart DEF Fates
<1> QED BY <1>1, <1>2, <1>3, <1>4, RestOwn DEF Fills, Empties

LEMMA FinishRemoveRest == ASSUME Inv, RestInv, NEW t \in Threads, FinishRemove(t) PROVE RestInv'
<1>1. /\ UNCHANGED <<now, where, dirs, manifest, up, purge, forged>> /\ call[t].targets = {}
      /\ call[t].kind # "recycle"
      /\ \A u \in Threads : u # t => call'[u] = call[u]
      /\ call'[t].kind = "none"
  BY NoCallIsNone DEF FinishRemove, Doing, End, Inv, Typed
<1>2. \A b \in Batches, i \in Items : ~(Empties(t, b) /\ Stored(i, b)')
  BY <1>1 DEF RestInv, EmptyInv, Stored
<1> QED BY <1>1, <1>2, RestOwn DEF Fills, Empties

LEMMA RestoreRest == ASSUME Inv, RestInv, NEW t \in Threads, NEW b \in Batches, Restore(t, b) PROVE RestInv'
<1>1. /\ UNCHANGED <<now, where, dirs, manifest, up, purge, forged>>
      /\ call[t].kind = "none"
      /\ \A u \in Threads : u # t => call'[u] = call[u]
      /\ call'[t].kind = "restore" /\ call'[t].at = "moving"
  BY DEF Restore, Idle, Begin, Fresh, Inv, Typed
<1> QED BY <1>1, RestOwn DEF Fills, Empties

\* All that is in a batch with a manifest is in the directories to remove.
LEMMA TargetsWhole ==
    ASSUME Inv, forged = {}, NEW b \in Batches, Readable(b), NEW i \in Items, Stored(i, b)
    PROVE  where[i] \in Targets(b)
<1>1. PICK e \in manifest[b].entries : e.loc = where[i]
  BY DEF Inv, ListInv, Names
<1>2. Valid(e, b)
  BY <1>1 DEF Valid, Stored
<1> QED BY <1>1, <1>2 DEF Targets, Reach

LEMMA DeleteRest == ASSUME Inv, RestInv, NEW t \in Threads, NEW b \in Batches, Delete(t, b) PROVE RestInv'
<1>1. /\ UNCHANGED <<now, where, dirs, manifest, up, purge, forged>> /\ b \in offered /\ b \in dirs
      /\ call[t].kind = "none"
      /\ \A u \in Threads : u # t => call'[u] = call[u]
      /\ call'[t].kind = "delete" /\ call'[t].batch = b /\ call'[t].targets = Targets(b)
  BY DEF Delete, Idle, Begin, Fresh, Inv, Typed
<1>2. Readable(b)
  BY <1>1, OfferedPast DEF RestInv, DirsInv, Fills
<1>3. \A c \in Batches, i \in Items : Empties(t, c)' /\ Stored(i, c)' => where[i] \in call'[t].targets
  BY <1>1, <1>2, TargetsWhole DEF RestInv, Empties, Stored
<1> QED BY <1>1, <1>3, RestOwn DEF Fills, Empties

LEMMA OutsideRest ==
    ASSUME Inv, RestInv, UNCHANGED <<dirs, manifest, call, up, purge, forged>>,
           \A i \in Items : where'[i] \in Payload => where'[i] = where[i],
           now' = now \/ up # "purging"
    PROVE  RestInv'
<1>1. EmptyInv'
  BY DEF RestInv, EmptyInv, Empties, Stored
<1> QED BY <1>1, RestKept DEF Fills, Empties

\* A thread that is through with its batch leaves a manifest, if the directory
\* is there for it.
LEMMA WrittenRest ==
    ASSUME Inv, RestInv, NEW t \in Threads, NEW b \in Batches, NEW head \in Head, NEW entries \in SUBSET Entry,
           WriteManifest(head, entries), head.id = b, UNCHANGED <<now, where, dirs, up, purge, forged>>,
           call[t].batch = b, call[t].kind \in {"recycle", "restore"}, call[t].at = "moving",
           \A u \in Threads : u # t => call'[u] = call[u], call'[t].kind = "none"
    PROVE  RestInv'
<1>1. /\ manifest \in [Batches -> Manifest \cup {NoManifest, BadManifest}]
      /\ dirs \subseteq Batches
  BY DEF Inv, Typed
<1>2. [head |-> head, entries |-> entries] \in Manifest
  BY DEF Manifest
<1>3. \A c \in Batches : c # b => (Readable(c)' <=> Readable(c))
  BY <1>1 DEF WriteManifest, Readable
<1>4. Readable(b)' <=> Readable(b) \/ b \in dirs
  BY <1>1, <1>2, ManifestIsReadable DEF WriteManifest, Readable, RestInv, DirsInv
<1>5. \A u \in Threads, c \in Batches : u # t => (Fills(u, c)' <=> Fills(u, c)) /\ (Empties(u, c)' <=> Empties(u, c))
  BY DEF Fills, Empties
<1>6. \A c \in Batches : ~Fills(t, c)' /\ ~Empties(t, c)' /\ ~Empties(t, c) /\ (c # b => ~Fills(t, c))
  BY DEF Fills, Empties
<1>7. \A i \in Items : \A c : Stored(i, c)' <=> Stored(i, c)
  BY DEF Stored
<1>8. DirsInv'
  BY <1>1, <1>3, <1>4, <1>5, <1>6 DEF RestInv, DirsInv
<1>9. HeldInv'
  <2> SUFFICES ASSUME NEW c \in Batches, NEW i \in Items, Stored(i, c)
               PROVE  Readable(c)' \/ (\E u \in Threads : Fills(u, c)' \/ Empties(u, c)') \/ where'[i] \in purge'
    BY <1>7 DEF HeldInv
  <2>1. Readable(c) \/ (\E u \in Threads : Fills(u, c) \/ Empties(u, c)) \/ where[i] \in purge
    BY DEF RestInv, HeldInv
  <2>2. Fills(t, b) => b \in dirs
    BY DEF Inv, Filling, Own, Fills, RestInv
  <2> QED BY <1>3, <1>4, <1>5, <1>6, <2>1, <2>2
<1>10. EmptyInv'
  BY <1>5, <1>6, <1>7 DEF RestInv, EmptyInv
<1>11. WholeInv'
  BY <1>7 DEF RestInv, WholeInv, Expired
<1> QED BY <1>8, <1>9, <1>10, <1>11 DEF RestInv

LEMMA FinishRecycleRest == ASSUME Inv, RestInv, NEW t \in Threads, FinishRecycle(t) PROVE RestInv'
<1>1. Busy(t) /\ TypedCall(call[t]) /\ call[t].kind = "recycle" /\ call[t].at = "moving"
  BY AtWork DEF FinishRecycle, Doing, Busy
<1>2. /\ call[t].batch \in Batches /\ call[t].kept \in SUBSET Entry
      /\ call[t].head \in Head /\ call[t].head.id = call[t].batch
  BY <1>1 DEF TypedCall, Inv, Knowing, Vouches, RestInv
<1>3. (\A u \in Threads : u # t => call'[u] = call[u]) /\ call'[t].kind = "none"
  BY NoCallIsNone DEF FinishRecycle, End, Inv, Typed
<1>4. WriteManifest(call[t].head, call[t].kept) /\ UNCHANGED <<now, where, dirs, up, purge, forged>>
  BY DEF FinishRecycle
<1> QED BY <1>1, <1>2, <1>3, <1>4, WrittenRest

LEMMA FinishRestoreRest == ASSUME Inv, RestInv, NEW t \in Threads, FinishRestore(t) PROVE RestInv'
<1>1. Busy(t) /\ TypedCall(call[t]) /\ call[t].kind = "restore" /\ call[t].at = "moving" /\ Holding(t)
  BY AtWork DEF FinishRestore, Doing, Busy, Inv
<1>2. /\ call[t].batch \in Batches /\ call[t].kept \in SUBSET Entry
      /\ call[t].head \in Head /\ call[t].head.id = call[t].batch
  BY <1>1 DEF TypedCall, Inv, Knowing, Vouches, RestInv
<1>3. UNCHANGED <<now, where, dirs, up, purge, forged>>
  BY DEF FinishRestore
<1>4. CASE call[t].kept # {}
  <2>1. WriteManifest(call[t].head, call[t].kept) /\ End(t)
    BY <1>4 DEF FinishRestore
  <2>2. (\A u \in Threads : u # t => call'[u] = call[u]) /\ call'[t].kind = "none"
    BY <2>1, NoCallIsNone DEF End, Inv, Typed
  <2> QED BY <1>1, <1>2, <1>3, <2>1, <2>2, WrittenRest
<1>5. CASE call[t].kept = {}
  <2>1. call' = [call EXCEPT ![t].at = "removing", ![t].targets = Targets(call[t].batch)] /\ manifest' = manifest
    BY <1>5 DEF FinishRestore
  <2>2. /\ \A u \in Threads : u # t => call'[u] = call[u]
        /\ call'[t].kind = "restore" /\ call'[t].batch = call[t].batch
    BY <1>1, <2>1 DEF Inv, Typed, TypedCall, Fields
  <2>3. \A i \in Items : ~Stored(i, call[t].batch)
    BY <1>1, <1>5 DEF FinishRestore, Holding, Names, RestInv
  <2> QED BY <1>1, <1>3, <2>1, <2>2, <2>3, RestOwn DEF Fills, Empties, Stored
<1> QED BY <1>4, <1>5

LEMMA RecycleRest == ASSUME Inv, RestInv, NEW t \in Threads, Recycle(t) PROVE RestInv'
<1>1. /\ up = "serving" /\ call[t].kind = "none"
      /\ dirs' = dirs \cup {now}
      /\ UNCHANGED <<where, manifest, up, purge, forged>>
      /\ \A u \in Threads : u # t => call'[u] = call[u]
  BY DEF Recycle, Idle, Begin, Inv, Typed
<1>2. call'[t].kind = "recycle" /\ call'[t].batch = now
  BY DEF Recycle, Begin, Fresh, Inv, Typed
<1>3. \A u \in Threads, c \in Batches : Empties(u, c)' <=> Empties(u, c) /\ u # t
  BY <1>1, <1>2 DEF Empties
<1>4. \A u \in Threads : \A c : Fills(u, c)' <=> Fills(u, c) \/ (u = t /\ c = now)
  BY <1>1, <1>2 DEF Fills
<1>5. /\ \A c \in Batches : Readable(c)' <=> Readable(c)
      /\ \A i \in Items : \A c : Stored(i, c)' <=> Stored(i, c)
  BY <1>1 DEF Readable, Stored
<1>6. DirsInv'
  <2>1. \A c \in dirs' : c = now \/ c \in dirs
    BY <1>1
  <2> QED BY <1>1, <1>4, <1>5, <2>1 DEF RestInv, DirsInv, Inv, Typed
<1>7. \A c \in Batches : ~Empties(t, c)
  BY <1>1 DEF Empties
<1>8. HeldInv'
  BY <1>1, <1>3, <1>4, <1>5, <1>7 DEF RestInv, HeldInv
<1>9. EmptyInv'
  BY <1>1, <1>3, <1>5 DEF RestInv, EmptyInv
<1>10. WholeInv'
  BY <1>1 DEF RestInv, WholeInv
<1> QED BY <1>1, <1>6, <1>8, <1>9, <1>10 DEF RestInv

LEMMA StoreSourceRest == ASSUME Inv, RestInv, NEW t \in Threads, StoreSource(t) PROVE RestInv'
<1>1. Busy(t) /\ TypedCall(call[t]) /\ call[t].kind = "recycle" /\ up = "serving" /\ Filling(t)
  BY AtWork DEF StoreSource, Doing, Busy, Inv
<1> DEFINE b == call[t].batch
<1>2. PICK src \in call[t].sources, i \in Items :
         LET dest == [batch |-> b, vol |-> Volume[src.path]] IN
         /\ where' = [where EXCEPT ![i] = dest]
         /\ call' = [call EXCEPT ![t].sources = @ \ {src},
                                 ![t].kept = @ \cup {[orig |-> src, item |-> i, loc |-> dest]}]
         /\ dirs' = IF dest.vol = Central THEN dirs \cup {dest.batch} ELSE dirs
  BY DEF StoreSource
<1> DEFINE dest == [batch |-> b, vol |-> Volume[src.path]]
<1>3. /\ UNCHANGED <<now, manifest, up, purge, forged>>
      /\ \A u \in Threads : u # t => call'[u] = call[u]
      /\ call'[t].kind = "recycle" /\ call'[t].batch = b
  BY <1>1, <1>2 DEF StoreSource, Inv, Typed, TypedCall, Fields
<1>4. b \in Batches /\ b \in dirs /\ dest.batch = b
  BY <1>1 DEF TypedCall, Filling, Own, RestInv
<1>5. dirs' = dirs
  BY <1>2, <1>4
<1>6. DOMAIN where = Items /\ where' = [where EXCEPT ![i] = dest]
  BY <1>2 DEF Inv, Typed
<1> HIDE DEF dest
<1>7. \A j \in Items : \A c : Stored(j, c)' => c = b \/ (Stored(j, c) /\ where'[j] = where[j])
  BY <1>4, <1>6 DEF Stored
<1>8. /\ \A u \in Threads, c \in Batches : Fills(u, c)' <=> Fills(u, c)
      /\ Fills(t, b)
  BY <1>1, <1>3 DEF Fills
<1>9. \A u \in Threads, c \in Batches : Empties(u, c)' <=> Empties(u, c)
  BY <1>1, <1>3 DEF Empties
<1>10. \A u \in Threads : ~Empties(u, b)
  BY <1>1 DEF Empties, Filling, Own, Busy, RestInv
<1>11. \A u \in Threads, c \in Batches : Empties(u, c) => call'[u] = call[u]
  BY <1>1, <1>3 DEF Empties
<1>12. DirsInv'
  BY <1>3, <1>5, <1>8 DEF RestInv, DirsInv, Readable, Inv, Typed
<1>13. HeldInv'
  <2> SUFFICES ASSUME NEW c \in Batches, NEW j \in Items, Stored(j, c)'
               PROVE  Readable(c)' \/ (\E u \in Threads : Fills(u, c)' \/ Empties(u, c)') \/ where'[j] \in purge'
    BY DEF HeldInv
  <2>1. CASE c = b
    BY <1>4, <1>8, <2>1
  <2>2. CASE c # b
    BY <1>3, <1>7, <1>8, <1>9, <2>2 DEF RestInv, HeldInv, Readable
  <2> QED BY <2>1, <2>2
<1>14. EmptyInv'
  BY <1>7, <1>9, <1>10, <1>11 DEF RestInv, EmptyInv
<1>15. WholeInv'
  BY <1>1, <1>3 DEF RestInv, WholeInv
<1> QED BY <1>3, <1>12, <1>13, <1>14, <1>15 DEF RestInv

\* The removal of one directory, where removals do not fail.
LEMMA RemovedWhole ==
    ASSUME Inv, NEW loc \in Payload, RemoveDir(loc)
    PROVE  /\ \A i \in Items : \A c : Stored(i, c)' => Stored(i, c) /\ where'[i] = where[i] /\ where[i] # loc
           /\ \A c \in Batches : Readable(c)' <=> Readable(c) /\ (loc.vol = Central => c # loc.batch)
           /\ \A c : c \in dirs' <=> c \in dirs /\ (loc.vol = Central => c # loc.batch)
<1>1. /\ where' = [i \in Items |-> IF where[i] = loc THEN Destroyed ELSE where[i]]
      /\ IF loc.vol = Central
         THEN dirs' = dirs \ {loc.batch} /\ manifest' = [manifest EXCEPT ![loc.batch] = NoManifest]
         ELSE UNCHANGED <<dirs, manifest>>
  BY DEF RemoveDir
<1>2. Destroyed \notin Payload
  BY FatesApart DEF Fates
<1>3. \A i \in Items : \A c : Stored(i, c)' => Stored(i, c) /\ where'[i] = where[i] /\ where[i] # loc
  BY <1>1, <1>2 DEF Stored
<1>4. loc.batch \in Batches /\ DOMAIN manifest = Batches
  BY DEF Payload, Inv, Typed
<1>5. \A c \in Batches : Readable(c)' <=> Readable(c) /\ (loc.vol = Central => c # loc.batch)
  BY <1>1, <1>4 DEF Readable
<1>6. \A c : c \in dirs' <=> c \in dirs /\ (loc.vol = Central => c # loc.batch)
  BY <1>1
<1> QED BY <1>3, <1>5, <1>6

LEMMA RemoveTargetRest ==
    ASSUME Spared, Inv, RestInv, NEW t \in Threads, RemoveTarget(t) PROVE RestInv'
<1>1. PICK loc \in call[t].targets : RemoveDir(loc) /\ call' = [call EXCEPT ![t].targets = @ \ {loc}]
  BY DEF RemoveTarget, RemoveDirPartly, Spared
<1>2. /\ Busy(t) /\ TypedCall(call[t]) /\ call[t].kind \in {"restore", "delete"} /\ call[t].at = "removing"
      /\ up = "serving" /\ Removing(t)
      /\ \A u \in Threads : u # t /\ call[u].kind = "recycle" => call[u].batch # call[t].batch
  BY AtWork DEF RemoveTarget, Doing, Busy, Inv, RestInv
<1>3. loc \in Payload /\ loc.batch = call[t].batch
  BY <1>1, <1>2 DEF Removing
<1>4. /\ \A i \in Items : \A c : Stored(i, c)' => Stored(i, c) /\ where'[i] = where[i] /\ where[i] # loc
      /\ \A c \in Batches : Readable(c)' <=> Readable(c) /\ (loc.vol = Central => c # loc.batch)
      /\ \A c : c \in dirs' <=> c \in dirs /\ (loc.vol = Central => c # loc.batch)
  BY <1>1, <1>3, RemovedWhole
<1>5. /\ \A u \in Threads : u # t => call'[u] = call[u]
      /\ call'[t].kind = call[t].kind /\ call'[t].at = call[t].at /\ call'[t].batch = call[t].batch
      /\ call'[t].targets = call[t].targets \ {loc}
  BY <1>1, <1>2 DEF Inv, Typed, TypedCall, Fields
<1>6. \A u \in Threads, c \in Batches : (Fills(u, c)' <=> Fills(u, c)) /\ (Empties(u, c)' <=> Empties(u, c))
  BY <1>5 DEF Fills, Empties
<1>7. UNCHANGED <<now, up, purge, forged>>
  BY DEF RemoveTarget
<1>8. \A u \in Threads : ~Fills(u, loc.batch)
  BY <1>2, <1>3 DEF Fills
<1>9. DirsInv'
  BY <1>4, <1>6 DEF RestInv, DirsInv, Inv, Typed
<1>10. HeldInv'
  <2> SUFFICES ASSUME NEW c \in Batches, NEW i \in Items, Stored(i, c)'
               PROVE  Readable(c)' \/ (\E u \in Threads : Fills(u, c)' \/ Empties(u, c)') \/ where'[i] \in purge'
    BY DEF HeldInv
  <2>1. Empties(t, loc.batch)
    BY <1>2, <1>3 DEF Empties
  <2>2. Readable(c) \/ (\E u \in Threads : Fills(u, c) \/ Empties(u, c)) \/ where[i] \in purge
    BY <1>4 DEF RestInv, HeldInv
  <2> QED BY <1>4, <1>6, <1>7, <2>1, <2>2
<1>11. EmptyInv'
  <2> SUFFICES ASSUME NEW u \in Threads, NEW c \in Batches, NEW i \in Items, Empties(u, c)', Stored(i, c)'
               PROVE  where'[i] \in call'[u].targets
    BY DEF EmptyInv
  <2>1. where[i] \in call[u].targets /\ where[i] # loc /\ where'[i] = where[i]
    BY <1>4, <1>6 DEF RestInv, EmptyInv
  <2> QED BY <1>5, <2>1
<1>12. WholeInv'
  BY <1>2, <1>7 DEF RestInv, WholeInv
<1> QED BY <1>7, <1>9, <1>10, <1>11, <1>12 DEF RestInv

LEMMA PurgeTargetRest == ASSUME Spared, Inv, RestInv, PurgeTarget PROVE RestInv'
<1>1. PICK loc \in purge : RemoveDir(loc) /\ purge' = purge \ {loc}
  BY DEF PurgeTarget, RemoveDirPartly, Spared
<1>2. UNCHANGED <<now, call, up, forged>> /\ up = "purging" /\ \A u \in Threads : ~Busy(u)
  BY DEF PurgeTarget, Inv, QuietInv
<1>3. loc \in Payload
  BY <1>1 DEF Inv, PurgeInv
<1>4. /\ \A i \in Items : \A c : Stored(i, c)' => Stored(i, c) /\ where'[i] = where[i] /\ where[i] # loc
      /\ \A c \in Batches : Readable(c)' <=> Readable(c) /\ (loc.vol = Central => c # loc.batch)
      /\ \A c : c \in dirs' <=> c \in dirs /\ (loc.vol = Central => c # loc.batch)
  BY <1>1, <1>3, RemovedWhole
<1>5. \A u \in Threads, c \in Batches : ~Fills(u, c) /\ ~Empties(u, c) /\ ~Fills(u, c)' /\ ~Empties(u, c)'
  BY <1>2 DEF Fills, Empties, Busy
<1>6. DirsInv'
  BY <1>4, <1>5 DEF RestInv, DirsInv, Inv, Typed
<1>7. HeldInv'
  <2> SUFFICES ASSUME NEW c \in Batches, NEW i \in Items, Stored(i, c)'
               PROVE  Readable(c)' \/ where'[i] \in purge'
    BY DEF HeldInv
  <2>1. Readable(c) \/ where[i] \in purge
    BY <1>4, <1>5 DEF RestInv, HeldInv
  <2>2. c = loc.batch => where[i] \in purge
    BY <1>1, <1>4 DEF RestInv, WholeInv
  <2> QED BY <1>1, <1>4, <2>1, <2>2
<1>8. EmptyInv'
  BY <1>5 DEF EmptyInv
<1>9. WholeInv'
  <2>1. \A c \in purge', i \in Items : Stored(i, c.batch)' => where'[i] \in purge'
    <3> SUFFICES ASSUME NEW c \in purge', NEW i \in Items, Stored(i, c.batch)'
                 PROVE  where'[i] \in purge'
      OBVIOUS
    <3>1. c \in purge
      BY <1>1
    <3> QED BY <1>1, <1>4, <3>1 DEF RestInv, WholeInv
  <2>2. \A i \in Items : where'[i] \in Payload => ~(now >= where'[i].batch + Retention) \/ where'[i] \in purge'
    <3> SUFFICES ASSUME NEW i \in Items, where'[i] \in Payload
                 PROVE  ~(now >= where'[i].batch + Retention) \/ where'[i] \in purge'
      OBVIOUS
    <3>1. where'[i] = where[i] /\ where[i] # loc
      BY <1>4 DEF Stored
    <3> QED BY <1>1, <1>2, <3>1 DEF RestInv, WholeInv, Expired
  <2> QED BY <1>2, <2>1, <2>2 DEF WholeInv, Stored, Expired
<1> QED BY <1>2, <1>6, <1>7, <1>8, <1>9 DEF RestInv

LEMMA StartRest == ASSUME Inv, RestInv, Start PROVE RestInv'
<1>1. /\ up = "down" /\ up' = "purging"
      /\ UNCHANGED <<now, where, dirs, dirAt, manifest, call, offered, forged>>
      /\ \A u \in Threads : ~Busy(u)
  BY DEF Start, Inv, QuietInv
<1>2. \A u \in Threads, c \in Batches : ~Fills(u, c) /\ ~Empties(u, c) /\ ~Fills(u, c)' /\ ~Empties(u, c)'
  BY <1>1 DEF Fills, Empties, Busy
\* Every directory has a manifest now, and all that is stored is listed.
<1>3. \A b \in Batches, i \in Items : Stored(i, b) => Readable(b) /\ b \in dirs
  BY <1>1, <1>2 DEF RestInv, DirsInv, HeldInv, WholeInv
<1>4. \A b \in dirs : Readable(b)
  BY <1>2 DEF RestInv, DirsInv, Inv, Typed
\* Nothing has been forged, so that a manifest speaks of its own batch.
<1>10. \A b \in dirs : /\ manifest[b].head.id = b /\ manifest[b].head.created = b
                        /\ Reach(manifest[b].head.id, manifest[b].entries) = Targets(b)
  BY <1>4 DEF Inv, Typed, HeadInv, Vouches, RestInv, Targets
<1>5. \A loc \in purge' : \E b \in dirs : Expired(b) /\ loc \in Targets(b)
  <2> DEFINE Whole == UNION {Reach(m.head.id, m.entries) : m \in {x \in Batched : Expired(x.head.created)}}
             Dead  == {[batch |-> b, vol |-> Central] : b \in {x \in dirs : ~Readable(x) /\ LongDead(x)}}
  <2>1. purge' = Whole \cup Dead
    BY DEF Start
  <2>2. Dead = {}
    BY <1>4
  <2>3. \A loc \in Whole : \E b \in dirs : Expired(b) /\ loc \in Targets(b)
    BY <1>10 DEF Batched
  <2> HIDE DEF Whole, Dead
  <2> QED BY <2>1, <2>2, <2>3
<1>6. \A b \in dirs : Expired(b) => Targets(b) \subseteq purge'
  <2> SUFFICES ASSUME NEW b \in dirs, Expired(b) PROVE Targets(b) \subseteq purge'
    OBVIOUS
  <2>1. manifest[b] \in {x \in Batched : Expired(x.head.created)}
    BY <1>4, <1>10 DEF Batched
  <2> QED BY <1>10, <2>1 DEF Start
<1>7. \A i \in Items, b \in Batches : Stored(i, b) /\ Expired(b) => where[i] \in purge'
  BY <1>3, <1>6, TargetsWhole DEF RestInv
<1>8. DirsInv' /\ HeldInv' /\ EmptyInv'
  BY <1>1, <1>2, <1>3, <1>4 DEF DirsInv, HeldInv, EmptyInv, Readable, Stored, RestInv
<1>9. WholeInv'
  <2>1. \A loc \in purge', i \in Items : Stored(i, loc.batch) => where[i] \in purge'
    <3> SUFFICES ASSUME NEW loc \in purge', NEW i \in Items, Stored(i, loc.batch)
                 PROVE  where[i] \in purge'
      OBVIOUS
    <3>1. PICK b \in dirs : Expired(b) /\ loc \in Targets(b)
      BY <1>5
    <3>2. b \in Batches
      BY DEF Inv, Typed
    <3> QED BY <1>7, <3>1, <3>2, TargetsInBatch DEF Targets
  <2>2. \A i \in Items : where[i] \in Payload => ~Expired(where[i].batch) \/ where[i] \in purge'
    <3>1. \A i \in Items : where[i] \in Payload => where[i].batch \in Batches
      BY DEF Payload
    <3> QED BY <1>7, <3>1 DEF Stored
  <2> QED BY <1>1, <2>1, <2>2 DEF WholeInv, Stored, Expired
<1> QED BY <1>1, <1>8, <1>9 DEF RestInv

LEMMA InitRest == Init => RestInv
<1> SUFFICES ASSUME Init PROVE RestInv
  OBVIOUS
<1>1. \A t \in Threads : call[t].kind = "none"
  BY NoCallIsNone DEF Init
<1>2. \A i \in Items : where[i] \notin Payload
  BY FatesApart DEF Init, Fates
<1>3. dirs = {} /\ forged = {} /\ purge = {} /\ \A b \in Batches : ~Readable(b)
  BY DEF Init, Readable
<1> QED BY <1>1, <1>2, <1>3 DEF RestInv, DirsInv, HeldInv, EmptyInv, WholeInv, Empties, Stored

LEMMA StepRest == ASSUME Spared, Inv, RestInv, Step PROVE RestInv'
<1>1. CASE Tick
  BY <1>1, OutsideRest DEF Tick
<1>2. CASE \E i \in Items : UserSaves(i)
  <2>1. PICK i \in Items : UserSaves(i)
    BY <1>2
  <2>2. IsPlace([path |-> Home[i], n |-> 0])
    BY DEF IsPlace
  <2>3. \A j \in Items : where'[j] \in Payload => where'[j] = where[j]
    BY <2>1, <2>2, PlacesApart DEF UserSaves, Inv, Typed
  <2> QED BY <2>1, <2>3, OutsideRest DEF UserSaves
<1>3. CASE Repaint
  BY <1>3, OutsideRest DEF Repaint
<1>4. ASSUME NEW t \in Threads,
             \/ Recycle(t) \/ StoreSource(t) \/ SkipSource(t) \/ FinishRecycle(t)
             \/ \E b \in Batches : Restore(t, b) \/ Delete(t, b)
             \/ SkipEntry(t) \/ AimEntry(t) \/ LandEntry(t) \/ MissEntry(t)
             \/ FinishRestore(t) \/ RemoveTarget(t) \/ FinishRemove(t)
      PROVE  RestInv'
  <2>1. CASE Recycle(t) \/ StoreSource(t) \/ FinishRecycle(t)
    BY <2>1, RecycleRest, StoreSourceRest, FinishRecycleRest
  <2>2. CASE \E b \in Batches : Restore(t, b) \/ Delete(t, b)
    BY <2>2, RestoreRest, DeleteRest
  <2>3. CASE SkipSource(t) \/ SkipEntry(t) \/ AimEntry(t) \/ MissEntry(t)
    BY <2>3, MovingRest
  <2>4. CASE LandEntry(t)
    BY <2>4, LandEntryRest
  <2>5. CASE FinishRestore(t) \/ RemoveTarget(t) \/ FinishRemove(t)
    BY <2>5, FinishRestoreRest, RemoveTargetRest, FinishRemoveRest
  <2> QED BY <1>4, <2>1, <2>2, <2>3, <2>4, <2>5
<1>5. CASE Start
  BY <1>5, StartRest
<1>6. CASE PurgeTarget
  BY <1>6, PurgeTargetRest
<1>7. CASE Serve \/ Stop
  <2>1. /\ UNCHANGED <<now, where, dirs, manifest, call, purge, forged>> /\ up' # "purging" /\ purge' = {}
    BY <1>7 DEF Serve, Stop, RestInv, WholeInv
  <2>2. DirsInv' /\ HeldInv' /\ EmptyInv'
    BY <2>1 DEF RestInv, DirsInv, HeldInv, EmptyInv, Readable, Stored, Fills, Empties
  <2> QED BY <2>1, <2>2 DEF RestInv, WholeInv
<1>8. ~Crash /\ \A b \in Batches : ~Break(b) /\ ~Add(b) /\ ~Forge(b)
  BY DEF Spared, Crash, Break, Add, Forge
<1> QED BY <1>1, <1>2, <1>3, <1>4, <1>5, <1>6, <1>7, <1>8 DEF Step

LEMMA TroubleStays == Spec => [](trouble \in Troubles)
<1>1. Init => trouble \in Troubles
  BY DEF Init
<1>2. trouble \in Troubles /\ [Next]_vars => (trouble \in Troubles)'
  BY DEF Next, vars
<1> QED BY <1>1, <1>2, PTL DEF Spec

LEMMA RestHolds == ASSUME Undamaged PROVE Spec => []RestInv
<1>1. Inv /\ RestInv /\ trouble \in Troubles /\ [Next]_vars => RestInv'
  <2> SUFFICES ASSUME Inv, RestInv, trouble \in Troubles, [Next]_vars PROVE RestInv'
    OBVIOUS
  <2>1. CASE Step
    BY <2>1, StepRest DEF Undamaged, Spared
  <2>2. CASE UNCHANGED vars
    BY <2>2 DEF vars, RestInv, DirsInv, HeldInv, EmptyInv, WholeInv, Readable, Stored, Fills, Empties, Expired
  <2> QED BY <2>1, <2>2 DEF Next
<1> QED BY <1>1, InitRest, InvHolds, TroubleStays, PTL DEF Spec

LEMMA RestIsRestorable == ASSUME Inv, RestInv PROVE Restorable
<1> SUFFICES ASSUME NEW i \in Items, where[i] \in Payload PROVE Listed(i) \/ InHand(i)
  BY DEF Restorable
<1> DEFINE b == where[i].batch
<1>1. b \in Batches /\ Stored(i, b)
  BY DEF Payload, Stored
<1>2. CASE Readable(b)
  BY <1>1, <1>2 DEF Inv, RestInv, ListInv, Names, Listed
<1>3. CASE \E t \in Threads : Fills(t, b)
  BY <1>1, <1>3 DEF Inv, RestInv, Filling, Own, Fills, Names, InHand
<1>4. CASE \E t \in Threads : Empties(t, b)
  BY <1>1, <1>4 DEF RestInv, EmptyInv, Empties, InHand
<1>5. CASE where[i] \in purge
  BY <1>5 DEF InHand
<1> QED BY <1>1, <1>2, <1>3, <1>4, <1>5 DEF RestInv, HeldInv

\* Whatever is in the store is listed by a manifest, where it is, or is in the
\* hands of an operation that is still running (recycle_paths, restore_batch,
\* delete_batch): no interleaving of them leaves a file behind.
THEOREM StaysRestorable == ASSUME Undamaged PROVE Spec => []Restorable
<1>1. Inv /\ RestInv => Restorable
  BY RestIsRestorable
<1> QED BY <1>1, InvHolds, RestHolds, PTL

\* When purge_expired is through, nothing of an expired batch is left on any
\* volume.
THEOREM PurgeCompletes == ASSUME Undamaged PROVE Spec => []PurgeIsComplete
<1>1. RestInv => PurgeIsComplete
  BY DEF RestInv, WholeInv, PurgeIsComplete
<1> QED BY <1>1, RestHolds, PTL

\* When purge_expired is through, every batch that still holds a file has its
\* directory in the central store, where the next purge looks for it.
THEOREM PurgeOrphansNothing == ASSUME Undamaged PROVE Spec => []PurgeLeavesNoOrphans
<1>1. Inv /\ RestInv => PurgeLeavesNoOrphans
  <2> SUFFICES ASSUME Inv, RestInv, up = "purging", purge = {}, NEW i \in Items, where[i] \in Payload
               PROVE  where[i].batch \in dirs
    BY DEF PurgeLeavesNoOrphans
  <2>1. where[i].batch \in Batches /\ Stored(i, where[i].batch)
    BY DEF Payload, Stored
  <2>2. \A t \in Threads, b \in Batches : ~Fills(t, b) /\ ~Empties(t, b)
    BY DEF Inv, QuietInv, Busy, Fills, Empties
  <2> QED BY <2>1, <2>2 DEF RestInv, HeldInv, DirsInv
<1> QED BY <1>1, InvHolds, RestHolds, PTL

-----------------------------------------------------------------------------
(* The destination of a restore: a free name is found, not far from the    *)
(* original one.                                                           *)

\* Every set of numbers has a least one.
LEMMA LeastOf == ASSUME NEW T, T \subseteq Nat, T # {} PROVE \E x \in T : \A y \in T : x <= y
<1>1. PICK x \in T : \A y \in T : <<y, x>> \notin OpToRel(<, Nat)
  BY NatLessThanWellFounded, WFMin
<1>2. \A y \in T : ~(y < x)
  BY <1>1 DEF OpToRel
<1> QED BY <1>2

\* As many files as there are: one name more than that cannot all be taken.
Many == Cardinality(Items)

LEMMA ManyType == Many \in Nat /\ IsFiniteSet(Items)
BY FS_CardinalityType, RecycleStoreAssumption DEF Many

LEMMA SomeFree ==
    ASSUME NEW orig \in Outside
    PROVE  \E n \in orig.n .. orig.n + Many : ~Occupied([orig EXCEPT !.n = n])
<1> DEFINE D == orig.n .. orig.n + Many
           f == [m \in D |-> CHOOSE i \in Items : where[i] = [orig EXCEPT !.n = m]]
<1>0. orig.n \in Nat
  BY DEF Outside, Suffixes
<1> SUFFICES ASSUME \A n \in D : Occupied([orig EXCEPT !.n = n]) PROVE FALSE
  OBVIOUS
<1>1. IsFiniteSet(D) /\ Cardinality(D) = Many + 1
  BY <1>0, ManyType, FS_Interval
<1>2. \A m \in D : f[m] \in Items /\ where[f[m]] = [orig EXCEPT !.n = m]
  BY DEF Occupied
<1>3. f \in [D -> Items]
  BY <1>2
<1> HIDE DEF f, D
<1>4. PICK x, y \in D : x # y /\ f[x] = f[y]
  BY <1>1, <1>3, ManyType, FS_PigeonHole DEF Many
<1>5. [orig EXCEPT !.n = x].n = x /\ [orig EXCEPT !.n = y].n = y
  BY DEF Outside
<1> QED BY <1>2, <1>4, <1>5

LEMMA FreeName ==
    ASSUME NEW orig \in Outside, orig.n + Many <= Many * (MaxTime + 1)
    PROVE  /\ ~Occupied(UniqueDestination(orig))
           /\ UniqueDestination(orig).n \in Nat
           /\ UniqueDestination(orig).n <= orig.n + Many
<1> DEFINE Free(n) == ~Occupied([orig EXCEPT !.n = n])
           P(n) == /\ n > orig.n /\ ~Occupied([orig EXCEPT !.n = n])
                   /\ \A m \in orig.n + 1 .. n - 1 : Occupied([orig EXCEPT !.n = m])
<1>0. orig.n \in Nat /\ Many \in Nat
  BY ManyType DEF Outside, Suffixes
<1>1. CASE ~Occupied(orig)
  BY <1>0, <1>1 DEF UniqueDestination
<1>2. CASE Occupied(orig)
  <2>1. PICK k \in orig.n .. orig.n + Many : Free(k)
    BY SomeFree
  <2>2. k \in Nat /\ k > orig.n
    <3>1. [orig EXCEPT !.n = orig.n] = orig
      BY DEF Outside
    <3>2. k # orig.n
      BY <1>2, <2>1, <3>1
    <3> QED BY <1>0, <2>1, <3>2
  <2> DEFINE T == {n \in Nat : n > orig.n /\ Free(n)}
  <2>3. PICK x \in T : \A y \in T : x <= y
    <3>1. k \in T
      BY <2>1, <2>2
    <3> HIDE DEF T
    <3>2. T \subseteq Nat
      BY DEF T
    <3> QED BY <3>1, <3>2, LeastOf
  <2>4. x \in Nat /\ x > orig.n /\ Free(x) /\ x <= k /\ \A m \in orig.n + 1 .. x - 1 : ~Free(m)
    <3>1. \A m \in orig.n + 1 .. x - 1 : m \in Nat /\ m > orig.n /\ ~(x <= m)
      BY <1>0, <2>3
    <3> HIDE DEF Free
    <3> QED BY <2>1, <2>2, <2>3, <3>1
  <2>5. x \in Suffixes
    <3>1. Many * (MaxTime + 1) \in Nat
      BY <1>0, RecycleStoreAssumption
    <3>2. x <= orig.n + Many
      BY <1>0, <2>1, <2>4
    <3>3. x <= Many * (MaxTime + 1)
      BY <1>0, <2>4, <3>1, <3>2
    <3> QED BY <2>4, <3>1, <3>3 DEF Suffixes, Many
  <2>6. \E n \in Suffixes : P(n)
    BY <2>4, <2>5
  <2> DEFINE n == CHOOSE m \in Suffixes : P(m)
  <2>7. n \in Suffixes /\ P(n)
    BY <2>6
  <2>8. UniqueDestination(orig) = [orig EXCEPT !.n = n]
    BY <1>2 DEF UniqueDestination
  <2> HIDE DEF n
  <2>9. n \in Nat
    <3>1. Many * (MaxTime + 1) \in Nat
      BY <1>0, RecycleStoreAssumption
    <3> QED BY <2>7, <3>1 DEF Suffixes, Many
  <2>10. n <= orig.n + Many
    <3>1. ~(k \in orig.n + 1 .. n - 1)
      BY <2>1, <2>7
    <3> QED BY <1>0, <2>1, <2>2, <2>9, <3>1
  <2>11. [orig EXCEPT !.n = n].n = n
    BY DEF Outside
  <2> QED BY <2>7, <2>8, <2>9, <2>10, <2>11
<1> QED BY <1>1, <1>2

\* A name is used once for every restore at most, so that a tick leaves room
\* for as many as there are files.
LEMMA Room ==
    ASSUME NEW b \in Nat, NEW c \in Nat, b < c
    PROVE  Many * b \in Nat /\ Many * c \in Nat /\ Many * b + Many <= Many * c
<1>1. Many \in Nat /\ c = b + 1 + (c - b - 1) /\ c - b - 1 \in Nat
  BY ManyType
<1>2. Many * c = Many * b + Many + Many * (c - b - 1)
  BY <1>1
<1>3. Many * (c - b - 1) \in Nat /\ Many * b \in Nat
  BY <1>1
<1> QED BY <1>1, <1>2, <1>3

LEMMA RoomEq ==
    ASSUME NEW b \in Nat, NEW c \in Nat, b <= c
    PROVE  Many * b \in Nat /\ Many * c \in Nat /\ Many * b <= Many * c
<1>1. CASE b = c
  BY <1>1, ManyType
<1>2. CASE b < c
  BY <1>2, Room, ManyType
<1> QED BY <1>1, <1>2

\* The numbers that names may have when the clock is at T: those in use then, and
\* those that were in use a tick before.  Every round through the store takes a
\* tick, so that what a manifest or a thread remembers is always the latter, even
\* when it stands in the manifest of another batch.
Fits(n, T) == n \in Nat /\ n <= Many * T
Past(n, T) == n \in Nat /\ n + Many <= Many * T

NumberedCall(c, T) ==
    /\ \A e \in c.entries \cup c.kept : Past(e.orig.n, T)
    /\ \A s \in c.sources : Past(s.n, T)
    /\ c.at = "landing" => Past(c.aim.entry.orig.n, T) /\ Fits(c.aim.dest.n, T)

NumberInv ==
    /\ now <= MaxTime
    /\ \A i \in Items : IsPlace(where[i]) => Fits(where[i].n, now)
    /\ \A b \in Batches : Readable(b) => \A e \in manifest[b].entries : Past(e.orig.n, now)
    /\ \A t \in Threads : Busy(t) => NumberedCall(call[t], now)

LEMMA Later ==
    ASSUME NEW n, NEW T \in Nat, NEW U \in Nat, T <= U
    PROVE  (Fits(n, T) => Fits(n, U)) /\ (Past(n, T) => Past(n, U))
<1>1. Many * T \in Nat /\ Many * U \in Nat /\ Many * T <= Many * U /\ Many \in Nat
  BY RoomEq, ManyType
<1> QED BY <1>1 DEF Fits, Past

LEMMA NumberStep ==
    ASSUME Inv, NumberInv, now' \in Nat, now <= now', now' <= MaxTime,
           \A i \in Items : where'[i] = where[i] \/ ~IsPlace(where'[i]) \/ Fits(where'[i].n, now'),
           \A b \in Batches : manifest'[b] \in {manifest[b], NoManifest, BadManifest}
                                 \/ \A e \in manifest'[b].entries : Past(e.orig.n, now'),
           \A t \in Threads : call'[t] = call[t] \/ call'[t].kind = "none" \/ NumberedCall(call'[t], now')
    PROVE  NumberInv'
<1>1. now \in Nat /\ \A n : (Fits(n, now) => Fits(n, now')) /\ (Past(n, now) => Past(n, now'))
  BY Later DEF Inv, Typed
<1>2. \A i \in Items : IsPlace(where'[i]) => Fits(where'[i].n, now')
  BY <1>1 DEF NumberInv
<1>3. \A b \in Batches : Readable(b)' => \A e \in manifest'[b].entries : Past(e.orig.n, now')
  BY <1>1 DEF NumberInv, Readable
<1>4. ASSUME NEW t \in Threads, Busy(t)' PROVE NumberedCall(call'[t], now')
  <2>1. CASE call'[t] = call[t]
    <3>1. NumberedCall(call[t], now)
      BY <1>4, <2>1 DEF NumberInv, Busy
    <3> QED BY <1>1, <2>1, <3>1 DEF NumberedCall
  <2> QED BY <1>4, <2>1 DEF Busy
<1> QED BY <1>2, <1>3, <1>4 DEF NumberInv, NumberedCall, Fits, Past, Many

LEMMA InitNumber == Init => NumberInv
<1> SUFFICES ASSUME Init PROVE NumberInv
  OBVIOUS
<1>1. \A t \in Threads : call[t].kind = "none"
  BY NoCallIsNone DEF Init
<1>2. \A i \in Items : ~IsPlace(where[i])
  <2>1. DOMAIN Absent = {"fate"}
    BY DEF Absent
  <2>2. {"fate"} # {"path", "n"}
    OBVIOUS
  <2> QED BY <2>1, <2>2 DEF Init, IsPlace
<1>3. \A b \in Batches : ~Readable(b)
  BY DEF Init, Readable
<1>4. now <= MaxTime
  BY RecycleStoreAssumption DEF Init
<1> QED BY <1>1, <1>2, <1>3, <1>4 DEF NumberInv, Busy

\* A thread's own step: no file moves.
LEMMA NumberOwn ==
    ASSUME Inv, NumberInv, NEW t \in Threads, UNCHANGED <<now, where>>,
           \A u \in Threads : u # t => call'[u] = call[u],
           call'[t].kind = "none" \/ NumberedCall(call'[t], now),
           \A b \in Batches : manifest'[b] = manifest[b] \/ \A e \in manifest'[b].entries : Past(e.orig.n, now)
    PROVE  NumberInv'
<1>1. now \in Nat /\ now <= MaxTime
  BY DEF Inv, Typed, NumberInv
<1>2. \A u \in Threads : call'[u] = call[u] \/ call'[u].kind = "none" \/ NumberedCall(call'[u], now')
  OBVIOUS
<1>3. \A b \in Batches : manifest'[b] \in {manifest[b], NoManifest, BadManifest}
                          \/ \A e \in manifest'[b].entries : Past(e.orig.n, now')
  OBVIOUS
<1> QED BY <1>1, <1>2, <1>3, NumberStep

\* What was in use a tick ago leaves room for as many names as there are files.
LEMMA PastFinds ==
    ASSUME Inv, NumberInv, NEW n, Past(n, now)
    PROVE  n + Many <= Many * (MaxTime + 1)
<1>1. now \in Nat /\ MaxTime + 1 \in Nat /\ now <= MaxTime + 1
  BY RecycleStoreAssumption DEF Inv, Typed, NumberInv
<1>2. Many \in Nat /\ Many * now \in Nat /\ Many * (MaxTime + 1) \in Nat /\ Many * now <= Many * (MaxTime + 1)
  BY <1>1, RoomEq, ManyType
<1> QED BY <1>2 DEF Past

LEMMA MovingNumber ==
    ASSUME Inv, NumberInv, NEW t \in Threads,
           SkipSource(t) \/ SkipEntry(t) \/ MissEntry(t) \/ AimEntry(t)
    PROVE  NumberInv'
<1>1. Busy(t) /\ TypedCall(call[t]) /\ call[t].batch < now
  BY AtWork DEF SkipSource, SkipEntry, AimEntry, MissEntry, Doing, Busy
<1>2. /\ UNCHANGED <<now, where, manifest, forged>>
      /\ \A u \in Threads : u # t => call'[u] = call[u]
  BY DEF SkipSource, SkipEntry, AimEntry, MissEntry, Inv, Typed
<1>3. DOMAIN call = Threads /\ DOMAIN call[t] = Fields /\ NumberedCall(call[t], now)
  BY <1>1 DEF Inv, Typed, TypedCall, NumberInv
<1>4. NumberedCall(call'[t], now)
  <2>1. CASE SkipSource(t)
    <3>1. PICK src \in call[t].sources : call' = [call EXCEPT ![t].sources = @ \ {src}]
      BY <2>1 DEF SkipSource
    <3>2. /\ call'[t].batch = call[t].batch /\ call'[t].at = call[t].at /\ call'[t].aim = call[t].aim
          /\ call'[t].entries = call[t].entries /\ call'[t].kept = call[t].kept
          /\ call'[t].sources = call[t].sources \ {src}
      BY <1>3, <3>1 DEF Fields
    <3> QED BY <1>3, <3>2 DEF NumberedCall
  <2>2. CASE SkipEntry(t)
    <3>1. PICK e \in call[t].entries : call' = [call EXCEPT ![t].entries = @ \ {e}, ![t].kept = @ \cup {e}]
      BY <2>2 DEF SkipEntry
    <3>2. /\ call'[t].batch = call[t].batch /\ call'[t].at = call[t].at /\ call'[t].aim = call[t].aim
          /\ call'[t].entries = call[t].entries \ {e} /\ call'[t].kept = call[t].kept \cup {e}
          /\ call'[t].sources = call[t].sources
      BY <1>3, <3>1 DEF Fields
    <3> QED BY <1>3, <3>2 DEF NumberedCall
  <2>3. CASE MissEntry(t)
    <3>1. /\ call' = [call EXCEPT ![t].at = "moving", ![t].aim = Nothing, ![t].kept = @ \cup {call[t].aim.entry}]
          /\ call[t].at = "landing"
      BY <2>3 DEF MissEntry, Doing
    <3>2. /\ call'[t].batch = call[t].batch /\ call'[t].at = "moving"
          /\ call'[t].entries = call[t].entries /\ call'[t].kept = call[t].kept \cup {call[t].aim.entry}
          /\ call'[t].sources = call[t].sources
      BY <1>3, <3>1 DEF Fields
    <3> QED BY <1>3, <3>1, <3>2 DEF NumberedCall
  <2>4. CASE AimEntry(t)
    <3>1. PICK e \in call[t].entries :
              call' = [call EXCEPT ![t].at = "landing", ![t].entries = @ \ {e},
                                   ![t].aim = [entry |-> e, dest |-> UniqueDestination(e.orig)]]
      BY <2>4 DEF AimEntry
    <3> DEFINE d == UniqueDestination(e.orig)
    <3>2. /\ call'[t].batch = call[t].batch /\ call'[t].at = "landing"
          /\ call'[t].aim = [entry |-> e, dest |-> d]
          /\ call'[t].entries = call[t].entries \ {e} /\ call'[t].kept = call[t].kept
          /\ call'[t].sources = call[t].sources
      BY <1>3, <3>1 DEF Fields
    <3>3. e.orig \in Outside /\ Past(e.orig.n, now)
      BY <1>1, <1>3, <3>1 DEF TypedCall, Entry, NumberedCall
    <3>4. Fits(d.n, now)
      <4>1. e.orig.n + Many <= Many * (MaxTime + 1)
        BY <3>3, PastFinds
      <4>2. d.n \in Nat /\ d.n <= e.orig.n + Many
        BY <3>3, <4>1, FreeName
      <4>3. Many * now \in Nat /\ Many \in Nat
        BY ManyType DEF Inv, Typed
      <4> HIDE DEF d
      <4> QED BY <3>3, <4>2, <4>3 DEF Fits, Past
    <3> HIDE DEF d
    <3>5. call'[t].aim.entry = e /\ call'[t].aim.dest = d
      BY <3>2
    <3> QED BY <1>3, <3>2, <3>3, <3>4, <3>5 DEF NumberedCall
  <2> QED BY <2>1, <2>2, <2>3, <2>4
<1> QED BY <1>2, <1>4, NumberOwn

LEMMA OpenNumber ==
    ASSUME Inv, NumberInv, NEW t \in Threads, NEW b \in Batches, Restore(t, b) \/ Delete(t, b)
    PROVE  NumberInv'
<1>1. UNCHANGED <<now, where, manifest, forged>> /\ \A u \in Threads : u # t => call'[u] = call[u]
  BY DEF Restore, Delete, Begin, Inv, Typed
<1>2. CASE Restore(t, b)
  <2>1. Readable(b) /\ call'[t] = [Fresh("restore", "moving", b) EXCEPT !.head = manifest[b].head,
                                                                       !.entries = manifest[b].entries]
    BY <1>2 DEF Restore, Begin, Inv, Typed
  <2>2. /\ call'[t].at = "moving" /\ call'[t].batch = b
        /\ call'[t].sources = {} /\ call'[t].kept = {} /\ call'[t].entries = manifest[b].entries
    BY <2>1 DEF Fresh
  <2>3. NumberedCall(call'[t], now)
    BY <2>1, <2>2 DEF NumberedCall, NumberInv
  <2> QED BY <1>1, <2>3, NumberOwn
<1>3. CASE Delete(t, b)
  <2>1. call'[t] = [Fresh("delete", "removing", b) EXCEPT !.targets = Targets(b)]
    BY <1>3 DEF Delete, Begin, Inv, Typed
  <2>2. call'[t].at = "removing" /\ call'[t].sources = {} /\ call'[t].kept = {} /\ call'[t].entries = {}
    BY <2>1 DEF Fresh
  <2>3. NumberedCall(call'[t], now)
    BY <2>2 DEF NumberedCall
  <2> QED BY <1>1, <2>3, NumberOwn
<1> QED BY <1>2, <1>3

LEMMA WrittenNumbers ==
    ASSUME Inv, NumberInv, NEW t \in Threads, Busy(t), WriteManifest(call[t].head, call[t].kept)
    PROVE  \A b \in Batches : manifest'[b] = manifest[b] \/ \A e \in manifest'[b].entries : Past(e.orig.n, now)
<1>1. \A e \in call[t].kept : Past(e.orig.n, now)
  BY DEF NumberInv, NumberedCall
<1>2. DOMAIN manifest = Batches
  BY DEF Inv, Typed
<1>3. \/ manifest' = manifest
      \/ manifest' = [manifest EXCEPT ![call[t].head.id] = [head |-> call[t].head, entries |-> call[t].kept]]
  BY DEF WriteManifest
<1> QED BY <1>1, <1>2, <1>3

LEMMA FinishNumber ==
    ASSUME Inv, NumberInv, NEW t \in Threads, FinishRecycle(t) \/ FinishRestore(t) \/ FinishRemove(t)
    PROVE  NumberInv'
<1>1. Busy(t) /\ TypedCall(call[t])
  BY AtWork DEF FinishRecycle, FinishRestore, FinishRemove, Doing, Busy
<1>2. UNCHANGED <<now, where>> /\ \A u \in Threads : u # t => call'[u] = call[u]
  BY DEF FinishRecycle, FinishRestore, FinishRemove, End, Inv, Typed
<1>3. CASE End(t) /\ WriteManifest(call[t].head, call[t].kept)
  <2>1. call'[t].kind = "none"
    BY <1>3, NoCallIsNone DEF End, Inv, Typed
  <2> QED BY <1>1, <1>2, <1>3, <2>1, WrittenNumbers, NumberOwn
<1>4. CASE End(t) /\ manifest' = manifest
  <2>1. call'[t].kind = "none"
    BY <1>4, NoCallIsNone DEF End, Inv, Typed
  <2> QED BY <1>2, <1>4, <2>1, NumberOwn
<1>5. CASE call' = [call EXCEPT ![t].at = "removing", ![t].targets = Targets(call[t].batch)] /\ manifest' = manifest
  <2>1. /\ call'[t].batch = call[t].batch /\ call'[t].at = "removing"
        /\ call'[t].entries = call[t].entries /\ call'[t].kept = call[t].kept
        /\ call'[t].sources = call[t].sources
    BY <1>1, <1>5 DEF Inv, Typed, TypedCall, Fields
  <2>2. NumberedCall(call'[t], now)
    BY <1>1, <2>1 DEF NumberInv, NumberedCall
  <2> QED BY <1>2, <1>5, <2>2, NumberOwn
<1> QED BY <1>3, <1>4, <1>5 DEF FinishRecycle, FinishRestore, FinishRemove

LEMMA NotPlaces == \A x : (x \in Payload \/ x \in Fates) => ~IsPlace(x)
<1>1. \A x \in Fates : DOMAIN x = {"fate"}
  BY DEF Fates, Absent, Destroyed, Clobbered
<1>2. {"fate"} # {"path", "n"}
  OBVIOUS
<1> QED BY <1>1, <1>2, PlacesApart DEF IsPlace

LEMMA LandEntryNumber == ASSUME Inv, NumberInv, NEW t \in Threads, LandEntry(t) PROVE NumberInv'
<1> DEFINE d == call[t].aim.dest
<1>1. /\ where' = [i \in Items |-> IF i = call[t].aim.entry.item THEN d
                                   ELSE IF where[i] = d THEN Clobbered ELSE where[i]]
      /\ call' = [call EXCEPT ![t].at = "moving", ![t].aim = Nothing]
      /\ UNCHANGED <<now, manifest>>
  BY DEF LandEntry
<1>2. Busy(t) /\ TypedCall(call[t]) /\ call[t].at = "landing" /\ NumberedCall(call[t], now)
  BY AtWork DEF LandEntry, Doing, Busy, NumberInv
<1>3. /\ \A u \in Threads : u # t => call'[u] = call[u]
      /\ call'[t].batch = call[t].batch /\ call'[t].at = "moving"
      /\ call'[t].entries = call[t].entries /\ call'[t].kept = call[t].kept
      /\ call'[t].sources = call[t].sources
  BY <1>1, <1>2 DEF Inv, Typed, TypedCall, Fields
<1>4. Fits(d.n, now)
  BY <1>2 DEF NumberedCall
<1> HIDE DEF d
<1>5. \A i \in Items : where'[i] = where[i] \/ ~IsPlace(where'[i]) \/ Fits(where'[i].n, now)
  BY <1>1, <1>4, NotPlaces DEF Fates
<1>6. NumberedCall(call'[t], now')
  BY <1>1, <1>2, <1>3 DEF NumberedCall
<1>7. now \in Nat /\ now <= MaxTime
  BY DEF Inv, Typed, NumberInv
<1>8. \A u \in Threads : call'[u] = call[u] \/ call'[u].kind = "none" \/ NumberedCall(call'[u], now')
  BY <1>3, <1>6
<1>9. UNCHANGED <<now, manifest>>
  BY <1>1
<1> QED BY <1>5, <1>7, <1>8, <1>9, NumberStep

LEMMA RemovalNumber ==
    ASSUME Inv, NumberInv, NEW loc \in Payload, RemoveDir(loc) \/ RemoveDirPartly(loc), now' = now,
           \A u \in Threads : call'[u] = call[u] \/ NumberedCall(call'[u], now)
    PROVE  NumberInv'
<1>1. now \in Nat /\ now <= MaxTime
  BY DEF Inv, Typed, NumberInv
<1>2. \A i \in Items : where'[i] = where[i] \/ ~IsPlace(where'[i])
  BY RemoveDirSound, NotPlaces DEF Fates
<1>3. \A b \in Batches : manifest'[b] \in {manifest[b], NoManifest, BadManifest}
  BY RemoveDirSound
<1> QED BY <1>1, <1>2, <1>3, NumberStep

LEMMA RemoveTargetNumber == ASSUME Inv, NumberInv, NEW t \in Threads, RemoveTarget(t) PROVE NumberInv'
<1>1. PICK loc \in call[t].targets :
        /\ RemoveDir(loc) \/ RemoveDirPartly(loc)
        /\ call' = [call EXCEPT ![t].targets = @ \ {loc}]
  BY DEF RemoveTarget
<1>2. Busy(t) /\ TypedCall(call[t]) /\ loc \in Payload /\ NumberedCall(call[t], now)
  BY <1>1, AtWork DEF RemoveTarget, Doing, Busy, Inv, Removing, NumberInv
<1>3. /\ \A u \in Threads : u # t => call'[u] = call[u]
      /\ call'[t].batch = call[t].batch /\ call'[t].at = call[t].at /\ call'[t].aim = call[t].aim
      /\ call'[t].entries = call[t].entries /\ call'[t].kept = call[t].kept
      /\ call'[t].sources = call[t].sources
  BY <1>1, <1>2 DEF Inv, Typed, TypedCall, Fields
<1>4. NumberedCall(call'[t], now)
  BY <1>2, <1>3 DEF NumberedCall
<1>5. now' = now
  BY DEF RemoveTarget
<1> QED BY <1>1, <1>2, <1>3, <1>4, <1>5, RemovalNumber

LEMMA PurgeTargetNumber == ASSUME Inv, NumberInv, PurgeTarget PROVE NumberInv'
<1>1. PICK loc \in purge : RemoveDir(loc) \/ RemoveDirPartly(loc)
  BY DEF PurgeTarget
<1>2. loc \in Payload /\ UNCHANGED <<now, call>>
  BY <1>1 DEF PurgeTarget, Inv, PurgeInv
<1> QED BY <1>1, <1>2, RemovalNumber

LEMMA RecycleNumber == ASSUME Inv, NumberInv, NEW t \in Threads, Recycle(t) PROVE NumberInv'
<1>1. PICK S \in SUBSET {where[i] : i \in {j \in Items : where[j] \in Outside}} :
         call' = [call EXCEPT ![t] = [Fresh("recycle", "moving", now) EXCEPT !.sources = S]]
  BY DEF Recycle, Begin
<1>2. now' = now + 1 /\ now' <= MaxTime /\ UNCHANGED <<where, manifest>> /\ now \in Nat
  BY RecycleStoreAssumption DEF Recycle, Inv, Typed
<1>3. /\ \A u \in Threads : u # t => call'[u] = call[u]
      /\ call'[t] = [Fresh("recycle", "moving", now) EXCEPT !.sources = S]
  BY <1>1 DEF Inv, Typed
<1>4. /\ call'[t].batch = now /\ call'[t].at = "moving" /\ call'[t].entries = {} /\ call'[t].kept = {}
      /\ call'[t].sources = S
  BY <1>3 DEF Fresh
<1>5. \A s \in S : Past(s.n, now')
  <2> SUFFICES ASSUME NEW s \in S PROVE Past(s.n, now')
    OBVIOUS
  <2>1. PICK i \in Items : s = where[i] /\ where[i] \in Outside
    OBVIOUS
  <2>2. Fits(s.n, now)
    BY <2>1, OutsideIsPlace DEF NumberInv
  <2>3. Many \in Nat /\ Many * now \in Nat /\ Many * now' = Many * now + Many
    BY <1>2, ManyType
  <2> QED BY <2>2, <2>3 DEF Fits, Past
<1>6. NumberedCall(call'[t], now')
  BY <1>4, <1>5 DEF NumberedCall
<1>7. \A u \in Threads : call'[u] = call[u] \/ call'[u].kind = "none" \/ NumberedCall(call'[u], now')
  BY <1>3, <1>6
<1> QED BY <1>2, <1>7, NumberStep

LEMMA StoreSourceNumber == ASSUME Inv, NumberInv, NEW t \in Threads, StoreSource(t) PROVE NumberInv'
<1> DEFINE b == call[t].batch
<1>1. Busy(t) /\ TypedCall(call[t]) /\ NumberedCall(call[t], now) /\ call[t].at = "moving"
  BY AtWork DEF StoreSource, Doing, Busy, NumberInv
<1>2. PICK src \in call[t].sources, i \in Items :
         LET dest == [batch |-> b, vol |-> Volume[src.path]] IN
         /\ where' = [where EXCEPT ![i] = dest]
         /\ call' = [call EXCEPT ![t].sources = @ \ {src},
                                 ![t].kept = @ \cup {[orig |-> src, item |-> i, loc |-> dest]}]
  BY DEF StoreSource
<1> DEFINE dest == [batch |-> b, vol |-> Volume[src.path]]
           e    == [orig |-> src, item |-> i, loc |-> dest]
<1>3. UNCHANGED <<now, manifest>> /\ now \in Nat /\ now <= MaxTime
  BY DEF StoreSource, Inv, Typed, NumberInv
<1>4. \A j \in Items : where'[j] = where[j] \/ ~IsPlace(where'[j])
  <2>1. ~IsPlace(dest)
    <3>1. DOMAIN dest = {"batch", "vol"}
      OBVIOUS
    <3>2. {"batch", "vol"} # {"path", "n"}
      OBVIOUS
    <3> QED BY <3>1, <3>2 DEF IsPlace
  <2> QED BY <1>2, <2>1 DEF Inv, Typed
<1>5. e.orig = src
  OBVIOUS
<1>6. call' = [call EXCEPT ![t].sources = @ \ {src}, ![t].kept = @ \cup {e}]
  BY <1>2
<1> HIDE DEF e, dest
<1>7. /\ \A u \in Threads : u # t => call'[u] = call[u]
      /\ call'[t].batch = b /\ call'[t].at = "moving"
      /\ call'[t].entries = call[t].entries /\ call'[t].kept = call[t].kept \cup {e}
      /\ call'[t].sources = call[t].sources \ {src}
  BY <1>1, <1>6 DEF Inv, Typed, TypedCall, Fields
<1>8. NumberedCall(call'[t], now')
  BY <1>1, <1>2, <1>3, <1>5, <1>7 DEF NumberedCall
<1>9. \A u \in Threads : call'[u] = call[u] \/ call'[u].kind = "none" \/ NumberedCall(call'[u], now')
  BY <1>7, <1>8
<1> QED BY <1>3, <1>4, <1>9, NumberStep

LEMMA StepNumber == ASSUME Inv, NumberInv, Step PROVE NumberInv'
<1>0. now \in Nat /\ now <= MaxTime /\ Many \in Nat /\ Many * now \in Nat
  BY ManyType DEF Inv, Typed, NumberInv
<1>1. CASE (Tick \/ Repaint \/ Start \/ Serve \/ Stop)
  <2>1. UNCHANGED <<where, manifest, call, forged>> /\ now' \in Nat /\ now <= now' /\ now' <= MaxTime
    BY <1>0, <1>1, RecycleStoreAssumption DEF Tick, Repaint, Start, Serve, Stop
  <2> QED BY <2>1, NumberStep
<1>2. CASE \E i \in Items : UserSaves(i)
  <2>1. PICK i \in Items : UserSaves(i)
    BY <1>2
  <2>2. UNCHANGED <<now, manifest, call, forged>> /\ where' = [where EXCEPT ![i] = [path |-> Home[i], n |-> 0]]
    BY <2>1 DEF UserSaves
  <2>3. [path |-> Home[i], n |-> 0].n = 0
    OBVIOUS
  <2>4. \A j \in Items : where'[j] = where[j] \/ Fits(where'[j].n, now')
    BY <1>0, <2>2, <2>3 DEF Inv, Typed, Fits
  <2> QED BY <1>0, <2>2, <2>4, NumberStep
<1>3. ASSUME NEW t \in Threads,
             \/ Recycle(t) \/ StoreSource(t) \/ SkipSource(t) \/ FinishRecycle(t)
             \/ \E b \in Batches : Restore(t, b) \/ Delete(t, b)
             \/ SkipEntry(t) \/ AimEntry(t) \/ LandEntry(t) \/ MissEntry(t)
             \/ FinishRestore(t) \/ RemoveTarget(t) \/ FinishRemove(t)
      PROVE  NumberInv'
  <2>1. CASE Recycle(t) \/ StoreSource(t)
    BY <2>1, RecycleNumber, StoreSourceNumber
  <2>2. CASE \E b \in Batches : Restore(t, b) \/ Delete(t, b)
    BY <2>2, OpenNumber
  <2>3. CASE SkipSource(t) \/ SkipEntry(t) \/ AimEntry(t) \/ MissEntry(t)
    BY <2>3, MovingNumber
  <2>4. CASE LandEntry(t) \/ RemoveTarget(t)
    BY <2>4, LandEntryNumber, RemoveTargetNumber
  <2>5. CASE FinishRecycle(t) \/ FinishRestore(t) \/ FinishRemove(t)
    BY <2>5, FinishNumber
  <2> QED BY <1>3, <2>1, <2>2, <2>3, <2>4, <2>5
<1>4. CASE PurgeTarget
  BY <1>4, PurgeTargetNumber
<1>5. CASE Crash
  <2>1. PICK cut \in SUBSET BeingWritten :
          manifest' = [b \in Batches |-> IF b \in cut THEN BadManifest ELSE manifest[b]]
    BY <1>5 DEF Crash
  <2>2. UNCHANGED <<now, where>> /\ \A t \in Threads : call'[t].kind = "none"
    BY <1>5, NoCallIsNone DEF Crash
  <2>3. \A b \in Batches : manifest'[b] \in {manifest[b], BadManifest}
    BY <2>1
  <2> QED BY <1>0, <2>2, <2>3, NumberStep
<1>6. ASSUME NEW b \in Batches, Break(b) \/ Add(b) \/ Forge(b) PROVE NumberInv'
  <2>1. UNCHANGED <<now, where, call>> /\ Readable(b)
    BY <1>6 DEF Break, Add, Forge
  <2>2. /\ DOMAIN manifest = Batches /\ manifest[b] \in Manifest
        /\ \A e \in manifest[b].entries : Past(e.orig.n, now)
    BY <2>1 DEF Inv, Typed, Readable, NumberInv
  <2>3. /\ \A c \in Batches : c # b => manifest'[c] = manifest[c]
        /\ manifest'[b] = BadManifest \/ \A e \in manifest'[b].entries : Past(e.orig.n, now)
    <3>1. CASE Break(b)
      BY <2>2, <3>1 DEF Break
    <3>2. CASE Add(b)
      <4>1. PICK i \in {j \in Items : where[j] \in Locs} :
                 manifest' = [manifest EXCEPT ![b].entries = @ \cup
                    {[orig |-> [path |-> Home[i], n |-> 0], item |-> i, loc |-> where[i]]}]
        BY <3>2 DEF Add
      <4> DEFINE x == [orig |-> [path |-> Home[i], n |-> 0], item |-> i, loc |-> where[i]]
      <4>2. x.orig.n = 0 /\ manifest' = [manifest EXCEPT ![b].entries = @ \cup {x}]
        BY <4>1
      <4> HIDE DEF x
      <4>3. DOMAIN manifest[b] = {"head", "entries"}
        BY <2>2 DEF Manifest
      <4>4. /\ manifest'[b].entries = manifest[b].entries \cup {x}
            /\ \A c \in Batches : c # b => manifest'[c] = manifest[c]
        BY <2>2, <4>2, <4>3
      \* There is a batch, so that the clock has gone.
      <4>5. Past(0, now)
        <5>1. b \in Nat /\ b < now
          BY <2>1 DEF Inv, PastInv, Readable, Batches
        <5>2. 0 \in Nat /\ 0 < now
          BY <1>0, <5>1
        <5> QED BY <1>0, <5>2, Room DEF Past
      <4> QED BY <2>2, <4>2, <4>4, <4>5
    <3>3. CASE Forge(b)
      <4>1. PICK head \in Head, entries \in SUBSET manifest[b].entries :
                 manifest' = [manifest EXCEPT ![b] = [head |-> head, entries |-> entries]]
        BY <3>3 DEF Forge
      <4>2. manifest'[b].entries = entries /\ \A c \in Batches : c # b => manifest'[c] = manifest[c]
        BY <2>2, <4>1
      <4> QED BY <2>2, <4>2
    <3> QED BY <1>6, <3>1, <3>2, <3>3
  <2>4. \A c \in Batches : manifest'[c] \in {manifest[c], NoManifest, BadManifest}
                              \/ \A e \in manifest'[c].entries : Past(e.orig.n, now')
    BY <2>1, <2>3
  <2> QED BY <1>0, <2>1, <2>4, NumberStep
<1> QED BY <1>1, <1>2, <1>3, <1>4, <1>5, <1>6 DEF Step

LEMMA NumberHolds == Spec => []NumberInv
<1>1. Inv /\ NumberInv /\ [Next]_vars => NumberInv'
  <2> SUFFICES ASSUME Inv, NumberInv, [Next]_vars PROVE NumberInv'
    OBVIOUS
  <2>1. CASE Step
    BY <2>1, StepNumber
  <2>2. CASE UNCHANGED vars
    BY <2>2 DEF vars, NumberInv, Readable, Busy
  <2> QED BY <2>1, <2>2 DEF Next
<1> QED BY <1>1, InitNumber, InvHolds, PTL DEF Spec

-----------------------------------------------------------------------------
(* A destination that is not disturbed stays free until the file lands.    *)

FreeInv ==
    calm =>
        /\ \A i \in Items : where[i] # Clobbered
        /\ \A t, u \in Threads : Landing(t) /\ Landing(u) => t = u
        /\ \A t \in Threads : Landing(t) => ~Occupied(call[t].aim.dest)

\* A step that puts no file on a place.
LEMMA FreeStep ==
    ASSUME Inv, FreeInv, Watch,
           \A i \in Items : where'[i] = where[i] \/ where'[i] \in Payload \/ where'[i] = Destroyed,
           \A t \in Threads : Landing(t)' =>
              \/ Landing(t) /\ call'[t].aim = call[t].aim
              \/ IsPlace(call'[t].aim.dest) /\ ~Occupied(call'[t].aim.dest),
           \A t \in Threads : Landing(t)' => IsPlace(call'[t].aim.dest)
    PROVE  FreeInv'
<1> SUFFICES ASSUME calm' PROVE FreeInv'
  BY DEF FreeInv
<1>1. calm /\ \A t, u \in Threads : Landing(t)' /\ Landing(u)' => t = u
  BY DEF Watch, Undisturbed
<1>2. \A i \in Items : where'[i] # Clobbered
  <2>1. Clobbered \notin Payload /\ Clobbered # Destroyed
    BY FatesApart DEF Fates, Clobbered, Destroyed
  <2> QED BY <1>1, <2>1 DEF FreeInv
<1>3. ASSUME NEW t \in Threads, Landing(t)' PROVE ~Occupied(call[t].aim.dest)'
  <2>1. IsPlace(call'[t].aim.dest) /\ ~Occupied(call'[t].aim.dest)
    BY <1>1, <1>3 DEF FreeInv
  <2>2. call'[t].aim.dest \notin Payload /\ call'[t].aim.dest # Destroyed
    BY <2>1, PlacesApart, PlaceNotDestroyed
  <2> QED BY <2>1, <2>2 DEF Occupied
<1> QED BY <1>1, <1>2, <1>3 DEF FreeInv

\* A step in which nobody sets out to land.
LEMMA FreeQuiet ==
    ASSUME Inv, FreeInv, Watch,
           \A i \in Items : where'[i] = where[i] \/ where'[i] \in Payload \/ where'[i] = Destroyed,
           \A t \in Threads : Landing(t)' => call'[t] = call[t]
    PROVE  FreeInv'
<1>1. \A t \in Threads : Landing(t)' => Landing(t) /\ call'[t].aim = call[t].aim
  BY DEF Landing, Doing
<1>2. \A t \in Threads : Landing(t)' => IsPlace(call'[t].aim.dest)
  BY DEF Landing, Doing, Inv, Typed, TypedCall, Busy
<1> QED BY <1>1, <1>2, FreeStep

LEMMA UserSavesFree == ASSUME Inv, FreeInv, Watch, NEW i \in Items, UserSaves(i) PROVE FreeInv'
<1> SUFFICES ASSUME calm' PROVE FreeInv'
  BY DEF FreeInv
<1>1. where' = [where EXCEPT ![i] = [path |-> Home[i], n |-> 0]] /\ where[i] = Absent /\ call' = call
  BY DEF UserSaves
<1>2. IsPlace([path |-> Home[i], n |-> 0])
  BY DEF IsPlace
<1>3. [path |-> Home[i], n |-> 0] # Absent /\ [path |-> Home[i], n |-> 0] # Clobbered
  BY <1>2, NotPlaces DEF Fates
<1>4. where'[i] # Absent /\ \A j \in Items : where'[j] = where[j] \/ where'[j] # Clobbered
  BY <1>1, <1>3 DEF Inv, Typed
\* Nobody is landing, for that would be disturbed.
<1>5. calm /\ \A t \in Threads : ~Landing(t)
  BY <1>1, <1>4 DEF Watch, Undisturbed
<1> QED BY <1>1, <1>4, <1>5 DEF FreeInv, Landing, Doing

LEMMA AimEntryFree ==
    ASSUME Inv, NumberInv, FreeInv, Watch, NEW t \in Threads, AimEntry(t) PROVE FreeInv'
<1>1. PICK e \in call[t].entries :
          call' = [call EXCEPT ![t].at = "landing", ![t].entries = @ \ {e},
                               ![t].aim = [entry |-> e, dest |-> UniqueDestination(e.orig)]]
  BY DEF AimEntry
<1>2. Busy(t) /\ TypedCall(call[t]) /\ NumberedCall(call[t], now)
  BY AtWork DEF AimEntry, Doing, Busy, NumberInv
<1>3. e.orig \in Outside /\ Past(e.orig.n, now)
  BY <1>1, <1>2 DEF TypedCall, Entry, NumberedCall
<1>4. e.orig.n + Many <= Many * (MaxTime + 1)
  BY <1>3, PastFinds
<1>5. ~Occupied(UniqueDestination(e.orig))
  BY <1>3, <1>4, FreeName
<1>6. IsPlace(UniqueDestination(e.orig))
  BY <1>3, OutsideIsPlace, SuffixedIsPlace DEF UniqueDestination
<1>7. call'[t].aim.dest = UniqueDestination(e.orig) /\ \A u \in Threads : u # t => call'[u] = call[u]
  <2>1. /\ call'[t].aim = [entry |-> e, dest |-> UniqueDestination(e.orig)]
        /\ \A u \in Threads : u # t => call'[u] = call[u]
    BY <1>1, <1>2 DEF Inv, Typed, TypedCall, Fields
  <2> QED BY <2>1
<1>8. where' = where
  BY DEF AimEntry
<1>9. \A u \in Threads : u # t /\ Landing(u)' => /\ Landing(u) /\ call'[u].aim = call[u].aim
                                                 /\ IsPlace(call'[u].aim.dest)
  BY <1>7 DEF Landing, Doing, Inv, Typed, TypedCall, Busy
<1> QED BY <1>5, <1>6, <1>7, <1>8, <1>9, FreeStep

LEMMA LandEntryFree == ASSUME Inv, FreeInv, Watch, NEW t \in Threads, LandEntry(t) PROVE FreeInv'
<1> SUFFICES ASSUME calm' PROVE FreeInv'
  BY DEF FreeInv
<1> DEFINE d == call[t].aim.dest
<1>1. /\ where' = [i \in Items |-> IF i = call[t].aim.entry.item THEN d
                                   ELSE IF where[i] = d THEN Clobbered ELSE where[i]]
      /\ call' = [call EXCEPT ![t].at = "moving", ![t].aim = Nothing]
  BY DEF LandEntry
<1>2. Busy(t) /\ TypedCall(call[t]) /\ Landing(t) /\ IsPlace(d)
  BY AtWork DEF LandEntry, Landing, Doing, Busy, TypedCall
<1>3. calm /\ ~Occupied(d) /\ \A u \in Threads : Landing(u) => u = t
  BY <1>2 DEF Watch, FreeInv
<1> HIDE DEF d
<1>4. \A i \in Items : where'[i] # Clobbered
  <2>1. d # Clobbered
    BY <1>2, NotPlaces DEF Fates
  <2>2. \A i \in Items : where[i] # d /\ where[i] # Clobbered
    BY <1>3 DEF Occupied, FreeInv
  <2> QED BY <1>1, <2>1, <2>2
<1>5. \A u \in Threads : ~Landing(u)'
  <2>1. call'[t].at = "moving" /\ \A u \in Threads : u # t => call'[u] = call[u]
    BY <1>1, <1>2 DEF Inv, Typed, TypedCall, Fields
  <2> QED BY <1>3, <2>1 DEF Landing, Doing
<1> QED BY <1>4, <1>5 DEF FreeInv

\* What a step of one thread does to its own call and to the files, unless it
\* aims or lands.
LEMMA OthersQuiet ==
    ASSUME Inv, NEW t \in Threads,
           \/ Recycle(t) \/ StoreSource(t) \/ SkipSource(t) \/ FinishRecycle(t)
           \/ \E b \in Batches : Restore(t, b) \/ Delete(t, b)
           \/ SkipEntry(t) \/ MissEntry(t)
           \/ FinishRestore(t) \/ RemoveTarget(t) \/ FinishRemove(t)
    PROVE  /\ \A i \in Items : where'[i] = where[i] \/ where'[i] \in Payload \/ where'[i] = Destroyed
           /\ \A u \in Threads : Landing(u)' => call'[u] = call[u]
<1>0. DOMAIN call = Threads /\ (Busy(t) => TypedCall(call[t])) /\ DOMAIN where = Items
  BY DEF Inv, Typed
<1>1. CASE Recycle(t)
  <2>1. PICK S : call' = [call EXCEPT ![t] = [Fresh("recycle", "moving", now) EXCEPT !.sources = S]]
    BY <1>1 DEF Recycle, Begin
  <2> QED BY <1>0, <1>1, <2>1 DEF Recycle, Fresh, Landing, Doing
<1>2. CASE StoreSource(t)
  <2>1. PICK src \in call[t].sources, i \in Items :
          LET dest == [batch |-> call[t].batch, vol |-> Volume[src.path]] IN
          /\ where' = [where EXCEPT ![i] = dest]
          /\ call' = [call EXCEPT ![t].sources = @ \ {src},
                                  ![t].kept = @ \cup {[orig |-> src, item |-> i, loc |-> dest]}]
    BY <1>2 DEF StoreSource
  <2>2. TypedCall(call[t]) /\ call[t].at = "moving"
    BY <1>0, <1>2 DEF StoreSource, Doing, Busy
  <2>3. [batch |-> call[t].batch, vol |-> Volume[src.path]] \in Payload
    BY <2>2, RecycleStoreAssumption DEF TypedCall, Outside, Payload
  <2>4. call'[t].at = "moving" /\ \A u \in Threads : u # t => call'[u] = call[u]
    BY <1>0, <2>1, <2>2 DEF TypedCall, Fields
  <2> QED BY <1>0, <2>1, <2>3, <2>4 DEF Landing, Doing
<1>3. CASE SkipSource(t)
  <2>1. PICK src \in call[t].sources : call' = [call EXCEPT ![t].sources = @ \ {src}]
    BY <1>3 DEF SkipSource
  <2> QED BY <1>0, <1>3, <2>1 DEF SkipSource, Landing, Doing, Busy, TypedCall, Fields
<1>4. CASE FinishRecycle(t) \/ FinishRestore(t) \/ FinishRemove(t)
  <2>1. \/ End(t) \/ call' = [call EXCEPT ![t].at = "removing", ![t].targets = Targets(call[t].batch)]
    BY <1>4 DEF FinishRecycle, FinishRestore, FinishRemove
  <2>2. (\A u \in Threads : u # t => call'[u] = call[u]) /\ ~Landing(t)'
    BY <1>0, <1>4, <2>1, NoCallIsNone
       DEF End, FinishRecycle, FinishRestore, FinishRemove, Landing, Doing, Busy, TypedCall, Fields
  <2> QED BY <1>4, <2>2 DEF FinishRecycle, FinishRestore, FinishRemove
<1>5. CASE \E b \in Batches : Restore(t, b) \/ Delete(t, b)
  <2>1. PICK b \in Batches : Restore(t, b) \/ Delete(t, b)
    BY <1>5
  <2>2. (\A u \in Threads : u # t => call'[u] = call[u]) /\ call'[t].at # "landing"
    BY <1>0, <2>1 DEF Restore, Delete, Begin, Fresh
  <2> QED BY <2>1, <2>2 DEF Restore, Delete, Landing, Doing
<1>6. CASE SkipEntry(t)
  <2>1. PICK e \in call[t].entries : call' = [call EXCEPT ![t].entries = @ \ {e}, ![t].kept = @ \cup {e}]
    BY <1>6 DEF SkipEntry
  <2> QED BY <1>0, <1>6, <2>1 DEF SkipEntry, Landing, Doing, Busy, TypedCall, Fields
<1>7. CASE MissEntry(t)
  <2>1. call' = [call EXCEPT ![t].at = "moving", ![t].aim = Nothing, ![t].kept = @ \cup {call[t].aim.entry}]
    BY <1>7 DEF MissEntry
  <2> QED BY <1>0, <1>7, <2>1 DEF MissEntry, Landing, Doing, Busy, TypedCall, Fields
<1>8. CASE RemoveTarget(t)
  <2>1. PICK loc \in call[t].targets :
          /\ RemoveDir(loc) \/ RemoveDirPartly(loc)
          /\ call' = [call EXCEPT ![t].targets = @ \ {loc}]
    BY <1>8 DEF RemoveTarget
  <2>2. loc \in Payload
    BY <1>8, <2>1 DEF RemoveTarget, Doing, Inv, Removing
  <2>3. \A i \in Items : where'[i] = where[i] \/ where'[i] = Destroyed
    BY <2>1, <2>2, RemoveDirSound
  <2>4. (\A u \in Threads : u # t => call'[u] = call[u]) /\ call'[t].at = "removing"
    BY <1>0, <1>8, <2>1 DEF RemoveTarget, Doing, Busy, TypedCall, Fields
  <2> QED BY <2>3, <2>4 DEF Landing, Doing
<1> QED BY <1>1, <1>2, <1>3, <1>4, <1>5, <1>6, <1>7, <1>8

LEMMA StepFree == ASSUME Inv, NumberInv, FreeInv, Watch, Step PROVE FreeInv'
<1>1. CASE (Tick \/ Repaint \/ Start \/ Serve \/ Stop \/ \E b \in Batches : Break(b) \/ Add(b) \/ Forge(b))
  <2>1. UNCHANGED <<where, call>>
    BY <1>1 DEF Tick, Repaint, Start, Serve, Stop, Break, Add, Forge
  <2> QED BY <2>1, FreeQuiet
<1>2. CASE \E i \in Items : UserSaves(i)
  BY <1>2, UserSavesFree
<1>3. ASSUME NEW t \in Threads,
             \/ Recycle(t) \/ StoreSource(t) \/ SkipSource(t) \/ FinishRecycle(t)
             \/ \E b \in Batches : Restore(t, b) \/ Delete(t, b)
             \/ SkipEntry(t) \/ MissEntry(t)
             \/ FinishRestore(t) \/ RemoveTarget(t) \/ FinishRemove(t)
      PROVE  FreeInv'
  BY <1>3, OthersQuiet, FreeQuiet
<1>4. CASE \E t \in Threads : AimEntry(t) \/ LandEntry(t)
  BY <1>4, AimEntryFree, LandEntryFree
<1>5. CASE PurgeTarget
  <2>1. PICK loc \in purge : RemoveDir(loc) \/ RemoveDirPartly(loc)
    BY <1>5 DEF PurgeTarget
  <2>2. loc \in Payload /\ call' = call
    BY <1>5, <2>1 DEF PurgeTarget, Inv, PurgeInv
  <2> QED BY <2>1, <2>2, RemoveDirSound, FreeQuiet
<1>6. CASE Crash
  <2>1. where' = where /\ \A t \in Threads : call'[t].kind = "none"
    BY <1>6, NoCallIsNone DEF Crash
  <2> QED BY <2>1, FreeQuiet DEF Landing, Doing
<1> QED BY <1>1, <1>2, <1>3, <1>4, <1>5, <1>6 DEF Step

\* A restore never overwrites a file, as long as nothing is put in the way
\* between the choice of its destination and the move (unique_destination,
\* restore_batch).
THEOREM ClobbersNothing == Spec => []NothingClobbered
<1>1. Init => FreeInv
  <2>1. Absent # Clobbered
    BY DEF Absent, Clobbered
  <2> QED BY <2>1, NoCallIsNone DEF Init, FreeInv, Landing, Doing
<1>2. Inv /\ NumberInv /\ FreeInv /\ [Next]_vars => FreeInv'
  <2> SUFFICES ASSUME Inv, NumberInv, FreeInv, [Next]_vars PROVE FreeInv'
    OBVIOUS
  <2>1. CASE Next
    BY <2>1, StepFree DEF Next
  <2>2. CASE UNCHANGED vars
    BY <2>2 DEF vars, FreeInv, Landing, Doing, Occupied
  <2> QED BY <2>1, <2>2
<1>3. FreeInv => NothingClobbered
  BY DEF FreeInv, NothingClobbered
<1> QED BY <1>1, <1>2, <1>3, InvHolds, NumberHolds, PTL DEF Spec
=============================================================================
