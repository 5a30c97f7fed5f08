------------------------- MODULE BulkRenamer_proofs -------------------------
(***************************************************************************)
(* Proofs about the bulk renamer (modules/extractors/bulk_renamer).        *)
(*                                                                         *)
(* Base holds of every execution: an entry of the directory is the only    *)
(* one its name leads to, and each place in the code is reached by the     *)
(* calls that can be there only.  On it rest two invariants.  CalmInv says *)
(* that each file has a name no unlink is about to remove, and that a      *)
(* replacing rename replaces nothing but the file itself: that is          *)
(* NothingLost.  QuietInv describes, while nothing else has touched the    *)
(* directory, what a preview, a plan, a run, its result and an undo have   *)
(* to do with one another: Applied(d, B, S) says that d is what renaming   *)
(* the pairs of S makes of B, and each rename adds a pair to S or, in an   *)
(* undo, takes one off.  ShownIsRun and RoundTrip follow.                  *)
(***************************************************************************)
EXTENDS BulkRenamer, FiniteSetTheorems, TLAPS

-----------------------------------------------------------------------------
(* Types.                                                                  *)

Calls == [Threads -> Call \cup {NoCall}]

LEMMA ActiveCall == ASSUME call \in Calls, NEW t \in Threads, Active(t) PROVE call[t] \in Call
BY DEF Calls, Active, NoCall

LEMMA LoudCalls ==
    ASSUME call \in Calls
    PROVE  /\ Loud(call) \in Calls
           /\ \A t \in Threads : ~Active(t) => Loud(call)[t] = call[t]
           /\ \A t \in Threads : Active(t) =>
                 /\ Loud(call)[t] \in Call
                 /\ Loud(call)[t].kind = call[t].kind /\ Loud(call)[t].at = call[t].at
                 /\ Loud(call)[t].todo = call[t].todo /\ Loud(call)[t].done = call[t].done
                 /\ Loud(call)[t].heard = call[t].heard
                 /\ Loud(call)[t].quiet = FALSE /\ Loud(call)[t].before = Empty
<1>0. Empty \in Dir
  BY DEF Empty, Dir
<1>1. ASSUME NEW t \in Threads, Active(t)
      PROVE  /\ Loud(call)[t] \in Call
             /\ Loud(call)[t].kind = call[t].kind /\ Loud(call)[t].at = call[t].at
             /\ Loud(call)[t].todo = call[t].todo /\ Loud(call)[t].done = call[t].done
             /\ Loud(call)[t].heard = call[t].heard
             /\ Loud(call)[t].quiet = FALSE /\ Loud(call)[t].before = Empty
  <2>1. call[t] \in Call
    BY <1>1, ActiveCall
  <2>2. Loud(call)[t] = [call[t] EXCEPT !.quiet = FALSE, !.before = Empty]
    BY <1>1 DEF Loud, Active
  <2> QED BY <1>0, <2>1, <2>2 DEF Call
<1>2. ASSUME NEW t \in Threads, ~Active(t) PROVE Loud(call)[t] = call[t]
  BY <1>2 DEF Loud, Active
<1>3. \A t \in Threads : Loud(call)[t] \in Call \cup {NoCall}
  BY <1>1, <1>2 DEF Calls
<1>4. Loud(call) \in Calls
  BY <1>3, Zenon DEF Loud, Calls
<1> QED BY <1>1, <1>2, <1>4

LEMMA HeadTail ==
    ASSUME NEW S, NEW s \in Seq(S), s # <<>>
    PROVE  /\ Head(s) \in S /\ Tail(s) \in Seq(S)
           /\ Head(s) = s[1] /\ Len(s) \in Nat \ {0} /\ DOMAIN s = 1..Len(s)
           /\ Len(Tail(s)) = Len(s) - 1 /\ DOMAIN Tail(s) = 1..(Len(s) - 1)
           /\ \A i \in 1..(Len(s) - 1) : Tail(s)[i] = s[i + 1]
OBVIOUS

\* What thread t is at is a pair of names.
LEMMA PairAt ==
    ASSUME call \in Calls, NEW t \in Threads, NEW place, At(t, place)
    PROVE  /\ call[t] \in Call /\ call[t].todo \in Seq(Pair) /\ call[t].done \in Seq(Pair)
           /\ call[t].todo # <<>> /\ call[t].at = place
           /\ Head(call[t].todo) \in Pair /\ Source(t) \in Names /\ Target(t) \in Names
           /\ Tail(call[t].todo) \in Seq(Pair)
<1>1. call[t] \in Call
  BY ActiveCall DEF At
<1>2. call[t].todo \in Seq(Pair) /\ call[t].done \in Seq(Pair) /\ call[t].todo # <<>>
  BY <1>1 DEF Call, At
<1>3. Head(call[t].todo) \in Pair /\ Tail(call[t].todo) \in Seq(Pair)
  BY <1>2, HeadTail
<1> QED BY <1>1, <1>2, <1>3 DEF At, Source, Target, Pair

\* A step leaves thread u where it is.
Stays(u) ==
    /\ call'[u].kind = call[u].kind
    /\ Active(u) => /\ call'[u].at = call[u].at /\ call'[u].todo = call[u].todo
                    /\ call'[u].done = call[u].done

\* ... and makes it no quieter than it was.
Undisturbed(u) == Active(u) => call'[u] = call[u] \/ call'[u].quiet = FALSE

LEMMA GotoDoes ==
    ASSUME call \in Calls, NEW t \in Threads, NEW q, At(t, q),
           NEW place \in {"check", "move", "unlink", "over"}, Goto(t, place)
    PROVE  /\ call' \in Calls
           /\ \A u \in Threads \ {t} : call'[u] = call[u]
           /\ call'[t].kind = call[t].kind /\ call'[t].at = place /\ call'[t].todo = call[t].todo
           /\ call'[t].done = call[t].done /\ call'[t].quiet = call[t].quiet
           /\ call'[t].before = call[t].before
<1>1. call[t] \in Call
  BY PairAt
<1>2. call' = [call EXCEPT ![t] = [call[t] EXCEPT !.at = place]]
  BY DEF Goto
<1>3. [call[t] EXCEPT !.at = place] \in Call
  BY <1>1 DEF Call
<1>4. call'[t] = [call[t] EXCEPT !.at = place] /\ \A u \in Threads \ {t} : call'[u] = call[u]
  BY <1>2 DEF Calls
<1>5. call' \in Calls
  BY <1>2, <1>3 DEF Calls
<1> QED BY <1>1, <1>4, <1>5 DEF Call

LEMMA SkipDoes ==
    ASSUME call \in Calls, NEW t \in Threads, NEW q, At(t, q), Skip(t)
    PROVE  /\ call' \in Calls
           /\ \A u \in Threads \ {t} : call'[u] = call[u]
           /\ call'[t].kind = call[t].kind /\ call'[t].at = "check" /\ call'[t].todo = Tail(call[t].todo)
           /\ call'[t].done = call[t].done /\ call'[t].quiet = call[t].quiet
           /\ call'[t].before = call[t].before
<1>1. call[t] \in Call /\ Tail(call[t].todo) \in Seq(Pair)
  BY PairAt
<1>2. call' = [call EXCEPT ![t] = [call[t] EXCEPT !.at = "check", !.todo = Tail(call[t].todo)]]
  BY DEF Skip, Calls
<1>3. [call[t] EXCEPT !.at = "check", !.todo = Tail(call[t].todo)] \in Call
  BY <1>1 DEF Call
<1>4. /\ call'[t] = [call[t] EXCEPT !.at = "check", !.todo = Tail(call[t].todo)]
      /\ \A u \in Threads \ {t} : call'[u] = call[u]
  BY <1>2 DEF Calls
<1>5. call' \in Calls
  BY <1>2, <1>3 DEF Calls
<1> QED BY <1>1, <1>4, <1>5 DEF Call

LEMMA DidDoes ==
    ASSUME call \in Calls, NEW t \in Threads, NEW q, At(t, q), Did(t)
    PROVE  /\ call' \in Calls
           /\ \A u \in Threads \ {t} : call'[u] = call[u]
           /\ call'[t].kind = call[t].kind /\ call'[t].at = "check" /\ call'[t].todo = Tail(call[t].todo)
           /\ call'[t].done = Append(call[t].done, Head(call[t].todo))
           /\ call'[t].quiet = call[t].quiet /\ call'[t].before = call[t].before
<1> DEFINE r == [call[t] EXCEPT !.at = "check", !.todo = Tail(call[t].todo),
                                !.done = Append(call[t].done, Head(call[t].todo))]
<1>1. call[t] \in Call /\ Tail(call[t].todo) \in Seq(Pair) /\ Append(call[t].done, Head(call[t].todo)) \in Seq(Pair)
  BY PairAt
<1>2. call' = [call EXCEPT ![t] = r]
  BY DEF Did, Calls
<1>3. r \in Call /\ r.kind = call[t].kind /\ r.at = "check" /\ r.todo = Tail(call[t].todo)
      /\ r.done = Append(call[t].done, Head(call[t].todo))
      /\ r.quiet = call[t].quiet /\ r.before = call[t].before
  BY <1>1 DEF Call
<1> HIDE DEF r
<1>4. call'[t] = r /\ \A u \in Threads \ {t} : call'[u] = call[u]
  BY <1>2 DEF Calls
<1>5. call' \in Calls
  BY <1>2, <1>3 DEF Calls
<1> QED BY <1>3, <1>4, <1>5

LEMMA FailDoes ==
    ASSUME call \in Calls, NEW t \in Threads, Fail(t)
    PROVE  /\ \E q \in {"move", "unlink", "over"} : At(t, q)
           /\ call' \in Calls
           /\ \A u \in Threads \ {t} : call'[u] = Loud(call)[u]
           /\ call'[t].kind = call[t].kind /\ call'[t].at = "check" /\ call'[t].todo = Tail(call[t].todo)
           /\ call'[t].done = call[t].done /\ call'[t].quiet = FALSE
<1>0. PICK q \in {"move", "unlink", "over"} : At(t, q)
  BY DEF Fail
<1> DEFINE c == Loud(call)
           r == [c[t] EXCEPT !.at = "check", !.todo = Tail(c[t].todo)]
<1>1. /\ call[t] \in Call /\ Tail(call[t].todo) \in Seq(Pair) /\ Active(t)
  BY <1>0, PairAt DEF At
<1>2. c \in Calls /\ c[t] \in Call /\ c[t].kind = call[t].kind /\ c[t].todo = call[t].todo
      /\ c[t].done = call[t].done /\ c[t].quiet = FALSE
  BY <1>1, LoudCalls
<1> HIDE DEF c
<1>3. call' = [c EXCEPT ![t].at = "check", ![t].todo = Tail(@)]
  BY DEF Fail, c
<1>4. call' = [c EXCEPT ![t] = r]
  BY <1>2, <1>3 DEF Calls
<1>5. r \in Call /\ r.kind = call[t].kind /\ r.at = "check" /\ r.todo = Tail(call[t].todo)
      /\ r.done = call[t].done /\ r.quiet = FALSE
  BY <1>1, <1>2 DEF Call
<1> HIDE DEF r
<1>6. call'[t] = r /\ \A u \in Threads \ {t} : call'[u] = c[u]
  BY <1>2, <1>4 DEF Calls
<1>7. call' \in Calls
  BY <1>2, <1>4, <1>5 DEF Calls
<1> QED BY <1>0, <1>5, <1>6, <1>7 DEF c

LEMMA AbandonDoes ==
    ASSUME call \in Calls, NEW t \in Threads, Abandon(t)
    PROVE  /\ call' \in Calls
           /\ \A u \in Threads \ {t} : call'[u] = call[u]
           /\ call'[t].kind = call[t].kind /\ call'[t].at = call[t].at /\ call'[t].todo = call[t].todo
           /\ call'[t].done = call[t].done /\ call'[t].quiet = call[t].quiet
           /\ call'[t].before = call[t].before
<1> DEFINE r == [call[t] EXCEPT !.heard = FALSE]
<1>1. call[t] \in Call
  BY ActiveCall DEF Abandon
<1>2. call' = [call EXCEPT ![t] = r]
  BY DEF Abandon, Calls
<1>3. r \in Call /\ r.kind = call[t].kind /\ r.at = call[t].at /\ r.todo = call[t].todo
      /\ r.done = call[t].done /\ r.quiet = call[t].quiet /\ r.before = call[t].before
  BY <1>1 DEF Call
<1> HIDE DEF r
<1>4. call'[t] = r /\ \A u \in Threads \ {t} : call'[u] = call[u]
  BY <1>2 DEF Calls
<1>5. call' \in Calls
  BY <1>2, <1>3 DEF Calls
<1> QED BY <1>3, <1>4, <1>5

LEMMA FinishDoes ==
    ASSUME call \in Calls, NEW t \in Threads, Finish(t)
    PROVE  /\ call' \in Calls /\ call'[t] = NoCall /\ call[t] \in Call
           /\ \A u \in Threads \ {t} : call'[u] = call[u]
<1>1. call[t] \in Call
  BY ActiveCall DEF Finish
<1>2. call' = [call EXCEPT ![t] = NoCall]
  BY DEF Finish
<1> QED BY <1>1, <1>2 DEF Calls

LEMMA StartDoes ==
    ASSUME call \in Calls, NEW t \in Threads, NEW kind \in {"rename", "undo"}, NEW pairs \in Seq(Pair),
           NEW quiet \in BOOLEAN, NEW before \in Dir, Start(t, kind, pairs, quiet, before)
    PROVE  /\ call' \in Calls
           /\ \A u \in Threads \ {t} : call'[u] = Loud(call)[u]
           /\ call'[t].kind = kind /\ call'[t].at = "check" /\ call'[t].todo = pairs
           /\ call'[t].done = <<>> /\ call'[t].quiet = (quiet /\ Alone)
           /\ quiet /\ Alone => call'[t].before = before
<1> DEFINE c == Loud(call)
           r == [kind |-> kind, at |-> "check", todo |-> pairs, done |-> <<>>, heard |-> TRUE,
                 quiet |-> quiet /\ Alone, before |-> IF quiet /\ Alone THEN before ELSE Empty]
<1>1. c \in Calls
  BY LoudCalls
<1>2. call' = [c EXCEPT ![t] = r]
  BY DEF Start
<1>3. r \in Call
  <2>1. Empty \in Dir
    BY DEF Empty, Dir
  <2>2. (quiet /\ Alone) \in BOOLEAN
    BY Zenon
  <2>3. (IF quiet /\ Alone THEN before ELSE Empty) \in Dir
    BY <2>1
  <2>4. <<>> \in Seq(Pair)
    OBVIOUS
  <2> QED BY <2>2, <2>3, <2>4, Zenon DEF Call
<1>4. /\ r.kind = kind /\ r.at = "check" /\ r.todo = pairs /\ r.done = <<>>
      /\ r.quiet = (quiet /\ Alone) /\ (quiet /\ Alone => r.before = before)
  BY Zenon
<1> HIDE DEF r, c
<1>5. call'[t] = r /\ \A u \in Threads \ {t} : call'[u] = c[u]
  BY <1>1, <1>2 DEF Calls
<1>6. call' \in Calls
  BY <1>1, <1>2, <1>3 DEF Calls
<1> QED BY <1>4, <1>5, <1>6 DEF c

-----------------------------------------------------------------------------
(* The directory.                                                          *)

\* The same operators for any directory d.
EntryIn(d, n)   == {m \in Names : d[m] # NoFile /\ SameName(m, n)}
FileIn(d, n)    == IF EntryIn(d, n) # {} THEN d[CHOOSE m \in EntryIn(d, n) : TRUE] ELSE NoFile
UniqueIn(d)     == \A n, m \in Names : d[n] # NoFile /\ d[m] # NoFile /\ SameName(n, m) => n = m

LEMMA Alike ==
    ASSUME NEW n, NEW m, NEW k
    PROVE  /\ SameName(n, n)
           /\ SameName(n, m) => SameName(m, n)
           /\ SameName(n, m) /\ SameName(m, k) => SameName(n, k)
BY DEF SameName

LEMMA NowIn ==
    ASSUME NEW n
    PROVE  EntryOf(n) = EntryIn(dir, n) /\ FileAt(n) = FileIn(dir, n) /\ (Exists(n) <=> EntryIn(dir, n) # {})
BY DEF EntryOf, EntryIn, FileAt, FileIn, Exists

LEMMA ThenIn ==
    ASSUME machine' = machine, NEW n
    PROVE  /\ EntryOf(n)' = EntryIn(dir', n) /\ FileAt(n)' = FileIn(dir', n)
           /\ (Exists(n)' <=> EntryIn(dir', n) # {})
BY DEF EntryOf, EntryIn, FileAt, FileIn, Exists, SameName

LEMMA TheEntry ==
    ASSUME NEW d, UniqueIn(d), NEW n, NEW m \in Names, d[m] # NoFile, SameName(m, n)
    PROVE  EntryIn(d, n) = {m} /\ FileIn(d, n) = d[m]
<1>1. \A k \in EntryIn(d, n) : k = m
  <2> SUFFICES ASSUME NEW k \in EntryIn(d, n) PROVE k = m
    OBVIOUS
  <2>1. k \in Names /\ d[k] # NoFile /\ SameName(k, n) /\ SameName(k, m)
    BY Alike DEF EntryIn
  <2> QED BY <2>1 DEF UniqueIn
<1>2. m \in EntryIn(d, n)
  BY DEF EntryIn
<1>3. EntryIn(d, n) = {m}
  BY <1>1, <1>2
<1>4. (CHOOSE k \in EntryIn(d, n) : TRUE) = m
  BY <1>1, <1>2
<1> QED BY <1>3, <1>4 DEF FileIn

LEMMA AnEntry ==
    ASSUME NEW d, NEW n, EntryIn(d, n) # {}
    PROVE  \E m \in Names : d[m] # NoFile /\ SameName(m, n)
BY DEF EntryIn

LEMMA NoEntry ==
    ASSUME NEW d, NEW n, EntryIn(d, n) = {}
    PROVE  FileIn(d, n) = NoFile /\ \A m \in Names : SameName(m, n) => d[m] = NoFile
BY DEF EntryIn, FileIn

LEMMA FileThere ==
    ASSUME NEW d, UniqueIn(d), NEW n
    PROVE  EntryIn(d, n) # {} <=> FileIn(d, n) # NoFile
BY AnEntry, NoEntry, TheEntry

LEMMA FileType == ASSUME NEW d \in Dir, NEW n PROVE FileIn(d, n) \in Files \cup {NoFile}
<1>1. CASE EntryIn(d, n) = {}
  BY <1>1 DEF FileIn
<1>2. CASE EntryIn(d, n) # {}
  <2> DEFINE m == CHOOSE m \in EntryIn(d, n) : TRUE
  <2>1. m \in EntryIn(d, n)
    BY <1>2
  <2>2. m \in Names
    BY <2>1 DEF EntryIn
  <2>3. FileIn(d, n) = d[m]
    BY <1>2 DEF FileIn
  <2> HIDE DEF m
  <2> QED BY <2>2, <2>3 DEF Dir
<1> QED BY <1>1, <1>2

\* What rename makes of the directory, for a name n that leads to entry e.
LEMMA RenamedIs ==
    ASSUME dir \in Dir, UniqueIn(dir), NEW n, NEW m \in Names,
           NEW e \in Names, dir[e] # NoFile, SameName(e, n)
    PROVE  \/ Renamed(n, m) = dir /\ Exists(m) /\ FileAt(m) = dir[e]
           \/ /\ FileAt(m) = dir[e] => EntryOf(m) \subseteq {e}
              /\ Renamed(n, m) = [k \in Names |-> IF k = m THEN dir[e]
                                                  ELSE IF k = e \/ k \in EntryOf(m) THEN NoFile ELSE dir[k]]
<1>1. EntryOf(n) = {e} /\ FileAt(n) = dir[e] /\ Exists(n)
  BY TheEntry, NowIn
<1>2. ASSUME NEW f \in EntryOf(m) PROVE EntryOf(m) = {f} /\ FileAt(m) = dir[f]
  <2>1. f \in Names /\ dir[f] # NoFile /\ SameName(f, m)
    BY <1>2 DEF EntryOf
  <2> QED BY <2>1, TheEntry, NowIn
<1>3. CASE SameFile(n, m) /\ EntryOf(n) # EntryOf(m)
  <2>1. Exists(m)
    BY <1>1, <1>3 DEF SameFile, FileAt
  <2> QED BY <1>1, <1>3, <2>1 DEF Renamed, SameFile
<1>4. CASE ~(SameFile(n, m) /\ EntryOf(n) # EntryOf(m))
  <2>1. FileAt(m) = dir[e] => EntryOf(m) \subseteq {e}
    BY <1>1, <1>4 DEF SameFile
  <2>2. Renamed(n, m) = [k \in Names |-> IF k = m THEN FileAt(n)
                                         ELSE IF k \in EntryOf(n) \cup EntryOf(m) THEN NoFile ELSE dir[k]]
    BY <1>4 DEF Renamed
  <2> QED BY <1>1, <2>1, <2>2
<1> QED BY <1>3, <1>4

LEMMA RenamedKeeps ==
    ASSUME dir \in Dir, UniqueIn(dir), NEW n, NEW m \in Names, Exists(n)
    PROVE  Renamed(n, m) \in Dir /\ UniqueIn(Renamed(n, m))
<1>1. PICK e \in Names : dir[e] # NoFile /\ SameName(e, n)
  BY AnEntry, NowIn
<1>2. CASE Renamed(n, m) = dir
  BY <1>2
<1> DEFINE d == [k \in Names |-> IF k = m THEN dir[e] ELSE IF k = e \/ k \in EntryOf(m) THEN NoFile ELSE dir[k]]
<1>3. CASE Renamed(n, m) = d
  <2>1. d \in Dir
    BY DEF Dir
  <2>2. UniqueIn(d)
    <3> SUFFICES ASSUME NEW a \in Names, NEW b \in Names, d[a] # NoFile, d[b] # NoFile, SameName(a, b)
                 PROVE  a = b
      BY DEF UniqueIn
    <3>1. \A k \in Names : k # m /\ d[k] # NoFile => dir[k] = d[k] /\ k \notin EntryOf(m)
      OBVIOUS
    <3>2. \A k \in Names : k # m /\ d[k] # NoFile => ~SameName(k, m)
      BY <3>1 DEF EntryOf
    <3> HIDE DEF d
    <3> QED BY <3>1, <3>2, Alike DEF UniqueIn
  <2> QED BY <1>3, <2>1, <2>2
<1> QED BY <1>1, <1>2, <1>3, RenamedIs

LEMMA LinkKeeps ==
    ASSUME NEW d \in Dir, UniqueIn(d), NEW n \in Names, NEW f \in Files \cup {NoFile}, EntryIn(d, n) = {}
    PROVE  LET x == [d EXCEPT ![n] = f] IN x \in Dir /\ UniqueIn(x)
<1> DEFINE x == [d EXCEPT ![n] = f]
<1>1. x \in Dir
  BY DEF Dir
<1>2. UniqueIn(x)
  <2> SUFFICES ASSUME NEW a \in Names, NEW b \in Names, x[a] # NoFile, x[b] # NoFile, SameName(a, b)
               PROVE  a = b
    BY DEF UniqueIn
  <2>1. \A k \in Names : k # n => x[k] = d[k]
    BY DEF Dir
  <2>2. \A k \in Names : SameName(k, n) => d[k] = NoFile
    BY NoEntry
  <2> QED BY <2>1, <2>2, Alike DEF UniqueIn
<1> QED BY <1>1, <1>2

LEMMA UnlinkKeeps ==
    ASSUME NEW d \in Dir, UniqueIn(d), NEW x, DOMAIN x = Names, x = [k \in Names |-> x[k]],
           \A k \in Names : x[k] = d[k] \/ x[k] = NoFile
    PROVE  x \in Dir /\ UniqueIn(x)
<1>1. x \in Dir
  BY DEF Dir
<1>2. UniqueIn(x)
  BY DEF UniqueIn
<1> QED BY <1>1, <1>2

-----------------------------------------------------------------------------
(* Types, the entries of the directory, and where a call can be.           *)

PlaceInv ==
    \A t \in Threads : Active(t) =>
        /\ call[t].kind = "undo" => call[t].at # "unlink" /\ (call[t].at = "move" => machine.sys = "windows")
        /\ call[t].at = "over" => machine.sys # "windows"
        /\ call[t].at # "check" => call[t].todo # <<>>

Base == TypeOK /\ UniqueIn(dir) /\ PlaceInv

LEMMA NamesFinite == IsFiniteSet(Names)
<1>1. Sorted \in Seq(Names) /\ Len(Sorted) \in Nat /\ DOMAIN Sorted = 1..Len(Sorted)
  BY BulkRenamerAssumption
<1>2. Sorted \in Surjection(1..Len(Sorted), Names)
  BY <1>1 DEF Surjection, Names, ToSet
<1>3. IsFiniteSet(1..Len(Sorted))
  BY <1>1, FS_Interval
<1> QED BY <1>2, <1>3, FS_Surjection

LEMMA ListingType ==
    ASSUME NEW P \in SUBSET Names, NEW s \in Listings(P)
    PROVE  s \in Seq(Names) /\ (\A i \in DOMAIN s : s[i] \in P) /\ IsInjective(s)
<1>1. Cardinality(P) \in Nat
  BY NamesFinite, FS_Subset, FS_CardinalityType
<1>2. s \in [1..Cardinality(P) -> P]
  BY DEF Listings
<1>3. s \in Seq(Names) /\ DOMAIN s \subseteq Nat
  BY <1>1, <1>2
<1>4. IsInjective(s)
  <2> SUFFICES ASSUME NEW i \in DOMAIN s, NEW j \in DOMAIN s, s[i] = s[j], i < j PROVE FALSE
    BY <1>3 DEF IsInjective
  <2>1. Before(s[i], s[j])
    BY DEF Listings
  <2>2. PICK a \in DOMAIN Sorted : \E b \in DOMAIN Sorted : a < b /\ Sorted[a] = s[i] /\ Sorted[b] = s[j]
    BY <2>1 DEF Before
  <2>3. PICK b \in DOMAIN Sorted : a < b /\ Sorted[a] = s[i] /\ Sorted[b] = s[j]
    BY <2>2
  <2>4. a = b
    BY <2>3, BulkRenamerAssumption DEF IsInjective
  <2>5. a \in Nat
    BY BulkRenamerAssumption
  <2> QED BY <2>3, <2>4, <2>5
<1> QED BY <1>2, <1>3, <1>4

LEMMA DisturbTypes ==
    ASSUME TypeOK, Disturb
    PROVE  /\ preview' \in Preview \cup {NoPreview} /\ plan' \in Plan /\ undo' \in Undo
           /\ ~preview'.quiet /\ ~plan'.quiet /\ ~undo'.quiet
           /\ preview'.todo = preview.todo
<1>0. Empty \in Dir
  BY DEF Empty, Dir
<1>1. NoPreview \in Preview
  BY DEF NoPreview, Preview
<1>2. preview \in Preview /\ plan \in Plan /\ undo \in Undo
  BY <1>1 DEF TypeOK
<1>3. preview' \in Preview /\ ~preview'.quiet /\ preview'.todo = preview.todo
  BY <1>2 DEF Disturb, Preview
<1>4. plan' \in Plan /\ ~plan'.quiet
  BY <1>2 DEF Disturb, Plan
<1>5. undo' \in Undo /\ ~undo'.quiet
  BY <1>0, <1>2 DEF Disturb, Undo
<1> QED BY <1>3, <1>4, <1>5

\* The pairs an undo is called with are those of the result, reversed.
Reversed(s) == [i \in DOMAIN s |-> [old |-> s[i].new, new |-> s[i].old]]

LEMMA ReversedType ==
    ASSUME NEW s \in Seq(Pair)
    PROVE  Reversed(s) \in Seq(Pair) /\ DOMAIN Reversed(s) = DOMAIN s /\ Len(Reversed(s)) = Len(s)
<1>1. DOMAIN s = 1..Len(s) /\ Len(s) \in Nat
  OBVIOUS
<1>2. \A i \in DOMAIN s : s[i] \in Pair
  OBVIOUS
<1>3. \A i \in DOMAIN s : [old |-> s[i].new, new |-> s[i].old] \in Pair
  BY <1>2 DEF Pair
<1>4. Reversed(s) \in [1..Len(s) -> Pair]
  BY <1>1, <1>3 DEF Reversed
<1>5. Reversed(s) \in Seq(Pair)
  BY <1>1, <1>4
<1> QED BY <1>1, <1>4, <1>5

LEMMA BaseInit == Init => Base
<1> SUFFICES ASSUME Init PROVE Base
  OBVIOUS
<1>1. dir \in Dir /\ UniqueIn(dir)
  BY DEF Init, UniqueIn
<1>2. kept \subseteq Files
  <2>1. \A n \in Names : dir[n] \in Files \cup {NoFile}
    BY <1>1 DEF Dir
  <2> QED BY <2>1 DEF Init
<1>3. preview \in Preview \cup {NoPreview} /\ plan \in Plan
  BY DEF Init, NoPlan, Plan
<1>4. undo \in Undo
  <2>1. Empty \in Dir
    BY DEF Empty, Dir
  <2> QED BY <2>1 DEF Init, NoUndo, Undo
<1>5. call \in Calls /\ \A t \in Threads : ~Active(t)
  BY DEF Init, Calls, Active, NoCall
<1>6. calls \in 0..MaxCalls /\ upsets \in 0..MaxUpsets /\ calm \in BOOLEAN /\ machine \in Systems
  BY BulkRenamerAssumption DEF Init
<1>7. TypeOK
  BY <1>1, <1>2, <1>3, <1>4, <1>5, <1>6 DEF TypeOK, Calls
<1> QED BY <1>1, <1>5, <1>7 DEF Base, PlaceInv

LEMMA LeftAlone == ASSUME TypeOK, Usual PROVE calls' \in 0..MaxCalls /\ upsets' \in 0..MaxUpsets
BY DEF TypeOK, Usual

LEMMA Upsets == ASSUME TypeOK, Upset PROVE calls' \in 0..MaxCalls /\ upsets' \in 0..MaxUpsets
BY BulkRenamerAssumption DEF TypeOK, Upset

\* What is left to show of a step that keeps the machine.
LEMMA BaseIf ==
    ASSUME TypeOK, machine' = machine, dir' \in Dir, UniqueIn(dir'), kept' \subseteq Files,
           preview' \in Preview \cup {NoPreview}, plan' \in Plan, undo' \in Undo, call' \in Calls,
           calls' \in 0..MaxCalls, upsets' \in 0..MaxUpsets, calm' \in BOOLEAN, PlaceInv'
    PROVE  Base'
<1>1. UniqueIn(dir)'
  BY DEF UniqueIn, SameName
<1>2. TypeOK'
  BY DEF TypeOK, Calls
<1> QED BY <1>1, <1>2 DEF Base

\* A call of thread t alone moves, to a place it can be at.
LEMMA PlaceIf ==
    ASSUME PlaceInv, machine' = machine, NEW t \in Threads,
           \A u \in Threads \ {t} : Stays(u),
           \/ call'[t].at = "check"
           \/ /\ call'[t].todo # <<>>
              /\ call'[t].kind = "undo" => call'[t].at # "unlink" /\ (call'[t].at = "move" => machine.sys = "windows")
              /\ call'[t].at = "over" => machine.sys # "windows"
    PROVE  PlaceInv'
<1> SUFFICES ASSUME NEW u \in Threads, call'[u].kind # "none"
             PROVE  /\ call'[u].kind = "undo" => call'[u].at # "unlink" /\ (call'[u].at = "move" => machine'.sys = "windows")
                    /\ call'[u].at = "over" => machine'.sys # "windows"
                    /\ call'[u].at # "check" => call'[u].todo # <<>>
  BY DEF PlaceInv, Active
<1>1. CASE u = t
  BY <1>1
<1>2. CASE u # t
  BY <1>2 DEF PlaceInv, Stays, Active
<1> QED BY <1>1, <1>2

LEMMA LoudStays ==
    ASSUME call \in Calls, NEW u \in Threads, call'[u] = Loud(call)[u]
    PROVE  Stays(u)
BY LoudCalls DEF Stays

LEMMA SameStays ==
    ASSUME NEW u \in Threads, call'[u] = call[u]
    PROVE  Stays(u)
BY DEF Stays

LEMMA BaseStep == Base /\ [Next]_vars => Base'
<1> SUFFICES ASSUME Base, [Next]_vars PROVE Base'
  OBVIOUS
<1> USE DEF Base
<1>0. call \in Calls /\ dir \in Dir /\ kept \subseteq Files /\ calm \in BOOLEAN
      /\ preview \in Preview \cup {NoPreview} /\ plan \in Plan /\ undo \in Undo /\ NoPreview \in Preview
  BY DEF TypeOK, Calls, Preview, NoPreview
<1>a. calm' \in BOOLEAN
  BY <1>0 DEF Next, Watch, vars
<1>1. ASSUME NEW n \in Names, UserDeletes(n) PROVE Base'
  <2>1. machine' = machine /\ call' = Loud(call) /\ dir' = [dir EXCEPT ![n] = NoFile]
        /\ kept' \subseteq Files /\ Disturb /\ Upset
    BY <1>0, <1>1 DEF UserDeletes
  <2>2. dir' \in Dir /\ UniqueIn(dir')
    BY <1>0, <2>1, UnlinkKeeps DEF Dir
  <2>3. call' \in Calls
    BY <1>0, <2>1, LoudCalls
  <2>4. \A u \in Threads : Stays(u)
    BY <1>0, <2>1, LoudStays
  <2>5. PlaceInv'
    BY <2>1, <2>4 DEF PlaceInv, Stays, Active
  <2> QED BY <1>a, <2>1, <2>2, <2>3, <2>5, DisturbTypes, Upsets, BaseIf
<1>2. ASSUME NEW n \in Names, NEW f \in Files, UserCreates(f, n) PROVE Base'
  <2>1. machine' = machine /\ call' = Loud(call) /\ dir' = [dir EXCEPT ![n] = f]
        /\ kept' \subseteq Files /\ Disturb /\ Upset /\ ~Exists(n)
    BY <1>0, <1>2 DEF UserCreates
  <2>2. dir' \in Dir /\ UniqueIn(dir')
    BY <1>0, <2>1, LinkKeeps, NowIn
  <2>3. call' \in Calls
    BY <1>0, <2>1, LoudCalls
  <2>4. \A u \in Threads : Stays(u)
    BY <1>0, <2>1, LoudStays
  <2>5. PlaceInv'
    BY <2>1, <2>4 DEF PlaceInv, Stays, Active
  <2> QED BY <1>a, <2>1, <2>2, <2>3, <2>5, DisturbTypes, Upsets, BaseIf
<1>3. ASSUME PreviewStart \/ PreviewOne PROVE Base'
  <2>1. UNCHANGED <<machine, dir, kept, undo, call>> /\ Usual
    BY <1>3 DEF PreviewStart, PreviewOne
  <2>2. preview' \in Preview /\ plan' \in Plan
    <3>1. CASE PreviewStart
      <4>1. PICK s \in Listings({n \in Names : dir[n] # NoFile}) :
                preview' = [todo |-> s, pairs |-> <<>>, quiet |-> Alone /\ OneName]
        BY <3>1 DEF PreviewStart
      <4>2. s \in Seq(Names) /\ (Alone /\ OneName) \in BOOLEAN
        BY ListingType, Zenon
      <4>3. preview' \in Preview
        BY <4>1, <4>2 DEF Preview
      <4> QED BY <1>0, <3>1, <4>3 DEF PreviewStart
    <3>2. CASE PreviewOne
      <4> DEFINE h == Head(preview.todo)
      <4>1. h \in Names /\ Tail(preview.todo) \in Seq(Names) /\ preview \in Preview
        BY <1>0, <3>2 DEF PreviewOne, Preview
      <4>2. PICK s \in {<<>>} \cup {<<[old |-> h, new |-> n]>> : n \in {m \in Names : Proposable(h, m)}} :
              LET p == [preview EXCEPT !.todo = Tail(@), !.pairs = @ \o s] IN
              IF p.todo # <<>> THEN preview' = p /\ UNCHANGED plan
              ELSE preview' = NoPreview /\ plan' = [pairs |-> p.pairs, quiet |-> p.quiet]
        BY <3>2 DEF PreviewOne
      <4>3. s \in Seq(Pair)
        <5>1. CASE s = <<>>
          BY <5>1
        <5>2. ASSUME NEW n \in Names, s = <<[old |-> h, new |-> n]>> PROVE s \in Seq(Pair)
          <6>1. [old |-> h, new |-> n] \in Pair
            BY <4>1 DEF Pair
          <6> QED BY <5>2, <6>1
        <5>3. s = <<>> \/ \E n \in Names : s = <<[old |-> h, new |-> n]>>
          BY <4>2
        <5> QED BY <5>1, <5>2, <5>3
      <4> DEFINE p == [preview EXCEPT !.todo = Tail(@), !.pairs = @ \o s]
      <4>4. p \in Preview
        <5>1. preview.pairs \o s \in Seq(Pair)
          BY <4>1, <4>3 DEF Preview
        <5>2. p = [preview EXCEPT !.todo = Tail(preview.todo), !.pairs = preview.pairs \o s]
          BY <4>1 DEF Preview
        <5> HIDE DEF p
        <5> QED BY <4>1, <5>1, <5>2 DEF Preview
      <4>5. p.pairs \in Seq(Pair) /\ p.quiet \in BOOLEAN
        BY <4>4 DEF Preview
      <4>6. \/ preview' = p /\ plan' = plan
            \/ preview' = NoPreview /\ plan' = [pairs |-> p.pairs, quiet |-> p.quiet]
        BY <4>2
      <4> HIDE DEF p
      <4> QED BY <1>0, <4>4, <4>5, <4>6 DEF Plan
    <3> QED BY <1>3, <3>1, <3>2
  <2>3. PlaceInv'
    BY <2>1 DEF PlaceInv, Active
  <2>4. UniqueIn(dir')
    BY <2>1
  <2> QED BY <1>0, <1>a, <2>1, <2>2, <2>3, <2>4, LeftAlone, BaseIf
<1>4. ASSUME NEW t \in Threads, Run(t) \/ UndoRun(t) PROVE Base'
  <2>1. \E kind \in {"rename", "undo"}, pairs \in Seq(Pair), quiet \in BOOLEAN, before \in Dir :
            Start(t, kind, pairs, quiet, before)
    <3>1. plan.pairs \in Seq(Pair) /\ plan.quiet \in BOOLEAN /\ undo.pairs \in Seq(Pair)
          /\ undo.quiet \in BOOLEAN /\ undo.before \in Dir
      BY <1>0 DEF Plan, Undo
    <3>2. Reversed(undo.pairs) \in Seq(Pair)
      BY <3>1, ReversedType
    <3> QED BY <1>0, <1>4, <3>1, <3>2 DEF Run, UndoRun, Reversed
  <2>2. PICK kind \in {"rename", "undo"}, pairs \in Seq(Pair), quiet \in BOOLEAN, before \in Dir :
            Start(t, kind, pairs, quiet, before)
    BY <2>1
  <2>3. UNCHANGED <<machine, dir, kept>> /\ Disturb /\ calls' \in 0..MaxCalls /\ upsets' \in 0..MaxUpsets
    BY <2>2, BulkRenamerAssumption DEF Start, TypeOK
  <2>4. call' \in Calls /\ call'[t].at = "check" /\ \A u \in Threads \ {t} : Stays(u)
    BY <1>0, <2>2, StartDoes, LoudStays
  <2>5. PlaceInv'
    BY <2>3, <2>4, PlaceIf
  <2>6. UniqueIn(dir')
    BY <2>3
  <2> QED BY <1>0, <1>a, <2>3, <2>4, <2>5, <2>6, DisturbTypes, BaseIf
\* The steps of a call that touch nothing else but the directory.
<1>5. ASSUME NEW t \in Threads, NEW q \in {"check", "move", "unlink", "over"}, At(t, q),
             UNCHANGED <<machine, kept, preview, plan, undo>>, Usual,
             dir' \in Dir, UniqueIn(dir'),
             \/ Skip(t) \/ Did(t)
             \/ \E place \in {"check", "move", "unlink", "over"} :
                   /\ Goto(t, place)
                   /\ call[t].kind = "undo" => place # "unlink" /\ (place = "move" => machine.sys = "windows")
                   /\ place = "over" => machine.sys # "windows"
      PROVE  Base'
  <2>1. call' \in Calls /\ \A u \in Threads \ {t} : call'[u] = call[u]
    BY <1>0, <1>5, SkipDoes, DidDoes, GotoDoes
  <2>2. \A u \in Threads \ {t} : Stays(u)
    BY <2>1, SameStays
  <2>3. call[t].todo # <<>>
    BY <1>5 DEF At
  <2>4. PlaceInv'
    <3>1. CASE Skip(t) \/ Did(t)
      BY <1>0, <1>5, <2>2, <3>1, SkipDoes, DidDoes, PlaceIf
    <3>2. ASSUME NEW place \in {"check", "move", "unlink", "over"}, Goto(t, place),
                 call[t].kind = "undo" => place # "unlink" /\ (place = "move" => machine.sys = "windows"),
                 place = "over" => machine.sys # "windows"
          PROVE  PlaceInv'
      <4>1. call'[t].at = place /\ call'[t].kind = call[t].kind /\ call'[t].todo = call[t].todo
        BY <1>0, <1>5, <3>2, GotoDoes
      <4> QED BY <1>5, <2>2, <2>3, <3>2, <4>1, PlaceIf
    <3> QED BY <1>5, <3>1, <3>2
  <2> QED BY <1>0, <1>a, <1>5, <2>1, <2>4, LeftAlone, BaseIf
<1>6. ASSUME NEW t \in Threads, Check(t) PROVE Base'
  <2>1. At(t, "check") /\ UNCHANGED <<machine, kept, preview, plan, undo, dir>> /\ Usual
    BY <1>6 DEF Check
  <2>2. \/ Skip(t)
        \/ Goto(t, "over") /\ machine.sys # "windows"
        \/ Goto(t, "move") /\ (call[t].kind = "undo" => machine.sys = "windows")
    BY <1>6 DEF Check
  <2> QED BY <1>0, <1>5, <2>1, <2>2
<1>7. ASSUME NEW t \in Threads, MoveOnWindows(t) \/ RenameOver(t) PROVE Base'
  <2>1. UNCHANGED <<machine, kept, preview, plan, undo>> /\ Usual /\ (At(t, "move") \/ At(t, "over"))
    BY <1>7 DEF MoveOnWindows, RenameOver
  <2>2. Target(t) \in Names
    BY <1>0, <2>1, PairAt
  <2>3. \/ Exists(Source(t)) /\ dir' = Renamed(Source(t), Target(t)) /\ Did(t)
        \/ Skip(t) /\ dir' = dir
    BY <1>7 DEF MoveOnWindows, RenameOver
  <2>4. dir' \in Dir /\ UniqueIn(dir')
    BY <1>0, <2>2, <2>3, RenamedKeeps
  <2> QED BY <1>5, <2>1, <2>3, <2>4
<1>8. ASSUME NEW t \in Threads, Link(t) PROVE Base'
  <2>1. UNCHANGED <<machine, kept, preview, plan, undo>> /\ Usual /\ At(t, "move") /\ machine.sys # "windows"
    BY <1>8 DEF Link
  <2>2. Target(t) \in Names /\ call[t].kind # "undo"
    BY <1>0, <2>1, PairAt DEF PlaceInv, At
  <2>3. \/ Skip(t) /\ dir' = dir
        \/ Goto(t, "over") /\ dir' = dir
        \/ Goto(t, "unlink") /\ ~Exists(Target(t)) /\ dir' = [dir EXCEPT ![Target(t)] = FileAt(Source(t))]
    BY <1>8 DEF Link
  <2>4. dir' \in Dir /\ UniqueIn(dir')
    <3>1. FileAt(Source(t)) \in Files \cup {NoFile}
      BY <1>0, FileType, NowIn
    <3> QED BY <1>0, <2>2, <2>3, <3>1, LinkKeeps, NowIn
  <2> QED BY <1>5, <2>1, <2>2, <2>3, <2>4
<1>9. ASSUME NEW t \in Threads, Unlink(t) PROVE Base'
  <2>1. UNCHANGED <<machine, kept, preview, plan, undo>> /\ Usual /\ At(t, "unlink")
    BY <1>9 DEF Unlink
  <2>2. \/ Did(t) /\ dir' = [n \in Names |-> IF n \in EntryOf(Source(t)) THEN NoFile ELSE dir[n]]
        \/ Skip(t) /\ dir' = dir
    BY <1>9 DEF Unlink
  <2>3. dir' \in Dir /\ UniqueIn(dir')
    BY <1>0, <2>2, UnlinkKeeps DEF Dir
  <2> QED BY <1>5, <2>1, <2>2, <2>3
<1>10. ASSUME NEW t \in Threads, Fail(t) PROVE Base'
  <2>1. UNCHANGED <<machine, dir, kept>> /\ Disturb /\ Upset
    BY <1>10 DEF Fail
  <2>2. call' \in Calls /\ call'[t].at = "check" /\ \A u \in Threads \ {t} : Stays(u)
    BY <1>0, <1>10, FailDoes, LoudStays
  <2>3. PlaceInv'
    BY <2>1, <2>2, PlaceIf
  <2>4. UniqueIn(dir')
    BY <2>1
  <2> QED BY <1>0, <1>a, <2>1, <2>2, <2>3, <2>4, DisturbTypes, Upsets, BaseIf
<1>11. ASSUME NEW t \in Threads, Abandon(t) PROVE Base'
  <2>1. UNCHANGED <<machine, dir, kept, preview, plan, undo>> /\ Upset
    BY <1>11 DEF Abandon
  <2>2. call' \in Calls /\ \A u \in Threads : Stays(u)
    BY <1>0, <1>11, AbandonDoes, SameStays DEF Stays
  <2>3. PlaceInv'
    BY <2>1, <2>2 DEF PlaceInv, Stays, Active
  <2>4. UniqueIn(dir')
    BY <2>1
  <2> QED BY <1>0, <1>a, <2>1, <2>2, <2>3, <2>4, Upsets, BaseIf
<1>12. ASSUME NEW t \in Threads, Finish(t) PROVE Base'
  <2>1. UNCHANGED <<machine, dir, kept, preview, plan>> /\ Usual
    BY <1>12 DEF Finish
  <2>2. call' \in Calls /\ call'[t] = NoCall /\ call[t] \in Call /\ \A u \in Threads \ {t} : Stays(u)
    BY <1>0, <1>12, FinishDoes, SameStays
  <2>3. PlaceInv'
    <3>1. \A u \in Threads : call'[u].kind # "none" => u # t
      BY <2>2 DEF NoCall
    <3> QED BY <2>1, <2>2, <3>1 DEF PlaceInv, Stays, Active
  <2>4. undo' \in Undo
    <3>1. call[t].done \in Seq(Pair) /\ call[t].before \in Dir /\ call[t].quiet \in BOOLEAN
      BY <2>2 DEF Call
    <3>2. (call[t].quiet /\ call[t].kind = "rename") \in BOOLEAN
      BY <3>1
    <3> DEFINE b == call[t].quiet /\ call[t].kind = "rename"
    <3>3. undo' = undo \/ undo' = [pairs |-> call[t].done, before |-> call[t].before, quiet |-> b]
      BY <1>12 DEF Finish
    <3>4. b \in BOOLEAN
      BY <3>2
    <3> HIDE DEF b
    <3> QED BY <1>0, <3>1, <3>3, <3>4 DEF Undo
  <2>5. UniqueIn(dir')
    BY <2>1
  <2> QED BY <1>0, <1>a, <2>1, <2>2, <2>3, <2>4, <2>5, LeftAlone, BaseIf
<1>13. CASE UNCHANGED vars
  BY <1>13 DEF vars, TypeOK, UniqueIn, SameName, PlaceInv, Active
<1> QED
  BY <1>1, <1>2, <1>3, <1>4, <1>6, <1>7, <1>8, <1>9, <1>10, <1>11, <1>12, <1>13 DEF Next, Step

\* The variables of the renamer stay in their types, whatever other programs do.
THEOREM TypeCorrect == Spec => []TypeOK
<1>1. Init => Base
  BY BaseInit
<1>2. Base /\ [Next]_vars => Base'
  BY BaseStep
<1>3. Base => TypeOK
  BY DEF Base
<1> QED BY <1>1, <1>2, <1>3, PTL DEF Spec

-----------------------------------------------------------------------------
(* No file is lost.                                                        *)

\* A rename that replaces finds nothing under the new name but the file itself.
OverInv == \A t \in Threads : At(t, "over") /\ Exists(Target(t)) => FileAt(Source(t)) = FileAt(Target(t))

\* Each file has a name that no unlink is about to remove.
Safe(f, n) == dir[n] = f /\ \A t \in Threads : At(t, "unlink") => ~SameName(n, Source(t))
SafeInv    == \A f \in kept : \E n \in Names : Safe(f, n)

CalmInv == calm => OverInv /\ SafeInv

LEMMA AtStays ==
    ASSUME NEW u \in Threads, Stays(u), NEW q
    PROVE  /\ At(u, q)' <=> At(u, q)
           /\ At(u, q) => call'[u].at = call[u].at /\ Source(u)' = Source(u) /\ Target(u)' = Target(u)
BY DEF Stays, At, Active, Source, Target

\* While all is calm, what a thread has looked at is as it was.
LEMMA Watched ==
    ASSUME Watch, calm', machine' = machine, NEW u \in Threads, Exposed(u) # {}, call'[u].at = call[u].at
    PROVE  calm /\ \A n \in Exposed(u) : FileIn(dir', n) = FileIn(dir, n)
<1>1. calm /\ \A n \in Exposed(u) : FileAt(n)' = FileAt(n)
  BY DEF Watch
<1>2. ASSUME NEW n \in Exposed(u) PROVE FileIn(dir', n) = FileIn(dir, n)
  <2>1. FileAt(n)' = FileAt(n)
    BY <1>1
  <2>2. FileAt(n)' = FileIn(dir', n) /\ FileAt(n) = FileIn(dir, n)
    BY NowIn, ThenIn
  <2> QED BY <2>1, <2>2
<1> QED BY <1>1, <1>2

LEMMA UnlinkWatched ==
    ASSUME Watch, calm', machine' = machine, NEW u \in Threads, At(u, "unlink"), call'[u].at = call[u].at
    PROVE  FileIn(dir', Source(u)) = FileIn(dir, Source(u))
<1>1. Exposed(u) = {Source(u)}
  BY DEF Exposed
<1> QED BY <1>1, Watched

LEMMA OverWatched ==
    ASSUME Watch, calm', machine' = machine, NEW u \in Threads, At(u, "over"), call'[u].at = call[u].at
    PROVE  /\ FileIn(dir', Target(u)) = FileIn(dir, Target(u))
           /\ Exists(Target(u)) => FileIn(dir', Source(u)) = FileIn(dir, Source(u))
<1>1. ~At(u, "unlink")
  BY DEF At
<1>2. Exposed(u) = {Target(u)} \cup {n \in {Source(u)} : Exists(Target(u))}
  BY <1>1 DEF Exposed
<1> QED BY <1>2, Watched

\* No thread comes to look at a name.
Steady(u) == Stays(u) \/ call'[u].kind = "none" \/ call'[u].at = "check"

LEMMA SteadyAt ==
    ASSUME NEW u \in Threads, Steady(u), NEW q \in {"unlink", "over"}, At(u, q)'
    PROVE  At(u, q) /\ call'[u].at = call[u].at /\ Source(u)' = Source(u) /\ Target(u)' = Target(u)
<1>1. Stays(u)
  BY DEF Steady, At, Active
<1> QED BY <1>1, AtStays

LEMMA OverKept ==
    ASSUME Base, Base', CalmInv, Watch, calm', machine' = machine, NEW u \in Threads, Steady(u),
           At(u, "over")', Exists(Target(u))'
    PROVE  (FileAt(Source(u)) = FileAt(Target(u)))'
<1>1. /\ At(u, "over") /\ call'[u].at = call[u].at /\ Source(u)' = Source(u) /\ Target(u)' = Target(u)
  BY SteadyAt
<1>2. UniqueIn(dir) /\ UniqueIn(dir')
  BY DEF Base, UniqueIn, SameName
<1>3. calm /\ OverInv
  BY DEF CalmInv, Watch
<1> DEFINE s == Source(u)
           m == Target(u)
<1>4. Exists(Target(u))' <=> EntryIn(dir', m) # {}
  BY <1>1 DEF Exists, EntryOf, EntryIn, SameName
<1>5. (FileAt(Source(u)) = FileAt(Target(u)))' <=> FileIn(dir', s) = FileIn(dir', m)
  <2>1. FileAt(Source(u))' = FileIn(dir', Source(u)') /\ FileAt(Target(u))' = FileIn(dir', Target(u)')
    BY ThenIn DEF FileAt, FileIn, Exists, EntryOf, EntryIn, SameName
  <2> QED BY <1>1, <2>1
<1>6. FileIn(dir', m) # NoFile
  BY <1>2, <1>4, FileThere DEF UniqueIn, SameName
<1>7. FileIn(dir', m) = FileIn(dir, m) /\ (Exists(m) => FileIn(dir', s) = FileIn(dir, s))
  BY <1>1, OverWatched
<1>8. Exists(m)
  BY <1>2, <1>6, <1>7, FileThere, NowIn
<1>9. FileIn(dir, s) = FileIn(dir, m)
  BY <1>1, <1>3, <1>8, NowIn DEF OverInv
<1> QED BY <1>5, <1>7, <1>8, <1>9

LEMMA SafeKept ==
    ASSUME \A u \in Threads : Steady(u), machine' = machine, NEW f, NEW n \in Names, Safe(f, n), dir'[n] = f
    PROVE  Safe(f, n)'
<1> SUFFICES ASSUME NEW u \in Threads, At(u, "unlink")' PROVE ~SameName(n, Source(u))'
  BY DEF Safe
<1>1. At(u, "unlink") /\ Source(u)' = Source(u)
  BY SteadyAt
<1>2. ~SameName(n, Source(u))
  BY <1>1 DEF Safe
<1> QED BY <1>1, <1>2 DEF SameName

\* A name that was free is not one a thread has looked at.
LEMMA FreshUnseen ==
    ASSUME Base, UniqueIn(dir'), Watch, calm', machine' = machine, NEW m \in Names, ~Exists(m), dir'[m] # NoFile,
           NEW u \in Threads, At(u, "unlink"), call'[u].at = call[u].at
    PROVE  ~SameName(m, Source(u))
<1> SUFFICES ASSUME SameName(m, Source(u)) PROVE FALSE
  OBVIOUS
<1>1. FileIn(dir', Source(u)) = dir'[m]
  BY TheEntry
<1>2. FileIn(dir, Source(u)) # NoFile
  BY <1>1, UnlinkWatched
<1>3. PICK k \in Names : dir[k] # NoFile /\ SameName(k, Source(u))
  BY <1>2, AnEntry, NoEntry
<1>4. SameName(k, m)
  BY <1>3, Alike
<1> QED BY <1>3, <1>4, NowIn, NoEntry

LEMMA SafeFresh ==
    ASSUME Base, UniqueIn(dir'), Watch, calm', machine' = machine, \A u \in Threads : Steady(u),
           NEW m \in Names, ~Exists(m), NEW f, f # NoFile, dir'[m] = f
    PROVE  Safe(f, m)'
<1> SUFFICES ASSUME NEW u \in Threads, At(u, "unlink")' PROVE ~SameName(m, Source(u))'
  BY DEF Safe
<1>1. At(u, "unlink") /\ call'[u].at = call[u].at /\ Source(u)' = Source(u)
  BY SteadyAt
<1>2. ~SameName(m, Source(u))
  BY <1>1, FreshUnseen
<1> QED BY <1>1, <1>2 DEF SameName

\* A move keeps the files safe: nothing is replaced but the file itself.
LEMMA MoveKeepsSafe ==
    ASSUME Base, Base', CalmInv, Watch, calm', machine' = machine, kept' = kept,
           \A u \in Threads : Steady(u),
           NEW n \in Names, NEW m \in Names, Exists(n), dir' = Renamed(n, m),
           Exists(m) => FileAt(m) = FileAt(n)
    PROVE  SafeInv'
<1>1. UniqueIn(dir) /\ UniqueIn(dir') /\ dir \in Dir /\ SafeInv /\ kept \subseteq Files
  BY DEF Base, UniqueIn, SameName, CalmInv, Watch, TypeOK
<1>2. PICK e \in Names : dir[e] # NoFile /\ SameName(e, n)
  BY AnEntry, NowIn
<1>3. FileAt(n) = dir[e]
  BY <1>1, <1>2, TheEntry, NowIn
<1> SUFFICES ASSUME NEW f \in kept PROVE \E k \in Names : Safe(f, k)'
  BY DEF SafeInv
<1>4. PICK k \in Names : Safe(f, k)
  BY <1>1 DEF SafeInv
<1>5. dir[k] = f /\ f # NoFile
  BY <1>1, <1>4, BulkRenamerAssumption DEF Safe
<1>6. CASE dir' = dir
  BY <1>4, <1>5, <1>6, SafeKept
<1>7. CASE /\ FileAt(m) = dir[e] => EntryOf(m) \subseteq {e}
           /\ dir' = [j \in Names |-> IF j = m THEN dir[e]
                                      ELSE IF j = e \/ j \in EntryOf(m) THEN NoFile ELSE dir[j]]
  <2>1. EntryOf(m) \subseteq {e}
    BY <1>3, <1>7 DEF Exists
  <2>2. dir'[m] = dir[e] /\ \A j \in Names : j # m /\ j # e => dir'[j] = dir[j]
    BY <1>7, <2>1
  <2>3. CASE k = m
    <3>1. m \in EntryOf(m)
      BY <1>5, <2>3, Alike DEF EntryOf
    <3>2. dir'[k] = f
      BY <1>5, <2>1, <2>2, <2>3, <3>1
    <3> QED BY <1>4, <3>2, SafeKept
  <2>4. CASE k # m /\ k # e
    BY <1>4, <1>5, <2>2, <2>4, SafeKept
  <2>5. CASE k = e /\ ~Exists(m)
    BY <1>1, <1>5, <2>2, <2>5, SafeFresh
  <2>6. CASE k = e /\ Exists(m)
    <3>1. SameName(e, m)
      BY <2>1, <2>6 DEF Exists, EntryOf
    <3> SUFFICES ASSUME NEW u \in Threads, At(u, "unlink")' PROVE ~SameName(m, Source(u))'
      BY <1>5, <2>2, <2>6 DEF Safe
    <3>2. At(u, "unlink") /\ Source(u)' = Source(u)
      BY SteadyAt
    <3>3. ~SameName(e, Source(u))
      BY <1>4, <2>6, <3>2 DEF Safe
    <3>4. ~SameName(m, Source(u))
      BY <3>1, <3>3, Alike
    <3> QED BY <3>2, <3>4 DEF SameName
  <2> QED BY <2>3, <2>4, <2>5, <2>6
<1>8. \/ dir' = dir
      \/ /\ FileAt(m) = dir[e] => EntryOf(m) \subseteq {e}
         /\ dir' = [j \in Names |-> IF j = m THEN dir[e]
                                    ELSE IF j = e \/ j \in EntryOf(m) THEN NoFile ELSE dir[j]]
  BY <1>1, <1>2, RenamedIs
<1> QED BY <1>6, <1>7, <1>8

LEMMA CalmStep == Base /\ Base' /\ CalmInv /\ [Next]_vars => CalmInv'
<1> SUFFICES ASSUME Base, Base', CalmInv, Next, calm' PROVE OverInv' /\ SafeInv'
  <2>1. CASE UNCHANGED vars
    BY <2>1 DEF vars, CalmInv, OverInv, SafeInv, Safe, At, Active, Source, Target, SameName, Exists, FileAt, EntryOf
  <2> QED BY <2>1 DEF CalmInv
<1>0. /\ Watch /\ calm /\ OverInv /\ SafeInv /\ call \in Calls /\ dir \in Dir /\ kept \subseteq Files
      /\ UniqueIn(dir) /\ call' \in Calls
  BY DEF Next, Watch, CalmInv, Base, TypeOK, Calls
<1>a. NoFile \notin Files
  BY BulkRenamerAssumption
<1>b. machine' = machine => UniqueIn(dir')
  BY DEF Base, UniqueIn, SameName
\* Most steps show no thread a new name.
<1>1. ASSUME machine' = machine, \A u \in Threads : Steady(u) PROVE OverInv'
  BY <1>0, <1>1, OverKept DEF OverInv
<1>2. ASSUME machine' = machine, kept' = kept, dir' = dir, \A u \in Threads : Steady(u) PROVE SafeInv'
  <2> SUFFICES ASSUME NEW f \in kept PROVE \E k \in Names : Safe(f, k)'
    BY <1>2 DEF SafeInv
  <2>1. PICK k \in Names : Safe(f, k)
    BY <1>0 DEF SafeInv
  <2>2. dir'[k] = f
    BY <1>2, <2>1 DEF Safe
  <2> QED BY <1>2, <2>1, <2>2, SafeKept
<1>3. ASSUME NEW n \in Names, UserDeletes(n) PROVE OverInv' /\ SafeInv'
  <2>1. machine' = machine /\ kept' = kept \ {dir[n]} /\ dir' = [dir EXCEPT ![n] = NoFile] /\ call' = Loud(call)
    BY <1>3 DEF UserDeletes
  <2>2. \A u \in Threads : Steady(u)
    BY <1>0, <2>1, LoudStays DEF Steady
  <2>3. SafeInv'
    <3> SUFFICES ASSUME NEW f \in kept, f # dir[n] PROVE \E k \in Names : Safe(f, k)'
      BY <2>1 DEF SafeInv
    <3>1. PICK k \in Names : Safe(f, k)
      BY <1>0 DEF SafeInv
    <3>2. dir'[k] = f
      BY <1>0, <2>1, <3>1 DEF Safe, Dir
    <3> QED BY <2>1, <2>2, <3>1, <3>2, SafeKept
  <2> QED BY <1>1, <2>1, <2>2, <2>3
<1>4. ASSUME NEW n \in Names, NEW g \in Files, UserCreates(g, n) PROVE OverInv' /\ SafeInv'
  <2>1. /\ machine' = machine /\ kept' = kept \cup {g} /\ dir' = [dir EXCEPT ![n] = g] /\ call' = Loud(call)
        /\ ~Exists(n)
    BY <1>4 DEF UserCreates
  <2>2. \A u \in Threads : Steady(u)
    BY <1>0, <2>1, LoudStays DEF Steady
  <2>3. dir[n] = NoFile /\ dir'[n] = g /\ \A k \in Names : k # n => dir'[k] = dir[k]
    BY <1>0, <2>1, Alike DEF Exists, EntryOf, Dir
  <2>4. SafeInv'
    <3> SUFFICES ASSUME NEW f \in kept \cup {g} PROVE \E k \in Names : Safe(f, k)'
      BY <2>1 DEF SafeInv
    <3>1. CASE f = g
      <4>1. f # NoFile
        BY <1>a, <3>1
      <4> QED BY <1>0, <1>b, <2>1, <2>2, <2>3, <3>1, <4>1, SafeFresh
    <3>2. CASE f \in kept
      <4>1. PICK k \in Names : Safe(f, k)
        BY <1>0, <3>2 DEF SafeInv
      <4>2. f # NoFile
        BY <1>0, <1>a, <3>2
      <4>3. k # n /\ dir'[k] = f
        BY <2>3, <4>1, <4>2 DEF Safe
      <4> QED BY <2>1, <2>2, <4>1, <4>3, SafeKept
    <3> QED BY <3>1, <3>2
  <2> QED BY <1>1, <2>1, <2>2, <2>4
<1>5. ASSUME PreviewStart \/ PreviewOne PROVE OverInv' /\ SafeInv'
  <2>1. UNCHANGED <<machine, dir, kept, call>>
    BY <1>5 DEF PreviewStart, PreviewOne
  <2>2. \A u \in Threads : Steady(u)
    BY <2>1 DEF Steady, Stays
  <2> QED BY <1>1, <1>2, <2>1, <2>2
<1>6. ASSUME NEW t \in Threads, Run(t) \/ UndoRun(t) PROVE OverInv' /\ SafeInv'
  <2>1. UNCHANGED <<machine, dir, kept>>
    BY <1>6 DEF Run, UndoRun, Start
  <2>2. \A u \in Threads : Steady(u)
    <3> DEFINE c == Loud(call)
    <3>1. c \in Calls
      BY <1>0, LoudCalls
    <3>2. ASSUME NEW kind, NEW pairs, NEW quiet, NEW before, Start(t, kind, pairs, quiet, before)
          PROVE  call'[t].at = "check" /\ \A u \in Threads \ {t} : call'[u] = c[u]
      <4> DEFINE r == [kind |-> kind, at |-> "check", todo |-> pairs, done |-> <<>>, heard |-> TRUE,
                       quiet |-> quiet /\ Alone, before |-> IF quiet /\ Alone THEN before ELSE Empty]
      <4>1. call' = [c EXCEPT ![t] = r]
        BY <3>2 DEF Start
      <4>2. r.at = "check"
        OBVIOUS
      <4> HIDE DEF r
      <4> QED BY <3>1, <4>1, <4>2 DEF Calls
    <3>3. call'[t].at = "check" /\ \A u \in Threads \ {t} : call'[u] = c[u]
      BY <1>6, <3>2 DEF Run, UndoRun
    <3> QED BY <1>0, <3>3, LoudStays DEF Steady
  <2> QED BY <1>1, <1>2, <2>1, <2>2
<1>7. ASSUME NEW t \in Threads, Fail(t) \/ Abandon(t) \/ Finish(t) PROVE OverInv' /\ SafeInv'
  <2>1. UNCHANGED <<machine, dir, kept>>
    BY <1>7 DEF Fail, Abandon, Finish
  <2>2. \A u \in Threads : Steady(u)
    <3>1. CASE Fail(t)
      BY <1>0, <3>1, FailDoes, LoudStays DEF Steady
    <3>2. CASE Abandon(t)
      BY <1>0, <3>2, AbandonDoes DEF Steady, Stays
    <3>3. CASE Finish(t)
      BY <1>0, <3>3, FinishDoes, SameStays DEF Steady, NoCall
    <3> QED BY <1>7, <3>1, <3>2, <3>3
  <2> QED BY <1>1, <1>2, <2>1, <2>2
\* A call that has passed over, or dealt with, its pair.
<1>8. ASSUME NEW t \in Threads, NEW q, At(t, q), Skip(t) \/ Did(t)
      PROVE  \A u \in Threads : Steady(u)
  BY <1>0, <1>8, SkipDoes, DidDoes, SameStays DEF Steady
\* A call that goes to another place.
<1>9. ASSUME NEW t \in Threads, NEW q, At(t, q), NEW place \in {"check", "move", "unlink", "over"}, Goto(t, place),
             machine' = machine,
             place = "over" => dir' = dir /\ (Exists(Target(t)) => FileAt(Source(t)) = FileAt(Target(t)))
      PROVE  OverInv'
  <2> SUFFICES ASSUME NEW u \in Threads, At(u, "over")', Exists(Target(u))'
               PROVE  (FileAt(Source(u)) = FileAt(Target(u)))'
    BY DEF OverInv
  <2>1. CASE u # t
    <3>1. Steady(u)
      BY <1>0, <1>9, <2>1, GotoDoes, SameStays DEF Steady
    <3> QED BY <1>0, <1>9, <3>1, OverKept
  <2>2. CASE u = t
    <3>1. place = "over" /\ call'[t].todo = call[t].todo
      BY <1>0, <1>9, <2>2, GotoDoes DEF At
    <3>2. Source(t)' = Source(t) /\ Target(t)' = Target(t)
      BY <3>1 DEF Source, Target
    <3>3. dir' = dir /\ (Exists(Target(t)) => FileAt(Source(t)) = FileAt(Target(t)))
      BY <1>9, <3>1
    <3> QED BY <1>9, <2>2, <3>2, <3>3 DEF FileAt, Exists, EntryOf, SameName
  <2> QED BY <2>1, <2>2
<1>10. ASSUME NEW t \in Threads, NEW q, At(t, q), NEW place \in {"check", "move", "over"}, Goto(t, place),
              machine' = machine, kept' = kept, dir' = dir
       PROVE  SafeInv'
  <2>1. \A u \in Threads : At(u, "unlink")' => At(u, "unlink") /\ Source(u)' = Source(u)
    <3>1. \A u \in Threads \ {t} : Steady(u)
      BY <1>0, <1>10, GotoDoes, SameStays DEF Steady
    <3>2. ~At(t, "unlink")'
      BY <1>0, <1>10, GotoDoes DEF At
    <3> QED BY <3>1, <3>2, SteadyAt
  <2> QED BY <1>0, <1>10, <2>1 DEF SafeInv, Safe, SameName
<1>11. ASSUME NEW t \in Threads, Check(t) PROVE OverInv' /\ SafeInv'
  <2>1. At(t, "check") /\ UNCHANGED <<machine, kept, dir>>
    BY <1>11 DEF Check
  <2>2. \/ Skip(t)
        \/ ~Stale(t) /\ \E place \in {"over", "move"} : Goto(t, place)
    BY <1>11 DEF Check
  <2>3. CASE Skip(t)
    BY <1>1, <1>2, <1>8, <2>1, <2>3
  <2>4. ASSUME NEW place \in {"over", "move"}, Goto(t, place), ~Stale(t) PROVE OverInv' /\ SafeInv'
    <3>1. Exists(Target(t)) => FileAt(Source(t)) = FileAt(Target(t))
      BY <2>4 DEF Stale, SameFile
    <3> QED BY <1>9, <1>10, <2>1, <2>4, <3>1
  <2> QED BY <2>2, <2>3, <2>4
<1>12. ASSUME NEW t \in Threads, MoveOnWindows(t) \/ RenameOver(t) PROVE OverInv' /\ SafeInv'
  <2>1. machine' = machine /\ kept' = kept /\ (At(t, "move") \/ At(t, "over")) /\ (Skip(t) \/ Did(t))
    BY <1>12 DEF MoveOnWindows, RenameOver
  <2>2. \A u \in Threads : Steady(u)
    BY <1>8, <2>1
  <2>3. \/ dir' = dir
        \/ /\ Exists(Source(t)) /\ dir' = Renamed(Source(t), Target(t))
           /\ Exists(Target(t)) => FileAt(Target(t)) = FileAt(Source(t))
    <3>1. CASE MoveOnWindows(t)
      <4>1. EntryOf(Target(t)) = EntryOf(Source(t)) => FileAt(Target(t)) = FileAt(Source(t))
        BY DEF FileAt, Exists
      <4>2. \/ dir' = dir
            \/ /\ Exists(Source(t)) /\ dir' = Renamed(Source(t), Target(t))
               /\ Exists(Target(t)) => EntryOf(Target(t)) = EntryOf(Source(t))
        BY <3>1 DEF MoveOnWindows
      <4> QED BY <4>1, <4>2
    <3>2. CASE RenameOver(t)
      <4>1. Exists(Target(t)) => FileAt(Target(t)) = FileAt(Source(t))
        BY <1>0, <3>2 DEF RenameOver, OverInv
      <4> QED BY <3>2, <4>1 DEF RenameOver
    <3> QED BY <1>12, <3>1, <3>2
  <2>4. Source(t) \in Names /\ Target(t) \in Names
    BY <1>0, <2>1, PairAt
  <2>5. SafeInv'
    BY <1>0, <1>2, <2>1, <2>2, <2>3, <2>4, MoveKeepsSafe
  <2> QED BY <1>1, <2>1, <2>2, <2>5
<1>13. ASSUME NEW t \in Threads, Unlink(t) PROVE OverInv' /\ SafeInv'
  <2>1. machine' = machine /\ kept' = kept /\ At(t, "unlink") /\ (Skip(t) \/ Did(t))
    BY <1>13 DEF Unlink
  <2>2. \A u \in Threads : Steady(u)
    BY <1>8, <2>1
  <2>3. \A n \in Names : n \notin EntryOf(Source(t)) => dir'[n] = dir[n]
    BY <1>13 DEF Unlink
  <2>4. SafeInv'
    <3> SUFFICES ASSUME NEW f \in kept PROVE \E k \in Names : Safe(f, k)'
      BY <2>1 DEF SafeInv
    <3>1. PICK k \in Names : Safe(f, k)
      BY <1>0 DEF SafeInv
    <3>2. dir'[k] = f
      BY <2>1, <2>3, <3>1 DEF Safe, EntryOf
    <3> QED BY <2>1, <2>2, <3>1, <3>2, SafeKept
  <2> QED BY <1>1, <2>1, <2>2, <2>4
<1>14. ASSUME NEW t \in Threads, Link(t) PROVE OverInv' /\ SafeInv'
  <2>1. machine' = machine /\ kept' = kept /\ At(t, "move")
    BY <1>14 DEF Link
  <2>a. PICK s \in Names : s = Source(t)
    BY <1>0, <2>1, PairAt
  <2>b. PICK m \in Names : m = Target(t)
    BY <1>0, <2>1, PairAt
  <2>2. \/ Skip(t) /\ dir' = dir
        \/ Goto(t, "over") /\ dir' = dir /\ ~Exists(m)
        \/ Goto(t, "unlink") /\ Exists(s) /\ ~Exists(m) /\ dir' = [dir EXCEPT ![m] = FileAt(s)]
    BY <1>14, <2>a, <2>b DEF Link
  <2>3. CASE Skip(t) /\ dir' = dir
    BY <1>1, <1>2, <1>8, <2>1, <2>3
  <2>4. CASE Goto(t, "over") /\ dir' = dir /\ ~Exists(m)
    BY <1>9, <1>10, <2>1, <2>4, <2>b
  <2>5. CASE Goto(t, "unlink") /\ Exists(s) /\ ~Exists(m) /\ dir' = [dir EXCEPT ![m] = FileAt(s)]
    <3>1. OverInv'
      BY <1>9, <2>1, <2>5
    <3>2. s \in Names /\ m \in Names
      BY <1>0, <2>1, PairAt
    <3>3. PICK e \in Names : dir[e] # NoFile /\ SameName(e, s)
      BY <2>5, AnEntry, NowIn
    <3>4. FileAt(s) = dir[e]
      BY <1>0, <3>3, TheEntry, NowIn
    <3>5. dir'[m] = dir[e] /\ dir[m] = NoFile /\ \A k \in Names : k # m => dir'[k] = dir[k]
      BY <1>0, <2>5, <3>2, <3>4, Alike DEF Exists, EntryOf, Dir
    <3>6. ~SameName(m, s)
      BY <2>5, <3>3, Alike DEF Exists, EntryOf
    <3>7. \A u \in Threads \ {t} : Stays(u)
      BY <1>0, <2>1, <2>5, GotoDoes, SameStays
    <3>8. Source(t)' = s
      BY <1>0, <2>1, <2>5, <2>a, GotoDoes DEF Source
    <3>9. \A u \in Threads : At(u, "unlink")' =>
              u = t \/ (At(u, "unlink") /\ call'[u].at = call[u].at /\ Source(u)' = Source(u))
      BY <3>7, AtStays
    <3>10. SafeInv'
      <4> SUFFICES ASSUME NEW f \in kept PROVE \E k \in Names : Safe(f, k)'
        BY <2>1 DEF SafeInv
      <4>1. PICK k \in Names : Safe(f, k)
        BY <1>0 DEF SafeInv
      <4>2. f # NoFile /\ dir[k] = f
        BY <1>0, <1>a, <4>1 DEF Safe
      <4>3. CASE SameName(k, s)
        <5>1. k = e
          BY <1>0, <3>3, <4>2, <4>3, Alike DEF UniqueIn
        <5> SUFFICES ASSUME NEW u \in Threads, At(u, "unlink")' PROVE ~SameName(m, Source(u))'
          BY <3>2, <3>5, <4>2, <5>1 DEF Safe
        <5>2. CASE u = t
          BY <2>1, <3>6, <3>8, <5>2 DEF SameName
        <5>3. CASE At(u, "unlink") /\ call'[u].at = call[u].at /\ Source(u)' = Source(u)
          <6>1. ~SameName(m, Source(u))
            BY <1>0, <1>b, <2>1, <2>5, <3>2, <3>3, <3>5, <5>3, FreshUnseen
          <6> QED BY <2>1, <5>3, <6>1 DEF SameName
        <5> QED BY <3>9, <5>2, <5>3
      <4>4. CASE ~SameName(k, s)
        <5>1. dir'[k] = f
          BY <3>5, <4>2
        <5> SUFFICES ASSUME NEW u \in Threads, At(u, "unlink")' PROVE ~SameName(k, Source(u))'
          BY <5>1 DEF Safe
        <5>2. CASE u = t
          BY <2>1, <3>8, <4>4, <5>2 DEF SameName
        <5>3. CASE At(u, "unlink") /\ Source(u)' = Source(u)
          <6>1. ~SameName(k, Source(u))
            BY <4>1, <5>3 DEF Safe
          <6> QED BY <2>1, <5>3, <6>1 DEF SameName
        <5> QED BY <3>9, <5>2, <5>3
      <4> QED BY <4>3, <4>4
    <3> QED BY <3>1, <3>10
  <2> QED BY <2>2, <2>3, <2>4, <2>5
<1> QED
  BY <1>3, <1>4, <1>5, <1>6, <1>7, <1>11, <1>12, <1>13, <1>14 DEF Next, Step

\* Every file its owner has not deleted has a name, for any names, however they
\* fold, any number of threads and any other programs, as long as nobody changes
\* a name between a check and the call that depends on it (rename, undo).
THEOREM NothingGetsLost == Spec => []NothingLost
<1>1. Init => Base /\ CalmInv
  <2> SUFFICES ASSUME Init PROVE CalmInv
    BY BaseInit
  <2>1. \A t \in Threads : ~Active(t)
    BY DEF Init, Active, NoCall
  <2>2. kept = {dir[n] : n \in Names} \ {NoFile}
    BY DEF Init
  <2> QED BY <2>1, <2>2 DEF CalmInv, OverInv, SafeInv, Safe, At
<1>2. Base /\ CalmInv /\ [Next]_vars => (Base /\ CalmInv)'
  BY BaseStep, CalmStep
<1>3. Base /\ CalmInv => NothingLost
  BY DEF CalmInv, SafeInv, Safe, NothingLost
<1> QED BY <1>1, <1>2, <1>3, PTL DEF Spec

-----------------------------------------------------------------------------
(* What renaming some pairs makes of a directory, and back.                *)

\* No two pairs of a sequence have one old name, or one new name.
OldsDiffer(s) == \A i, j \in DOMAIN s : s[i].old = s[j].old => i = j
NewsDiffer(s) == \A i, j \in DOMAIN s : s[i].new = s[j].new => i = j

\* The pairs of S rename what is in directory B to names that are free there.
Sound(B, S) ==
    \A p \in S : /\ p \in Pair /\ p.new # p.old /\ B[p.old] # NoFile
                 /\ \A m \in Names : B[m] # NoFile /\ SameName(m, p.new) => m = p.old

\* No name is promised twice: as a path, or as an entry of the directory.
Promised(S) == \A p, q \in S : SamePath(p.new, q.new) => p = q
Apart(S)    == \A p, q \in S : SameName(p.new, q.new) => p = q

\* d is what renaming the pairs of S makes of directory B.
Applied(d, B, S) ==
    \A k \in Names :
        /\ \A p \in S : p.new = k => d[k] = B[p.old]
        /\ (\E p \in S : p.old = k) /\ (\A p \in S : p.new # k) => d[k] = NoFile
        /\ (\A p \in S : p.old # k /\ p.new # k) => d[k] = B[k]

\* d2 differs from d by one rename of file f, from name a to name b.
Moved(d, d2, a, b, f) == d2[b] = f /\ d2[a] = NoFile /\ \A k \in Names : k # a /\ k # b => d2[k] = d[k]

LEMMA AppliedNone == ASSUME NEW d PROVE Applied(d, d, {})
BY DEF Applied

LEMMA AppliedAll == ASSUME NEW d \in Dir, NEW B \in Dir, Applied(d, B, {}) PROVE d = B
<1>1. \A k \in Names : d[k] = B[k]
  BY DEF Applied
<1> QED BY <1>1 DEF Dir

\* A pair still to be renamed finds its file, and nothing under its new name but
\* itself and what earlier pairs have put there.
LEMMA ToBeRenamed ==
    ASSUME NEW d, NEW B, NEW D, NEW T, NEW h \in T, Sound(B, D), Sound(B, T), Applied(d, B, D),
           \A p \in D : p.old # h.old
    PROVE  /\ \A p \in D : p.new # h.old
           /\ d[h.old] = B[h.old] /\ d[h.old] # NoFile
           /\ \A m \in EntryIn(d, h.new) : m = h.old \/ \E p \in D : p.new = m
<1>0. h.old \in Names /\ h.new \in Names /\ B[h.old] # NoFile
  BY DEF Pair, Sound
<1>1. ASSUME NEW p \in D, p.new = h.old PROVE FALSE
  <2>1. h.old = p.old
    BY <1>0, <1>1, Alike DEF Sound
  <2> QED BY <1>1, <2>1
<1>2. d[h.old] = B[h.old]
  BY <1>0, <1>1 DEF Applied
<1>3. ASSUME NEW m \in EntryIn(d, h.new), \A p \in D : p.new # m PROVE m = h.old
  <2>1. m \in Names /\ d[m] # NoFile /\ SameName(m, h.new)
    BY <1>3 DEF EntryIn
  <2>2. \A p \in D : p.old # m
    BY <1>3, <2>1 DEF Applied
  <2>3. d[m] = B[m]
    BY <1>3, <2>1, <2>2 DEF Applied
  <2> QED BY <2>1, <2>3 DEF Sound
<1> QED BY <1>0, <1>1, <1>2, <1>3

LEMMA Extend ==
    ASSUME NEW d, NEW d2, NEW B, NEW D, NEW T, NEW h \in T, Sound(B, D), Sound(B, T), Applied(d, B, D),
           \A p \in D : p.old # h.old /\ ~SameName(p.new, h.new),
           Moved(d, d2, h.old, h.new, B[h.old])
    PROVE  Applied(d2, B, D \cup {h})
<1>0. h.old \in Names /\ B[h.old] # NoFile
  BY DEF Pair, Sound
<1>1. ASSUME NEW p \in D, p.new = h.old PROVE FALSE
  <2>1. h.old = p.old
    BY <1>0, <1>1, Alike DEF Sound
  <2> QED BY <1>1, <2>1
<1>2. \A p \in D : p.new # h.new
  BY Alike
<1> SUFFICES ASSUME NEW k \in Names
             PROVE  /\ \A p \in D \cup {h} : p.new = k => d2[k] = B[p.old]
                    /\ (\E p \in D \cup {h} : p.old = k) /\ (\A p \in D \cup {h} : p.new # k) => d2[k] = NoFile
                    /\ (\A p \in D \cup {h} : p.old # k /\ p.new # k) => d2[k] = B[k]
  BY DEF Applied
<1>3. /\ \A p \in D : p.new = k => d[k] = B[p.old]
      /\ (\E p \in D : p.old = k) /\ (\A p \in D : p.new # k) => d[k] = NoFile
      /\ (\A p \in D : p.old # k /\ p.new # k) => d[k] = B[k]
  BY DEF Applied
<1>4. d2[h.new] = B[h.old] /\ d2[h.old] = NoFile /\ (k # h.old /\ k # h.new => d2[k] = d[k])
  BY DEF Moved
<1> QED BY <1>1, <1>2, <1>3, <1>4

\* A pair still to be undone finds its file, and nothing under its old name but
\* itself in other letters.
LEMMA ToBeUndone ==
    ASSUME NEW d, NEW B, NEW R, NEW x \in R, UniqueIn(B), Sound(B, R), Applied(d, B, R),
           \A p, q \in R : p.old = q.old => p = q
    PROVE  /\ x.old \in Names /\ x.new \in Names
           /\ d[x.new] = B[x.old] /\ d[x.new] # NoFile
           /\ EntryIn(d, x.old) \subseteq {x.new}
<1>0. x.old \in Names /\ x.new \in Names /\ B[x.old] # NoFile
  BY DEF Pair, Sound
<1>1. d[x.new] = B[x.old]
  BY <1>0 DEF Applied
<1>2. ASSUME NEW m \in EntryIn(d, x.old) PROVE m = x.new
  <2>1. m \in Names /\ d[m] # NoFile /\ SameName(m, x.old)
    BY <1>2 DEF EntryIn
  <2>2. CASE \E p \in R : p.new = m
    <3>1. PICK p \in R : p.new = m
      BY <2>2
    <3>2. x.old = p.old
      BY <1>0, <2>1, <3>1, Alike DEF Sound
    <3> QED BY <3>1, <3>2
  <2>3. CASE \A p \in R : p.new # m
    <3>1. \A p \in R : p.old # m
      BY <2>1, <2>3 DEF Applied
    <3>2. B[m] # NoFile
      BY <2>1, <2>3, <3>1 DEF Applied
    <3>3. m = x.old
      BY <1>0, <2>1, <3>2 DEF UniqueIn
    <3> QED BY <3>1, <3>3
  <2> QED BY <2>2, <2>3
<1> QED BY <1>0, <1>1, <1>2

LEMMA Retract ==
    ASSUME NEW d, NEW d2, NEW B, NEW R, NEW x \in R, Sound(B, R), Apart(R), Applied(d, B, R),
           \A p, q \in R : p.old = q.old => p = q,
           Moved(d, d2, x.new, x.old, B[x.old])
    PROVE  Applied(d2, B, R \ {x})
<1>0. x.old \in Names /\ x.new \in Names /\ B[x.old] # NoFile /\ x.new # x.old
  BY DEF Pair, Sound
<1>1. \A p \in R \ {x} : p.new # x.new
  BY Alike DEF Apart
<1>2. \A p \in R \ {x} : p.new # x.old
  <2> SUFFICES ASSUME NEW p \in R, p.new = x.old PROVE p = x
    OBVIOUS
  <2>1. x.old = p.old
    BY <1>0, Alike DEF Sound
  <2> QED BY <2>1
<1>3. B[x.new] = NoFile
  BY <1>0, Alike DEF Sound
<1>4. \A p \in R : p.old # x.new
  BY <1>3 DEF Sound
<1> SUFFICES ASSUME NEW k \in Names
             PROVE  /\ \A p \in R \ {x} : p.new = k => d2[k] = B[p.old]
                    /\ (\E p \in R \ {x} : p.old = k) /\ (\A p \in R \ {x} : p.new # k) => d2[k] = NoFile
                    /\ (\A p \in R \ {x} : p.old # k /\ p.new # k) => d2[k] = B[k]
  BY DEF Applied
<1>5. /\ \A p \in R : p.new = k => d[k] = B[p.old]
      /\ (\E p \in R : p.old = k) /\ (\A p \in R : p.new # k) => d[k] = NoFile
      /\ (\A p \in R : p.old # k /\ p.new # k) => d[k] = B[k]
  BY DEF Applied
<1>6. d2[x.old] = B[x.old] /\ d2[x.new] = NoFile /\ (k # x.old /\ k # x.new => d2[k] = d[k])
  BY DEF Moved
<1>7. \A p \in R \ {x} : p.new = k => d2[k] = B[p.old]
  BY <1>1, <1>2, <1>5, <1>6
<1>8. (\E p \in R \ {x} : p.old = k) /\ (\A p \in R \ {x} : p.new # k) => d2[k] = NoFile
  <2> SUFFICES ASSUME NEW p \in R \ {x}, p.old = k, \A q \in R \ {x} : q.new # k PROVE d2[k] = NoFile
    OBVIOUS
  <2>1. k # x.old /\ k # x.new
    BY <1>4
  <2> QED BY <1>5, <1>6, <2>1
<1>9. (\A p \in R \ {x} : p.old # k /\ p.new # k) => d2[k] = B[k]
  BY <1>3, <1>5, <1>6
<1> QED BY <1>7, <1>8, <1>9

\* A rename that finds nothing else under the new name.
LEMMA MoveIs ==
    ASSUME Base, NEW n, NEW m \in Names, NEW e \in Names, dir[e] # NoFile, SameName(e, n), EntryOf(m) \subseteq {e}
    PROVE  Exists(n) /\ FileAt(n) = dir[e] /\ EntryOf(n) = {e}
           /\ (m # e => Moved(dir, Renamed(n, m), e, m, dir[e]))
<1>1. EntryOf(n) = {e} /\ FileAt(n) = dir[e] /\ Exists(n)
  BY TheEntry, NowIn DEF Base
<1>2. EntryOf(n) # EntryOf(m) => FileAt(m) = NoFile
  BY <1>1 DEF FileAt, Exists
<1>3. ~(SameFile(n, m) /\ EntryOf(n) # EntryOf(m))
  BY <1>1, <1>2 DEF SameFile
<1>4. Renamed(n, m) = [k \in Names |-> IF k = m THEN FileAt(n)
                                       ELSE IF k \in EntryOf(n) \cup EntryOf(m) THEN NoFile ELSE dir[k]]
  BY <1>3 DEF Renamed
<1> QED BY <1>1, <1>4 DEF Moved

-----------------------------------------------------------------------------
(* What holds as long as nothing has touched the directory.                *)

LEMMA SetTail ==
    ASSUME NEW S, NEW s \in Seq(S), s # <<>>
    PROVE  ToSet(s) = {Head(s)} \cup ToSet(Tail(s))
<1>1. /\ Head(s) = s[1] /\ Len(s) \in Nat \ {0} /\ DOMAIN s = 1..Len(s)
      /\ DOMAIN Tail(s) = 1..(Len(s) - 1) /\ \A i \in 1..(Len(s) - 1) : Tail(s)[i] = s[i + 1]
  BY HeadTail
<1>2. \A i \in DOMAIN s : i = 1 \/ (i - 1 \in DOMAIN Tail(s) /\ s[i] = Tail(s)[i - 1])
  BY <1>1
<1>3. \A i \in DOMAIN Tail(s) : i + 1 \in DOMAIN s /\ Tail(s)[i] = s[i + 1]
  BY <1>1
<1>4. 1 \in DOMAIN s
  BY <1>1
<1>5. ASSUME NEW x \in ToSet(s) PROVE x \in {Head(s)} \cup ToSet(Tail(s))
  <2>1. PICK i \in DOMAIN s : x = s[i]
    BY <1>5 DEF ToSet
  <2> QED BY <1>1, <1>2, <2>1 DEF ToSet
<1>6. ASSUME NEW x \in ToSet(Tail(s)) PROVE x \in ToSet(s)
  <2>1. PICK i \in DOMAIN Tail(s) : x = Tail(s)[i]
    BY <1>6 DEF ToSet
  <2> QED BY <1>3, <2>1 DEF ToSet
<1>7. Head(s) \in ToSet(s)
  BY <1>1, <1>4 DEF ToSet
<1> QED BY <1>5, <1>6, <1>7

LEMMA SetAppend ==
    ASSUME NEW S, NEW s \in Seq(S), NEW x \in S
    PROVE  ToSet(Append(s, x)) = ToSet(s) \cup {x}
<1>1. DOMAIN Append(s, x) = 1..(Len(s) + 1) /\ DOMAIN s = 1..Len(s) /\ Len(s) \in Nat
  OBVIOUS
<1>2. \A i \in 1..Len(s) : Append(s, x)[i] = s[i]
  OBVIOUS
<1>3. Append(s, x)[Len(s) + 1] = x
  OBVIOUS
<1> QED BY <1>1, <1>2, <1>3 DEF ToSet

LEMMA SetEmpty == ToSet(<<>>) = {}
BY DEF ToSet

LEMMA InSet == ASSUME NEW S, NEW s \in Seq(S) PROVE ToSet(s) \subseteq S
BY DEF ToSet

LEMMA OldsTail ==
    ASSUME NEW s \in Seq(Pair), s # <<>>, OldsDiffer(s)
    PROVE  OldsDiffer(Tail(s)) /\ \A p \in ToSet(Tail(s)) : p.old # Head(s).old
<1>1. /\ Head(s) = s[1] /\ Len(s) \in Nat \ {0} /\ DOMAIN s = 1..Len(s)
      /\ DOMAIN Tail(s) = 1..(Len(s) - 1) /\ \A i \in 1..(Len(s) - 1) : Tail(s)[i] = s[i + 1]
  BY HeadTail
<1>2. \A i \in DOMAIN Tail(s) : i + 1 \in DOMAIN s /\ Tail(s)[i] = s[i + 1] /\ i + 1 # 1 /\ 1 \in DOMAIN s /\ i \in Nat
  BY <1>1
<1>3. OldsDiffer(Tail(s))
  <2> SUFFICES ASSUME NEW i \in DOMAIN Tail(s), NEW j \in DOMAIN Tail(s), Tail(s)[i].old = Tail(s)[j].old
               PROVE  i = j
    BY DEF OldsDiffer
  <2>1. i + 1 = j + 1 /\ i \in Nat /\ j \in Nat
    BY <1>2 DEF OldsDiffer
  <2> QED BY <2>1
<1>4. ASSUME NEW i \in DOMAIN Tail(s), Tail(s)[i].old = s[1].old PROVE FALSE
  BY <1>2, <1>4 DEF OldsDiffer
<1> QED BY <1>1, <1>3, <1>4 DEF ToSet

LEMMA NewsTail ==
    ASSUME NEW s \in Seq(Pair), s # <<>>, NewsDiffer(s)
    PROVE  NewsDiffer(Tail(s)) /\ \A p \in ToSet(Tail(s)) : p.new # Head(s).new
<1>1. /\ Head(s) = s[1] /\ Len(s) \in Nat \ {0} /\ DOMAIN s = 1..Len(s)
      /\ DOMAIN Tail(s) = 1..(Len(s) - 1) /\ \A i \in 1..(Len(s) - 1) : Tail(s)[i] = s[i + 1]
  BY HeadTail
<1>2. \A i \in DOMAIN Tail(s) : i + 1 \in DOMAIN s /\ Tail(s)[i] = s[i + 1] /\ i + 1 # 1 /\ 1 \in DOMAIN s /\ i \in Nat
  BY <1>1
<1>3. NewsDiffer(Tail(s))
  <2> SUFFICES ASSUME NEW i \in DOMAIN Tail(s), NEW j \in DOMAIN Tail(s), Tail(s)[i].new = Tail(s)[j].new
               PROVE  i = j
    BY DEF NewsDiffer
  <2>1. i + 1 = j + 1 /\ i \in Nat /\ j \in Nat
    BY <1>2 DEF NewsDiffer
  <2> QED BY <2>1
<1>4. ASSUME NEW i \in DOMAIN Tail(s), Tail(s)[i].new = s[1].new PROVE FALSE
  BY <1>2, <1>4 DEF NewsDiffer
<1> QED BY <1>1, <1>3, <1>4 DEF ToSet

LEMMA OldsAppend ==
    ASSUME NEW s \in Seq(Pair), NEW x \in Pair, OldsDiffer(s), \A p \in ToSet(s) : p.old # x.old
    PROVE  OldsDiffer(Append(s, x))
<1>1. DOMAIN Append(s, x) = 1..(Len(s) + 1) /\ DOMAIN s = 1..Len(s) /\ Len(s) \in Nat
  OBVIOUS
<1>2. \A i \in 1..Len(s) : Append(s, x)[i] = s[i]
  OBVIOUS
<1>3. Append(s, x)[Len(s) + 1] = x
  OBVIOUS
<1>4. \A i \in 1..Len(s) : s[i].old # x.old
  BY <1>1 DEF ToSet
<1> SUFFICES ASSUME NEW i \in 1..(Len(s) + 1), NEW j \in 1..(Len(s) + 1), Append(s, x)[i].old = Append(s, x)[j].old
             PROVE  i = j
  BY <1>1 DEF OldsDiffer
<1>5. i \in 1..Len(s) \/ i = Len(s) + 1
  BY <1>1
<1>6. j \in 1..Len(s) \/ j = Len(s) + 1
  BY <1>1
<1> QED BY <1>1, <1>2, <1>3, <1>4, <1>5, <1>6 DEF OldsDiffer

\* The pairs an undo has before it, as the renames they take back.
Back(S) == {[old |-> p.new, new |-> p.old] : p \in S}

LEMMA BackSet ==
    ASSUME NEW s \in Seq(Pair)
    PROVE  Back(ToSet(Reversed(s))) = ToSet(s)
<1>1. Reversed(s) \in Seq(Pair) /\ DOMAIN Reversed(s) = DOMAIN s
  BY ReversedType
<1>2. ASSUME NEW i \in DOMAIN s
      PROVE  s[i] = [old |-> Reversed(s)[i].new, new |-> Reversed(s)[i].old]
  <2>1. s[i] \in Pair
    BY <1>2
  <2>2. Reversed(s)[i] = [old |-> s[i].new, new |-> s[i].old]
    BY <1>2 DEF Reversed
  <2> QED BY <2>1, <2>2 DEF Pair
<1>3. ASSUME NEW x \in ToSet(s) PROVE x \in Back(ToSet(Reversed(s)))
  <2>1. PICK i \in DOMAIN s : x = s[i]
    BY <1>3 DEF ToSet
  <2>2. Reversed(s)[i] \in ToSet(Reversed(s))
    BY <1>1 DEF ToSet
  <2> QED BY <1>2, <2>1, <2>2 DEF Back
<1>4. ASSUME NEW x \in Back(ToSet(Reversed(s))) PROVE x \in ToSet(s)
  <2>1. PICK p \in ToSet(Reversed(s)) : x = [old |-> p.new, new |-> p.old]
    BY <1>4 DEF Back
  <2>2. PICK i \in DOMAIN s : p = Reversed(s)[i]
    BY <1>1, <2>1 DEF ToSet
  <2>3. x = s[i]
    BY <1>2, <2>1, <2>2
  <2> QED BY <2>3 DEF ToSet
<1> QED BY <1>3, <1>4

LEMMA ReversedNews ==
    ASSUME NEW s \in Seq(Pair), OldsDiffer(s)
    PROVE  NewsDiffer(Reversed(s))
BY ReversedType DEF OldsDiffer, NewsDiffer, Reversed

Planned(B, s) == Sound(B, ToSet(s)) /\ OldsDiffer(s) /\ Promised(ToSet(s))
Carried(B, s) == UniqueIn(B) /\ Sound(B, ToSet(s)) /\ OldsDiffer(s) /\ Apart(ToSet(s))

PreviewInv == preview.quiet =>
    /\ Alone /\ OneName
    /\ Planned(dir, preview.pairs)
    /\ IsInjective(preview.todo)
    /\ \A n \in ToSet(preview.todo) : dir[n] # NoFile /\ \A p \in ToSet(preview.pairs) : p.old # n

PlanInv == plan.quiet => Alone /\ OneName /\ Planned(dir, plan.pairs)

UndoInv == undo.quiet => Alone /\ Carried(undo.before, undo.pairs) /\ Applied(dir, undo.before, ToSet(undo.pairs))

\* A quiet run c in directory d: what it has done has brought d to where it is,
\* and what it has yet to do can be done.
RunOk(d, c) ==
    /\ Carried(c.before, c.done)
    /\ Planned(c.before, c.todo)
    /\ \A p \in ToSet(c.done), q \in ToSet(c.todo) : p.old # q.old /\ ~SamePath(p.new, q.new)
    /\ c.at # "unlink" => Applied(d, c.before, ToSet(c.done))
    /\ c.at = "over" => EntryIn(d, Head(c.todo).new) = {}
    /\ c.at = "unlink" =>
          /\ \A p \in ToSet(c.done) : ~SameName(p.new, Head(c.todo).new)
          /\ d[Head(c.todo).new] = c.before[Head(c.todo).old]
          /\ ~SameName(Head(c.todo).old, Head(c.todo).new)
          /\ Applied([d EXCEPT ![Head(c.todo).new] = NoFile], c.before, ToSet(c.done))

\* A quiet undo c in directory d: d is the directory it is to bring back, but
\* for the pairs it has yet to undo.
UndoOk(d, c) ==
    /\ UniqueIn(c.before) /\ Sound(c.before, Back(ToSet(c.todo))) /\ Apart(Back(ToSet(c.todo)))
    /\ NewsDiffer(c.todo)
    /\ Applied(d, c.before, Back(ToSet(c.todo)))

CallOk(t) ==
    Active(t) /\ call[t].quiet =>
        /\ \A u \in Threads : Active(u) => u = t
        /\ IF call[t].kind = "rename" THEN RunOk(dir, call[t]) ELSE UndoOk(dir, call[t])

QuietInv == PreviewInv /\ PlanInv /\ UndoInv /\ \A t \in Threads : CallOk(t)

LEMMA Unprimed ==
    ASSUME machine' = machine, NEW t
    PROVE  /\ RunOk(dir, call[t])' <=> RunOk(dir', call'[t])
           /\ UndoOk(dir, call[t])' <=> UndoOk(dir', call'[t])
BY DEF RunOk, UndoOk, Carried, Planned, Sound, Promised, Apart, UniqueIn, EntryIn, Applied,
       SameName, SamePath, Back, OldsDiffer, NewsDiffer, ToSet

\* What a step of thread t leaves to show: that its own call is all right.
LEMMA QuietIf ==
    ASSUME Base, QuietInv, machine' = machine, NEW t \in Threads, Active(t),
           UNCHANGED <<preview, plan, undo>>,
           \A u \in Threads \ {t} : call'[u] = call[u],
           call'[t].kind = call[t].kind, call'[t].quiet = call[t].quiet,
           call[t].quiet => IF call[t].kind = "rename" THEN RunOk(dir', call'[t]) ELSE UndoOk(dir', call'[t])
    PROVE  QuietInv'
<1>1. ~preview.quiet /\ ~plan.quiet /\ ~undo.quiet
  BY DEF QuietInv, PreviewInv, PlanInv, UndoInv, Alone
<1>2. PreviewInv' /\ PlanInv' /\ UndoInv'
  BY <1>1 DEF PreviewInv, PlanInv, UndoInv
<1>3. ASSUME NEW u \in Threads PROVE CallOk(u)'
  <2>1. \A v \in Threads : Active(v)' <=> Active(v)
    BY DEF Active
  <2>2. CASE u = t
    BY <2>1, <2>2, Unprimed DEF QuietInv, CallOk
  <2>3. CASE u # t
    BY <2>1, <2>3 DEF QuietInv, CallOk
  <2> QED BY <2>2, <2>3
<1> QED BY <1>2, <1>3 DEF QuietInv

\* After a disturbance nothing is quiet but, perhaps, the call that begins.
LEMMA LoudIf ==
    ASSUME Base, Disturb, \A u \in Threads : call'[u] = Loud(call)[u] \/ CallOk(u)'
    PROVE  QuietInv'
<1>1. ~preview'.quiet /\ ~plan'.quiet /\ ~undo'.quiet
  BY DisturbTypes DEF Base
<1>2. PreviewInv' /\ PlanInv' /\ UndoInv'
  BY <1>1 DEF PreviewInv, PlanInv, UndoInv
<1>3. ASSUME NEW u \in Threads, call'[u] = Loud(call)[u] PROVE CallOk(u)'
  <2>1. call \in Calls
    BY DEF Base, TypeOK, Calls
  <2> QED BY <1>3, <2>1, LoudCalls DEF CallOk, Active
<1> QED BY <1>2, <1>3 DEF QuietInv

\* The pair at the head of a quiet run.
LEMMA RunHead ==
    ASSUME Base, NEW t \in Threads, NEW q, At(t, q), RunOk(dir, call[t]), q # "unlink"
    PROVE  LET c == call[t]
               h == Head(c.todo)
           IN  /\ h \in Pair /\ h \in ToSet(c.todo)
               /\ Sound(c.before, ToSet(c.done)) /\ Sound(c.before, ToSet(c.todo))
               /\ \A p \in ToSet(c.done) : p.old # h.old
               /\ Applied(dir, c.before, ToSet(c.done))
               /\ dir[h.old] = c.before[h.old] /\ dir[h.old] # NoFile
               /\ \A m \in EntryOf(h.new) : m = h.old \/ \E p \in ToSet(c.done) : p.new = m
               /\ \A p \in ToSet(c.done) : p.new # h.old /\ dir[p.new] # NoFile
<1> DEFINE c == call[t]
           h == Head(c.todo)
<1>0. call \in Calls
  BY DEF Base, TypeOK, Calls
<1>1. h \in Pair /\ c.at = q /\ c.todo \in Seq(Pair) /\ c.todo # <<>>
  BY <1>0, PairAt
<1>2. ToSet(c.todo) = {h} \cup ToSet(Tail(c.todo))
  BY <1>1, SetTail
<1>3. /\ Sound(c.before, ToSet(c.done)) /\ Sound(c.before, ToSet(c.todo)) /\ Applied(dir, c.before, ToSet(c.done))
      /\ \A p \in ToSet(c.done), q1 \in ToSet(c.todo) : p.old # q1.old
  BY <1>1 DEF RunOk, Carried, Planned
<1>4. h \in ToSet(c.todo)
  BY <1>2
<1>5. \A p \in ToSet(c.done) : p.old # h.old
  BY <1>2, <1>3
<1> HIDE DEF c, h
<1>6. /\ \A p \in ToSet(c.done) : p.new # h.old
      /\ dir[h.old] = c.before[h.old] /\ dir[h.old] # NoFile
      /\ \A m \in EntryIn(dir, h.new) : m = h.old \/ \E p \in ToSet(c.done) : p.new = m
  BY <1>1, <1>3, <1>4, <1>5, ToBeRenamed
<1>7. \A p \in ToSet(c.done) : dir[p.new] # NoFile
  BY <1>3 DEF Sound, Applied, Pair
<1> QED BY <1>1, <1>3, <1>4, <1>5, <1>6, <1>7, NowIn DEF c, h

\* A pair that is passed over.
LEMMA RunSkips ==
    ASSUME Base, NEW t \in Threads, NEW q, At(t, q), q # "unlink", RunOk(dir, call[t]), Skip(t), dir' = dir
    PROVE  RunOk(dir', call'[t])
<1> DEFINE c == call[t]
           b == call'[t]
<1>0. call \in Calls
  BY DEF Base, TypeOK, Calls
<1>1. c.todo \in Seq(Pair) /\ c.todo # <<>> /\ c.at = q
  BY <1>0, PairAt
<1>2. b.at = "check" /\ b.todo = Tail(c.todo) /\ b.done = c.done /\ b.before = c.before
  BY <1>0, SkipDoes
<1>3. ToSet(Tail(c.todo)) \subseteq ToSet(c.todo)
  BY <1>1, SetTail
<1>4. Carried(c.before, c.done) /\ Planned(c.before, c.todo) /\ Applied(dir, c.before, ToSet(c.done))
      /\ \A p \in ToSet(c.done), p2 \in ToSet(c.todo) : p.old # p2.old /\ ~SamePath(p.new, p2.new)
  BY <1>1 DEF RunOk
<1>5. Planned(c.before, Tail(c.todo))
  BY <1>1, <1>3, <1>4, OldsTail DEF Planned, Sound, Promised
<1> HIDE DEF b, c
<1>6. RunOk(dir', b)
  BY <1>2, <1>3, <1>4, <1>5 DEF RunOk
<1> QED BY <1>6 DEF b

\* A pair that is renamed.
LEMMA RunRenames ==
    ASSUME Base, NEW t \in Threads, NEW q, At(t, q), RunOk(dir, call[t]), Did(t),
           NEW d, Applied(d, call[t].before, ToSet(call[t].done)),
           \A p \in ToSet(call[t].done) : ~SameName(p.new, Head(call[t].todo).new),
           Moved(d, dir', Head(call[t].todo).old, Head(call[t].todo).new,
                 call[t].before[Head(call[t].todo).old])
    PROVE  RunOk(dir', call'[t])
<1> DEFINE c == call[t]
           b == call'[t]
           h == Head(c.todo)
<1>0. call \in Calls
  BY DEF Base, TypeOK, Calls
<1>1. c.todo \in Seq(Pair) /\ c.todo # <<>> /\ c.done \in Seq(Pair) /\ h \in Pair
  BY <1>0, PairAt
<1>2. b.at = "check" /\ b.todo = Tail(c.todo) /\ b.done = Append(c.done, h) /\ b.before = c.before
  BY <1>0, DidDoes
<1>3. ToSet(c.todo) = {h} \cup ToSet(Tail(c.todo)) /\ ToSet(b.done) = ToSet(c.done) \cup {h}
  BY <1>1, <1>2, SetTail, SetAppend
<1>4. Carried(c.before, c.done) /\ Planned(c.before, c.todo)
      /\ \A p \in ToSet(c.done), p2 \in ToSet(c.todo) : p.old # p2.old /\ ~SamePath(p.new, p2.new)
  BY DEF RunOk
<1>5. /\ Applied(d, c.before, ToSet(c.done)) /\ Moved(d, dir', h.old, h.new, c.before[h.old])
      /\ \A p \in ToSet(c.done) : p.old # h.old /\ ~SameName(p.new, h.new)
  BY <1>3, <1>4
<1> HIDE DEF b, h, c
<1>6. Planned(c.before, Tail(c.todo)) /\ \A p \in ToSet(Tail(c.todo)) : p.old # h.old
  BY <1>1, <1>3, <1>4, OldsTail DEF Planned, Sound, Promised, h
<1>7. Sound(c.before, ToSet(c.done)) /\ Sound(c.before, ToSet(c.todo)) /\ h \in ToSet(c.todo)
  BY <1>3, <1>4 DEF Planned, Carried
<1>8. Applied(dir', c.before, ToSet(b.done))
  <2>1. \A D, T : h \in T /\ Sound(c.before, D) /\ Sound(c.before, T) /\ Applied(d, c.before, D)
                  /\ (\A p \in D : p.old # h.old /\ ~SameName(p.new, h.new))
                  => Applied(dir', c.before, D \cup {h})
    BY <1>5, Extend
  <2>2. Applied(dir', c.before, ToSet(c.done) \cup {h})
    BY <1>5, <1>7, <2>1
  <2> QED BY <1>3, <2>2
<1>9. Carried(c.before, b.done)
  <2>1. Apart(ToSet(c.done) \cup {h})
    BY <1>4, <1>5, Alike DEF Carried, Apart
  <2>2. OldsDiffer(b.done)
    BY <1>1, <1>2, <1>4, <1>5, OldsAppend DEF Carried
  <2>3. Sound(c.before, ToSet(c.done) \cup {h})
    BY <1>7 DEF Sound
  <2> QED BY <1>3, <1>4, <2>1, <2>2, <2>3 DEF Carried
<1>10. \A p \in ToSet(b.done), p2 \in ToSet(b.todo) : p.old # p2.old /\ ~SamePath(p.new, p2.new)
  <2> SUFFICES ASSUME NEW p \in ToSet(c.done) \cup {h}, NEW p2 \in ToSet(Tail(c.todo))
               PROVE  p.old # p2.old /\ ~SamePath(p.new, p2.new)
    BY <1>2, <1>3
  <2>1. CASE p \in ToSet(c.done)
    BY <1>3, <1>4, <2>1
  <2>2. CASE p = h
    <3>1. p2.old # h.old
      BY <1>6
    <3>2. SamePath(h.new, p2.new) => h = p2
      BY <1>3, <1>4 DEF Planned, Promised
    <3> QED BY <2>2, <3>1, <3>2
  <2> QED BY <2>1, <2>2
<1>11. RunOk(dir', b)
  BY <1>2, <1>6, <1>8, <1>9, <1>10 DEF RunOk
<1> QED BY <1>11 DEF b

\* The pair at the head of a quiet undo, as the rename it takes back.
LEMMA UndoHead ==
    ASSUME Base, NEW t \in Threads, NEW q, At(t, q), UndoOk(dir, call[t])
    PROVE  LET c == call[t]
               h == Head(c.todo)
               x == [old |-> h.new, new |-> h.old]
           IN  /\ x \in Back(ToSet(c.todo)) /\ Back(ToSet(Tail(c.todo))) = Back(ToSet(c.todo)) \ {x}
               /\ \A p, p2 \in Back(ToSet(c.todo)) : p.old = p2.old => p = p2
               /\ h.old \in Names /\ h.new \in Names /\ h.old # h.new
               /\ dir[h.old] = c.before[h.new] /\ dir[h.old] # NoFile
               /\ EntryOf(h.new) \subseteq {h.old}
<1> DEFINE c == call[t]
           h == Head(c.todo)
           x == [old |-> h.new, new |-> h.old]
<1>0. call \in Calls
  BY DEF Base, TypeOK, Calls
<1>1. c.todo \in Seq(Pair) /\ c.todo # <<>> /\ h \in Pair
  BY <1>0, PairAt
<1>2. ToSet(c.todo) = {h} \cup ToSet(Tail(c.todo)) /\ ToSet(c.todo) \subseteq Pair
  BY <1>1, SetTail, InSet
<1>3. /\ UniqueIn(c.before) /\ Sound(c.before, Back(ToSet(c.todo)))
      /\ NewsDiffer(c.todo) /\ Applied(dir, c.before, Back(ToSet(c.todo)))
  BY DEF UndoOk
<1>4. \A p \in ToSet(Tail(c.todo)) : p.new # h.new
  BY <1>1, <1>3, NewsTail
<1>5. \A p, p2 \in ToSet(c.todo) : p.new = p2.new => p = p2
  <2> SUFFICES ASSUME NEW i \in DOMAIN c.todo, NEW j \in DOMAIN c.todo, c.todo[i].new = c.todo[j].new
               PROVE  c.todo[i] = c.todo[j]
    BY DEF ToSet
  <2> QED BY <1>3 DEF NewsDiffer
<1> HIDE DEF h, c
<1>6. x \in Back(ToSet(c.todo))
  BY <1>2 DEF Back
<1>7. \A p, p2 \in Back(ToSet(c.todo)) : p.old = p2.old => p = p2
  BY <1>5 DEF Back
<1>8. Back(ToSet(Tail(c.todo))) = Back(ToSet(c.todo)) \ {x}
  <2>1. Back(ToSet(c.todo)) = {x} \cup Back(ToSet(Tail(c.todo)))
    BY <1>2 DEF Back
  <2>2. x \notin Back(ToSet(Tail(c.todo)))
    BY <1>4 DEF Back
  <2> QED BY <2>1, <2>2
<1>9. x.old = h.new /\ x.new = h.old
  OBVIOUS
<1> HIDE DEF x
<1>10. /\ x.old \in Names /\ x.new \in Names
       /\ dir[x.new] = c.before[x.old] /\ dir[x.new] # NoFile
       /\ EntryIn(dir, x.old) \subseteq {x.new}
  BY <1>3, <1>6, <1>7, ToBeUndone
<1>11. x.new # x.old
  BY <1>3, <1>6 DEF Sound
<1> QED BY <1>6, <1>7, <1>8, <1>9, <1>10, <1>11, NowIn DEF x, h, c

LEMMA UndoMoves ==
    ASSUME Base, NEW t \in Threads, NEW q, At(t, q), UndoOk(dir, call[t]), Did(t),
           dir' = Renamed(Source(t), Target(t))
    PROVE  UndoOk(dir', call'[t])
<1> DEFINE c == call[t]
           b == call'[t]
           h == Head(c.todo)
           x == [old |-> h.new, new |-> h.old]
           R == Back(ToSet(c.todo))
<1>0. call \in Calls
  BY DEF Base, TypeOK, Calls
<1>1. c.todo \in Seq(Pair) /\ c.todo # <<>>
  BY <1>0, PairAt
<1>2. b.todo = Tail(c.todo) /\ b.before = c.before
  BY <1>0, DidDoes
<1>3. /\ x \in R /\ Back(ToSet(Tail(c.todo))) = R \ {x}
      /\ \A p, p2 \in R : p.old = p2.old => p = p2
      /\ h.old \in Names /\ h.new \in Names /\ h.old # h.new
      /\ dir[h.old] = c.before[h.new] /\ dir[h.old] # NoFile
      /\ EntryOf(h.new) \subseteq {h.old}
  BY UndoHead
<1>4. UniqueIn(c.before) /\ Sound(c.before, R) /\ Apart(R) /\ NewsDiffer(c.todo) /\ Applied(dir, c.before, R)
  BY DEF UndoOk
<1>5. Moved(dir, dir', h.old, h.new, dir[h.old])
  BY <1>3, MoveIs, Alike DEF Source, Target
<1>6. x.old = h.new /\ x.new = h.old
  OBVIOUS
<1>7. NewsDiffer(Tail(c.todo))
  BY <1>1, <1>4, NewsTail
<1> HIDE DEF b, c, h, x, R
<1>8. Moved(dir, dir', x.new, x.old, c.before[x.old])
  BY <1>3, <1>5, <1>6
<1>9. Applied(dir', c.before, R \ {x})
  BY <1>3, <1>4, <1>8, Retract
<1>10. Sound(c.before, R \ {x}) /\ Apart(R \ {x})
  BY <1>4 DEF Sound, Apart
<1>11. UndoOk(dir', b)
  BY <1>2, <1>3, <1>4, <1>7, <1>9, <1>10 DEF UndoOk
<1> QED BY <1>11 DEF b

\* What is promised of a call rests on these of its fields.
LEMMA RunSame ==
    ASSUME NEW d, NEW b, NEW c, b.before = c.before, b.done = c.done, b.todo = c.todo
    PROVE  /\ b.at = c.at /\ RunOk(d, c) => RunOk(d, b)
           /\ c.at = "check" /\ b.at = "move" /\ RunOk(d, c) => RunOk(d, b)
           /\ UndoOk(d, c) => UndoOk(d, b)
BY DEF RunOk, UndoOk

LEMMA UnprimedResults ==
    ASSUME machine' = machine
    PROVE  /\ Carried(undo.before, undo.pairs)' <=> Carried(undo'.before, undo'.pairs)
           /\ Applied(dir, undo.before, ToSet(undo.pairs))' <=> Applied(dir', undo'.before, ToSet(undo'.pairs))
           /\ Planned(dir, plan.pairs)' <=> Planned(dir', plan'.pairs)
           /\ Planned(dir, preview.pairs)' <=> Planned(dir', preview'.pairs)
BY DEF Carried, Planned, Sound, Promised, Apart, UniqueIn, Applied, SameName, SamePath, OldsDiffer, ToSet

\* A name of the listing leads to itself.
LEMMA OwnEntry ==
    ASSUME Base, NEW n \in Names, dir[n] # NoFile
    PROVE  EntryOf(n) = {n} /\ FileAt(n) = dir[n] /\ Exists(n)
<1>1. EntryIn(dir, n) = {n} /\ FileIn(dir, n) = dir[n]
  BY Alike, TheEntry DEF Base
<1> QED BY <1>1, NowIn

LEMMA UndoNotStale ==
    ASSUME Base, NEW t \in Threads, NEW q, At(t, q), UndoOk(dir, call[t])
    PROVE  Exists(Source(t)) /\ (Exists(Target(t)) => EntryOf(Target(t)) = EntryOf(Source(t)) /\ SameFile(Target(t), Source(t)))
<1>1. /\ Source(t) \in Names /\ Target(t) \in Names /\ dir[Source(t)] # NoFile
      /\ EntryOf(Target(t)) \subseteq {Source(t)}
  BY UndoHead DEF Source, Target
<1>2. EntryOf(Source(t)) = {Source(t)} /\ Exists(Source(t))
  BY <1>1, OwnEntry
<1>3. Exists(Target(t)) => EntryOf(Target(t)) = EntryOf(Source(t))
  BY <1>1, <1>2 DEF Exists
<1>4. Exists(Target(t)) /\ EntryOf(Target(t)) = EntryOf(Source(t)) => SameFile(Target(t), Source(t))
  BY DEF SameFile, FileAt, Exists
<1> QED BY <1>2, <1>3, <1>4

\* A run's rename, when nothing else has the name.
LEMMA RunMoves ==
    ASSUME Base, NEW t \in Threads, NEW q, At(t, q), q # "unlink", RunOk(dir, call[t]), Did(t),
           dir' = Renamed(Source(t), Target(t)), Exists(Target(t)) => EntryOf(Target(t)) = EntryOf(Source(t))
    PROVE  RunOk(dir', call'[t])
<1> DEFINE c == call[t]
           h == Head(c.todo)
<1>1. /\ h \in Pair /\ h \in ToSet(c.todo) /\ Sound(c.before, ToSet(c.todo))
      /\ Applied(dir, c.before, ToSet(c.done))
      /\ dir[h.old] = c.before[h.old] /\ dir[h.old] # NoFile
      /\ \A p \in ToSet(c.done) : p.new # h.old /\ dir[p.new] # NoFile
  BY RunHead
<1>2. h.old \in Names /\ h.new \in Names /\ h.new # h.old /\ Source(t) = h.old /\ Target(t) = h.new
  BY <1>1 DEF Pair, Sound, Source, Target
<1>3. EntryOf(h.old) = {h.old}
  BY <1>1, <1>2, OwnEntry
<1>4. EntryOf(h.new) \subseteq {h.old}
  BY <1>2, <1>3 DEF Exists
<1>5. Moved(dir, dir', h.old, h.new, dir[h.old])
  BY <1>1, <1>2, <1>4, MoveIs, Alike
<1>6. \A p \in ToSet(c.done) : ~SameName(p.new, h.new)
  <2> SUFFICES ASSUME NEW p \in ToSet(c.done), SameName(p.new, h.new) PROVE FALSE
    OBVIOUS
  <2>1. p.new \in Names
    BY RunHead DEF Sound, Pair
  <2>2. p.new \in EntryOf(h.new)
    BY <1>1, <2>1 DEF EntryOf
  <2> QED BY <1>1, <1>4, <2>2
<1> QED BY <1>1, <1>5, <1>6, RunRenames

LEMMA RunUnlinks ==
    ASSUME Base, NEW t \in Threads, At(t, "unlink"), RunOk(dir, call[t])
    PROVE  /\ Exists(Source(t))
           /\ Did(t) /\ dir' = [n \in Names |-> IF n \in EntryOf(Source(t)) THEN NoFile ELSE dir[n]]
              => RunOk(dir', call'[t])
<1> DEFINE c == call[t]
           h == Head(c.todo)
           d == [dir EXCEPT ![h.new] = NoFile]
<1>0. call \in Calls /\ dir \in Dir
  BY DEF Base, TypeOK, Calls
<1>1. c.todo \in Seq(Pair) /\ c.todo # <<>> /\ h \in Pair /\ c.at = "unlink"
      /\ h.old \in Names /\ h.new \in Names /\ Source(t) = h.old
  BY <1>0, PairAt DEF Pair, Source
<1>2. /\ Sound(c.before, ToSet(c.done)) /\ Sound(c.before, ToSet(c.todo)) /\ h \in ToSet(c.todo)
      /\ \A p \in ToSet(c.done) : p.old # h.old
      /\ \A p \in ToSet(c.done) : ~SameName(p.new, h.new)
      /\ dir[h.new] = c.before[h.old] /\ ~SameName(h.old, h.new)
      /\ Applied(d, c.before, ToSet(c.done))
  BY <1>1, SetTail DEF RunOk, Carried, Planned
<1> HIDE DEF d
<1>3. d[h.old] = c.before[h.old] /\ d[h.old] # NoFile
  BY <1>2, ToBeRenamed
<1>4. h.old # h.new
  BY <1>2, Alike
<1>5. /\ d[h.new] = NoFile /\ \A k \in Names : k # h.new => d[k] = dir[k]
  BY <1>0, <1>1 DEF d, Dir
<1>6. dir[h.old] = c.before[h.old] /\ dir[h.old] # NoFile
  BY <1>1, <1>3, <1>4, <1>5
<1>7. EntryOf(h.old) = {h.old} /\ Exists(h.old)
  BY <1>1, <1>6, OwnEntry
<1>8. ASSUME Did(t), dir' = [n \in Names |-> IF n \in EntryOf(Source(t)) THEN NoFile ELSE dir[n]]
      PROVE  RunOk(dir', call'[t])
  <2>1. Moved(d, dir', h.old, h.new, c.before[h.old])
    BY <1>1, <1>2, <1>4, <1>5, <1>7, <1>8 DEF Moved
  <2> QED BY <1>2, <1>8, <2>1, RunRenames
<1> QED BY <1>1, <1>7, <1>8

\* The link that comes first.
LEMMA RunLinks ==
    ASSUME Base, NEW t \in Threads, At(t, "move"), RunOk(dir, call[t]), Exists(Source(t)), ~Exists(Target(t)),
           dir' = [dir EXCEPT ![Target(t)] = FileAt(Source(t))], Goto(t, "unlink")
    PROVE  RunOk(dir', call'[t])
<1> DEFINE c == call[t]
           b == call'[t]
           h == Head(c.todo)
<1>0. call \in Calls /\ dir \in Dir
  BY DEF Base, TypeOK, Calls
<1>1. /\ h \in Pair /\ Sound(c.before, ToSet(c.todo)) /\ Applied(dir, c.before, ToSet(c.done))
      /\ dir[h.old] = c.before[h.old] /\ dir[h.old] # NoFile
      /\ \A p \in ToSet(c.done) : p.new # h.old /\ dir[p.new] # NoFile
  BY RunHead
<1>2. h.old \in Names /\ h.new \in Names /\ Source(t) = h.old /\ Target(t) = h.new
  BY <1>1 DEF Pair, Source, Target
<1>3. FileAt(h.old) = dir[h.old]
  BY <1>1, <1>2, OwnEntry
<1>4. \A m \in Names : SameName(m, h.new) => dir[m] = NoFile
  BY <1>2 DEF Exists, EntryOf
<1>5. ~SameName(h.old, h.new) /\ dir[h.new] = NoFile
  BY <1>1, <1>2, <1>4, Alike
<1>6. \A p \in ToSet(c.done) : ~SameName(p.new, h.new)
  BY <1>1, <1>4, RunHead DEF Sound, Pair
<1>7. dir'[h.new] = c.before[h.old]
  BY <1>0, <1>1, <1>2, <1>3 DEF Dir
<1>8. [dir' EXCEPT ![h.new] = NoFile] = dir
  BY <1>0, <1>2, <1>5 DEF Dir
<1>9. b.at = "unlink" /\ b.todo = c.todo /\ b.done = c.done /\ b.before = c.before
  BY <1>0, GotoDoes
<1>10. /\ Carried(c.before, c.done) /\ Planned(c.before, c.todo)
       /\ \A p \in ToSet(c.done), q \in ToSet(c.todo) : p.old # q.old /\ ~SamePath(p.new, q.new)
  BY DEF RunOk
<1>11. Head(b.todo) = h
  BY <1>9
<1> HIDE DEF b, c, h
<1>12. RunOk(dir', b)
  BY <1>1, <1>5, <1>6, <1>7, <1>8, <1>9, <1>10, <1>11 DEF RunOk
<1> QED BY <1>12 DEF b

\* The pair at the head of a quiet run finds its file.  Where Path tells names
\* apart the way the directory does, nothing but that file has the new name.
LEMMA RunNotTaken ==
    ASSUME Base, NEW t \in Threads, NEW q, At(t, q), q # "unlink", RunOk(dir, call[t])
    PROVE  /\ Exists(Source(t))
           /\ \A p \in ToSet(call[t].done) : ~SamePath(p.new, Target(t))
           /\ machine.sys = "windows" \/ ~machine.folds =>
                 (Exists(Target(t)) => EntryOf(Target(t)) = EntryOf(Source(t)) /\ SameFile(Target(t), Source(t)))
           /\ ~machine.folds => ~Exists(Target(t))
<1> DEFINE c == call[t]
           h == Head(c.todo)
<1>1. /\ h \in Pair /\ h \in ToSet(c.todo) /\ Sound(c.before, ToSet(c.todo))
      /\ dir[h.old] # NoFile
      /\ \A m \in EntryOf(h.new) : m = h.old \/ \E p \in ToSet(c.done) : p.new = m
  BY RunHead
<1>2. h.old \in Names /\ h.new \in Names /\ h.new # h.old /\ Source(t) = h.old /\ Target(t) = h.new
  BY <1>1 DEF Pair, Sound, Source, Target
<1>3. \A p \in ToSet(c.done) : ~SamePath(p.new, h.new)
  BY <1>1 DEF RunOk
<1> HIDE DEF c, h
<1>4. EntryOf(h.old) = {h.old} /\ Exists(h.old)
  BY <1>1, <1>2, OwnEntry
<1>5. ASSUME machine.sys = "windows" \/ ~machine.folds PROVE EntryOf(h.new) \subseteq {h.old}
  <2> SUFFICES ASSUME NEW m \in EntryOf(h.new), NEW p \in ToSet(c.done), p.new = m PROVE FALSE
    BY <1>1
  <2>1. SameName(p.new, h.new)
    BY DEF EntryOf
  <2>2. SamePath(p.new, h.new)
    BY <1>5, <2>1 DEF SameName, SamePath
  <2> QED BY <1>3, <2>2
<1>6. ASSUME machine.sys = "windows" \/ ~machine.folds, Exists(h.new)
      PROVE  EntryOf(h.new) = EntryOf(h.old) /\ SameFile(h.new, h.old)
  <2>1. EntryOf(h.new) = EntryOf(h.old)
    BY <1>4, <1>5, <1>6 DEF Exists
  <2> QED BY <1>6, <2>1 DEF SameFile, FileAt, Exists
<1>7. ~machine.folds => ~Exists(h.new)
  BY <1>2, <1>5 DEF Exists, EntryOf, SameName
<1>8. \A p \in ToSet(call[t].done) : ~SamePath(p.new, h.new)
  BY <1>3 DEF c
<1> QED BY <1>2, <1>4, <1>6, <1>7, <1>8

LEMMA RunBegins ==
    ASSUME NEW d, UniqueIn(d), NEW c, c.before = d, c.done = <<>>, c.at = "check", Planned(d, c.todo)
    PROVE  RunOk(d, c)
<1>1. ToSet(c.done) = {} /\ Applied(d, d, {})
  BY SetEmpty, AppliedNone
<1>2. Carried(d, c.done)
  BY <1>1 DEF Carried, Sound, OldsDiffer, Apart
<1> QED BY <1>1, <1>2 DEF RunOk

LEMMA UndoBegins ==
    ASSUME NEW d, NEW B, NEW s \in Seq(Pair), Carried(B, s), Applied(d, B, ToSet(s)),
           NEW c, c.before = B, c.todo = Reversed(s)
    PROVE  UndoOk(d, c)
<1>1. Back(ToSet(c.todo)) = ToSet(s) /\ NewsDiffer(c.todo)
  BY BackSet, ReversedNews DEF Carried
<1> QED BY <1>1 DEF Carried, UndoOk

LEMMA InjectiveTail ==
    ASSUME NEW S, NEW s \in Seq(S), s # <<>>, IsInjective(s)
    PROVE  IsInjective(Tail(s)) /\ Head(s) \notin ToSet(Tail(s))
<1>1. /\ Head(s) = s[1] /\ Len(s) \in Nat \ {0} /\ DOMAIN s = 1..Len(s)
      /\ DOMAIN Tail(s) = 1..(Len(s) - 1) /\ \A i \in 1..(Len(s) - 1) : Tail(s)[i] = s[i + 1]
  BY HeadTail
<1>2. \A i \in DOMAIN Tail(s) : i + 1 \in DOMAIN s /\ Tail(s)[i] = s[i + 1] /\ i + 1 # 1 /\ 1 \in DOMAIN s /\ i \in Nat
  BY <1>1
<1>3. ASSUME NEW i \in DOMAIN Tail(s), NEW j \in DOMAIN Tail(s), Tail(s)[i] = Tail(s)[j] PROVE i = j
  <2>1. i + 1 = j + 1 /\ i \in Nat /\ j \in Nat
    BY <1>2, <1>3 DEF IsInjective
  <2> QED BY <2>1
<1>4. ASSUME NEW i \in DOMAIN Tail(s), Tail(s)[i] = s[1] PROVE FALSE
  BY <1>2, <1>4 DEF IsInjective
<1> QED BY <1>1, <1>3, <1>4 DEF IsInjective, ToSet

\* What a quiet preview has proposed once it has looked at one more file.
LEMMA Proposed ==
    ASSUME Base, PreviewInv, preview.quiet, preview.todo # <<>>, NEW pairs,
           \/ pairs = preview.pairs
           \/ \E n \in Names : /\ Proposable(Head(preview.todo), n)
                               /\ pairs = Append(preview.pairs, [old |-> Head(preview.todo), new |-> n])
    PROVE  /\ Planned(dir, pairs) /\ IsInjective(Tail(preview.todo))
           /\ \A n \in ToSet(Tail(preview.todo)) : dir[n] # NoFile /\ \A p \in ToSet(pairs) : p.old # n
<1> DEFINE h == Head(preview.todo)
<1>1. preview.todo \in Seq(Names) /\ preview.pairs \in Seq(Pair)
  BY DEF Base, TypeOK, Preview, NoPreview
<1>2. /\ OneName /\ Planned(dir, preview.pairs) /\ IsInjective(preview.todo)
      /\ \A n \in ToSet(preview.todo) : dir[n] # NoFile /\ \A p \in ToSet(preview.pairs) : p.old # n
  BY DEF PreviewInv
<1>3. ToSet(preview.todo) = {h} \cup ToSet(Tail(preview.todo)) /\ h \in Names
  BY <1>1, SetTail, HeadTail
<1>4. IsInjective(Tail(preview.todo)) /\ h \notin ToSet(Tail(preview.todo))
  BY <1>1, <1>2, InjectiveTail
<1>5. CASE pairs = preview.pairs
  BY <1>2, <1>3, <1>4, <1>5
<1>6. ASSUME NEW n \in Names, Proposable(h, n), pairs = Append(preview.pairs, [old |-> h, new |-> n])
      PROVE  /\ Planned(dir, pairs)
             /\ \A m \in ToSet(Tail(preview.todo)) : dir[m] # NoFile /\ \A p \in ToSet(pairs) : p.old # m
  <2> DEFINE x == [old |-> h, new |-> n]
  <2>1. x \in Pair /\ x.old = h /\ x.new = n
    BY <1>3 DEF Pair
  <2>2. dir[h] # NoFile /\ \A p \in ToSet(preview.pairs) : p.old # h
    BY <1>2, <1>3
  <2>3. n # h /\ (\A p \in ToSet(preview.pairs) : ~SamePath(p.new, n)) /\ (Exists(n) => SameFile(n, h))
    BY <1>6 DEF Proposable
  <2>4. ASSUME NEW m \in Names, dir[m] # NoFile, SameName(m, n) PROVE m = h
    <3>1. EntryIn(dir, n) = {m} /\ FileIn(dir, n) = dir[m]
      BY <2>4, TheEntry DEF Base
    <3>2. Exists(n) /\ FileAt(n) = dir[m]
      BY <3>1, NowIn
    <3>3. FileAt(h) = dir[h]
      BY <1>3, <2>2, OwnEntry
    <3> QED BY <1>2, <1>3, <2>3, <2>4, <3>2, <3>3 DEF SameFile, OneName
  <2> HIDE DEF h, x
  <2>5. ToSet(pairs) = ToSet(preview.pairs) \cup {x} /\ pairs = Append(preview.pairs, x)
    BY <1>1, <1>6, <2>1, SetAppend DEF x
  <2>6. Sound(dir, ToSet(pairs))
    BY <1>2, <2>1, <2>2, <2>3, <2>4, <2>5 DEF Planned, Sound
  <2>7. OldsDiffer(pairs)
    BY <1>1, <1>2, <2>1, <2>2, <2>5, OldsAppend DEF Planned
  <2>8. Promised(ToSet(pairs))
    <3>1. \A a, b : SamePath(a, b) => SamePath(b, a)
      BY DEF SamePath
    <3> QED BY <1>2, <2>1, <2>3, <2>5, <3>1 DEF Planned, Promised
  <2>9. \A m \in ToSet(Tail(preview.todo)) : dir[m] # NoFile /\ \A p \in ToSet(pairs) : p.old # m
    BY <1>2, <1>3, <1>4, <2>1, <2>5
  <2> QED BY <2>6, <2>7, <2>8, <2>9 DEF Planned
<1> QED BY <1>4, <1>5, <1>6

\* A step that leaves directory and calls alone.
LEMMA RestQuiet ==
    ASSUME QuietInv, machine' = machine, dir' = dir, call' = call
    PROVE  /\ Alone' <=> Alone
           /\ OneName' <=> OneName
           /\ plan' = plan => PlanInv'
           /\ undo' = undo => UndoInv'
           /\ preview' = preview => PreviewInv'
           /\ \A t \in Threads : CallOk(t)'
<1>1. (Alone' <=> Alone) /\ (OneName' <=> OneName) /\ \A t \in Threads : Active(t)' <=> Active(t)
  BY DEF Alone, OneName, Active
<1>2. plan' = plan => PlanInv'
  BY <1>1, UnprimedResults DEF QuietInv, PlanInv
<1>3. undo' = undo => UndoInv'
  BY <1>1, UnprimedResults DEF QuietInv, UndoInv
<1>4. preview' = preview => PreviewInv'
  BY <1>1, UnprimedResults DEF QuietInv, PreviewInv
<1>5. ASSUME NEW t \in Threads PROVE CallOk(t)'
  BY <1>1, Unprimed DEF QuietInv, CallOk
<1> QED BY <1>1, <1>2, <1>3, <1>4, <1>5

\* What a quiet call is about, and who else is at work: nobody.
LEMMA QuietCall ==
    ASSUME Base, QuietInv, NEW t \in Threads, Active(t)
    PROVE  /\ call[t] \in Call
           /\ ~preview.quiet /\ ~plan.quiet /\ ~undo.quiet
           /\ call[t].quiet => \A u \in Threads : Active(u) => u = t
           /\ call[t].quiet /\ call[t].kind = "rename" => RunOk(dir, call[t])
           /\ call[t].quiet /\ call[t].kind # "rename" => UndoOk(dir, call[t])
<1>1. call[t] \in Call
  BY ActiveCall DEF Base, TypeOK, Calls
<1> QED BY <1>1 DEF QuietInv, PreviewInv, PlanInv, UndoInv, Alone, CallOk

LEMMA QuietStep == Base /\ QuietInv /\ [Next]_vars => QuietInv'
<1> SUFFICES ASSUME Base, QuietInv, [Next]_vars PROVE QuietInv'
  OBVIOUS
<1>0. call \in Calls /\ dir \in Dir /\ UniqueIn(dir) /\ PlaceInv /\ plan \in Plan /\ undo \in Undo
      /\ preview \in Preview
  <2>1. NoPreview \in Preview
    BY DEF NoPreview, Preview
  <2> QED BY <2>1 DEF Base, TypeOK, Calls
<1>1. ASSUME (\E n \in Names : UserDeletes(n)) \/ (\E n \in Names, f \in Files : UserCreates(f, n))
      PROVE  QuietInv'
  <2>1. Disturb /\ call' = Loud(call)
    BY <1>1 DEF UserDeletes, UserCreates
  <2> QED BY <2>1, LoudIf
<1>2. CASE PreviewStart
  <2>1. machine' = machine /\ dir' = dir /\ call' = call /\ plan' = plan /\ undo' = undo
    BY <1>2 DEF PreviewStart
  <2>2. PICK s \in Listings({n \in Names : dir[n] # NoFile}) :
            preview' = [todo |-> s, pairs |-> <<>>, quiet |-> Alone /\ OneName]
    BY <1>2 DEF PreviewStart
  <2>3. (\A i \in DOMAIN s : s[i] \in Names /\ dir[s[i]] # NoFile) /\ IsInjective(s)
    BY ListingType
  <2>4. preview'.todo = s /\ preview'.pairs = <<>> /\ preview'.quiet = (Alone /\ OneName)
    BY <2>2, Zenon
  <2>5. Planned(dir', preview'.pairs)
    BY <2>4, SetEmpty DEF Planned, Sound, OldsDiffer, Promised
  <2>6. \A n \in ToSet(s) : dir'[n] # NoFile
    BY <2>1, <2>3 DEF ToSet
  <2>7. \A p \in ToSet(preview'.pairs) : FALSE
    BY <2>4, SetEmpty
  <2>8. PreviewInv'
    BY <2>1, <2>3, <2>4, <2>5, <2>6, <2>7, RestQuiet, UnprimedResults DEF PreviewInv
  <2> QED BY <2>1, <2>8, RestQuiet DEF QuietInv
<1>3. CASE PreviewOne
  <2> DEFINE h == Head(preview.todo)
  <2>1. machine' = machine /\ dir' = dir /\ call' = call /\ undo' = undo /\ preview.todo # <<>>
    BY <1>3 DEF PreviewOne
  <2>2. PICK s \in {<<>>} \cup {<<[old |-> h, new |-> n]>> : n \in {m \in Names : Proposable(h, m)}} :
          LET p == [preview EXCEPT !.todo = Tail(@), !.pairs = @ \o s] IN
          IF p.todo # <<>> THEN preview' = p /\ UNCHANGED plan
          ELSE preview' = NoPreview /\ plan' = [pairs |-> p.pairs, quiet |-> p.quiet]
    BY <1>3 DEF PreviewOne
  <2> DEFINE p == [preview EXCEPT !.todo = Tail(@), !.pairs = @ \o s]
  <2>3. \/ preview' = p /\ plan' = plan
        \/ preview' = NoPreview /\ plan' = [pairs |-> p.pairs, quiet |-> p.quiet]
    BY <2>2
  <2>4. p.todo = Tail(preview.todo) /\ p.pairs = preview.pairs \o s /\ p.quiet = preview.quiet
    BY <1>0 DEF Preview
  <2>5. \/ preview.pairs \o s = preview.pairs
        \/ \E n \in Names : /\ Proposable(h, n)
                            /\ preview.pairs \o s = Append(preview.pairs, [old |-> h, new |-> n])
    <3>1. preview.pairs \in Seq(Pair)
      BY <1>0 DEF Preview
    <3>2. CASE s = <<>>
      BY <3>1, <3>2
    <3>3. ASSUME NEW n \in Names, Proposable(h, n), s = <<[old |-> h, new |-> n]>>
          PROVE  preview.pairs \o s = Append(preview.pairs, [old |-> h, new |-> n])
      <4> DEFINE x == [old |-> h, new |-> n]
      <4>1. x \in Pair
        BY <1>0, <2>1, HeadTail DEF Pair, Preview
      <4> HIDE DEF x
      <4>2. preview.pairs \o <<x>> = Append(preview.pairs, x)
        BY <3>1, <4>1
      <4> QED BY <3>3, <4>2 DEF x
    <3>4. s = <<>> \/ \E n \in Names : Proposable(h, n) /\ s = <<[old |-> h, new |-> n]>>
      BY <2>2
    <3> QED BY <3>2, <3>3, <3>4
  <2> HIDE DEF p
  <2>6. ASSUME preview.quiet
        PROVE  /\ Planned(dir, p.pairs) /\ IsInjective(p.todo)
               /\ \A n \in ToSet(p.todo) : dir[n] # NoFile /\ \A x \in ToSet(p.pairs) : x.old # n
    BY <2>1, <2>4, <2>5, <2>6, Proposed DEF QuietInv
  <2>7. preview.quiet => Alone /\ OneName
    BY DEF QuietInv, PreviewInv
  <2>8. PreviewInv'
    <3>1. CASE preview' = p
      <4>1. Planned(dir', preview'.pairs) <=> Planned(dir, p.pairs)
        BY <2>1, <3>1
      <4>2. preview'.quiet = preview.quiet
        BY <2>4, <3>1
      <4> QED BY <2>1, <2>6, <2>7, <3>1, <4>1, <4>2, RestQuiet, UnprimedResults DEF PreviewInv
    <3>2. CASE preview' = NoPreview
      BY <3>2 DEF PreviewInv, NoPreview
    <3> QED BY <2>3, <3>1, <3>2
  <2>9. PlanInv'
    <3>1. CASE plan' = plan
      BY <2>1, <3>1, RestQuiet
    <3>2. CASE plan' = [pairs |-> p.pairs, quiet |-> p.quiet]
      <4>1. plan'.pairs = p.pairs /\ plan'.quiet = preview.quiet
        BY <2>4, <3>2
      <4>2. preview.quiet => Planned(dir', plan'.pairs)
        BY <2>1, <2>6, <4>1
      <4> QED BY <2>1, <2>7, <4>1, <4>2, RestQuiet, UnprimedResults DEF PlanInv
    <3> QED BY <2>3, <3>1, <3>2
  <2> QED BY <2>1, <2>8, <2>9, RestQuiet DEF QuietInv
<1>4. ASSUME NEW t \in Threads, Run(t) PROVE QuietInv'
  <2>1. plan.pairs \in Seq(Pair) /\ plan.quiet \in BOOLEAN
    BY <1>0 DEF Plan
  <2>2. Start(t, "rename", plan.pairs, plan.quiet, dir)
    BY <1>4 DEF Run
  <2>3. /\ \A u \in Threads \ {t} : call'[u] = Loud(call)[u]
        /\ call'[t].kind = "rename" /\ call'[t].at = "check" /\ call'[t].todo = plan.pairs
        /\ call'[t].done = <<>> /\ call'[t].quiet = (plan.quiet /\ Alone)
        /\ plan.quiet /\ Alone => call'[t].before = dir
    BY <1>0, <2>1, <2>2, StartDoes
  <2>4. Disturb /\ machine' = machine /\ dir' = dir
    BY <2>2 DEF Start
  <2>5. CallOk(t)'
    <3> SUFFICES ASSUME plan.quiet, Alone
                 PROVE  (\A u \in Threads : call'[u].kind # "none" => u = t) /\ RunOk(dir', call'[t])
      BY <2>3, <2>4, Unprimed DEF CallOk, Active
    <3>1. \A u \in Threads \ {t} : call'[u].kind = "none"
      BY <1>0, <2>3, LoudCalls DEF Alone, Active
    <3>2. Planned(dir, plan.pairs)
      BY DEF QuietInv, PlanInv
    <3>3. RunOk(dir, call'[t])
      BY <1>0, <2>3, <3>2, RunBegins
    <3> QED BY <2>4, <3>1, <3>3
  <2> QED BY <2>3, <2>4, <2>5, LoudIf
<1>5. ASSUME NEW t \in Threads, UndoRun(t) PROVE QuietInv'
  <2>1. undo.pairs \in Seq(Pair) /\ undo.quiet \in BOOLEAN /\ undo.before \in Dir /\ Reversed(undo.pairs) \in Seq(Pair)
    BY <1>0, ReversedType DEF Undo
  <2>2. Start(t, "undo", Reversed(undo.pairs), undo.quiet, undo.before)
    BY <1>5 DEF UndoRun, Reversed
  <2>3. /\ \A u \in Threads \ {t} : call'[u] = Loud(call)[u]
        /\ call'[t].kind = "undo" /\ call'[t].todo = Reversed(undo.pairs)
        /\ call'[t].quiet = (undo.quiet /\ Alone)
        /\ undo.quiet /\ Alone => call'[t].before = undo.before
    BY <1>0, <2>1, <2>2, StartDoes
  <2>4. Disturb /\ machine' = machine /\ dir' = dir
    BY <2>2 DEF Start
  <2>5. CallOk(t)'
    <3> SUFFICES ASSUME undo.quiet, Alone
                 PROVE  (\A u \in Threads : call'[u].kind # "none" => u = t) /\ UndoOk(dir', call'[t])
      BY <2>3, <2>4, Unprimed DEF CallOk, Active
    <3>1. \A u \in Threads \ {t} : call'[u].kind = "none"
      BY <1>0, <2>3, LoudCalls DEF Alone, Active
    <3>2. Carried(undo.before, undo.pairs) /\ Applied(dir, undo.before, ToSet(undo.pairs))
      BY DEF QuietInv, UndoInv
    <3>3. UndoOk(dir, call'[t])
      BY <2>1, <2>3, <3>2, UndoBegins
    <3> QED BY <2>4, <3>1, <3>3
  <2> QED BY <2>3, <2>4, <2>5, LoudIf
<1>6. ASSUME NEW t \in Threads, Check(t) PROVE QuietInv'
  <2>1. At(t, "check") /\ UNCHANGED <<machine, dir, preview, plan, undo>>
    BY <1>6 DEF Check
  <2>2. \/ Stale(t) /\ Skip(t)
        \/ Goto(t, "over") /\ call[t].kind = "undo"
        \/ Goto(t, "move")
    BY <1>6 DEF Check
  <2>3. /\ \A u \in Threads \ {t} : call'[u] = call[u]
        /\ call'[t].kind = call[t].kind /\ call'[t].quiet = call[t].quiet
    BY <1>0, <2>1, <2>2, SkipDoes, GotoDoes
  <2>4. Active(t) /\ call[t].at = "check"
    BY <2>1 DEF At
  <2>5. ASSUME call[t].kind = "rename", RunOk(dir, call[t]) PROVE RunOk(dir', call'[t])
    <3>1. CASE Skip(t)
      BY <2>1, <2>5, <3>1, RunSkips
    <3>2. CASE Goto(t, "move")
      <4>1. call'[t].at = "move" /\ call'[t].todo = call[t].todo /\ call'[t].done = call[t].done
            /\ call'[t].before = call[t].before
        BY <1>0, <2>1, <3>2, GotoDoes
      <4> QED BY <2>1, <2>4, <2>5, <4>1, RunSame
    <3> QED BY <2>2, <2>5, <3>1, <3>2
  <2>6. ASSUME call[t].kind # "rename", UndoOk(dir, call[t]) PROVE UndoOk(dir', call'[t])
    <3>1. ~Stale(t)
      BY <2>1, <2>6, UndoNotStale DEF Stale
    <3>2. /\ call'[t].todo = call[t].todo /\ call'[t].done = call[t].done
          /\ call'[t].before = call[t].before
      BY <1>0, <2>1, <2>2, <3>1, GotoDoes
    <3> QED BY <2>1, <2>6, <3>2, RunSame
  <2> QED BY <2>1, <2>3, <2>4, <2>5, <2>6, QuietCall, QuietIf
<1>7. ASSUME NEW t \in Threads, MoveOnWindows(t) \/ RenameOver(t) PROVE QuietInv'
  <2>1. PICK q \in {"move", "over"} : At(t, q)
    BY <1>7 DEF MoveOnWindows, RenameOver
  <2>2. UNCHANGED <<machine, preview, plan, undo>>
    BY <1>7 DEF MoveOnWindows, RenameOver
  <2>3. \/ dir' = Renamed(Source(t), Target(t)) /\ Did(t)
        \/ Skip(t) /\ dir' = dir
    BY <1>7 DEF MoveOnWindows, RenameOver
  <2>4. /\ \A u \in Threads \ {t} : call'[u] = call[u]
        /\ call'[t].kind = call[t].kind /\ call'[t].quiet = call[t].quiet
    BY <1>0, <2>1, <2>3, SkipDoes, DidDoes
  <2>5. Active(t) /\ call[t].at = q
    BY <2>1 DEF At
  <2>6. ASSUME RunOk(dir, call[t]) PROVE RunOk(dir', call'[t])
    <3>1. CASE Skip(t) /\ dir' = dir
      BY <2>1, <2>6, <3>1, RunSkips
    <3>2. CASE dir' = Renamed(Source(t), Target(t)) /\ Did(t)
      <4>1. Exists(Target(t)) => EntryOf(Target(t)) = EntryOf(Source(t))
        <5>1. CASE MoveOnWindows(t)
          <6>1. ~Skip(t)
            BY <1>0, <2>1, <3>2, SkipDoes, DidDoes, PairAt
          <6> QED BY <5>1, <6>1 DEF MoveOnWindows
        <5>2. CASE RenameOver(t)
          <6>1. EntryIn(dir, Target(t)) = {}
            BY <2>6, <5>2 DEF RenameOver, At, RunOk, Target
          <6> QED BY <6>1, NowIn
        <5> QED BY <1>7, <5>1, <5>2
      <4> QED BY <2>1, <2>6, <3>2, <4>1, RunMoves
    <3> QED BY <2>3, <3>1, <3>2
  <2>7. ASSUME UndoOk(dir, call[t]) PROVE UndoOk(dir', call'[t])
    <3>1. Exists(Source(t)) /\ (Exists(Target(t)) => EntryOf(Target(t)) = EntryOf(Source(t)))
      BY <2>1, <2>7, UndoNotStale
    <3>2. dir' = Renamed(Source(t), Target(t)) /\ Did(t)
      BY <1>7, <3>1 DEF MoveOnWindows, RenameOver
    <3> QED BY <2>1, <2>7, <3>2, UndoMoves
  <2> QED BY <2>2, <2>4, <2>5, <2>6, <2>7, QuietCall, QuietIf
<1>8. ASSUME NEW t \in Threads, Link(t) \/ Unlink(t) PROVE QuietInv'
  <2>1. PICK q \in {"move", "unlink"} : At(t, q)
    BY <1>8 DEF Link, Unlink
  <2>2. UNCHANGED <<machine, preview, plan, undo>> /\ Active(t) /\ call[t].at = q
    BY <1>8, <2>1 DEF Link, Unlink, At
  <2>3. call[t].kind = "rename"
    <3>1. call[t].kind # "undo"
      BY <1>0, <1>8, <2>2 DEF PlaceInv, Link, Unlink, At
    <3> QED BY <2>2, <3>1, QuietCall DEF Call
  <2>4. \/ Skip(t) \/ Did(t) \/ \E place \in {"over", "unlink"} : Goto(t, place)
    BY <1>8 DEF Link, Unlink
  <2>5. /\ \A u \in Threads \ {t} : call'[u] = call[u]
        /\ call'[t].kind = call[t].kind /\ call'[t].quiet = call[t].quiet
    BY <1>0, <2>1, <2>4, SkipDoes, DidDoes, GotoDoes
  <2>6. ASSUME RunOk(dir, call[t]) PROVE RunOk(dir', call'[t])
    <3>1. CASE Link(t)
      <4>1. At(t, "move")
        BY <3>1 DEF Link
      <4>2. \/ Skip(t) /\ dir' = dir
            \/ Goto(t, "over") /\ dir' = dir /\ ~Exists(Target(t))
            \/ /\ Exists(Source(t)) /\ ~Exists(Target(t))
               /\ dir' = [dir EXCEPT ![Target(t)] = FileAt(Source(t))] /\ Goto(t, "unlink")
        BY <3>1 DEF Link
      <4>3. CASE Skip(t) /\ dir' = dir
        BY <2>6, <4>1, <4>3, RunSkips
      <4>4. CASE Goto(t, "over") /\ dir' = dir /\ ~Exists(Target(t))
        <5> DEFINE c == call[t]
                   b == call'[t]
        <5>1. b.at = "over" /\ b.todo = c.todo /\ b.done = c.done /\ b.before = c.before
          BY <1>0, <4>1, <4>4, GotoDoes
        <5>2. EntryIn(dir, Head(c.todo).new) = {} /\ c.at = "move"
          BY <4>1, <4>4, NowIn DEF Target, At
        <5> HIDE DEF b, c
        <5>3. RunOk(dir, b)
          <6>1. RunOk(dir, c)
            BY <2>6 DEF c
          <6> QED BY <5>1, <5>2, <6>1 DEF RunOk
        <5> QED BY <4>4, <5>3 DEF b
      <4>5. CASE /\ Exists(Source(t)) /\ ~Exists(Target(t))
                 /\ dir' = [dir EXCEPT ![Target(t)] = FileAt(Source(t))] /\ Goto(t, "unlink")
        BY <2>6, <4>1, <4>5, RunLinks
      <4> QED BY <4>2, <4>3, <4>4, <4>5
    <3>2. CASE Unlink(t)
      <4>1. At(t, "unlink")
        BY <3>2 DEF Unlink
      <4>2. Exists(Source(t))
        BY <2>6, <4>1, RunUnlinks
      <4>3. Did(t) /\ dir' = [n \in Names |-> IF n \in EntryOf(Source(t)) THEN NoFile ELSE dir[n]]
        BY <3>2, <4>2 DEF Unlink
      <4> QED BY <2>6, <4>1, <4>3, RunUnlinks
    <3> QED BY <1>8, <3>1, <3>2
  <2> QED BY <2>2, <2>3, <2>5, <2>6, QuietCall, QuietIf
<1>9. ASSUME NEW t \in Threads, Fail(t) PROVE QuietInv'
  <2>1. Disturb /\ call'[t].quiet = FALSE /\ \A u \in Threads \ {t} : call'[u] = Loud(call)[u]
    BY <1>0, <1>9, FailDoes DEF Fail
  <2>2. CallOk(t)'
    BY <2>1 DEF CallOk
  <2> QED BY <2>1, <2>2, LoudIf
<1>10. ASSUME NEW t \in Threads, Abandon(t) PROVE QuietInv'
  <2>1. UNCHANGED <<machine, dir, preview, plan, undo>> /\ Active(t)
    BY <1>10 DEF Abandon
  <2>2. /\ \A u \in Threads \ {t} : call'[u] = call[u]
        /\ call'[t].kind = call[t].kind /\ call'[t].at = call[t].at /\ call'[t].todo = call[t].todo
        /\ call'[t].done = call[t].done /\ call'[t].quiet = call[t].quiet
        /\ call'[t].before = call[t].before
    BY <1>0, <1>10, AbandonDoes
  <2>3. /\ RunOk(dir, call[t]) => RunOk(dir', call'[t])
        /\ UndoOk(dir, call[t]) => UndoOk(dir', call'[t])
    BY <2>1, <2>2, RunSame
  <2> QED BY <2>1, <2>2, <2>3, QuietCall, QuietIf
<1>11. ASSUME NEW t \in Threads, Finish(t) PROVE QuietInv'
  <2>1. UNCHANGED <<machine, dir, preview, plan>> /\ Active(t) /\ call[t].todo = <<>>
    BY <1>11 DEF Finish
  <2>2. call'[t] = NoCall /\ call[t] \in Call /\ \A u \in Threads \ {t} : call'[u] = call[u]
    BY <1>0, <1>11, FinishDoes
  <2>3. ~preview.quiet /\ ~plan.quiet /\ ~undo.quiet
    BY <2>1, QuietCall
  <2>4. PreviewInv' /\ PlanInv'
    BY <2>1, <2>3 DEF PreviewInv, PlanInv
  <2>5. ASSUME NEW u \in Threads PROVE CallOk(u)'
    <3>1. CASE u = t
      BY <2>2, <3>1 DEF CallOk, Active, NoCall
    <3>2. CASE u # t
      <4>1. call'[u] = call[u]
        BY <2>2, <3>2
      <4>2. ~(Active(u) /\ call[u].quiet)
        BY <2>1, <3>2, QuietCall
      <4> QED BY <4>1, <4>2 DEF CallOk, Active
    <3> QED BY <3>1, <3>2
  <2>6. UndoInv'
    <3>1. CASE undo' = undo
      BY <2>3, <3>1 DEF UndoInv
    <3>2. CASE undo' = [pairs |-> call[t].done, before |-> call[t].before,
                        quiet |-> call[t].quiet /\ call[t].kind = "rename"]
      <4>1. undo'.pairs = call[t].done /\ undo'.before = call[t].before
            /\ undo'.quiet = (call[t].quiet /\ call[t].kind = "rename")
        BY <3>2, Zenon
      <4> SUFFICES ASSUME call[t].quiet, call[t].kind = "rename" PROVE UndoInv'
        BY <4>1 DEF UndoInv
      <4>2. RunOk(dir, call[t]) /\ \A u \in Threads : Active(u) => u = t
        BY <2>1, QuietCall
      <4>3. call[t].at # "unlink"
        BY <1>0, <2>1 DEF PlaceInv
      <4>4. Carried(call[t].before, call[t].done) /\ Applied(dir, call[t].before, ToSet(call[t].done))
        BY <4>2, <4>3 DEF RunOk
      <4>5. Alone'
        BY <2>2, <4>2 DEF Alone, Active, NoCall
      <4>6. Carried(undo'.before, undo'.pairs) /\ Applied(dir', undo'.before, ToSet(undo'.pairs))
        BY <2>1, <4>1, <4>4
      <4> QED BY <2>1, <4>5, <4>6, UnprimedResults DEF UndoInv
    <3> QED BY <1>11, <3>1, <3>2 DEF Finish
  <2> QED BY <2>4, <2>5, <2>6 DEF QuietInv
<1>12. CASE UNCHANGED vars
  BY <1>12, RestQuiet DEF vars, QuietInv
<1> QED
  BY <1>1, <1>2, <1>3, <1>4, <1>5, <1>6, <1>7, <1>8, <1>9, <1>10, <1>11, <1>12 DEF Next, Step

LEMMA QuietInit == Init => QuietInv
<1> SUFFICES ASSUME Init PROVE QuietInv
  OBVIOUS
<1>1. ~preview.quiet /\ ~plan.quiet /\ ~undo.quiet
  BY DEF Init, NoPreview, NoPlan, NoUndo
<1>2. \A t \in Threads : ~Active(t)
  BY DEF Init, Active, NoCall
<1> QED BY <1>1, <1>2 DEF QuietInv, PreviewInv, PlanInv, UndoInv, CallOk

\* What the plan of an undisturbed run has shown is what the run does, for any
\* names and any case folding, except where a file system folds case under a
\* Path that does not (rename).
THEOREM PlanIsRun == Spec => ShownIsRun
<1>1. Init => Base /\ QuietInv
  BY BaseInit, QuietInit
<1>2. Base /\ QuietInv /\ [Next]_vars => (Base /\ QuietInv)'
  BY BaseStep, QuietStep
<1>3. Base /\ QuietInv /\ [Next]_vars => [\A t \in Threads : Skips(t) => machine.folds /\ machine.sys # "windows"]_vars
  <2> SUFFICES ASSUME Base, QuietInv, Next, NEW t \in Threads, Skips(t),
                      ~machine.folds \/ machine.sys = "windows"
               PROVE  FALSE
    OBVIOUS
  <2>0. call \in Calls /\ PlaceInv
    BY DEF Base, TypeOK, Calls
  <2>1. /\ Active(t) /\ call[t].kind = "rename" /\ call[t].todo # <<>> /\ call[t] \in Call
        /\ call'[t].kind # "none" /\ call'[t].quiet
        /\ call'[t].todo # call[t].todo /\ call'[t].done = call[t].done
    BY <2>0, ActiveCall DEF Skips, Active
  <2>2. call'[t] # call[t] /\ call'[t] # Loud(call)[t]
    BY <2>0, <2>1, LoudCalls
  <2>3. ASSUME Skip(t), NEW q, At(t, q) PROVE RunOk(dir, call[t])
    <3>1. call[t].quiet
      BY <2>0, <2>1, <2>3, SkipDoes
    <3> QED BY <2>1, <3>1, QuietCall
  <2>4. ~Did(t) \/ \A q : ~At(t, q)
    <3> SUFFICES ASSUME Did(t), NEW q, At(t, q) PROVE FALSE
      OBVIOUS
    <3>1. call'[t].done = Append(call[t].done, Head(call[t].todo)) /\ call[t].done \in Seq(Pair)
          /\ Head(call[t].todo) \in Pair
      BY <2>0, DidDoes, PairAt
    <3>2. \A s \in Seq(Pair), x \in Pair : Append(s, x) # s
      <4> SUFFICES ASSUME NEW s \in Seq(Pair), NEW x \in Pair PROVE Append(s, x) # s
        OBVIOUS
      <4>1. Len(Append(s, x)) = Len(s) + 1 /\ Len(s) \in Nat
        OBVIOUS
      <4> QED BY <4>1
    <3> QED BY <2>1, <3>1, <3>2
  <2>5. ASSUME NEW place \in {"check", "move", "unlink", "over"}, NEW q, At(t, q), Goto(t, place) PROVE FALSE
    BY <2>0, <2>1, <2>5, GotoDoes
  <2>6. ASSUME NEW u \in Threads, u # t,
               \/ Check(u) \/ MoveOnWindows(u) \/ Link(u) \/ Unlink(u) \/ RenameOver(u)
        PROVE  FALSE
    <3>1. \E q : At(u, q)
      BY <2>6 DEF Check, MoveOnWindows, Link, Unlink, RenameOver
    <3>2. Skip(u) \/ Did(u) \/ \E place \in {"check", "move", "unlink", "over"} : Goto(u, place)
      BY <2>6 DEF Check, MoveOnWindows, Link, Unlink, RenameOver
    <3>3. call'[t] = call[t]
      BY <2>0, <2>6, <3>1, <3>2, SkipDoes, DidDoes, GotoDoes
    <3> QED BY <2>2, <3>3
  <2>7. ASSUME NEW u \in Threads,
               Run(u) \/ UndoRun(u) \/ Fail(u) \/ Abandon(u) \/ Finish(u)
        PROVE  FALSE
    <3>1. CASE Run(u)
      <4>1. u # t
        BY <2>1, <3>1 DEF Run, Start
      <4>2. plan.pairs \in Seq(Pair) /\ plan.quiet \in BOOLEAN /\ dir \in Dir
        BY DEF Base, TypeOK, Plan
      <4>3. call'[t] = Loud(call)[t]
        BY <2>0, <3>1, <4>1, <4>2, StartDoes DEF Run
      <4> QED BY <2>2, <4>3
    <3>2. CASE UndoRun(u)
      <4>1. u # t
        BY <2>1, <3>2 DEF UndoRun, Start
      <4>2. undo.pairs \in Seq(Pair) /\ undo.quiet \in BOOLEAN /\ undo.before \in Dir
        BY DEF Base, TypeOK, Undo
      <4>3. call'[t] = Loud(call)[t]
        BY <2>0, <3>2, <4>1, <4>2, ReversedType, StartDoes DEF UndoRun, Reversed
      <4> QED BY <2>2, <4>3
    <3>3. CASE Fail(u)
      BY <2>0, <2>1, <2>2, <3>3, FailDoes
    <3>4. CASE Abandon(u)
      BY <2>0, <2>1, <2>2, <3>4, AbandonDoes
    <3>5. CASE Finish(u)
      BY <2>0, <2>1, <2>2, <3>5, FinishDoes DEF NoCall
    <3> QED BY <2>7, <3>1, <3>2, <3>3, <3>4, <3>5
  <2>8. ASSUME Check(t) PROVE FALSE
    <3>1. At(t, "check") /\ ((Stale(t) /\ Skip(t)) \/ \E place \in {"over", "move"} : Goto(t, place))
      BY <2>8 DEF Check
    <3>2. Stale(t) /\ Skip(t)
      BY <2>5, <3>1
    <3>3. RunOk(dir, call[t])
      BY <2>3, <3>1, <3>2
    <3> QED BY <2>1, <3>1, <3>2, <3>3, RunNotTaken DEF Stale
  <2>9. ASSUME MoveOnWindows(t) PROVE FALSE
    <3>1. At(t, "move") /\ machine.sys = "windows"
      BY <2>9 DEF MoveOnWindows
    <3>2. /\ Skip(t)
          /\ ~(Exists(Source(t)) /\ (Exists(Target(t)) => EntryOf(Target(t)) = EntryOf(Source(t))))
      BY <2>4, <2>9, <3>1 DEF MoveOnWindows
    <3> QED BY <2>3, <3>1, <3>2, RunNotTaken
  <2>10. ASSUME Link(t) PROVE FALSE
    <3>1. At(t, "move") /\ machine.sys # "windows"
      BY <2>10 DEF Link
    <3>2. Skip(t) /\ (~Exists(Source(t)) \/ Exists(Target(t)))
      BY <2>5, <2>10, <3>1 DEF Link
    <3> QED BY <2>3, <3>1, <3>2, RunNotTaken
  <2>11. ASSUME Unlink(t) PROVE FALSE
    <3>1. At(t, "unlink")
      BY <2>11 DEF Unlink
    <3>2. Skip(t) /\ ~Exists(Source(t))
      BY <2>4, <2>11, <3>1 DEF Unlink
    <3> QED BY <2>3, <3>1, <3>2, RunUnlinks
  <2>12. ASSUME RenameOver(t) PROVE FALSE
    <3>1. At(t, "over")
      BY <2>12 DEF RenameOver
    <3>2. Skip(t) /\ ~Exists(Source(t))
      BY <2>4, <2>12, <3>1 DEF RenameOver
    <3> QED BY <2>3, <3>1, <3>2, RunNotTaken
  <2>13. ASSUME (\E n \in Names : UserDeletes(n)) \/ (\E n \in Names, f \in Files : UserCreates(f, n))
                \/ PreviewStart \/ PreviewOne
         PROVE  FALSE
    BY <2>2, <2>13 DEF UserDeletes, UserCreates, PreviewStart, PreviewOne
  <2> QED
    BY <2>6, <2>7, <2>8, <2>9, <2>10, <2>11, <2>12, <2>13 DEF Next, Step
<1> QED BY <1>1, <1>2, <1>3, PTL DEF Spec, ShownIsRun

\* Undo brings back the directory the run has found, whatever was renamed
\* and however case folds, as long as nothing else has touched the directory
\* since the preview (undo).
THEOREM UndoRestores == Spec => []RoundTrip
<1>1. Init => Base /\ QuietInv
  BY BaseInit, QuietInit
<1>2. Base /\ QuietInv /\ [Next]_vars => (Base /\ QuietInv)'
  BY BaseStep, QuietStep
<1>3. Base /\ QuietInv => RoundTrip
  <2> SUFFICES ASSUME Base, QuietInv, NEW t \in Threads,
                      Active(t), call[t].kind = "undo", call[t].quiet, call[t].todo = <<>>
               PROVE  dir = call[t].before
    BY DEF RoundTrip
  <2>1. UndoOk(dir, call[t]) /\ call[t] \in Call
    BY QuietCall
  <2>2. Back(ToSet(call[t].todo)) = {}
    BY SetEmpty DEF Back
  <2>3. Applied(dir, call[t].before, {}) /\ call[t].before \in Dir /\ dir \in Dir
    BY <2>1, <2>2 DEF UndoOk, Call, Base, TypeOK
  <2> QED BY <2>3, AppliedAll
<1> QED BY <1>1, <1>2, <1>3, PTL DEF Spec
=============================================================================
