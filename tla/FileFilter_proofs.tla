------------------------- MODULE FileFilter_proofs -------------------------
(***************************************************************************)
(* Proofs about FileFilter, for any trees, types, worker threads, calls    *)
(* and upsets: no content gets lost, an undisturbed undo brings the tree   *)
(* back, and what is shown of an undisturbed run is what was confirmed.    *)
(***************************************************************************)
EXTENDS FileFilter, FiniteSetTheorems, WellFoundedInduction, TLAPS

-----------------------------------------------------------------------------
(* Places and sequences.                                                   *)

LEMMA SourcesFinite == IsFiniteSet(Sources)
<1>1. PICK n \in Nat : Sorted \in [1..n -> Place] /\ DOMAIN Sorted = 1..n
  BY FileFilterAssumption
<1>2. Sorted \in Surjection(1..n, Sources)
  BY <1>1 DEF Surjection, Sources, ToSet
<1>3. IsFiniteSet(1..n)
  BY FS_Interval
<1> QED BY <1>2, <1>3, FS_Surjection

LEMMA SourcesArePlaces ==
    /\ Sources \subseteq Place
    /\ \A p \in Sources : p.k = 0 /\ p.rel \in Rel /\ p.rel[2] \in DOMAIN ExtOf /\ p.root \in Trees
    /\ Trees # {} => Sorted[1] \in Sources
    /\ Len(Sorted) \in Nat
<1>1. Sources \subseteq Place /\ Len(Sorted) \in Nat
  BY FileFilterAssumption DEF Sources, ToSet
<1>2. \A p \in Sources : p.k = 0 /\ p.rel \in Rel /\ p.rel[2] \in DOMAIN ExtOf /\ p.root \in Trees
  BY FileFilterAssumption DEF Rel, Trees
<1>3. ASSUME Trees # {} PROVE Sorted[1] \in Sources
  <2>1. PICK i \in DOMAIN Sorted : TRUE
    BY <1>3 DEF Trees, Sources, ToSet
  <2>2. 1 \in DOMAIN Sorted
    BY <2>1, FileFilterAssumption
  <2> QED BY <2>2 DEF Sources, ToSet
<1> QED BY <1>1, <1>2, <1>3

\* A place under another number.
LEMMA Numbered ==
    ASSUME NEW p \in Place, NEW k \in Nat
    PROVE  LET q == [p EXCEPT !.k = k]
           IN q \in Place /\ q.root = p.root /\ q.rel = p.rel /\ q.k = k /\ (p.k = k => q = p)
BY DEF Place

LEMMA SamePlace ==
    ASSUME NEW p \in Place, NEW q \in Place, p.root = q.root, p.rel = q.rel, p.k = q.k
    PROVE  p = q
BY DEF Place

LEMMA HeadTail ==
    ASSUME NEW T, NEW s \in Seq(T), s # <<>>
    PROVE  /\ Head(s) = s[1] /\ Head(s) \in T /\ 1 \in DOMAIN s
           /\ Tail(s) \in Seq(T)
           /\ DOMAIN s = 1..Len(s) /\ Len(s) \in Nat /\ DOMAIN Tail(s) = 1..(Len(s) - 1)
           /\ \A i \in DOMAIN Tail(s) : i + 1 \in DOMAIN s /\ Tail(s)[i] = s[i + 1]
           /\ \A i \in DOMAIN s : i = 1 \/ (i - 1 \in DOMAIN Tail(s) /\ Tail(s)[i - 1] = s[i])
<1>1. Head(s) = s[1] /\ Head(s) \in T /\ 1 \in DOMAIN s /\ DOMAIN s = 1..Len(s) /\ Len(s) \in Nat /\ Len(s) # 0
  OBVIOUS
<1>2. Tail(s) \in Seq(T) /\ Len(Tail(s)) = Len(s) - 1 /\ DOMAIN Tail(s) = 1..(Len(s) - 1)
  OBVIOUS
<1>3. \A i \in 1..(Len(s) - 1) : Tail(s)[i] = s[i + 1]
  OBVIOUS
<1>4. \A i \in DOMAIN s : i = 1 \/ i - 1 \in 1..(Len(s) - 1)
  BY <1>1
<1>5. \A i \in 1..(Len(s) - 1) : i + 1 \in DOMAIN s
  BY <1>1
<1>6. \A i \in DOMAIN s : i = 1 \/ (i - 1 \in DOMAIN Tail(s) /\ Tail(s)[i - 1] = s[i])
  <2> SUFFICES ASSUME NEW i \in DOMAIN s, i # 1 PROVE i - 1 \in DOMAIN Tail(s) /\ Tail(s)[i - 1] = s[i]
    OBVIOUS
  <2>1. i - 1 \in 1..(Len(s) - 1) /\ (i - 1) + 1 = i
    BY <1>1, <1>4
  <2> QED BY <1>2, <1>3, <2>1
<1> QED BY <1>1, <1>2, <1>3, <1>5, <1>6

LEMMA Appended ==
    ASSUME NEW T, NEW s \in Seq(T), NEW x \in T
    PROVE  /\ Append(s, x) \in Seq(T)
           /\ DOMAIN s = 1..Len(s) /\ Len(s) \in Nat /\ DOMAIN Append(s, x) = 1..(Len(s) + 1)
           /\ \A i \in DOMAIN s : Append(s, x)[i] = s[i]
           /\ Append(s, x)[Len(s) + 1] = x
           /\ \A i \in DOMAIN Append(s, x) : i \in DOMAIN s \/ i = Len(s) + 1
OBVIOUS

LEMMA ListingFacts ==
    ASSUME NEW S \in SUBSET Sources, NEW m \in Listings(S)
    PROVE  /\ m \in Seq(Sources) /\ {m[i] : i \in DOMAIN m} = S
           /\ \A i, k \in DOMAIN m : m[i] = m[k] => i = k
<1> DEFINE n == Cardinality(S)
<1>1. n \in Nat /\ IsFiniteSet(S)
  BY SourcesFinite, FS_Subset, FS_CardinalityType
<1>2. m \in [1..n -> S]
  BY DEF Listings
<1> HIDE DEF n
<1>3. m \in Seq(Sources) /\ DOMAIN m = 1..n
  BY <1>1, <1>2
<1>4. ASSUME NEW i \in DOMAIN m, NEW k \in DOMAIN m, i < k PROVE m[i] # m[k]
  <2>1. Before(m[i], m[k])
    BY <1>4 DEF Listings
  <2>2. PICK a, b \in DOMAIN Sorted : a < b /\ Sorted[a] = m[i] /\ Sorted[b] = m[k]
    BY <2>1 DEF Before
  <2>3. a # b
    BY <2>2, FileFilterAssumption
  <2> QED BY <2>2, <2>3, FileFilterAssumption DEF IsInjective
<1>5. \A i, k \in DOMAIN m : m[i] = m[k] => i = k
  <2>1. \A i, k \in DOMAIN m : i # k => i < k \/ k < i
    BY <1>3
  <2> QED BY <1>4, <2>1
<1>6. m \in Injection(1..n, S)
  BY <1>2, <1>3, <1>5 DEF Injection, IsInjective
<1>7. Cardinality(1..n) = Cardinality(S) /\ IsFiniteSet(1..n)
  <2>1. Cardinality(1..n) = n
    BY <1>1, FS_Interval
  <2> QED BY <1>1, <2>1, FS_Interval DEF n
<1>8. m \in Surjection(1..n, S)
  BY <1>1, <1>6, <1>7, FS_Injection
<1>9. {m[i] : i \in DOMAIN m} = S
  BY <1>2, <1>3, <1>8 DEF Surjection
<1> QED BY <1>3, <1>5, <1>9

\* Every set of numbers has a least one.
LEMMA LeastOf == ASSUME NEW T, T \subseteq Nat, T # {} PROVE \E x \in T : \A y \in T : x <= y
<1>1. PICK x \in T : \A y \in T : <<y, x>> \notin OpToRel(<, Nat)
  BY NatLessThanWellFounded, WFMin
<1>2. \A y \in T : ~(y < x)
  BY <1>1 DEF OpToRel
<1> QED BY <1>2

\* One of the names is always free, and the first free one is taken.
LEMMA FreeName ==
    ASSUME IsFiniteSet(DOMAIN fs), NEW p \in Place
    PROVE  LET u == UniqueDestination(p)
           IN  /\ u \in Place /\ u.root = p.root /\ u.rel = p.rel /\ ~Exists(u)
               /\ p.k = 0 /\ ~Exists(p) => u = p
<1> DEFINE n == Cardinality(DOMAIN fs)
           at(k) == [p EXCEPT !.k = k]
           Free == {k \in 0..n : ~Exists(at(k))}
           k0 == CHOOSE k \in 0..n : ~Exists(at(k)) /\ \A i \in 0..(k - 1) : Exists(at(i))
<1>1. n \in Nat
  BY FS_CardinalityType
<1>2. \A k \in Nat : at(k) \in Place /\ at(k).root = p.root /\ at(k).rel = p.rel /\ at(k).k = k
                     /\ (p.k = k => at(k) = p)
  BY Numbered
<1>3. Free # {}
  <2> SUFFICES ASSUME Free = {} PROVE FALSE
    OBVIOUS
  <2> DEFINE f == [k \in 0..n |-> at(k)]
  <2>1. f \in [0..n -> DOMAIN fs]
    BY <1>1 DEF Exists
  <2>2. IsFiniteSet(0..n) /\ Cardinality(0..n) = n + 1
    <3>1. 0 \in Int /\ n \in Int /\ ~(0 > n) /\ n - 0 + 1 = n + 1
      BY <1>1
    <3> HIDE DEF n
    <3> QED BY <3>1, FS_Interval
  <2>3. \E i, k \in 0..n : i # k /\ f[i] = f[k]
    <3> HIDE DEF f
    <3> QED BY <1>1, <2>1, <2>2, FS_PigeonHole
  <2>4. PICK i, k \in 0..n : i # k /\ at(i) = at(k)
    BY <2>3
  <2>5. i \in Nat /\ k \in Nat
    BY <1>1
  <2> HIDE DEF at
  <2> QED BY <1>2, <2>4, <2>5
<1>4. PICK x \in Free : \A y \in Free : x <= y
  <2>1. Free \subseteq Nat
    BY <1>1
  <2> HIDE DEF Free
  <2> QED BY <1>3, <2>1, LeastOf
<1>5. \A i \in 0..(x - 1) : Exists(at(i))
  <2> SUFFICES ASSUME NEW i \in 0..(x - 1), ~Exists(at(i)) PROVE FALSE
    OBVIOUS
  <2>1. i \in 0..n /\ ~(x <= i)
    BY <1>1, <1>4
  <2> QED BY <1>4, <2>1
<1>6. k0 \in 0..n /\ ~Exists(at(k0)) /\ \A i \in 0..(k0 - 1) : Exists(at(i))
  BY <1>4, <1>5
<1>7. UniqueDestination(p) = at(k0)
  BY DEF UniqueDestination
<1>8. ASSUME p.k = 0, ~Exists(p) PROVE k0 = 0
  <2> HIDE DEF at, k0
  <2>1. at(0) = p
    BY <1>2, <1>8
  <2>2. k0 # 0 => 0 \in 0..(k0 - 1)
    BY <1>1, <1>6
  <2> QED BY <1>6, <1>8, <2>1, <2>2
<1> HIDE DEF at, k0
<1>9. k0 \in Nat
  BY <1>1, <1>6
<1> QED BY <1>2, <1>6, <1>7, <1>8, <1>9

-----------------------------------------------------------------------------
(* Jobs.                                                                   *)

AllJobs == [Jobs -> Job \cup {NoJob}]
Exts    == {ExtOf[n] : n \in DOMAIN ExtOf}
Stages  == {"select", "check", "choose", "carry", "pack", "publish"}

LEMMA JobFields ==
    ASSUME NEW b \in Job
    PROVE  /\ b.mode \in Modes \cup {"undo"} /\ b.mode # "none" /\ b.at \in Stages /\ b.tree \in Trees
           /\ b.flat \in BOOLEAN /\ b.wanted \in SUBSET Exts /\ b.root \in Stamped \cup {NoRoot}
           /\ b.todo \in Seq(Pair) /\ b.done \in Seq(Pair) /\ b.dest \in Place
           /\ b.packed \in Seq([rel: Rel, content: Content])
           /\ b.heard \in BOOLEAN /\ b.quiet \in BOOLEAN /\ b.before \in Tree /\ b.asked \in SUBSET Sources
BY DEF Job, Modes, Stages, Exts

LEMMA ActiveJob ==
    ASSUME job \in AllJobs, NEW j \in Jobs
    PROVE  Active(j) <=> job[j] \in Job
<1>1. NoJob.mode = "none"
  BY DEF NoJob
<1>2. job[j] \in Job => job[j].mode # "none"
  BY JobFields
<1> QED BY <1>1, <1>2 DEF AllJobs, Active

\* c is job b, further on.
Keeps(b, c) ==
    /\ c \in Job /\ c.mode = b.mode /\ c.tree = b.tree /\ c.flat = b.flat /\ c.wanted = b.wanted
    /\ c.root = b.root /\ c.quiet = b.quiet /\ c.before = b.before /\ c.asked = b.asked

\* ... or where it was, but disturbed.
Louder(b, c) ==
    /\ c \in Job /\ c.mode = b.mode /\ c.at = b.at /\ c.tree = b.tree /\ c.root = b.root
    /\ c.todo = b.todo /\ c.done = b.done /\ c.dest = b.dest /\ c.packed = b.packed /\ c.heard = b.heard
    /\ c.quiet = FALSE /\ c.asked = {}

LEMMA LoudJob ==
    ASSUME NEW b \in Job
    PROVE  Louder(b, [b EXCEPT !.quiet = FALSE, !.before = {}, !.asked = {}])
BY DEF Job, Louder, Tree

LEMMA LoudJobs ==
    ASSUME job \in AllJobs, NEW S
    PROVE  /\ Loud(job, S) \in AllJobs
           /\ \A i \in Jobs : ~Active(i) \/ i \in S => Loud(job, S)[i] = job[i]
           /\ \A i \in Jobs : Active(i) /\ i \notin S => Louder(job[i], Loud(job, S)[i])
<1>1. \A i \in Jobs : ~Active(i) \/ i \in S => Loud(job, S)[i] = job[i]
  BY DEF Loud, Active
<1>2. ASSUME NEW i \in Jobs, Active(i), i \notin S PROVE Louder(job[i], Loud(job, S)[i])
  <2>1. Loud(job, S)[i] = [job[i] EXCEPT !.quiet = FALSE, !.before = {}, !.asked = {}]
    BY <1>2 DEF Loud, Active
  <2> QED BY <1>2, <2>1, ActiveJob, LoudJob
<1>3. \A i \in Jobs : Loud(job, S)[i] \in Job \cup {NoJob}
  BY <1>1, <1>2 DEF AllJobs, Louder
<1>4. Loud(job, S) \in AllJobs
  <2>1. Loud(job, S) = [i \in Jobs |-> Loud(job, S)[i]]
    BY DEF Loud
  <2> QED BY <1>3, <2>1, Zenon DEF AllJobs
<1> QED BY <1>1, <1>2, <1>4

LEMMA OneJob ==
    ASSUME NEW js \in AllJobs, NEW j \in Jobs, NEW b \in Job \cup {NoJob}, job' = [js EXCEPT ![j] = b]
    PROVE  job' \in AllJobs /\ job'[j] = b /\ \A i \in Jobs \ {j} : job'[i] = js[i]
BY DEF AllJobs

\* What becomes of the other jobs in a step of job j.
Others(j)     == \A i \in Jobs \ {j} : job'[i] = job[i]
OthersLoud(j) == \A i \in Jobs \ {j} : IF Active(i) THEN Louder(job[i], job'[i]) ELSE job'[i] = job[i]

LEMMA PairFields == ASSUME NEW p \in Pair PROVE p.from \in Place /\ p.to \in Place
BY DEF Pair

LEMMA NextPair ==
    ASSUME job \in AllJobs, NEW j \in Jobs, NEW place, More(j, place)
    PROVE  /\ job[j] \in Job /\ Active(j) /\ job[j].at = place /\ job[j].todo # <<>>
           /\ This(j) \in Pair /\ This(j).from \in Place /\ This(j).to \in Place
           /\ Tail(job[j].todo) \in Seq(Pair)
<1>1. job[j] \in Job /\ Active(j) /\ job[j].at = place /\ job[j].todo # <<>>
  BY ActiveJob DEF More, At
<1>2. job[j].todo \in Seq(Pair)
  BY <1>1, JobFields
<1>3. This(j) \in Pair /\ Tail(job[j].todo) \in Seq(Pair)
  BY <1>1, <1>2, HeadTail DEF This
<1> QED BY <1>1, <1>3, PairFields

LEMMA FirstStage == ASSUME NEW mode PROVE First(mode) \in {"choose", "pack"} /\ First(mode) \in Stages
BY DEF First, Stages

\* job' is job with job j moved on.
Advances(j, at, todo, done, dest, packed, heard) ==
    /\ job' \in AllJobs /\ Others(j) /\ Keeps(job[j], job'[j])
    /\ job'[j].at = at /\ job'[j].todo = todo /\ job'[j].done = done /\ job'[j].dest = dest
    /\ job'[j].packed = packed /\ job'[j].heard = heard

LEMMA Advance ==
    ASSUME job \in AllJobs, NEW j \in Jobs, job[j] \in Job,
           NEW at \in Stages, NEW todo \in Seq(Pair), NEW done \in Seq(Pair), NEW dest \in Place,
           NEW packed \in Seq([rel: Rel, content: Content]), NEW heard \in BOOLEAN,
           job' = [job EXCEPT ![j] = [job[j] EXCEPT !.at = at, !.todo = todo, !.done = done, !.dest = dest,
                                                    !.packed = packed, !.heard = heard]]
    PROVE  Advances(j, at, todo, done, dest, packed, heard)
<1> DEFINE c == [job[j] EXCEPT !.at = at, !.todo = todo, !.done = done, !.dest = dest,
                               !.packed = packed, !.heard = heard]
<1>1. /\ Keeps(job[j], c) /\ c.at = at /\ c.todo = todo /\ c.done = done /\ c.dest = dest
      /\ c.packed = packed /\ c.heard = heard
  BY DEF Job, Keeps, Stages
<1> HIDE DEF c
<1>2. c \in Job
  BY <1>1 DEF Keeps
<1>3. job' \in AllJobs /\ job'[j] = c /\ \A i \in Jobs \ {j} : job'[i] = job[i]
  <2>1. job' = [job EXCEPT ![j] = c]
    BY DEF c
  <2> QED BY <1>2, <2>1, OneJob
<1> QED BY <1>1, <1>3 DEF Advances, Others

LEMMA GotoDoes ==
    ASSUME job \in AllJobs, NEW j \in Jobs, Active(j), NEW place \in Stages, Goto(j, place)
    PROVE  LET b == job[j] IN Advances(j, place, b.todo, b.done, b.dest, b.packed, b.heard)
<1> DEFINE b == job[j]
<1>1. b \in Job
  BY ActiveJob
<1>3. /\ b.todo \in Seq(Pair) /\ b.done \in Seq(Pair) /\ b.dest \in Place
      /\ b.packed \in Seq([rel: Rel, content: Content]) /\ b.heard \in BOOLEAN
  BY <1>1, JobFields
<1>2. job' = [job EXCEPT ![j] = [b EXCEPT !.at = place, !.todo = b.todo, !.done = b.done, !.dest = b.dest,
                                          !.packed = b.packed, !.heard = b.heard]]
  BY <1>1 DEF Goto, AllJobs, Job
<1> HIDE DEF b
<1>4. Advances(j, place, b.todo, b.done, b.dest, b.packed, b.heard)
  BY <1>1, <1>2, <1>3, Advance DEF b
<1> QED BY <1>4 DEF b

LEMMA CheckDoes ==
    ASSUME job \in AllJobs, NEW j \in Jobs, Check(j)
    PROVE  LET b == job[j] IN
           IF Exists(This(j).from) /\ ~Exists(This(j).to)
           THEN Advances(j, "choose", b.todo, b.done, b.dest, b.packed, b.heard)
           ELSE Advances(j, "check", Tail(b.todo), b.done, b.dest, b.packed, b.heard)
<1> DEFINE b == job[j]
<1>1. b \in Job /\ Active(j) /\ b.at = "check" /\ Tail(b.todo) \in Seq(Pair)
  BY NextPair DEF Check
<1>0. /\ b.todo \in Seq(Pair) /\ b.done \in Seq(Pair) /\ b.dest \in Place
      /\ b.packed \in Seq([rel: Rel, content: Content]) /\ b.heard \in BOOLEAN
  BY <1>1, JobFields
<1>2. CASE Exists(This(j).from) /\ ~Exists(This(j).to)
  BY <1>1, <1>2, GotoDoes DEF Check, Stages
<1>3. CASE ~(Exists(This(j).from) /\ ~Exists(This(j).to))
  <2>1. job' = [job EXCEPT ![j] = [b EXCEPT !.at = "check", !.todo = Tail(b.todo), !.done = b.done, !.dest = b.dest,
                                            !.packed = b.packed, !.heard = b.heard]]
    BY <1>1, <1>3 DEF Check, AllJobs, Job
  <2>2. "check" \in Stages
    BY DEF Stages
  <2> HIDE DEF b
  <2>3. Advances(j, "check", Tail(b.todo), b.done, b.dest, b.packed, b.heard)
    BY <1>0, <1>1, <2>1, <2>2, Advance DEF b
  <2> QED BY <1>3, <2>3 DEF b
<1> QED BY <1>2, <1>3

LEMMA ChooseDoes ==
    ASSUME job \in AllJobs, IsFiniteSet(DOMAIN fs), NEW j \in Jobs, Choose(j)
    PROVE  LET b == job[j] IN
           Advances(j, "carry", b.todo, b.done, UniqueDestination(This(j).to), b.packed, b.heard)
<1> DEFINE b == job[j]
           u == UniqueDestination(This(j).to)
<1>1. b \in Job /\ Active(j) /\ u \in Place
  BY NextPair, FreeName DEF Choose
<1>0. /\ b.todo \in Seq(Pair) /\ b.done \in Seq(Pair) /\ b.dest \in Place
      /\ b.packed \in Seq([rel: Rel, content: Content]) /\ b.heard \in BOOLEAN
  BY <1>1, JobFields
<1> HIDE DEF u
<1>2. job' = [job EXCEPT ![j] = [b EXCEPT !.at = "carry", !.todo = b.todo, !.done = b.done, !.dest = u,
                                          !.packed = b.packed, !.heard = b.heard]]
  BY <1>1 DEF Choose, AllJobs, Job, u
<1>3. "carry" \in Stages
  BY DEF Stages
<1> HIDE DEF b
<1>4. Advances(j, "carry", b.todo, b.done, u, b.packed, b.heard)
  BY <1>0, <1>1, <1>2, <1>3, Advance DEF b
<1> QED BY <1>4 DEF b, u

\* Where a run or an undo goes after a file.
After(mode) == IF mode = "undo" THEN "check" ELSE First(mode)

LEMMA SkipDoes ==
    ASSUME job \in AllJobs, NEW j \in Jobs, More(j, "carry"), Skip(j)
    PROVE  LET b == job[j] IN
           Advances(j, After(b.mode), Tail(b.todo), b.done, b.dest, b.packed, b.heard)
<1> DEFINE b == job[j]
<1>1. b \in Job /\ Active(j) /\ b.at = "carry" /\ Tail(b.todo) \in Seq(Pair)
  BY NextPair
<1>0. /\ b.todo \in Seq(Pair) /\ b.done \in Seq(Pair) /\ b.dest \in Place
      /\ b.packed \in Seq([rel: Rel, content: Content]) /\ b.heard \in BOOLEAN
  BY <1>1, JobFields
<1>2. After(b.mode) \in Stages
  BY FirstStage DEF After, Stages
<1>3. job' = [job EXCEPT ![j] = [b EXCEPT !.at = After(b.mode), !.todo = Tail(b.todo), !.done = b.done, !.dest = b.dest,
                                          !.packed = b.packed, !.heard = b.heard]]
  BY <1>1 DEF Skip, AllJobs, Job, After
<1> HIDE DEF b
<1>4. Advances(j, After(b.mode), Tail(b.todo), b.done, b.dest, b.packed, b.heard)
  BY <1>0, <1>1, <1>2, <1>3, Advance DEF b
<1> QED BY <1>4 DEF b

LEMMA PackDoes ==
    ASSUME TypeOK, NEW j \in Jobs, Pack(j)
    PROVE  LET b == job[j]
               entry == [rel |-> This(j).to.rel, content |-> fs[This(j).from]]
           IN Advances(j, "pack", Tail(b.todo), b.done, b.dest,
                       IF Exists(This(j).from) THEN Append(b.packed, entry) ELSE b.packed, b.heard)
<1> DEFINE b == job[j]
           entry == [rel |-> This(j).to.rel, content |-> fs[This(j).from]]
           packed == IF Exists(This(j).from) THEN Append(b.packed, entry) ELSE b.packed
<1>0. job \in AllJobs
  BY DEF TypeOK, AllJobs
<1>1. b \in Job /\ Active(j) /\ b.at = "pack" /\ Tail(b.todo) \in Seq(Pair) /\ This(j).to \in Place
  BY <1>0, NextPair DEF Pack
<1>2. /\ b.todo \in Seq(Pair) /\ b.done \in Seq(Pair) /\ b.dest \in Place
      /\ b.packed \in Seq([rel: Rel, content: Content]) /\ b.heard \in BOOLEAN
  BY <1>1, JobFields
<1>3. packed \in Seq([rel: Rel, content: Content])
  <2>1. CASE Exists(This(j).from)
    <3>1. entry \in [rel: Rel, content: Content]
      BY <1>1, <2>1 DEF TypeOK, Exists, Place
    <3> HIDE DEF entry
    <3> QED BY <1>2, <2>1, <3>1, Appended
  <2> QED BY <1>2, <2>1
<1>4. job' = [job EXCEPT ![j] = [b EXCEPT !.at = "pack", !.todo = Tail(b.todo), !.done = b.done, !.dest = b.dest,
                                          !.packed = packed, !.heard = b.heard]]
  BY <1>0, <1>1 DEF Pack, AllJobs, Job
<1>5. "pack" \in Stages
  BY DEF Stages
<1> HIDE DEF b, packed
<1>6. Advances(j, "pack", Tail(b.todo), b.done, b.dest, packed, b.heard)
  BY <1>0, <1>1, <1>2, <1>3, <1>4, <1>5, Advance DEF b
<1> QED BY <1>6 DEF b, packed

\* The file is carried: the others are disturbed.
LEMMA CarryDoes ==
    ASSUME job \in AllJobs, NEW j \in Jobs, Carry(j), Exists(This(j).from)
    PROVE  /\ job' \in AllJobs /\ OthersLoud(j) /\ Keeps(job[j], job'[j])
           /\ job'[j].at = After(job[j].mode) \/ job'[j].at = "choose"
           /\ job[j].mode = "undo" => job'[j].at = "check"
           /\ job[j].mode # "undo" => job'[j].at = "choose"
           /\ job'[j].todo = Tail(job[j].todo) /\ job'[j].packed = job[j].packed
           /\ job'[j].done = Append(job[j].done, Carried(j)) /\ Carried(j) \in Pair
<1> DEFINE js == Loud(job, {j})
           at == IF job[j].mode = "undo" THEN "check" ELSE "choose"
           c == [job[j] EXCEPT !.at = at, !.todo = Tail(job[j].todo), !.done = Append(job[j].done, Carried(j))]
<1>1. /\ job[j] \in Job /\ Active(j) /\ This(j) \in Pair /\ Tail(job[j].todo) \in Seq(Pair)
      /\ job[j].done \in Seq(Pair) /\ job[j].dest \in Place
  BY NextPair, JobFields DEF Carry
<1>2. Carried(j) \in Pair
  BY <1>1 DEF Carried, Pair
<1>3. Append(job[j].done, Carried(j)) \in Seq(Pair)
  BY <1>1, <1>2, Appended
<1>4. js \in AllJobs /\ js[j] = job[j]
  BY LoudJobs
<1>5. \A i \in Jobs \ {j} : IF Active(i) THEN Louder(job[i], js[i]) ELSE js[i] = job[i]
  BY LoudJobs
<1>6. /\ c \in Job /\ Keeps(job[j], c) /\ c.at = at /\ c.todo = Tail(job[j].todo)
      /\ c.packed = job[j].packed /\ c.done = Append(job[j].done, Carried(j))
  BY <1>1, <1>3 DEF Job, Keeps
<1>7. job' = [js EXCEPT ![j] = c]
  <2>1. job' = [js EXCEPT ![j].at = at, ![j].todo = Tail(@), ![j].done = Append(@, Carried(j))]
    BY DEF Carry
  <2> HIDE DEF js, at
  <2> QED BY <1>4, <2>1 DEF AllJobs
<1> HIDE DEF js, c
<1>8. job' \in AllJobs /\ job'[j] = c /\ \A i \in Jobs \ {j} : job'[i] = js[i]
  BY <1>4, <1>6, <1>7, OneJob
<1> QED BY <1>2, <1>5, <1>6, <1>8 DEF OthersLoud, After

LEMMA FailDoes ==
    ASSUME job \in AllJobs, NEW j \in Jobs, Fail(j)
    PROVE  /\ job' \in AllJobs /\ OthersLoud(j)
           /\ job[j] \in Job /\ job'[j] \in Job /\ job'[j].mode = job[j].mode /\ job'[j].root = job[j].root
           /\ job[j].at \in {"carry", "pack"} /\ job'[j].at \in {"check", "choose", "pack"}
           /\ job'[j].quiet = FALSE
<1> DEFINE js == Loud(job, {})
           at == IF job[j].mode = "undo" THEN "check" ELSE First(job[j].mode)
           c == [js[j] EXCEPT !.todo = Tail(js[j].todo), !.quiet = FALSE, !.before = {}, !.asked = {}, !.at = at]
<1>1. /\ job[j] \in Job /\ Active(j) /\ Tail(job[j].todo) \in Seq(Pair) /\ job[j].at \in {"carry", "pack"}
  BY NextPair DEF Fail
<1>2. js \in AllJobs /\ Louder(job[j], js[j])
  BY <1>1, LoudJobs
<1>3. \A i \in Jobs \ {j} : IF Active(i) THEN Louder(job[i], js[i]) ELSE js[i] = job[i]
  BY LoudJobs
<1>4. at \in {"check", "choose", "pack"}
  BY FirstStage
<1>5. job' = [js EXCEPT ![j].todo = Tail(@), ![j].quiet = FALSE, ![j].before = {}, ![j].asked = {}, ![j].at = at]
  BY DEF Fail
<1> HIDE DEF js, at
<1>6. job' = [js EXCEPT ![j] = c]
  BY <1>2, <1>5 DEF AllJobs
<1>7. c \in Job /\ c.mode = job[j].mode /\ c.root = job[j].root /\ c.at = at /\ c.quiet = FALSE
  BY <1>1, <1>2, <1>4 DEF Louder, Job, Tree
<1> HIDE DEF c
<1>8. job' \in AllJobs /\ job'[j] = c /\ \A i \in Jobs \ {j} : job'[i] = js[i]
  BY <1>2, <1>6, <1>7, OneJob
<1> QED BY <1>1, <1>3, <1>4, <1>7, <1>8 DEF OthersLoud

\* A job that is over.
LEMMA EndDoes ==
    ASSUME job \in AllJobs, NEW j \in Jobs, job' = [job EXCEPT ![j] = NoJob]
    PROVE  job' \in AllJobs /\ Others(j) /\ job'[j] = NoJob
BY OneJob DEF Others

LEMMA LetGoDoes ==
    ASSUME job \in AllJobs, NEW j \in Jobs, LetGo(j)
    PROVE  /\ job' \in AllJobs /\ Others(j) /\ job[j] \in Job
           /\ IF job[j].at = "publish" THEN job'[j] = NoJob
              ELSE LET b == job[j] IN Advances(j, b.at, b.todo, b.done, b.dest, b.packed, FALSE)
<1> DEFINE b == job[j]
<1>1. b \in Job
  BY ActiveJob DEF LetGo
<1>2. CASE b.at = "publish"
  BY <1>1, <1>2, EndDoes DEF LetGo
<1>3. CASE b.at # "publish"
  <2>1. /\ b.todo \in Seq(Pair) /\ b.done \in Seq(Pair) /\ b.dest \in Place /\ b.at \in Stages
        /\ b.packed \in Seq([rel: Rel, content: Content]) /\ FALSE \in BOOLEAN
    BY <1>1, JobFields
  <2>2. job' = [job EXCEPT ![j] = [b EXCEPT !.at = b.at, !.todo = b.todo, !.done = b.done, !.dest = b.dest,
                                            !.packed = b.packed, !.heard = FALSE]]
    BY <1>1, <1>3 DEF LetGo, AllJobs, Job
  <2> HIDE DEF b
  <2>3. Advances(j, b.at, b.todo, b.done, b.dest, b.packed, FALSE)
    BY <1>1, <2>1, <2>2, Advance DEF b
  <2> QED BY <1>1, <1>3, <2>3 DEF b, Advances
<1> QED BY <1>2, <1>3

LEMMA StartDoes ==
    ASSUME job \in AllJobs, NEW j \in Jobs, NEW b \in Job, Start(j, b)
    PROVE  job' \in AllJobs /\ OthersLoud(j) /\ job'[j] = b /\ ~Active(j)
<1> DEFINE js == Loud(job, {})
<1>1. js \in AllJobs /\ \A i \in Jobs \ {j} : IF Active(i) THEN Louder(job[i], js[i]) ELSE js[i] = job[i]
  BY LoudJobs
<1>2. job' = [js EXCEPT ![j] = b] /\ ~Active(j)
  BY DEF Start
<1> HIDE DEF js
<1>3. job' \in AllJobs /\ job'[j] = b /\ \A i \in Jobs \ {j} : job'[i] = js[i]
  BY <1>1, <1>2, OneJob
<1> QED BY <1>1, <1>2, <1>3 DEF OthersLoud

LEMMA FreshJob ==
    ASSUME NEW mode \in Modes \cup {"undo"}, NEW t \in Trees
    PROVE  /\ Fresh(mode, t) \in Job /\ Fresh(mode, t).mode = mode /\ Fresh(mode, t).at = "select"
           /\ Fresh(mode, t).tree = t /\ Fresh(mode, t).done = <<>> /\ Fresh(mode, t).packed = <<>>
           /\ Fresh(mode, t).asked = {}
<1>1. Somewhere \in Place
  BY SourcesArePlaces DEF Somewhere
<1>2. <<>> \in Seq(Pair) /\ <<>> \in Seq([rel: Rel, content: Content])
  OBVIOUS
<1> QED BY <1>1, <1>2 DEF Fresh, Job, Tree

LEMMA RunDoes ==
    ASSUME TypeOK, NEW j \in Jobs, NEW t \in Trees, NEW mode \in Modes, NEW flat \in BOOLEAN,
           NEW wanted \in SUBSET Exts, Run(j, t, mode, flat, wanted)
    PROVE  /\ job' \in AllJobs /\ OthersLoud(j) /\ ~Active(j) /\ job'[j] \in Job
           /\ job'[j].mode = mode /\ job'[j].at = "select" /\ job'[j].tree = t /\ job'[j].wanted = wanted
           /\ job'[j].done = <<>> /\ job'[j].packed = <<>>
           /\ job'[j].quiet => Alone /\ mode # "copy"
           /\ job'[j].asked # {} => scan.quiet /\ Alone /\ scan.tree = t /\ job'[j].asked = Impact(wanted)
<1> DEFINE quiet == Alone /\ mode # "copy"
           asked == IF scan.quiet /\ Alone /\ scan.tree = t /\ mode # "copy" THEN Impact(wanted) ELSE {}
           fresh == Fresh(mode, t)
           c == [fresh EXCEPT !.flat = flat, !.wanted = wanted, !.quiet = quiet, !.asked = asked]
<1>0. job \in AllJobs
  BY DEF TypeOK, AllJobs
<1>1. asked \in SUBSET Sources
  <2>1. scan \in Scan \cup {NoScan}
    BY DEF TypeOK
  <2>2. scan.found \in SUBSET Sources
    BY <2>1 DEF Scan, NoScan
  <2> QED BY <2>2 DEF Impact
<1>2. fresh \in Job /\ fresh.mode = mode /\ fresh.at = "select" /\ fresh.tree = t
      /\ fresh.done = <<>> /\ fresh.packed = <<>>
  <2> DEFINE m == mode
  <2>1. m \in Modes \cup {"undo"}
    OBVIOUS
  <2> HIDE DEF m
  <2>2. /\ Fresh(m, t) \in Job /\ Fresh(m, t).mode = m /\ Fresh(m, t).at = "select" /\ Fresh(m, t).tree = t
        /\ Fresh(m, t).done = <<>> /\ Fresh(m, t).packed = <<>>
    BY <2>1, FreshJob
  <2> QED BY <2>2, Zenon DEF m
<1>3. quiet \in BOOLEAN
  OBVIOUS
<1>4. Start(j, c)
  BY Zenon DEF Run
<1> HIDE DEF quiet, asked, fresh
<1>5. /\ c \in Job /\ c.mode = mode /\ c.at = "select" /\ c.tree = t /\ c.wanted = wanted /\ c.quiet = quiet
      /\ c.asked = asked /\ c.done = <<>> /\ c.packed = <<>>
  BY <1>1, <1>2, <1>3 DEF Job, Exts
<1> HIDE DEF c
<1>6. job' \in AllJobs /\ OthersLoud(j) /\ job'[j] = c /\ ~Active(j)
  BY <1>0, <1>4, <1>5, StartDoes
<1>7. job'[j].quiet => Alone /\ mode # "copy"
  BY <1>5, <1>6, Zenon DEF quiet
<1>8. job'[j].asked # {} => scan.quiet /\ Alone /\ scan.tree = t /\ job'[j].asked = Impact(wanted)
  BY <1>5, <1>6, Zenon DEF asked
<1> QED BY <1>5, <1>6, <1>7, <1>8

LEMMA ReversedPairs ==
    ASSUME NEW s \in Seq(Pair)
    PROVE  /\ Reversed(s) \in Seq(Pair) /\ DOMAIN Reversed(s) = DOMAIN s
           /\ \A i \in DOMAIN s : Reversed(s)[i].from = s[i].to /\ Reversed(s)[i].to = s[i].from
           /\ Reversed(Reversed(s)) = s
<1> DEFINE r == Reversed(s)
<1>1. DOMAIN s = 1..Len(s) /\ Len(s) \in Nat /\ \A i \in DOMAIN s : s[i] \in Pair
  OBVIOUS
<1>2. r = [i \in 1..Len(s) |-> [from |-> s[i].to, to |-> s[i].from]]
  BY <1>1 DEF Reversed
<1>3. \A i \in 1..Len(s) : [from |-> s[i].to, to |-> s[i].from] \in Pair
  BY <1>1 DEF Pair
<1>4. r \in Seq(Pair) /\ DOMAIN r = DOMAIN s
  BY <1>1, <1>2, <1>3
<1>5. \A i \in DOMAIN s : r[i].from = s[i].to /\ r[i].to = s[i].from
  BY <1>1, <1>2
<1>6. Reversed(r) = s
  <2>1. \A i \in DOMAIN s : [from |-> r[i].to, to |-> r[i].from] = s[i]
    BY <1>1, <1>5 DEF Pair
  <2>2. s = [i \in DOMAIN s |-> s[i]]
    OBVIOUS
  <2> HIDE DEF r
  <2> QED BY <1>4, <2>1, <2>2 DEF Reversed
<1> QED BY <1>4, <1>5, <1>6

LEMMA ResultFields ==
    ASSUME NEW r \in Result
    PROVE  /\ r.mode \in Modes \cup {"undo"} /\ r.root \in Stamped /\ r.root[1] \in Trees
           /\ r.pairs \in Seq(Pair) /\ r.quiet \in BOOLEAN /\ r.before \in Tree /\ r.asked \in SUBSET Sources
           /\ r.mode # "none"
BY DEF Result, Stamped, Modes

LEMMA UndoRunDoes ==
    ASSUME TypeOK, NEW j \in Jobs, UndoRun(j)
    PROVE  /\ screen \in Result
           /\ job' \in AllJobs /\ OthersLoud(j) /\ ~Active(j) /\ job'[j] \in Job
           /\ job'[j].mode = "undo" /\ job'[j].at = "check" /\ job'[j].tree = screen.root[1]
           /\ job'[j].root = screen.root /\ job'[j].todo = Reversed(screen.pairs) /\ job'[j].asked = {}
           /\ job'[j].quiet => screen.quiet /\ Alone /\ job'[j].before = screen.before
<1> DEFINE quiet == screen.quiet /\ Alone
           before == IF screen.quiet /\ Alone THEN screen.before ELSE {}
           fresh == Fresh("undo", screen.root[1])
           todo == Reversed(screen.pairs)
           c == [fresh EXCEPT !.at = "check", !.root = screen.root, !.todo = todo, !.quiet = quiet,
                              !.before = before]
<1>0. job \in AllJobs
  BY DEF TypeOK, AllJobs
<1>1. screen \in Result
  BY DEF TypeOK, UndoRun, NoResult
<1>2. /\ screen.root \in Stamped /\ screen.root[1] \in Trees /\ screen.pairs \in Seq(Pair) /\ screen.quiet \in BOOLEAN
      /\ screen.before \in Tree
  BY <1>1, ResultFields
<1>3. todo \in Seq(Pair)
  BY <1>2, ReversedPairs
<1>4. quiet \in BOOLEAN /\ before \in Tree
  BY <1>2 DEF Tree
<1>5. fresh \in Job /\ fresh.mode = "undo" /\ fresh.tree = screen.root[1] /\ fresh.asked = {}
  <2> DEFINE t == screen.root[1]
             m == "undo"
  <2>1. m \in Modes \cup {"undo"} /\ t \in Trees
    BY <1>2
  <2> HIDE DEF m, t
  <2>2. /\ Fresh(m, t) \in Job /\ Fresh(m, t).mode = m /\ Fresh(m, t).tree = t
        /\ Fresh(m, t).asked = {}
    BY <2>1, FreshJob
  <2> QED BY <2>2, Zenon DEF m, t
<1>6. Start(j, c)
  BY Zenon DEF UndoRun
<1> HIDE DEF quiet, before, todo, fresh
<1>7. /\ c \in Job /\ c.mode = "undo" /\ c.at = "check" /\ c.tree = screen.root[1] /\ c.root = screen.root
      /\ c.todo = todo /\ c.quiet = quiet /\ c.before = before /\ c.asked = {}
  BY <1>2, <1>3, <1>4, <1>5 DEF Job
<1> HIDE DEF c
<1>8. job' \in AllJobs /\ OthersLoud(j) /\ job'[j] = c /\ ~Active(j)
  BY <1>0, <1>6, <1>7, StartDoes
<1>9. job'[j].quiet => screen.quiet /\ Alone /\ job'[j].before = screen.before
  BY <1>7, <1>8, Zenon DEF quiet, before
<1> QED BY <1>1, <1>7, <1>8, <1>9 DEF todo

LEMMA TreeNowType == ASSUME TypeOK, NEW t PROVE TreeNow(t) \in Tree
BY DEF TypeOK, TreeNow, Tree

\* What a run lists, and where it goes.
Targets(m, r, flat) ==
    [i \in DOMAIN m |-> [from |-> m[i], to |-> [root |-> r, rel |-> RelativeTarget(m[i], flat), k |-> 0]]]

LEMMA TargetPairs ==
    ASSUME NEW m \in Seq(Sources), NEW r \in Stamped, NEW flat \in BOOLEAN
    PROVE  /\ Targets(m, r, flat) \in Seq(Pair) /\ DOMAIN Targets(m, r, flat) = DOMAIN m
           /\ \A i \in DOMAIN m :
                 /\ Targets(m, r, flat)[i].from = m[i] /\ Targets(m, r, flat)[i].to.root = r
                 /\ Targets(m, r, flat)[i].to.rel = RelativeTarget(m[i], flat)
<1> DEFINE p(x) == [from |-> x, to |-> [root |-> r, rel |-> RelativeTarget(x, flat), k |-> 0]]
<1>1. \A x \in Sources : p(x) \in Pair
  <2> SUFFICES ASSUME NEW x \in Sources PROVE p(x) \in Pair
    OBVIOUS
  <2>1. x \in Place /\ x.rel \in Rel /\ x.rel[2] \in DOMAIN ExtOf
    BY SourcesArePlaces
  <2>2. RelativeTarget(x, flat) \in Rel
    BY <2>1 DEF RelativeTarget, Rel
  <2>3. [root |-> r, rel |-> RelativeTarget(x, flat), k |-> 0] \in Place
    BY <2>2 DEF Place
  <2> QED BY <2>1, <2>3 DEF Pair
<1>2. \A x : p(x).from = x /\ p(x).to.root = r /\ p(x).to.rel = RelativeTarget(x, flat)
  OBVIOUS
<1>3. Targets(m, r, flat) = [i \in 1..Len(m) |-> p(m[i])] /\ DOMAIN m = 1..Len(m) /\ Len(m) \in Nat
      /\ \A i \in 1..Len(m) : m[i] \in Sources
  BY DEF Targets
<1> HIDE DEF p
<1> QED BY <1>1, <1>2, <1>3

LEMMA SelectDoes ==
    ASSUME TypeOK, NEW j \in Jobs, Select(j)
    PROVE  LET b == job[j] IN
           /\ b \in Job /\ b.at = "select" /\ job' \in AllJobs /\ Others(j)
           /\ \/ job'[j] = NoJob /\ UNCHANGED books
              \/ \E m \in Listings(Matching(b.tree, b.wanted)), s \in Seconds :
                    /\ b.heard
                    /\ job'[j] \in Job /\ job'[j].mode = b.mode /\ job'[j].tree = b.tree /\ job'[j].flat = b.flat
                    /\ job'[j].quiet = b.quiet /\ job'[j].asked = b.asked /\ job'[j].done = b.done
                    /\ job'[j].packed = b.packed /\ job'[j].at = First(b.mode) /\ job'[j].root = <<b.tree, s>>
                    /\ job'[j].todo = Targets(m, <<b.tree, s>>, b.flat)
                    /\ b.quiet => job'[j].before = TreeNow(b.tree)
                    /\ books' = IF b.mode = "zip" THEN With(books, <<"zip", <<b.tree, s>>>>, <<>>) ELSE books
<1> DEFINE b == job[j]
           found == Matching(b.tree, b.wanted)
<1>0. job \in AllJobs
  BY DEF TypeOK, AllJobs
<1>1. b \in Job /\ b.at = "select"
  BY <1>0, ActiveJob DEF Select, At
<1>2. CASE found = {} \/ ~b.heard
  <2>1. job' = [job EXCEPT ![j] = NoJob] /\ UNCHANGED books
    BY <1>2 DEF Select
  <2> QED BY <1>0, <1>1, <2>1, EndDoes
<1>3. CASE ~(found = {} \/ ~b.heard)
  <2>1. PICK m \in Listings(found), r \in {b.tree} \X Seconds :
           /\ job' = [job EXCEPT ![j].at = First(b.mode), ![j].root = r, ![j].wanted = {},
                        ![j].todo = Targets(m, r, b.flat),
                        ![j].before = IF b.quiet THEN TreeNow(b.tree) ELSE {}]
           /\ books' = IF b.mode = "zip" THEN With(books, <<"zip", r>>, <<>>) ELSE books
    BY <1>3 DEF Select, Targets
  <2>2. PICK s \in Seconds : r = <<b.tree, s>>
    OBVIOUS
  <2>3. r \in Stamped /\ b.flat \in BOOLEAN
    BY <1>1, JobFields, <2>2 DEF Stamped
  <2>4. m \in Seq(Sources)
    BY ListingFacts DEF Matching
  <2> DEFINE todo == Targets(m, r, b.flat)
             before == IF b.quiet THEN TreeNow(b.tree) ELSE {}
             c == [b EXCEPT !.at = First(b.mode), !.root = r, !.wanted = {}, !.todo = todo, !.before = before]
  <2>5. todo \in Seq(Pair) /\ before \in Tree /\ First(b.mode) \in Stages
    BY <2>3, <2>4, TargetPairs, TreeNowType, FirstStage DEF Tree
  <2>6. job' = [job EXCEPT ![j].at = First(b.mode), ![j].root = r, ![j].wanted = {},
                           ![j].todo = todo, ![j].before = before]
    BY <2>1
  <2> HIDE DEF todo, before
  <2>7. job' = [job EXCEPT ![j] = c]
    BY <1>0, <1>1, <2>6 DEF AllJobs
  <2>8. /\ c \in Job /\ c.mode = b.mode /\ c.tree = b.tree /\ c.flat = b.flat /\ c.quiet = b.quiet
        /\ c.asked = b.asked /\ c.done = b.done /\ c.packed = b.packed /\ c.at = First(b.mode) /\ c.root = r
        /\ c.todo = todo /\ c.before = before
    BY <1>1, <2>3, <2>5 DEF Job, Stages
  <2> HIDE DEF c
  <2>9. job' \in AllJobs /\ Others(j) /\ job'[j] = c
    <3>1. c \in Job \cup {NoJob}
      BY <2>8
    <3>2. job' \in AllJobs /\ job'[j] = c /\ \A i \in Jobs \ {j} : job'[i] = job[i]
      BY <1>0, <2>7, <3>1, OneJob
    <3> QED BY <3>2 DEF Others
  <2>10. b.quiet => before = TreeNow(b.tree)
    BY DEF before
  <2>11. todo = Targets(m, r, b.flat)
    BY DEF todo
  <2>12. /\ job'[j] \in Job /\ job'[j].mode = b.mode /\ job'[j].tree = b.tree /\ job'[j].flat = b.flat
         /\ job'[j].quiet = b.quiet /\ job'[j].asked = b.asked /\ job'[j].done = b.done
         /\ job'[j].packed = b.packed /\ job'[j].at = First(b.mode) /\ job'[j].root = <<b.tree, s>>
         /\ job'[j].todo = Targets(m, <<b.tree, s>>, b.flat)
         /\ b.quiet => job'[j].before = TreeNow(b.tree)
    BY <2>2, <2>8, <2>9, <2>10, <2>11
  <2>13. books' = IF b.mode = "zip" THEN With(books, <<"zip", <<b.tree, s>>>>, <<>>) ELSE books
    BY <2>1, <2>2
  <2> HIDE DEF b, found
  <2> QED BY <1>1, <1>3, <2>9, <2>12, <2>13 DEF b, found
<1> QED BY <1>2, <1>3

-----------------------------------------------------------------------------
(* Types.                                                                  *)

\* Where a job is tells what it has.
Placed(b) ==
    b.mode # "none" =>
        /\ b.at # "select" => b.root \in Stamped
        /\ b.at = "carry" => b.todo # <<>>
        /\ b.at = "select" => b.done = <<>> /\ b.packed = <<>>

PlaceInv == \A j \in Jobs : Placed(job[j])

\* Who is active, in a step of job j.
LEMMA OthersActive ==
    ASSUME job \in AllJobs, NEW j \in Jobs, NEW i \in Jobs, i # j, Others(j) \/ OthersLoud(j)
    PROVE  /\ (job'[i].mode # "none") <=> Active(i)
           /\ job'[i].at = job[i].at \/ ~Active(i)
<1>1. CASE Others(j)
  BY <1>1 DEF Others, Active
<1>2. CASE OthersLoud(j)
  <2>1. CASE Active(i)
    <3>1. Louder(job[i], job'[i])
      BY <1>2, <2>1 DEF OthersLoud
    <3> QED BY <2>1, <3>1 DEF Louder, Active
  <2>2. CASE ~Active(i)
    BY <1>2, <2>2 DEF OthersLoud, Active
  <2> QED BY <2>1, <2>2
<1> QED BY <1>1, <1>2

LEMMA ResultOfType ==
    ASSUME TypeOK, PlaceInv, NEW j \in Jobs, Active(j), job[j].at # "select"
    PROVE  ResultOf(j) \in Result
<1>1. job \in AllJobs
  BY DEF TypeOK, AllJobs
<1>2. job[j] \in Job /\ job[j].root \in Stamped
  BY <1>1, ActiveJob DEF PlaceInv, Placed, Active
<1>3. /\ job[j].mode \in Modes \cup {"undo"} /\ job[j].flat \in BOOLEAN /\ job[j].done \in Seq(Pair)
      /\ job[j].quiet \in BOOLEAN /\ job[j].before \in Tree /\ job[j].asked \in SUBSET Sources
  BY <1>2, JobFields
<1> DEFINE pairs == IF job[j].mode = "move" THEN job[j].done ELSE <<>>
<1>4. pairs \in Seq(Pair)
  BY <1>3
<1>5. ResultOf(j) = [mode |-> job[j].mode, flat |-> job[j].flat, root |-> job[j].root, pairs |-> pairs,
                     quiet |-> job[j].quiet, before |-> job[j].before, asked |-> job[j].asked]
  BY DEF ResultOf
<1> HIDE DEF pairs
<1> QED BY <1>2, <1>3, <1>4, <1>5 DEF Result

LEMMA FinishDoes ==
    ASSUME TypeOK, PlaceInv, NEW j \in Jobs, Finish(j)
    PROVE  LET b == job[j] IN
           /\ b \in Job /\ b.at \in {"choose", "pack", "check"} /\ b.todo = <<>> /\ b.mode # "undo"
           /\ b.root \in Stamped /\ ResultOf(j) \in Result
           /\ job' \in AllJobs /\ Others(j)
           /\ IF b.heard
              THEN /\ Advances(j, "publish", b.todo, b.done, b.dest, b.packed, b.heard)
                   /\ last' = ResultOf(j)
              ELSE job'[j] = NoJob /\ last' = last
<1> DEFINE b == job[j]
<1>0. job \in AllJobs
  BY DEF TypeOK, AllJobs
<1>1. Active(j) /\ b \in Job /\ b.at \in {"choose", "pack", "check"} /\ b.todo = <<>> /\ b.mode # "undo"
  BY <1>0, ActiveJob DEF Finish, Written
<1>2. b.root \in Stamped /\ ResultOf(j) \in Result
  BY <1>1, ResultOfType DEF PlaceInv, Placed, Active
<1>3. CASE b.heard
  <2>1. Goto(j, "publish") /\ last' = ResultOf(j) /\ "publish" \in Stages
    BY <1>3 DEF Finish, Stages
  <2>2. Advances(j, "publish", b.todo, b.done, b.dest, b.packed, b.heard)
    BY <1>0, <1>1, <2>1, GotoDoes
  <2> QED BY <1>1, <1>2, <1>3, <2>1, <2>2 DEF Advances
<1>4. CASE ~b.heard
  BY <1>0, <1>1, <1>2, <1>4, EndDoes DEF Finish
<1> QED BY <1>3, <1>4

LEMMA PublishDoes ==
    ASSUME TypeOK, NEW j \in Jobs, Publish(j)
    PROVE  /\ job[j] \in Job /\ Active(j) /\ job[j].at = "publish"
           /\ job' \in AllJobs /\ Others(j) /\ job'[j] = NoJob
           /\ screen' = last \/ screen' = screen
<1>0. job \in AllJobs
  BY DEF TypeOK, AllJobs
<1>1. job[j] \in Job /\ Active(j) /\ job[j].at = "publish"
  BY <1>0, ActiveJob DEF Publish, At
<1> QED BY <1>0, <1>1, EndDoes DEF Publish, Show

LEMMA FinishUndoDoes ==
    ASSUME TypeOK, PlaceInv, NEW j \in Jobs, FinishUndo(j)
    PROVE  /\ job[j] \in Job /\ Active(j) /\ job[j].at \in {"choose", "pack", "check"} /\ job[j].todo = <<>>
           /\ job[j].mode = "undo"
           /\ ResultOf(j) \in Result
           /\ job' \in AllJobs /\ Others(j) /\ job'[j] = NoJob
           /\ (last' = ResultOf(j) /\ screen' = ResultOf(j)) \/ (last' = last /\ screen' = screen)
<1>0. job \in AllJobs
  BY DEF TypeOK, AllJobs
<1>1. /\ job[j] \in Job /\ Active(j) /\ job[j].at \in {"choose", "pack", "check"} /\ job[j].todo = <<>>
      /\ job[j].mode = "undo"
  BY <1>0, ActiveJob DEF FinishUndo, Written
<1>2. ResultOf(j) \in Result
  BY <1>1, ResultOfType
<1> QED BY <1>0, <1>1, <1>2, EndDoes DEF FinishUndo, Show

LEMMA Hushed ==
    ASSUME NEW r \in Result \cup {NoResult}
    PROVE  Hush(r) \in Result \cup {NoResult} /\ Hush(r).quiet = FALSE
<1>1. CASE r \in Result
  <2>1. r.mode # "none"
    BY <1>1, ResultFields
  <2>2. [r EXCEPT !.quiet = FALSE, !.before = {}, !.asked = {}] \in Result
    BY <1>1 DEF Result, Tree
  <2>3. [r EXCEPT !.quiet = FALSE, !.before = {}, !.asked = {}].quiet = FALSE
    BY <1>1 DEF Result
  <2> QED BY <2>1, <2>2, <2>3 DEF Hush
<1>2. CASE r = NoResult
  BY <1>2 DEF Hush, NoResult
<1> QED BY <1>1, <1>2

LEMMA QuietScan ==
    ASSUME scan \in Scan \cup {NoScan}
    PROVE  [scan EXCEPT !.quiet = FALSE] \in Scan \cup {NoScan} /\ [scan EXCEPT !.quiet = FALSE].quiet = FALSE
<1>1. CASE scan \in Scan
  BY <1>1 DEF Scan
<1>2. CASE scan = NoScan
  <2> DEFINE S == [tree: {"none"}, found: {{}}, quiet: {FALSE}]
  <2>1. [scan EXCEPT !.quiet = FALSE] \in S
    BY <1>2 DEF NoScan
  <2>2. \A r \in S : r = NoScan
    <3> SUFFICES ASSUME NEW r \in S PROVE r = NoScan
      OBVIOUS
    <3>1. r.tree = "none" /\ r.found = {} /\ r.quiet = FALSE
      OBVIOUS
    <3>2. r = [tree |-> r.tree, found |-> r.found, quiet |-> r.quiet]
      OBVIOUS
    <3> HIDE DEF S
    <3> QED BY <3>1, <3>2 DEF NoScan
  <2> HIDE DEF S
  <2>3. [scan EXCEPT !.quiet = FALSE] = NoScan
    BY <2>1, <2>2
  <2> QED BY <2>3 DEF NoScan
<1> QED BY <1>1, <1>2

\* What a step does to the files: at most one file goes, and at most one comes.
Changes(gone, p, c) ==
    /\ DOMAIN fs' = (DOMAIN fs \ gone) \cup {p} /\ fs'[p] = c
    /\ \A q \in DOMAIN fs \ (gone \cup {p}) : fs'[q] = fs[q]

LEMMA Created ==
    ASSUME NEW p, NEW c, fs' = With(fs, p, c)
    PROVE  Changes({}, p, c)
BY DEF Changes, With

LEMMA Moved ==
    ASSUME NEW p, NEW q, NEW c, fs' = With(Without(fs, q), p, c)
    PROVE  Changes({q}, p, c)
BY DEF Changes, With, Without, Restrict

LEMMA Deleted ==
    ASSUME NEW q, fs' = Without(fs, q)
    PROVE  DOMAIN fs' = DOMAIN fs \ {q} /\ \A p \in DOMAIN fs \ {q} : fs'[p] = fs[p]
BY DEF Without, Restrict
\* The parts of TypeOK.
FilesOK  == DOMAIN fs \subseteq Place /\ IsFiniteSet(DOMAIN fs) /\ (\A p \in DOMAIN fs : fs[p] \in Content)
            /\ kept \subseteq Content
BooksOK  == \A b \in DOMAIN books : b \in {"zip", "manifest"} \X Stamped
PanelOK  == scan \in Scan \cup {NoScan} /\ last \in Result \cup {NoResult} /\ screen \in Result \cup {NoResult}
CountsOK == calls \in 0..MaxCalls /\ upsets \in 0..MaxUpsets

LEMMA TypeParts == TypeOK <=> FilesOK /\ BooksOK /\ PanelOK /\ CountsOK /\ job \in AllJobs /\ raced \in BOOLEAN
BY DEF TypeOK, FilesOK, BooksOK, PanelOK, CountsOK, AllJobs

LEMMA FilesStayOK ==
    ASSUME FilesOK, NEW gone, NEW p \in Place, NEW c \in Content, Changes(gone, p, c), kept' \subseteq Content
    PROVE  FilesOK'
<1>1. DOMAIN fs' = (DOMAIN fs \ gone) \cup {p}
  BY DEF Changes
<1>2. IsFiniteSet(DOMAIN fs')
  <2>1. IsFiniteSet(DOMAIN fs \ gone)
    BY FS_Subset DEF FilesOK
  <2>2. IsFiniteSet((DOMAIN fs \ gone) \cup {p})
    BY <2>1, FS_AddElement
  <2> QED BY <1>1, <2>2
<1>3. \A q \in DOMAIN fs' : fs'[q] \in Content
  <2> SUFFICES ASSUME NEW q \in DOMAIN fs' PROVE fs'[q] \in Content
    OBVIOUS
  <2>1. CASE q = p
    BY <2>1 DEF Changes
  <2>2. CASE q # p
    BY <1>1, <2>2 DEF Changes, FilesOK
  <2> QED BY <2>1, <2>2
<1>4. DOMAIN fs' \subseteq Place
  BY <1>1 DEF FilesOK
<1> QED BY <1>2, <1>3, <1>4 DEF FilesOK

LEMMA ContentFacts == 0 \in Content /\ \A u \in 1..MaxUpsets : Len(Sorted) + u \in Content
BY SourcesArePlaces, FileFilterAssumption DEF Content

LEMMA BooksStayOK ==
    ASSUME BooksOK, NEW b \in {"zip", "manifest"} \X Stamped, NEW x, books' = With(books, b, x)
    PROVE  BooksOK'
BY DEF BooksOK, With

LEMMA Disturbed ==
    ASSUME PanelOK, Disturb
    PROVE  PanelOK' /\ scan'.quiet = FALSE /\ last'.quiet = FALSE /\ screen'.quiet = FALSE
<1>1. scan' = [scan EXCEPT !.quiet = FALSE] /\ last' = Hush(last) /\ screen' = Hush(screen)
  BY DEF Disturb
<1>2. scan' \in Scan \cup {NoScan} /\ scan'.quiet = FALSE
  BY <1>1, QuietScan DEF PanelOK
<1>3. last' \in Result \cup {NoResult} /\ last'.quiet = FALSE
  BY <1>1, Hushed DEF PanelOK
<1>4. screen' \in Result \cup {NoResult} /\ screen'.quiet = FALSE
  BY <1>1, Hushed DEF PanelOK
<1> QED BY <1>2, <1>3, <1>4 DEF PanelOK

LEMMA CountsStayOK == ASSUME CountsOK, Upset \/ Usual \/ (upsets' = upsets /\ calls > 0 /\ calls' = calls - 1) PROVE CountsOK'
<1> USE FileFilterAssumption
<1>1. CASE Upset
  BY <1>1 DEF Upset, CountsOK
<1>2. CASE Usual
  BY <1>2 DEF Usual, CountsOK
<1>3. CASE upsets' = upsets /\ calls > 0 /\ calls' = calls - 1
  BY <1>3 DEF CountsOK
<1> QED BY <1>1, <1>2, <1>3
LEMMA OthersPlaced ==
    ASSUME job \in AllJobs, PlaceInv, NEW j \in Jobs, Others(j) \/ OthersLoud(j), Placed(job'[j])
    PROVE  PlaceInv'
<1> SUFFICES ASSUME NEW i \in Jobs, i # j PROVE Placed(job'[i])
  BY DEF PlaceInv
<1>1. Placed(job[i])
  BY DEF PlaceInv
<1>2. CASE job'[i] = job[i]
  BY <1>1, <1>2
<1>3. CASE Active(i) /\ Louder(job[i], job'[i])
  BY <1>1, <1>3 DEF Louder, Placed, Active
<1> QED BY <1>2, <1>3 DEF Others, OthersLoud

LEMMA LoudPlaced ==
    ASSUME job \in AllJobs, PlaceInv, job' = Loud(job, {})
    PROVE  job' \in AllJobs /\ PlaceInv' /\ \A j \in Jobs : job'[j].mode # "none" => job'[j].quiet = FALSE
<1>1. job' \in AllJobs /\ \A i \in Jobs : IF Active(i) THEN Louder(job[i], job'[i]) ELSE job'[i] = job[i]
  BY LoudJobs
<1>2. \A i \in Jobs : Placed(job'[i])
  <2> SUFFICES ASSUME NEW i \in Jobs PROVE Placed(job'[i])
    OBVIOUS
  <2>1. Placed(job[i])
    BY DEF PlaceInv
  <2> QED BY <1>1, <2>1 DEF Louder, Placed, Active
<1>3. \A j \in Jobs : job'[j].mode # "none" => job'[j].quiet = FALSE
  BY <1>1 DEF Louder, Active
<1> QED BY <1>1, <1>2, <1>3 DEF PlaceInv

Base == TypeOK /\ PlaceInv

LEMMA InitBase == Init => Base
<1> SUFFICES ASSUME Init PROVE Base
  OBVIOUS
<1>1. fs \in [Present -> Content] /\ kept = Range(fs)
  <2>1. \A p \in Present : \E i \in DOMAIN Sorted : Sorted[i] = p
    BY FileFilterAssumption DEF Sources, ToSet
  <2>2. DOMAIN Sorted \subseteq Content
    BY FileFilterAssumption DEF Content
  <2> QED BY <2>1, <2>2 DEF Init
<1>2. FilesOK
  <2>1. IsFiniteSet(Present) /\ Present \subseteq Place
    BY SourcesFinite, SourcesArePlaces, FS_Subset, FileFilterAssumption
  <2> QED BY <1>1, <2>1 DEF FilesOK, Range
<1>3. BooksOK
  BY DEF Init, BooksOK
<1>4. PanelOK /\ CountsOK
  BY FileFilterAssumption DEF Init, PanelOK, CountsOK
<1>5. job \in AllJobs /\ raced \in BOOLEAN
  BY DEF Init, AllJobs
<1>6. PlaceInv
  BY DEF Init, PlaceInv, Placed, NoJob
<1> QED BY <1>2, <1>3, <1>4, <1>5, <1>6, TypeParts DEF Base
Parts == FilesOK /\ BooksOK /\ PanelOK /\ CountsOK /\ job \in AllJobs /\ PlaceInv

LEMMA BaseParts == Base <=> Parts /\ raced \in BOOLEAN
BY TypeParts DEF Base, Parts

LEMMA FilesSame == ASSUME FilesOK, UNCHANGED <<fs, kept>> PROVE FilesOK'
BY DEF FilesOK

LEMMA BooksSame == ASSUME BooksOK, UNCHANGED books PROVE BooksOK'
BY DEF BooksOK

LEMMA PanelSame == ASSUME PanelOK, UNCHANGED <<scan, last, screen>> PROVE PanelOK'
BY DEF PanelOK

LEMMA UsersParts ==
    ASSUME Base, NEW p \in Sources, UserCreates(p) \/ UserDeletes(p)
    PROVE  Parts' /\ scan'.quiet = FALSE /\ last'.quiet = FALSE /\ screen'.quiet = FALSE
           /\ \A j \in Jobs : job'[j].mode # "none" => job'[j].quiet = FALSE
<1>1. Parts
  BY BaseParts
<1>2. job' = Loud(job, {}) /\ Disturb /\ Upset /\ UNCHANGED books
  BY DEF UserCreates, UserDeletes
<1>3. job' \in AllJobs /\ PlaceInv' /\ \A j \in Jobs : job'[j].mode # "none" => job'[j].quiet = FALSE
  BY <1>1, <1>2, LoudPlaced DEF Parts
<1>4. BooksOK' /\ PanelOK' /\ scan'.quiet = FALSE /\ last'.quiet = FALSE /\ screen'.quiet = FALSE
  BY <1>1, <1>2, Disturbed, BooksSame DEF Parts
<1>5. CountsOK'
  BY <1>1, <1>2, CountsStayOK DEF Parts
<1>6. CASE UserCreates(p)
  <2> DEFINE c == Len(Sorted) + upsets
  <2>1. fs' = With(fs, p, c) /\ kept' = kept \cup {c}
    BY <1>6 DEF UserCreates
  <2>2. c \in Content
    <3>1. upsets \in 1..MaxUpsets
      BY <1>1, <1>2, FileFilterAssumption DEF Parts, CountsOK, Upset
    <3> QED BY <3>1, ContentFacts
  <2> HIDE DEF c
  <2>3. Changes({}, p, c) /\ p \in Place
    BY <2>1, Created, SourcesArePlaces
  <2>4. kept' \subseteq Content
    BY <1>1, <2>1, <2>2 DEF Parts, FilesOK
  <2>5. FilesOK'
    BY <1>1, <2>2, <2>3, <2>4, FilesStayOK DEF Parts
  <2> QED BY <1>3, <1>4, <1>5, <2>5 DEF Parts
<1>7. CASE UserDeletes(p)
  <2>1. fs' = Without(fs, p) /\ kept' = kept \ {fs[p]}
    BY <1>7 DEF UserDeletes
  <2>2. DOMAIN fs' = DOMAIN fs \ {p} /\ \A q \in DOMAIN fs \ {p} : fs'[q] = fs[q]
    BY <2>1, Deleted
  <2>3. IsFiniteSet(DOMAIN fs')
    <3>1. IsFiniteSet(DOMAIN fs \ {p})
      BY <1>1, FS_Subset DEF Parts, FilesOK
    <3> QED BY <2>2, <3>1
  <2>4. FilesOK'
    BY <1>1, <2>1, <2>2, <2>3 DEF Parts, FilesOK
  <2> QED BY <1>3, <1>4, <1>5, <2>4 DEF Parts
<1> QED BY <1>6, <1>7

LEMMA ScanParts == ASSUME Base, NEW t \in Trees, ScanTree(t) PROVE Parts'
<1>1. Parts
  BY BaseParts
<1>2. UNCHANGED <<fs, kept, books, job, last, screen>> /\ Usual
  BY DEF ScanTree
<1>3. scan' \in Scan
  <2>1. Counted(t) \in SUBSET Sources /\ Alone \in BOOLEAN
    BY DEF Counted, Alone
  <2>2. scan' = [tree |-> t, found |-> Counted(t), quiet |-> Alone]
    BY Zenon DEF ScanTree
  <2> DEFINE q == Alone
  <2> HIDE DEF q
  <2>3. q \in BOOLEAN /\ scan' = [tree |-> t, found |-> Counted(t), quiet |-> q]
    BY <2>1, <2>2, Zenon DEF q
  <2> QED BY <2>1, <2>3 DEF Scan
<1>4. PanelOK' /\ FilesOK' /\ BooksOK' /\ CountsOK'
  BY <1>1, <1>2, <1>3, FilesSame, BooksSame, CountsStayOK DEF Parts, PanelOK
<1>5. job' \in AllJobs /\ PlaceInv'
  BY <1>1, <1>2 DEF Parts, PlaceInv
<1> QED BY <1>4, <1>5 DEF Parts

LEMMA RunParts ==
    ASSUME Base, NEW j \in Jobs, NEW t \in Trees, NEW mode \in Modes, NEW flat \in BOOLEAN,
           NEW wanted \in SUBSET Exts, Run(j, t, mode, flat, wanted)
    PROVE  Parts' /\ scan'.quiet = FALSE /\ last'.quiet = FALSE /\ screen'.quiet = FALSE
<1>1. Parts /\ TypeOK
  BY BaseParts DEF Base
<1>2. /\ UNCHANGED <<fs, kept, books>> /\ upsets' = upsets /\ calls > 0 /\ calls' = calls - 1
      /\ last' = NoResult /\ screen' = Hush(screen) /\ scan' = [scan EXCEPT !.quiet = FALSE]
  BY DEF Run, Start
<1>3. PanelOK' /\ scan'.quiet = FALSE /\ last'.quiet = FALSE /\ screen'.quiet = FALSE
  BY <1>1, <1>2, QuietScan, Hushed DEF Parts, PanelOK, NoResult
<1>4. job' \in AllJobs /\ PlaceInv'
  <2>1. /\ job' \in AllJobs /\ OthersLoud(j) /\ job'[j].at = "select"
        /\ job'[j].done = <<>> /\ job'[j].packed = <<>>
    BY <1>1, RunDoes
  <2>2. Placed(job'[j])
    BY <2>1 DEF Placed
  <2> QED BY <1>1, <2>1, <2>2, OthersPlaced DEF Parts
<1>5. FilesOK' /\ BooksOK' /\ CountsOK'
  BY <1>1, <1>2, FilesSame, BooksSame, CountsStayOK DEF Parts
<1> QED BY <1>3, <1>4, <1>5 DEF Parts

LEMMA UndoRunParts ==
    ASSUME Base, NEW j \in Jobs, UndoRun(j)
    PROVE  Parts' /\ scan'.quiet = FALSE /\ last'.quiet = FALSE /\ screen'.quiet = FALSE
<1>1. Parts /\ TypeOK
  BY BaseParts DEF Base
<1>2. /\ UNCHANGED <<fs, kept, books>> /\ upsets' = upsets /\ calls > 0 /\ calls' = calls - 1
      /\ last' = Hush(last) /\ screen' = Hush(screen) /\ scan' = [scan EXCEPT !.quiet = FALSE]
  BY DEF UndoRun, Start
<1>3. PanelOK' /\ scan'.quiet = FALSE /\ last'.quiet = FALSE /\ screen'.quiet = FALSE
  BY <1>1, <1>2, QuietScan, Hushed DEF Parts, PanelOK
<1>4. job' \in AllJobs /\ PlaceInv'
  <2>1. job' \in AllJobs /\ OthersLoud(j) /\ job'[j].at = "check" /\ job'[j].root \in Stamped
    BY <1>1, UndoRunDoes, ResultFields
  <2>2. Placed(job'[j])
    BY <2>1 DEF Placed
  <2> QED BY <1>1, <2>1, <2>2, OthersPlaced DEF Parts
<1>5. FilesOK' /\ BooksOK' /\ CountsOK'
  BY <1>1, <1>2, FilesSame, BooksSame, CountsStayOK DEF Parts
<1> QED BY <1>3, <1>4, <1>5 DEF Parts
LEMMA AdvancesPlaced ==
    ASSUME Parts, NEW j \in Jobs, Active(j), NEW at \in Stages, NEW todo, NEW done, NEW dest, NEW packed, NEW heard,
           Advances(j, at, todo, done, dest, packed, heard),
           job[j].at = "select" <=> at = "select", at = "carry" => todo # <<>>,
           at = "select" => done = job[j].done /\ packed = job[j].packed
    PROVE  job' \in AllJobs /\ PlaceInv'
<1>1. job' \in AllJobs /\ Others(j) /\ Keeps(job[j], job'[j]) /\ job'[j].at = at /\ job'[j].todo = todo
      /\ job'[j].done = done /\ job'[j].packed = packed
  BY DEF Advances
<1>2. Placed(job[j]) /\ job[j].mode # "none"
  BY DEF Parts, PlaceInv, Active
<1>3. Placed(job'[j])
  <2>1. CASE at = "select"
    <3>1. job[j].at = "select" => job'[j].done = <<>> /\ job'[j].packed = <<>>
      BY <1>1, <1>2, <2>1 DEF Placed
    <3> QED BY <1>1, <1>2, <2>1, <3>1 DEF Placed
  <2>2. CASE at # "select"
    BY <1>1, <1>2, <2>2 DEF Placed, Keeps
  <2> QED BY <2>1, <2>2
<1> QED BY <1>1, <1>3, OthersPlaced DEF Parts

LEMMA SelectParts == ASSUME Base, NEW j \in Jobs, Select(j) PROVE Parts' /\ UNCHANGED <<fs, kept, scan, last, screen>>
<1>1. Parts /\ TypeOK
  BY BaseParts DEF Base
<1>2. UNCHANGED <<fs, kept, scan, last, screen>> /\ Usual
  BY DEF Select
<1> DEFINE b == job[j]
<1>3. b \in Job /\ job' \in AllJobs /\ Others(j)
  BY <1>1, SelectDoes
<1>4. Placed(job'[j]) /\ BooksOK'
  <2>1. CASE job'[j] = NoJob /\ UNCHANGED books
    BY <1>1, <2>1, BooksSame DEF Placed, NoJob, Parts
  <2>2. CASE ~(job'[j] = NoJob /\ UNCHANGED books)
    <3>1. PICK m \in Listings(Matching(b.tree, b.wanted)), s \in Seconds :
            /\ job'[j].at = First(b.mode) /\ job'[j].root = <<b.tree, s>>
            /\ books' = IF b.mode = "zip" THEN With(books, <<"zip", <<b.tree, s>>>>, <<>>) ELSE books
      BY <1>1, <2>2, SelectDoes
    <3>2. <<b.tree, s>> \in Stamped
      BY <1>3, JobFields DEF Stamped
    <3>3. Placed(job'[j])
      BY <3>1, <3>2, FirstStage DEF Placed
    <3>4. BooksOK'
      <4>1. CASE b.mode = "zip"
        <5>1. books' = With(books, <<"zip", <<b.tree, s>>>>, <<>>)
          BY <3>1, <4>1
        <5>2. <<"zip", <<b.tree, s>>>> \in {"zip", "manifest"} \X Stamped
          BY <3>2
        <5> HIDE DEF b
        <5> QED BY <1>1, <5>1, <5>2, BooksStayOK DEF Parts
      <4>2. CASE b.mode # "zip"
        BY <1>1, <3>1, <4>2, BooksSame DEF Parts
      <4> QED BY <4>1, <4>2
    <3> QED BY <3>3, <3>4
  <2> QED BY <2>1, <2>2
<1>5. PlaceInv'
  BY <1>1, <1>3, <1>4, OthersPlaced DEF Parts
<1>6. FilesOK' /\ PanelOK' /\ CountsOK'
  BY <1>1, <1>2, FilesSame, PanelSame, CountsStayOK DEF Parts
<1> QED BY <1>2, <1>3, <1>4, <1>5, <1>6 DEF Parts

LEMMA CheckParts == ASSUME Base, NEW j \in Jobs, Check(j) PROVE Parts'
<1>1. Parts /\ Active(j) /\ job[j].at = "check"
  BY BaseParts DEF Check, More, At
<1>2. UNCHANGED <<fs, kept, books, scan, last, screen>> /\ Usual
  BY DEF Check
<1>3. job' \in AllJobs /\ PlaceInv'
  <2> DEFINE b == job[j]
  <2>1. CASE Exists(This(j).from) /\ ~Exists(This(j).to)
    <3>1. Advances(j, "choose", b.todo, b.done, b.dest, b.packed, b.heard) /\ "choose" \in Stages
      BY <1>1, <2>1, CheckDoes DEF Parts, Stages
    <3> HIDE DEF b
    <3> QED BY <1>1, <3>1, AdvancesPlaced
  <2>2. CASE ~(Exists(This(j).from) /\ ~Exists(This(j).to))
    <3>1. Advances(j, "check", Tail(b.todo), b.done, b.dest, b.packed, b.heard) /\ "check" \in Stages
      BY <1>1, <2>2, CheckDoes DEF Parts, Stages
    <3> HIDE DEF b
    <3> QED BY <1>1, <3>1, AdvancesPlaced
  <2> QED BY <2>1, <2>2
<1>4. FilesOK' /\ PanelOK' /\ BooksOK' /\ CountsOK'
  BY <1>1, <1>2, FilesSame, PanelSame, BooksSame, CountsStayOK DEF Parts
<1> QED BY <1>3, <1>4 DEF Parts

LEMMA ChooseParts == ASSUME Base, NEW j \in Jobs, Choose(j) PROVE Parts'
<1>1. Parts /\ Active(j) /\ job[j].at = "choose" /\ job[j].todo # <<>>
  BY BaseParts DEF Choose, More, At
<1>2. UNCHANGED <<fs, kept, books, scan, last, screen>> /\ Usual
  BY DEF Choose
<1>3. job' \in AllJobs /\ PlaceInv'
  <2> DEFINE b == job[j]
  <2>1. Advances(j, "carry", b.todo, b.done, UniqueDestination(This(j).to), b.packed, b.heard) /\ "carry" \in Stages
    BY <1>1, ChooseDoes DEF Parts, Stages, FilesOK
  <2>2. b.todo # <<>>
    BY <1>1
  <2> HIDE DEF b
  <2> QED BY <1>1, <2>1, <2>2, AdvancesPlaced
<1>4. FilesOK' /\ PanelOK' /\ BooksOK' /\ CountsOK'
  BY <1>1, <1>2, FilesSame, PanelSame, BooksSame, CountsStayOK DEF Parts
<1> QED BY <1>3, <1>4 DEF Parts

LEMMA PackParts == ASSUME Base, NEW j \in Jobs, Pack(j) PROVE Parts'
<1>1. Parts /\ TypeOK /\ Active(j) /\ job[j].at = "pack" /\ job[j].todo # <<>>
  BY BaseParts DEF Pack, More, At, Base
<1>2. UNCHANGED <<fs, kept, books, scan, last, screen>> /\ Usual
  BY DEF Pack
<1>3. job' \in AllJobs /\ PlaceInv'
  <2> DEFINE b == job[j]
             packed == IF Exists(This(j).from)
                       THEN Append(b.packed, [rel |-> This(j).to.rel, content |-> fs[This(j).from]]) ELSE b.packed
  <2>1. Advances(j, "pack", Tail(b.todo), b.done, b.dest, packed, b.heard) /\ "pack" \in Stages
    BY <1>1, PackDoes DEF Stages
  <2> HIDE DEF b, packed
  <2> QED BY <1>1, <2>1, AdvancesPlaced
<1>4. FilesOK' /\ PanelOK' /\ BooksOK' /\ CountsOK'
  BY <1>1, <1>2, FilesSame, PanelSame, BooksSame, CountsStayOK DEF Parts
<1> QED BY <1>3, <1>4 DEF Parts

\* What a step that carries does to the files.
LEMMA CarryFiles ==
    ASSUME NEW j \in Jobs, Carry(j), Exists(This(j).from)
    PROVE  Changes(IF job[j].mode = "copy" THEN {} ELSE {This(j).from}, job[j].dest, fs[This(j).from])
<1>1. CASE job[j].mode = "copy"
  <2>1. fs' = With(fs, job[j].dest, fs[This(j).from])
    BY <1>1 DEF Carry
  <2> QED BY <1>1, <2>1, Created
<1>2. CASE job[j].mode # "copy"
  <2>1. fs' = With(Without(fs, This(j).from), job[j].dest, fs[This(j).from])
    BY <1>2 DEF Carry
  <2> QED BY <1>2, <2>1, Moved
<1> QED BY <1>1, <1>2

LEMMA CarryParts ==
    ASSUME Base, NEW j \in Jobs, Carry(j)
    PROVE  Parts' /\ (Exists(This(j).from) => scan'.quiet = FALSE /\ last'.quiet = FALSE /\ screen'.quiet = FALSE)
<1>1. Parts /\ TypeOK /\ Active(j) /\ job[j].at = "carry" /\ job[j].todo # <<>> /\ More(j, "carry")
  BY BaseParts DEF Carry, More, At, Base
<1>2. Usual /\ UNCHANGED <<kept, books>>
  BY DEF Carry
<1>3. job[j] \in Job /\ job[j].dest \in Place
  BY <1>1, ActiveJob, JobFields DEF Parts
<1>4. BooksOK' /\ CountsOK'
  BY <1>1, <1>2, BooksSame, CountsStayOK DEF Parts
<1>5. CASE Exists(This(j).from)
  <2>1. FilesOK'
    <3> DEFINE gone == IF job[j].mode = "copy" THEN {} ELSE {This(j).from}
               c == fs[This(j).from]
    <3>1. Changes(gone, job[j].dest, c)
      BY <1>5, CarryFiles
    <3>2. c \in Content /\ kept' \subseteq Content
      BY <1>1, <1>2, <1>5 DEF Parts, FilesOK, Exists
    <3> HIDE DEF gone, c
    <3> QED BY <1>1, <1>3, <3>1, <3>2, FilesStayOK DEF Parts
  <2>2. PanelOK' /\ scan'.quiet = FALSE /\ last'.quiet = FALSE /\ screen'.quiet = FALSE
    BY <1>1, <1>5, Disturbed DEF Carry, Disturb, Parts
  <2>3. /\ job' \in AllJobs /\ OthersLoud(j) /\ Keeps(job[j], job'[j])
        /\ job'[j].at \in {"check", "choose"}
    <3>1. job \in AllJobs
      BY <1>1 DEF Parts
    <3>2. /\ job' \in AllJobs /\ OthersLoud(j) /\ Keeps(job[j], job'[j])
          /\ (job[j].mode = "undo" => job'[j].at = "check")
          /\ (job[j].mode # "undo" => job'[j].at = "choose")
      BY <1>5, <3>1, CarryDoes
    <3> QED BY <3>2
  <2>4. Placed(job'[j])
    BY <1>1, <2>3 DEF Placed, Keeps, Parts, PlaceInv, Active
  <2> QED BY <1>1, <1>4, <2>1, <2>2, <2>3, <2>4, OthersPlaced DEF Parts
<1>6. CASE ~Exists(This(j).from)
  <2>1. Skip(j) /\ UNCHANGED <<fs, scan, last, screen>>
    BY <1>6 DEF Carry
  <2> DEFINE b == job[j]
             at == After(b.mode)
  <2>2. Advances(j, at, Tail(b.todo), b.done, b.dest, b.packed, b.heard)
    BY <1>1, <2>1, SkipDoes DEF Parts
  <2>3. at \in {"check", "choose", "pack"} /\ at \in Stages
    BY FirstStage DEF After, Stages
  <2> HIDE DEF b, at
  <2>4. job' \in AllJobs /\ PlaceInv'
    BY <1>1, <2>2, <2>3, AdvancesPlaced
  <2>5. FilesOK' /\ PanelOK'
    BY <1>1, <1>2, <2>1, FilesSame, PanelSame DEF Parts
  <2> QED BY <1>4, <1>6, <2>4, <2>5 DEF Parts
<1> QED BY <1>5, <1>6

\* What a step that fails does to the files: none, or a torn copy is there.
LEMMA FailFiles ==
    ASSUME NEW j \in Jobs, Fail(j)
    PROVE  fs' = fs \/ (~Exists(job[j].dest) /\ Changes({}, job[j].dest, Torn))
<1>1. CASE fs' = fs
  BY <1>1
<1>2. CASE fs' # fs
  <2>1. ~Exists(job[j].dest) /\ fs' = With(fs, job[j].dest, Torn)
    BY <1>2 DEF Fail
  <2> QED BY <2>1, Created
<1> QED BY <1>1, <1>2

LEMMA FailParts ==
    ASSUME Base, NEW j \in Jobs, Fail(j)
    PROVE  Parts' /\ scan'.quiet = FALSE /\ last'.quiet = FALSE /\ screen'.quiet = FALSE
<1>1. Parts
  BY BaseParts
<1>2. Disturb /\ Upset /\ UNCHANGED <<kept, books>>
  BY DEF Fail
<1>3. /\ job' \in AllJobs /\ OthersLoud(j) /\ job[j] \in Job /\ job'[j].mode = job[j].mode
      /\ job'[j].root = job[j].root /\ job[j].at \in {"carry", "pack"} /\ job'[j].at \in {"check", "choose", "pack"}
  BY <1>1, FailDoes DEF Parts
<1>4. PlaceInv'
  <2>1. Placed(job'[j])
    BY <1>1, <1>3, JobFields DEF Placed, Parts, PlaceInv
  <2> QED BY <1>1, <1>3, <2>1, OthersPlaced DEF Parts
<1>5. FilesOK'
  <2>1. job[j].dest \in Place
    BY <1>3, JobFields
  <2>2. Torn \in Content
    BY ContentFacts DEF Torn
  <2>3. CASE fs' = fs
    BY <1>1, <1>2, <2>3, FilesSame DEF Parts
  <2>4. CASE Changes({}, job[j].dest, Torn)
    BY <1>1, <1>2, <2>1, <2>2, <2>4, FilesStayOK DEF Parts, FilesOK
  <2> QED BY <2>3, <2>4, FailFiles
<1>6. BooksOK' /\ CountsOK' /\ PanelOK' /\ scan'.quiet = FALSE /\ last'.quiet = FALSE /\ screen'.quiet = FALSE
  BY <1>1, <1>2, BooksSame, CountsStayOK, Disturbed DEF Parts
<1> QED BY <1>3, <1>4, <1>5, <1>6 DEF Parts

LEMMA LetGoParts == ASSUME Base, NEW j \in Jobs, LetGo(j) PROVE Parts'
<1>1. Parts /\ Active(j)
  BY BaseParts DEF LetGo
<1>2. UNCHANGED <<fs, kept, books, scan, last, screen>> /\ Upset
  BY DEF LetGo
<1>3. job' \in AllJobs /\ PlaceInv'
  <2> DEFINE b == job[j]
  <2>1. job' \in AllJobs /\ Others(j) /\ b \in Job
    BY <1>1, LetGoDoes DEF Parts
  <2>2. CASE job'[j] = NoJob
    <3>1. Placed(job'[j])
      BY <2>2 DEF Placed, NoJob
    <3> QED BY <1>1, <2>1, <3>1, OthersPlaced DEF Parts
  <2>3. CASE job'[j] # NoJob
    <3>1. Advances(j, b.at, b.todo, b.done, b.dest, b.packed, FALSE)
      BY <1>1, <2>3, LetGoDoes DEF Parts
    <3>2. b.at \in Stages /\ (b.at = "carry" => b.todo # <<>>)
      BY <1>1, <2>1, JobFields DEF Parts, PlaceInv, Placed, Active
    <3>3. job[j].at = b.at /\ b.done = job[j].done /\ b.packed = job[j].packed
      OBVIOUS
    <3> HIDE DEF b
    <3> QED BY <1>1, <3>1, <3>2, <3>3, AdvancesPlaced
  <2> QED BY <2>2, <2>3
<1>4. FilesOK' /\ PanelOK' /\ BooksOK' /\ CountsOK'
  BY <1>1, <1>2, FilesSame, PanelSame, BooksSame, CountsStayOK DEF Parts
<1> QED BY <1>3, <1>4 DEF Parts

LEMMA FinishParts == ASSUME Base, NEW j \in Jobs, Finish(j) PROVE Parts'
<1>1. Parts /\ TypeOK /\ PlaceInv
  BY BaseParts DEF Base
<1>2. UNCHANGED <<fs, kept, scan, screen>> /\ Usual
  BY DEF Finish
<1> DEFINE b == job[j]
<1>3. /\ b \in Job /\ b.root \in Stamped /\ ResultOf(j) \in Result /\ job' \in AllJobs /\ Others(j)
      /\ (job'[j] = NoJob /\ last' = last)
         \/ (job'[j].at = "publish" /\ job'[j].root = b.root /\ last' = ResultOf(j))
  <2>1. /\ b \in Job /\ b.root \in Stamped /\ ResultOf(j) \in Result /\ job' \in AllJobs /\ Others(j)
        /\ IF b.heard
           THEN Advances(j, "publish", b.todo, b.done, b.dest, b.packed, b.heard) /\ last' = ResultOf(j)
           ELSE job'[j] = NoJob /\ last' = last
    BY <1>1, FinishDoes
  <2> QED BY <2>1 DEF Advances, Keeps
<1>4. PlaceInv'
  <2>1. Placed(job'[j])
    BY <1>3 DEF Placed, NoJob
  <2> QED BY <1>1, <1>3, <2>1, OthersPlaced DEF Parts
<1>5. BooksOK'
  <2>1. CASE b.mode \in {"zip", "manifest"}
    <3>1. books' = With(books, Book(j), b.packed)
      BY <2>1 DEF Finish
    <3>2. Book(j) \in {"zip", "manifest"} \X Stamped
      BY <1>3, <2>1 DEF Book
    <3> HIDE DEF b
    <3> QED BY <1>1, <3>1, <3>2, BooksStayOK DEF Parts
  <2>2. CASE b.mode \notin {"zip", "manifest"}
    BY <1>1, <2>2, BooksSame DEF Finish, Parts
  <2> QED BY <2>1, <2>2
<1>6. FilesOK' /\ CountsOK' /\ PanelOK'
  BY <1>1, <1>2, <1>3, FilesSame, CountsStayOK DEF Parts, PanelOK
<1> QED BY <1>3, <1>4, <1>5, <1>6 DEF Parts

LEMMA PublishParts == ASSUME Base, NEW j \in Jobs, Publish(j) PROVE Parts'
<1>1. Parts /\ TypeOK
  BY BaseParts DEF Base
<1>2. UNCHANGED <<fs, kept, books, scan, last>> /\ Usual
  BY DEF Publish
<1>3. job' \in AllJobs /\ Others(j) /\ job'[j] = NoJob /\ (screen' = last \/ screen' = screen)
  BY <1>1, PublishDoes
<1>4. PlaceInv'
  <2>1. Placed(job'[j])
    BY <1>3 DEF Placed, NoJob
  <2> QED BY <1>1, <1>3, <2>1, OthersPlaced DEF Parts
<1>5. FilesOK' /\ BooksOK' /\ CountsOK' /\ PanelOK'
  BY <1>1, <1>2, <1>3, FilesSame, BooksSame, CountsStayOK DEF Parts, PanelOK
<1> QED BY <1>3, <1>4, <1>5 DEF Parts

LEMMA FinishUndoParts == ASSUME Base, NEW j \in Jobs, FinishUndo(j) PROVE Parts'
<1>1. Parts /\ TypeOK /\ PlaceInv
  BY BaseParts DEF Base
<1>2. UNCHANGED <<fs, kept, books, scan>> /\ Usual
  BY DEF FinishUndo
<1>3. /\ job' \in AllJobs /\ Others(j) /\ job'[j] = NoJob /\ ResultOf(j) \in Result
      /\ (last' = ResultOf(j) /\ screen' = ResultOf(j)) \/ (last' = last /\ screen' = screen)
  BY <1>1, FinishUndoDoes
<1>4. PlaceInv'
  <2>1. Placed(job'[j])
    BY <1>3 DEF Placed, NoJob
  <2> QED BY <1>1, <1>3, <2>1, OthersPlaced DEF Parts
<1>5. FilesOK' /\ BooksOK' /\ CountsOK' /\ PanelOK'
  BY <1>1, <1>2, <1>3, FilesSame, BooksSame, CountsStayOK DEF Parts, PanelOK
<1> QED BY <1>3, <1>4, <1>5 DEF Parts

LEMMA BaseStep == Base /\ [Next]_vars => Base'
<1> SUFFICES ASSUME Base, [Next]_vars PROVE Base'
  OBVIOUS
<1>1. CASE Next
  <2>1. raced' \in BOOLEAN
    BY <1>1 DEF Next, Watch
  <2>2. Parts'
    <3>1. CASE \E p \in Sources : UserCreates(p) \/ UserDeletes(p)
      BY <3>1, UsersParts
    <3>2. CASE \E t \in Trees : ScanTree(t)
      BY <3>2, ScanParts
    <3>3. ASSUME NEW j \in Jobs, NEW t \in Trees, NEW mode \in Modes, NEW flat \in BOOLEAN, NEW wanted \in SUBSET Exts,
                 Run(j, t, mode, flat, wanted)
          PROVE  Parts'
      BY <3>3, RunParts
    <3>4. ASSUME NEW j \in Jobs,
                 UndoRun(j) \/ Select(j) \/ Check(j) \/ Choose(j) \/ Carry(j) \/ Pack(j) \/ Fail(j)
                 \/ LetGo(j) \/ Finish(j) \/ Publish(j) \/ FinishUndo(j)
          PROVE  Parts'
      BY <3>4, UndoRunParts, SelectParts, CheckParts, ChooseParts, CarryParts, PackParts, FailParts, LetGoParts,
         FinishParts, PublishParts, FinishUndoParts
    <3> QED BY <1>1, <3>1, <3>2, <3>3, <3>4 DEF Next, Step, Exts
  <2> QED BY <2>1, <2>2 DEF Base, Parts, TypeOK, FilesOK, BooksOK, PanelOK, CountsOK, AllJobs
<1>2. CASE UNCHANGED vars
  BY <1>2 DEF vars, Base, TypeOK, PlaceInv
<1> QED BY <1>1, <1>2

LEMMA SpecBase == Spec => []Base
BY InitBase, BaseStep, PTL DEF Spec

-----------------------------------------------------------------------------
(* Nothing gets lost.                                                      *)

\* Unless it has been taken since, the name a thread is about to write is free.
CarryInv == ~raced => \A j \in Jobs : At(j, "carry") => job[j].dest \notin DOMAIN fs

\* Job i has found its name before this step.
HadName(i) == At(i, "carry") /\ job'[i].dest = job[i].dest /\ job'[i].todo = job[i].todo

LEMMA OtherHadName ==
    ASSUME job \in AllJobs, NEW j \in Jobs, Others(j) \/ OthersLoud(j), NEW i \in Jobs \ {j}, At(i, "carry")'
    PROVE  HadName(i)
<1>1. job'[i].mode # "none" /\ job'[i].at = "carry"
  BY DEF At, Active
<1>2. CASE Active(i) /\ Louder(job[i], job'[i])
  BY <1>1, <1>2 DEF HadName, At, Louder
<1>3. CASE job'[i] = job[i]
  BY <1>1, <1>3 DEF HadName, At, Active
<1> QED BY <1>2, <1>3 DEF Others, OthersLoud

LEMMA Carrying ==
    ASSUME Base, Step, NEW i \in Jobs, At(i, "carry")'
    PROVE  HadName(i) \/ (fs' = fs /\ job'[i].dest \notin DOMAIN fs)
<1>0. TypeOK /\ PlaceInv /\ Parts /\ job \in AllJobs
  BY BaseParts DEF Base, Parts
<1>a. job'[i].mode # "none" /\ job'[i].at = "carry"
  BY DEF At, Active
<1>1. ASSUME NEW p \in Sources, UserCreates(p) \/ UserDeletes(p) PROVE HadName(i)
  <2>1. job' = Loud(job, {})
    BY <1>1 DEF UserCreates, UserDeletes
  <2>2. IF Active(i) THEN Louder(job[i], job'[i]) ELSE job'[i] = job[i]
    BY <1>0, <2>1, LoudJobs
  <2> QED BY <1>a, <2>2 DEF HadName, At, Louder, Active
<1>2. ASSUME NEW t \in Trees, ScanTree(t) PROVE HadName(i)
  BY <1>2, <1>a DEF ScanTree, HadName, At, Active
<1>3. ASSUME NEW j \in Jobs, Others(j) \/ OthersLoud(j), job'[j].mode = "none" \/ job'[j].at # "carry"
      PROVE  HadName(i)
  BY <1>0, <1>a, <1>3, OtherHadName
<1>4. ASSUME NEW j \in Jobs, NEW t \in Trees, NEW mode \in Modes, NEW flat \in BOOLEAN, NEW wanted \in SUBSET Exts,
             Run(j, t, mode, flat, wanted)
      PROVE  HadName(i)
  <2>1. OthersLoud(j) /\ job'[j].at # "carry"
    BY <1>0, <1>4, RunDoes
  <2> QED BY <1>3, <2>1
<1>5. ASSUME NEW j \in Jobs, UndoRun(j) PROVE HadName(i)
  <2>1. OthersLoud(j) /\ job'[j].at # "carry"
    BY <1>0, <1>5, UndoRunDoes
  <2> QED BY <1>3, <2>1
<1>6. ASSUME NEW j \in Jobs, Select(j) PROVE HadName(i)
  <2>1. Others(j) /\ (job'[j] = NoJob \/ job'[j].at = First(job[j].mode))
    BY <1>0, <1>6, SelectDoes
  <2>2. job'[j].mode = "none" \/ job'[j].at # "carry"
    BY <2>1, FirstStage DEF NoJob
  <2> QED BY <1>3, <2>1, <2>2
<1>7. ASSUME NEW j \in Jobs, Check(j) PROVE HadName(i)
  <2>1. Others(j) /\ job'[j].at # "carry"
    BY <1>0, <1>7, CheckDoes DEF Advances
  <2> QED BY <1>3, <2>1
<1>8. ASSUME NEW j \in Jobs, Choose(j) PROVE HadName(i) \/ (fs' = fs /\ job'[i].dest \notin DOMAIN fs)
  <2>1. Others(j) /\ job'[j].dest = UniqueDestination(This(j).to)
    <3> DEFINE u == UniqueDestination(This(j).to)
    <3>1. LET b == job[j] IN Advances(j, "carry", b.todo, b.done, u, b.packed, b.heard)
      BY <1>0, <1>8, ChooseDoes DEF Parts, FilesOK
    <3> HIDE DEF u
    <3>2. Others(j) /\ job'[j].dest = u
      BY <3>1 DEF Advances
    <3> QED BY <3>2 DEF u
  <2>2. This(j).to \in Place
    BY <1>0, <1>8, NextPair DEF Choose
  <2>3. UniqueDestination(This(j).to) \notin DOMAIN fs
    BY <1>0, <2>2, FreeName DEF Parts, FilesOK, Exists
  <2>4. fs' = fs
    BY <1>8 DEF Choose
  <2>5. CASE i = j
    BY <2>1, <2>3, <2>4, <2>5
  <2>6. CASE i # j
    BY <1>0, <2>1, <2>6, OtherHadName
  <2> QED BY <2>5, <2>6
<1>9. ASSUME NEW j \in Jobs, Carry(j) PROVE HadName(i)
  <2>1. CASE Exists(This(j).from)
    <3>1. OthersLoud(j) /\ job'[j].at # "carry"
      BY <1>0, <1>9, <2>1, CarryDoes
    <3> QED BY <1>3, <3>1
  <2>2. CASE ~Exists(This(j).from)
    <3>1. Skip(j) /\ More(j, "carry")
      BY <1>9, <2>2 DEF Carry
    <3>2. Others(j) /\ job'[j].at = After(job[j].mode)
      BY <1>0, <3>1, SkipDoes DEF Advances
    <3>3. job'[j].at # "carry"
      BY <3>2, FirstStage DEF After
    <3> QED BY <1>3, <3>2, <3>3
  <2> QED BY <2>1, <2>2
<1>10. ASSUME NEW j \in Jobs, Pack(j) PROVE HadName(i)
  <2>1. Others(j) /\ job'[j].at # "carry"
    BY <1>0, <1>10, PackDoes DEF Advances
  <2> QED BY <1>3, <2>1
<1>11. ASSUME NEW j \in Jobs, Fail(j) PROVE HadName(i)
  <2>1. OthersLoud(j) /\ job'[j].at # "carry"
    BY <1>0, <1>11, FailDoes
  <2> QED BY <1>3, <2>1
<1>12. ASSUME NEW j \in Jobs, LetGo(j) PROVE HadName(i)
  <2>1. Others(j) /\ job[j] \in Job
    BY <1>0, <1>12, LetGoDoes
  <2>2. CASE job[j].at = "publish"
    <3>1. job'[j].mode = "none"
      <4>1. job'[j] = NoJob
        BY <1>0, <1>12, <2>2, LetGoDoes
      <4> QED BY <4>1 DEF NoJob
    <3> QED BY <1>3, <2>1, <3>1
  <2>3. CASE job[j].at # "publish"
    <3>1. job'[j].at = job[j].at /\ job'[j].todo = job[j].todo /\ job'[j].dest = job[j].dest
      BY <1>0, <1>12, <2>3, LetGoDoes DEF Advances
    <3>2. CASE i = j
      BY <1>12, <1>a, <3>1, <3>2 DEF HadName, At, LetGo
    <3>3. CASE i # j
      BY <1>0, <2>1, <3>3, OtherHadName
    <3> QED BY <3>2, <3>3
  <2> QED BY <2>2, <2>3
<1>13. ASSUME NEW j \in Jobs, Finish(j) PROVE HadName(i)
  <2>1. Others(j) /\ (job'[j] = NoJob \/ job'[j].at = "publish")
    BY <1>0, <1>13, FinishDoes DEF Advances
  <2>2. job'[j].mode = "none" \/ job'[j].at # "carry"
    BY <2>1 DEF NoJob
  <2> QED BY <1>3, <2>1, <2>2
<1>14. ASSUME NEW j \in Jobs, Publish(j) PROVE HadName(i)
  <2>1. Others(j) /\ job'[j].mode = "none"
    BY <1>0, <1>14, PublishDoes DEF NoJob
  <2> QED BY <1>3, <2>1
<1>15. ASSUME NEW j \in Jobs, FinishUndo(j) PROVE HadName(i)
  <2>1. Others(j) /\ job'[j].mode = "none"
    BY <1>0, <1>15, FinishUndoDoes DEF NoJob
  <2> QED BY <1>3, <2>1
<1> QED BY <1>1, <1>2, <1>4, <1>5, <1>6, <1>7, <1>8, <1>9, <1>10, <1>11, <1>12, <1>13, <1>14, <1>15 DEF Step, Exts

LEMMA CarryStep == Base /\ CarryInv /\ [Next]_vars => CarryInv'
<1> SUFFICES ASSUME Base, CarryInv, [Next]_vars, ~raced', NEW i \in Jobs, At(i, "carry")'
             PROVE  job'[i].dest \notin DOMAIN fs'
  BY DEF CarryInv
<1>1. CASE Next
  <2>1. ~raced /\ Step /\ Watch
    BY <1>1 DEF Next, Watch
  <2>2. CASE HadName(i)
    <3>1. job[i].dest \notin DOMAIN fs
      BY <2>1, <2>2 DEF CarryInv, HadName
    <3>2. This(i)' = This(i)
      BY <2>2 DEF HadName, This
    <3>3. ~(job[i].dest \in DOMAIN fs' \ DOMAIN fs)
      BY <2>1, <2>2, <3>2 DEF Watch, HadName
    <3> QED BY <2>2, <3>1, <3>3 DEF HadName
  <2> QED BY <2>1, <2>2, Carrying
<1>2. CASE UNCHANGED vars
  BY <1>2 DEF vars, CarryInv, At, Active
<1> QED BY <1>1, <1>2

\* Contents survive a step that puts a file where there is none, and may remove
\* the one it has been copied from.
LEMMA ContentsSurvive ==
    ASSUME NEW gone, NEW p, NEW c, Changes(gone, p, c), p \notin DOMAIN fs, \A q \in gone : q \in DOMAIN fs /\ fs[q] = c,
           NEW x, \E q \in DOMAIN fs : fs[q] = x
    PROVE  \E q \in DOMAIN fs' : fs'[q] = x
<1>1. PICK q \in DOMAIN fs : fs[q] = x
  OBVIOUS
<1>2. CASE q \in gone
  BY <1>1, <1>2 DEF Changes
<1>3. CASE q \notin gone
  BY <1>1, <1>3 DEF Changes
<1> QED BY <1>2, <1>3

Found(c) == \E p \in DOMAIN fs : fs[p] = c

LEMMA LossStep == Base /\ CarryInv /\ NothingLost /\ [Next]_vars => NothingLost'
<1> SUFFICES ASSUME Base, CarryInv, NothingLost, [Next]_vars, ~raced', NEW c \in kept'
             PROVE  \E q \in DOMAIN fs' : fs'[q] = c
  BY DEF NothingLost
<1>1. CASE UNCHANGED vars
  BY <1>1 DEF vars, NothingLost
<1>2. CASE Next
  <2>0. ~raced /\ Step /\ \A x \in kept : Found(x)
    BY <1>2 DEF Next, Watch, NothingLost, Found
  <2>1. ASSUME NEW p \in Sources, UserCreates(p) PROVE \E q \in DOMAIN fs' : fs'[q] = c
    <3> DEFINE new == Len(Sorted) + upsets
    <3>1. p \notin DOMAIN fs /\ fs' = With(fs, p, new) /\ kept' = kept \cup {new}
      BY <2>1 DEF UserCreates, Exists
    <3> HIDE DEF new
    <3>2. Changes({}, p, new)
      BY <3>1, Created
    <3>3. CASE c = new
      BY <3>2, <3>3 DEF Changes
    <3>4. CASE c \in kept
      BY <2>0, <3>1, <3>2, <3>4, ContentsSurvive DEF Found
    <3> QED BY <3>1, <3>3, <3>4
  <2>2. ASSUME NEW p \in Sources, UserDeletes(p) PROVE \E q \in DOMAIN fs' : fs'[q] = c
    <3>1. fs' = Without(fs, p) /\ c \in kept /\ c # fs[p]
      BY <2>2 DEF UserDeletes
    <3>2. PICK q \in DOMAIN fs : fs[q] = c
      BY <2>0, <3>1 DEF Found
    <3> QED BY <3>1, <3>2, Deleted
  <2>3. ASSUME NEW j \in Jobs, Carry(j), Exists(This(j).from) PROVE \E q \in DOMAIN fs' : fs'[q] = c
    <3> DEFINE gone == IF job[j].mode = "copy" THEN {} ELSE {This(j).from}
               x == fs[This(j).from]
    <3>1. Changes(gone, job[j].dest, x)
      BY <2>3, CarryFiles
    <3>2. job[j].dest \notin DOMAIN fs
      BY <2>0, <2>3 DEF CarryInv, Carry, More
    <3>3. \A q \in gone : q \in DOMAIN fs /\ fs[q] = x
      BY <2>3 DEF Exists
    <3>4. Found(c)
      BY <2>0, <2>3 DEF Carry
    <3> HIDE DEF gone, x
    <3> QED BY <3>1, <3>2, <3>3, <3>4, ContentsSurvive DEF Found
  <2>4. ASSUME NEW j \in Jobs, Fail(j) PROVE \E q \in DOMAIN fs' : fs'[q] = c
    <3>1. Found(c)
      BY <2>0, <2>4 DEF Fail
    <3>2. CASE fs' = fs
      BY <3>1, <3>2 DEF Found
    <3>3. CASE ~Exists(job[j].dest) /\ Changes({}, job[j].dest, Torn)
      BY <3>1, <3>3, ContentsSurvive DEF Exists, Found
    <3> QED BY <2>4, <3>2, <3>3, FailFiles
  <2>5. ASSUME UNCHANGED <<fs, kept>> PROVE \E q \in DOMAIN fs' : fs'[q] = c
    BY <2>0, <2>5 DEF Found
  <2>6. ASSUME NEW t \in Trees, ScanTree(t) PROVE UNCHANGED <<fs, kept>>
    BY <2>6 DEF ScanTree
  <2>7. ASSUME NEW j \in Jobs, NEW t \in Trees, NEW mode \in Modes, NEW flat \in BOOLEAN, NEW wanted \in SUBSET Exts,
               Run(j, t, mode, flat, wanted)
        PROVE  UNCHANGED <<fs, kept>>
    BY <2>7 DEF Run, Start
  <2>8. ASSUME NEW j \in Jobs,
               UndoRun(j) \/ Select(j) \/ Check(j) \/ Choose(j) \/ Pack(j) \/ LetGo(j) \/ Finish(j) \/ Publish(j)
               \/ FinishUndo(j) \/ (Carry(j) /\ ~Exists(This(j).from))
        PROVE  UNCHANGED <<fs, kept>>
    BY <2>8 DEF UndoRun, Start, Select, Check, Choose, Pack, LetGo, Finish, Publish, FinishUndo, Carry
  <2> QED BY <2>0, <2>1, <2>2, <2>3, <2>4, <2>5, <2>6, <2>7, <2>8 DEF Step, Exts
<1> QED BY <1>1, <1>2

\* No content its owner has not deleted is ever lost, however runs, abandoned
\* runs, undos and other programs overlap, unless a name is taken between the
\* look and the move: safe_copy and safe_move never write on a file, and what a
\* move takes away is there under its new name.
THEOREM NothingIsLost == Spec => []NothingLost
<1>1. Init => CarryInv /\ NothingLost
  BY DEF Init, CarryInv, At, Active, NoJob, NothingLost, Range
<1>2. Base /\ CarryInv /\ NothingLost /\ [Next]_vars => (CarryInv /\ NothingLost)'
  BY CarryStep, LossStep
<1> QED BY <1>1, <1>2, SpecBase, PTL DEF Spec

-----------------------------------------------------------------------------
(* Trees, and the pairs a run has brought out of one.                      *)

TreeOf(f, t) == {<<p, f[p]>> : p \in {q \in DOMAIN f : q.root = t}}
Froms(s)     == {s[i].from : i \in DOMAIN s}
OneFrom(s)   == \A i, k \in DOMAIN s : s[i].from = s[k].from => i = k
OneTo(s)     == \A i, k \in DOMAIN s : s[i].to = s[k].to => i = k
Single(B)    == \A x, y \in B : x[1] = y[1] => x = y
Rest(B, S)   == {x \in B : x[1] \notin S}

\* The files at the from places of pairs have gone from tree t, which was B, to
\* the to places, and no others have.
Brought(pairs, t, B, f) ==
    /\ Single(B) /\ OneFrom(pairs) /\ OneTo(pairs)
    /\ \A i \in DOMAIN pairs :
          /\ pairs[i].from \in Sources /\ pairs[i].from.root = t
          /\ pairs[i].to \in DOMAIN f /\ pairs[i].to.root \in Stamped
          /\ <<pairs[i].from, f[pairs[i].to]>> \in B
    /\ TreeOf(f, t) = Rest(B, Froms(pairs))

LEMMA TreeFacts ==
    ASSUME NEW f, NEW t
    PROVE  /\ Single(TreeOf(f, t))
           /\ \A p : p \in DOMAIN f /\ p.root = t => <<p, f[p]>> \in TreeOf(f, t)
           /\ \A x \in TreeOf(f, t) : x[1] \in DOMAIN f /\ x[1].root = t /\ x = <<x[1], f[x[1]]>>
BY DEF TreeOf, Single

LEMMA TreeGoes ==
    ASSUME NEW p \in DOMAIN fs, NEW d, NEW c, NEW t, Changes({p}, d, c), p.root = t, d.root # t
    PROVE  TreeOf(fs', t) = Rest(TreeOf(fs, t), {p})
<1>1. ASSUME NEW x \in TreeOf(fs', t) PROVE x \in Rest(TreeOf(fs, t), {p})
  <2>1. PICK q \in DOMAIN fs' : q.root = t /\ x = <<q, fs'[q]>>
    BY DEF TreeOf
  <2>2. q \in DOMAIN fs /\ q # p /\ fs'[q] = fs[q]
    BY <2>1 DEF Changes
  <2>3. x = <<q, fs[q]>> /\ x \in TreeOf(fs, t)
    BY <2>1, <2>2 DEF TreeOf
  <2> QED BY <2>2, <2>3 DEF Rest
<1>2. ASSUME NEW x \in Rest(TreeOf(fs, t), {p}) PROVE x \in TreeOf(fs', t)
  <2>1. PICK q \in DOMAIN fs : q.root = t /\ x = <<q, fs[q]>> /\ q # p
    BY DEF TreeOf, Rest
  <2>2. q \in DOMAIN fs' /\ fs'[q] = fs[q]
    BY <2>1 DEF Changes
  <2> QED BY <2>1, <2>2 DEF TreeOf
<1> QED BY <1>1, <1>2

LEMMA TreeComes ==
    ASSUME NEW p \in DOMAIN fs, NEW d, NEW c, NEW t, Changes({p}, d, c), p.root # t, d.root = t, d \notin DOMAIN fs
    PROVE  TreeOf(fs', t) = TreeOf(fs, t) \cup {<<d, c>>}
<1>1. ASSUME NEW x \in TreeOf(fs', t) PROVE x \in TreeOf(fs, t) \cup {<<d, c>>}
  <2>1. PICK q \in DOMAIN fs' : q.root = t /\ x = <<q, fs'[q]>>
    BY DEF TreeOf
  <2>2. CASE q = d
    BY <2>1, <2>2 DEF Changes
  <2>3. CASE q # d
    <3>1. q \in DOMAIN fs /\ fs'[q] = fs[q]
      BY <2>1, <2>3 DEF Changes
    <3> QED BY <2>1, <3>1 DEF TreeOf
  <2> QED BY <2>2, <2>3
<1>2. ASSUME NEW x \in TreeOf(fs, t) PROVE x \in TreeOf(fs', t)
  <2>1. PICK q \in DOMAIN fs : q.root = t /\ x = <<q, fs[q]>>
    BY DEF TreeOf
  <2>2. q \in DOMAIN fs' /\ fs'[q] = fs[q]
    BY <2>1 DEF Changes
  <2> QED BY <2>1, <2>2 DEF TreeOf
<1>3. <<d, c>> \in TreeOf(fs', t)
  BY DEF TreeOf, Changes
<1> QED BY <1>1, <1>2, <1>3

LEMMA RootsApart == \A r \in Stamped : r \notin Trees
BY FileFilterAssumption

\* One more file has been moved out of the tree.
LEMMA MovedOn ==
    ASSUME NEW s \in Seq(Pair), NEW t \in Trees, NEW B, Brought(s, t, B, fs),
           NEW q \in Pair, q.from \in Sources, q.from.root = t, q.from \in DOMAIN fs, q.from \notin Froms(s),
           q.to \notin DOMAIN fs, q.to.root \in Stamped, Changes({q.from}, q.to, fs[q.from])
    PROVE  Brought(Append(s, q), t, B, fs') /\ Froms(Append(s, q)) = Froms(s) \cup {q.from}
<1> DEFINE a == Append(s, q)
           n == Len(s) + 1
<1>1. /\ DOMAIN s = 1..Len(s) /\ Len(s) \in Nat /\ DOMAIN a = 1..n /\ a[n] = q
      /\ \A i \in DOMAIN s : a[i] = s[i] /\ i \in DOMAIN a /\ i # n
      /\ \A i \in DOMAIN a : i \in DOMAIN s \/ i = n
      /\ n \in DOMAIN a
  BY Appended
<1> HIDE DEF a, n
<1>2. Froms(a) = Froms(s) \cup {q.from}
  <2>1. \A x \in Froms(a) : x \in Froms(s) \cup {q.from}
    BY <1>1 DEF Froms
  <2>2. \A x \in Froms(s) : x \in Froms(a)
    BY <1>1 DEF Froms
  <2>3. q.from \in Froms(a)
    BY <1>1 DEF Froms
  <2> QED BY <2>1, <2>2, <2>3
<1>3. OneFrom(a)
  <2>1. \A i \in DOMAIN s : s[i].from # q.from
    BY DEF Froms
  <2> QED BY <1>1, <2>1 DEF OneFrom, Brought
<1>4. OneTo(a)
  <2>1. \A i \in DOMAIN s : s[i].to # q.to
    BY DEF Brought
  <2> QED BY <1>1, <2>1 DEF OneTo, Brought
<1>5. q.from.root # q.to.root /\ q.to.root # t
  BY RootsApart
<1>6. TreeOf(fs', t) = Rest(B, Froms(a))
  <2>1. TreeOf(fs', t) = Rest(TreeOf(fs, t), {q.from})
    BY <1>5, TreeGoes
  <2>2. Rest(Rest(B, Froms(s)), {q.from}) = Rest(B, Froms(s) \cup {q.from})
    BY DEF Rest
  <2> QED BY <1>2, <2>1, <2>2 DEF Brought
<1>7. <<q.from, fs[q.from]>> \in B
  <2>1. <<q.from, fs[q.from]>> \in TreeOf(fs, t)
    BY TreeFacts
  <2> QED BY <2>1 DEF Brought, Rest
<1>8. ASSUME NEW i \in DOMAIN a
      PROVE  /\ a[i].from \in Sources /\ a[i].from.root = t
             /\ a[i].to \in DOMAIN fs' /\ a[i].to.root \in Stamped
             /\ <<a[i].from, fs'[a[i].to]>> \in B
  <2>1. CASE i \in DOMAIN s
    <3>1. /\ a[i] = s[i] /\ s[i].to \in DOMAIN fs /\ s[i].to.root \in Stamped
          /\ s[i].from \in Sources /\ s[i].from.root = t /\ <<s[i].from, fs[s[i].to]>> \in B
      BY <1>1, <2>1 DEF Brought
    <3>2. s[i].to # q.from /\ s[i].to # q.to
      BY <3>1, RootsApart
    <3>3. s[i].to \in DOMAIN fs' /\ fs'[s[i].to] = fs[s[i].to]
      BY <3>1, <3>2 DEF Changes
    <3> QED BY <3>1, <3>3
  <2>2. CASE i = n
    BY <1>1, <1>7, <2>2 DEF Changes
  <2> QED BY <1>1, <2>1, <2>2
<1> QED BY <1>2, <1>3, <1>4, <1>6, <1>8 DEF Brought, a

\* What is left of a sequence of pairs without its first.
LEMMA TailFroms ==
    ASSUME NEW s \in Seq(Pair), s # <<>>, OneFrom(s)
    PROVE  /\ Head(s) = s[1] /\ 1 \in DOMAIN s
           /\ \A i \in DOMAIN Tail(s) :
                 i + 1 \in DOMAIN s /\ Tail(s)[i] = s[i + 1] /\ Tail(s)[i].from # Head(s).from
           /\ OneFrom(Tail(s)) /\ Head(s).from \notin Froms(Tail(s))
           /\ Froms(s) = Froms(Tail(s)) \cup {Head(s).from}
<1> DEFINE a == Tail(s)
           h == Head(s)
<1>1. /\ h = s[1] /\ 1 \in DOMAIN s /\ DOMAIN a = 1..(Len(s) - 1) /\ Len(s) \in Nat
      /\ \A i \in DOMAIN a : i + 1 \in DOMAIN s /\ a[i] = s[i + 1]
      /\ \A i \in DOMAIN s : i = 1 \/ (i - 1 \in DOMAIN a /\ a[i - 1] = s[i])
  BY HeadTail
<1>2. \A i, k \in DOMAIN a : i + 1 # 1 /\ (i + 1 = k + 1 => i = k)
  BY <1>1
<1> HIDE DEF a, h
<1>3. \A i \in DOMAIN a : a[i].from # h.from
  BY <1>1, <1>2 DEF OneFrom
<1>4. OneFrom(a)
  BY <1>1, <1>2 DEF OneFrom
<1>5. ASSUME NEW x \in Froms(s) PROVE x \in Froms(a) \cup {h.from}
  <2>1. PICK i \in DOMAIN s : x = s[i].from
    BY DEF Froms
  <2>2. CASE i = 1
    BY <1>1, <2>1, <2>2
  <2>3. CASE i # 1
    BY <1>1, <2>1, <2>3 DEF Froms
  <2> QED BY <2>2, <2>3
<1>6. ASSUME NEW x \in Froms(a) PROVE x \in Froms(s)
  BY <1>1 DEF Froms
<1>7. h.from \in Froms(s) /\ h.from \notin Froms(a)
  BY <1>1, <1>3 DEF Froms
<1>8. Froms(s) = Froms(a) \cup {h.from}
  BY <1>5, <1>6, <1>7
<1> QED BY <1>1, <1>3, <1>4, <1>7, <1>8 DEF a, h

\* What an undo still has to bring back.
LEMMA ReversedTail ==
    ASSUME NEW s \in Seq(Pair), s # <<>>
    PROVE  /\ Reversed(Tail(s)) = Tail(Reversed(s)) /\ Reversed(s) # <<>>
           /\ Head(Reversed(s)).from = Head(s).to /\ Head(Reversed(s)).to = Head(s).from
<1> DEFINE r == Reversed(s)
           a == Reversed(Tail(s))
           b == Tail(r)
<1>1. /\ Tail(s) \in Seq(Pair) /\ DOMAIN s = 1..Len(s) /\ Len(s) \in Nat /\ DOMAIN Tail(s) = 1..(Len(s) - 1)
      /\ Head(s) = s[1] /\ 1 \in DOMAIN s
      /\ \A i \in DOMAIN Tail(s) : i + 1 \in DOMAIN s /\ Tail(s)[i] = s[i + 1]
  BY HeadTail
<1>2. r \in Seq(Pair) /\ DOMAIN r = DOMAIN s /\ \A i \in DOMAIN s : r[i] = [from |-> s[i].to, to |-> s[i].from]
  BY ReversedPairs DEF Reversed
<1>3. r # <<>>
  BY <1>1, <1>2
<1> HIDE DEF r
<1>4. /\ DOMAIN b = 1..(Len(r) - 1) /\ Head(r) = r[1] /\ DOMAIN r = 1..Len(r) /\ Len(r) \in Nat
      /\ \A i \in DOMAIN b : b[i] = r[i + 1]
      /\ b \in Seq(Pair)
  BY <1>2, <1>3, HeadTail
<1>5. Len(r) = Len(s)
  BY <1>1, <1>2, <1>4
<1>6. DOMAIN a = DOMAIN b /\ a \in Seq(Pair)
  BY <1>1, <1>4, <1>5, ReversedPairs
<1>7. \A i \in DOMAIN b : a[i] = b[i]
  <2> SUFFICES ASSUME NEW i \in DOMAIN b PROVE a[i] = b[i]
    OBVIOUS
  <2>1. i \in DOMAIN Tail(s) /\ i + 1 \in DOMAIN s /\ Tail(s)[i] = s[i + 1]
    BY <1>1, <1>4, <1>5
  <2>2. a[i] = [from |-> Tail(s)[i].to, to |-> Tail(s)[i].from]
    BY <2>1 DEF Reversed
  <2> QED BY <1>2, <1>4, <2>1, <2>2
<1> HIDE DEF a, b
<1>8. a = b
  BY <1>4, <1>6, <1>7
<1> QED BY <1>1, <1>2, <1>3, <1>4, <1>8 DEF a, b, r

\* ... when one more file is back.
LEMMA UndoneOn ==
    ASSUME NEW s \in Seq(Pair), s # <<>>, NEW t \in Trees, NEW B, Brought(s, t, B, fs),
           Changes({Head(s).to}, Head(s).from, fs[Head(s).to])
    PROVE  Brought(Tail(s), t, B, fs')
<1> DEFINE h == Head(s)
           a == Tail(s)
<1>1. /\ h = s[1] /\ 1 \in DOMAIN s /\ DOMAIN a = 1..(Len(s) - 1) /\ Len(s) \in Nat
      /\ \A i \in DOMAIN a : i + 1 \in DOMAIN s /\ a[i] = s[i + 1]
  BY HeadTail
<1>2. \A i \in DOMAIN a : i \in Int /\ i + 1 # 1
  BY <1>1
<1>4. Froms(s) = Froms(a) \cup {h.from} /\ h.from \notin Froms(a) /\ OneFrom(a)
  BY TailFroms DEF Brought
<1> HIDE DEF a, h
<1>3. /\ h.from \in Sources /\ h.from.root = t /\ h.to \in DOMAIN fs /\ h.to.root \in Stamped
      /\ <<h.from, fs[h.to]>> \in B
  BY <1>1 DEF Brought
<1>5. OneTo(a)
  <2>1. \A i, k \in DOMAIN a : i + 1 = k + 1 => i = k
    BY <1>2
  <2> QED BY <1>1, <2>1 DEF OneTo, Brought
<1>6. h.from \notin DOMAIN fs
  <2> SUFFICES ASSUME h.from \in DOMAIN fs PROVE FALSE
    OBVIOUS
  <2>1. <<h.from, fs[h.from]>> \in TreeOf(fs, t)
    BY <1>3, TreeFacts
  <2>2. h.from \notin Froms(s)
    BY <2>1 DEF Brought, Rest
  <2> QED BY <1>4, <2>2
<1>7. TreeOf(fs', t) = Rest(B, Froms(a))
  <2> DEFINE x == <<h.from, fs[h.to]>>
  <2>1. TreeOf(fs', t) = TreeOf(fs, t) \cup {x}
    <3>1. h.to.root # t
      BY <1>3, RootsApart
    <3>2. Changes({h.to}, h.from, fs[h.to])
      BY DEF h
    <3> DEFINE c == fs[h.to]
    <3> HIDE DEF c
    <3>3. TreeOf(fs', t) = TreeOf(fs, t) \cup {<<h.from, c>>}
      BY <1>3, <1>6, <3>1, <3>2, TreeComes DEF c
    <3> QED BY <3>3 DEF c
  <2>2. x \in B /\ x[1] = h.from
    BY <1>3
  <2>3. \A y \in B : y[1] = h.from => y = x
    BY <2>2 DEF Brought, Single
  <2> HIDE DEF x
  <2>4. Rest(B, Froms(a)) = Rest(B, Froms(s)) \cup {x}
    BY <1>4, <2>2, <2>3 DEF Rest
  <2> QED BY <2>1, <2>4 DEF Brought
<1>8. ASSUME NEW i \in DOMAIN a
      PROVE  /\ a[i].from \in Sources /\ a[i].from.root = t
             /\ a[i].to \in DOMAIN fs' /\ a[i].to.root \in Stamped
             /\ <<a[i].from, fs'[a[i].to]>> \in B
  <2> DEFINE q == s[i + 1]
  <2>1. /\ a[i] = q /\ i + 1 \in DOMAIN s /\ i + 1 # 1
    BY <1>1, <1>2
  <2>2. /\ q.to \in DOMAIN fs /\ q.to.root \in Stamped /\ q.from \in Sources /\ q.from.root = t
        /\ <<q.from, fs[q.to]>> \in B
    BY <2>1 DEF Brought
  <2>3. q.to # h.to
    BY <1>1, <2>1 DEF Brought, OneTo
  <2>4. q.to \in DOMAIN fs' /\ fs'[q.to] = fs[q.to]
    BY <1>6, <2>2, <2>3 DEF Changes, h
  <2> HIDE DEF q
  <2> QED BY <2>1, <2>2, <2>4
<1> QED BY <1>4, <1>5, <1>7, <1>8 DEF Brought, a

\* The entries of an archive give back, each once, the files of tree B at the places S.
Given(e)   == {<<e[i].rel, e[i].content>> : i \in DOMAIN e}
Due(B, S)  == {<<x[1].rel, x[2]>> : x \in {y \in B : y[1] \in S}}
Listed(e, B, S) == (\A i, k \in DOMAIN e : e[i].rel = e[k].rel => i = k) /\ Given(e) = Due(B, S)

LEMMA ListedOn ==
    ASSUME NEW T, NEW s \in Seq(T), NEW x \in T, NEW t, NEW S \in SUBSET Sources, \A q \in S : q.root = t,
           Listed(s, TreeOf(fs, t), S),
           NEW p \in Sources, p.root = t, p \in DOMAIN fs, p \notin S, x.rel = p.rel, x.content = fs[p]
    PROVE  Listed(Append(s, x), TreeOf(fs, t), S \cup {p})
<1> DEFINE B == TreeOf(fs, t)
           a == Append(s, x)
           n == Len(s) + 1
           c == fs[p]
<1>1. /\ DOMAIN s = 1..Len(s) /\ Len(s) \in Nat /\ DOMAIN a = 1..n /\ a[n] = x
      /\ \A i \in DOMAIN s : a[i] = s[i] /\ i \in DOMAIN a /\ i # n
      /\ \A i \in DOMAIN a : i \in DOMAIN s \/ i = n
      /\ n \in DOMAIN a
  BY Appended
<1>2. <<p, c>> \in B /\ \A y \in B : y[1] = p => y = <<p, c>>
  BY TreeFacts
<1>3. Listed(s, B, S) /\ x.content = c
  OBVIOUS
<1> HIDE DEF B, a, n, c
<1>4. Due(B, S \cup {p}) = Due(B, S) \cup {<<p.rel, c>>}
  <2>1. ASSUME NEW z \in Due(B, S \cup {p}) PROVE z \in Due(B, S) \cup {<<p.rel, c>>}
    <3>1. PICK y \in B : y[1] \in S \cup {p} /\ z = <<y[1].rel, y[2]>>
      BY DEF Due
    <3>2. CASE y[1] = p
      BY <1>2, <3>1, <3>2
    <3>3. CASE y[1] \in S
      BY <3>1, <3>3 DEF Due
    <3> QED BY <3>1, <3>2, <3>3
  <2>2. ASSUME NEW z \in Due(B, S) PROVE z \in Due(B, S \cup {p})
    BY DEF Due
  <2>3. <<p.rel, c>> \in Due(B, S \cup {p})
    <3> DEFINE y == <<p, c>>
    <3>1. y \in B /\ y[1] = p /\ y[2] = c
      BY <1>2
    <3> HIDE DEF y
    <3> QED BY <3>1 DEF Due
  <2> QED BY <2>1, <2>2, <2>3
<1>5. Given(a) = Given(s) \cup {<<p.rel, c>>}
  <2>1. ASSUME NEW z \in Given(a) PROVE z \in Given(s) \cup {<<p.rel, c>>}
    <3>1. PICK i \in DOMAIN a : z = <<a[i].rel, a[i].content>>
      BY DEF Given
    <3>2. CASE i = n
      BY <1>1, <1>3, <3>1, <3>2
    <3>3. CASE i \in DOMAIN s
      BY <1>1, <3>1, <3>3 DEF Given
    <3> QED BY <1>1, <3>2, <3>3
  <2>2. ASSUME NEW z \in Given(s) PROVE z \in Given(a)
    <3>1. PICK i \in DOMAIN s : z = <<s[i].rel, s[i].content>>
      BY DEF Given
    <3> QED BY <1>1, <3>1 DEF Given
  <2>3. <<p.rel, c>> \in Given(a)
    BY <1>1, <1>3 DEF Given
  <2> QED BY <2>1, <2>2, <2>3
<1>6. ASSUME NEW i \in DOMAIN s PROVE s[i].rel # p.rel
  <2>1. <<s[i].rel, s[i].content>> \in Due(B, S)
    BY <1>3 DEF Listed, Given
  <2>2. PICK y \in B : y[1] \in S /\ <<s[i].rel, s[i].content>> = <<y[1].rel, y[2]>>
    BY <2>1 DEF Due
  <2>3. y[1] \in S /\ y[1].rel = s[i].rel
    BY <2>2
  <2>4. /\ y[1] \in Place /\ p \in Place /\ y[1].root = t /\ p.root = t /\ y[1].k = 0 /\ p.k = 0 /\ y[1] # p
    BY <2>3, SourcesArePlaces
  <2> QED BY <2>3, <2>4, SamePlace
<1>7. \A i, k \in DOMAIN a : a[i].rel = a[k].rel => i = k
  BY <1>1, <1>3, <1>6 DEF Listed
<1> QED BY <1>3, <1>4, <1>5, <1>7 DEF Listed, a, B

LEMMA UnpackedWhole ==
    ASSUME NEW e, NEW B, NEW S, Listed(e, B, S), \A i, k \in DOMAIN e : i > k => i # k
    PROVE  Unpacked(e) = Due(B, S)
<1> DEFINE last1 == {n \in DOMAIN e : \A k \in DOMAIN e : k > n => e[k].rel # e[n].rel}
<1>1. last1 = DOMAIN e
  BY DEF Listed
<1>2. Unpacked(e) = {<<x.rel, x.content>> : x \in {e[i] : i \in last1}}
  BY DEF Unpacked
<1> HIDE DEF last1
<1>3. {<<x.rel, x.content>> : x \in {e[i] : i \in DOMAIN e}} = Given(e)
  BY DEF Given
<1> QED BY <1>1, <1>2, <1>3 DEF Listed

-----------------------------------------------------------------------------
(* What is quiet is right: an inductive invariant.                         *)

\* A job that has listed no files yet: what was confirmed is what there is.
Selecting(b, f) ==
    b.asked # {} => b.asked = {p \in Sources : p.root = b.tree /\ p \in DOMAIN f /\ Extension(p) \in b.wanted}

\* The files still to do are there.
Ahead(todo, t, f) ==
    /\ OneFrom(todo)
    /\ \A i \in DOMAIN todo :
          todo[i].from \in Sources /\ todo[i].from.root = t /\ todo[i].from \in DOMAIN f

Moving(b, f) ==
    /\ Brought(b.done, b.tree, b.before, f)
    /\ b.root \in Stamped /\ b.root[1] = b.tree
    /\ Ahead(b.todo, b.tree, f)
    /\ \A i \in DOMAIN b.todo : b.todo[i].from \notin Froms(b.done) /\ b.todo[i].to.root = b.root
    /\ b.asked # {} => b.asked = Froms(b.todo) \cup Froms(b.done)
    /\ b.at = "carry" => b.dest.root = b.root /\ b.dest \notin DOMAIN f

Undoing(b, f) ==
    /\ Brought(Reversed(b.todo), b.tree, b.before, f)
    /\ b.at = "carry" => b.dest = Head(b.todo).to

Packing(b, f) ==
    /\ b.before = TreeOf(f, b.tree)
    /\ Ahead(b.todo, b.tree, f)
    /\ \A i \in DOMAIN b.todo : b.todo[i].to.rel = RelativeTarget(b.todo[i].from, b.flat)
    /\ b.asked # {} =>
          /\ \A p \in b.asked : p.root = b.tree
          /\ Froms(b.todo) \subseteq b.asked
          /\ ~b.flat => Listed(b.packed, b.before, b.asked \ Froms(b.todo))

JobFacts(b, f) ==
    b.mode # "none" /\ b.quiet =>
        /\ b.mode # "copy"
        /\ b.at = "select" => b.mode # "undo" /\ Selecting(b, f)
        /\ b.mode = "move" => b.at \in {"select", "choose", "carry", "publish"}
        /\ b.mode = "undo" => b.at \in {"check", "choose", "carry"}
        /\ b.mode \in {"zip", "manifest"} => b.at \in {"select", "pack", "publish"}
        /\ b.mode = "move" /\ b.at \in {"choose", "carry"} => Moving(b, f)
        /\ b.mode = "undo" => Undoing(b, f)
        /\ b.at = "pack" => Packing(b, f)

ResultFacts(r, f, bk) ==
    r.quiet =>
        /\ r.mode = "move" =>
              /\ Brought(r.pairs, r.root[1], r.before, f)
              /\ r.asked # {} => Froms(r.pairs) = r.asked
        /\ r.mode # "move" => r.pairs = <<>>
        /\ r.mode \in {"zip", "manifest"} /\ ~r.flat =>
              /\ <<r.mode, r.root>> \in DOMAIN bk
              /\ r.asked # {} => Unpacked(bk[<<r.mode, r.root>>]) = Due(r.before, r.asked)

\* A quiet job is the only one, and nothing happens to files once a quiet result is there.
Sole  == \A i, j \in Jobs : Active(i) /\ Active(j) /\ job[j].quiet => i = j
Still == last.quiet \/ screen.quiet => \A j \in Jobs : Active(j) => job[j].at = "publish"

QuietInv ==
    /\ Sole /\ Still
    /\ scan.quiet => scan.found = Counted(scan.tree)
    /\ \A j \in Jobs : JobFacts(job[j], fs)
    /\ ResultFacts(last, fs, books) /\ ResultFacts(screen, fs, books)

LEMMA NobodyQuiet ==
    ASSUME \A j \in Jobs : job'[j].mode # "none" => job'[j].quiet = FALSE,
           scan'.quiet = FALSE, last'.quiet = FALSE, screen'.quiet = FALSE
    PROVE  QuietInv'
<1>1. Sole' /\ Still'
  BY DEF Sole, Still, Active
<1>2. \A j \in Jobs : JobFacts(job'[j], fs')
  BY DEF JobFacts
<1>3. ResultFacts(last', fs', books') /\ ResultFacts(screen', fs', books')
  BY DEF ResultFacts
<1> QED BY <1>1, <1>2, <1>3 DEF QuietInv

LEMMA OthersFacts ==
    ASSUME QuietInv, job \in AllJobs, NEW j \in Jobs, OthersLoud(j) \/ (Others(j) /\ fs' = fs), JobFacts(job'[j], fs')
    PROVE  \A i \in Jobs : JobFacts(job'[i], fs')
<1> SUFFICES ASSUME NEW i \in Jobs, i # j PROVE JobFacts(job'[i], fs')
  OBVIOUS
<1>1. JobFacts(job[i], fs)
  BY DEF QuietInv
<1>2. CASE Others(j) /\ fs' = fs
  BY <1>1, <1>2 DEF Others
<1>3. CASE OthersLoud(j)
  <2>1. CASE Active(i)
    <3>1. job'[i].quiet = FALSE
      BY <1>3, <2>1 DEF OthersLoud, Louder
    <3> QED BY <3>1 DEF JobFacts
  <2>2. CASE ~Active(i)
    <3>1. job'[i].mode = "none"
      BY <1>3, <2>2 DEF OthersLoud, Active
    <3> QED BY <3>1 DEF JobFacts
  <2> QED BY <2>1, <2>2
<1> QED BY <1>2, <1>3

LEMMA SoleStays ==
    ASSUME Sole, job \in AllJobs, NEW j \in Jobs, Others(j) \/ OthersLoud(j),
           job'[j].mode = "none" \/ (Active(j) /\ (job'[j].quiet => job[j].quiet))
    PROVE  Sole'
<1> SUFFICES ASSUME NEW i \in Jobs, NEW k \in Jobs, job'[i].mode # "none", job'[k].mode # "none", job'[k].quiet
             PROVE  i = k
  BY DEF Sole, Active
<1>1. Active(i)
  BY OthersActive DEF Active
<1>2. Active(k) /\ job[k].quiet
  <2>1. CASE k = j
    BY <2>1
  <2>2. CASE k # j
    <3>1. Active(k)
      BY <2>2, OthersActive
    <3>2. job'[k] = job[k] \/ job'[k].quiet = FALSE
      BY <2>2, <3>1 DEF Others, OthersLoud, Louder
    <3> QED BY <3>1, <3>2
  <2> QED BY <2>1, <2>2
<1> QED BY <1>1, <1>2 DEF Sole

LEMMA SoleStarts ==
    ASSUME job \in AllJobs, NEW j \in Jobs, OthersLoud(j), ~Active(j), job'[j].quiet => Alone
    PROVE  Sole'
<1> SUFFICES ASSUME NEW i \in Jobs, NEW k \in Jobs, job'[i].mode # "none", job'[k].mode # "none", job'[k].quiet
             PROVE  i = k
  BY DEF Sole, Active
<1>1. k = j
  <2> SUFFICES ASSUME k # j PROVE FALSE
    OBVIOUS
  <2>1. Active(k)
    BY OthersActive
  <2> QED BY <2>1 DEF OthersLoud, Louder
<1>2. i = j
  <2> SUFFICES ASSUME i # j PROVE FALSE
    OBVIOUS
  <2>1. Active(i)
    BY OthersActive
  <2> QED BY <1>1, <2>1 DEF Alone
<1> QED BY <1>1, <1>2

\* A quiet job has nobody beside it.
LEMMA QuietIsSole ==
    ASSUME QuietInv, NEW j \in Jobs, Active(j), job[j].quiet
    PROVE  \A i \in Jobs : Active(i) => i = j
BY DEF QuietInv, Sole

\* No result is quiet while a job is at work.
LEMMA WorkIsNotStill ==
    ASSUME QuietInv, NEW j \in Jobs, Active(j), job[j].at # "publish"
    PROVE  ~last.quiet /\ ~screen.quiet
BY DEF QuietInv, Still

ScanFacts == scan.quiet => scan.found = Counted(scan.tree)

LEMMA ScanStays == ASSUME QuietInv, scan'.quiet = FALSE \/ UNCHANGED <<scan, fs>> PROVE ScanFacts'
<1>1. ScanFacts
  BY DEF QuietInv, ScanFacts
<1>2. CASE scan'.quiet = FALSE
  BY <1>2 DEF ScanFacts
<1>3. CASE UNCHANGED <<scan, fs>>
  BY <1>1, <1>3 DEF ScanFacts, Counted, Exists
<1> QED BY <1>2, <1>3

LEMMA QuietParts ==
    ASSUME Sole', Still', ScanFacts', \A j \in Jobs : JobFacts(job'[j], fs'), ResultFacts(last', fs', books'),
           ResultFacts(screen', fs', books')
    PROVE  QuietInv'
BY DEF QuietInv, ScanFacts

LEMMA ScanQuiet == ASSUME QuietInv, NEW t \in Trees, ScanTree(t) PROVE QuietInv'
<1>1. UNCHANGED <<fs, kept, books, job, last, screen>>
  BY DEF ScanTree
<1>2. Sole' /\ Still'
  BY <1>1 DEF QuietInv, Sole, Still, Active
<1>3. ScanFacts'
  <2>1. scan'.found = Counted(t) /\ scan'.tree = t
    BY DEF ScanTree
  <2>2. Counted(t)' = Counted(t)
    BY <1>1 DEF Counted, Exists
  <2> QED BY <1>1, <2>1, <2>2 DEF ScanFacts, Counted, Exists
<1>4. \A j \in Jobs : JobFacts(job'[j], fs')
  BY <1>1 DEF QuietInv
<1>5. ResultFacts(last', fs', books') /\ ResultFacts(screen', fs', books')
  BY <1>1 DEF QuietInv
<1> QED BY <1>2, <1>3, <1>4, <1>5, QuietParts

LEMMA FailQuiet == ASSUME Base, QuietInv, NEW j \in Jobs, Fail(j) PROVE QuietInv'
<1>1. job \in AllJobs
  BY BaseParts DEF Parts
<1>2. scan'.quiet = FALSE /\ last'.quiet = FALSE /\ screen'.quiet = FALSE
  BY FailParts
<1>3. OthersLoud(j) /\ job'[j].quiet = FALSE
  BY <1>1, FailDoes
<1>4. \A i \in Jobs : job'[i].mode # "none" => job'[i].quiet = FALSE
  <2> SUFFICES ASSUME NEW i \in Jobs, i # j, job'[i].mode # "none" PROVE job'[i].quiet = FALSE
    BY <1>3
  <2>1. Active(i)
    BY <1>1, <1>3, OthersActive
  <2> QED BY <1>3, <2>1 DEF OthersLoud, Louder
<1> QED BY <1>2, <1>4, NobodyQuiet

LEMMA RunQuiet ==
    ASSUME Base, QuietInv, NEW j \in Jobs, NEW t \in Trees, NEW mode \in Modes, NEW flat \in BOOLEAN,
           NEW wanted \in SUBSET Exts, Run(j, t, mode, flat, wanted)
    PROVE  QuietInv'
<1>1. job \in AllJobs /\ TypeOK
  BY BaseParts DEF Parts, Base
<1>2. scan'.quiet = FALSE /\ last'.quiet = FALSE /\ screen'.quiet = FALSE
  BY RunParts
<1>3. /\ job' \in AllJobs /\ OthersLoud(j) /\ ~Active(j) /\ job'[j] \in Job
      /\ job'[j].mode = mode /\ job'[j].at = "select" /\ job'[j].tree = t /\ job'[j].wanted = wanted
      /\ job'[j].quiet => Alone /\ mode # "copy"
      /\ job'[j].asked # {} => scan.quiet /\ Alone /\ scan.tree = t /\ job'[j].asked = Impact(wanted)
  BY <1>1, RunDoes
<1>4. Sole'
  BY <1>1, <1>3, SoleStarts
<1>5. fs' = fs
  BY DEF Run, Start
<1>6. Selecting(job'[j], fs')
  <2> SUFFICES ASSUME job'[j].asked # {}
               PROVE  job'[j].asked = {p \in Sources : p.root = t /\ p \in DOMAIN fs /\ Extension(p) \in wanted}
    BY <1>3, <1>5 DEF Selecting
  <2>1. scan.quiet /\ scan.tree = t /\ job'[j].asked = Impact(wanted)
    BY <1>3
  <2>2. scan.found = {p \in Sources : p.root = t /\ p \in DOMAIN fs}
    BY <2>1 DEF QuietInv, Counted, Exists
  <2> QED BY <2>1, <2>2 DEF Impact
<1>7. JobFacts(job'[j], fs')
  BY <1>3, <1>6 DEF JobFacts, Modes
<1>8. \A i \in Jobs : JobFacts(job'[i], fs')
  BY <1>1, <1>3, <1>7, OthersFacts
<1>9. Still' /\ ResultFacts(last', fs', books') /\ ResultFacts(screen', fs', books')
  BY <1>2 DEF Still, ResultFacts
<1> QED BY <1>2, <1>4, <1>8, <1>9, ScanStays, QuietParts

LEMMA UndoRunQuiet == ASSUME Base, QuietInv, NEW j \in Jobs, UndoRun(j) PROVE QuietInv'
<1>1. job \in AllJobs /\ TypeOK
  BY BaseParts DEF Parts, Base
<1>2. scan'.quiet = FALSE /\ last'.quiet = FALSE /\ screen'.quiet = FALSE
  BY UndoRunParts
<1>3. /\ screen \in Result /\ job' \in AllJobs /\ OthersLoud(j) /\ ~Active(j) /\ job'[j] \in Job
      /\ job'[j].mode = "undo" /\ job'[j].at = "check" /\ job'[j].tree = screen.root[1]
      /\ job'[j].root = screen.root /\ job'[j].todo = Reversed(screen.pairs) /\ job'[j].asked = {}
      /\ job'[j].quiet => screen.quiet /\ Alone /\ job'[j].before = screen.before
  BY <1>1, UndoRunDoes
<1>4. Sole'
  BY <1>1, <1>3, SoleStarts
<1>5. fs' = fs /\ screen.pairs # <<>>
  BY DEF UndoRun, Start
<1>6. ASSUME job'[j].quiet PROVE Undoing(job'[j], fs')
  <2>1. screen.quiet /\ job'[j].before = screen.before
    BY <1>3, <1>6
  <2>2. Brought(screen.pairs, screen.root[1], screen.before, fs)
    BY <1>5, <2>1 DEF QuietInv, ResultFacts
  <2>3. Reversed(Reversed(screen.pairs)) = screen.pairs
    BY <1>3, ResultFields, ReversedPairs
  <2> QED BY <1>3, <1>5, <2>1, <2>2, <2>3 DEF Undoing
<1>7. JobFacts(job'[j], fs')
  BY <1>3, <1>6 DEF JobFacts
<1>8. \A i \in Jobs : JobFacts(job'[i], fs')
  BY <1>1, <1>3, <1>7, OthersFacts
<1>9. Still' /\ ResultFacts(last', fs', books') /\ ResultFacts(screen', fs', books')
  BY <1>2 DEF Still, ResultFacts
<1> QED BY <1>2, <1>4, <1>8, <1>9, ScanStays, QuietParts

\* A step of a job at work, with fs and the panel as they were and no quiet result.
LEMMA WorkQuiet ==
    ASSUME QuietInv, job \in AllJobs, NEW j \in Jobs, Active(j), job[j].at # "publish", Others(j),
           UNCHANGED <<fs, scan, last, screen>>,
           job'[j].mode = "none" \/ (job'[j].quiet => job[j].quiet), JobFacts(job'[j], fs)
    PROVE  QuietInv'
<1>1. ~last'.quiet /\ ~screen'.quiet
  BY WorkIsNotStill
<1>2. Still' /\ ResultFacts(last', fs', books') /\ ResultFacts(screen', fs', books')
  BY <1>1 DEF Still, ResultFacts
<1>3. Sole'
  BY SoleStays DEF QuietInv
<1>4. \A i \in Jobs : JobFacts(job'[i], fs')
  BY OthersFacts
<1> QED BY <1>2, <1>3, <1>4, ScanStays, QuietParts

LEMMA NothingBrought ==
    ASSUME NEW f, NEW t
    PROVE  Brought(<<>>, t, TreeOf(f, t), f) /\ Froms(<<>>) = {} /\ Listed(<<>>, TreeOf(f, t), {})
<1>1. DOMAIN <<>> = {}
  OBVIOUS
<1>2. Froms(<<>>) = {} /\ Given(<<>>) = {} /\ OneFrom(<<>>) /\ OneTo(<<>>)
  BY <1>1 DEF Froms, Given, OneFrom, OneTo
<1>3. Rest(TreeOf(f, t), {}) = TreeOf(f, t) /\ Due(TreeOf(f, t), {}) = {}
  BY DEF Rest, Due
<1> QED BY <1>1, <1>2, <1>3, TreeFacts DEF Brought, Listed

\* What a run lists is there, each file once.
LEMMA ListedAhead ==
    ASSUME NEW t \in Trees, NEW wanted, NEW m \in Listings(Matching(t, wanted)), NEW r \in Stamped, NEW flat \in BOOLEAN
    PROVE  /\ Ahead(Targets(m, r, flat), t, fs)
           /\ Froms(Targets(m, r, flat)) = Matching(t, wanted)
           /\ \A i \in DOMAIN Targets(m, r, flat) :
                 /\ Targets(m, r, flat)[i].to.root = r
                 /\ Targets(m, r, flat)[i].to.rel = RelativeTarget(Targets(m, r, flat)[i].from, flat)
<1> DEFINE todo == Targets(m, r, flat)
           S == Matching(t, wanted)
<1>1. S \subseteq Sources /\ \A p \in S : p \in Sources /\ p.root = t /\ p \in DOMAIN fs
  BY DEF Matching, Exists
<1>2. /\ m \in Seq(Sources) /\ {m[i] : i \in DOMAIN m} = S /\ \A i, k \in DOMAIN m : m[i] = m[k] => i = k
  BY <1>1, ListingFacts
<1>3. /\ DOMAIN todo = DOMAIN m
      /\ \A i \in DOMAIN m :
            todo[i].from = m[i] /\ todo[i].to.root = r /\ todo[i].to.rel = RelativeTarget(m[i], flat)
  BY <1>2, TargetPairs
<1> HIDE DEF todo, S
<1>4. Froms(todo) = S
  BY <1>2, <1>3 DEF Froms
<1>5. Ahead(todo, t, fs)
  BY <1>1, <1>2, <1>3 DEF Ahead, OneFrom
<1> QED BY <1>3, <1>4, <1>5 DEF todo, S

LEMMA SelectQuiet == ASSUME Base, QuietInv, NEW j \in Jobs, Select(j) PROVE QuietInv'
<1>1. job \in AllJobs /\ TypeOK /\ PlaceInv
  BY BaseParts DEF Parts, Base
<1> DEFINE b == job[j]
           c == job'[j]
<1>2. b \in Job /\ b.at = "select" /\ Others(j)
  BY <1>1, SelectDoes
<1>3. Active(j) /\ b.done = <<>> /\ b.packed = <<>> /\ b.tree \in Trees /\ b.mode \in Modes \cup {"undo"} /\ b.flat \in BOOLEAN
  BY <1>1, <1>2, ActiveJob, JobFields DEF PlaceInv, Placed, Active
<1>4. UNCHANGED <<fs, scan, last, screen>>
  BY DEF Select
<1>5. JobFacts(b, fs)
  BY DEF QuietInv
<1>6. CASE c = NoJob
  <2>1. c.mode = "none"
    BY <1>6 DEF NoJob
  <2>2. JobFacts(c, fs)
    BY <2>1 DEF JobFacts
  <2> QED BY <1>1, <1>2, <1>3, <1>4, <2>1, <2>2, WorkQuiet
<1>7. CASE c # NoJob
  <2>1. PICK m \in Listings(Matching(b.tree, b.wanted)), s \in Seconds :
          /\ c.mode = b.mode /\ c.tree = b.tree /\ c.flat = b.flat
          /\ c.quiet = b.quiet /\ c.asked = b.asked /\ c.done = b.done
          /\ c.packed = b.packed /\ c.at = First(b.mode) /\ c.root = <<b.tree, s>>
          /\ c.todo = Targets(m, <<b.tree, s>>, b.flat)
          /\ b.quiet => c.before = TreeNow(b.tree)
    BY <1>1, <1>7, SelectDoes
  <2>2. c.root \in Stamped /\ c.root[1] = c.tree
    BY <1>3, <2>1 DEF Stamped
  <2>3. /\ Ahead(c.todo, c.tree, fs) /\ Froms(c.todo) = Matching(b.tree, b.wanted)
        /\ \A i \in DOMAIN c.todo : c.todo[i].to.root = c.root
              /\ c.todo[i].to.rel = RelativeTarget(c.todo[i].from, c.flat)
    <3> DEFINE r == <<b.tree, s>>
               todo == Targets(m, r, b.flat)
    <3>1. r \in Stamped
      BY <2>1, <2>2
    <3> HIDE DEF r
    <3>2. /\ Ahead(todo, b.tree, fs) /\ Froms(todo) = Matching(b.tree, b.wanted)
          /\ \A i \in DOMAIN todo : todo[i].to.root = r /\ todo[i].to.rel = RelativeTarget(todo[i].from, b.flat)
      BY <1>3, <3>1, ListedAhead
    <3>3. c.todo = todo /\ c.root = r /\ c.tree = b.tree /\ c.flat = b.flat
      BY <2>1 DEF r
    <3> HIDE DEF todo, b, c
    <3> QED BY <3>2, <3>3
  <2>4. ASSUME c.quiet PROVE JobFacts(c, fs)
    <3>1. b.quiet /\ b.mode # "copy" /\ b.mode # "undo" /\ Selecting(b, fs)
      BY <1>2, <1>3, <1>5, <2>1, <2>4 DEF JobFacts, Active
    <3>2. c.before = TreeOf(fs, c.tree)
      BY <2>1, <3>1 DEF TreeNow, TreeOf
    <3>3. c.asked # {} => c.asked = Froms(c.todo)
      BY <2>1, <2>3, <3>1 DEF Selecting, Matching, Exists
    <3>4. \A p \in Froms(c.todo) : p.root = c.tree
      BY <2>1, <2>3 DEF Matching
    <3>5. c.done = <<>> /\ c.packed = <<>>
      BY <1>3, <2>1
    <3> HIDE DEF b, c
    <3>6. CASE b.mode = "move"
      <4>1. c.at = "choose" /\ c.mode = "move"
        BY <2>1, <3>6 DEF First
      <4>2. Brought(c.done, c.tree, c.before, fs) /\ Froms(c.done) = {}
        BY <3>2, <3>5, NothingBrought
      <4>3. Moving(c, fs)
        BY <2>2, <2>3, <3>3, <4>1, <4>2 DEF Moving
      <4> QED BY <4>1, <4>3 DEF JobFacts
    <3>7. CASE b.mode # "move"
      <4>1. c.at = "pack" /\ c.mode \in {"zip", "manifest"}
        BY <1>3, <2>1, <3>1, <3>7 DEF First, Modes
      <4>2. Listed(c.packed, c.before, {})
        BY <3>2, <3>5, NothingBrought
      <4>3. c.asked # {} => c.asked \ Froms(c.todo) = {}
        BY <3>3
      <4>4. Packing(c, fs)
        BY <2>3, <3>2, <3>3, <3>4, <4>2, <4>3 DEF Packing
      <4> QED BY <4>1, <4>4 DEF JobFacts
    <3> QED BY <3>6, <3>7
  <2>5. JobFacts(c, fs)
    BY <2>4 DEF JobFacts
  <2>6. c.quiet => b.quiet
    BY <2>1
  <2>7. b.at # "publish"
    BY <1>2
  <2> QED BY <1>1, <1>2, <1>3, <1>4, <2>5, <2>6, <2>7, WorkQuiet
<1> QED BY <1>6, <1>7

\* The next file of a quiet undo: it is where the run has put it, and its place is free.
LEMMA UndoNext ==
    ASSUME job \in AllJobs, QuietInv, NEW j \in Jobs, NEW place, More(j, place), job[j].mode = "undo", job[j].quiet
    PROVE  LET b == job[j]
               r == Reversed(b.todo)
           IN  /\ Undoing(b, fs) /\ b.tree \in Trees /\ r \in Seq(Pair) /\ r # <<>> /\ Brought(r, b.tree, b.before, fs)
               /\ Head(r).from = This(j).to /\ Head(r).to = This(j).from /\ Reversed(Tail(b.todo)) = Tail(r)
               /\ This(j).from \in DOMAIN fs /\ This(j).to \notin DOMAIN fs /\ This(j).to \in Place /\ This(j).to.k = 0
<1> DEFINE b == job[j]
           r == Reversed(b.todo)
           h == Head(r)
<1>1. b \in Job /\ b.todo # <<>> /\ b.todo \in Seq(Pair) /\ b.tree \in Trees /\ b.mode # "none"
  BY NextPair, JobFields
<1>2. Undoing(b, fs)
  <2>1. JobFacts(b, fs)
    BY DEF QuietInv
  <2> QED BY <1>1, <2>1 DEF JobFacts
<1>3. Brought(r, b.tree, b.before, fs)
  BY <1>2 DEF Undoing
<1>4. r \in Seq(Pair) /\ r # <<>> /\ h.from = This(j).to /\ h.to = This(j).from /\ Reversed(Tail(b.todo)) = Tail(r)
  BY <1>1, ReversedPairs, ReversedTail DEF This
<1> HIDE DEF b, r, h
<1>5. h = r[1] /\ 1 \in DOMAIN r
  BY <1>4, HeadTail DEF h
<1>6. h.from \in Sources /\ h.from.root = b.tree /\ h.to \in DOMAIN fs /\ h.from \in Froms(r)
  BY <1>3, <1>5 DEF Brought, Froms
<1>7. h.from \notin DOMAIN fs
  <2> SUFFICES ASSUME h.from \in DOMAIN fs PROVE FALSE
    OBVIOUS
  <2>1. <<h.from, fs[h.from]>> \in TreeOf(fs, b.tree)
    BY <1>6, TreeFacts
  <2> QED BY <1>3, <1>6, <2>1 DEF Brought, Rest
<1>8. This(j).to \in Place /\ This(j).to.k = 0
  BY <1>4, <1>6, SourcesArePlaces
<1> QED BY <1>1, <1>2, <1>3, <1>4, <1>6, <1>7, <1>8 DEF b, r, h

LEMMA CheckQuiet == ASSUME Base, QuietInv, NEW j \in Jobs, Check(j) PROVE QuietInv'
<1>1. job \in AllJobs
  BY BaseParts DEF Parts
<1> DEFINE b == job[j]
           c == job'[j]
<1>2. Active(j) /\ b.at = "check" /\ b \in Job /\ More(j, "check")
  BY <1>1, NextPair DEF Check
<1>3. Others(j) /\ Keeps(b, c)
  BY <1>1, CheckDoes DEF Advances
<1>4. UNCHANGED <<fs, scan, last, screen>>
  BY DEF Check
<1>5. JobFacts(c, fs)
  <2> SUFFICES ASSUME c.mode # "none", c.quiet PROVE JobFacts(c, fs)
    BY DEF JobFacts
  <2>1. b.quiet /\ b.mode = c.mode
    BY <1>3 DEF Keeps
  <2>2. JobFacts(b, fs)
    BY DEF QuietInv
  <2>3. b.mode = "undo"
    BY <1>2, <2>1, <2>2, JobFields DEF JobFacts, Active, Modes
  <2>4. Exists(This(j).from) /\ ~Exists(This(j).to) /\ Undoing(b, fs)
    BY <1>1, <1>2, <2>1, <2>3, UndoNext DEF Exists
  <2>5. c.at = "choose" /\ c.todo = b.todo
    BY <1>1, <2>4, CheckDoes DEF Advances
  <2>6. Undoing(c, fs)
    BY <1>3, <2>4, <2>5 DEF Undoing, Keeps
  <2> QED BY <2>1, <2>3, <2>5, <2>6 DEF JobFacts
<1>6. c.quiet => b.quiet
  BY <1>3 DEF Keeps
<1>7. b.at # "publish"
  BY <1>2
<1> QED BY <1>1, <1>2, <1>3, <1>4, <1>5, <1>6, <1>7, WorkQuiet

LEMMA ChooseQuiet == ASSUME Base, QuietInv, NEW j \in Jobs, Choose(j) PROVE QuietInv'
<1>1. job \in AllJobs /\ IsFiniteSet(DOMAIN fs)
  BY BaseParts DEF Parts, FilesOK
<1> DEFINE b == job[j]
           c == job'[j]
           u == UniqueDestination(This(j).to)
<1>2. Active(j) /\ b.at = "choose" /\ b \in Job /\ More(j, "choose") /\ This(j).to \in Place /\ b.todo # <<>>
  BY <1>1, NextPair DEF Choose
<1>3. Others(j) /\ Keeps(b, c) /\ c.at = "carry" /\ c.todo = b.todo /\ c.done = b.done /\ c.dest = u
  <2>1. LET d == job[j] IN Advances(j, "carry", d.todo, d.done, u, d.packed, d.heard)
    BY <1>1, ChooseDoes
  <2> HIDE DEF u
  <2> QED BY <2>1 DEF Advances
<1>4. UNCHANGED <<fs, scan, last, screen>>
  BY DEF Choose
<1>u. u.root = This(j).to.root /\ u \notin DOMAIN fs /\ (This(j).to.k = 0 /\ This(j).to \notin DOMAIN fs => u = This(j).to)
  BY <1>1, <1>2, FreeName DEF Exists
<1>5. JobFacts(c, fs)
  <2> SUFFICES ASSUME c.mode # "none", c.quiet PROVE JobFacts(c, fs)
    BY DEF JobFacts
  <2>1. b.quiet /\ b.mode = c.mode
    BY <1>3 DEF Keeps
  <2>2. JobFacts(b, fs)
    BY DEF QuietInv
  <2>3. b.mode \in {"move", "undo"}
    BY <1>2, <2>1, <2>2, JobFields DEF JobFacts, Active, Modes
  <2> HIDE DEF u
  <2>4. CASE b.mode = "undo"
    <3>1. Undoing(b, fs) /\ This(j).to \notin DOMAIN fs /\ This(j).to.k = 0
      BY <1>1, <1>2, <2>1, <2>4, UndoNext
    <3>2. c.dest = Head(c.todo).to
      BY <1>3, <1>u, <3>1 DEF This
    <3>3. Undoing(c, fs)
      BY <1>3, <3>1, <3>2 DEF Undoing, Keeps
    <3> QED BY <1>3, <2>1, <2>4, <3>3 DEF JobFacts
  <2>5. CASE b.mode = "move"
    <3>1. Moving(b, fs)
      BY <1>2, <2>1, <2>2, <2>5 DEF JobFacts, Active
    <3>2. This(j).to.root = b.root
      <4>1. b.todo \in Seq(Pair)
        BY <1>2, JobFields
      <4>2. Head(b.todo) = b.todo[1] /\ 1 \in DOMAIN b.todo
        BY <1>2, <4>1, HeadTail
      <4> QED BY <3>1, <4>2 DEF Moving, This
    <3>3. c.dest.root = c.root /\ c.dest \notin DOMAIN fs
      BY <1>3, <1>u, <3>2 DEF Keeps
    <3>4. /\ c.tree = b.tree /\ c.before = b.before /\ c.root = b.root /\ c.asked = b.asked
          /\ c.todo = b.todo /\ c.done = b.done
      BY <1>3 DEF Keeps
    <3> HIDE DEF b, c
    <3>5. Moving(c, fs)
      BY <3>1, <3>3, <3>4 DEF Moving
    <3> QED BY <1>3, <2>1, <2>5, <3>5 DEF JobFacts
  <2> QED BY <2>3, <2>4, <2>5
<1>6. c.quiet => b.quiet
  BY <1>3 DEF Keeps
<1>7. b.at # "publish"
  BY <1>2
<1> HIDE DEF u
<1> QED BY <1>1, <1>2, <1>3, <1>4, <1>5, <1>6, <1>7, WorkQuiet

LEMMA CarryQuiet == ASSUME Base, QuietInv, NEW j \in Jobs, Carry(j) PROVE QuietInv'
<1>1. job \in AllJobs
  BY BaseParts DEF Parts
<1> DEFINE b == job[j]
           c == job'[j]
<1>2. /\ Active(j) /\ b.at = "carry" /\ b \in Job /\ More(j, "carry") /\ b.todo # <<>>
      /\ This(j) \in Pair /\ This(j).from \in Place
  BY <1>1, NextPair DEF Carry
<1>3. /\ b.todo \in Seq(Pair) /\ b.done \in Seq(Pair) /\ b.tree \in Trees /\ b.dest \in Place
      /\ b.mode \in Modes \cup {"undo"} /\ b.mode # "none"
  BY <1>2, JobFields
<1>4. JobFacts(b, fs)
  BY DEF QuietInv
<1>5. ASSUME b.quiet PROVE b.mode \in {"move", "undo"}
  BY <1>2, <1>3, <1>4, <1>5 DEF JobFacts, Modes
<1>6. ASSUME OneFrom(b.todo)
      PROVE  /\ This(j) = b.todo[1] /\ 1 \in DOMAIN b.todo
             /\ \A i \in DOMAIN Tail(b.todo) : i + 1 \in DOMAIN b.todo /\ Tail(b.todo)[i] = b.todo[i + 1]
                                              /\ Tail(b.todo)[i].from # This(j).from
             /\ OneFrom(Tail(b.todo)) /\ Froms(b.todo) = Froms(Tail(b.todo)) \cup {This(j).from}
  <2> DEFINE s == b.todo
  <2>1. s \in Seq(Pair) /\ s # <<>> /\ OneFrom(s)
    BY <1>2, <1>3, <1>6
  <2> HIDE DEF s
  <2>2. /\ Head(s) = s[1] /\ 1 \in DOMAIN s
        /\ \A i \in DOMAIN Tail(s) :
              i + 1 \in DOMAIN s /\ Tail(s)[i] = s[i + 1] /\ Tail(s)[i].from # Head(s).from
        /\ OneFrom(Tail(s)) /\ Froms(s) = Froms(Tail(s)) \cup {Head(s).from}
    BY <2>1, TailFroms
  <2> QED BY <2>2 DEF s, This
<1>7. ASSUME b.quiet, b.mode = "move"
      PROVE  Moving(b, fs) /\ This(j).from \in DOMAIN fs
  <2>1. Moving(b, fs)
    BY <1>2, <1>3, <1>4, <1>7 DEF JobFacts
  <2>2. OneFrom(b.todo)
    BY <2>1 DEF Moving, Ahead
  <2> QED BY <1>6, <2>1, <2>2 DEF Moving, Ahead
<1>8. ASSUME b.quiet, b.mode = "undo" PROVE This(j).from \in DOMAIN fs
  BY <1>1, <1>2, <1>8, UndoNext
<1>9. CASE ~Exists(This(j).from)
  <2>1. Skip(j) /\ UNCHANGED <<fs, scan, last, screen>>
    BY <1>9 DEF Carry
  <2>2. Others(j) /\ Keeps(b, c)
    BY <1>1, <1>2, <2>1, SkipDoes DEF Advances
  <2>3. ~b.quiet
    BY <1>5, <1>7, <1>8, <1>9 DEF Exists
  <2>4. JobFacts(c, fs) /\ (c.quiet => b.quiet)
    BY <2>2, <2>3 DEF Keeps, JobFacts
  <2>5. b.at # "publish"
    BY <1>2
  <2> QED BY <1>1, <1>2, <2>1, <2>2, <2>4, <2>5, WorkQuiet
<1>10. CASE Exists(This(j).from)
  <2>1. scan'.quiet = FALSE /\ last'.quiet = FALSE /\ screen'.quiet = FALSE
    BY <1>10, CarryParts
  <2>2. /\ OthersLoud(j) /\ Keeps(b, c)
        /\ b.mode = "undo" => c.at = "check"
        /\ b.mode # "undo" => c.at = "choose"
        /\ c.todo = Tail(b.todo) /\ c.done = Append(b.done, Carried(j)) /\ Carried(j) \in Pair
    BY <1>1, <1>10, CarryDoes
  <2>3. c.mode = b.mode /\ c.tree = b.tree /\ c.before = b.before /\ c.root = b.root /\ c.asked = b.asked /\ c.quiet = b.quiet
    BY <2>2 DEF Keeps
  <2>4. b.mode # "copy" => Changes({This(j).from}, b.dest, fs[This(j).from])
    BY <1>10, CarryFiles
  <2>5. ASSUME b.quiet, b.mode = "move" PROVE Moving(c, fs')
    <3> DEFINE q == Carried(j)
    <3>1. q.from = This(j).from /\ q.to = b.dest /\ q \in Pair
      BY <1>2, <2>2 DEF Carried, Pair
    <3>2. Moving(b, fs) /\ This(j).from \in DOMAIN fs
      BY <1>7, <2>5
    <3>3. /\ q.from \in Sources /\ q.from.root = b.tree /\ q.from \in DOMAIN fs /\ q.from \notin Froms(b.done)
          /\ q.to \notin DOMAIN fs /\ q.to.root \in Stamped /\ Changes({q.from}, q.to, fs[q.from])
      <4>1. OneFrom(b.todo)
        BY <3>2 DEF Moving, Ahead
      <4>2. This(j) = b.todo[1] /\ 1 \in DOMAIN b.todo
        BY <1>6, <4>1
      <4> QED BY <1>2, <2>4, <2>5, <3>1, <3>2, <4>2 DEF Moving, Ahead
    <3>4. Brought(b.done, b.tree, b.before, fs)
      BY <3>2 DEF Moving
    <3> DEFINE done == b.done
               t == b.tree
               B == b.before
    <3>5. done \in Seq(Pair) /\ t \in Trees /\ Brought(done, t, B, fs) /\ q.from.root = t /\ q.from \notin Froms(done)
      BY <1>3, <3>3, <3>4
    <3> HIDE DEF q, done, t, B
    <3>6. Brought(Append(done, q), t, B, fs') /\ Froms(Append(done, q)) = Froms(done) \cup {q.from}
      BY <3>1, <3>3, <3>5, MovedOn
    <3>7. Brought(c.done, c.tree, c.before, fs') /\ Froms(c.done) = Froms(b.done) \cup {This(j).from}
      BY <2>2, <2>3, <3>1, <3>6 DEF done, t, B, q
    <3>8. OneFrom(b.todo) /\ \A i \in DOMAIN b.todo : b.todo[i].from \in Sources /\ b.todo[i].from.root = b.tree
                                /\ b.todo[i].from \in DOMAIN fs /\ b.todo[i].from \notin Froms(b.done)
                                /\ b.todo[i].to.root = b.root
      BY <3>2 DEF Moving, Ahead
    <3>9. ASSUME NEW i \in DOMAIN c.todo
          PROVE  /\ c.todo[i].from \in Sources /\ c.todo[i].from.root = c.tree /\ c.todo[i].from \in DOMAIN fs'
                 /\ c.todo[i].from \notin Froms(c.done) /\ c.todo[i].to.root = c.root
      <4> DEFINE p == b.todo[i + 1]
      <4>1. i + 1 \in DOMAIN b.todo /\ c.todo[i] = p /\ p.from # This(j).from
        BY <1>6, <2>2, <3>8
      <4>2. /\ p.from \in Sources /\ p.from.root = b.tree /\ p.from \in DOMAIN fs /\ p.from \notin Froms(b.done)
            /\ p.to.root = b.root /\ p.from # This(j).from
        BY <3>8, <4>1
      <4>3. p.from \in DOMAIN fs'
        BY <2>4, <2>5, <4>2 DEF Changes
      <4> HIDE DEF p
      <4> QED BY <2>3, <3>7, <4>1, <4>2, <4>3
    <3>10. OneFrom(c.todo)
      BY <1>6, <2>2, <3>8
    <3>11. c.asked # {} => c.asked = Froms(c.todo) \cup Froms(c.done)
      <4>1. Froms(b.todo) = Froms(c.todo) \cup {This(j).from}
        BY <1>6, <2>2, <3>8
      <4> QED BY <2>3, <3>2, <3>7, <4>1 DEF Moving
    <3>12. c.root \in Stamped /\ c.root[1] = c.tree
      BY <2>3, <3>2 DEF Moving
    <3>13. c.at # "carry"
      BY <2>2, <2>5
    <3> HIDE DEF b, c
    <3> QED BY <3>7, <3>9, <3>10, <3>11, <3>12, <3>13 DEF Moving, Ahead
  <2>6. ASSUME b.quiet, b.mode = "undo" PROVE Undoing(c, fs')
    <3> DEFINE r == Reversed(b.todo)
               t == b.tree
               B == b.before
    <3>1. /\ Undoing(b, fs) /\ r \in Seq(Pair) /\ r # <<>> /\ Brought(r, t, B, fs)
          /\ Head(r).from = This(j).to /\ Head(r).to = This(j).from /\ Reversed(Tail(b.todo)) = Tail(r)
      BY <1>1, <1>2, <2>6, UndoNext
    <3>2. b.dest = This(j).to
      BY <1>2, <3>1 DEF Undoing, This
    <3>3. Changes({Head(r).to}, Head(r).from, fs[Head(r).to])
      BY <2>4, <2>6, <3>1, <3>2
    <3>4. t \in Trees
      BY <1>3
    <3> HIDE DEF r, t, B
    <3>5. Brought(Tail(r), t, B, fs')
      BY <3>1, <3>3, <3>4, UndoneOn
    <3>6. Brought(Reversed(c.todo), c.tree, c.before, fs')
      BY <2>2, <2>3, <3>1, <3>5 DEF t, B
    <3>7. c.at # "carry"
      BY <2>2, <2>6
    <3> QED BY <3>6, <3>7 DEF Undoing
  <2>7. JobFacts(c, fs')
    <3> SUFFICES ASSUME c.mode # "none", c.quiet PROVE JobFacts(c, fs')
      BY DEF JobFacts
    <3>1. CASE b.mode = "move"
      BY <2>2, <2>3, <2>5, <3>1 DEF JobFacts
    <3>2. CASE b.mode = "undo"
      BY <2>2, <2>3, <2>6, <3>2 DEF JobFacts
    <3> QED BY <1>5, <2>3, <3>1, <3>2
  <2>8. \A i \in Jobs : JobFacts(job'[i], fs')
    BY <1>1, <2>2, <2>7, OthersFacts
  <2>9. Sole'
    BY <1>1, <1>2, <2>2, <2>3, SoleStays DEF QuietInv
  <2>10. Still' /\ ResultFacts(last', fs', books') /\ ResultFacts(screen', fs', books')
    BY <2>1 DEF Still, ResultFacts
  <2> QED BY <2>1, <2>8, <2>9, <2>10, ScanStays, QuietParts
<1> QED BY <1>9, <1>10

LEMMA PackQuiet == ASSUME Base, QuietInv, NEW j \in Jobs, Pack(j) PROVE QuietInv'
<1>1. job \in AllJobs /\ TypeOK
  BY BaseParts DEF Parts, Base
<1> DEFINE b == job[j]
           c == job'[j]
           entry == [rel |-> This(j).to.rel, content |-> fs[This(j).from]]
<1>2. Active(j) /\ b.at = "pack" /\ b \in Job /\ b.todo # <<>> /\ This(j) \in Pair /\ This(j).to \in Place
  BY <1>1, NextPair DEF Pack
<1>3. b.todo \in Seq(Pair) /\ b.packed \in Seq([rel: Rel, content: Content])
      /\ b.mode \in Modes \cup {"undo"} /\ b.mode # "none" /\ b.asked \in SUBSET Sources
  BY <1>2, JobFields
<1>4. Others(j) /\ Keeps(b, c) /\ c.at = "pack" /\ c.todo = Tail(b.todo)
      /\ (Exists(This(j).from) => c.packed = Append(b.packed, entry))
  <2>1. LET d == job[j] IN Advances(j, "pack", Tail(d.todo), d.done, d.dest,
                                    IF Exists(This(j).from) THEN Append(d.packed, entry) ELSE d.packed, d.heard)
    BY <1>1, PackDoes
  <2> HIDE DEF entry
  <2> QED BY <2>1 DEF Advances
<1>5. UNCHANGED <<fs, scan, last, screen>>
  BY DEF Pack
<1>6. /\ c.mode = b.mode /\ c.tree = b.tree /\ c.before = b.before /\ c.asked = b.asked /\ c.quiet = b.quiet
      /\ c.flat = b.flat
  BY <1>4 DEF Keeps
<1>7. ASSUME c.quiet PROVE JobFacts(c, fs)
  <2>1. JobFacts(b, fs) /\ b.quiet
    BY <1>6, <1>7 DEF QuietInv
  <2>2. b.mode \in {"zip", "manifest"} /\ Packing(b, fs)
    BY <1>2, <1>3, <2>1 DEF JobFacts, Modes
  <2> DEFINE s == b.todo
             p == s[1].from
  <2>4. OneFrom(s) /\ \A i \in DOMAIN s : s[i].from \in Sources /\ s[i].from.root = b.tree /\ s[i].from \in DOMAIN fs
                         /\ s[i].to.rel = RelativeTarget(s[i].from, b.flat)
    BY <2>2 DEF Packing, Ahead
  <2>3. /\ This(j) = s[1] /\ 1 \in DOMAIN s
        /\ \A i \in DOMAIN Tail(s) : i + 1 \in DOMAIN s /\ Tail(s)[i] = s[i + 1]
        /\ OneFrom(Tail(s)) /\ Froms(s) = Froms(Tail(s)) \cup {This(j).from} /\ This(j).from \notin Froms(Tail(s))
    <3>1. s \in Seq(Pair) /\ s # <<>> /\ This(j) = Head(s) /\ OneFrom(s)
      BY <1>2, <1>3, <2>4 DEF This
    <3> HIDE DEF s
    <3> QED BY <3>1, TailFroms
  <2>5. p \in Sources /\ p.root = b.tree /\ p \in DOMAIN fs /\ s[1].to.rel = RelativeTarget(p, b.flat)
        /\ c.todo = Tail(s) /\ c.packed = Append(b.packed, entry)
        /\ entry.content = fs[p] /\ entry.rel = s[1].to.rel
    BY <1>4, <2>3, <2>4 DEF Exists
  <2>6. entry \in [rel: Rel, content: Content]
    <3>1. This(j).to.rel \in Rel /\ fs[This(j).from] \in Content
      BY <1>1, <1>2, <2>3, <2>5 DEF Place, TypeOK
    <3> QED BY <3>1
  <2> HIDE DEF entry, s, p
  <2>7. OneFrom(c.todo)
    BY <2>3, <2>5
  <2>8. ASSUME NEW i \in DOMAIN c.todo
        PROVE  /\ c.todo[i].from \in Sources /\ c.todo[i].from.root = c.tree /\ c.todo[i].from \in DOMAIN fs
               /\ c.todo[i].to.rel = RelativeTarget(c.todo[i].from, c.flat)
    <3>1. i + 1 \in DOMAIN s /\ c.todo[i] = s[i + 1]
      BY <2>3, <2>5
    <3> QED BY <1>6, <2>4, <3>1
  <2>9. Froms(s) = Froms(c.todo) \cup {p} /\ p \notin Froms(c.todo)
    BY <2>3, <2>5 DEF p
  <2>10. ASSUME c.asked # {}
         PROVE  /\ \A q \in c.asked : q.root = c.tree
                /\ Froms(c.todo) \subseteq c.asked
                /\ ~c.flat => Listed(c.packed, c.before, c.asked \ Froms(c.todo))
    <3>1. /\ \A q \in b.asked : q.root = b.tree
          /\ Froms(s) \subseteq b.asked
          /\ ~b.flat => Listed(b.packed, b.before, b.asked \ Froms(s))
          /\ b.before = TreeOf(fs, b.tree)
      BY <1>6, <2>2, <2>10 DEF Packing, s
    <3>2. ASSUME ~b.flat PROVE Listed(c.packed, c.before, c.asked \ Froms(c.todo))
      <4> DEFINE S == b.asked \ Froms(s)
                 t == b.tree
                 T == [rel: Rel, content: Content]
                 e == b.packed
      <4>1. S \in SUBSET Sources /\ (\A q \in S : q.root = t) /\ p \notin S
        BY <1>3, <2>9, <3>1
      <4>2. Listed(e, TreeOf(fs, t), S)
        BY <3>1, <3>2
      <4>3. e \in Seq(T) /\ entry \in T
        BY <1>3, <2>6
      <4>4. entry.rel = p.rel /\ entry.content = fs[p] /\ p.root = t
        BY <2>5, <3>2 DEF RelativeTarget
      <4>5. c.asked \ Froms(c.todo) = S \cup {p}
        BY <1>6, <2>9, <3>1
      <4> HIDE DEF S, t, T, e
      <4>6. Listed(Append(e, entry), TreeOf(fs, t), S \cup {p})
        BY <2>5, <4>1, <4>2, <4>3, <4>4, ListedOn
      <4>7. c.before = TreeOf(fs, t) /\ c.packed = Append(e, entry)
        BY <1>6, <2>5, <3>1 DEF t, e
      <4> QED BY <4>5, <4>6, <4>7
    <3> QED BY <1>6, <2>9, <3>1, <3>2
  <2>11. c.before = TreeOf(fs, c.tree)
    BY <1>6, <2>2 DEF Packing
  <2>12. Packing(c, fs)
    <3> HIDE DEF b, c
    <3> QED BY <2>7, <2>8, <2>10, <2>11 DEF Packing, Ahead
  <2> QED BY <1>4, <1>6, <2>2, <2>12 DEF JobFacts
<1>8. JobFacts(c, fs)
  BY <1>7 DEF JobFacts
<1>9. b.at # "publish" /\ (c.quiet => b.quiet)
  BY <1>2, <1>6
<1> HIDE DEF entry
<1> QED BY <1>1, <1>2, <1>4, <1>5, <1>8, <1>9, WorkQuiet

\* A job that has nothing left to tell ends.
LEMMA EndQuiet ==
    ASSUME QuietInv, job \in AllJobs, NEW j \in Jobs, Others(j), job'[j] = NoJob,
           UNCHANGED <<fs, scan>>, ResultFacts(last', fs', books'), ResultFacts(screen', fs', books'),
           last'.quiet \/ screen'.quiet => last.quiet \/ screen.quiet \/ (Active(j) /\ job[j].quiet)
    PROVE  QuietInv'
<1>1. job'[j].mode = "none" /\ JobFacts(job'[j], fs')
  BY DEF NoJob, JobFacts
<1>2. Sole'
  BY <1>1, SoleStays DEF QuietInv
<1>3. \A i \in Jobs : JobFacts(job'[i], fs')
  BY <1>1, OthersFacts
<1>4. Still'
  <2> SUFFICES ASSUME last'.quiet \/ screen'.quiet, NEW i \in Jobs, job'[i].mode # "none"
               PROVE  job'[i].at = "publish"
    BY DEF Still, Active
  <2>1. i # j
    BY <1>1
  <2>2. Active(i) /\ job'[i].at = job[i].at
    BY <2>1, OthersActive
  <2>3. CASE last.quiet \/ screen.quiet
    BY <2>2, <2>3 DEF QuietInv, Still
  <2>4. CASE Active(j) /\ job[j].quiet
    BY <2>1, <2>2, <2>4, QuietIsSole
  <2> QED BY <2>3, <2>4
<1> QED BY <1>2, <1>3, <1>4, ScanStays, QuietParts

LEMMA LetGoQuiet == ASSUME Base, QuietInv, NEW j \in Jobs, LetGo(j) PROVE QuietInv'
<1>1. job \in AllJobs
  BY BaseParts DEF Parts
<1> DEFINE b == job[j]
           c == job'[j]
<1>2. Active(j) /\ b \in Job /\ Others(j) /\ UNCHANGED <<fs, books, scan, last, screen>>
  BY <1>1, LetGoDoes DEF LetGo
<1>3. CASE b.at = "publish"
  <2>1. c = NoJob
    BY <1>1, <1>3, LetGoDoes
  <2>2. ResultFacts(last', fs', books') /\ ResultFacts(screen', fs', books')
    BY <1>2 DEF QuietInv
  <2>3. last' = last /\ screen' = screen
    BY <1>2
  <2> QED BY <1>1, <1>2, <2>1, <2>2, <2>3, EndQuiet
<1>4. CASE b.at # "publish"
  <2>1. Keeps(b, c) /\ c.at = b.at /\ c.todo = b.todo /\ c.done = b.done /\ c.dest = b.dest /\ c.packed = b.packed
    BY <1>1, <1>4, LetGoDoes DEF Advances
  <2>2. /\ c.mode = b.mode /\ c.tree = b.tree /\ c.flat = b.flat /\ c.wanted = b.wanted /\ c.root = b.root
        /\ c.quiet = b.quiet /\ c.before = b.before /\ c.asked = b.asked
    BY <2>1 DEF Keeps
  <2>3. JobFacts(b, fs)
    BY DEF QuietInv
  <2>4. JobFacts(c, fs)
    <3> HIDE DEF b, c
    <3>1. (Selecting(b, fs) => Selecting(c, fs)) /\ (Undoing(b, fs) => Undoing(c, fs))
      BY <2>1, <2>2 DEF Selecting, Undoing
    <3>2. Moving(b, fs) => Moving(c, fs)
      BY <2>1, <2>2 DEF Moving
    <3>3. Packing(b, fs) => Packing(c, fs)
      BY <2>1, <2>2 DEF Packing
    <3> QED BY <2>1, <2>2, <2>3, <3>1, <3>2, <3>3 DEF JobFacts
  <2> QED BY <1>1, <1>2, <1>4, <2>2, <2>4, WorkQuiet
<1> QED BY <1>3, <1>4

LEMMA PublishQuiet == ASSUME Base, QuietInv, NEW j \in Jobs, Publish(j) PROVE QuietInv'
<1>1. job \in AllJobs /\ TypeOK
  BY BaseParts DEF Parts, Base
<1>2. Others(j) /\ job'[j] = NoJob /\ (screen' = last \/ screen' = screen)
  BY <1>1, PublishDoes
<1>3. UNCHANGED <<fs, books, scan, last>>
  BY DEF Publish
<1>4. ResultFacts(last', fs', books') /\ ResultFacts(screen', fs', books')
  BY <1>2, <1>3 DEF QuietInv
<1>5. last'.quiet \/ screen'.quiet => last.quiet \/ screen.quiet
  BY <1>2, <1>3
<1> QED BY <1>1, <1>2, <1>3, <1>4, <1>5, EndQuiet

LEMMA ResultOfFields ==
    ASSUME NEW j \in Jobs
    PROVE  /\ ResultOf(j).mode = job[j].mode /\ ResultOf(j).flat = job[j].flat /\ ResultOf(j).root = job[j].root
           /\ ResultOf(j).quiet = job[j].quiet /\ ResultOf(j).before = job[j].before /\ ResultOf(j).asked = job[j].asked
           /\ job[j].mode = "move" => ResultOf(j).pairs = job[j].done
           /\ job[j].mode # "move" => ResultOf(j).pairs = <<>>
BY DEF ResultOf

LEMMA FinishUndoQuiet == ASSUME Base, QuietInv, NEW j \in Jobs, FinishUndo(j) PROVE QuietInv'
<1>1. job \in AllJobs /\ TypeOK /\ PlaceInv
  BY BaseParts DEF Parts, Base
<1>2. /\ Active(j) /\ job[j].mode = "undo" /\ Others(j) /\ job'[j] = NoJob
      /\ (last' = ResultOf(j) /\ screen' = ResultOf(j)) \/ (last' = last /\ screen' = screen)
  BY <1>1, FinishUndoDoes
<1>3. UNCHANGED <<fs, books, scan>>
  BY DEF FinishUndo
<1> DEFINE r == ResultOf(j)
<1>4. r.mode = "undo" /\ r.pairs = <<>> /\ r.quiet = job[j].quiet
  BY <1>2, ResultOfFields
<1> HIDE DEF r
<1>5. ResultFacts(r, fs, books)
  BY <1>4 DEF ResultFacts
<1>6. ResultFacts(last', fs', books') /\ ResultFacts(screen', fs', books')
  <2>1. ResultFacts(last, fs, books) /\ ResultFacts(screen, fs, books)
    BY DEF QuietInv
  <2> QED BY <1>2, <1>3, <1>5, <2>1 DEF r
<1>7. last'.quiet \/ screen'.quiet => last.quiet \/ screen.quiet \/ (Active(j) /\ job[j].quiet)
  <2>1. CASE last' = r /\ screen' = r
    BY <1>2, <1>4, <2>1
  <2>2. CASE last' = last /\ screen' = screen
    BY <2>2
  <2> QED BY <1>2, <2>1, <2>2 DEF r
<1> QED BY <1>1, <1>2, <1>3, <1>6, <1>7, EndQuiet

LEMMA FinishQuiet == ASSUME Base, QuietInv, NEW j \in Jobs, Finish(j) PROVE QuietInv'
<1>1. job \in AllJobs /\ TypeOK /\ PlaceInv
  BY BaseParts DEF Parts, Base
<1> DEFINE b == job[j]
           c == job'[j]
           r == ResultOf(j)
<1>2. /\ b \in Job /\ b.at \in {"choose", "pack", "check"} /\ b.todo = <<>> /\ b.mode # "undo" /\ Others(j)
      /\ (c = NoJob /\ last' = last)
         \/ (Keeps(b, c) /\ c.at = "publish" /\ last' = r)
  <2>1. /\ b \in Job /\ b.at \in {"choose", "pack", "check"} /\ b.todo = <<>> /\ b.mode # "undo" /\ Others(j)
        /\ IF b.heard
           THEN Advances(j, "publish", b.todo, b.done, b.dest, b.packed, b.heard) /\ last' = ResultOf(j)
           ELSE job'[j] = NoJob /\ last' = last
    BY <1>1, FinishDoes
  <2> QED BY <2>1 DEF Advances
<1>3. Active(j) /\ b.at # "publish" /\ b.mode \in Modes
  BY <1>1, <1>2, ActiveJob, JobFields
<1>4. UNCHANGED <<fs, scan, screen>>
  BY DEF Finish
<1>5. CASE c = NoJob /\ last' = last
  <2>1. c.mode = "none" /\ JobFacts(c, fs)
    BY <1>5 DEF NoJob, JobFacts
  <2> QED BY <1>1, <1>2, <1>3, <1>4, <1>5, <2>1, WorkQuiet
<1>6. CASE Keeps(b, c) /\ c.at = "publish" /\ last' = r
  <2>1. /\ r.mode = b.mode /\ r.flat = b.flat /\ r.root = b.root /\ r.quiet = b.quiet /\ r.before = b.before
        /\ r.asked = b.asked /\ (b.mode = "move" => r.pairs = b.done) /\ (b.mode # "move" => r.pairs = <<>>)
    BY ResultOfFields
  <2>2. Froms(b.todo) = {}
    BY <1>2 DEF Froms
  <2>3. ASSUME b.quiet PROVE ResultFacts(r, fs, books')
    <3>1. JobFacts(b, fs)
      BY DEF QuietInv
    <3> HIDE DEF r
    <3>2. CASE b.mode = "move"
      <4>1. Moving(b, fs)
        BY <1>2, <1>3, <2>3, <3>1, <3>2 DEF JobFacts, Active
      <4>2. Brought(b.done, b.root[1], b.before, fs) /\ (b.asked # {} => Froms(b.done) = b.asked)
        BY <2>2, <4>1 DEF Moving
      <4> HIDE DEF b
      <4> QED BY <2>1, <3>2, <4>2 DEF ResultFacts
    <3>3. CASE b.mode \in {"zip", "manifest"}
      <4>1. b.at = "pack" /\ Packing(b, fs)
        BY <1>2, <1>3, <2>3, <3>1, <3>3 DEF JobFacts, Active
      <4>2. books' = With(books, <<b.mode, b.root>>, b.packed)
        BY <3>3 DEF Finish, Book
      <4>3. <<b.mode, b.root>> \in DOMAIN books' /\ books'[<<b.mode, b.root>>] = b.packed
        BY <4>2 DEF With
      <4>4. ASSUME b.asked # {}, ~b.flat PROVE Unpacked(b.packed) = Due(b.before, b.asked)
        <5>1. Listed(b.packed, b.before, b.asked \ Froms(b.todo))
          BY <4>1, <4>4 DEF Packing
        <5>2. Listed(b.packed, b.before, b.asked)
          BY <2>2, <5>1
        <5>3. \A i, k \in DOMAIN b.packed : i > k => i # k
          <6>1. b.packed \in Seq([rel: Rel, content: Content])
            BY <1>2, JobFields
          <6>2. DOMAIN b.packed \subseteq Nat
            BY <6>1
          <6> QED BY <6>2
        <5> QED BY <5>2, <5>3, UnpackedWhole
      <4> HIDE DEF b
      <4> QED BY <2>1, <3>3, <4>3, <4>4 DEF ResultFacts
    <3> QED BY <1>3, <2>3, <3>1, <3>2, <3>3 DEF JobFacts, Active, Modes
  <2>4. ResultFacts(last', fs', books')
    <3>1. CASE b.quiet
      BY <1>4, <1>6, <2>3, <3>1
    <3>2. CASE ~b.quiet
      <4> HIDE DEF r
      <4> QED BY <1>6, <2>1, <3>2 DEF ResultFacts
    <3> QED BY <3>1, <3>2
  <2>5. ~screen'.quiet
    BY <1>3, <1>4, WorkIsNotStill
  <2>6. ResultFacts(screen', fs', books')
    BY <2>5 DEF ResultFacts
  <2>7. c.quiet = b.quiet /\ c.mode = b.mode
    BY <1>6 DEF Keeps
  <2>8. Sole'
    BY <1>1, <1>2, <1>3, <2>7, SoleStays DEF QuietInv
  <2>9. Still'
    <3> SUFFICES ASSUME last'.quiet, NEW i \in Jobs, job'[i].mode # "none" PROVE job'[i].at = "publish"
      BY <2>5 DEF Still, Active
    <3>1. b.quiet
      BY <1>6, <2>1
    <3>2. i = j
      <4> SUFFICES ASSUME i # j PROVE FALSE
        OBVIOUS
      <4>1. Active(i)
        BY <1>1, <1>2, OthersActive
      <4> QED BY <1>3, <3>1, <4>1, QuietIsSole
    <3> QED BY <1>6, <3>2
  <2>10. \A i \in Jobs : JobFacts(job'[i], fs')
    <3>1. JobFacts(c, fs')
      <4>1. b.quiet => b.mode # "copy"
        BY <1>3 DEF QuietInv, JobFacts, Active
      <4> QED BY <1>2, <1>6, <2>7, <4>1 DEF JobFacts
    <3> QED BY <1>1, <1>2, <1>4, <3>1, OthersFacts
  <2> QED BY <1>4, <2>4, <2>6, <2>8, <2>9, <2>10, ScanStays, QuietParts
<1> QED BY <1>2, <1>5, <1>6

LEMMA QuietStep == Base /\ QuietInv /\ [Next]_vars => QuietInv'
<1> SUFFICES ASSUME Base, QuietInv, [Next]_vars PROVE QuietInv'
  OBVIOUS
<1>1. CASE UNCHANGED vars
  <2>1. UNCHANGED <<fs, books, scan, job, last, screen>>
    BY <1>1 DEF vars
  <2>2. Sole' /\ Still' /\ ScanFacts'
    BY <2>1, ScanStays DEF QuietInv, Sole, Still, Active
  <2>3. /\ \A j \in Jobs : JobFacts(job'[j], fs')
        /\ ResultFacts(last', fs', books') /\ ResultFacts(screen', fs', books')
    BY <2>1 DEF QuietInv
  <2> QED BY <2>2, <2>3, QuietParts
<1>2. CASE Next
  <2>1. ASSUME NEW p \in Sources, UserCreates(p) \/ UserDeletes(p) PROVE QuietInv'
    BY <2>1, UsersParts, NobodyQuiet
  <2>2. ASSUME NEW t \in Trees, ScanTree(t) PROVE QuietInv'
    BY <2>2, ScanQuiet
  <2>3. ASSUME NEW j \in Jobs, NEW t \in Trees, NEW mode \in Modes, NEW flat \in BOOLEAN, NEW wanted \in SUBSET Exts,
               Run(j, t, mode, flat, wanted)
        PROVE  QuietInv'
    BY <2>3, RunQuiet
  <2>4. ASSUME NEW j \in Jobs,
               UndoRun(j) \/ Select(j) \/ Check(j) \/ Choose(j) \/ Carry(j) \/ Pack(j) \/ Fail(j)
               \/ LetGo(j) \/ Finish(j) \/ Publish(j) \/ FinishUndo(j)
        PROVE  QuietInv'
    BY <2>4, UndoRunQuiet, SelectQuiet, CheckQuiet, ChooseQuiet, CarryQuiet, PackQuiet, FailQuiet, LetGoQuiet,
       FinishQuiet, PublishQuiet, FinishUndoQuiet
  <2> QED BY <1>2, <2>1, <2>2, <2>3, <2>4 DEF Next, Step, Exts
<1> QED BY <1>1, <1>2

LEMMA InitQuiet == Init => QuietInv
BY DEF Init, QuietInv, Sole, Still, Active, NoJob, NoScan, NoResult, JobFacts, ResultFacts

LEMMA SpecQuiet == Spec => [](Base /\ QuietInv)
<1>1. Init => Base /\ QuietInv
  BY InitBase, InitQuiet
<1>2. (Base /\ QuietInv) /\ [Next]_vars => (Base /\ QuietInv)'
  BY BaseStep, QuietStep
<1> QED BY <1>1, <1>2, PTL DEF Spec

\* An undo that nothing has come between ends with the tree as the run has found
\* it, for any files and types, files of one name in a flat folder included:
\* each file's old place has stayed free, and what is left of the tree with what
\* is still to come back always makes up the tree of before.
THEOREM UndoBringsBack == Spec => []RoundTrip
<1>1. Base /\ QuietInv => RoundTrip
  <2> SUFFICES ASSUME Base, QuietInv, NEW j \in Jobs, Active(j), job[j].mode = "undo", job[j].quiet, job[j].todo = <<>>
               PROVE  TreeNow(job[j].tree) = job[j].before
    BY DEF RoundTrip
  <2>1. Undoing(job[j], fs)
    BY DEF QuietInv, JobFacts, Active
  <2>2. Reversed(<<>>) = <<>>
    <3>1. <<>> \in Seq(Pair) /\ DOMAIN <<>> = {}
      OBVIOUS
    <3>2. Reversed(<<>>) \in Seq(Pair) /\ DOMAIN Reversed(<<>>) = {}
      BY <3>1, ReversedPairs
    <3> QED BY <3>2
  <2>3. Froms(<<>>) = {}
    BY NothingBrought
  <2>4. TreeOf(fs, job[j].tree) = Rest(job[j].before, {})
    BY <2>1, <2>2, <2>3 DEF Undoing, Brought
  <2> QED BY <2>4 DEF TreeNow, TreeOf, Rest
<1> QED BY <1>1, SpecQuiet, PTL

\* The Undo that a Move run offers is of the files that were confirmed, each
\* with what it held, if nothing has come between the scan and the result.
THEOREM MovesWhatWasConfirmed == Spec => []MovesAsConfirmed
<1>1. Base /\ QuietInv => MovesAsConfirmed
  <2> SUFFICES ASSUME Base, QuietInv, screen.mode = "move", screen.quiet, screen.asked # {}
               PROVE  /\ {p.from : p \in ToSet(screen.pairs)} = screen.asked
                      /\ \A p \in ToSet(screen.pairs) : <<p.from, fs[p.to]>> \in screen.before
    BY DEF MovesAsConfirmed
  <2>1. Brought(screen.pairs, screen.root[1], screen.before, fs) /\ Froms(screen.pairs) = screen.asked
    BY DEF QuietInv, ResultFacts
  <2>2. {p.from : p \in ToSet(screen.pairs)} = Froms(screen.pairs)
    BY DEF Froms, ToSet
  <2> QED BY <2>1, <2>2 DEF Brought, ToSet
<1> QED BY <1>1, SpecQuiet, PTL

\* What is shown of an undisturbed archive is there, and unpacking it gives back
\* the confirmed files of the tree, each in its folder, and nothing else.
THEOREM ArchivesAreWhole == Spec => []ArchiveIsWhole
<1>1. Base /\ QuietInv => ArchiveIsWhole
  <2> SUFFICES ASSUME Base, QuietInv, screen.mode \in {"zip", "manifest"}, screen.quiet, ~screen.flat
               PROVE  \E b \in DOMAIN books : b = <<screen.mode, screen.root>> /\
                        (screen.asked # {} =>
                          Unpacked(books[b]) = {<<x[1].rel, x[2]>> : x \in {y \in screen.before : y[1] \in screen.asked}})
    BY DEF ArchiveIsWhole
  <2> DEFINE b == <<screen.mode, screen.root>>
  <2>1. b \in DOMAIN books /\ (screen.asked # {} => Unpacked(books[b]) = Due(screen.before, screen.asked))
    BY DEF QuietInv, ResultFacts
  <2> QED BY <2>1 DEF Due
<1> QED BY <1>1, SpecQuiet, PTL
=============================================================================
