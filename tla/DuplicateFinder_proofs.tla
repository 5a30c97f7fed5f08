---------------------- MODULE DuplicateFinder_proofs ----------------------
(***************************************************************************)
(* Proofs about DuplicateFinder, for any tree, contents, sizes and digests *)
(* and any changes others make: the groups of a scan are right if nothing  *)
(* has changed, and, in a tree without symbolic links, one copy of what a  *)
(* resolve recycles stays and a resolve leaves no second copy behind.      *)
(***************************************************************************)
EXTENDS DuplicateFinder, FiniteSetTheorems, TLAPS

-----------------------------------------------------------------------------
(* Types.                                                                  *)

LEMMA ReadsFile ==
    ASSUME node \in [Paths -> Files \cup Links \cup {Gone}], NEW p \in Paths, Exists(p)
    PROVE  Read(p) \in Files
<1>1. Read(p).kind = "file"
  BY DEF Exists
<1>2. \A q \in Paths : node[q].kind = "file" => node[q] \in Files
  BY DEF Links, Gone
<1>3. CASE node[p].kind = "link"
  <2>1. node[p] \in Links
    BY <1>3 DEF Files, Gone
  <2>2. node[p].to \in Paths
    BY <2>1 DEF Links
  <2> QED BY <1>1, <1>2, <1>3, <2>2 DEF Read
<1>4. CASE node[p].kind # "link"
  BY <1>1, <1>2, <1>4 DEF Read
<1> QED BY <1>3, <1>4

LEMMA NoticedScan ==
    ASSUME scan = NoScan \/ scan \in Scan
    PROVE  /\ scan = NoScan => Noticed(scan) = NoScan
           /\ scan \in Scan =>
                 /\ Noticed(scan) \in Scan
                 /\ Noticed(scan).quiet = FALSE /\ Noticed(scan).phase = scan.phase
                 /\ Noticed(scan).todo = scan.todo /\ Noticed(scan).sized = scan.sized
                 /\ Noticed(scan).hashed = scan.hashed /\ Noticed(scan).listed = scan.listed
BY DEF Noticed, NoScan, Scan

LEMMA NoScanIsNone == NoScan \notin Scan /\ NoRun \notin Run
BY DEF NoScan, Scan, NoRun, Run

LEMMA InitType == Init => TypeOK
<1> SUFFICES ASSUME Init PROVE TypeOK
  OBVIOUS
<1>1. node \in [Paths -> Files \cup Links \cup {Gone}]
  <2>1. 0 \in Times
    BY DuplicateFinderAssumption DEF Times
  <2>2. [kind: {"file"}, data: Contents, mtime: {0}] \subseteq Files
    BY <2>1 DEF Files
  <2> QED BY <2>2 DEF Init
<1>2. left \in 0..Upsets
  BY DuplicateFinderAssumption DEF Init
<1>3. screen \in [groups: SUBSET Group, fresh: BOOLEAN]
  BY DEF Init
<1> QED BY <1>1, <1>2, <1>3 DEF Init, TypeOK

LEMMA UpsetType ==
    ASSUME TypeOK, Upset
    PROVE  /\ left' \in 0..Upsets /\ left \in Nat /\ left > 0
           /\ scan' = NoScan \/ scan' \in Scan
           /\ screen' \in [groups: SUBSET Group, fresh: BOOLEAN]
           /\ run' = NoRun \/ run' \in Run
<1>1. left' \in 0..Upsets /\ left \in Nat /\ left > 0
  BY DuplicateFinderAssumption DEF TypeOK, Upset
<1>2. scan' = NoScan \/ scan' \in Scan
  BY NoticedScan DEF TypeOK, Upset
<1>3. screen' \in [groups: SUBSET Group, fresh: BOOLEAN]
  BY DEF TypeOK, Upset
<1>4. run' = NoRun \/ run' \in Run
  <2>1. CASE run = NoRun
    BY <2>1 DEF Upset
  <2>2. CASE run \in Run
    <3>1. [run EXCEPT !.quiet = FALSE, !.fresh = FALSE] \in Run
      BY <2>2 DEF Run
    <3> QED BY <3>1 DEF Upset
  <2> QED BY <2>1, <2>2 DEF TypeOK
<1> QED BY <1>1, <1>2, <1>3, <1>4

\* The groups a scan has found.
LEMMA GroupsType ==
    ASSUME NEW listed, listed \in SUBSET [path: Paths, digest: Digests, size: Sizes, mtime: Times]
    PROVE  Groups(listed) \in SUBSET Group
<1> SUFFICES ASSUME NEW e \in listed
             PROVE  [digest |-> e.digest, size |-> e.size,
                     files |-> {[path |-> f.path, mtime |-> f.mtime] :
                                  f \in {x \in listed : x.digest = e.digest /\ x.size = e.size}}] \in Group
  BY DEF Groups
<1>1. {[path |-> f.path, mtime |-> f.mtime] :
         f \in {x \in listed : x.digest = e.digest /\ x.size = e.size}} \in SUBSET Entry
  BY DEF Entry
<1>2. e.digest \in Digests /\ e.size \in Sizes
  OBVIOUS
<1> QED BY <1>1, <1>2 DEF Group

LEMMA ScanType ==
    ASSUME TypeOK,
           \/ ScanStart \/ HashStart \/ StatStart
           \/ \E p \in Paths : SizeOne(p) \/ HashOne(p) \/ StatOne(p)
    PROVE  scan' \in Scan
<1>1. scan = NoScan \/ scan \in Scan
  BY DEF TypeOK
<1>2. CASE ScanStart
  <2>1. {p \in Paths : Exists(p)} \in SUBSET Paths
    OBVIOUS
  <2> QED BY <1>2, <2>1 DEF ScanStart, Scan
<1>3. CASE HashStart
  <2>1. scan \in Scan
    BY <1>1, <1>3 DEF HashStart, NoScan
  <2>2. Candidates(scan.sized) \in SUBSET Paths
    BY <2>1 DEF Candidates, Scan
  <2> QED BY <1>3, <2>1, <2>2 DEF HashStart, Scan
<1>4. CASE StatStart
  <2>1. scan \in Scan
    BY <1>1, <1>4 DEF StatStart, NoScan
  <2>2. {h.path : h \in scan.hashed} \in SUBSET Paths
    BY <2>1 DEF Scan
  <2> QED BY <1>4, <2>1, <2>2 DEF StatStart, Scan
<1>5. ASSUME NEW p \in Paths, SizeOne(p) PROVE scan' \in Scan
  <2>0. scan.phase # "none"
    BY <1>5 DEF SizeOne, Reads
  <2>1. scan \in Scan
    BY <1>1, <2>0 DEF NoScan
  <2> DEFINE new == IF Exists(p) THEN {[path |-> p, size |-> Size[Read(p).data]]} ELSE {}
  <2>2. new \in SUBSET [path: Paths, size: Sizes]
    <3>1. Exists(p) => Size[Read(p).data] \in Sizes
      BY ReadsFile DEF TypeOK, Files, Sizes
    <3> QED BY <3>1
  <2>3. scan' = [scan EXCEPT !.todo = @ \ {p}, !.sized = @ \cup new]
    BY <1>5 DEF SizeOne
  <2> HIDE DEF new
  <2> QED BY <2>1, <2>2, <2>3 DEF Scan
<1>6. ASSUME NEW p \in Paths, HashOne(p) PROVE scan' \in Scan
  <2>0. scan.phase # "none"
    BY <1>6 DEF HashOne, Reads
  <2>1. scan \in Scan
    BY <1>1, <2>0 DEF NoScan
  <2> DEFINE new == IF Exists(p) THEN {[path |-> p, digest |-> Digest[Read(p).data]]} ELSE {}
  <2>2. new \in SUBSET [path: Paths, digest: Digests]
    <3>1. Exists(p) => Digest[Read(p).data] \in Digests
      BY ReadsFile DEF TypeOK, Files, Digests
    <3> QED BY <3>1
  <2>3. scan' = [scan EXCEPT !.todo = @ \ {p}, !.hashed = @ \cup new]
    BY <1>6 DEF HashOne
  <2> HIDE DEF new
  <2> QED BY <2>1, <2>2, <2>3 DEF Scan
<1>7. ASSUME NEW p \in Paths, StatOne(p) PROVE scan' \in Scan
  <2>0. scan.phase # "none"
    BY <1>7 DEF StatOne, Reads
  <2>1. scan \in Scan
    BY <1>1, <2>0 DEF NoScan
  <2> DEFINE new == {[path |-> p, digest |-> h.digest, size |-> Size[Read(p).data], mtime |-> Read(p).mtime] :
                        h \in {x \in scan.hashed : x.path = p /\ Exists(p)}}
  <2>2. new \in SUBSET [path: Paths, digest: Digests, size: Sizes, mtime: Times]
    <3>1. Exists(p) => Size[Read(p).data] \in Sizes /\ Read(p).mtime \in Times
      BY ReadsFile DEF TypeOK, Files, Sizes
    <3>2. \A h \in scan.hashed : h.digest \in Digests
      BY <2>1 DEF Scan
    <3> QED BY <3>1, <3>2
  <2>3. scan' = [scan EXCEPT !.todo = @ \ {p}, !.listed = @ \cup new]
    BY <1>7 DEF StatOne
  <2> HIDE DEF new
  <2> QED BY <2>1, <2>2, <2>3 DEF Scan
<1> QED BY <1>2, <1>3, <1>4, <1>5, <1>6, <1>7

LEMMA PairsType ==
    ASSUME NEW g \in Group, NEW keep \in Paths \cup {NoPath}
    PROVE  Pairs(g, keep) \subseteq Pair
<1>1. \A e \in g.files : e.path \in Paths
  BY DEF Group, Entry
<1> QED BY <1>1 DEF Pairs, Pair

\* What Confirm chooses.
Chosen(keeper) ==
    /\ keeper \in [run.groups -> Paths \cup {NoPath}]
    /\ \E strategy \in {"newest", "oldest", "manual"} : \A g \in run.groups : keeper[g] \in Keeper(g, strategy)
    /\ run' = [run EXCEPT !.at = "plan", !.quiet = TRUE,
                          !.keepers = {keeper[g] : g \in run.groups} \ {NoPath},
                          !.todo = UNION {Pairs(g, keeper[g]) : g \in run.groups}]

LEMMA ConfirmChooses == Confirm => \E keeper : Chosen(keeper)
<1> SUFFICES ASSUME Confirm PROVE \E keeper : Chosen(keeper)
  OBVIOUS
<1>1. PICK strategy \in {"newest", "oldest", "manual"}, keeper \in [run.groups -> Paths \cup {NoPath}] :
          /\ \A g \in run.groups : keeper[g] \in Keeper(g, strategy)
          /\ run' = [run EXCEPT !.at = "plan", !.quiet = TRUE,
                                !.keepers = {keeper[g] : g \in run.groups} \ {NoPath},
                                !.todo = UNION {Pairs(g, keeper[g]) : g \in run.groups}]
  BY DEF Confirm
<1>2. Chosen(keeper)
  BY <1>1, Zenon DEF Chosen
<1> QED BY <1>2

LEMMA ConfirmSets ==
    ASSUME TypeOK, run \in Run, NEW keeper, Chosen(keeper)
    PROVE  /\ run' \in Run
           /\ run'.at = "plan" /\ run'.quiet = TRUE /\ run'.fresh = run.fresh
           /\ run'.groups = run.groups /\ run'.doomed = run.doomed
           /\ run'.keepers = {keeper[g] : g \in run.groups} \ {NoPath}
           /\ run'.todo = UNION {Pairs(g, keeper[g]) : g \in run.groups}
<1> DEFINE K == {keeper[g] : g \in run.groups} \ {NoPath}
           U == UNION {Pairs(g, keeper[g]) : g \in run.groups}
<1>1. run.groups \subseteq Group
  BY DEF Run
<1>2. K \in SUBSET Paths
  BY DEF Chosen
<1>3. U \in SUBSET Pair
  BY <1>1, PairsType DEF Chosen
<1>4. run' = [run EXCEPT !.at = "plan", !.quiet = TRUE, !.keepers = K, !.todo = U]
  BY DEF Chosen
<1> HIDE DEF K, U
<1>5. /\ run' \in Run
      /\ run'.at = "plan" /\ run'.quiet = TRUE /\ run'.fresh = run.fresh
      /\ run'.groups = run.groups /\ run'.doomed = run.doomed
      /\ run'.keepers = K /\ run'.todo = U
  BY <1>2, <1>3, <1>4 DEF Run
<1> QED BY <1>5 DEF K, U

LEMMA RunType ==
    ASSUME TypeOK,
           \/ Click \/ Dismiss \/ Confirm \/ Compare \/ PlanDone \/ Interrupt \/ Finish
           \/ \E p \in Paths : RecycleOne(p) \/ SkipOne(p)
    PROVE  run' = NoRun \/ run' \in Run
<1>1. run = NoRun \/ run \in Run
  BY DEF TypeOK
<1>2. run.at # "off" => run \in Run
  BY <1>1 DEF NoRun
<1>3. CASE Click
  <2>1. PICK chosen \in (SUBSET screen.groups) \ {{}} :
          run' = [at |-> "dialog", groups |-> chosen, keepers |-> {}, todo |-> {}, doomed |-> {},
                  quiet |-> FALSE, fresh |-> screen.fresh]
    BY <1>3 DEF Click
  <2>2. chosen \in SUBSET Group /\ screen.fresh \in BOOLEAN
    BY DEF TypeOK
  <2> QED BY <2>1, <2>2 DEF Run
<1>4. CASE Dismiss \/ Interrupt \/ Finish
  BY <1>4 DEF Dismiss, Interrupt, Finish
<1>5. CASE Confirm
  <2>1. run \in Run
    BY <1>2, <1>5 DEF Confirm
  <2> QED BY <1>5, <2>1, ConfirmChooses, ConfirmSets
<1>6. CASE Compare
  <2>1. run \in Run
    BY <1>2, <1>6 DEF Compare
  <2>2. PICK c \in run.todo :
          run' = [run EXCEPT !.todo = @ \ {c},
                             !.doomed = IF Identical(c.keep, c.path) THEN @ \cup {c.path} ELSE @]
    BY <1>6 DEF Compare
  <2>3. c.path \in Paths
    BY <2>1 DEF Run, Pair
  <2> QED BY <2>1, <2>2, <2>3 DEF Run
<1>7. CASE PlanDone
  <2>1. run \in Run
    BY <1>2, <1>7 DEF PlanDone
  <2>2. [run EXCEPT !.at = "recycle"] \in Run
    BY <2>1 DEF Run
  <2> QED BY <1>7, <2>2 DEF PlanDone
<1>8. ASSUME NEW p \in Paths, RecycleOne(p) PROVE run' \in Run
  <2>1. run \in Run
    BY <1>2, <1>8 DEF RecycleOne
  <2>2. run' = [run EXCEPT !.doomed = @ \ {p}]
    BY <1>8 DEF RecycleOne
  <2> QED BY <2>1, <2>2 DEF Run
<1>9. ASSUME NEW p \in Paths, SkipOne(p) PROVE run' \in Run
  <2>1. run \in Run
    BY <1>2, <1>9 DEF SkipOne
  <2>2. run' = [run EXCEPT !.doomed = @ \ {p}, !.fresh = FALSE]
    BY <1>9 DEF SkipOne
  <2> QED BY <2>1, <2>2 DEF Run
<1> QED BY <1>3, <1>4, <1>5, <1>6, <1>7, <1>8, <1>9

LEMMA TypeStep == TypeOK /\ [Next]_vars => TypeOK'
<1> SUFFICES ASSUME TypeOK, [Next]_vars PROVE TypeOK'
  OBVIOUS
<1>1. ASSUME NEW p \in Paths, UserDeletes(p) PROVE TypeOK'
  <2>1. node' \in [Paths -> Files \cup Links \cup {Gone}]
    BY <1>1 DEF UserDeletes, TypeOK
  <2> QED BY <1>1, <2>1, UpsetType DEF UserDeletes, TypeOK
<1>2. ASSUME NEW p \in Paths, NEW c \in Contents, UserWrites(p, c) PROVE TypeOK'
  <2>1. Upset /\ Upsets - left < MaxTime
        /\ node' = [node EXCEPT ![p] = [kind |-> "file", data |-> c, mtime |-> Upsets - left + 1]]
    BY <1>2 DEF UserWrites
  <2>2. Upsets - left + 1 \in Times
    BY <2>1, UpsetType, DuplicateFinderAssumption DEF TypeOK, Times
  <2>3. [kind |-> "file", data |-> c, mtime |-> Upsets - left + 1] \in Files
    BY <2>2 DEF Files
  <2>4. node' \in [Paths -> Files \cup Links \cup {Gone}]
    BY <2>1, <2>3 DEF TypeOK
  <2> QED BY <2>1, <2>4, UpsetType DEF TypeOK
<1>3. ASSUME \/ ScanStart \/ HashStart \/ StatStart
             \/ \E p \in Paths : SizeOne(p) \/ HashOne(p) \/ StatOne(p)
      PROVE  TypeOK'
  <2>1. UNCHANGED <<node, left, screen, run>>
    BY <1>3 DEF ScanStart, HashStart, StatStart, SizeOne, HashOne, StatOne, Reads
  <2> QED BY <1>3, <2>1, ScanType DEF TypeOK
<1>4. CASE ScanDone
  <2>1. scan \in Scan
    BY <1>4 DEF ScanDone, TypeOK, NoScan
  <2>2. Groups(scan.listed) \in SUBSET Group /\ scan.quiet \in BOOLEAN
    BY <2>1, GroupsType DEF Scan
  <2>3. screen' = [groups |-> Groups(scan.listed), fresh |-> scan.quiet]
        /\ scan' = NoScan /\ UNCHANGED <<node, left, run>>
    BY <1>4 DEF ScanDone
  <2>4. screen' \in [groups: SUBSET Group, fresh: BOOLEAN]
    BY <2>2, <2>3
  <2> QED BY <2>3, <2>4 DEF TypeOK
<1>5. ASSUME Click \/ Dismiss \/ Confirm \/ Compare \/ PlanDone \/ Interrupt \/ Finish
             \/ \E p \in Paths : SkipOne(p)
      PROVE  TypeOK'
  <2>1. UNCHANGED <<node, left, scan, screen>>
    BY <1>5 DEF Click, Dismiss, Confirm, Compare, PlanDone, Interrupt, Finish, SkipOne
  <2> QED BY <1>5, <2>1, RunType DEF TypeOK
<1>6. ASSUME NEW p \in Paths, RecycleOne(p) PROVE TypeOK'
  <2>1. node' \in [Paths -> Files \cup Links \cup {Gone}]
    BY <1>6 DEF RecycleOne, TypeOK
  <2>2. screen' \in [groups: SUBSET Group, fresh: BOOLEAN]
    BY <1>6 DEF RecycleOne, TypeOK
  <2>3. scan' = NoScan \/ scan' \in Scan
    BY <1>6, NoticedScan DEF RecycleOne, TypeOK
  <2>4. UNCHANGED left
    BY <1>6 DEF RecycleOne
  <2>5. run' = NoRun \/ run' \in Run
    BY <1>6, RunType
  <2> QED BY <2>1, <2>2, <2>3, <2>4, <2>5 DEF TypeOK
<1>7. UNCHANGED vars => TypeOK'
  BY DEF vars, TypeOK
<1> QED
  BY <1>1, <1>2, <1>3, <1>4, <1>5, <1>6, <1>7 DEF Next

-----------------------------------------------------------------------------
(* Every path is in one group at most.                                     *)

OneEach(S) == \A a, b \in S : a.path = b.path => a = b

ScanInv ==
    scan \in Scan =>
        /\ OneEach(scan.hashed) /\ OneEach(scan.listed)
        /\ scan.phase = "size" => scan.hashed = {}
        /\ scan.phase # "stat" => scan.listed = {}
        /\ scan.phase = "hash" => \A h \in scan.hashed : h.path \notin scan.todo
        /\ scan.phase = "stat" => \A x \in scan.listed : x.path \notin scan.todo

Apart(G) ==
    /\ \A g \in G : g.files # {}
    /\ \A g, h \in G : \A e \in g.files, f \in h.files : e.path = f.path => g = h

ApartInv == Apart(screen.groups) /\ (run \in Run => Apart(run.groups))

\* The group of one size and digest.
GroupOf(listed, d, s) ==
    [digest |-> d, size |-> s,
     files |-> {[path |-> f.path, mtime |-> f.mtime] : f \in {x \in listed : x.digest = d /\ x.size = s}}]

LEMMA GroupsAre ==
    ASSUME NEW listed, NEW g
    PROVE  g \in Groups(listed) <=>
              \E e \in listed : g = GroupOf(listed, e.digest, e.size) /\ Cardinality(g.files) >= 2
BY DEF Groups, GroupOf

LEMMA InGroup ==
    ASSUME NEW listed, NEW d, NEW s, NEW e
    PROVE  /\ GroupOf(listed, d, s).digest = d /\ GroupOf(listed, d, s).size = s
           /\ e \in GroupOf(listed, d, s).files <=>
                \E f \in listed : f.digest = d /\ f.size = s /\ e = [path |-> f.path, mtime |-> f.mtime]
<1>1. GroupOf(listed, d, s).digest = d /\ GroupOf(listed, d, s).size = s
  BY DEF GroupOf
<1>2. GroupOf(listed, d, s).files =
        {[path |-> f.path, mtime |-> f.mtime] : f \in {x \in listed : x.digest = d /\ x.size = s}}
  BY DEF GroupOf
<1> QED BY <1>1, <1>2

LEMMA GroupsApart ==
    ASSUME NEW listed, OneEach(listed)
    PROVE  Apart(Groups(listed))
<1>1. ASSUME NEW g \in Groups(listed) PROVE g.files # {}
  <2>1. PICK e \in listed : g = GroupOf(listed, e.digest, e.size)
    BY GroupsAre
  <2>2. [path |-> e.path, mtime |-> e.mtime] \in g.files
    BY <2>1, InGroup
  <2> QED BY <2>2
<1>2. ASSUME NEW g \in Groups(listed), NEW h \in Groups(listed), NEW e \in g.files, NEW f \in h.files,
             e.path = f.path
      PROVE  g = h
  <2>1. PICK d1, s1 : g = GroupOf(listed, d1, s1)
    BY GroupsAre
  <2>2. PICK d2, s2 : h = GroupOf(listed, d2, s2)
    BY GroupsAre
  <2>3. PICK a \in listed : a.digest = d1 /\ a.size = s1 /\ e = [path |-> a.path, mtime |-> a.mtime]
    BY <2>1, InGroup
  <2>4. PICK b \in listed : b.digest = d2 /\ b.size = s2 /\ f = [path |-> b.path, mtime |-> b.mtime]
    BY <2>2, InGroup
  <2>5. a = b
    BY <1>2, <2>3, <2>4 DEF OneEach
  <2> QED BY <2>1, <2>2, <2>3, <2>4, <2>5
<1> QED BY <1>1, <1>2 DEF Apart

LEMMA ScanStepKeeps ==
    ASSUME TypeOK, ScanInv, [Next]_vars
    PROVE  ScanInv'
<1>1. scan = NoScan \/ scan \in Scan
  BY DEF TypeOK
<1>2. CASE UNCHANGED scan
  BY <1>2 DEF ScanInv
<1>3. CASE scan' = Noticed(scan)
  <2>1. CASE scan = NoScan
    BY <1>3, <2>1, NoticedScan, NoScanIsNone DEF ScanInv
  <2>2. CASE scan \in Scan
    BY <1>3, <2>2, NoticedScan DEF ScanInv
  <2> QED BY <1>1, <2>1, <2>2
<1>4. CASE ScanStart
  BY <1>4 DEF ScanStart, ScanInv, OneEach
<1>5. CASE ScanDone
  BY <1>5, NoScanIsNone DEF ScanDone, ScanInv
<1>6. CASE HashStart
  <2>1. scan \in Scan
    BY <1>1, <1>6 DEF HashStart, NoScan
  <2>2. /\ scan.phase = "size" /\ scan'.phase = "hash"
        /\ scan'.hashed = scan.hashed /\ scan'.listed = scan.listed
    BY <1>6, <2>1 DEF HashStart, Scan
  <2> QED BY <2>1, <2>2 DEF ScanInv
<1>7. CASE StatStart
  <2>1. scan \in Scan
    BY <1>1, <1>7 DEF StatStart, NoScan
  <2>2. /\ scan.phase = "hash" /\ scan'.phase = "stat"
        /\ scan'.hashed = scan.hashed /\ scan'.listed = scan.listed
    BY <1>7, <2>1 DEF StatStart, Scan
  <2> QED BY <2>1, <2>2 DEF ScanInv
<1>8. ASSUME NEW p \in Paths, SizeOne(p) PROVE ScanInv'
  <2>1. scan.phase = "size"
    BY <1>8 DEF SizeOne, Reads
  <2>2. scan \in Scan
    BY <1>1, <2>1 DEF NoScan
  <2>3. /\ scan'.phase = "size"
        /\ scan'.hashed = scan.hashed /\ scan'.listed = scan.listed
    BY <1>8, <2>1, <2>2 DEF SizeOne, Scan
  <2> QED BY <2>1, <2>2, <2>3 DEF ScanInv
<1>9. ASSUME NEW p \in Paths, HashOne(p) PROVE ScanInv'
  <2>1. scan.phase = "hash" /\ p \in scan.todo
    BY <1>9 DEF HashOne, Reads
  <2>2. scan \in Scan
    BY <1>1, <2>1 DEF NoScan
  <2>3. /\ scan'.phase = "hash" /\ scan'.listed = scan.listed /\ scan'.todo = scan.todo \ {p}
        /\ scan'.hashed = scan.hashed \cup
             (IF Exists(p) THEN {[path |-> p, digest |-> Digest[Read(p).data]]} ELSE {})
    BY <1>9, <2>1, <2>2 DEF HashOne, Scan
  <2>4. OneEach(scan.hashed) /\ OneEach(scan.listed) /\ scan.listed = {} /\ \A h \in scan.hashed : h.path \notin scan.todo
    BY <2>1, <2>2 DEF ScanInv
  <2>5. \A h \in scan'.hashed : h \in scan.hashed \/ h = [path |-> p, digest |-> Digest[Read(p).data]]
    BY <2>3
  <2>6. OneEach(scan'.hashed)
    BY <2>1, <2>4, <2>5 DEF OneEach
  <2>7. \A h \in scan'.hashed : h.path \notin scan'.todo
    BY <2>3, <2>4, <2>5
  <2> QED BY <2>3, <2>4, <2>6, <2>7 DEF ScanInv
<1>10. ASSUME NEW p \in Paths, StatOne(p) PROVE ScanInv'
  <2>1. scan.phase = "stat" /\ p \in scan.todo
    BY <1>10 DEF StatOne, Reads
  <2>2. scan \in Scan
    BY <1>1, <2>1 DEF NoScan
  <2> DEFINE new(h) == [path |-> p, digest |-> h.digest, size |-> Size[Read(p).data], mtime |-> Read(p).mtime]
  <2>3. /\ scan'.phase = "stat" /\ scan'.hashed = scan.hashed /\ scan'.todo = scan.todo \ {p}
        /\ scan'.listed = scan.listed \cup {new(h) : h \in {x \in scan.hashed : x.path = p /\ Exists(p)}}
    BY <1>10, <2>1, <2>2 DEF StatOne, Scan
  <2>4. OneEach(scan.hashed) /\ OneEach(scan.listed) /\ \A x \in scan.listed : x.path \notin scan.todo
    BY <2>1, <2>2 DEF ScanInv
  <2>5. \A x \in scan'.listed : x \in scan.listed \/ \E h \in scan.hashed : h.path = p /\ x = new(h)
    BY <2>3
  <2>6. \A h : new(h).path = p
    OBVIOUS
  <2>7. \A g, h \in scan.hashed : g.path = p /\ h.path = p => new(g) = new(h)
    BY <2>4 DEF OneEach
  <2> HIDE DEF new
  <2>8. OneEach(scan'.listed)
    BY <2>1, <2>4, <2>5, <2>6, <2>7 DEF OneEach
  <2>9. \A x \in scan'.listed : x.path \notin scan'.todo
    BY <2>3, <2>4, <2>5, <2>6
  <2> QED BY <2>3, <2>4, <2>8, <2>9 DEF ScanInv
<1>11. ASSUME \/ \E p \in Paths : UserDeletes(p) \/ RecycleOne(p) \/ \E c \in Contents : UserWrites(p, c)
       PROVE  scan' = Noticed(scan)
  BY <1>11 DEF UserDeletes, UserWrites, RecycleOne, Upset
<1>12. ASSUME Click \/ Dismiss \/ Confirm \/ Compare \/ PlanDone \/ Interrupt \/ Finish
              \/ (\E p \in Paths : SkipOne(p)) \/ UNCHANGED vars
       PROVE  UNCHANGED scan
  BY <1>12 DEF Click, Dismiss, Confirm, Compare, PlanDone, Interrupt, Finish, SkipOne, vars
<1> QED
  BY <1>2, <1>3, <1>4, <1>5, <1>6, <1>7, <1>8, <1>9, <1>10, <1>11, <1>12 DEF Next

-----------------------------------------------------------------------------
(* The keeper of a group is one of its files.                              *)

\* Every set of numbers has a least one.
LEMMA LeastOf == ASSUME NEW T, T \subseteq Nat, T # {} PROVE \E x \in T : \A y \in T : x <= y
<1>1. PICK x \in T : \A y \in T : <<y, x>> \notin OpToRel(<, Nat)
  BY NatLessThanWellFounded, WFMin
<1>2. \A y \in T : ~(y < x)
  BY <1>1 DEF OpToRel
<1> QED BY <1>2

PathsOf(g) == {e.path : e \in g.files}

LEMMA FirstIsMember ==
    ASSUME NEW S, S \subseteq Entry, S # {}
    PROVE  FirstByPath(S) \in S
<1>1. \A p \in Paths : Position(p) \in Nat
  <2> SUFFICES ASSUME NEW p \in Paths PROVE Position(p) \in Nat
    OBVIOUS
  <2>1. \E i \in DOMAIN Sorted : Sorted[i] = p
    BY DEF Paths, ToSet
  <2>2. Position(p) \in DOMAIN Sorted
    BY <2>1 DEF Position
  <2> QED BY <2>2, DuplicateFinderAssumption
<1> DEFINE T == {Position(e.path) : e \in S}
<1>2. T \subseteq Nat /\ T # {}
  BY <1>1 DEF Entry
<1>3. PICK x \in T : \A y \in T : x <= y
  <2> HIDE DEF T
  <2> QED BY <1>2, LeastOf
<1>4. \E e \in S : \A f \in S : Position(e.path) <= Position(f.path)
  BY <1>3
<1> QED BY <1>4 DEF FirstByPath

LEMMA KeeperInGroup ==
    ASSUME NEW g \in Group, g.files # {}, NEW strategy \in {"newest", "oldest", "manual"},
           NEW k \in Keeper(g, strategy)
    PROVE  k \in PathsOf(g) \cup {NoPath}
<1> DEFINE ahead(e, f) == IF strategy = "newest" THEN e.mtime >= f.mtime ELSE e.mtime <= f.mtime
           S == {e \in g.files : \A f \in g.files : ahead(e, f)}
<1>1. g.files \subseteq Entry
  BY DEF Group
<1>2. \A e \in g.files : e.mtime \in Nat /\ MaxTime - e.mtime \in Nat /\ e.mtime <= MaxTime /\ MaxTime \in Nat
  BY <1>1, DuplicateFinderAssumption DEF Entry, Times
<1>3. S # {}
  <2>1. CASE strategy = "newest"
    <3> DEFINE T == {MaxTime - e.mtime : e \in g.files}
    <3>1. T \subseteq Nat /\ T # {}
      BY <1>2
    <3>2. PICK x \in T : \A y \in T : x <= y
      <4> HIDE DEF T
      <4> QED BY <3>1, LeastOf
    <3>3. PICK e \in g.files : x = MaxTime - e.mtime
      BY <3>2
    <3>4. \A f \in g.files : MaxTime - e.mtime <= MaxTime - f.mtime
      BY <3>2, <3>3
    <3>5. \A f \in g.files : e.mtime >= f.mtime
      BY <1>2, <3>4
    <3> QED BY <2>1, <3>5
  <2>2. CASE strategy # "newest"
    <3> DEFINE T == {e.mtime : e \in g.files}
    <3>1. T \subseteq Nat /\ T # {}
      BY <1>2
    <3>2. PICK x \in T : \A y \in T : x <= y
      <4> HIDE DEF T
      <4> QED BY <3>1, LeastOf
    <3>3. PICK e \in g.files : x = e.mtime
      BY <3>2
    <3>4. \A f \in g.files : e.mtime <= f.mtime
      BY <3>2, <3>3
    <3> QED BY <2>2, <3>4
  <2> QED BY <2>1, <2>2
<1>4. FirstByPath(S) \in S
  <2>1. S \subseteq Entry
    BY <1>1
  <2> HIDE DEF S
  <2> QED BY <1>3, <2>1, FirstIsMember
<1>5. strategy # "manual" => k = FirstByPath(S).path
  BY DEF Keeper
<1>6. FirstByPath(S) \in g.files
  BY <1>4
<1>7. CASE strategy = "manual"
  BY <1>7 DEF Keeper, PathsOf
<1> HIDE DEF S
<1> QED BY <1>5, <1>6, <1>7 DEF PathsOf

-----------------------------------------------------------------------------
(* What a resolve keeps, it never takes.                                   *)

Targets == run.doomed \cup {c.path : c \in run.todo}
Working == run \in Run /\ run.at \in {"plan", "recycle"}

KeepInv ==
    /\ run \in Run /\ run.at = "dialog" => run.doomed = {} /\ run.todo = {}
    /\ Working => /\ run.keepers \cap Targets = {}
                  /\ \A c \in run.todo : c.keep \in run.keepers
                  /\ run.at = "recycle" => run.todo = {}

\* The pairs of the groups: every other file of a group with its keeper.
LEMMA ChosenPairs ==
    ASSUME TypeOK, run \in Run, Apart(run.groups), NEW keeper, Chosen(keeper)
    PROVE  /\ \A g \in run.groups : keeper[g] \in PathsOf(g) \cup {NoPath}
           /\ \A c \in run'.todo : \E g \in run.groups :
                 /\ keeper[g] # NoPath /\ c.keep = keeper[g] /\ c.path \in PathsOf(g) /\ c.path # keeper[g]
           /\ \A g \in run.groups : \A e \in g.files : keeper[g] # NoPath /\ e.path # keeper[g] =>
                 \E c \in run'.todo : c.keep = keeper[g] /\ c.path = e.path
<1>1. run.groups \subseteq Group
  BY DEF Run
<1>2. \A g \in run.groups : keeper[g] \in PathsOf(g) \cup {NoPath}
  BY <1>1, KeeperInGroup DEF Chosen, Apart
<1>3. \A c : c \in run'.todo <=> \E g \in run.groups : c \in Pairs(g, keeper[g])
  <2>1. run'.todo = UNION {Pairs(g, keeper[g]) : g \in run.groups}
    BY ConfirmSets
  <2> QED BY <2>1
<1>4. \A g, k, c : c \in Pairs(g, k) <=>
          k # NoPath /\ \E e \in g.files : e.path # k /\ c = [keep |-> k, path |-> e.path]
  BY DEF Pairs
<1>5. ASSUME NEW c \in run'.todo
      PROVE  \E g \in run.groups :
                 /\ keeper[g] # NoPath /\ c.keep = keeper[g] /\ c.path \in PathsOf(g) /\ c.path # keeper[g]
  <2>1. PICK g \in run.groups : c \in Pairs(g, keeper[g])
    BY <1>3
  <2>2. PICK e \in g.files : keeper[g] # NoPath /\ e.path # keeper[g] /\ c = [keep |-> keeper[g], path |-> e.path]
    BY <1>4, <2>1
  <2>3. c.keep = keeper[g] /\ c.path = e.path
    BY <2>2
  <2> QED BY <2>2, <2>3 DEF PathsOf
<1>6. ASSUME NEW g \in run.groups, NEW e \in g.files, keeper[g] # NoPath, e.path # keeper[g]
      PROVE  \E c \in run'.todo : c.keep = keeper[g] /\ c.path = e.path
  <2> DEFINE c == [keep |-> keeper[g], path |-> e.path]
  <2>1. c \in Pairs(g, keeper[g])
    BY <1>4, <1>6
  <2>2. c \in run'.todo
    BY <1>3, <2>1
  <2>3. c.keep = keeper[g] /\ c.path = e.path
    OBVIOUS
  <2> QED BY <2>2, <2>3
<1> QED BY <1>2, <1>5, <1>6

\* Who changes the groups on screen and in the dialog.
LEMMA GroupsMove ==
    ASSUME TypeOK, [Next]_vars
    PROVE  /\ screen'.groups = screen.groups \/ ScanDone
           /\ run' \in Run => \/ run \in Run /\ run'.groups = run.groups
                              \/ run'.groups \subseteq screen.groups
<1>1. screen'.groups = screen.groups \/ ScanDone
  <2>1. UNCHANGED screen \/ ScanDone \/ screen' = [screen EXCEPT !.fresh = FALSE]
    BY DEF Next, vars, UserDeletes, UserWrites, Upset, ScanStart, HashStart, StatStart, SizeOne, HashOne, StatOne,
           Reads, Click, Dismiss, Confirm, Compare, PlanDone, Interrupt, RecycleOne, SkipOne, Finish
  <2> QED BY <2>1 DEF TypeOK
<1>2. ASSUME run' \in Run
      PROVE  \/ run \in Run /\ run'.groups = run.groups
             \/ run'.groups \subseteq screen.groups
  <2>1. CASE UNCHANGED run
    BY <1>2, <2>1
  <2>2. CASE Upset
    <3>1. run # NoRun /\ run \in Run
      BY <1>2, <2>2, NoScanIsNone DEF Upset, TypeOK
    <3> QED BY <2>2, <3>1 DEF Upset, Run
  <2>3. CASE Click
    BY <2>3 DEF Click
  <2>4. CASE Dismiss \/ Interrupt \/ Finish
    BY <1>2, <2>4, NoScanIsNone DEF Dismiss, Interrupt, Finish
  <2>5. run.at # "off" => run \in Run
    BY DEF TypeOK, NoRun
  <2>6. CASE Confirm
    BY <2>5, <2>6, ConfirmChooses, ConfirmSets DEF Confirm
  <2>7. CASE Compare
    BY <2>5, <2>7 DEF Compare, Run
  <2>8. CASE PlanDone
    <3>1. run' = [run EXCEPT !.at = "recycle"] /\ run.at = "plan"
      BY <1>2, <2>8, NoScanIsNone DEF PlanDone
    <3> QED BY <2>5, <3>1 DEF Run
  <2>9. ASSUME NEW p \in Paths, RecycleOne(p) \/ SkipOne(p) PROVE run \in Run /\ run'.groups = run.groups
    BY <2>5, <2>9 DEF RecycleOne, SkipOne, Run
  <2> QED
    BY <2>1, <2>2, <2>3, <2>4, <2>6, <2>7, <2>8, <2>9
    DEF Next, vars, UserDeletes, UserWrites, ScanStart, HashStart, StatStart, SizeOne, HashOne, StatOne, Reads, ScanDone
<1> QED BY <1>1, <1>2

LEMMA ApartStep ==
    ASSUME TypeOK, ScanInv, ApartInv, [Next]_vars
    PROVE  ApartInv'
<1>1. ASSUME ScanDone PROVE Apart(screen'.groups)
  <2>1. scan.phase = "stat" /\ screen'.groups = Groups(scan.listed)
    BY <1>1 DEF ScanDone
  <2>2. scan \in Scan
    BY <2>1 DEF TypeOK, NoScan
  <2> QED BY <2>1, <2>2, GroupsApart DEF ScanInv
<1>2. Apart(screen'.groups)
  BY <1>1, GroupsMove DEF ApartInv
<1>3. \A G, H : Apart(G) /\ H \subseteq G => Apart(H)
  BY DEF Apart
<1>4. ASSUME run' \in Run PROVE Apart(run'.groups)
  BY <1>3, <1>4, GroupsMove DEF ApartInv
<1> QED BY <1>2, <1>4 DEF ApartInv

LEMMA KeepStep ==
    ASSUME TypeOK, ApartInv, KeepInv, [Next]_vars
    PROVE  KeepInv'
<1>1. run.at # "off" => run \in Run
  BY DEF TypeOK, NoRun
<1>2. NoRun.at = "off" /\ NoRun \notin Run
  BY NoScanIsNone DEF NoRun
<1>3. CASE UNCHANGED run
  BY <1>3 DEF KeepInv, Working, Targets
<1>4. CASE run' = NoRun
  BY <1>2, <1>4 DEF KeepInv, Working
<1>5. CASE Upset
  <2>1. CASE run = NoRun
    BY <1>4, <1>5, <2>1 DEF Upset
  <2>2. CASE run \in Run
    <3>1. run' = [run EXCEPT !.quiet = FALSE, !.fresh = FALSE]
      BY <1>2, <1>5, <2>2 DEF Upset
    <3>2. /\ run'.at = run.at /\ run'.doomed = run.doomed /\ run'.todo = run.todo
          /\ run'.keepers = run.keepers
      BY <2>2, <3>1 DEF Run
    <3> QED BY <2>2, <3>2 DEF KeepInv, Working, Targets
  <2> QED BY <2>1, <2>2 DEF TypeOK
<1>6. CASE Click
  <2>1. run'.at = "dialog" /\ run'.doomed = {} /\ run'.todo = {}
    BY <1>6 DEF Click
  <2> QED BY <2>1 DEF KeepInv, Working
<1>7. CASE Confirm
  <2>1. run \in Run /\ run.at = "dialog"
    BY <1>1, <1>7 DEF Confirm
  <2>2. PICK keeper : Chosen(keeper)
    BY <1>7, ConfirmChooses
  <2>3. Apart(run.groups)
    BY <2>1 DEF ApartInv
  <2>4. /\ run'.at = "plan" /\ run'.doomed = {}
        /\ run'.keepers = {keeper[g] : g \in run.groups} \ {NoPath}
    BY <2>1, <2>2, ConfirmSets DEF KeepInv
  <2>5. ASSUME NEW c \in run'.todo PROVE c.keep \in run'.keepers /\ c.path \notin run'.keepers
    <3>1. PICK g \in run.groups :
             keeper[g] # NoPath /\ c.keep = keeper[g] /\ c.path \in PathsOf(g) /\ c.path # keeper[g]
      BY <2>1, <2>2, <2>3, ChosenPairs
    <3>2. ASSUME NEW h \in run.groups, c.path = keeper[h], keeper[h] # NoPath PROVE FALSE
      <4>1. keeper[h] \in PathsOf(h)
        BY <2>1, <2>2, <2>3, <3>2, ChosenPairs
      <4>2. g = h
        BY <2>3, <3>1, <3>2, <4>1 DEF Apart, PathsOf
      <4> QED BY <3>1, <3>2, <4>2
    <3> QED BY <2>4, <3>1, <3>2
  <2> QED BY <2>4, <2>5 DEF KeepInv, Working, Targets
<1>8. CASE Compare
  <2>1. run \in Run /\ run.at = "plan"
    BY <1>1, <1>8 DEF Compare
  <2>2. PICK c \in run.todo :
          run' = [run EXCEPT !.todo = @ \ {c},
                             !.doomed = IF Identical(c.keep, c.path) THEN @ \cup {c.path} ELSE @]
    BY <1>8 DEF Compare
  <2>3. /\ run'.at = "plan" /\ run'.keepers = run.keepers /\ run'.todo = run.todo \ {c}
        /\ run'.doomed = (IF Identical(c.keep, c.path) THEN run.doomed \cup {c.path} ELSE run.doomed)
    BY <2>1, <2>2 DEF Run
  <2>4. Targets' \subseteq Targets
    BY <2>3 DEF Targets
  <2> QED BY <2>1, <2>3, <2>4 DEF KeepInv, Working
<1>9. CASE PlanDone
  <2>1. run \in Run /\ run.at = "plan" /\ run.todo = {}
    BY <1>1, <1>9 DEF PlanDone
  <2>2. CASE run' = [run EXCEPT !.at = "recycle"]
    <3>1. /\ run'.at = "recycle" /\ run'.doomed = run.doomed /\ run'.todo = run.todo
          /\ run'.keepers = run.keepers
      BY <2>1, <2>2 DEF Run
    <3> QED BY <2>1, <3>1 DEF KeepInv, Working, Targets
  <2> QED BY <1>4, <1>9, <2>2 DEF PlanDone
<1>10. ASSUME NEW p \in Paths, RecycleOne(p) \/ SkipOne(p) PROVE KeepInv'
  <2>1. run \in Run /\ run.at = "recycle"
    BY <1>1, <1>10 DEF RecycleOne, SkipOne
  <2>2. /\ run'.at = "recycle" /\ run'.doomed = run.doomed \ {p} /\ run'.todo = run.todo
        /\ run'.keepers = run.keepers
    BY <1>10, <2>1 DEF RecycleOne, SkipOne, Run
  <2>3. Targets' \subseteq Targets
    BY <2>2 DEF Targets
  <2> QED BY <2>1, <2>2, <2>3 DEF KeepInv, Working
<1>11. Dismiss \/ Interrupt \/ Finish => run' = NoRun
  BY DEF Dismiss, Interrupt, Finish
<1>12. ASSUME \/ UNCHANGED vars \/ ScanStart \/ HashStart \/ StatStart \/ ScanDone
              \/ \E p \in Paths : SizeOne(p) \/ HashOne(p) \/ StatOne(p)
       PROVE  UNCHANGED run
  BY <1>12 DEF vars, ScanStart, HashStart, StatStart, SizeOne, HashOne, StatOne, Reads, ScanDone
<1>13. (\E p \in Paths : UserDeletes(p) \/ \E c \in Contents : UserWrites(p, c)) => Upset
  BY DEF UserDeletes, UserWrites
<1> QED
  BY <1>3, <1>4, <1>5, <1>6, <1>7, <1>8, <1>9, <1>10, <1>11, <1>12, <1>13 DEF Next

LEMMA InitInv == Init => ScanInv /\ ApartInv /\ KeepInv
BY NoScanIsNone DEF Init, ScanInv, ApartInv, Apart, KeepInv, Working

-----------------------------------------------------------------------------
(* One copy stays.                                                         *)

\* What a step does to the files.
LEMMA NodeMoves ==
    ASSUME TypeOK, [Next]_vars
    PROVE  \/ UNCHANGED node
           \/ Upset
           \/ \E p \in Paths : RecycleOne(p)
BY DEF Next, vars, UserDeletes, UserWrites, ScanStart, HashStart, StatStart, SizeOne, HashOne, StatOne, Reads,
       ScanDone, Click, Dismiss, Confirm, Compare, PlanDone, Interrupt, SkipOne, Finish

NoLinks == \A p \in Paths : node[p].kind # "link"

LEMMA NoLinksInit == ASSUME Linked = {} PROVE Init => NoLinks
BY DEF Init, NoLinks

LEMMA NoLinksStep == TypeOK /\ NoLinks /\ [Next]_vars => NoLinks'
<1> SUFFICES ASSUME TypeOK, NoLinks, [Next]_vars PROVE NoLinks'
  OBVIOUS
<1>1. Gone.kind # "link"
  BY DEF Gone
<1>2. ASSUME NEW p \in Paths, UserDeletes(p) \/ RecycleOne(p) PROVE NoLinks'
  <2>1. node' = [node EXCEPT ![p] = Gone]
    BY <1>2 DEF UserDeletes, RecycleOne
  <2> QED BY <1>1, <2>1 DEF NoLinks, TypeOK
<1>3. ASSUME NEW p \in Paths, NEW c \in Contents, UserWrites(p, c) PROVE NoLinks'
  BY <1>3 DEF UserWrites, NoLinks, TypeOK
<1>4. UNCHANGED node => NoLinks'
  BY DEF NoLinks
<1> QED
  BY <1>2, <1>3, <1>4
  DEF Next, vars, ScanStart, HashStart, StatStart, SizeOne, HashOne, StatOne, Reads,
      ScanDone, Click, Dismiss, Confirm, Compare, PlanDone, Interrupt, SkipOne, Finish

Twins(k, p) == node[k].kind = "file" /\ node[p].kind = "file" /\ node[k].data = node[p].data

LEMMA IdenticalTwins ==
    ASSUME NoLinks, NEW k \in Paths, NEW p \in Paths
    PROVE  /\ Identical(k, p) <=> Twins(k, p)
           /\ Exists(p) <=> node[p].kind = "file"
           /\ Read(p) = node[p]
BY DEF NoLinks, Identical, Exists, Read, Twins

\* While the tree is quiet, everything to be recycled is the twin of a keeper.
TwinInv == Working /\ run.quiet => \A p \in run.doomed : \E k \in run.keepers : Twins(k, p)

LEMMA TwinStep ==
    ASSUME TypeOK, NoLinks, ApartInv, KeepInv, TwinInv, [Next]_vars
    PROVE  TwinInv'
<1>1. run.at # "off" => run \in Run
  BY DEF TypeOK, NoRun
<1>2. NoRun.at = "off" /\ NoRun \notin Run
  BY NoScanIsNone DEF NoRun
<1>3. CASE UNCHANGED <<node, run>>
  BY <1>3 DEF TwinInv, Working, Twins
<1>4. CASE run' = NoRun
  BY <1>2, <1>4 DEF TwinInv, Working
<1>5. CASE Upset
  <2>1. CASE run = NoRun
    BY <1>4, <1>5, <2>1 DEF Upset
  <2>2. CASE run \in Run
    <3>1. run' = [run EXCEPT !.quiet = FALSE, !.fresh = FALSE]
      BY <1>2, <1>5, <2>2 DEF Upset
    <3>2. run'.quiet = FALSE
      BY <2>2, <3>1 DEF Run
    <3> QED BY <3>2 DEF TwinInv
  <2> QED BY <2>1, <2>2 DEF TypeOK
<1>6. CASE Click
  <2>1. run'.at = "dialog"
    BY <1>6 DEF Click
  <2> QED BY <2>1 DEF TwinInv, Working
<1>7. CASE Confirm
  <2>1. run \in Run /\ run.at = "dialog"
    BY <1>1, <1>7 DEF Confirm
  <2>2. run'.doomed = {}
    BY <1>7, <2>1, ConfirmChooses, ConfirmSets DEF KeepInv
  <2> QED BY <2>2 DEF TwinInv
<1>8. CASE Compare
  <2>1. run \in Run /\ run.at = "plan" /\ UNCHANGED node
    BY <1>1, <1>8 DEF Compare
  <2>2. PICK c \in run.todo :
          run' = [run EXCEPT !.todo = @ \ {c},
                             !.doomed = IF Identical(c.keep, c.path) THEN @ \cup {c.path} ELSE @]
    BY <1>8 DEF Compare
  <2>3. /\ run'.quiet = run.quiet /\ run'.keepers = run.keepers
        /\ run'.doomed = (IF Identical(c.keep, c.path) THEN run.doomed \cup {c.path} ELSE run.doomed)
    BY <2>1, <2>2 DEF Run
  <2>4. c.keep \in Paths /\ c.path \in Paths
    BY <2>1 DEF Run, Pair
  <2>5. c.keep \in run.keepers
    BY <2>1 DEF KeepInv, Working
  <2>6. ASSUME run.quiet, NEW p \in run'.doomed PROVE \E k \in run.keepers : Twins(k, p)
    <3>1. CASE p \in run.doomed
      BY <2>1, <2>6, <3>1 DEF TwinInv, Working
    <3>2. CASE p \notin run.doomed
      <4>1. p = c.path /\ Identical(c.keep, c.path)
        BY <2>3, <2>6, <3>2
      <4> QED BY <2>4, <2>5, <4>1, IdenticalTwins
    <3> QED BY <3>1, <3>2
  <2> QED BY <2>1, <2>3, <2>6 DEF TwinInv, Twins
<1>9. CASE PlanDone
  <2>1. run \in Run /\ run.at = "plan" /\ UNCHANGED node
    BY <1>1, <1>9 DEF PlanDone
  <2>2. CASE run' = [run EXCEPT !.at = "recycle"]
    <3>1. run'.doomed = run.doomed /\ run'.keepers = run.keepers /\ run'.quiet = run.quiet
      BY <2>1, <2>2 DEF Run
    <3> QED BY <2>1, <3>1 DEF TwinInv, Working, Twins
  <2> QED BY <1>4, <1>9, <2>2 DEF PlanDone
<1>10. ASSUME NEW p \in Paths, SkipOne(p) PROVE TwinInv'
  <2>1. run \in Run /\ run.at = "recycle" /\ UNCHANGED node
    BY <1>1, <1>10 DEF SkipOne
  <2>2. run'.doomed = run.doomed \ {p} /\ run'.keepers = run.keepers /\ run'.quiet = run.quiet
    BY <1>10, <2>1 DEF SkipOne, Run
  <2> QED BY <2>1, <2>2 DEF TwinInv, Working, Twins
<1>11. ASSUME NEW p \in Paths, RecycleOne(p) PROVE TwinInv'
  <2>1. run \in Run /\ run.at = "recycle" /\ p \in run.doomed /\ node' = [node EXCEPT ![p] = Gone]
    BY <1>1, <1>11 DEF RecycleOne
  <2>2. run'.doomed = run.doomed \ {p} /\ run'.keepers = run.keepers /\ run'.quiet = run.quiet
    BY <1>11, <2>1 DEF RecycleOne, Run
  <2>3. p \notin run.keepers /\ run.keepers \subseteq Paths /\ run.doomed \subseteq Paths
    BY <2>1 DEF KeepInv, Working, Targets, Run
  <2>4. \A q \in Paths : q # p => node'[q] = node[q]
    BY <2>1 DEF TypeOK
  <2>5. ASSUME run.quiet, NEW q \in run'.doomed PROVE \E k \in run.keepers : Twins(k, q)'
    <3>1. q \in run.doomed /\ q # p
      BY <2>2
    <3>2. PICK k \in run.keepers : Twins(k, q)
      BY <2>1, <2>5, <3>1 DEF TwinInv, Working
    <3> QED BY <2>3, <2>4, <3>1, <3>2 DEF Twins
  <2> QED BY <2>2, <2>5 DEF TwinInv
<1>12. Dismiss \/ Interrupt \/ Finish => run' = NoRun
  BY DEF Dismiss, Interrupt, Finish
<1>13. ASSUME \/ UNCHANGED vars \/ ScanStart \/ HashStart \/ StatStart \/ ScanDone
              \/ \E p \in Paths : SizeOne(p) \/ HashOne(p) \/ StatOne(p)
       PROVE  UNCHANGED <<node, run>>
  BY <1>13 DEF vars, ScanStart, HashStart, StatStart, SizeOne, HashOne, StatOne, Reads, ScanDone
<1>14. (\E p \in Paths : UserDeletes(p) \/ \E c \in Contents : UserWrites(p, c)) => Upset
  BY DEF UserDeletes, UserWrites
<1> QED
  BY <1>3, <1>4, <1>5, <1>6, <1>7, <1>8, <1>9, <1>10, <1>11, <1>12, <1>13, <1>14 DEF Next

\* A recycled file's twin is a keeper, and stays.
LEMMA RecycledSurvives ==
    ASSUME TypeOK, NoLinks, KeepInv, TwinInv, [Next]_vars, NEW p \in Paths, Recycles(p)
    PROVE  Survives(p)
<1>1. run.at = "recycle" /\ run.quiet /\ p \in run.doomed /\ node[p].kind = "file" /\ node'[p] = Gone
  BY DEF Recycles
<1>2. run \in Run /\ Working
  BY <1>1 DEF TypeOK, NoRun, Working
<1>3. PICK k \in run.keepers : Twins(k, p)
  BY <1>1, <1>2 DEF TwinInv
<1>4. k \in Paths /\ k # p
  BY <1>1, <1>2 DEF Run, KeepInv, Targets
<1>5. node'[k] = node[k]
  <2>1. PICK q \in Paths : node' = [node EXCEPT ![q] = Gone] \/ \E c \in Contents : UserWrites(q, c)
    <3>1. node' # node
      BY <1>1 DEF Gone
    <3> QED
      BY <3>1
      DEF Next, vars, UserDeletes, RecycleOne, ScanStart, HashStart, StatStart, SizeOne, HashOne, StatOne, Reads,
          ScanDone, Click, Dismiss, Confirm, Compare, PlanDone, Interrupt, SkipOne, Finish
  <2>2. q = p
    <3>1. \A r \in Paths : r # q => node'[r] = node[r]
      BY <2>1 DEF UserWrites, TypeOK
    <3>2. node'[p] # node[p]
      BY <1>1 DEF Gone
    <3> QED BY <3>1, <3>2
  <2> QED BY <1>4, <2>1, <2>2 DEF UserWrites, TypeOK
<1> QED BY <1>3, <1>4, <1>5 DEF Survives, Twins

\* A resolve recycles no file unless one with the same content stays, in a tree
\* without symbolic links, whatever else changes files up to when it compares.
THEOREM KeepsOneCopy ==
    ASSUME Linked = {}
    PROVE  Spec => OneCopyStays
<1> DEFINE Inv == TypeOK /\ NoLinks /\ ScanInv /\ ApartInv /\ KeepInv /\ TwinInv
<1>1. Init => Inv
  BY InitType, InitInv, NoLinksInit, NoScanIsNone DEF Init, TwinInv, Working
<1>2. Inv /\ [Next]_vars => Inv'
  BY TypeStep, NoLinksStep, ScanStepKeeps, ApartStep, KeepStep, TwinStep
<1>3. Inv /\ [Next]_vars => [\A p \in Paths : Recycles(p) => Survives(p)]_vars
  BY RecycledSurvives
<1> QED BY <1>1, <1>2, <1>3, PTL DEF Spec, OneCopyStays

-----------------------------------------------------------------------------
(* The groups of a scan are right.                                         *)

LEMMA PathsFinite == IsFiniteSet(Paths)
<1>1. PICK n \in Nat : Sorted \in [1..n -> Paths] /\ DOMAIN Sorted = 1..n
  BY DuplicateFinderAssumption
<1>2. Sorted \in Surjection(1..n, Paths)
  BY <1>1 DEF Surjection, Paths, ToSet
<1>3. IsFiniteSet(1..n)
  BY FS_Interval
<1> QED BY <1>2, <1>3, FS_Surjection

LEMMA OneEachFinite ==
    ASSUME NEW S, OneEach(S), \A a \in S : a.path \in Paths
    PROVE  IsFiniteSet(S)
<1> DEFINE f == [a \in S |-> a.path]
<1>1. f \in Injection(S, Paths)
  BY DEF Injection, IsInjective, OneEach
<1> HIDE DEF f
<1> QED BY <1>1, PathsFinite, FS_Injection

LEMMA TwoMembers ==
    ASSUME NEW S, IsFiniteSet(S)
    PROVE  Cardinality(S) >= 2 <=> \E a, b \in S : a # b
<1>1. Cardinality(S) \in Nat
  BY FS_CardinalityType
<1>2. Cardinality(S) = 0 <=> S = {}
  BY FS_EmptySet
<1>3. Cardinality(S) = 1 <=> \E a : S = {a}
  BY FS_Singleton
<1>4. Cardinality(S) >= 2 <=> Cardinality(S) # 0 /\ Cardinality(S) # 1
  BY <1>1
<1>5. (\E a, b \in S : a # b) <=> S # {} /\ ~\E a : S = {a}
  OBVIOUS
<1> QED BY <1>2, <1>3, <1>4, <1>5, Zenon

SizeAt(p)   == Size[Read(p).data]
DigestAt(p) == Digest[Read(p).data]

Existing == {p \in Paths : Exists(p)}
Shared   == {p \in Existing : \E q \in Existing : q # p /\ SizeAt(q) = SizeAt(p)}

\* S has an entry for each of the paths in P, and no other.
Covers(S, P) == (\A a \in S : a.path \in P) /\ \A p \in P : \E a \in S : a.path = p

\* What a scan that nothing disturbs knows.
FactInv ==
    scan \in Scan /\ scan.quiet =>
        /\ scan.phase = "size" =>
              /\ scan.todo \subseteq Existing
              /\ Covers(scan.sized, Existing \ scan.todo) /\ OneEach(scan.sized)
              /\ \A a \in scan.sized : a.size = SizeAt(a.path)
        /\ scan.phase # "size" =>
              /\ scan.todo \subseteq Shared
              /\ \A a \in scan.hashed : a.digest = DigestAt(a.path)
        /\ scan.phase = "hash" => Covers(scan.hashed, Shared \ scan.todo)
        /\ scan.phase = "stat" =>
              /\ Covers(scan.hashed, Shared) /\ Covers(scan.listed, Shared \ scan.todo)
              /\ \A a \in scan.listed :
                    a.digest = DigestAt(a.path) /\ a.size = SizeAt(a.path) /\ a.mtime = Read(a.path).mtime

LEMMA CandidatesAreShared ==
    ASSUME NEW sized, Covers(sized, Existing), OneEach(sized), \A a \in sized : a.size = SizeAt(a.path)
    PROVE  Candidates(sized) = Shared
<1> DEFINE S(a) == {b \in sized : b.size = a.size}
<1>1. ASSUME NEW a \in sized
      PROVE  Cardinality(S(a)) >= 2 <=> \E q \in Existing : q # a.path /\ SizeAt(q) = SizeAt(a.path)
  <2>1. IsFiniteSet(S(a))
    <3>1. OneEach(S(a)) /\ \A b \in S(a) : b.path \in Paths
      BY DEF OneEach, Covers, Existing
    <3> HIDE DEF S
    <3> QED BY <3>1, OneEachFinite
  <2>2. Cardinality(S(a)) >= 2 <=> \E b, c \in S(a) : b # c
    <3> HIDE DEF S
    <3> QED BY <2>1, TwoMembers
  <2>3. (\E b, c \in S(a) : b # c) <=> \E b \in sized : b # a /\ b.size = a.size
    OBVIOUS
  <2>4. (\E b \in sized : b # a /\ b.size = a.size) <=> \E b \in sized : b.path # a.path /\ b.size = a.size
    BY DEF OneEach
  <2>5. (\E b \in sized : b.path # a.path /\ b.size = a.size)
           <=> \E q \in Existing : q # a.path /\ SizeAt(q) = SizeAt(a.path)
    BY DEF Covers
  <2> HIDE DEF S
  <2> QED BY <2>2, <2>3, <2>4, <2>5
<1>2. \A p : p \in Candidates(sized) <=> \E a \in sized : p = a.path /\ Cardinality(S(a)) >= 2
  BY DEF Candidates
<1> HIDE DEF S
<1>3. \A p : p \in Candidates(sized) <=> p \in Shared
  BY <1>1, <1>2 DEF Covers, Shared
<1> QED BY <1>3

LEMMA SameFiles ==
    ASSUME UNCHANGED node
    PROVE  /\ \A p : Read(p)' = Read(p) /\ Exists(p)' = Exists(p)
           /\ \A p : SizeAt(p)' = SizeAt(p) /\ DigestAt(p)' = DigestAt(p)
           /\ Existing' = Existing /\ Shared' = Shared
<1>1. \A p : Read(p)' = Read(p)
  BY DEF Read
<1>2. \A p : Exists(p)' = Exists(p)
  BY <1>1 DEF Exists
<1>3. \A p : SizeAt(p)' = SizeAt(p) /\ DigestAt(p)' = DigestAt(p)
  BY <1>1 DEF SizeAt, DigestAt
<1>4. Existing' = Existing
  BY <1>2 DEF Existing
<1>5. Shared' = Shared
  BY <1>3, <1>4 DEF Shared
<1> QED BY <1>1, <1>2, <1>3, <1>4, <1>5

LEMMA FactStep ==
    ASSUME TypeOK, ScanInv, FactInv, [Next]_vars
    PROVE  FactInv'
<1>1. scan = NoScan \/ scan \in Scan
  BY DEF TypeOK
<1>2. CASE UNCHANGED <<node, scan>>
  BY <1>2, SameFiles DEF FactInv
<1>3. CASE scan' = Noticed(scan)
  <2>1. ~(scan' \in Scan /\ scan'.quiet)
    BY <1>1, <1>3, NoticedScan, NoScanIsNone
  <2> QED BY <2>1 DEF FactInv
<1>4. CASE ScanStart
  <2>1. /\ scan'.phase = "size" /\ scan'.todo = Existing /\ scan'.sized = {} /\ UNCHANGED node
    BY <1>4 DEF ScanStart, Existing
  <2> QED BY <2>1, SameFiles DEF FactInv, Covers, OneEach
<1>5. CASE ScanDone
  BY <1>5, NoScanIsNone DEF ScanDone, FactInv
<1>6. CASE HashStart
  <2>1. scan \in Scan
    BY <1>1, <1>6 DEF HashStart, NoScan
  <2>2. /\ scan.phase = "size" /\ scan.todo = {} /\ scan'.phase = "hash" /\ scan'.quiet = scan.quiet
        /\ scan'.hashed = scan.hashed /\ scan'.todo = Candidates(scan.sized) /\ UNCHANGED node
    BY <1>6, <2>1 DEF HashStart, Scan
  <2>3. scan.hashed = {}
    BY <2>1, <2>2 DEF ScanInv
  <2>4. CASE scan.quiet
    <3>1. Candidates(scan.sized) = Shared
      BY <2>1, <2>2, <2>4, CandidatesAreShared DEF FactInv
    <3> QED BY <2>1, <2>2, <2>3, <3>1, SameFiles DEF FactInv, Covers
  <2>5. CASE ~scan.quiet
    BY <2>2, <2>5 DEF FactInv
  <2> QED BY <2>4, <2>5
<1>7. CASE StatStart
  <2>1. scan \in Scan
    BY <1>1, <1>7 DEF StatStart, NoScan
  <2>2. /\ scan.phase = "hash" /\ scan.todo = {} /\ scan'.phase = "stat" /\ scan'.quiet = scan.quiet
        /\ scan'.hashed = scan.hashed /\ scan'.listed = scan.listed
        /\ scan'.todo = {h.path : h \in scan.hashed} /\ UNCHANGED node
    BY <1>7, <2>1 DEF StatStart, Scan
  <2>3. scan.listed = {}
    BY <2>1, <2>2 DEF ScanInv
  <2>4. CASE scan.quiet
    <3>1. Covers(scan.hashed, Shared)
      BY <2>1, <2>2, <2>4 DEF FactInv
    <3>2. scan'.todo = Shared
      BY <2>2, <3>1 DEF Covers
    <3> QED BY <2>1, <2>2, <2>3, <2>4, <3>1, <3>2, SameFiles DEF FactInv, Covers
  <2>5. CASE ~scan.quiet
    BY <2>2, <2>5 DEF FactInv
  <2> QED BY <2>4, <2>5
<1>8. ASSUME NEW p \in Paths, SizeOne(p) PROVE FactInv'
  <2>1. scan.phase = "size" /\ p \in scan.todo /\ UNCHANGED node
    BY <1>8 DEF SizeOne, Reads
  <2>2. scan \in Scan
    BY <1>1, <2>1 DEF NoScan
  <2>3. /\ scan'.phase = "size" /\ scan'.quiet = scan.quiet /\ scan'.todo = scan.todo \ {p}
        /\ scan'.sized = scan.sized \cup (IF Exists(p) THEN {[path |-> p, size |-> SizeAt(p)]} ELSE {})
    BY <1>8, <2>1, <2>2 DEF SizeOne, Scan, SizeAt
  <2>4. CASE scan.quiet
    <3>1. /\ scan.todo \subseteq Existing /\ Covers(scan.sized, Existing \ scan.todo) /\ OneEach(scan.sized)
          /\ \A a \in scan.sized : a.size = SizeAt(a.path)
      BY <2>1, <2>2, <2>4 DEF FactInv
    <3> DEFINE a == [path |-> p, size |-> SizeAt(p)]
    <3>2. scan'.sized = scan.sized \cup {a} /\ p \in Existing
      BY <2>1, <2>3, <3>1 DEF Existing
    <3>3. a.path = p /\ a.size = SizeAt(p)
      OBVIOUS
    <3> HIDE DEF a
    <3>4. Covers(scan'.sized, Existing \ scan'.todo)
      BY <2>1, <2>3, <3>1, <3>2, <3>3 DEF Covers
    <3>5. OneEach(scan'.sized)
      BY <2>1, <3>1, <3>2, <3>3 DEF OneEach, Covers
    <3>6. \A b \in scan'.sized : b.size = SizeAt(b.path)
      BY <3>1, <3>2, <3>3
    <3>7. scan'.todo \subseteq Existing
      BY <2>3, <3>1
    <3> QED BY <2>1, <2>3, <3>4, <3>5, <3>6, <3>7, SameFiles DEF FactInv
  <2>5. CASE ~scan.quiet
    BY <2>3, <2>5 DEF FactInv
  <2> QED BY <2>4, <2>5
<1>9. ASSUME NEW p \in Paths, HashOne(p) PROVE FactInv'
  <2>1. scan.phase = "hash" /\ p \in scan.todo /\ UNCHANGED node
    BY <1>9 DEF HashOne, Reads
  <2>2. scan \in Scan
    BY <1>1, <2>1 DEF NoScan
  <2>3. /\ scan'.phase = "hash" /\ scan'.quiet = scan.quiet /\ scan'.todo = scan.todo \ {p}
        /\ scan'.hashed = scan.hashed \cup (IF Exists(p) THEN {[path |-> p, digest |-> DigestAt(p)]} ELSE {})
    BY <1>9, <2>1, <2>2 DEF HashOne, Scan, DigestAt
  <2>4. CASE scan.quiet
    <3>1. /\ scan.todo \subseteq Shared /\ Covers(scan.hashed, Shared \ scan.todo)
          /\ \A a \in scan.hashed : a.digest = DigestAt(a.path)
      BY <2>1, <2>2, <2>4 DEF FactInv
    <3> DEFINE a == [path |-> p, digest |-> DigestAt(p)]
    <3>2. scan'.hashed = scan.hashed \cup {a} /\ p \in Shared
      BY <2>1, <2>3, <3>1 DEF Shared, Existing
    <3>3. a.path = p /\ a.digest = DigestAt(p)
      OBVIOUS
    <3> HIDE DEF a
    <3>4. Covers(scan'.hashed, Shared \ scan'.todo)
      BY <2>1, <2>3, <3>1, <3>2, <3>3 DEF Covers
    <3>5. \A b \in scan'.hashed : b.digest = DigestAt(b.path)
      BY <3>1, <3>2, <3>3
    <3>6. scan'.todo \subseteq Shared
      BY <2>3, <3>1
    <3> QED BY <2>1, <2>3, <3>4, <3>5, <3>6, SameFiles DEF FactInv
  <2>5. CASE ~scan.quiet
    BY <2>3, <2>5 DEF FactInv
  <2> QED BY <2>4, <2>5
<1>10. ASSUME NEW p \in Paths, StatOne(p) PROVE FactInv'
  <2>1. scan.phase = "stat" /\ p \in scan.todo /\ UNCHANGED node
    BY <1>10 DEF StatOne, Reads
  <2>2. scan \in Scan
    BY <1>1, <2>1 DEF NoScan
  <2> DEFINE new(h) == [path |-> p, digest |-> h.digest, size |-> SizeAt(p), mtime |-> Read(p).mtime]
  <2>3. /\ scan'.phase = "stat" /\ scan'.quiet = scan.quiet /\ scan'.todo = scan.todo \ {p}
        /\ scan'.hashed = scan.hashed
        /\ scan'.listed = scan.listed \cup {new(h) : h \in {x \in scan.hashed : x.path = p /\ Exists(p)}}
    BY <1>10, <2>1, <2>2 DEF StatOne, Scan, SizeAt
  <2>4. CASE scan.quiet
    <3>1. /\ scan.todo \subseteq Shared /\ Covers(scan.hashed, Shared) /\ Covers(scan.listed, Shared \ scan.todo)
          /\ \A a \in scan.hashed : a.digest = DigestAt(a.path)
      BY <2>1, <2>2, <2>4 DEF FactInv
    <3>2. \A a \in scan.listed :
             a.digest = DigestAt(a.path) /\ a.size = SizeAt(a.path) /\ a.mtime = Read(a.path).mtime
      BY <2>1, <2>2, <2>4 DEF FactInv
    <3>3. PICK h \in scan.hashed : h.path = p /\ h.digest = DigestAt(p)
      BY <2>1, <3>1 DEF Covers
    <3>4. p \in Shared /\ Exists(p)
      BY <2>1, <3>1 DEF Shared, Existing
    <3>5. /\ \A g : new(g).path = p /\ new(g).size = SizeAt(p) /\ new(g).mtime = Read(p).mtime
          /\ \A g : new(g).digest = g.digest
      OBVIOUS
    <3>6. new(h) \in scan'.listed
      BY <2>3, <3>3, <3>4
    <3>7. \A b \in scan'.listed :
             \/ b \in scan.listed
             \/ b.path = p /\ b.digest = DigestAt(p) /\ b.size = SizeAt(p) /\ b.mtime = Read(p).mtime
      BY <2>3, <3>1
    <3>8. Covers(scan'.listed, Shared \ scan'.todo)
      <4>1. scan.listed \subseteq scan'.listed
        BY <2>3
      <4> HIDE DEF new
      <4> QED BY <2>1, <2>3, <3>1, <3>4, <3>5, <3>6, <3>7, <4>1 DEF Covers
    <3>9. \A b \in scan'.listed :
             b.digest = DigestAt(b.path) /\ b.size = SizeAt(b.path) /\ b.mtime = Read(b.path).mtime
      BY <3>2, <3>7
    <3>10. scan'.todo \subseteq Shared
      BY <2>3, <3>1
    <3> HIDE DEF new
    <3> QED BY <2>1, <2>3, <3>1, <3>8, <3>9, <3>10, SameFiles DEF FactInv
  <2>5. CASE ~scan.quiet
    BY <2>3, <2>5 DEF FactInv
  <2> QED BY <2>4, <2>5
<1>11. ASSUME \/ \E p \in Paths : UserDeletes(p) \/ RecycleOne(p) \/ \E c \in Contents : UserWrites(p, c)
       PROVE  scan' = Noticed(scan)
  BY <1>11 DEF UserDeletes, UserWrites, RecycleOne, Upset
<1>12. ASSUME Click \/ Dismiss \/ Confirm \/ Compare \/ PlanDone \/ Interrupt \/ Finish
              \/ (\E p \in Paths : SkipOne(p)) \/ UNCHANGED vars
       PROVE  UNCHANGED <<node, scan>>
  BY <1>12 DEF Click, Dismiss, Confirm, Compare, PlanDone, Interrupt, Finish, SkipOne, vars
<1> QED
  BY <1>2, <1>3, <1>4, <1>5, <1>6, <1>7, <1>8, <1>9, <1>10, <1>11, <1>12 DEF Next

\* Two existing files are in one group if they are the same, and only if they share
\* size and digest.
LEMMA ListedGroups ==
    ASSUME TypeOK, NEW listed, OneEach(listed), Covers(listed, Shared),
           \A a \in listed : a.digest = DigestAt(a.path) /\ a.size = SizeAt(a.path),
           NEW p \in Paths, NEW q \in Paths, p # q, Exists(p), Exists(q)
    PROVE  LET together == \E g \in Groups(listed) : {p, q} \subseteq PathsOf(g)
           IN  /\ Identical(p, q) => together
               /\ together => SizeAt(p) = SizeAt(q) /\ DigestAt(p) = DigestAt(q)
<1>1. ASSUME Identical(p, q) PROVE \E g \in Groups(listed) : {p, q} \subseteq PathsOf(g)
  <2>1. SizeAt(p) = SizeAt(q) /\ DigestAt(p) = DigestAt(q)
    BY <1>1 DEF Identical, SizeAt, DigestAt
  <2>2. p \in Shared /\ q \in Shared
    BY <2>1 DEF Shared, Existing
  <2>3. PICK a \in listed : a.path = p
    BY <2>2 DEF Covers
  <2>4. PICK b \in listed : b.path = q
    BY <2>2 DEF Covers
  <2> DEFINE g == GroupOf(listed, a.digest, a.size)
             e == [path |-> a.path, mtime |-> a.mtime]
             f == [path |-> b.path, mtime |-> b.mtime]
  <2>5. e \in g.files /\ f \in g.files /\ e.path = p /\ f.path = q
    <3>1. b.digest = a.digest /\ b.size = a.size
      BY <2>1, <2>3, <2>4
    <3>2. e.path = p /\ f.path = q
      BY <2>3, <2>4
    <3> QED BY <3>1, <3>2, InGroup
  <2>6. Cardinality(g.files) >= 2
    <3>1. \A x \in g.files : \E y \in listed : x = [path |-> y.path, mtime |-> y.mtime]
      BY InGroup
    <3>2. OneEach(g.files) /\ \A x \in g.files : x.path \in Paths
      BY <3>1 DEF OneEach, Covers, Shared, Existing
    <3>3. e # f
      BY <2>5
    <3> HIDE DEF g, e, f
    <3> QED BY <2>5, <3>2, <3>3, OneEachFinite, TwoMembers
  <2>7. g \in Groups(listed)
    BY <2>6, GroupsAre
  <2> HIDE DEF g, e, f
  <2> QED BY <2>5, <2>7 DEF PathsOf
<1>2. ASSUME NEW g \in Groups(listed), {p, q} \subseteq PathsOf(g)
      PROVE  SizeAt(p) = SizeAt(q) /\ DigestAt(p) = DigestAt(q)
  <2>1. PICK d, s : g = GroupOf(listed, d, s)
    BY GroupsAre
  <2>2. \A e \in g.files : SizeAt(e.path) = s /\ DigestAt(e.path) = d
    <3> SUFFICES ASSUME NEW e \in g.files PROVE SizeAt(e.path) = s /\ DigestAt(e.path) = d
      OBVIOUS
    <3>1. PICK a \in listed : a.digest = d /\ a.size = s /\ e = [path |-> a.path, mtime |-> a.mtime]
      BY <2>1, InGroup
    <3>2. e.path = a.path
      BY <3>1
    <3> QED BY <3>1, <3>2
  <2> QED BY <1>2, <2>2 DEF PathsOf
<1> QED BY <1>1, <1>2

\* The groups on screen, and that they name no file that is gone.
ScreenInv ==
    /\ GroupsAreRight
    /\ screen.fresh => \A g \in screen.groups : \A p \in PathsOf(g) : Exists(p)

LEMMA ScreenStep ==
    ASSUME TypeOK, ScanInv, FactInv, ScreenInv, [Next]_vars
    PROVE  ScreenInv'
<1>1. CASE UNCHANGED <<node, screen>>
  <2>1. \A p, q : Identical(p, q)' = Identical(p, q)
    BY <1>1, SameFiles DEF Identical
  <2> QED BY <1>1, <2>1, SameFiles DEF ScreenInv, GroupsAreRight, PathsOf, SizeAt, DigestAt
<1>2. CASE screen'.fresh = FALSE
  BY <1>2 DEF ScreenInv, GroupsAreRight
<1>3. CASE ScanDone
  <2>1. scan.phase = "stat" /\ scan.todo = {} /\ UNCHANGED node
        /\ screen'.groups = Groups(scan.listed) /\ screen'.fresh = scan.quiet
    BY <1>3 DEF ScanDone
  <2>2. scan \in Scan
    BY <2>1 DEF TypeOK, NoScan
  <2> SUFFICES ASSUME scan.quiet PROVE ScreenInv'
    BY <1>2, <2>1, <2>2 DEF Scan
  <2>3. /\ OneEach(scan.listed) /\ Covers(scan.listed, Shared)
        /\ \A a \in scan.listed : a.digest = DigestAt(a.path) /\ a.size = SizeAt(a.path)
    BY <2>1, <2>2 DEF ScanInv, FactInv
  <2>4. \A g \in Groups(scan.listed) : \A p \in PathsOf(g) : Exists(p)
    <3> SUFFICES ASSUME NEW g \in Groups(scan.listed), NEW e \in g.files PROVE Exists(e.path)
      BY DEF PathsOf
    <3>1. PICK d, s : g = GroupOf(scan.listed, d, s)
      BY GroupsAre
    <3>2. PICK a \in scan.listed : e = [path |-> a.path, mtime |-> a.mtime]
      BY <3>1, InGroup
    <3> QED BY <2>3, <3>2 DEF Covers, Shared, Existing
  <2>5. ASSUME NEW p \in Paths, NEW q \in Paths, p # q, Exists(p), Exists(q)
        PROVE  LET together == \E g \in Groups(scan.listed) : {p, q} \subseteq PathsOf(g)
               IN  /\ Identical(p, q) => together
                   /\ together => SizeAt(p) = SizeAt(q) /\ DigestAt(p) = DigestAt(q)
    BY <2>3, <2>5, ListedGroups
  <2>6. \A p, q : Identical(p, q)' = Identical(p, q)
    BY <2>1, SameFiles DEF Identical
  <2>7. GroupsAreRight'
    BY <2>1, <2>5, <2>6, SameFiles DEF GroupsAreRight, PathsOf, SizeAt, DigestAt
  <2> QED BY <2>1, <2>4, <2>7, SameFiles DEF ScreenInv
<1>4. (\E p \in Paths : UserDeletes(p) \/ RecycleOne(p) \/ \E c \in Contents : UserWrites(p, c))
         => screen'.fresh = FALSE
  BY DEF UserDeletes, UserWrites, RecycleOne, Upset, TypeOK
<1> QED
  BY <1>1, <1>2, <1>3, <1>4
  DEF Next, vars, ScanStart, HashStart, StatStart, SizeOne, HashOne, StatOne, Reads,
      Click, Dismiss, Confirm, Compare, PlanDone, Interrupt, SkipOne, Finish

\* The groups on screen are right when nothing has changed since the scan began.
THEOREM GroupsStayRight == Spec => []GroupsAreRight
<1> DEFINE Inv == TypeOK /\ ScanInv /\ FactInv /\ ScreenInv
<1>1. Init => Inv
  BY InitType, InitInv, NoScanIsNone DEF Init, FactInv, ScreenInv, GroupsAreRight
<1>2. Inv /\ [Next]_vars => Inv'
  BY TypeStep, ScanStepKeeps, FactStep, ScreenStep
<1>3. Inv => GroupsAreRight
  BY DEF ScreenInv
<1> QED BY <1>1, <1>2, <1>3, PTL DEF Spec

-----------------------------------------------------------------------------
(* A resolve leaves no second copy behind.                                 *)

\* Nothing has interfered since the scan: what is the same as a keeper of its group
\* is to be compared with it, or to be recycled.
DoneInv ==
    run \in Run /\ run.fresh =>
        \A g \in run.groups :
            /\ run.at = "dialog" => \A p \in PathsOf(g) : Exists(p)
            /\ run.at # "dialog" =>
                  \A k \in run.keepers \cap PathsOf(g) :
                      /\ Exists(k)
                      /\ \A p \in PathsOf(g) : Identical(k, p) /\ p # k =>
                            p \in run.doomed \/ \E c \in run.todo : c.keep = k /\ c.path = p

LEMMA DoneStep ==
    ASSUME TypeOK, NoLinks, ApartInv, KeepInv, ScreenInv, DoneInv, [Next]_vars
    PROVE  DoneInv'
<1>1. run.at # "off" => run \in Run
  BY DEF TypeOK, NoRun
<1>2. NoRun.at = "off" /\ NoRun \notin Run
  BY NoScanIsNone DEF NoRun
<1>3. CASE UNCHANGED <<node, run>>
  <2>1. \A p, q : Identical(p, q)' = Identical(p, q)
    BY <1>3, SameFiles DEF Identical
  <2> QED BY <1>3, <2>1, SameFiles DEF DoneInv, PathsOf
<1>4. CASE run' = NoRun
  BY <1>2, <1>4 DEF DoneInv
<1>5. CASE Upset
  <2>1. CASE run = NoRun
    BY <1>4, <1>5, <2>1 DEF Upset
  <2>2. CASE run \in Run
    <3>1. run' = [run EXCEPT !.quiet = FALSE, !.fresh = FALSE]
      BY <1>2, <1>5, <2>2 DEF Upset
    <3>2. run'.fresh = FALSE
      BY <2>2, <3>1 DEF Run
    <3> QED BY <3>2 DEF DoneInv
  <2> QED BY <2>1, <2>2 DEF TypeOK
<1>6. CASE Click
  <2>1. run'.at = "dialog" /\ run'.groups \subseteq screen.groups /\ run'.fresh = screen.fresh /\ UNCHANGED node
    BY <1>6 DEF Click
  <2> QED BY <2>1, SameFiles DEF DoneInv, ScreenInv, PathsOf
<1>7. CASE Confirm
  <2>1. run \in Run /\ run.at = "dialog" /\ UNCHANGED node
    BY <1>1, <1>7 DEF Confirm
  <2>2. PICK keeper : Chosen(keeper)
    BY <1>7, ConfirmChooses
  <2>3. Apart(run.groups)
    BY <2>1 DEF ApartInv
  <2>4. /\ run'.at = "plan" /\ run'.fresh = run.fresh /\ run'.groups = run.groups
        /\ run'.keepers = {keeper[g] : g \in run.groups} \ {NoPath}
    BY <2>1, <2>2, ConfirmSets
  <2>5. ASSUME run.fresh, NEW g \in run.groups, NEW k \in run'.keepers \cap PathsOf(g)
        PROVE  /\ Exists(k)
               /\ \A p \in PathsOf(g) : p # k => \E c \in run'.todo : c.keep = k /\ c.path = p
    <3>1. PICK h \in run.groups : k = keeper[h] /\ keeper[h] # NoPath
      BY <2>4, <2>5
    <3>2. keeper[h] \in PathsOf(h)
      BY <2>1, <2>2, <2>3, <3>1, ChosenPairs
    <3>3. g = h
      BY <2>3, <2>5, <3>1, <3>2 DEF Apart, PathsOf
    <3>4. Exists(k)
      BY <2>1, <2>5 DEF DoneInv
    <3>5. \A e \in g.files : e.path # k => \E c \in run'.todo : c.keep = k /\ c.path = e.path
      BY <2>1, <2>2, <2>3, <3>1, <3>3, ChosenPairs
    <3> QED BY <3>4, <3>5 DEF PathsOf
  <2> QED BY <2>1, <2>4, <2>5, SameFiles DEF DoneInv, PathsOf
<1>8. CASE Compare
  <2>1. run \in Run /\ run.at = "plan" /\ UNCHANGED node
    BY <1>1, <1>8 DEF Compare
  <2>2. PICK c \in run.todo :
          run' = [run EXCEPT !.todo = @ \ {c},
                             !.doomed = IF Identical(c.keep, c.path) THEN @ \cup {c.path} ELSE @]
    BY <1>8 DEF Compare
  <2>3. /\ run'.at = "plan" /\ run'.fresh = run.fresh /\ run'.groups = run.groups
        /\ run'.keepers = run.keepers /\ run'.todo = run.todo \ {c}
        /\ run'.doomed = (IF Identical(c.keep, c.path) THEN run.doomed \cup {c.path} ELSE run.doomed)
    BY <2>1, <2>2 DEF Run
  <2>4. \A p, q : Identical(p, q)' = Identical(p, q)
    BY <2>1, SameFiles DEF Identical
  <2>5. ASSUME run.fresh, NEW g \in run.groups, NEW k \in run.keepers \cap PathsOf(g)
        PROVE  /\ Exists(k)
               /\ \A p \in PathsOf(g) : Identical(k, p) /\ p # k =>
                     p \in run'.doomed \/ \E d \in run'.todo : d.keep = k /\ d.path = p
    <3>1. /\ Exists(k)
          /\ \A p \in PathsOf(g) : Identical(k, p) /\ p # k =>
                p \in run.doomed \/ \E d \in run.todo : d.keep = k /\ d.path = p
      BY <2>1, <2>5 DEF DoneInv
    <3> QED BY <2>3, <3>1
  <2> QED BY <2>1, <2>3, <2>4, <2>5, SameFiles DEF DoneInv, PathsOf
<1>9. CASE PlanDone
  <2>1. run \in Run /\ run.at = "plan" /\ UNCHANGED node
    BY <1>1, <1>9 DEF PlanDone
  <2>2. CASE run' = [run EXCEPT !.at = "recycle"]
    <3>1. /\ run'.at = "recycle" /\ run'.fresh = run.fresh /\ run'.groups = run.groups
          /\ run'.keepers = run.keepers /\ run'.todo = run.todo /\ run'.doomed = run.doomed
      BY <2>1, <2>2 DEF Run
    <3>2. \A p, q : Identical(p, q)' = Identical(p, q)
      BY <2>1, SameFiles DEF Identical
    <3> QED BY <2>1, <3>1, <3>2, SameFiles DEF DoneInv, PathsOf
  <2> QED BY <1>4, <1>9, <2>2 DEF PlanDone
<1>10. ASSUME NEW p \in Paths, SkipOne(p) PROVE DoneInv'
  <2>1. run \in Run
    BY <1>1, <1>10 DEF SkipOne
  <2>2. run'.fresh = FALSE
    BY <1>10, <2>1 DEF SkipOne, Run
  <2> QED BY <2>2 DEF DoneInv
<1>11. ASSUME NEW p \in Paths, RecycleOne(p) PROVE DoneInv'
  <2>1. run \in Run /\ run.at = "recycle" /\ p \in run.doomed /\ node' = [node EXCEPT ![p] = Gone]
    BY <1>1, <1>11 DEF RecycleOne
  <2>2. /\ run'.at = "recycle" /\ run'.fresh = run.fresh /\ run'.groups = run.groups
        /\ run'.keepers = run.keepers /\ run'.todo = run.todo /\ run'.doomed = run.doomed \ {p}
    BY <1>11, <2>1 DEF RecycleOne, Run
  <2>3. p \notin run.keepers /\ run.keepers \subseteq Paths /\ run.todo = {}
    BY <2>1 DEF KeepInv, Working, Targets, Run
  <2>4. /\ \A q \in Paths : q # p => node'[q] = node[q]
        /\ node'[p] = Gone
    BY <2>1 DEF TypeOK
  <2>5. NoLinks' /\ Gone.kind # "file"
    BY NoLinksStep DEF Gone
  <2>6. ASSUME run.fresh, NEW g \in run.groups, NEW k \in run.keepers \cap PathsOf(g)
        PROVE  /\ Exists(k)'
               /\ \A q \in PathsOf(g) : Identical(k, q)' /\ q # k => q \in run'.doomed
    <3>1. /\ Exists(k)
          /\ \A q \in PathsOf(g) : Identical(k, q) /\ q # k =>
                q \in run.doomed \/ \E c \in run.todo : c.keep = k /\ c.path = q
      BY <2>1, <2>6 DEF DoneInv
    <3>2. k \in Paths /\ k # p /\ PathsOf(g) \subseteq Paths
      BY <2>1, <2>3, <2>6 DEF Run, Group, Entry, PathsOf
    <3>3. \A q \in Paths : Read(q) = node[q] /\ Read(q)' = node'[q]
      BY <2>5 DEF NoLinks, Read
    <3>4. Exists(k)'
      BY <2>4, <3>1, <3>2, <3>3 DEF Exists
    <3>5. ASSUME NEW q \in PathsOf(g), Identical(k, q)', q # k PROVE q \in run'.doomed
      <4>1. q # p
        BY <2>4, <2>5, <3>2, <3>3, <3>5 DEF Identical, Exists
      <4>2. Identical(k, q)
        BY <2>4, <3>2, <3>3, <3>5, <4>1 DEF Identical, Exists
      <4> QED BY <2>2, <2>3, <3>1, <3>5, <4>1, <4>2
    <3> QED BY <3>4, <3>5
  <2> QED BY <2>1, <2>2, <2>6 DEF DoneInv, PathsOf
<1>12. Dismiss \/ Interrupt \/ Finish => run' = NoRun
  BY DEF Dismiss, Interrupt, Finish
<1>13. ASSUME \/ UNCHANGED vars \/ ScanStart \/ HashStart \/ StatStart \/ ScanDone
              \/ \E p \in Paths : SizeOne(p) \/ HashOne(p) \/ StatOne(p)
       PROVE  UNCHANGED <<node, run>>
  BY <1>13 DEF vars, ScanStart, HashStart, StatStart, SizeOne, HashOne, StatOne, Reads, ScanDone
<1>14. (\E p \in Paths : UserDeletes(p) \/ \E c \in Contents : UserWrites(p, c)) => Upset
  BY DEF UserDeletes, UserWrites
<1> QED
  BY <1>3, <1>4, <1>5, <1>6, <1>7, <1>8, <1>9, <1>10, <1>11, <1>12, <1>13, <1>14 DEF Next

\* A resolve that nothing has interfered with since the scan began leaves, of all the
\* files of a group that are the same as its keeper, the keeper only, in a tree
\* without symbolic links.
THEOREM ResolveCompletes ==
    ASSUME Linked = {}
    PROVE  Spec => []ResolveIsComplete
<1> DEFINE Inv == TypeOK /\ NoLinks /\ ScanInv /\ FactInv /\ ScreenInv /\ ApartInv /\ KeepInv /\ DoneInv
<1>1. Init => Inv
  BY InitType, InitInv, NoLinksInit, NoScanIsNone DEF Init, FactInv, ScreenInv, GroupsAreRight, DoneInv
<1>2. Inv /\ [Next]_vars => Inv'
  BY TypeStep, NoLinksStep, ScanStepKeeps, FactStep, ScreenStep, ApartStep, KeepStep, DoneStep
<1>3. Inv => ResolveIsComplete
  <2> SUFFICES ASSUME Inv, run.at = "recycle", run.doomed = {}, run.fresh,
                      NEW g \in run.groups, NEW k \in run.keepers \cap PathsOf(g)
               PROVE  Exists(k) /\ \A e \in g.files : Identical(k, e.path) => e.path = k
    BY DEF ResolveIsComplete, PathsOf
  <2>1. run \in Run
    BY DEF TypeOK, NoRun
  <2>2. run.todo = {}
    BY <2>1 DEF KeepInv, Working
  <2>3. Exists(k) /\ \A p \in PathsOf(g) : Identical(k, p) => p = k
    BY <2>1, <2>2 DEF DoneInv
  <2> QED BY <2>3 DEF PathsOf
<1> QED BY <1>1, <1>2, <1>3, PTL DEF Spec
=============================================================================
