--------------------------- MODULE Storage_proofs ---------------------------
(* Theorems about Storage, for every value of its constants. *)
EXTENDS Storage, TLAPS

-----------------------------------------------------------------------------
(* Type correctness.                                                       *)

\* What _mirror() returns is a function from slots to rows.
LEMMA MirrorsType == ASSUME TypeOK PROVE Mirrors \in SUBSET [Slots -> Row]
BY DEF TypeOK, Mirrors, NoRows, Row

LEMMA NoJobType == NoJob \in Job
BY DEF NoJob, Job, NoRows, Row

\* The fields of a worker's job have their types.
LEMMA JobParts ==
    ASSUME TypeOK, NEW p \in Workers
    PROVE  /\ job[p] \in Job
           /\ job[p].tables \in SUBSET Tables
           /\ job[p].removals \in SUBSET Slots
           /\ job[p].rows \in [Slots -> Row]
           /\ job[p].upserts \in SUBSET Slots
           /\ job[p].removes \in SUBSET Slots
           /\ job[p].copy \in [Slots -> Row]
<1>1. job[p] \in Job
  BY DEF TypeOK
<1> QED
  BY <1>1 DEF Job

LEMMA InitType == Init => TypeOK
<1> SUFFICES ASSUME Init PROVE TypeOK
  OBVIOUS
<1>1. 0 \in 0 .. MaxWrites
  BY StorageAssumption
<1>2. disk \in [Slots -> Row]
  BY <1>1 DEF Init, Row
<1>3. job \in [Workers -> Job]
  BY NoJobType DEF Init
<1>4. pc \in [Workers -> Places]
  BY DEF Init, Places
<1>5. mirror \in [Slots -> Row]
  BY DEF Init, NoRows, Row
<1> QED
  BY <1>1, <1>2, <1>3, <1>4, <1>5 DEF Init, TypeOK

\* Every step keeps the types.
LEMMA NextType == TypeOK /\ [Next]_vars => TypeOK'
<1> SUFFICES ASSUME TypeOK, [Next]_vars PROVE TypeOK'
  OBVIOUS
<1>0. faulty' \in BOOLEAN /\ orderly' \in BOOLEAN
  BY DEF Next, Watch, vars, TypeOK, Orderly, OneWriterAtATime, NoEarlyIdle, NoRevival
<1> USE StorageAssumption, <1>0
<1>1. ASSUME NEW s \in Slots, StoreSet(s) PROVE TypeOK'
  <2>1. writes + 1 \in 0 .. MaxWrites
    BY <1>1 DEF StoreSet, Stamp, TypeOK
  <2>2. mirror' \in [Slots -> Row]
    BY <1>1, <2>1, MirrorsType DEF StoreSet, Row
  <2>3. stamp' \in [Slots -> 0 .. MaxWrites]
    BY <1>1, <2>1 DEF StoreSet, Stamp, TypeOK
  <2>4. dirty' \in SUBSET Tables
    BY <1>1 DEF StoreSet, MarkDirty, TypeOK, Slots
  <2>5. pc' \in [Workers -> Places]
    BY <1>1 DEF StoreSet, MarkDirty, TypeOK, Places
  <2> QED
    BY <1>1, <2>1, <2>2, <2>3, <2>4, <2>5 DEF StoreSet, MarkDirty, Stamp, TypeOK, file
<1>2. ASSUME NEW s \in Slots, StoreDelete(s) PROVE TypeOK'
  <2>1. writes + 1 \in 0 .. MaxWrites
    BY <1>2 DEF StoreDelete, Stamp, TypeOK
  <2>2. mirror' \in [Slots -> Row]
    BY <1>2, MirrorsType DEF StoreDelete, Row
  <2>3. stamp' \in [Slots -> 0 .. MaxWrites]
    BY <1>2, <2>1 DEF StoreDelete, Stamp, TypeOK
  <2>4. dirty' \in SUBSET Tables
    BY <1>2 DEF StoreDelete, MarkDirty, TypeOK, Slots
  <2>5. pc' \in [Workers -> Places]
    BY <1>2 DEF StoreDelete, MarkDirty, TypeOK, Places
  <2> QED
    BY <1>2, <2>1, <2>2, <2>3, <2>4, <2>5
       DEF StoreDelete, MarkDirty, Stamp, TypeOK, file
<1>3. CASE StoreGet
  BY <1>3, MirrorsType DEF StoreGet, TypeOK, file, hist
<1>4. CASE Wake
  BY <1>4 DEF Wake, TypeOK, Places, file, hist
<1>5. ASSUME NEW p \in Workers, FindIdle(p) PROVE TypeOK'
  BY <1>5 DEF FindIdle, Return, TypeOK, Places, file, hist
<1>6. ASSUME NEW p \in Workers, TakeWork(p) PROVE TypeOK'
  <2>1. job' \in [Workers -> Job]
    BY <1>6 DEF TakeWork, TypeOK, Job, NoRows, Row
  <2> QED
    BY <1>6, <2>1 DEF TakeWork, TypeOK, Places, file, hist
<1>7. ASSUME NEW p \in Workers, ReadFile(p) PROVE TypeOK'
  <2>1. [job[p] EXCEPT !.copy = disk] \in Job
    BY JobParts DEF TypeOK, Job
  <2>2. job' \in [Workers -> Job]
    BY <1>7, <2>1 DEF ReadFile, TypeOK
  <2> QED
    BY <1>7, <2>2 DEF ReadFile, TypeOK, Places, mem, file, hist
<1>8. ASSUME NEW p \in Workers, Upsert(p) PROVE TypeOK'
  <2>1. PICK s \in job[p].upserts :
          /\ disk' = [job[p].copy EXCEPT ![s] = job[p].rows[s]]
          /\ job' = [job EXCEPT ![p].upserts = @ \ {s}]
    BY <1>8 DEF Upsert
  <2>2. disk' \in [Slots -> Row]
    BY <2>1, JobParts
  <2>3. [job[p] EXCEPT !.upserts = @ \ {s}] \in Job
    BY JobParts DEF TypeOK, Job
  <2>4. job' \in [Workers -> Job]
    BY <2>1, <2>3 DEF TypeOK
  <2> QED
    BY <1>8, <2>2, <2>4 DEF Upsert, TypeOK, Places, mem, hist
<1>9. ASSUME NEW p \in Workers, Remove(p) PROVE TypeOK'
  <2>1. PICK s \in job[p].removes :
          /\ disk' = [job[p].copy EXCEPT ![s] = Missing]
          /\ job' = [job EXCEPT ![p].removes = @ \ {s}]
    BY <1>9 DEF Remove
  <2>2. disk' \in [Slots -> Row]
    BY <2>1, JobParts DEF Row
  <2>3. [job[p] EXCEPT !.removes = @ \ {s}] \in Job
    BY JobParts DEF TypeOK, Job
  <2>4. job' \in [Workers -> Job]
    BY <2>1, <2>3 DEF TypeOK
  <2> QED
    BY <1>9, <2>2, <2>4 DEF Remove, TypeOK, Places, mem, hist
<1>10. ASSUME NEW p \in Workers, Fail(p) PROVE TypeOK'
  <2>2. dirty' \in SUBSET Tables /\ deleted' \in SUBSET Slots
    BY <1>10, JobParts DEF Fail, TypeOK
  <2>3. job' \in [Workers -> Job]
    BY <1>10, NoJobType DEF Fail, TypeOK
  <2>4. readable' \in BOOLEAN
    BY <1>10 DEF Fail, TypeOK
  <2> QED
    BY <1>10, <2>2, <2>3, <2>4 DEF Fail, Return, TypeOK, Places, hist
<1>11. ASSUME NEW p \in Workers, Finish(p) PROVE TypeOK'
  <2>1. job' \in [Workers -> Job]
    BY <1>11, NoJobType DEF Finish, TypeOK
  <2> QED
    BY <1>11, <2>1 DEF Finish, Return, TypeOK, Places, file, hist
<1>12. ASSUME NEW f \in Flushers, FlushCall(f) PROVE TypeOK'
  BY <1>12 DEF FlushCall, TypeOK, Places, mem, file
<1>13. ASSUME NEW f \in Flushers, FlushReturn(f) PROVE TypeOK'
  BY <1>13 DEF FlushReturn, TypeOK, Places, mem, file, hist
<1>14. CASE Crash
  <2>1. job' \in [Workers -> Job]
    BY <1>14, NoJobType DEF Crash
  <2>2. readable' \in BOOLEAN
    BY <1>14 DEF Crash, TypeOK
  <2>3. mirror' \in [Slots -> Row]
    BY <1>14 DEF Crash, NoRows, Row
  <2>4. stamp' \in [Slots -> 0 .. MaxWrites]
    BY <1>14 DEF Crash, TypeOK
  <2>5. pc' \in [Workers -> Places]
    BY <1>14 DEF Crash, Places
  <2> QED
    BY <1>14, <2>1, <2>2, <2>3, <2>4, <2>5 DEF Crash, TypeOK
<1>15. CASE UNCHANGED vars
  BY <1>15 DEF vars, mem, file, hist, TypeOK
<1> QED
  BY <1>1, <1>2, <1>3, <1>4, <1>5, <1>6, <1>7, <1>8, <1>9, <1>10, <1>11, <1>12,
     <1>13, <1>14, <1>15 DEF Next, Step, WritePending

\* Every variable of the store keeps its type, whatever the threads do.
THEOREM TypeCorrect == Spec => []TypeOK
<1>1. Init => TypeOK
  BY InitType
<1>2. TypeOK /\ [Next]_vars => TypeOK'
  BY NextType
<1> QED
  BY <1>1, <1>2, PTL DEF Spec
-----------------------------------------------------------------------------
(* Rows nobody touched survive.                                            *)

LEMMA InitUntouched == Init => UntouchedInv
BY DEF Init, UntouchedInv, Untouched, NoRows, Writing

\* A change to one slot leaves every other slot as it was.
LEMMA StampOthers ==
    ASSUME TypeOK, NEW s \in Slots, Stamp(s), NEW r \in Slots, stamp'[r] = 0
    PROVE  r # s /\ stamp[r] = 0
BY StorageAssumption DEF Stamp, TypeOK

LEMMA NextUntouched == TypeOK /\ UntouchedInv /\ [Next]_vars => UntouchedInv'
<1> SUFFICES ASSUME TypeOK, UntouchedInv, [Next]_vars,
                    NEW r \in Slots, stamp'[r] = 0
             PROVE  Untouched(r)'
  BY DEF UntouchedInv
<1>1. ASSUME NEW s \in Slots, StoreSet(s) PROVE Untouched(r)'
  <2>1. r # s /\ Untouched(r)
    BY <1>1, StampOthers DEF StoreSet, UntouchedInv
  <2>2. mirror'[r] \in {disk[r], Missing}
    BY <1>1, <2>1, MirrorsType
       DEF StoreSet, Mirrors, TypeOK, NoRows, Untouched
  <2>3. UNCHANGED <<disk, deleted, job>> /\ pc' = [pc EXCEPT ![Writer] = pc'[Writer]]
    BY <1>1 DEF StoreSet, MarkDirty, file, TypeOK
  <2>4. \A p \in Workers : Writing(p)' => pc'[p] = pc[p]
    BY <1>1 DEF StoreSet, MarkDirty, TypeOK, Writing
  <2> QED
    BY <2>1, <2>2, <2>3, <2>4 DEF Untouched, Writing
<1>2. ASSUME NEW s \in Slots, StoreDelete(s) PROVE Untouched(r)'
  <2>1. r # s /\ Untouched(r)
    BY <1>2, StampOthers DEF StoreDelete, UntouchedInv
  <2>2. mirror'[r] \in {disk[r], Missing}
    BY <1>2, <2>1, MirrorsType
       DEF StoreDelete, Mirrors, TypeOK, NoRows, Untouched
  <2>3. UNCHANGED <<disk, job>> /\ deleted' = deleted \cup {s}
    BY <1>2 DEF StoreDelete, file
  <2>4. \A p \in Workers : Writing(p)' => pc'[p] = pc[p]
    BY <1>2 DEF StoreDelete, MarkDirty, TypeOK, Writing
  <2> QED
    BY <2>1, <2>2, <2>3, <2>4 DEF Untouched, Writing
<1>3. CASE StoreGet
  <2>1. mirror'[r] \in {disk[r], Missing}
    BY <1>3 DEF StoreGet, Mirrors, NoRows, UntouchedInv, Untouched, hist
  <2> QED
    BY <1>3, <2>1 DEF StoreGet, UntouchedInv, Untouched, Writing, file, hist
<1>4. CASE Wake
  <2>1. \A p \in Workers : Writing(p)' => pc'[p] = pc[p]
    BY <1>4 DEF Wake, TypeOK, Writing
  <2> QED
    BY <1>4, <2>1 DEF Wake, UntouchedInv, Untouched, Writing, file, hist
<1>5. ASSUME NEW q \in Workers, FindIdle(q) PROVE Untouched(r)'
  <2>1. \A p \in Workers : Writing(p)' => pc'[p] = pc[p]
    BY <1>5 DEF FindIdle, Return, TypeOK, Writing
  <2> QED
    BY <1>5, <2>1 DEF FindIdle, UntouchedInv, Untouched, Writing, file, hist
<1>6. ASSUME NEW q \in Workers, TakeWork(q) PROVE Untouched(r)'
  <2>1. Untouched(r)
    BY <1>6 DEF TakeWork, UntouchedInv, hist
  <2>2. \A p \in Workers : p # q => job'[p] = job[p] /\ pc'[p] = pc[p]
    BY <1>6 DEF TakeWork, TypeOK
  <2>3. /\ job'[q].upserts = {s \in Slots : s[1] \in dirty /\ mirror[s] # Missing}
        /\ job'[q].rows = mirror
        /\ job'[q].removes = deleted
        /\ job'[q].removals = deleted
        /\ pc'[q] = "writing"
    BY <1>6 DEF TakeWork, TypeOK
  <2>4. UNCHANGED <<mirror, disk>> /\ deleted' = {}
    BY <1>6 DEF TakeWork, file
  <2> QED
    BY <2>1, <2>2, <2>3, <2>4 DEF Untouched, Writing
<1>7. ASSUME NEW q \in Workers, ReadFile(q) PROVE Untouched(r)'
  <2>1. Untouched(r) /\ Writing(q)
    BY <1>7 DEF ReadFile, UntouchedInv, Writing, hist
  <2>2. \A p \in Workers : p # q => job'[p] = job[p] /\ pc'[p] = pc[p]
    BY <1>7 DEF ReadFile, TypeOK
  <2>3. /\ job'[q].upserts = job[q].upserts
        /\ job'[q].rows = job[q].rows
        /\ job'[q].removes = job[q].removes
        /\ job'[q].removals = job[q].removals
        /\ job'[q].copy = disk
    BY <1>7, JobParts DEF ReadFile, TypeOK, Job
  <2>4. UNCHANGED <<mirror, disk, deleted>>
    BY <1>7 DEF ReadFile, file, mem
  <2> QED
    BY <2>1, <2>2, <2>3, <2>4 DEF Untouched, Writing
<1>8. ASSUME NEW q \in Workers, Upsert(q) PROVE Untouched(r)'
  <2>1. Untouched(r) /\ Writing(q) /\ pc[q] = "rewriting"
    BY <1>8 DEF Upsert, UntouchedInv, Writing, hist
  <2>2. PICK s \in job[q].upserts :
          /\ disk' = [job[q].copy EXCEPT ![s] = job[q].rows[s]]
          /\ job' = [job EXCEPT ![q].upserts = @ \ {s}]
    BY <1>8 DEF Upsert
  <2>3. disk'[r] = disk[r]
    BY <2>1, <2>2, JobParts DEF Untouched
  <2>4. \A p \in Workers : p # q => job'[p] = job[p] /\ pc'[p] = pc[p]
    BY <1>8, <2>2 DEF Upsert, TypeOK
  <2>5. /\ job'[q].upserts = job[q].upserts \ {s}
        /\ job'[q].rows = job[q].rows
        /\ job'[q].removes = job[q].removes
        /\ job'[q].removals = job[q].removals
        /\ pc'[q] = "writing"
    BY <1>8, <2>2, JobParts DEF Upsert, TypeOK, Job
  <2>6. UNCHANGED <<mirror, deleted>>
    BY <1>8 DEF Upsert, mem
  <2> QED
    BY <2>1, <2>3, <2>4, <2>5, <2>6 DEF Untouched, Writing
<1>9. ASSUME NEW q \in Workers, Remove(q) PROVE Untouched(r)'
  <2>1. Untouched(r) /\ Writing(q) /\ pc[q] = "rewriting"
    BY <1>9 DEF Remove, UntouchedInv, Writing, hist
  <2>2. PICK s \in job[q].removes :
          /\ disk' = [job[q].copy EXCEPT ![s] = Missing]
          /\ job' = [job EXCEPT ![q].removes = @ \ {s}]
    BY <1>9 DEF Remove
  <2>3. disk'[r] = disk[r]
    BY <2>1, <2>2, JobParts DEF Untouched
  <2>4. \A p \in Workers : p # q => job'[p] = job[p] /\ pc'[p] = pc[p]
    BY <1>9, <2>2 DEF Remove, TypeOK
  <2>5. /\ job'[q].upserts = job[q].upserts
        /\ job'[q].rows = job[q].rows
        /\ job'[q].removes = job[q].removes \ {s}
        /\ job'[q].removals = job[q].removals
        /\ pc'[q] = "writing"
    BY <1>9, <2>2, JobParts DEF Remove, TypeOK, Job
  <2>6. UNCHANGED <<mirror, deleted>>
    BY <1>9 DEF Remove, mem
  <2> QED
    BY <2>1, <2>3, <2>4, <2>5, <2>6 DEF Untouched, Writing
<1>10. ASSUME NEW q \in Workers, Fail(q) PROVE Untouched(r)'
  <2>1. Untouched(r) /\ Writing(q)
    BY <1>10 DEF Fail, UntouchedInv, Writing, hist
  <2>2. \A p \in Workers : p # q => job'[p] = job[p] /\ pc'[p] = pc[p]
    BY <1>10 DEF Fail, Return, TypeOK
  <2>3. ~Writing(q)'
    BY <1>10 DEF Fail, Return, TypeOK, Writing
  <2>4. UNCHANGED <<mirror, disk>> /\ deleted' = deleted \cup job[q].removals
    BY <1>10 DEF Fail
  <2> QED
    BY <2>1, <2>2, <2>3, <2>4 DEF Untouched, Writing
<1>11. ASSUME NEW q \in Workers, Finish(q) PROVE Untouched(r)'
  <2>1. Untouched(r)
    BY <1>11 DEF Finish, UntouchedInv, hist
  <2>2. \A p \in Workers : p # q => job'[p] = job[p] /\ pc'[p] = pc[p]
    BY <1>11 DEF Finish, Return, TypeOK
  <2>3. ~Writing(q)'
    BY <1>11 DEF Finish, Return, TypeOK, Writing
  <2>4. UNCHANGED <<mirror, disk, deleted>>
    BY <1>11 DEF Finish, file
  <2> QED
    BY <2>1, <2>2, <2>3, <2>4 DEF Untouched, Writing
<1>12. ASSUME NEW f \in Flushers, FlushCall(f) PROVE Untouched(r)'
  <2>1. \A p \in Workers : Writing(p)' => pc'[p] = pc[p]
    BY <1>12 DEF FlushCall, TypeOK, Writing, Workers
  <2> QED
    BY <1>12, <2>1 DEF FlushCall, UntouchedInv, Untouched, Writing, mem, file
<1>13. ASSUME NEW f \in Flushers, FlushReturn(f) PROVE Untouched(r)'
  <2>1. \A p \in Workers : Writing(p)' => pc'[p] = pc[p]
    BY <1>13 DEF FlushReturn, TypeOK, Writing, Workers
  <2> QED
    BY <1>13, <2>1 DEF FlushReturn, UntouchedInv, Untouched, Writing, mem, file, hist
<1>14. CASE Crash
  BY <1>14 DEF Crash, Untouched, NoRows, Writing
<1>15. CASE UNCHANGED vars
  BY <1>15 DEF vars, mem, file, hist, UntouchedInv, Untouched, Writing
<1> QED
  BY <1>1, <1>2, <1>3, <1>4, <1>5, <1>6, <1>7, <1>8, <1>9, <1>10, <1>11, <1>12,
     <1>13, <1>14, <1>15 DEF Next, Step, WritePending

\* Only Upsert and Remove write to the disk, and what they write outside the
\* slots that were changed is what is there.
LEMMA StepKeepsUntouched ==
    ASSUME TypeOK, UntouchedInv, [Next]_vars, NEW r \in Slots, disk'[r] # disk[r]
    PROVE  stamp[r] > 0
<1> SUFFICES ASSUME stamp[r] = 0 PROVE FALSE
  BY StorageAssumption DEF TypeOK
<1>1. Untouched(r)
  BY DEF UntouchedInv
<1>2. PICK q \in Workers : Upsert(q) \/ Remove(q)
  BY DEF Next, Step, WritePending, StoreSet, StoreDelete, StoreGet, Wake, FindIdle, TakeWork,
         ReadFile, Fail, Finish, FlushCall, FlushReturn, Crash, file, vars
<1>3. CASE Upsert(q)
  BY <1>1, <1>3, JobParts DEF Upsert, Untouched, Writing
<1>4. CASE Remove(q)
  BY <1>1, <1>4, JobParts DEF Remove, Untouched, Writing
<1> QED
  BY <1>2, <1>3, <1>4

\* A flush never changes a row whose key this process neither set nor deleted:
\* core/storage.py's tracked deletions do their work in every interleaving.
THEOREM RowsSurvive == Spec => UntouchedRowsSurvive
<1>1. Init => TypeOK /\ UntouchedInv
  BY InitType, InitUntouched
<1>2. TypeOK /\ UntouchedInv /\ [Next]_vars => (TypeOK /\ UntouchedInv)'
  BY NextType, NextUntouched
<1>3. TypeOK /\ UntouchedInv /\ [Next]_vars
        => [\A s \in Slots : disk'[s] # disk[s] => stamp[s] > 0]_vars
  BY StepKeepsUntouched
<1> QED
  BY <1>1, <1>2, <1>3, PTL DEF Spec, UntouchedRowsSurvive
-----------------------------------------------------------------------------
(* In the orderly executions, idle means durable.                          *)

LEMMA InitDurable == Init => DurableInv
BY DEF Init, DurableInv, Pending, Writing

\* A step that leaves the data alone and starts or ends nobody's writing.
LEMMA QuietStep ==
    ASSUME DurableInv, UNCHANGED <<mirror, dirty, deleted, disk, job, stamp>>,
           \A p \in Workers : Writing(p) \/ Writing(p)' => pc'[p] = pc[p]
    PROVE  /\ \A p \in Workers : Writing(p)' => JobSound(p)'
           /\ \A s \in Slots : stamp'[s] > 0 => Owed(s)' \/ Landing(s)'
<1>1. \A p \in Workers : Writing(p)' <=> Writing(p)
  BY DEF Writing
<1>2. ASSUME NEW p \in Workers, Writing(p)' PROVE JobSound(p)'
  BY <1>1, <1>2 DEF DurableInv, JobSound
<1>3. ASSUME NEW s \in Slots, stamp'[s] > 0 PROVE Owed(s)' \/ Landing(s)'
  <2>1. Owed(s) \/ Landing(s)
    BY <1>3 DEF DurableInv
  <2>2. Owed(s) => Owed(s)'
    BY DEF Owed
  <2>3. Landing(s) => Landing(s)'
    BY <1>1 DEF Landing
  <2> QED
    BY <2>1, <2>2, <2>3
<1> QED
  BY <1>2, <1>3

\* A call that changes slot s makes it owed and leaves the other slots alone.
LEMMA StampStep ==
    ASSUME TypeOK, DurableInv, NEW s \in Slots, Stamp(s), loaded',
           \A r \in Slots : r # s => (loaded => mirror'[r] = mirror[r]),
           Owed(s)', dirty \subseteq dirty', deleted \subseteq deleted',
           UNCHANGED <<disk, job>>, ~idle',
           \A p \in Workers : Writing(p) \/ Writing(p)' => pc'[p] = pc[p]
    PROVE  DurableInv'
<1>1. \A p \in Workers : Writing(p)' <=> Writing(p)
  BY DEF Writing
<1>2. ASSUME NEW p \in Workers, Writing(p)' PROVE JobSound(p)'
  BY <1>1, <1>2 DEF DurableInv, JobSound
<1>3. ASSUME NEW r \in Slots, stamp'[r] > 0, r # s PROVE Owed(r)' \/ Landing(r)'
  <2>1. stamp[r] > 0
    BY <1>3 DEF Stamp, TypeOK
  <2>2. loaded
    BY <2>1 DEF DurableInv
  <2>3. mirror'[r] = mirror[r]
    BY <1>3, <2>2
  <2>4. Owed(r) \/ Landing(r)
    BY <2>1 DEF DurableInv
  <2>5. Owed(r) => Owed(r)'
    BY <2>3 DEF Owed
  <2>6. Landing(r) => Landing(r)'
    BY <1>1, <2>3 DEF Landing
  <2> QED
    BY <2>4, <2>5, <2>6
<1> QED
  BY <1>2, <1>3 DEF DurableInv

LEMMA NextDurable ==
    TypeOK /\ Orderly /\ DurableInv /\ [Next]_vars /\ Orderly' => DurableInv'
<1> SUFFICES ASSUME TypeOK, Orderly, DurableInv, [Next]_vars, Orderly'
             PROVE  DurableInv'
  OBVIOUS
<1>1. ASSUME NEW s \in Slots, StoreSet(s) PROVE DurableInv'
  <2>1. s[1] \in dirty' /\ mirror'[s] # Missing
    BY <1>1, MirrorsType, StorageAssumption DEF StoreSet, MarkDirty, TypeOK
  <2>2. Owed(s)'
    BY <2>1 DEF Owed
  <2>3. \A p \in Workers : Writing(p) \/ Writing(p)' => pc'[p] = pc[p]
    BY <1>1 DEF StoreSet, MarkDirty, TypeOK, Writing
  <2>4. \A r \in Slots : r # s => (loaded => mirror'[r] = mirror[r])
    BY <1>1 DEF StoreSet, Mirrors, TypeOK
  <2> QED
    BY <1>1, <2>2, <2>3, <2>4, StampStep DEF StoreSet, MarkDirty, file
<1>2. ASSUME NEW s \in Slots, StoreDelete(s) PROVE DurableInv'
  <2>1. Owed(s)'
    BY <1>2 DEF StoreDelete, Owed
  <2>2. \A p \in Workers : Writing(p) \/ Writing(p)' => pc'[p] = pc[p]
    BY <1>2 DEF StoreDelete, MarkDirty, TypeOK, Writing
  <2>3. \A r \in Slots : r # s => (loaded => mirror'[r] = mirror[r])
    BY <1>2 DEF StoreDelete, Mirrors, TypeOK
  <2> QED
    BY <1>2, <2>1, <2>2, <2>3, StampStep DEF StoreDelete, MarkDirty, file
<1>3. CASE StoreGet
  <2>1. \A s \in Slots : stamp'[s] = 0
    BY <1>3 DEF StoreGet, DurableInv, hist
  <2>2. \A s \in Slots : ~(stamp'[s] > 0)
    BY <2>1
  <2> QED
    BY <1>3, <2>2 DEF StoreGet, DurableInv, JobSound, Writing, Pending, file
<1>4. CASE Wake
  <2>1. \A p \in Workers : Writing(p) \/ Writing(p)' => pc'[p] = pc[p]
    BY <1>4 DEF Wake, TypeOK, Writing
  <2> QED
    BY <1>4, <2>1, QuietStep DEF Wake, DurableInv, Pending, file, hist
<1>5. ASSUME NEW q \in Workers, FindIdle(q) PROVE DurableInv'
  <2>1. \A p \in Workers : Writing(p) \/ Writing(p)' => pc'[p] = pc[p]
    BY <1>5 DEF FindIdle, Return, TypeOK, Writing
  <2> QED
    BY <1>5, <2>1, QuietStep DEF FindIdle, DurableInv, Pending, file, hist
<1>6. ASSUME NEW q \in Workers, TakeWork(q), Orderly' PROVE DurableInv'
  <2>1. \A p \in Workers : p # q => job'[p] = job[p] /\ pc'[p] = pc[p]
    BY <1>6 DEF TakeWork, TypeOK
  <2>2. /\ job'[q].tables = dirty
        /\ job'[q].upserts = {s \in Slots : s[1] \in dirty /\ mirror[s] # Missing}
        /\ job'[q].rows = mirror
        /\ job'[q].removes = deleted
        /\ job'[q].removals = deleted
        /\ pc'[q] = "writing"
        /\ ~Writing(q)
    BY <1>6 DEF TakeWork, TypeOK, Writing
  <2>3. Writing(q)' /\ \A p \in Workers : Writing(p)' => p = q
    BY <1>6, <2>2 DEF Orderly, OneWriterAtATime, Writing
  <2>4. \A p \in Workers : ~Writing(p)
    BY <2>1, <2>2, <2>3 DEF Writing
  <2>5. UNCHANGED <<loaded, mirror, disk, stamp, idle>> /\ ~Pending'
    BY <1>6 DEF TakeWork, Pending, file, hist
  <2>6. JobSound(q)'
    BY <2>2 DEF JobSound
  <2>7. ASSUME NEW s \in Slots, stamp'[s] > 0 PROVE Landing(s)'
    <3>1. Owed(s) \/ Landing(s)
      BY <2>5, <2>7 DEF DurableInv
    <3>2. s \in deleted => mirror[s] = Missing
      BY DEF Orderly, NoRevival
    <3>3. Owed(s) => s \in job'[q].upserts \cup job'[q].removes
      BY <2>2 DEF Owed
    <3>4. Landing(s) => disk[s] = mirror[s]
      BY <2>4 DEF Landing
    <3> QED
      BY <2>2, <2>3, <2>5, <3>1, <3>2, <3>3, <3>4 DEF Landing
  <2> QED
    BY <2>3, <2>5, <2>6, <2>7 DEF DurableInv
<1>7. ASSUME NEW q \in Workers, ReadFile(q) PROVE DurableInv'
  <2>1. \A p \in Workers : p # q => job'[p] = job[p] /\ pc'[p] = pc[p]
    BY <1>7 DEF ReadFile, TypeOK
  <2>2. /\ job'[q].tables = job[q].tables
        /\ job'[q].upserts = job[q].upserts
        /\ job'[q].rows = job[q].rows
        /\ job'[q].removes = job[q].removes
        /\ job'[q].removals = job[q].removals
        /\ job'[q].copy = disk
    BY <1>7, JobParts DEF ReadFile, TypeOK, Job
  <2>3. \A p \in Workers : Writing(p)' <=> Writing(p)
    BY <1>7, <2>1 DEF ReadFile, TypeOK, Writing
  <2>4. UNCHANGED <<loaded, mirror, dirty, deleted, idle, disk, stamp>>
    BY <1>7 DEF ReadFile, mem, file, hist
  <2>5. ASSUME NEW p \in Workers, Writing(p)' PROVE JobSound(p)'
    BY <2>1, <2>2, <2>3, <2>4, <2>5 DEF DurableInv, JobSound
  <2>6. ASSUME NEW s \in Slots, stamp'[s] > 0 PROVE Owed(s)' \/ Landing(s)'
    <3>1. Owed(s) \/ Landing(s)
      BY <2>4, <2>6 DEF DurableInv
    <3>2. Owed(s) => Owed(s)'
      BY <2>4 DEF Owed
    <3>3. Landing(s) => Landing(s)'
      BY <2>1, <2>2, <2>3, <2>4 DEF Landing
    <3> QED
      BY <3>1, <3>2, <3>3
  <2> QED
    BY <2>4, <2>5, <2>6 DEF DurableInv, Pending
<1>8. ASSUME NEW q \in Workers, Upsert(q) PROVE DurableInv'
  <2>1. Writing(q) /\ \A p \in Workers : Writing(p) => p = q
    BY <1>8 DEF Upsert, Orderly, OneWriterAtATime, Writing
  <2>2. PICK w \in job[q].upserts :
          /\ disk' = [job[q].copy EXCEPT ![w] = job[q].rows[w]]
          /\ job' = [job EXCEPT ![q].upserts = @ \ {w}]
    BY <1>8 DEF Upsert
  <2>3. job[q].copy = disk /\ JobSound(q)
    BY <1>8, <2>1 DEF Upsert, DurableInv, JobSound
  <2>4. w \in Slots /\ disk' = [disk EXCEPT ![w] = job[q].rows[w]]
    BY <2>2, <2>3, JobParts
  <2>5. /\ job'[q].tables = job[q].tables
        /\ job'[q].upserts = job[q].upserts \ {w}
        /\ job'[q].rows = job[q].rows
        /\ job'[q].removes = job[q].removes
        /\ job'[q].removals = job[q].removals
        /\ pc'[q] = "writing"
    BY <1>8, <2>2, JobParts DEF Upsert, TypeOK, Job
  <2>6. \A p \in Workers : Writing(p)' <=> p = q
    BY <1>8, <2>1 DEF Upsert, TypeOK, Writing
  <2>7. UNCHANGED <<loaded, mirror, dirty, deleted, idle, stamp>>
    BY <1>8 DEF Upsert, mem, hist
  <2>8. JobSound(q)'
    BY <2>3, <2>5 DEF JobSound
  <2>9. ASSUME NEW s \in Slots, stamp'[s] > 0 PROVE Owed(s)' \/ Landing(s)'
    <3>1. Owed(s) \/ Landing(s)
      BY <2>7, <2>9 DEF DurableInv
    <3>2. Owed(s) => Owed(s)'
      BY <2>7 DEF Owed
    <3>3. ASSUME Landing(s), s = w PROVE Landing(s)'
      <4>1. job[q].rows[s] = mirror[s] /\ s \notin job[q].removes
        BY <2>1, <2>2, <2>3, <3>3 DEF Landing, JobSound
      <4>2. disk'[s] = mirror'[s]
        BY <2>4, <2>7, <3>3, <4>1 DEF TypeOK
      <4> QED
        BY <2>5, <2>6, <3>3, <4>1, <4>2 DEF Landing
    <3>4. ASSUME Landing(s), s # w PROVE Landing(s)'
      <4>1. disk'[s] = disk[s]
        BY <2>4, <3>4 DEF TypeOK
      <4> QED
        BY <2>1, <2>5, <2>6, <2>7, <3>4, <4>1 DEF Landing
    <3> QED
      BY <3>1, <3>2, <3>3, <3>4
  <2> QED
    BY <2>6, <2>7, <2>8, <2>9 DEF DurableInv, Pending
<1>9. ASSUME NEW q \in Workers, Remove(q) PROVE DurableInv'
  <2>1. Writing(q) /\ \A p \in Workers : Writing(p) => p = q
    BY <1>9 DEF Remove, Orderly, OneWriterAtATime, Writing
  <2>2. PICK w \in job[q].removes :
          /\ disk' = [job[q].copy EXCEPT ![w] = Missing]
          /\ job' = [job EXCEPT ![q].removes = @ \ {w}]
    BY <1>9 DEF Remove
  <2>3. job[q].copy = disk /\ JobSound(q) /\ job[q].upserts = {}
    BY <1>9, <2>1 DEF Remove, DurableInv, JobSound
  <2>4. w \in Slots /\ disk' = [disk EXCEPT ![w] = Missing]
    BY <2>2, <2>3, JobParts
  <2>5. /\ job'[q].tables = job[q].tables
        /\ job'[q].upserts = {}
        /\ job'[q].rows = job[q].rows
        /\ job'[q].removes = job[q].removes \ {w}
        /\ job'[q].removals = job[q].removals
        /\ pc'[q] = "writing"
    BY <1>9, <2>2, <2>3, JobParts DEF Remove, TypeOK, Job
  <2>6. \A p \in Workers : Writing(p)' <=> p = q
    BY <1>9, <2>1 DEF Remove, TypeOK, Writing
  <2>7. UNCHANGED <<loaded, mirror, dirty, deleted, idle, stamp>>
    BY <1>9 DEF Remove, mem, hist
  <2>8. JobSound(q)'
    BY <2>3, <2>5 DEF JobSound
  <2>9. ASSUME NEW s \in Slots, stamp'[s] > 0 PROVE Owed(s)' \/ Landing(s)'
    <3>1. Owed(s) \/ Landing(s)
      BY <2>7, <2>9 DEF DurableInv
    <3>2. Owed(s) => Owed(s)'
      BY <2>7 DEF Owed
    <3>3. ASSUME Landing(s), s = w PROVE Landing(s)'
      <4>1. mirror[s] = Missing
        BY <2>1, <2>2, <3>3 DEF Landing
      <4>2. disk'[s] = mirror'[s]
        BY <2>4, <2>7, <3>3, <4>1 DEF TypeOK
      <4> QED
        BY <2>5, <2>6, <3>3, <4>2 DEF Landing
    <3>4. ASSUME Landing(s), s # w PROVE Landing(s)'
      <4>1. disk'[s] = disk[s]
        BY <2>4, <3>4 DEF TypeOK
      <4> QED
        BY <2>1, <2>3, <2>5, <2>6, <2>7, <3>4, <4>1 DEF Landing
    <3> QED
      BY <3>1, <3>2, <3>3, <3>4
  <2> QED
    BY <2>6, <2>7, <2>8, <2>9 DEF DurableInv, Pending
<1>10. ASSUME NEW q \in Workers, Fail(q) PROVE DurableInv'
  <2>1. Writing(q) /\ \A p \in Workers : Writing(p) => p = q
    BY <1>10 DEF Fail, Orderly, OneWriterAtATime, Writing
  <2>2. \A p \in Workers : ~Writing(p)'
    BY <1>10, <2>1 DEF Fail, Return, TypeOK, Writing
  <2>3. JobSound(q) /\ ~idle
    BY <2>1 DEF DurableInv, Orderly, NoEarlyIdle
  <2>4. /\ UNCHANGED <<loaded, mirror, idle, disk, stamp>>
        /\ dirty' = dirty \cup job[q].tables
        /\ deleted' = deleted \cup job[q].removals
    BY <1>10 DEF Fail, hist
  <2>5. ASSUME NEW s \in Slots, stamp'[s] > 0 PROVE Owed(s)' \/ Landing(s)'
    <3>1. Owed(s) \/ Landing(s)
      BY <2>4, <2>5 DEF DurableInv
    <3>2. Owed(s) => Owed(s)'
      BY <2>4 DEF Owed
    <3>3. ASSUME Landing(s), s \in job[q].upserts PROVE Owed(s)'
      BY <2>1, <2>3, <2>4, <3>3 DEF Landing, JobSound, Owed
    <3>4. ASSUME s \in job[q].removes PROVE Owed(s)'
      BY <2>3, <2>4, <3>4 DEF JobSound, Owed
    <3>5. ASSUME Landing(s), s \notin job[q].upserts, s \notin job[q].removes
          PROVE  Landing(s)'
      BY <2>1, <2>2, <2>4, <3>5 DEF Landing
    <3> QED
      BY <3>1, <3>2, <3>3, <3>4, <3>5
  <2> QED
    BY <2>2, <2>3, <2>4, <2>5 DEF DurableInv
<1>11. ASSUME NEW q \in Workers, Finish(q) PROVE DurableInv'
  <2>1. Writing(q) /\ \A p \in Workers : Writing(p) => p = q
    BY <1>11 DEF Finish, Orderly, OneWriterAtATime, Writing
  <2>2. \A p \in Workers : ~Writing(p)'
    BY <1>11, <2>1 DEF Finish, Return, TypeOK, Writing
  <2>3. UNCHANGED <<loaded, mirror, dirty, deleted, disk, stamp>>
    BY <1>11 DEF Finish, file, hist
  <2>4. idle' => ~Pending'
    BY <1>11, <2>3 DEF Finish, DurableInv, Pending
  <2>5. ASSUME NEW s \in Slots, stamp'[s] > 0 PROVE Owed(s)' \/ Landing(s)'
    <3>1. Owed(s) \/ Landing(s)
      BY <2>3, <2>5 DEF DurableInv
    <3>2. Owed(s) => Owed(s)'
      BY <2>3 DEF Owed
    <3>3. Landing(s) => Landing(s)'
      BY <1>11, <2>1, <2>2, <2>3 DEF Finish, Landing
    <3> QED
      BY <3>1, <3>2, <3>3
  <2> QED
    BY <2>2, <2>3, <2>4, <2>5 DEF DurableInv
<1>12. ASSUME NEW f \in Flushers, FlushCall(f) PROVE DurableInv'
  <2>1. \A p \in Workers : Writing(p) \/ Writing(p)' => pc'[p] = pc[p]
    BY <1>12 DEF FlushCall, TypeOK, Writing, Workers
  <2> QED
    BY <1>12, <2>1, QuietStep DEF FlushCall, DurableInv, Pending, mem, file
<1>13. ASSUME NEW f \in Flushers, FlushReturn(f) PROVE DurableInv'
  <2>1. \A p \in Workers : Writing(p) \/ Writing(p)' => pc'[p] = pc[p]
    BY <1>13
       DEF FlushReturn, FlushReturnsTrue, FlushReturnsFalse, TypeOK, Writing, Workers
  <2> QED
    BY <1>13, <2>1, QuietStep DEF FlushReturn, DurableInv, Pending, mem, file, hist
<1>14. CASE Crash
  <2>1. \A s \in Slots : stamp'[s] = 0
    BY <1>14 DEF Crash
  <2>2. \A s \in Slots : ~(stamp'[s] > 0)
    BY <2>1
  <2>3. \A p \in Workers : ~Writing(p)'
    BY <1>14 DEF Crash, Writing
  <2>4. ~Pending'
    BY <1>14 DEF Crash, Pending
  <2> QED
    BY <2>1, <2>2, <2>3, <2>4 DEF DurableInv
<1>15. CASE UNCHANGED vars
  <2>1. UNCHANGED <<loaded, mirror, dirty, deleted, idle, disk, pc, job, stamp>>
    BY <1>15 DEF vars, mem, file, hist
  <2> QED
    BY <2>1, QuietStep DEF DurableInv, Pending
<1> QED
  BY <1>1, <1>2, <1>3, <1>4, <1>5, <1>6, <1>7, <1>8, <1>9, <1>10, <1>11, <1>12,
     <1>13, <1>14, <1>15 DEF Next, Step, WritePending

LEMMA DurableImplies == Orderly /\ DurableInv => IdleMeansDurable
<1> SUFFICES ASSUME Orderly, DurableInv, idle, NEW s \in Slots, stamp[s] > 0
             PROVE  disk[s] = mirror[s]
  BY DEF IdleMeansDurable
<1>1. ~Pending /\ \A p \in Workers : ~Writing(p)
  BY DEF DurableInv, Orderly, NoEarlyIdle
<1>2. ~Owed(s)
  BY <1>1 DEF Pending, Owed
<1>3. Landing(s)
  BY <1>2 DEF DurableInv
<1> QED
  BY <1>1, <1>3 DEF Landing

\* What orderly records: the current state is Orderly, and so was every earlier
\* one, so that DurableInv has been kept.
OrderlyInv == orderly => Orderly /\ DurableInv

LEMMA InitOrderly == Init => OrderlyInv
<1>1. Init => Orderly
  BY DEF Init, Orderly, OneWriterAtATime, NoEarlyIdle, NoRevival, Writing
<1> QED
  BY <1>1, InitDurable DEF OrderlyInv

LEMMA NextOrderly == TypeOK /\ OrderlyInv /\ [Next]_vars => OrderlyInv'
<1> SUFFICES ASSUME TypeOK, OrderlyInv, [Next]_vars, orderly'
             PROVE  Orderly' /\ DurableInv'
  BY DEF OrderlyInv
<1>1. CASE UNCHANGED vars
  <2>1. orderly /\ Orderly
    BY <1>1 DEF vars, OrderlyInv
  <2>2. Orderly'
    BY <1>1, <2>1 DEF vars, mem, Orderly, OneWriterAtATime, NoEarlyIdle, NoRevival, Writing
  <2> QED
    BY <2>1, <2>2, NextDurable DEF OrderlyInv
<1>2. CASE Next
  <2>1. orderly /\ Orderly'
    BY <1>2 DEF Next, Watch
  <2> QED
    BY <2>1, NextDurable DEF OrderlyInv
<1> QED
  BY <1>1, <1>2

\* If the workers take turns, the store is not called idle while one of them
\* writes, and no key is set while its deletion is pending, then an idle store
\* has on disk everything this process wrote or deleted: these three are the
\* only ways core/storage.py can lose a change, in spite of failed flushes,
\* crashes and incomplete loads.
THEOREM IdleIsDurable == Spec => []IdleMeansDurable
<1>1. Init => TypeOK /\ OrderlyInv
  BY InitType, InitOrderly
<1>2. TypeOK /\ OrderlyInv /\ [Next]_vars => (TypeOK /\ OrderlyInv)'
  BY NextType, NextOrderly
<1>3. OrderlyInv => IdleMeansDurable
  BY DurableImplies DEF OrderlyInv, IdleMeansDurable
<1> QED
  BY <1>1, <1>2, <1>3, PTL DEF Spec

-----------------------------------------------------------------------------
(* The disk never goes back.                                               *)

\* Of two rows, the first is not newer.
Older(a, b) == a # Missing /\ b # Missing => a <= b

\* The disk is not newer than a row about to be written to it, nor is that row
\* newer than the mirror: true while one worker writes at a time.
AgeInv ==
    /\ ~loaded => ~Pending /\ \A p \in Workers : ~Writing(p)
    /\ \A s \in Slots : Older(disk[s], writes) /\ Older(mirror[s], writes) /\ Older(disk[s], mirror[s])
    /\ \A p \in Workers : Writing(p) => \A s \in job[p].upserts :
          /\ job[p].rows[s] # Missing /\ job[p].rows[s] <= writes
          /\ Older(disk[s], job[p].rows[s]) /\ Older(job[p].rows[s], mirror[s])

LEMMA InitAge == Init => AgeInv
BY StorageAssumption DEF Init, AgeInv, Older, NoRows, Pending, Writing

\* A row is a number or is missing.
LEMMA RowsAreNumbers ==
    ASSUME TypeOK
    PROVE  /\ writes \in Nat /\ Missing \notin Nat
           /\ \A s \in Slots : /\ disk[s] \in Nat \cup {Missing}
                               /\ mirror[s] \in Nat \cup {Missing}
           /\ \A p \in Workers, s \in Slots : job[p].rows[s] \in Nat \cup {Missing}
<1>1. ASSUME NEW p \in Workers, NEW s \in Slots PROVE job[p].rows[s] \in Nat \cup {Missing}
  BY JobParts DEF Row
<1> QED BY <1>1, StorageAssumption DEF TypeOK, Row

\* A step that leaves the rows alone and starts nobody's writing.
LEMMA AgeQuiet ==
    ASSUME TypeOK, AgeInv, UNCHANGED <<loaded, mirror, disk, writes>>, ~loaded => ~Pending',
           \A p \in Workers : Writing(p)' =>
              Writing(p) /\ job'[p].upserts = job[p].upserts /\ job'[p].rows = job[p].rows
    PROVE  AgeInv'
BY DEF AgeInv, Older

\* A call that changes one slot of the mirror.
LEMMA AgeStamp ==
    ASSUME TypeOK, AgeInv, NEW s \in Slots, Stamp(s), loaded', UNCHANGED <<disk, job>>,
           NEW m \in Mirrors, NEW x \in {writes + 1, Missing}, mirror' = [m EXCEPT ![s] = x],
           \A p \in Workers : Writing(p)' => Writing(p)
    PROVE  AgeInv'
<1>0. /\ writes \in Nat /\ writes' = writes + 1 /\ Missing \notin Nat
      /\ \A r \in Slots : disk[r] \in Nat \cup {Missing} /\ mirror[r] \in Nat \cup {Missing}
      /\ \A p \in Workers, r \in Slots : job[p].rows[r] \in Nat \cup {Missing}
  BY RowsAreNumbers DEF Stamp
<1>1. mirror'[s] = x /\ \A r \in Slots : r # s => mirror'[r] = m[r]
  BY MirrorsType
<1>2. \A r \in Slots : m[r] = mirror[r] \/ (~loaded /\ m[r] \in {disk[r], Missing})
  BY DEF Mirrors, NoRows
<1>3. \A r \in Slots : m[r] \in Nat \cup {Missing} /\ Older(m[r], writes) /\ Older(disk[r], m[r])
  BY <1>0, <1>2 DEF AgeInv, Older
<1>4. \A r \in Slots : Older(disk[r], writes') /\ Older(mirror'[r], writes') /\ Older(disk[r], mirror'[r])
  BY <1>0, <1>1, <1>3 DEF AgeInv, Older
<1>5. ASSUME NEW p \in Workers, Writing(p)', NEW r \in job[p].upserts
      PROVE  /\ job[p].rows[r] # Missing /\ job[p].rows[r] <= writes'
             /\ Older(disk[r], job[p].rows[r]) /\ Older(job[p].rows[r], mirror'[r])
  <2>1. Writing(p) /\ loaded /\ r \in Slots
    BY <1>5, JobParts DEF AgeInv
  <2>2. /\ job[p].rows[r] # Missing /\ job[p].rows[r] <= writes
        /\ Older(disk[r], job[p].rows[r]) /\ Older(job[p].rows[r], mirror[r])
    BY <1>5, <2>1 DEF AgeInv
  <2>3. mirror'[r] \in {mirror[r], writes + 1, Missing}
    BY <1>1, <1>2, <2>1
  <2> QED BY <1>0, <2>1, <2>2, <2>3 DEF Older
<1> QED BY <1>4, <1>5 DEF AgeInv

LEMMA NextAge ==
    ASSUME TypeOK, Orderly, DurableInv, AgeInv, [Next]_vars PROVE AgeInv'
<1>1. ASSUME NEW s \in Slots, StoreSet(s) PROVE AgeInv'
  <2>1. PICK m \in Mirrors : mirror' = [m EXCEPT ![s] = writes + 1]
    BY <1>1 DEF StoreSet
  <2>2. \A p \in Workers : Writing(p)' => Writing(p)
    BY <1>1 DEF StoreSet, MarkDirty, TypeOK, Writing
  <2> QED BY <1>1, <2>1, <2>2, AgeStamp DEF StoreSet, file
<1>2. ASSUME NEW s \in Slots, StoreDelete(s) PROVE AgeInv'
  <2>1. PICK m \in Mirrors : mirror' = [m EXCEPT ![s] = Missing]
    BY <1>2 DEF StoreDelete
  <2>2. \A p \in Workers : Writing(p)' => Writing(p)
    BY <1>2 DEF StoreDelete, MarkDirty, TypeOK, Writing
  <2> QED BY <1>2, <2>1, <2>2, AgeStamp DEF StoreDelete, file
<1>3. CASE StoreGet
  <2>1. ~loaded /\ loaded' /\ mirror' \in Mirrors /\ UNCHANGED <<disk, writes, pc>>
    BY <1>3 DEF StoreGet, file, hist
  <2>2. \A r \in Slots : mirror'[r] \in {disk[r], Missing}
    BY <2>1 DEF Mirrors, NoRows
  <2>3. \A p \in Workers : ~Writing(p)'
    BY <2>1 DEF AgeInv, Writing
  <2>4. \A r \in Slots : disk[r] \in Nat \cup {Missing} /\ Older(disk[r], writes)
    BY RowsAreNumbers DEF AgeInv
  <2> QED BY <2>1, <2>2, <2>3, <2>4 DEF AgeInv, Older
<1>4. CASE Wake
  BY <1>4, AgeQuiet DEF Wake, AgeInv, Pending, Writing, TypeOK, file, hist
<1>5. ASSUME NEW q \in Workers, FindIdle(q) PROVE AgeInv'
  <2>1. \A p \in Workers : Writing(p)' => Writing(p)
    BY <1>5 DEF FindIdle, Return, Writing, TypeOK
  <2> QED BY <1>5, <2>1, AgeQuiet DEF FindIdle, Pending, file, hist
<1>6. ASSUME NEW q \in Workers, TakeWork(q) PROVE AgeInv'
  <2>1. \A p \in Workers : p # q => job'[p] = job[p] /\ pc'[p] = pc[p]
    BY <1>6 DEF TakeWork, TypeOK
  <2>2. /\ job'[q].upserts = {s \in Slots : s[1] \in dirty /\ mirror[s] # Missing}
        /\ job'[q].rows = mirror
    BY <1>6 DEF TakeWork, TypeOK
  <2>3. UNCHANGED <<loaded, mirror, disk, writes>> /\ loaded
    BY <1>6 DEF TakeWork, AgeInv, file, hist
  <2>4. \A s \in job'[q].upserts :
           /\ job'[q].rows[s] # Missing /\ job'[q].rows[s] <= writes
           /\ Older(disk[s], job'[q].rows[s]) /\ Older(job'[q].rows[s], mirror[s])
    BY <2>2, RowsAreNumbers DEF AgeInv, Older
  <2>5. \A p \in Workers : p # q /\ Writing(p)' => Writing(p)
    BY <2>1 DEF Writing
  <2> QED BY <2>1, <2>3, <2>4, <2>5 DEF AgeInv
<1>7. ASSUME NEW q \in Workers, ReadFile(q) PROVE AgeInv'
  <2>1. \A p \in Workers : Writing(p)' => Writing(p)
    BY <1>7 DEF ReadFile, Writing, TypeOK
  <2>2. \A p \in Workers : job'[p].upserts = job[p].upserts /\ job'[p].rows = job[p].rows
    <3>1. \A p \in Workers : p # q => job'[p] = job[p]
      BY <1>7 DEF ReadFile, TypeOK
    <3>2. job'[q].upserts = job[q].upserts /\ job'[q].rows = job[q].rows
      BY <1>7, JobParts DEF ReadFile, TypeOK, Job
    <3> QED BY <3>1, <3>2
  <2> QED BY <1>7, <2>1, <2>2, AgeQuiet DEF ReadFile, AgeInv, Pending, mem, file, hist
<1>8. ASSUME NEW q \in Workers, Upsert(q) PROVE AgeInv'
  <2>1. Writing(q) /\ \A p \in Workers : Writing(p) => p = q
    BY <1>8 DEF Upsert, Orderly, OneWriterAtATime, Writing
  <2>2. PICK w \in job[q].upserts :
          /\ disk' = [job[q].copy EXCEPT ![w] = job[q].rows[w]]
          /\ job' = [job EXCEPT ![q].upserts = @ \ {w}]
    BY <1>8 DEF Upsert
  <2>3. job[q].copy = disk
    BY <1>8, <2>1 DEF Upsert, DurableInv, JobSound
  <2>4. w \in Slots /\ disk'[w] = job[q].rows[w] /\ \A s \in Slots : s # w => disk'[s] = disk[s]
    BY <2>2, <2>3, JobParts DEF TypeOK
  <2>5. job'[q].upserts = job[q].upserts \ {w} /\ job'[q].rows = job[q].rows
    BY <1>8, <2>2, JobParts DEF TypeOK, Job
  <2>6. \A p \in Workers : Writing(p)' => p = q
    BY <1>8, <2>1 DEF Upsert, TypeOK, Writing
  <2>7. UNCHANGED <<loaded, mirror, writes>> /\ loaded
    BY <1>8, <2>1 DEF Upsert, AgeInv, mem, hist
  <2>8. \A s \in Slots : Older(disk'[s], writes) /\ Older(disk'[s], mirror[s])
    <3>1. /\ Older(job[q].rows[w], writes) /\ Older(job[q].rows[w], mirror[w])
      BY <2>1, <2>2 DEF AgeInv, Older
    <3> QED BY <2>4, <3>1 DEF AgeInv
  <2>9. \A s \in job'[q].upserts :
           /\ job[q].rows[s] # Missing /\ job[q].rows[s] <= writes
           /\ Older(disk'[s], job[q].rows[s]) /\ Older(job[q].rows[s], mirror[s])
    BY <2>1, <2>4, <2>5, JobParts DEF AgeInv
  <2> QED BY <2>5, <2>6, <2>7, <2>8, <2>9 DEF AgeInv
<1>9. ASSUME NEW q \in Workers, Remove(q) PROVE AgeInv'
  <2>1. Writing(q) /\ \A p \in Workers : Writing(p) => p = q
    BY <1>9 DEF Remove, Orderly, OneWriterAtATime, Writing
  <2>2. PICK w \in job[q].removes :
          /\ disk' = [job[q].copy EXCEPT ![w] = Missing]
          /\ job' = [job EXCEPT ![q].removes = @ \ {w}]
    BY <1>9 DEF Remove
  <2>3. job[q].copy = disk /\ job[q].upserts = {}
    BY <1>9, <2>1 DEF Remove, DurableInv, JobSound
  <2>4. \A s \in Slots : disk'[s] \in {disk[s], Missing}
    BY <2>2, <2>3, JobParts DEF TypeOK
  <2>5. job'[q].upserts = {}
    BY <1>9, <2>2, <2>3, JobParts DEF TypeOK, Job
  <2>6. \A p \in Workers : Writing(p)' => p = q
    BY <1>9, <2>1 DEF Remove, TypeOK, Writing
  <2>7. UNCHANGED <<loaded, mirror, writes>> /\ loaded
    BY <1>9, <2>1 DEF Remove, AgeInv, mem, hist
  <2> QED BY <2>4, <2>5, <2>6, <2>7 DEF AgeInv, Older
<1>10. ASSUME NEW q \in Workers, Fail(q) PROVE AgeInv'
  <2>1. Writing(q) /\ loaded
    BY <1>10 DEF Fail, Writing, AgeInv
  <2>2. UNCHANGED <<loaded, mirror, disk, writes>>
    BY <1>10 DEF Fail, hist
  <2>3. \A p \in Workers : Writing(p)' => Writing(p) /\ job'[p] = job[p]
    BY <1>10 DEF Fail, Return, TypeOK, Writing
  <2> QED BY <2>1, <2>2, <2>3, AgeQuiet
<1>11. ASSUME NEW q \in Workers, Finish(q) PROVE AgeInv'
  <2>1. UNCHANGED <<loaded, mirror, disk, writes, dirty, deleted>>
    BY <1>11 DEF Finish, file, hist
  <2>2. \A p \in Workers : Writing(p)' => Writing(p) /\ job'[p] = job[p]
    BY <1>11 DEF Finish, Return, TypeOK, Writing
  <2> QED BY <2>1, <2>2, AgeQuiet DEF AgeInv, Pending
<1>12. ASSUME NEW f \in Flushers, FlushCall(f) \/ FlushReturn(f) PROVE AgeInv'
  <2>1. UNCHANGED <<loaded, mirror, disk, writes, dirty, deleted, job>>
    BY <1>12 DEF FlushCall, FlushReturn, mem, file, hist
  <2>2. \A p \in Workers : Writing(p)' => Writing(p)
    BY <1>12 DEF FlushCall, FlushReturn, TypeOK, Writing, Workers
  <2> QED BY <2>1, <2>2, AgeQuiet DEF AgeInv, Pending
<1>13. CASE Crash
  <2>1. /\ \A p \in Workers : ~Writing(p)'
        /\ ~Pending'
        /\ UNCHANGED <<disk, writes>> /\ mirror' = NoRows
    BY <1>13 DEF Crash, Writing, Pending
  <2> QED BY <2>1 DEF AgeInv, Older, NoRows
<1>14. CASE UNCHANGED vars
  <2>1. UNCHANGED <<loaded, mirror, dirty, deleted, disk, pc, job, writes>>
    BY <1>14 DEF vars, mem, file, hist
  <2> QED BY <2>1, AgeQuiet DEF AgeInv, Pending, Writing
<1> QED
  BY <1>1, <1>2, <1>3, <1>4, <1>5, <1>6, <1>7, <1>8, <1>9, <1>10, <1>11, <1>12, <1>13, <1>14
     DEF Next, Step, WritePending

OrderlyAge == orderly => AgeInv

\* In the orderly executions no row on disk is ever replaced by an older one,
\* although every TinyDB call rewrites the whole file from what it has read
\* (_write_pending) and flush() writes beside the writer thread.
THEOREM DiskOnlyAdvances == Spec => DiskNeverGoesBack
<1> DEFINE A == \A s \in Slots : orderly' /\ disk[s] # Missing /\ disk'[s] # Missing => disk'[s] >= disk[s]
<1>1. Init => TypeOK /\ OrderlyInv /\ OrderlyAge
  BY InitType, InitOrderly, InitAge DEF OrderlyAge
<1>2. TypeOK /\ OrderlyInv /\ OrderlyAge /\ [Next]_vars => (TypeOK /\ OrderlyInv /\ OrderlyAge)'
  <2> SUFFICES ASSUME TypeOK, OrderlyInv, OrderlyAge, [Next]_vars PROVE (TypeOK /\ OrderlyInv /\ OrderlyAge)'
    OBVIOUS
  <2>1. orderly' => orderly
    BY DEF Next, Watch, vars
  <2> QED BY <2>1, NextType, NextOrderly, NextAge DEF OrderlyInv, OrderlyAge
<1>3. TypeOK /\ OrderlyInv /\ OrderlyAge /\ [Next]_vars => [A]_vars
  <2> SUFFICES ASSUME TypeOK, OrderlyInv, OrderlyAge, Next, orderly',
                      NEW s \in Slots, disk[s] # Missing, disk'[s] # Missing
               PROVE  disk'[s] >= disk[s]
    OBVIOUS
  <2>0. disk[s] \in Nat
    BY RowsAreNumbers
  <2>1. CASE disk' = disk
    BY <2>0, <2>1
  <2>2. ASSUME NEW q \in Workers, Upsert(q) \/ Remove(q) PROVE disk'[s] >= disk[s]
    <3>1. Orderly /\ DurableInv /\ AgeInv /\ Writing(q) /\ pc[q] = "rewriting"
      BY <2>2 DEF Next, Watch, OrderlyInv, OrderlyAge, Upsert, Remove, Writing
    <3>2. job[q].copy = disk
      BY <3>1 DEF DurableInv, JobSound
    <3>3. PICK w \in Slots : \/ w \in job[q].upserts /\ disk' = [disk EXCEPT ![w] = job[q].rows[w]]
                             \/ disk' = [disk EXCEPT ![w] = Missing]
      BY <2>2, <3>2, JobParts DEF Upsert, Remove
    <3>4. CASE s = w
      BY <2>0, <3>1, <3>3, <3>4, RowsAreNumbers DEF AgeInv, Older, TypeOK
    <3>5. CASE s # w
      BY <2>0, <3>3, <3>5 DEF TypeOK
    <3> QED BY <3>4, <3>5
  <2>3. disk' = disk \/ \E q \in Workers : Upsert(q) \/ Remove(q)
    BY DEF Next, Step, WritePending, StoreSet, StoreDelete, StoreGet, Wake, FindIdle, TakeWork, ReadFile,
           Fail, Finish, FlushCall, FlushReturn, Crash, file
  <2> QED BY <2>1, <2>2, <2>3
<1> QED BY <1>1, <1>2, <1>3, PTL DEF Spec, DiskNeverGoesBack

-----------------------------------------------------------------------------
(* No wake-up is lost.                                                     *)

\* Pending changes are never left without the writer being signalled or about
\* to take them, unless disk errors or an unreadable file have made a flush
\* fail (_writer_loop, _mark_dirty).
THEOREM WakeupIsKept == Spec => []NoLostWakeup
<1>1. Init => NoLostWakeup
  BY DEF Init, NoLostWakeup, Pending
<1>2. TypeOK /\ NoLostWakeup /\ [Next]_vars => NoLostWakeup'
  <2> SUFFICES ASSUME TypeOK, NoLostWakeup, [Next]_vars PROVE NoLostWakeup'
    OBVIOUS
  <2>1. faulty' = faulty
    BY DEF Next, Watch, vars
  <2>2. ASSUME NEW s \in Slots, StoreSet(s) \/ StoreDelete(s) PROVE NoLostWakeup'
    BY <2>2 DEF StoreSet, StoreDelete, MarkDirty, NoLostWakeup
  <2>3. CASE StoreGet
    BY <2>1, <2>3 DEF StoreGet, NoLostWakeup, Pending, file
  <2>4. CASE Wake
    BY <2>1, <2>4 DEF Wake, NoLostWakeup, TypeOK, Workers
  <2>5. ASSUME NEW q \in Workers, FindIdle(q) \/ TakeWork(q) PROVE NoLostWakeup'
    BY <2>5 DEF FindIdle, TakeWork, NoLostWakeup, Pending
  <2>6. ASSUME NEW q \in Workers, ReadFile(q) \/ Upsert(q) \/ Remove(q) \/ Finish(q) PROVE NoLostWakeup'
    <3>1. UNCHANGED <<dirty, deleted, work, readable>> /\ pc[q] # "ready"
      BY <2>6 DEF ReadFile, Upsert, Remove, Finish, mem, file
    <3>2. q # Writer => pc'[Writer] = pc[Writer]
      BY <2>6 DEF ReadFile, Upsert, Remove, Finish, Return, TypeOK, Workers
    <3> QED BY <2>1, <3>1, <3>2 DEF NoLostWakeup, Pending
  <2>7. ASSUME NEW q \in Workers, Fail(q) PROVE NoLostWakeup'
    BY <2>1, <2>7 DEF Fail, NoLostWakeup, TypeOK
  <2>8. ASSUME NEW f \in Flushers, FlushCall(f) \/ FlushReturn(f) PROVE NoLostWakeup'
    <3>1. UNCHANGED <<dirty, deleted, work, readable>> /\ pc'[Writer] = pc[Writer]
      BY <2>8, StorageAssumption DEF FlushCall, FlushReturn, mem, file, TypeOK, Workers
    <3> QED BY <2>1, <3>1 DEF NoLostWakeup, Pending
  <2>9. CASE Crash
    BY <2>9 DEF Crash, NoLostWakeup, Pending
  <2>10. CASE UNCHANGED vars
    BY <2>10 DEF vars, mem, file, NoLostWakeup, Pending
  <2> QED
    BY <2>2, <2>3, <2>4, <2>5, <2>6, <2>7, <2>8, <2>9, <2>10 DEF Next, Step, WritePending
<1>3. Init => TypeOK
  BY InitType
<1>4. TypeOK /\ [Next]_vars => TypeOK'
  BY NextType
<1> QED BY <1>1, <1>2, <1>3, <1>4, PTL DEF Spec
=============================================================================
