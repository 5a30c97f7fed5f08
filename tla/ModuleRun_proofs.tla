-------------------------- MODULE ModuleRun_proofs --------------------------
(***************************************************************************)
(* Proofs about ModuleRun, for any number of clients and runs.             *)
(***************************************************************************)
EXTENDS ModuleRun, TLAPS

-----------------------------------------------------------------------------
(* Type correctness.                                                       *)

LEMMA TypeInit == Init => TypeOK
BY DEF Init, TypeOK, Places, Threads

\* Publishing an outcome keeps the type of the outcomes published.
LEMMA PublishType ==
    ASSUME TypeOK, NEW r \in Runs, NEW kind \in {"done", "error", "timeout", "cancelled"},
           NEW q \in Runs, Publish(r, kind, q)
    PROVE  told' \in [Runs -> Seq(Outcome)]
<1>1. [kind |-> kind, of |-> q] \in Outcome /\ told[r] \in Seq(Outcome)
  BY DEF TypeOK, Outcome
<1>2. Append(told[r], [kind |-> kind, of |-> q]) \in Seq(Outcome)
  BY <1>1
<1> QED
  BY <1>2 DEF Publish, TypeOK

LEMMA TypeStep == TypeOK /\ [Next]_vars => TypeOK'
<1> SUFFICES ASSUME TypeOK, [Next]_vars PROVE TypeOK'
  OBVIOUS
<1>0. alone' \in BOOLEAN
  BY DEF Next, Watch, vars, TypeOK, Apart
<1> USE <1>0 DEF TypeOK, Places, Threads, Goto, Unlock, panels, runs, shared
<1>1. CASE UNCHANGED vars
  BY <1>1 DEF vars
<1>2. ASSUME NEW c \in Clients, Open(c) PROVE TypeOK'
  BY <1>2 DEF Open
<1>3. ASSUME NEW c \in Clients, Close(c) PROVE TypeOK'
  BY <1>3 DEF Close
<1>4. ASSUME NEW c \in Clients, NEW r \in Runs, Start(c, r) PROVE TypeOK'
  BY <1>4 DEF Start
<1>5. CASE PreviewFails
  BY <1>5 DEF PreviewFails
<1>6. CASE Cancel
  BY <1>6, PublishType DEF Cancel
<1>7. ASSUME NEW r \in Runs, Begin(r) PROVE TypeOK'
  BY <1>7 DEF Begin
<1>8. ASSUME NEW r \in Runs, StartWork(r) PROVE TypeOK'
  BY <1>8 DEF StartWork
<1>9. ASSUME NEW r \in Runs, WorkEnds(r) PROVE TypeOK'
  BY <1>9 DEF WorkEnds
<1>10. ASSUME NEW r \in Runs, Record(r) PROVE TypeOK'
  BY <1>10 DEF Record
<1>11. ASSUME NEW r \in Runs, Announce(r) PROVE TypeOK'
  BY <1>11, PublishType DEF Announce
<1>12. ASSUME NEW r \in Runs, Fail(r) PROVE TypeOK'
  BY <1>12, PublishType DEF Fail
<1>13. ASSUME NEW r \in Runs, Timeout(r) PROVE TypeOK'
  BY <1>13 DEF Timeout
<1>14. ASSUME NEW r \in Runs, Unwind(r) PROVE TypeOK'
  BY <1>14, PublishType DEF Unwind
<1> QED
  BY <1>1, <1>2, <1>3, <1>4, <1>5, <1>6, <1>7, <1>8, <1>9, <1>10, <1>11, <1>12,
     <1>13, <1>14 DEF Next, Step, Handle

\* The variables keep their types in every behaviour of the handlers, the
\* panels and the worker threads.
THEOREM TypeCorrect == Spec => []TypeOK
BY TypeInit, TypeStep, PTL DEF Spec

-----------------------------------------------------------------------------
(* What a handler has had published.                                       *)

\* What the handler of run r has had published is nothing but outcome o.
Only(r, o) == \A i \in DOMAIN told[r] : told[r][i] = o

\* Publishing an outcome for run r leaves what the other handlers have had
\* published alone.
LEMMA PublishedApart ==
    ASSUME TypeOK, NEW r \in Runs, NEW kind, NEW q, Publish(r, kind, q)
    PROVE  \A p \in Runs : p # r => told'[p] = told[p]
BY DEF Publish, TypeOK

\* An outcome published again and again is still the only one.
LEMMA PublishedOnly ==
    ASSUME TypeOK, NEW r \in Runs, NEW kind, NEW q, Publish(r, kind, q),
           Only(r, [kind |-> kind, of |-> q])
    PROVE  told'[r] # <<>> /\ Only(r, [kind |-> kind, of |-> q])'
<1> DEFINE s == told[r]
           o == [kind |-> kind, of |-> q]
<1>1. told'[r] = Append(s, o) /\ s \in Seq(Outcome)
  BY DEF Publish, TypeOK
<1>2. \A i \in DOMAIN s : s[i] = o
  BY DEF Only
<1> HIDE DEF s, o
<1>3. Append(s, o) # <<>> /\ \A i \in DOMAIN Append(s, o) : Append(s, o)[i] = o
  BY <1>1, <1>2
<1> QED
  BY <1>1, <1>3 DEF Only, o

\* The first thing published is published once.
LEMMA PublishedFirst ==
    ASSUME TypeOK, NEW r \in Runs, NEW kind, NEW q, Publish(r, kind, q), told[r] = <<>>
    PROVE  told'[r] # <<>> /\ Only(r, [kind |-> kind, of |-> q])' /\ Len(told'[r]) = 1
<1>1. Only(r, [kind |-> kind, of |-> q])
  BY DEF Only
<1>2. told'[r] = Append(<<>>, [kind |-> kind, of |-> q])
  BY DEF Publish, TypeOK
<1> QED
  BY <1>1, <1>2, PublishedOnly

-----------------------------------------------------------------------------
(* Nothing but a cancel is published twice.                                *)

\* What ReportInv says of run p.
RunReport(p) ==
    /\ pc[p] \in {"off", "ready"} => stop[p] = "no" /\ consuming # p
    /\ pc[p] # "ended" => /\ stop[p] = "cancel" <=> told[p] # <<>>
                         /\ Only(p, [kind |-> "cancelled", of |-> p])
    /\ \A i, j \in DOMAIN told[p] : i # j => told[p][i].kind = "cancelled"

LEMMA ReportOfRuns == ReportInv <=> \A p \in Runs : RunReport(p)
BY DEF ReportInv, OnlyCancelsRepeat, RunReport, Only

\* It still holds of a run that a step does not touch, and of one that has had a
\* single outcome published or nothing but cancels.
LEMMA RunKept ==
    ASSUME NEW p \in Runs, RunReport(p), told'[p] = told[p], pc'[p] = pc[p],
           stop'[p] = stop[p], consuming' \in {consuming, NoRun}
    PROVE  RunReport(p)'
BY ModuleRunAssumption DEF RunReport, Only

LEMMA RunEnds ==
    ASSUME TypeOK, TypeOK', NEW p \in Runs, pc'[p] = "ended",
           \/ Len(told'[p]) = 1
           \/ told'[p] = <<>>
           \/ Only(p, [kind |-> "cancelled", of |-> p])'
    PROVE  RunReport(p)'
<1>1. told'[p] \in Seq(Outcome)
  BY DEF TypeOK
<1>2. CASE Only(p, [kind |-> "cancelled", of |-> p])'
  BY <1>2 DEF RunReport, Only
<1>3. CASE Len(told'[p]) = 1 \/ told'[p] = <<>>
  <2>1. \A i, j \in DOMAIN told'[p] : i = j
    BY <1>1, <1>3
  <2> QED
    BY <2>1 DEF RunReport
<1> QED
  BY <1>2, <1>3

LEMMA ReportInit == Init => ReportInv
BY ModuleRunAssumption DEF Init, ReportInv, OnlyCancelsRepeat

LEMMA ReportStep ==
    ASSUME ~Swallows, TypeOK, ReportInv, [Next]_vars
    PROVE  ReportInv'
<1> USE ModuleRunAssumption
<1>a. \A p \in Runs : RunReport(p)
  BY ReportOfRuns
<1>t. TypeOK'
  BY TypeStep
<1> SUFFICES ASSUME NEW p \in Runs PROVE RunReport(p)'
  BY DEF ReportInv, OnlyCancelsRepeat, RunReport, Only
<1>b. RunReport(p)
  BY <1>a
<1>1. CASE UNCHANGED vars
  BY <1>1, <1>b, RunKept DEF vars
<1>2. ASSUME NEW c \in Clients, Open(c) \/ Close(c) PROVE RunReport(p)'
  BY <1>2, <1>b, RunKept DEF Open, Close, runs, shared
<1>3. ASSUME NEW c \in Clients, NEW r \in Runs, Start(c, r) PROVE RunReport(p)'
  BY <1>3, <1>b DEF Start, shared, TypeOK, Goto, RunReport, Only
<1>4. CASE PreviewFails
  BY <1>4, <1>b, RunKept DEF PreviewFails, runs, shared
<1>5. CASE Cancel
  <2>1. /\ consuming \in Runs /\ pc[consuming] \notin {"off", "ready", "ended"}
        /\ stop' = [stop EXCEPT ![consuming] = "cancel"]
        /\ Publish(consuming, "cancelled", consuming) /\ pc' = pc /\ consuming' = consuming
    BY <1>5, <1>a DEF Cancel, shared, TypeOK, RunReport
  <2>2. CASE p = consuming
    <3>1. Only(p, [kind |-> "cancelled", of |-> p])
      BY <2>1, <2>2, <1>b DEF RunReport
    <3>2. told'[p] # <<>> /\ Only(p, [kind |-> "cancelled", of |-> p])'
      BY <2>1, <2>2, <3>1, PublishedOnly
    <3> QED
      BY <2>1, <2>2, <3>2 DEF RunReport, Only, TypeOK
  <2>3. CASE p # consuming
    BY <2>1, <2>3, <1>b, PublishedApart, RunKept DEF TypeOK
  <2> QED
    BY <2>2, <2>3
<1>6. ASSUME NEW r \in Runs, Begin(r) PROVE RunReport(p)'
  BY <1>6, <1>b DEF Begin, panels, TypeOK, Goto, RunReport, Only
<1>7. ASSUME NEW r \in Runs, StartWork(r) \/ WorkEnds(r) PROVE RunReport(p)'
  BY <1>7, <1>b, RunKept DEF StartWork, WorkEnds, panels, shared
<1>8. ASSUME NEW r \in Runs, Record(r) PROVE RunReport(p)'
  BY <1>8, <1>b DEF Record, panels, TypeOK, Goto, RunReport, Only
<1>9. ASSUME NEW r \in Runs, Timeout(r) PROVE RunReport(p)'
  BY <1>9, <1>b DEF Timeout, panels, shared, TypeOK, RunReport, Only
<1>10. ASSUME NEW r \in Runs, Announce(r) \/ Fail(r) \/ Unwind(r) PROVE RunReport(p)'
  <2>1. /\ pc[r] \notin {"off", "ready", "ended"}
        /\ pc' = [pc EXCEPT ![r] = "ended"] /\ stop' = stop /\ consuming' = NoRun
    BY <1>10 DEF Announce, Fail, Unwind, Goto
  <2>2. \/ told' = told
        \/ told[r] = <<>> /\ \E kind, q : Publish(r, kind, q)
    BY <1>10, <1>a DEF Announce, Fail, Unwind, RunReport
  <2>3. CASE p # r
    BY <2>1, <2>2, <2>3, <1>b, PublishedApart, RunKept DEF TypeOK
  <2>4. CASE p = r /\ told' = told
    <3>1. Only(p, [kind |-> "cancelled", of |-> p])'
      BY <2>1, <2>4, <1>b DEF RunReport, Only
    <3> QED
      BY <2>1, <2>4, <3>1, <1>t, RunEnds DEF TypeOK
  <2>5. CASE p = r /\ told[r] = <<>> /\ \E kind, q : Publish(r, kind, q)
    <3>1. Len(told'[p]) = 1
      BY <2>5, PublishedFirst
    <3> QED
      BY <2>1, <2>5, <3>1, <1>t, RunEnds DEF TypeOK
  <2> QED
    BY <2>2, <2>3, <2>4, <2>5
<1> QED
  BY <1>1, <1>2, <1>3, <1>4, <1>5, <1>6, <1>7, <1>8, <1>9, <1>10 DEF Next, Step, Handle

\* Unless wait_for swallows a cancel, the handler of a run has at most one
\* result, error or timeout published, and none beside a cancel, however the runs
\* of any number of clients overlap and however often they are cancelled.
THEOREM OneOutcome ==
    ASSUME ~Swallows
    PROVE  Spec => []OnlyCancelsRepeat
<1>1. TypeOK /\ ReportInv /\ [Next]_vars => ReportInv'
  BY ReportStep
<1>2. ReportInv => OnlyCancelsRepeat
  BY DEF ReportInv
<1> QED
  BY <1>1, <1>2, TypeInit, TypeStep, ReportInit, PTL DEF Spec

-----------------------------------------------------------------------------
(* One run at a time can be cancelled, and reports its own outcome.        *)

\* What AloneInv says of run p while runs are kept apart.
RunAlone(p) ==
    /\ Driven(p) => consuming = p
    /\ pc[p] = "ended" =>
          \E o \in Outcome : /\ told[p] # <<>>
                             /\ Only(p, o)
                             /\ o.of = p
                             /\ o.kind # "cancelled" => Len(told[p]) = 1
                             /\ o.kind = "done" => thread[p] = "done"
    /\ pc[p] = "closing" => last = p /\ thread[p] = "done"

LEMMA AloneOfRuns == AloneInv <=> (alone => \A p \in Runs : RunAlone(p))
<1>1. EveryRunReports <=> (alone => \A r \in Runs : pc[r] = "ended" =>
          \E o \in Outcome : /\ told[r] # <<>> /\ Only(r, o) /\ o.of = r
                             /\ o.kind # "cancelled" => Len(told[r]) = 1
                             /\ o.kind = "done" => thread[r] = "done")
  BY DEF EveryRunReports, Only
<1> QED
  BY <1>1, Zenon DEF AloneInv, RunningIsCancellable, RunAlone

LEMMA AloneInit == Init => AloneInv
BY DEF Init, AloneInv, RunningIsCancellable, EveryRunReports, Driven

\* It still holds of a run that a step does not touch: the shared fields may
\* change only where it is not driven.
LEMMA AloneKept ==
    ASSUME NEW p \in Runs, RunAlone(p), told'[p] = told[p], pc'[p] = pc[p],
           thread[p] = "done" => thread'[p] = "done",
           Driven(p) => consuming' = consuming /\ last' = last
    PROVE  RunAlone(p)'
<1>1. Driven(p)' => consuming' = p
  BY DEF RunAlone, Driven
<1>2. pc'[p] = "closing" => last' = p /\ thread'[p] = "done"
  BY DEF RunAlone, Driven
<1>3. ASSUME pc'[p] = "ended"
      PROVE  \E o \in Outcome : /\ told'[p] # <<>> /\ Only(p, o)' /\ o.of = p
                                /\ o.kind # "cancelled" => Len(told'[p]) = 1
                                /\ o.kind = "done" => thread'[p] = "done"
  BY <1>3 DEF RunAlone, Only
<1> QED
  BY <1>1, <1>2, <1>3, Zenon DEF RunAlone, Driven, Only

\* It holds of a run whose handler returns with its own outcome published.
LEMMA AloneEnds ==
    ASSUME NEW p \in Runs, pc'[p] = "ended",
           NEW kind \in {"done", "error", "timeout", "cancelled"},
           told'[p] # <<>>, Only(p, [kind |-> kind, of |-> p])',
           kind # "cancelled" => Len(told'[p]) = 1, kind = "done" => thread'[p] = "done"
    PROVE  RunAlone(p)'
<1> DEFINE o == [kind |-> kind, of |-> p]
<1>1. o \in Outcome /\ o.of = p /\ o.kind = kind
  BY DEF Outcome
<1>2. Only(p, o)'
  OBVIOUS
<1> HIDE DEF o
<1> QED
  BY <1>1, <1>2 DEF RunAlone, Driven

LEMMA AloneStep ==
    ASSUME ~Swallows, TypeOK, ReportInv, AloneInv, [Next]_vars
    PROVE  AloneInv'
<1> USE ModuleRunAssumption
<1> SUFFICES ASSUME alone' PROVE \A p \in Runs : RunAlone(p)'
  <2>1. EveryRunReports' <=> (alone' => \A r \in Runs : pc'[r] = "ended" =>
          \E o \in Outcome : /\ told'[r] # <<>> /\ Only(r, o)' /\ o.of = r
                             /\ o.kind # "cancelled" => Len(told'[r]) = 1
                             /\ o.kind = "done" => thread'[r] = "done")
    BY DEF EveryRunReports, Only
  <2> QED
    BY <2>1, Zenon DEF AloneInv, RunningIsCancellable, RunAlone
<1> SUFFICES ASSUME NEW p \in Runs PROVE RunAlone(p)'
  OBVIOUS
<1>0. alone /\ (UNCHANGED vars \/ Apart')
  BY DEF Next, Watch, vars
<1>a. \A q \in Runs : RunAlone(q) /\ RunReport(q)
  BY <1>0, AloneOfRuns, ReportOfRuns
<1>1. CASE UNCHANGED vars
  BY <1>1, <1>a, AloneKept DEF vars
<1>2. ASSUME NEW c \in Clients, Open(c) \/ Close(c) PROVE RunAlone(p)'
  BY <1>2, <1>a, AloneKept DEF Open, Close, runs, shared
<1>3. ASSUME NEW c \in Clients, NEW r \in Runs, Start(c, r) PROVE RunAlone(p)'
  <2>1. CASE p = r
    BY <1>3, <2>1 DEF Start, Goto, TypeOK, RunAlone, Driven
  <2>2. CASE p # r
    BY <1>3, <2>2, <1>a, AloneKept DEF Start, shared, Goto, TypeOK
  <2> QED
    BY <2>1, <2>2
<1>4. CASE PreviewFails
  BY <1>4, <1>a, AloneKept DEF PreviewFails, runs, shared
<1>5. CASE Cancel
  <2>1. consuming \in Runs /\ pc[consuming] # "ended" /\ Publish(consuming, "cancelled", consuming)
    BY <1>5 DEF Cancel, TypeOK
  <2>2. pc' = pc /\ thread' = thread /\ consuming' = consuming /\ last' = last
    BY <1>5 DEF Cancel, shared
  <2>3. CASE p = consuming
    BY <2>1, <2>2, <2>3, <1>a DEF RunAlone, Driven
  <2>4. CASE p # consuming
    BY <2>1, <2>2, <2>4, <1>a, PublishedApart, AloneKept
  <2> QED
    BY <2>3, <2>4
<1>6. ASSUME NEW r \in Runs, Begin(r), Apart' PROVE RunAlone(p)'
  <2>1. /\ pc' = [pc EXCEPT ![r] = "driving"] /\ consuming' = r /\ told' = told /\ thread' = thread
    BY <1>6 DEF Begin, Goto, panels
  <2>2. CASE p = r
    BY <2>1, <2>2 DEF TypeOK, RunAlone, Driven
  <2>3. CASE p # r
    <3>1. ~Driven(p)
      BY <1>6, <2>1, <2>3 DEF Apart, Active, Driven, TypeOK
    <3> QED
      BY <2>1, <2>3, <3>1, <1>a, AloneKept DEF TypeOK
  <2> QED
    BY <2>2, <2>3
<1>7. ASSUME NEW r \in Runs, StartWork(r) \/ WorkEnds(r) PROVE RunAlone(p)'
  <2>1. told' = told /\ pc' = pc /\ consuming' = consuming /\ last' = last
    BY <1>7 DEF StartWork, WorkEnds, panels, shared
  <2>2. thread[p] = "done" => thread'[p] = "done"
    BY <1>7 DEF StartWork, WorkEnds, TypeOK
  <2> QED
    BY <2>1, <2>2, <1>a, AloneKept
<1>8. ASSUME NEW r \in Runs, Record(r) PROVE RunAlone(p)'
  <2>1. /\ pc' = [pc EXCEPT ![r] = "closing"] /\ thread' = thread /\ told' = told
        /\ consuming' = consuming /\ last' = r /\ Driven(r) /\ thread[r] = "done"
    BY <1>8 DEF Record, Goto, panels, Driven
  <2>2. CASE p = r
    BY <2>1, <2>2, <1>a DEF TypeOK, RunAlone, Driven
  <2>3. CASE p # r
    <3>1. ~Driven(p)
      BY <2>1, <2>3, <1>a DEF RunAlone
    <3> QED
      BY <2>1, <2>3, <3>1, <1>a, AloneKept DEF TypeOK
  <2> QED
    BY <2>2, <2>3
<1>9. ASSUME NEW r \in Runs, Timeout(r) PROVE RunAlone(p)'
  BY <1>9, <1>a, AloneKept DEF Timeout, panels, shared
<1>10. ASSUME NEW r \in Runs, Announce(r) \/ Fail(r) \/ Unwind(r) PROVE RunAlone(p)'
  <2>1. /\ pc' = [pc EXCEPT ![r] = "ended"] /\ thread' = thread /\ last' = last
        /\ Driven(r) /\ pc[r] # "ended"
    BY <1>10 DEF Announce, Fail, Unwind, Goto, Driven
  <2>2. consuming = r /\ (pc[r] = "closing" => last = r /\ thread[r] = "done")
    BY <2>1, <1>a DEF RunAlone
  <2>3. \/ told' = told /\ told[r] # <<>> /\ Only(r, [kind |-> "cancelled", of |-> r])
        \/ /\ told[r] = <<>>
           /\ \E kind \in {"done", "error", "timeout"} :
                 Publish(r, kind, r) /\ (kind = "done" => thread[r] = "done")
    BY <1>10, <2>1, <2>2, <1>a DEF Announce, Fail, Unwind, RunReport, TypeOK
  <2>4. CASE p # r
    <3>1. ~Driven(p) /\ told'[p] = told[p]
      BY <2>2, <2>3, <2>4, <1>a, PublishedApart DEF RunAlone
    <3> QED
      BY <2>1, <2>4, <3>1, <1>a, AloneKept DEF TypeOK
  <2>5. CASE p = r /\ told' = told /\ told[r] # <<>> /\ Only(r, [kind |-> "cancelled", of |-> r])
    BY <2>1, <2>5, AloneEnds DEF TypeOK, Only
  <2>6. ASSUME p = r, told[r] = <<>>, NEW kind \in {"done", "error", "timeout"},
               Publish(r, kind, r), kind = "done" => thread[r] = "done"
        PROVE  RunAlone(p)'
    BY <2>1, <2>6, PublishedFirst, AloneEnds DEF TypeOK
  <2> QED
    BY <2>3, <2>4, <2>5, <2>6
<1> QED
  BY <1>0, <1>1, <1>2, <1>3, <1>4, <1>5, <1>6, <1>7, <1>8, <1>9, <1>10 DEF Next, Step, Handle

\* As long as runs do not overlap, each is the one that Cancel reaches, and each
\* that has ended has had its own outcome published and no other.
THEOREM AloneIsSound ==
    ASSUME ~Swallows
    PROVE  Spec => [](RunningIsCancellable /\ EveryRunReports)
<1>1. TypeOK /\ ReportInv /\ [Next]_vars => ReportInv'
  BY ReportStep
<1>2. TypeOK /\ ReportInv /\ AloneInv /\ [Next]_vars => AloneInv'
  BY AloneStep
<1>3. AloneInv => RunningIsCancellable /\ EveryRunReports
  BY DEF AloneInv
<1> QED
  BY <1>1, <1>2, <1>3, TypeInit, TypeStep, ReportInit, AloneInit, PTL DEF Spec

\* As long as runs do not overlap, a handler that has returned has had its own
\* outcome published, once unless it is a cancel, nothing else, and "done" only if
\* its thread delivered.
THEOREM EachRunReports ==
    ASSUME ~Swallows
    PROVE  Spec => []EveryRunReports
BY AloneIsSound, PTL
=============================================================================
