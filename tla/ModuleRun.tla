----------------------------- MODULE ModuleRun -----------------------------
(***************************************************************************)
(* How a module runs an operation: the panel each browser client sees      *)
(* (modules/extractors/bulk_renamer/ui.py), the event-bus handlers behind  *)
(* it (bulk_renamer/logic.py; every module has the same ones) and the one  *)
(* SandboxTask they share (core/sandbox.py).                               *)
(*                                                                         *)
(* The event loop runs one handler at a time, so what happens between two  *)
(* awaits is one step; the worker threads run beside it.  Topics are       *)
(* global: every open panel sees every outcome.                            *)
(*                                                                         *)
(* An operator named M<Action><Change> is <Action> with a plausible bug: a *)
(* property has to fail when it takes the place of <Action>.               *)
(***************************************************************************)
EXTENDS Naturals, Sequences

CONSTANTS
    Clients,     \* browser clients
    Runs,        \* runs of the module, each started at most once
    NoRun,       \* "no run": None in _consuming and in _last_result
    Swallows,    \* does wait_for drop a cancel that finds the work done?
                 \* (it does in Python 3.11, the oldest one supported)
    MaxCancels   \* a bound on the cancels of one run

ASSUME ModuleRunAssumption ==
    /\ NoRun \notin Runs
    /\ Swallows \in BOOLEAN
    /\ MaxCancels \in Nat

VARIABLES
    open,        \* clients whose panel is subscribed to the module's topics
    busy,        \* clients whose panel has _is_running set
    pc,          \* where the execute handler of each run is
    thread,      \* its worker thread
    stop,        \* what is about to interrupt it, if anything
    consuming,   \* SandboxTask._consuming
    last,        \* _last_result, as the run that produced it
    told,        \* history: what the handler of each run has had published
    alone        \* history: have the runs been kept apart so far?

vars == <<open, busy, pc, thread, stop, consuming, last, told, alone>>

\* ready: the handler task exists; driving: inside consume; closing: the
\* generator has recorded its result; ended: the handler has returned.
Places  == {"off", "ready", "driving", "closing", "ended"}
Threads == {"none", "working", "done", "failed"}
Outcome == [kind: {"done", "error", "timeout", "cancelled"}, of: Runs]

TypeOK ==
    /\ open \subseteq Clients
    /\ busy \subseteq Clients
    /\ pc \in [Runs -> Places]
    /\ thread \in [Runs -> Threads]
    /\ stop \in [Runs -> {"no", "timeout", "cancel"}]
    /\ consuming \in Runs \cup {NoRun}
    /\ last \in Runs \cup {NoRun}
    /\ told \in [Runs -> Seq(Outcome)]
    /\ alone \in BOOLEAN

Init ==
    /\ open = {}
    /\ busy = {}
    /\ pc = [r \in Runs |-> "off"]
    /\ thread = [r \in Runs |-> "none"]
    /\ stop = [r \in Runs |-> "no"]
    /\ consuming = NoRun
    /\ last = NoRun
    /\ told = [r \in Runs |-> <<>>]
    /\ alone = TRUE

panels == <<open, busy>>
runs   == <<pc, thread, stop>>
shared == <<consuming, last>>

Goto(r, place) == pc' = [pc EXCEPT ![r] = place]

\* In the name of the handler of run r, an outcome of run q is published.
Publish(r, kind, q) == told' = [told EXCEPT ![r] = Append(@, [kind |-> kind, of |-> q])]

-----------------------------------------------------------------------------
(* The panels.                                                             *)

\* BaseModule.attach_ui: a client that opens the module, or navigates back to
\* it, gets a fresh panel, which knows of no run.
Open(c) ==
    /\ open' = open \cup {c}
    /\ busy' = busy \ {c}
    /\ UNCHANGED <<runs, shared, told>>

\* BaseModule.detach_ui when the client disconnects.
Close(c) ==
    /\ c \in open
    /\ open' = open \ {c}
    /\ busy' = busy \ {c}
    /\ UNCHANGED <<runs, shared, told>>

\* _on_run_click and _start: the panel locks its Run button and publishes
\* EVENT_EXECUTE, which creates the handler task.
Start(c, r) ==
    /\ c \in open \ busy
    /\ pc[r] = "off"
    /\ busy' = busy \cup {c}
    /\ Goto(r, "ready")
    /\ UNCHANGED <<open, thread, stop, shared, told>>

\* What every open panel does on EVENT_DONE, EVENT_ERROR or EVENT_CANCELLED.
Unlock == busy' = busy \ open

\* _on_preview fails and publishes EVENT_ERROR, whatever else is running.
PreviewFails ==
    /\ open # {}
    /\ Unlock
    /\ UNCHANGED <<open, runs, shared, told>>

MCancelEnded ==
    /\ open # {}
    /\ \E r \in {q \in Runs : pc[q] = "ended"} \cup ({consuming} \ {NoRun}) :
          /\ Len(told[r]) < MaxCancels
          /\ stop' = [stop EXCEPT ![r] = "cancel"]
          /\ Publish(r, "cancelled", r)
    /\ Unlock
    /\ UNCHANGED <<open, pc, thread, shared>>

\* _on_cancel: SandboxTask.request_cancel, and if there is a run to cancel,
\* EVENT_CANCELLED: once for every click that comes before the handler unwinds.
Cancel ==
    /\ open # {}
    /\ consuming # NoRun
    /\ pc[consuming] # "ended"
    /\ Len(told[consuming]) < MaxCancels
    /\ stop' = [stop EXCEPT ![consuming] = "cancel"]
    /\ Publish(consuming, "cancelled", consuming)
    /\ Unlock
    /\ UNCHANGED <<open, pc, thread, shared>>

-----------------------------------------------------------------------------
(* _on_execute, consume and execute, for run r.                            *)

MBeginUnremembered(r) ==
    /\ pc[r] = "ready"
    /\ Goto(r, "driving")
    /\ last' = NoRun
    /\ UNCHANGED <<panels, thread, stop, consuming, told>>

\* The handler's first step: it forgets the last result, and consume remembers
\* the handler's task as the one to cancel.
Begin(r) ==
    /\ pc[r] = "ready"
    /\ Goto(r, "driving")
    /\ last' = NoRun
    /\ consuming' = r
    /\ UNCHANGED <<panels, thread, stop, told>>

\* After the first progress event the generator starts its worker thread.
StartWork(r) ==
    /\ pc[r] = "driving"
    /\ stop[r] = "no"
    /\ thread[r] = "none"
    /\ thread' = [thread EXCEPT ![r] = "working"]
    /\ UNCHANGED <<panels, pc, stop, shared, told>>

\* The worker thread ends in its own time.
WorkEnds(r) ==
    /\ thread[r] = "working"
    /\ \E end \in {"done", "failed"} : thread' = [thread EXCEPT ![r] = end]
    /\ UNCHANGED <<panels, pc, stop, shared, told>>

\* The generator records the result and yields its last progress event.
Record(r) ==
    /\ pc[r] = "driving"
    /\ stop[r] = "no"
    /\ thread[r] = "done"
    /\ last' = r
    /\ Goto(r, "closing")
    /\ UNCHANGED <<panels, thread, stop, consuming, told>>

MAnnounceAnything(r) ==
    /\ pc[r] = "closing"
    /\ stop[r] = "no" \/ Swallows
    /\ consuming' = NoRun
    /\ Publish(r, "done", last)
    /\ Unlock
    /\ Goto(r, "ended")
    /\ UNCHANGED <<open, thread, stop, last>>

\* consume has returned: what _last_result holds is published with EVENT_DONE,
\* and nothing if it holds nothing.
Announce(r) ==
    /\ pc[r] = "closing"
    /\ stop[r] = "no" \/ Swallows
    /\ consuming' = NoRun
    /\ IF last = NoRun
       THEN UNCHANGED <<told, busy>>
       ELSE /\ Publish(r, "done", last)
            /\ Unlock
    /\ Goto(r, "ended")
    /\ UNCHANGED <<open, thread, stop, last>>

\* execute raised what its worker raised: EVENT_ERROR.
Fail(r) ==
    /\ pc[r] = "driving"
    /\ stop[r] = "no"
    /\ thread[r] = "failed"
    /\ consuming' = NoRun
    /\ Publish(r, "error", r)
    /\ Unlock
    /\ Goto(r, "ended")
    /\ UNCHANGED <<open, thread, stop, last>>

\* wait_for's timer.
Timeout(r) ==
    /\ pc[r] \in {"driving", "closing"}
    /\ stop[r] = "no"
    /\ stop' = [stop EXCEPT ![r] = "timeout"]
    /\ UNCHANGED <<panels, pc, thread, shared, told>>

MUnwindLoudly(r) ==
    /\ pc[r] \in {"driving", "closing"}
    /\ stop[r] # "no"
    /\ consuming' = NoRun
    /\ Publish(r, "timeout", r)
    /\ Unlock
    /\ Goto(r, "ended")
    /\ UNCHANGED <<open, thread, stop, last>>

MUnwindQuietly(r) ==
    /\ pc[r] \in {"driving", "closing"}
    /\ stop[r] # "no"
    /\ consuming' = NoRun
    /\ Goto(r, "ended")
    /\ UNCHANGED <<panels, thread, stop, last, told>>

\* The interruption reaches the handler.  A timeout is reported; a cancel is
\* not, because _on_cancel has done so.  Either way the worker thread goes on.
Unwind(r) ==
    /\ pc[r] \in {"driving", "closing"}
    /\ stop[r] # "no"
    /\ consuming' = NoRun
    /\ IF stop[r] = "cancel"
       THEN UNCHANGED <<told, busy>>
       ELSE /\ Publish(r, "timeout", r)
            /\ Unlock
    /\ Goto(r, "ended")
    /\ UNCHANGED <<open, thread, stop, last>>

\* What the event loop does for run r.
Handle(r) ==
    Begin(r) \/ StartWork(r) \/ Record(r) \/ Announce(r) \/ Fail(r) \/ Timeout(r) \/ Unwind(r)

Step ==
    \/ \E c \in Clients : Open(c) \/ Close(c) \/ \E r \in Runs : Start(c, r)
    \/ PreviewFails
    \/ Cancel
    \/ \E r \in Runs : Handle(r) \/ WorkEnds(r)

\* Only _is_running keeps the runs of a module apart, and it is lost when a panel
\* is rendered again, unknown to other clients, and cleared by the failure of a
\* preview.
Driven(r) == pc[r] \in {"driving", "closing"}
Active(r) == pc[r] = "ready" \/ Driven(r)
Apart     == \A r, q \in Runs : Active(r) /\ Active(q) => r = q

Watch == alone' = (alone /\ Apart')

Next == Step /\ Watch
Spec == Init /\ [][Next]_vars

\* The event loop and its timers run; no worker thread has to end.
FairSpec == Spec /\ \A r \in Runs : WF_vars(Handle(r) /\ Watch)
-----------------------------------------------------------------------------
(* What the parts promise together.                                        *)

\* However many runs overlap, the handler of each has at most one result, error
\* or timeout published, and none if it is cancelled: a run that was cancelled
\* "reports nothing itself" (bulk_renamer/logic.py:116-118), and a cancel that
\* comes too late reports nothing either.  Only the cancel may be published
\* again, by a second click before the handler unwinds.  (Not so where wait_for
\* swallows the cancel of a run that has just finished.  And a result may be
\* published by the handlers of two runs that overlap, which share the one they
\* have recorded: EveryRunReports is about runs kept apart.)
OnlyCancelsRepeat ==
    \A r \in Runs : \A i, j \in DOMAIN told[r] :
        i # j => told[r][i].kind = "cancelled"

\* As long as runs have been kept apart, each handler that has returned has had
\* its own outcome published, once unless it is a cancel, and nothing else; a
\* result is published only if its worker thread delivered it.
EveryRunReports ==
    alone => \A r \in Runs : pc[r] = "ended" =>
        \E o \in Outcome : /\ told[r] # <<>>
                           /\ \A i \in DOMAIN told[r] : told[r][i] = o
                           /\ o.of = r
                           /\ o.kind # "cancelled" => Len(told[r]) = 1
                           /\ o.kind = "done" => thread[r] = "done"

\* As long as runs have been kept apart, the one being driven can be cancelled:
\* remembering the handler's task
\* "is all that is needed to make the operation cancellable" (sandbox.py:66-69).
RunningIsCancellable == alone => \A r \in Runs : Driven(r) => consuming = r

\* A panel that has locked its Run button unlocks it again, even if the worker
\* thread never ends and even if other runs take its result away.
PanelUnlocks == \A c \in Clients : c \in busy ~> c \notin busy

-----------------------------------------------------------------------------
(* Inductive invariants (see ModuleRun_proofs).                            *)

\* Until its handler returns, a run has had nothing published but its cancels,
\* and only a handler that has begun can be cancelled.
ReportInv ==
    /\ \A r \in Runs : pc[r] \in {"off", "ready"} => stop[r] = "no" /\ consuming # r
    /\ \A r \in Runs : pc[r] # "ended" =>
          /\ stop[r] = "cancel" <=> told[r] # <<>>
          /\ \A i \in DOMAIN told[r] : told[r][i] = [kind |-> "cancelled", of |-> r]
    /\ OnlyCancelsRepeat

\* With one run at a time, the shared fields belong to it.
AloneInv ==
    /\ RunningIsCancellable
    /\ EveryRunReports
    /\ alone => \A r \in Runs : pc[r] = "closing" => last = r /\ thread[r] = "done"
=============================================================================
