-------------------------- MODULE RequestLifecycle --------------------------
(***************************************************************************)
(* The request lifecycle of the ContextPilot service worker: how one Ask   *)
(* or Act request is accepted, driven, dispatched to the page, ended and   *)
(* recovered (extension/src/service-worker: request-store,                 *)
(* request-execution, chat-request-lifecycle, request-persistence,         *)
(* chat-request-message-handler, runtime-core-handlers, chat-run-          *)
(* lifecycle, act-chat-start, act-execution-runtime).                      *)
(*                                                                         *)
(* Every request has one driver: the asynchronous handler that the START   *)
(* message began, or the message handler that took it over (approval,      *)
(* workflow selection, resume).  at[r] is the await the driver is parked   *)
(* on.  A driver that belongs to an ended request keeps running until one  *)
(* of its checks throws, so drivers of several requests interleave.        *)
(*                                                                         *)
(* Abstractions.  Stages, codes, prompts, revisions and completions are    *)
(* left out.  A saved row keeps what restore() decides on: whether the     *)
(* request was unfinished, its dispatch marker and its outcome.  Retention *)
(* (30 minutes, 50 rows) is longer than any behaviour considered.  Owners  *)
(* are panel documents without a page epoch, so the epoch branch of        *)
(* check() never applies, and the panel never reuses a request id.  A run  *)
(* and its chat thread end together, so runs[t] is the request of the      *)
(* tab's unfinished run; runs that only preview a tool are left out.       *)
(***************************************************************************)
EXTENDS Naturals, Sequences, FiniteSets

CONSTANTS
  Requests,       \* request ids
  Tabs,           \* browser tabs
  TabOf,          \* the tab a request was started on
  NoRequest,      \* no unfinished run on the tab
  MaxGeneration,  \* bound: generations of one request (resumes + 1)
  MaxEffects,     \* bound: page effects of one request
  MaxQueue,       \* bound: saves waiting when a step saves
  MaxFailures,    \* bound: saves that session storage refuses
  MaxRestarts     \* bound: service-worker restarts

ASSUME TabOfType == TabOf \in [Requests -> Tabs]
ASSUME NoRequestFresh == NoRequest \notin Requests
ASSUME BoundsAreNatural ==
  /\ MaxGeneration \in Nat /\ MaxEffects \in Nat /\ MaxQueue \in Nat
  /\ MaxFailures \in Nat /\ MaxRestarts \in Nat

VARIABLES
  requests,   \* the worker's request map
  budget,     \* requests with a running RequestBudget timer
  runs,       \* per tab: the request of the coordinator's unfinished run
  at,         \* where each driver is parked
  bound,      \* the generation in the driver's RequestContext
  detached,   \* drivers that are panel-message handlers, not the request's own
  queue,      \* saves handed to RequestPersistence, oldest first
  disk,       \* chrome.storage.session
  worker,     \* "up", "booting" or "deaf" (restore failed)
  effects,    \* history: page effects dispatched for a request
  refused,    \* history: requests one of whose markers storage refused
  failures,   \* count of refused saves
  restarts    \* count of restarts

store == <<requests, budget, runs, queue>>
history == <<effects, refused, failures, restarts>>
vars == <<requests, budget, runs, at, bound, detached, queue, disk, worker,
          effects, refused, failures, restarts>>

Unfinished == {"ACCEPTED", "RUNNING", "WAITING_USER"}
States == Unfinished \cup {"ABSENT", "TERMINAL"}
Outcomes == {"VERIFIED", "FAILED", "UNKNOWN", "CANCELLED"}
NoOutcome == "NONE"

Entry == [state : States, dispatched : BOOLEAN, outcome : Outcomes \cup {NoOutcome},
          generation : 0 .. MaxGeneration + 1]
Row == [state : {"ABSENT", "UNFINISHED", "TERMINAL"}, dispatched : BOOLEAN,
        outcome : Outcomes \cup {NoOutcome}]
Save == [rows : [Requests -> Row], wakes : SUBSET Requests]

Parked == {"none", "flushing", "stored", "unstored", "discover", "between",
           "step", "claiming", "marking", "marked", "unmarked", "performing",
           "review", "resuming", "select", "done"}

TypeOK ==
  /\ requests \in [Requests -> Entry]
  /\ budget \in SUBSET Requests
  /\ runs \in [Tabs -> Requests \cup {NoRequest}]
  /\ at \in [Requests -> Parked]
  /\ bound \in [Requests -> 0 .. MaxGeneration]
  /\ detached \in SUBSET Requests
  /\ queue \in Seq(Save)
  /\ disk \in [Requests -> Row]
  /\ worker \in {"up", "booting", "deaf"}
  /\ effects \in [Requests -> 0 .. MaxEffects]
  /\ refused \in SUBSET Requests
  /\ failures \in 0 .. MaxFailures
  /\ restarts \in 0 .. MaxRestarts

-----------------------------------------------------------------------------
(* The request map and its saves.                                          *)

Absent == [state |-> "ABSENT", dispatched |-> FALSE, outcome |-> NoOutcome,
           generation |-> 0]
NoRow == [state |-> "ABSENT", dispatched |-> FALSE, outcome |-> NoOutcome]

Live(r) == requests[r].state \in Unfinished
LiveOn(t) == {r \in Requests : TabOf[r] = t /\ Live(r)}

\* RequestContext.check(): not aborted, not terminal, same generation.
Alive(r) == Live(r) /\ requests[r].generation = bound[r]

\* The driver's run is not TERMINAL.
RunActive(r) == runs[TabOf[r]] = r

\* Mutant of RowOf: copy() forgets the marker.
RowOf_NoMarker(e) ==
  [state |-> IF e.state \in Unfinished THEN "UNFINISHED" ELSE e.state,
   dispatched |-> FALSE, outcome |-> e.outcome]

\* copy(): the row of a request that a save carries.
RowOf(e) ==
  [state |-> IF e.state \in Unfinished THEN "UNFINISHED" ELSE e.state,
   dispatched |-> e.dispatched, outcome |-> e.outcome]
Snapshot(m) == [r \in Requests |-> RowOf(m[r])]

\* save(): the snapshot is taken now and written behind the earlier ones.
\* Equal saves nobody awaits are one: it lands when one of them does.
Enqueue(q, m, w) ==
  IF q # <<>> /\ w = {} /\ q[Len(q)] = [rows |-> Snapshot(m), wakes |-> {}]
  THEN q ELSE Append(q, [rows |-> Snapshot(m), wakes |-> w])

\* Bound: a step saves only while at most MaxQueue saves are waiting.
Saves(q) == Len(queue) <= MaxQueue /\ queue' = q

\* Mutant of Honest: the outcome is what the ending path says.
Honest_Plain(e, o) == o

\* finish() and cancel(): a dispatched request is never FAILED or CANCELLED.
Honest(e, o) == IF e.dispatched /\ o \in {"FAILED", "CANCELLED"} THEN "UNKNOWN" ELSE o

\* transition() saves the TERMINAL row before the outcome is set; the second
\* save carries the outcome.
Terminal(m, r) == [m EXCEPT ![r].state = "TERMINAL"]
Ended(m, r, o) == [Terminal(m, r) EXCEPT ![r].outcome = Honest(m[r], o)]

\* Mutant of EndSaves: nothing is saved once the outcome is set.
EndSaves_NoOutcome(m, r, o) == Enqueue(queue, Terminal(m, r), {})

EndSaves(m, r, o) == Enqueue(Enqueue(queue, Terminal(m, r), {}), Ended(m, r, o), {})

\* finish() of a live request, on the map m; onTerminal ends the tab's run.
EndIn(m, r, o) ==
  /\ requests' = Ended(m, r, o)
  /\ Saves(EndSaves(m, r, o))
  /\ budget' = budget \ {r}
  /\ runs' = [runs EXCEPT ![TabOf[r]] = NoRequest]
End(r, o) == EndIn(requests, r, o)

\* endTab(): whichever request is live on the tab.
EndTab(t, o) == \E r \in LiveOn(t) : End(r, o)

\* progress(): whichever request is live on the tab; none, no step.
Move(t, state) ==
  IF LiveOn(t) = {}
  THEN UNCHANGED <<requests, queue>>
  ELSE \E s \in LiveOn(t) :
         /\ requests' = [requests EXCEPT ![s].state = state]
         /\ Saves(Enqueue(queue, requests', {}))
Progress(t, state) == Move(t, state) /\ UNCHANGED <<budget, runs>>

-----------------------------------------------------------------------------
(* CHAT_REQUEST_START.                                                     *)

Go(r, pc) == at' = [at EXCEPT ![r] = pc]
Rest == UNCHANGED <<bound, detached, disk, worker, effects, refused, failures, restarts>>

\* Mutant of Start: the tab is not asked for a live request.
Start_Busy(r) ==
  /\ worker = "up"
  /\ requests[r].state = "ABSENT"
  /\ requests' = [requests EXCEPT ![r].state = "ACCEPTED"]
  /\ Saves(Enqueue(queue, requests', {r}))
  /\ Go(r, "flushing") /\ UNCHANGED <<budget, runs>> /\ Rest

\* requests.start() accepts a fresh id on a tab without a live request (else
\* SESSION_STREAM_BUSY); the handler then awaits flush().
Start(r) ==
  /\ worker = "up"
  /\ requests[r].state = "ABSENT" /\ LiveOn(TabOf[r]) = {}
  /\ requests' = [requests EXCEPT ![r].state = "ACCEPTED"]
  /\ Saves(Enqueue(queue, requests', {r}))
  /\ Go(r, "flushing") /\ UNCHANGED <<budget, runs>> /\ Rest

\* Mutant of StartRun: the budget timer is not started.
StartRun_NoBudget(r) ==
  /\ at[r] = "stored" /\ requests[r].state = "ACCEPTED"
  /\ requests' = [requests EXCEPT ![r].state = "RUNNING"]
  /\ Saves(Enqueue(queue, requests', {}))
  /\ \E pc \in {"discover", "between"} : Go(r, pc)
  /\ bound' = [bound EXCEPT ![r] = requests[r].generation]
  /\ UNCHANGED <<budget, runs, detached, disk, worker, history>>

\* startRun(): only an ACCEPTED request is run and gets a budget; Act first
\* discovers workflows under an activity id, Ask begins a run at once.
StartRun(r) ==
  /\ at[r] = "stored" /\ requests[r].state = "ACCEPTED"
  /\ requests' = [requests EXCEPT ![r].state = "RUNNING"]
  /\ Saves(Enqueue(queue, requests', {}))
  /\ budget' = budget \cup {r}
  /\ \E pc \in {"discover", "between"} : Go(r, pc)
  /\ bound' = [bound EXCEPT ![r] = requests[r].generation]
  /\ UNCHANGED <<runs, detached, disk, worker, history>>

\* startRun() finds the request in any other state: the handler returns.
StartNothing(r) ==
  /\ at[r] = "stored" /\ requests[r].state # "ACCEPTED"
  /\ Go(r, "done") /\ UNCHANGED store /\ Rest

\* The accepted row could not be stored: the handler cancels the request.
StartRefused(r) ==
  /\ at[r] = "unstored"
  /\ IF Live(r) THEN End(r, "FAILED") ELSE UNCHANGED store
  /\ Go(r, "done") /\ Rest

-----------------------------------------------------------------------------
(* Act discovery: activities are published under an id that no run and no  *)
(* cancellation closes, so they move whichever request the tab now has.    *)

\* startActivity / progressActivity, with no check of the request before it.
Activity(r) ==
  /\ at[r] = "discover"
  /\ Progress(TabOf[r], "RUNNING")
  /\ UNCHANGED at /\ Rest

\* Workflow candidates or an analysis selection: finishActivity, settled().
DiscoverSelect(r) ==
  /\ at[r] = "discover"
  /\ Progress(TabOf[r], "WAITING_USER")
  /\ Go(r, IF Alive(r) THEN "select" ELSE "done") /\ Rest

\* finishActivity(COMPLETED), then runStep().
DiscoverRun(r) ==
  /\ at[r] = "discover"
  /\ Progress(TabOf[r], "RUNNING")
  /\ Go(r, "between") /\ Rest

\* An error, or a failed check: finishActivity(FAILED), then finish().
DiscoverFail(r) ==
  /\ at[r] = "discover"
  /\ IF Alive(r) THEN End(r, "FAILED") ELSE Progress(TabOf[r], "RUNNING")
  /\ Go(r, "done") /\ Rest

-----------------------------------------------------------------------------
(* A step of the run.                                                      *)

\* Mutant of BeginStep: the context is not checked after the await.
BeginStep_Unchecked(r) ==
  /\ at[r] = "between"
  /\ runs' = [runs EXCEPT ![TabOf[r]] = r]
  /\ Go(r, "step") /\ UNCHANGED <<requests, budget, queue>> /\ Rest

\* runs.start() and bindRun() after the context was checked.
BeginStep(r) ==
  /\ at[r] = "between" /\ Alive(r)
  /\ runs' = [runs EXCEPT ![TabOf[r]] = r]
  /\ Go(r, "step") /\ UNCHANGED <<requests, budget, queue>> /\ Rest

\* activity_progress of the run, dropped once its chat run is terminal.
StepProgress(r) ==
  /\ at[r] = "step" /\ RunActive(r)
  /\ Progress(TabOf[r], "RUNNING")
  /\ UNCHANGED at /\ Rest

\* A proposal or a collection selection waits for the user; settled() keeps
\* the request WAITING_USER.
StepWait(r) ==
  /\ at[r] = "step"
  /\ IF RunActive(r) THEN Progress(TabOf[r], "WAITING_USER") ELSE UNCHANGED store
  /\ \E pc \in {"review", "select"} : Go(r, IF Alive(r) THEN pc ELSE "done")
  /\ Rest

\* The goal is decided or the step failed: run_terminal reaches endTab()
\* while the chat run is open (an answered Ask is ended by settled()).
StepEnd(r) ==
  /\ at[r] = "step" /\ RunActive(r)
  /\ \E o \in Outcomes \ {"CANCELLED"} : EndTab(TabOf[r], o)
  /\ Go(r, "done") /\ Rest

\* An error between two steps: the request's own handler ends it, a panel
\* handler only reports the code and the request stays.
StepFail(r) ==
  /\ at[r] = "between" /\ Alive(r)
  /\ IF r \in detached THEN UNCHANGED store ELSE End(r, "FAILED")
  /\ Go(r, "done") /\ Rest

\* authorizeResume() passed: the proposal executes; or an answered question
\* continues the conversation, or an approved plan does once its run is closed.
Proceed(r) ==
  /\ at[r] = "resuming" /\ Alive(r) /\ RunActive(r)
  /\ \/ Go(r, "step") /\ UNCHANGED runs
     \/ Go(r, "between") /\ UNCHANGED runs
     \/ Go(r, "between") /\ runs' = [runs EXCEPT ![TabOf[r]] = NoRequest]
  /\ UNCHANGED <<requests, budget, queue>> /\ Rest

\* authorizeResume() throws: the panel gets the code, the proposal stays.
Decline(r) ==
  /\ at[r] = "resuming"
  /\ Go(r, "review") /\ UNCHANGED store /\ Rest

-----------------------------------------------------------------------------
(* beforeDispatch() and the dispatch.                                      *)

\* The run is active (its phase transition would throw otherwise) and the
\* context passes; markModelDispatch is awaited.
Claim(r) ==
  /\ at[r] = "step" /\ effects[r] < MaxEffects
  /\ RunActive(r) /\ Alive(r)
  /\ Go(r, "claiming") /\ UNCHANGED store /\ Rest

\* Mutant of Mark: the flush is not awaited.
Mark_NoWait(r) ==
  /\ at[r] = "claiming" /\ Alive(r)
  /\ requests' = [requests EXCEPT ![r].dispatched = TRUE, ![r].state = "RUNNING"]
  /\ Saves(Enqueue(queue, requests', {}))
  /\ Go(r, "marked") /\ UNCHANGED <<budget, runs>> /\ Rest

\* The marker is set and progress(DISPATCH) and flush() save it.
Mark(r) ==
  /\ at[r] = "claiming" /\ Alive(r)
  /\ requests' = [requests EXCEPT ![r].dispatched = TRUE, ![r].state = "RUNNING"]
  /\ Saves(Enqueue(Enqueue(queue, requests', {}), requests', {r}))
  /\ Go(r, "marking") /\ UNCHANGED <<budget, runs>> /\ Rest

\* The marker is stored, the context and the run are still good: the action
\* is sent to the page.
Dispatch(r) ==
  /\ at[r] = "marked" /\ Alive(r) /\ RunActive(r)
  /\ effects' = [effects EXCEPT ![r] = @ + 1]
  /\ Go(r, "performing")
  /\ UNCHANGED <<store, bound, detached, disk, worker, refused, failures, restarts>>

\* A check after an await failed: nothing is sent, the driver unwinds.
Abandon(r) ==
  /\ at[r] \in {"between", "step", "resuming", "claiming", "marked"}
  /\ ~Alive(r)
  /\ Go(r, "done") /\ UNCHANGED store /\ Rest

\* The marker could not be stored: it is deleted and the request fails.
MarkRefused(r) ==
  /\ at[r] = "unmarked"
  /\ LET m == [requests EXCEPT ![r].dispatched = FALSE]
     IN  IF Live(r) THEN EndIn(m, r, "FAILED")
         ELSE requests' = m /\ UNCHANGED <<budget, runs, queue>>
  /\ refused' = refused \cup {r}
  /\ Go(r, "done")
  /\ UNCHANGED <<bound, detached, disk, worker, effects, failures, restarts>>

\* The page answered (or the deadline passed): the run ends with a checking
\* completion, which ends no request, and the next step begins.
PerformReturn(r) ==
  /\ at[r] = "performing"
  /\ runs' = [runs EXCEPT ![TabOf[r]] = IF RunActive(r) THEN NoRequest ELSE @]
  /\ Go(r, "between") /\ UNCHANGED <<requests, budget, queue>> /\ Rest

-----------------------------------------------------------------------------
(* Messages of the panel, timers, page and settings events.                *)

\* ACT_APPROVE, ACT_VALUE_SUBMIT or ACT_CONFIRM: the session survives only
\* while its request does.
Approve(r) ==
  /\ worker = "up" /\ at[r] = "review" /\ Alive(r) /\ RunActive(r)
  /\ detached' = detached \cup {r}
  /\ Go(r, "resuming")
  /\ UNCHANGED <<store, bound, disk, worker, history>>

\* ACT_REJECT: the run is CANCELLED and its run_terminal ends the request.
Reject(r) ==
  /\ worker = "up" /\ at[r] = "review" /\ Live(r)
  /\ IF RunActive(r) THEN EndTab(TabOf[r], "CANCELLED") ELSE UNCHANGED store
  /\ Go(r, "done") /\ Rest

\* resumeAnalysis(): a new generation of a WAITING_USER request.
Resume(r) ==
  /\ worker = "up" /\ at[r] = "select"
  /\ requests[r].state = "WAITING_USER" /\ requests[r].generation < MaxGeneration
  /\ requests' = [requests EXCEPT ![r].state = "RUNNING", ![r].generation = @ + 1]
  /\ Saves(Enqueue(queue, requests', {}))
  /\ bound' = [bound EXCEPT ![r] = requests[r].generation + 1]
  /\ detached' = detached \ {r}
  /\ Go(r, IF RunActive(r) THEN "step" ELSE "discover")
  /\ UNCHANGED <<budget, runs, disk, worker, history>>

\* WORKFLOW_SELECT and WORKFLOW_START: the chosen workflow's session runs.
Choose(r) ==
  /\ worker = "up" /\ at[r] = "select" /\ Alive(r)
  /\ detached' = detached \cup {r}
  /\ Go(r, "between")
  /\ UNCHANGED <<store, bound, disk, worker, history>>

\* CHAT_REQUEST_CANCEL.
Cancel(r) ==
  /\ worker = "up" /\ Live(r)
  /\ LET m == [requests EXCEPT ![r].generation = @ + 1] IN EndIn(m, r, "CANCELLED")
  /\ UNCHANGED at /\ Rest

\* Mutant of Expire: waiting for the user has no budget.
Expire_Running(r) ==
  /\ r \in budget /\ requests[r].state = "RUNNING"
  /\ End(r, "FAILED")
  /\ UNCHANGED at /\ Rest

\* expire(): the active or the waiting budget ran out.
Expire(r) ==
  /\ r \in budget /\ Live(r)
  /\ End(r, "FAILED")
  /\ UNCHANGED at /\ Rest

\* cancelForPageChange() of the tab's run: an open chat run becomes
\* CANCELLED and that ends the tab's request.
PageChange(t) ==
  /\ worker = "up" /\ runs[t] # NoRequest
  /\ EndTab(t, "CANCELLED")
  /\ UNCHANGED at /\ Rest

\* cancelAllRuns(), on a settings or provider change.
StopAll(t) ==
  /\ worker = "up"
  /\ EndTab(t, "CANCELLED")
  /\ UNCHANGED at /\ Rest

-----------------------------------------------------------------------------
(* Session storage and the life of the worker.                             *)

Woken(r) == r \in Head(queue).wakes

\* The oldest save lands; the handlers awaiting it continue.
SaveOk ==
  /\ queue # <<>>
  /\ disk' = Head(queue).rows
  /\ queue' = Tail(queue)
  /\ at' = [r \in Requests |->
              IF ~Woken(r) THEN at[r]
              ELSE IF at[r] = "flushing" THEN "stored" ELSE "marked"]
  /\ worker' = IF worker = "booting" THEN "up" ELSE worker
  /\ UNCHANGED <<requests, budget, runs, bound, detached, history>>

\* Storage refuses the oldest save; later saves are still written.
SaveFail ==
  /\ queue # <<>> /\ failures < MaxFailures
  /\ failures' = failures + 1
  /\ queue' = Tail(queue)
  /\ at' = [r \in Requests |->
              IF ~Woken(r) THEN at[r]
              ELSE IF at[r] = "flushing" THEN "unstored" ELSE "unmarked"]
  /\ worker' = IF worker = "booting" THEN "deaf" ELSE worker
  /\ UNCHANGED <<requests, budget, runs, bound, detached, disk, effects, refused, restarts>>

\* restore(): an unfinished row becomes TERMINAL, UNKNOWN when it was marked.
Restored(row) ==
  [state |-> IF row.state = "ABSENT" THEN "ABSENT" ELSE "TERMINAL",
   dispatched |-> row.dispatched,
   outcome |-> IF row.state # "UNFINISHED" THEN row.outcome
               ELSE IF row.dispatched THEN "UNKNOWN" ELSE "FAILED",
   generation |-> IF row.state = "ABSENT" THEN 0 ELSE 1]

\* The worker dies and starts again.  The save in flight may still land;
\* everything in memory is gone, and restore() saves what it restored.
Restart ==
  /\ restarts < MaxRestarts
  /\ restarts' = restarts + 1
  /\ disk' \in {disk} \cup {queue[i].rows : i \in 1 .. (IF queue = <<>> THEN 0 ELSE 1)}
  /\ requests' = [r \in Requests |-> Restored(disk'[r])]
  /\ queue' = <<[rows |-> Snapshot(requests'), wakes |-> {}]>>
  /\ budget' = {}
  /\ runs' = [t \in Tabs |-> NoRequest]
  /\ at' = [r \in Requests |-> "none"]
  /\ bound' = [r \in Requests |-> 0]
  /\ detached' = {}
  /\ worker' = "booting"
  /\ UNCHANGED <<effects, refused, failures>>

-----------------------------------------------------------------------------

Init ==
  /\ requests = [r \in Requests |-> Absent]
  /\ budget = {}
  /\ runs = [t \in Tabs |-> NoRequest]
  /\ at = [r \in Requests |-> "none"]
  /\ bound = [r \in Requests |-> 0]
  /\ detached = {}
  /\ queue = <<>>
  /\ disk = [r \in Requests |-> NoRow]
  /\ worker = "up"
  /\ effects = [r \in Requests |-> 0]
  /\ refused = {}
  /\ failures = 0
  /\ restarts = 0

Handler(r) == Start(r) \/ StartRun(r) \/ StartNothing(r) \/ StartRefused(r)
Discovery(r) == Activity(r) \/ DiscoverSelect(r) \/ DiscoverRun(r) \/ DiscoverFail(r)
Step(r) ==
  \/ BeginStep(r) \/ StepProgress(r) \/ StepWait(r) \/ StepEnd(r) \/ StepFail(r)
  \/ Proceed(r) \/ Decline(r)
  \/ Claim(r) \/ Mark(r) \/ Dispatch(r) \/ Abandon(r) \/ MarkRefused(r) \/ PerformReturn(r)
Panel(r) == Approve(r) \/ Reject(r) \/ Resume(r) \/ Choose(r) \/ Cancel(r)
Storage == SaveOk \/ SaveFail

Next ==
  \/ \E r \in Requests : Handler(r) \/ Discovery(r) \/ Step(r) \/ Panel(r) \/ Expire(r)
  \/ \E t \in Tabs : PageChange(t) \/ StopAll(t)
  \/ Storage \/ Restart

Spec == Init /\ [][Next]_vars

\* Storage answers every save, a handler that was woken continues, and a
\* running timer fires.  Drivers, users and pages may stall for ever.
Fairness ==
  /\ WF_vars(Storage)
  /\ \A r \in Requests : WF_vars(StartRun(r)) /\ WF_vars(StartRefused(r)) /\ WF_vars(Expire(r))

FairSpec == Spec /\ Fairness

-----------------------------------------------------------------------------
(* Properties.                                                             *)

Dishonest == {"FAILED", "CANCELLED"}

\* A request whose action reached the page is never reported as FAILED or
\* CANCELLED, whatever ended it (cancel, expiry, page change, late answer) and
\* however often the worker restarted; the exception is a request one of whose
\* markers was refused (finding DispatchedNeverFailed).
HonestOutcome ==
  \A r \in Requests :
    effects[r] > 0 /\ requests[r].outcome \in Dishonest => r \in refused

\* What restore() would report from the row is not a failure.
Tells(row) ==
  /\ row.state # "ABSENT" /\ row.outcome \notin Dishonest
  /\ row.state = "UNFINISHED" => row.dispatched

\* beforeDispatch() writes ahead: once an action reached the page, the stored
\* row, and every save still waiting, makes a restart at that very moment
\* report something other than a failure.
WriteAhead ==
  \A r \in Requests \ refused :
    effects[r] > 0 =>
      Tells(disk[r]) /\ \A i \in 1 .. Len(queue) : Tells(queue[i].rows[r])

\* start() keeps a tab to one unfinished request although handlers of earlier
\* ones still run.
TabExclusive == \A t \in Tabs : Cardinality(LiveOn(t)) <= 1

\* An unfinished run belongs to an unfinished request of that tab: whatever
\* ends the request also ends the run, and no stale driver begins one.
ActiveRunIsOwned ==
  \A t \in Tabs : runs[t] # NoRequest => runs[t] \in LiveOn(t)

\* The driver of a request dispatches or waits for its page only while its
\* budget timer is running or the request has ended.
DriverIsBudgeted ==
  \A r \in Requests :
    at[r] \in {"claiming", "marking", "marked", "performing", "review", "resuming"} =>
      ~Alive(r) \/ r \in budget

\* An action is sent only for an unfinished request whose stored row carries
\* the marker, and never during a restore.
EffectIsMarked ==
  [][\A r \in Requests :
       effects'[r] # effects[r] =>
         Live(r) /\ disk[r].dispatched /\ disk[r].state = "UNFINISHED"]_vars

\* While the worker lives, an ended request keeps its state and its outcome:
\* no late handler, timer or event revives it or rewrites what was told.
TerminalIsFinal ==
  [][\A r \in Requests :
       requests[r].state = "TERMINAL" /\ requests'[r] # requests[r] =>
         \/ restarts' # restarts
         \/ r \in refused' /\ requests'[r] = [requests[r] EXCEPT !.dispatched = FALSE]]_vars

\* A step of a run, and what its end publishes, changes no request but its own
\* (activities before the run are the exception: finding NewRequestIsolated).
StepIsolation ==
  [][\A r \in Requests : Step(r) =>
       \A s \in Requests \ {r} : requests'[s] = requests[s]]_vars

\* With nothing refused, session storage catches up with the worker's memory:
\* no change of a request is left without a save behind it.
StorageCatchesUp ==
  failures = 0 /\ queue = <<>> => disk = Snapshot(requests)

\* Every accepted request ends, although drivers, users and pages may stall:
\* its own budget ends it, or the refusal of its first save does.
EveryRequestEnds == \A r \in Requests : Live(r) ~> ~Live(r)

\* What the documents say and the code does not keep; each is the property of
\* a run of its own.

\* "the request outcome stays UNKNOWN once the call has started".
DispatchedNeverFailed ==
  \A r \in Requests : effects[r] > 0 => requests[r].outcome \notin Dishonest

\* "after an actual change call: Worker restart: keep UNKNOWN": an ended
\* request with an effect always says how it ended.
DispatchedStaysTold ==
  \A r \in Requests :
    effects[r] > 0 /\ requests[r].state = "TERMINAL" =>
      requests[r].outcome \in {"UNKNOWN", "VERIFIED"}

\* "progress of old work does not change a new request of the same tab".
NewRequestIsolated ==
  [][\A r \in Requests : Discovery(r) =>
       \A s \in Requests \ {r} : requests'[s] = requests[s]]_vars

\* "the 180 second request budget is kept": a request that left ACCEPTED has a
\* running budget.
RunningIsBudgeted ==
  \A r \in Requests :
    requests[r].state \in {"RUNNING", "WAITING_USER"} => r \in budget
=============================================================================
