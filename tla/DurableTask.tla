---------------------------- MODULE DurableTask ----------------------------
(***************************************************************************)
(* The durable tasks of the agent server: the SQLite task store with its   *)
(* tab leases and fences (apps/agent-server/src/tasks: store, database),   *)
(* the task reducer and the budget accountant (packages/task-engine/src/   *)
(* durable), the dispatch intents and their receipts (intents, receipt-    *)
(* status), retention and the resumable history (retention, resume,        *)
(* history-service).                                                       *)
(*                                                                         *)
(* Several workers share the database.  Every operation is one BEGIN       *)
(* IMMEDIATE transaction, hence one action; what is concurrent is the      *)
(* knowledge of the workers: hand[w] is the task row a worker read or got  *)
(* back earlier, prepared[c] the context a tool call was prepared under,   *)
(* and both may be stale when they are used.  A worker that crashes is one *)
(* that does nothing any more.                                             *)
(*                                                                         *)
(* The clock is Date.now(): it advances, and it may be set back.  Row      *)
(* bodies keep what the guards read: admission digests, owners, codes and  *)
(* the goal are left out, and an event that changes no phase is "noted".   *)
(* No event leads to the phase completed: the reducer refuses it.          *)
(* The page is external: Perform is the effect of a call, Conclude the     *)
(* receipt its runtime writes, which may never come.                       *)
(***************************************************************************)
EXTENDS Naturals, FiniteSets

CONSTANTS
  Tasks,          \* task ids; one request id each
  Tabs, TabOf,    \* lease scopes (profile and tab), and the scope of a task
  Workers,        \* connections to the database
  Calls, Steps,   \* tool calls, and the plan steps they are prepared for
  NoTask,         \* no lease row on the tab
  Deadline,       \* admission.deadline of every task
  ActiveLimit, AttemptLimit,   \* its budgets
  MaxTtl,         \* longest lease
  Retention,      \* receiptRetentionMs
  PageSize, WireSize,          \* rows of one read, events of one reply
  MaxTime, MaxSetbacks,        \* bounds: the clock, and how often it is set back
  MaxRevision, MaxLeases       \* bounds: revisions of a task, leases granted

ASSUME TabOfType == TabOf \in [Tasks -> Tabs]
ASSUME NoTaskFresh == NoTask \notin Tasks
ASSUME NumbersAreNatural ==
  /\ Deadline \in [Tasks -> Nat]
  /\ ActiveLimit \in Nat \ {0} /\ AttemptLimit \in Nat \ {0}
  /\ MaxTtl \in Nat /\ Retention \in Nat
  /\ PageSize \in Nat \ {0} /\ WireSize \in Nat \ {0}
  /\ MaxTime \in Nat /\ MaxSetbacks \in Nat /\ MaxRevision \in Nat /\ MaxLeases \in Nat

VARIABLES
  tasks,      \* table tasks
  leases,     \* table leases
  log,        \* table task_events: the sequence numbers of each task
  intents,    \* table dispatch_intents: the calls with a row
  receipt,    \* dispatch_intents.receipt of a call
  hand,       \* the task row each worker holds
  prepared,   \* the context of each prepared call
  now,        \* the clock
  final,      \* the receipt the runtime of a call wrote, "open" before
  effects,    \* history: calls that reached the page
  recorded,   \* history: calls that ever had an intent
  granted,    \* history: leases granted; the next one is new
  newest,     \* history: the lease granted last on each tab
  resumer,    \* history: the lease under which a task began to run
  ran,        \* history: time a task spent running
  setbacks    \* history: how often the clock was set back

tables == <<tasks, leases, log, intents, receipt>>
history == <<effects, recorded, granted, newest, resumer, ran, setbacks>>
vars == <<tasks, leases, log, intents, receipt, hand, prepared, now, final,
          effects, recorded, granted, newest, resumer, ran, setbacks>>

Ended == {"failed", "cancelled"}
Active == {"accepted", "running", "waiting_user", "suspended"}
Phases == {"none"} \cup Active \cup Ended
Events == {"started", "prompt", "resumed", "suspended", "failed", "cancelled", "noted"}
\* What a receipt says of the page: reached and observed, not reached, not
\* reached because the postcondition held already, or anything else.
Receipts == {"verified", "untouched", "satisfied", "uncertain"}

Task == [phase : Phases, revision : 0 .. MaxRevision, epoch : Nat, generation : Nat,
         lease : 0 .. MaxLeases, leaseUntil : Nat, active : Nat, attempts : Nat,
         accountedAt : Nat, terminalAt : Nat]
Lease == [task : Tasks \cup {NoTask}, lease : 0 .. MaxLeases, until : Nat]
\* What a caller keeps of a task row.
Hand == [task : Tasks \cup {NoTask}, lease : 0 .. MaxLeases, generation : Nat, epoch : Nat,
         revision : 0 .. MaxRevision, until : Nat]
Call == [hand : Hand, step : Steps \cup {"none"}]

TypeOK ==
  /\ tasks \in [Tasks -> Task]
  /\ leases \in [Tabs -> Lease]
  /\ log \in [Tasks -> SUBSET (1 .. MaxRevision)]
  /\ intents \in SUBSET Calls
  /\ receipt \in [Calls -> Receipts \cup {"none"}]
  /\ hand \in [Workers -> Hand]
  /\ prepared \in [Calls -> Call]
  /\ now \in 0 .. MaxTime
  /\ final \in [Calls -> Receipts \cup {"open"}]
  /\ effects \in SUBSET Calls
  /\ recorded \in SUBSET Calls
  /\ granted \in 0 .. MaxLeases
  /\ newest \in [Tabs -> 0 .. MaxLeases]
  /\ resumer \in [Tasks -> 0 .. MaxLeases]
  /\ ran \in [Tasks -> Nat]
  /\ setbacks \in 0 .. MaxSetbacks

-----------------------------------------------------------------------------
(* Guards and small operations of the store.                               *)

NewTask == [phase |-> "none", revision |-> 0, epoch |-> 0, generation |-> 0, lease |-> 0,
            leaseUntil |-> 0, active |-> 0, attempts |-> 0, accountedAt |-> 0,
            terminalAt |-> 0]
NoLease == [task |-> NoTask, lease |-> 0, until |-> 0]
NoHand == [task |-> NoTask, lease |-> 0, generation |-> 0, epoch |-> 0, revision |-> 0,
           until |-> 0]
NoCall == [hand |-> NoHand, step |-> "none"]

Smaller(a, b) == IF a < b THEN a ELSE b

HandOf(t, e) == [task |-> t, lease |-> e.lease, generation |-> e.generation,
                 epoch |-> e.epoch, revision |-> e.revision, until |-> e.leaseUntil]

\* assertLive().
Live(t) == tasks[t].phase \in Active /\ now < Deadline[t]

\* Mutant of Fence: the task's own lease is checked, the tab's row is not.
FenceOfTask(h) ==
  /\ h.task \in Tasks /\ Live(h.task)
  /\ tasks[h.task].lease = h.lease /\ tasks[h.task].generation = h.generation
  /\ now < tasks[h.task].leaseUntil

\* assertFence(): the task still has this lease and generation, the lease runs,
\* and the tab's row is this lease of this task.
Fence(h) ==
  /\ h.task \in Tasks /\ Live(h.task)
  /\ tasks[h.task].lease = h.lease /\ tasks[h.task].generation = h.generation
  /\ now < tasks[h.task].leaseUntil
  /\ leases[TabOf[h.task]].lease = h.lease /\ leases[TabOf[h.task]].task = h.task

\* account(): only the time a task was running counts against its budget.
Elapsed(e) == IF e.phase = "running" THEN now - e.accountedAt ELSE 0
Accounted(e, tries) ==
  [e EXCEPT !.active = @ + Elapsed(e), !.attempts = @ + tries, !.accountedAt = now]
\* CLOCK_REGRESSION and BUDGET_EXHAUSTED.
CanAccount(e, tries) ==
  /\ e.accountedAt <= now
  /\ e.active + Elapsed(e) <= ActiveLimit
  /\ e.attempts + tries <= AttemptLimit

\* save(): the row, and one event under its revision.
Save(t, e) ==
  /\ e.revision <= MaxRevision /\ e.revision \notin log[t]
  /\ tasks' = [tasks EXCEPT ![t] = e]
  /\ log' = [log EXCEPT ![t] = @ \cup {e.revision}]

\* reduceTask(): from which phases an event is legal, and where it leads.
From(event) ==
  CASE event = "started" -> {"accepted"}
    [] event \in {"prompt", "noted"} -> {"running"}
    [] event = "resumed" -> {"waiting_user", "suspended"}
    [] event = "suspended" -> {"accepted", "running", "waiting_user"}
    [] event \in {"failed", "cancelled"} -> Active
To(event, phase) ==
  CASE event \in {"started", "resumed"} -> "running"
    [] event = "prompt" -> "waiting_user"
    [] event = "noted" -> phase
    [] OTHER -> event
Reduced(e, event) ==
  [e EXCEPT !.phase = To(event, @), !.revision = @ + 1,
            !.terminalAt = IF event \in Ended THEN now ELSE @]

-----------------------------------------------------------------------------
(* Admission, leases and events.                                           *)

\* admit(): a known request id returns its task unchanged.
Admit(t) ==
  /\ tasks[t].phase = "none" /\ now < Deadline[t]
  /\ Save(t, [NewTask EXCEPT !.phase = "accepted", !.revision = 1, !.accountedAt = now])
  /\ UNCHANGED <<leases, intents, receipt, hand, prepared, now, final, history>>

\* load(): the whole row, its lease id included.
Read(w, t) ==
  /\ tasks[t].phase # "none"
  /\ hand' = [hand EXCEPT ![w] = HandOf(t, tasks[t])]
  /\ UNCHANGED <<tables, prepared, now, final, history>>

\* Mutant of Reclaimed: a reclaimed task runs on.
ReclaimedRunning(e) == e.phase
\* A task that had a holder before waits for the new one to resume it.
Reclaimed(e) == IF e.epoch > 0 THEN "suspended" ELSE e.phase

\* claim(): the tab's lease is free or over; the task keeps its budget, gets a
\* new epoch and lease, and is suspended unless it never had one.
Claim(w, t, ttl) ==
  /\ Live(t) /\ hand[w].task = t /\ hand[w].revision = tasks[t].revision
  /\ leases[TabOf[t]].until <= now
  /\ CanAccount(tasks[t], 0) /\ granted < MaxLeases
  /\ LET until == Smaller(now + ttl, Deadline[t])
         next == [Accounted(tasks[t], 0) EXCEPT
                    !.epoch = @ + 1, !.revision = @ + 1, !.lease = granted + 1,
                    !.leaseUntil = until, !.phase = Reclaimed(tasks[t])]
     IN  /\ Save(t, next)
         /\ leases' = [leases EXCEPT ![TabOf[t]] =
                         [task |-> t, lease |-> granted + 1, until |-> until]]
         /\ hand' = [hand EXCEPT ![w] = HandOf(t, next)]
  /\ granted' = granted + 1
  /\ newest' = [newest EXCEPT ![TabOf[t]] = granted + 1]
  /\ UNCHANGED <<intents, receipt, prepared, now, final, effects, recorded, resumer, ran,
                 setbacks>>

\* advance(): one event of the worker's lease on the revision it knows.
Advance(w, event, tries) ==
  LET t == hand[w].task IN
  /\ Fence(hand[w]) /\ hand[w].revision = tasks[t].revision
  /\ CanAccount(tasks[t], tries) /\ tasks[t].phase \in From(event)
  /\ LET next == Reduced(Accounted(tasks[t], tries), event)
     IN  /\ Save(t, next)
         /\ hand' = [hand EXCEPT ![w] = HandOf(t, next)]
         /\ resumer' = IF event \in {"started", "resumed"}
                       THEN [resumer EXCEPT ![t] = hand[w].lease] ELSE resumer
  /\ UNCHANGED <<leases, intents, receipt, prepared, now, final, effects, recorded, granted,
                 newest, ran, setbacks>>

\* cancel(): needs no lease; the generation and the epoch rotate.
Cancel(t) ==
  /\ tasks[t].phase \in Active
  /\ Save(t, [tasks[t] EXCEPT !.generation = @ + 1, !.epoch = @ + 1, !.revision = @ + 1,
                              !.phase = "cancelled", !.terminalAt = now, !.leaseUntil = 0])
  /\ leases' = [s \in Tabs |-> IF leases[s].task = t THEN NoLease ELSE leases[s]]
  /\ UNCHANGED <<intents, receipt, hand, prepared, now, final, history>>

-----------------------------------------------------------------------------
(* Dispatch intents, receipts and retention.                               *)

\* prepareStep(): a call of a step under the lease its worker holds, good
\* until that lease runs out.
Prepare(w, c, s) ==
  /\ prepared[c] = NoCall /\ now < hand[w].until
  /\ prepared' = [prepared EXCEPT ![c] = [hand |-> hand[w], step |-> s]]
  /\ UNCHANGED <<tables, hand, now, final, history>>

SameStep(c, d) ==
  prepared[c].hand.task = prepared[d].hand.task /\ prepared[c].step = prepared[d].step

\* Mutant of Dispatched: only the call itself is looked up.
DispatchedCall(c) == c \in intents
\* A call that has an intent is left alone, a step that has one refuses another call.
Dispatched(c) == \E d \in intents : SameStep(c, d)

\* record(): the intent of a call, before its effect.
Record(c) ==
  LET h == prepared[c].hand IN
  /\ prepared[c] # NoCall /\ Fence(h)
  /\ tasks[h.task].epoch = h.epoch /\ tasks[h.task].phase = "running" /\ now < h.until
  /\ ~Dispatched(c)
  /\ CanAccount(tasks[h.task], 1)
  /\ Save(h.task, [Accounted(tasks[h.task], 1) EXCEPT !.revision = @ + 1])
  /\ intents' = intents \cup {c}
  /\ recorded' = recorded \cup {c}
  /\ UNCHANGED <<leases, receipt, hand, prepared, now, final, effects, granted, newest,
                 resumer, ran, setbacks>>

\* The runtime of a recorded call reaches the page; after a timeout the page may
\* still act.
Perform(c) ==
  /\ c \in recorded \ effects /\ final[c] \in {"open", "uncertain"}
  /\ effects' = effects \cup {c}
  /\ UNCHANGED <<tables, hand, prepared, now, final, recorded, granted, newest, resumer, ran,
                 setbacks>>

\* executeStep() writes the one receipt of the call.
Conclude(c) ==
  /\ c \in recorded /\ final[c] = "open"
  /\ \E r \in Receipts :
       /\ r = "verified" => c \in effects
       /\ r \in {"untouched", "satisfied"} => c \notin effects
       /\ final' = [final EXCEPT ![c] = r]
  /\ UNCHANGED <<tables, hand, prepared, now, history>>

\* settle(): needs no lease; a row that retention deleted refuses the receipt.
Settle(c) ==
  /\ c \in intents /\ final[c] # "open" /\ receipt[c] # final[c]
  /\ receipt' = [receipt EXCEPT ![c] = final[c]]
  /\ UNCHANGED <<tasks, leases, log, intents, hand, prepared, now, final, history>>

IntentsOf(t) == {c \in intents : prepared[c].hand.task = t}

\* Mutant of Uncertain: any receipt will do.
UncertainUnsettled(c) == receipt[c] = "none"
\* receiptUncertain(): certain is an observed effect, and no dispatch at all
\* without an observation.
Uncertain(c) == receipt[c] \notin {"verified", "untouched"}

\* pruneTerminalDetails(): certain intents and all but the last event.
Expired(t) ==
  /\ tasks[t].phase \in Ended
  /\ tasks[t].terminalAt + Retention <= now /\ Deadline[t] <= now
Prune ==
  /\ \E t \in Tasks : Expired(t)
  /\ intents' = {c \in intents : Expired(prepared[c].hand.task) => Uncertain(c)}
  /\ log' = [t \in Tasks |-> IF Expired(t) THEN log[t] \ (0 .. tasks[t].revision - 1)
                             ELSE log[t]]
  /\ UNCHANGED <<tasks, leases, receipt, hand, prepared, now, final, history>>

-----------------------------------------------------------------------------
(* The clock.                                                              *)

Tick ==
  /\ now < MaxTime
  /\ now' = now + 1
  /\ ran' = [t \in Tasks |-> IF tasks[t].phase = "running" THEN ran[t] + 1 ELSE ran[t]]
  /\ UNCHANGED <<tables, hand, prepared, final, effects, recorded, granted, newest, resumer,
                 setbacks>>

SetBack ==
  /\ setbacks < MaxSetbacks
  /\ setbacks' = setbacks + 1
  /\ now' \in {n \in 0 .. MaxTime : n < now}
  /\ UNCHANGED <<tables, hand, prepared, final, effects, recorded, granted, newest, resumer,
                 ran>>

-----------------------------------------------------------------------------
(* resumeTaskHistory() and TaskHistoryService.read(): what a reader of the  *)
(* history gets from a cursor.                                             *)

First(S, n) == {i \in S : Cardinality({j \in S : j < i}) < n}

\* dispatchUnknown: an intent is uncertain, or one is missing.
Unknown(t) ==
  tasks[t].attempts > Cardinality(IntentsOf(t)) \/ \E c \in IntentsOf(t) : Uncertain(c)

\* The rows the cursor of a reply passes.
Covered(rows, events) == events

\* A page of rows, of which the first are sent; a gap in them, or before the
\* current row, asks the reader to start over from a snapshot of the task.
Replay(t, after) ==
  LET rows == First({i \in log[t] : after < i}, PageSize)
      reached == after + Cardinality(rows)
      resync == \/ rows # (after + 1) .. reached
                \/ reached < tasks[t].revision /\ Cardinality(rows) < PageSize
      events == IF resync THEN {} ELSE First(rows, WireSize)
      cursor == IF resync THEN tasks[t].revision
                ELSE after + Cardinality(Covered(rows, events))
  IN  [resync |-> resync, events |-> events, cursor |-> cursor,
       more |-> ~resync /\ cursor < tasks[t].revision]

-----------------------------------------------------------------------------

Init ==
  /\ tasks = [t \in Tasks |-> NewTask]
  /\ leases = [s \in Tabs |-> NoLease]
  /\ log = [t \in Tasks |-> {}]
  /\ intents = {}
  /\ receipt = [c \in Calls |-> "none"]
  /\ hand = [w \in Workers |-> NoHand]
  /\ prepared = [c \in Calls |-> NoCall]
  /\ now = 0
  /\ final = [c \in Calls |-> "open"]
  /\ effects = {} /\ recorded = {}
  /\ granted = 0
  /\ newest = [s \in Tabs |-> 0]
  /\ resumer = [t \in Tasks |-> 0]
  /\ ran = [t \in Tasks |-> 0]
  /\ setbacks = 0

Store(w) ==
  \/ \E t \in Tasks : Read(w, t) \/ \E ttl \in 1 .. MaxTtl : Claim(w, t, ttl)
  \/ \E event \in Events, tries \in 0 .. 1 : Advance(w, event, tries)
  \/ \E c \in Calls, s \in Steps : Prepare(w, c, s)
Runtime(c) == Record(c) \/ Perform(c) \/ Conclude(c) \/ Settle(c)

Next ==
  \/ \E t \in Tasks : Admit(t) \/ Cancel(t)
  \/ \E w \in Workers : Store(w)
  \/ \E c \in Calls : Runtime(c)
  \/ Prune \/ Tick \/ SetBack

Spec == Init /\ [][Next]_vars

\* Time passes, and a worker that may end a task as failed or take the lease
\* of an abandoned one does so.
FairSpec ==
  /\ Spec
  /\ WF_vars(Tick)
  /\ \A w \in Workers :
       /\ \A tries \in 0 .. 1 : WF_vars(Advance(w, "failed", tries))
       /\ \A t \in Tasks : \A ttl \in 1 .. MaxTtl : WF_vars(Claim(w, t, ttl))
  /\ \A w \in Workers, t \in Tasks : WF_vars(Read(w, t))

-----------------------------------------------------------------------------
(* Properties.                                                             *)

\* Whoever passes the fence, a worker or a prepared call, holds the lease that
\* was granted last on the tab: an older holder has no authority left, although
\* its own lease seems to run on and even when the clock is set back.
AuthorityIsNewest ==
  \A h \in {hand[w] : w \in Workers} \cup {prepared[c].hand : c \in Calls} :
    Fence(h) => h.lease = newest[TabOf[h.task]]

\* A reclaimed task does not run on: it runs only after the holder of its
\* present lease has started or resumed it.
ResumedByHolder ==
  \A t \in Tasks : tasks[t].phase = "running" => resumer[t] = tasks[t].lease

\* An ended task stays as it ended, and no dispatch is recorded for it any more.
TerminalIsFinal ==
  [][\A t \in Tasks : tasks[t].phase \in Ended =>
       /\ tasks'[t] = tasks[t]
       /\ \A c \in recorded' \ recorded : prepared[c].hand.task # t]_vars

\* While the clock does not go back, every moment a task spent running counts
\* against its active budget, across suspensions, user waits and reclaims.
TimeIsAccounted ==
  setbacks = 0 =>
    \A t \in Tasks : tasks[t].phase \in Active =>
      ran[t] = tasks[t].active + Elapsed(tasks[t])

\* A step of a task is dispatched at most once, whatever workers, leases and
\* tool calls try it.
StepDispatchedOnce == \A c, d \in recorded : c # d => ~SameStep(c, d)

\* A task never makes more dispatches than its attempt budget.
DispatchesBounded ==
  \A t \in Tasks :
    Cardinality({c \in recorded : prepared[c].hand.task = t}) <= AttemptLimit

\* The history calls the dispatches of a task known only if every one that was
\* recorded ended with a receipt that proves an effect or its absence, also
\* after retention deleted rows.
NoFalseCertainty ==
  \A t \in Tasks : ~Unknown(t) =>
    \A c \in recorded : prepared[c].hand.task = t =>
      final[c] = IF c \in effects THEN "verified" ELSE "untouched"

\* A reader that follows the cursors of its replies misses no event silently and
\* is never left behind without being told.
ReplayIsComplete ==
  \A t \in Tasks : \A after \in 0 .. tasks[t].revision :
    LET r == Replay(t, after) IN
    /\ ~r.resync => r.events = (after + 1) .. r.cursor
    /\ r.more \/ r.cursor = tasks[t].revision
    /\ r.cursor > after \/ after = tasks[t].revision

\* The task store with its callers implements the dispatch promise.
Promise == INSTANCE DispatchPromise WITH
  Steps <- Tasks \X Steps, NoStep <- <<NoTask, "none">>,
  stepOf <- [c \in Calls |-> <<prepared[c].hand.task, prepared[c].step>>],
  acted <- effects, verdict <- final,
  Reached <- {"verified"}, Untouched <- {"untouched", "satisfied"}, Unsure <- {"uncertain"}
KeepsPromise == Promise!Spec

\* What the documents say and the code does not keep.

\* "Treat missing, malformed, mismatched and unsettled receipts as uncertain", and
\* "Already-satisfied state yields a no-op receipt with zero dispatches": when
\* every dispatch has its receipt and each tells whether the page was reached,
\* the history calls none of them unknown.
SettledIsKnown ==
  \A t \in Tasks :
    /\ tasks[t].attempts = Cardinality(IntentsOf(t))
    /\ \A c \in IntentsOf(t) : receipt[c] \notin {"none", "uncertain"}
    => ~Unknown(t)

\* "any nonterminal phase | cancellation/deadline/unrecoverable error |
\* cancelled or failed": a task that nobody cancels ends with its deadline.
DeadlineEnds == \A t \in Tasks : tasks[t].phase \in Active ~> tasks[t].phase \in Ended
=============================================================================
