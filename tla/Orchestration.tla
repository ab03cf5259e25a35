--------------------------- MODULE Orchestration ---------------------------
(***************************************************************************)
(* The orchestration of one task: the phase reducer of the task engine     *)
(* (packages/task-engine/src/orchestration) over its SQLite store          *)
(* (apps/agent-server/src/tasks/orchestration-store).                      *)
(*                                                                         *)
(* Several workers share the row.  A worker loads a state, decides on a    *)
(* transition of it and commits that later; the commit reduces the row     *)
(* again in its transaction.  Every access is fenced by the durable task:  *)
(* lease, generation and deadline (DurableTask models how these change).   *)
(*                                                                         *)
(* Evidence and contexts are left out but for two facts of a transition:   *)
(* its progress digest, and whether its acceptance fits the current        *)
(* context with every requested goal verified.                             *)
(***************************************************************************)
EXTENDS Naturals, FiniteSets

CONSTANTS
  Steps, NoStep,  \* plan steps
  Digests,        \* progress digests
  Workers,        \* connections that orchestrate the task
  MaxTurns,       \* turns of a task that are no interruption
  MaxStill,       \* turns in a row without progress
  MaxRevision,    \* bound: revisions of the orchestration
  MaxLeases       \* bound: leases of the task

\* The constants: NoStep is none of the steps, the bounds are natural numbers and there
\* is a first lease.
ConstantsFit ==
  /\ NoStep \notin Steps
  /\ MaxTurns \in Nat /\ MaxStill \in Nat /\ MaxRevision \in Nat /\ MaxLeases \in Nat \ {0}

VARIABLES
  row,        \* orchestration_states: the state of the task
  events,     \* orchestration_events: their revisions
  lease,      \* the lease that runs, 0 when the durable task was cancelled
  overdue,    \* the deadline of the durable task has passed
  worker,     \* the lease of each worker and the state it loaded
  dispatched, \* history: steps that entered tool_execution
  answered,   \* history: dispatched steps whose receipt said what happened
  advances    \* history: transitions that were no interruption

vars == <<row, events, lease, overdue, worker, dispatched, answered, advances>>

Interruptions == {"suspended", "failed", "cancelled"}
Terminal == {"completed", "failed", "cancelled"}
Phases == {"none", "admission", "intent_classification", "codebase_discovery", "planning",
           "approval_pending", "waiting_input", "tool_execution", "result_verification",
           "analysis", "result_acceptance"} \cup Interruptions \cup Terminal
Roles == {"runtime", "jev", "user", "analyst"}
Statuses == {"VERIFIED", "UNKNOWN", "INCOMPLETE"}
NoReceipt == [id |-> NoStep, status |-> "INCOMPLETE"]
Receipts == {NoReceipt} \cup [id : Steps, status : Statuses]

State == [phase : Phases, resume : Phases, revision : 0 .. MaxRevision, active : Steps \cup {NoStep},
          verified : SUBSET Steps, ambiguous : SUBSET Steps, turns : 0 .. MaxRevision,
          still : 0 .. MaxRevision, progress : Digests \cup {"none"},
          outcome : {"PENDING", "VERIFIED", "INCOMPLETE", "UNKNOWN", "CANCELLED"}]
\* The transitions to a phase: a step goes into or out of a dispatch, an acceptance into
\* completion.
Transition(next) ==
  [next : {next}, role : Roles, progress : Digests,
   step : IF next \in {"tool_execution", "result_verification"} \cup Interruptions
          THEN Receipts ELSE {NoReceipt},
   accepted : IF next = "completed" THEN BOOLEAN ELSE {FALSE}]

NoState == [phase |-> "none", resume |-> "none", revision |-> 0, active |-> NoStep,
            verified |-> {}, ambiguous |-> {}, turns |-> 0, still |-> 0, progress |-> "none",
            outcome |-> "PENDING"]

TypeOK ==
  /\ row \in State
  /\ events \in SUBSET (1 .. MaxRevision)
  /\ lease \in 0 .. MaxLeases
  /\ overdue \in BOOLEAN
  /\ worker \in [Workers -> [lease : 0 .. MaxLeases, view : State]]
  /\ dispatched \in SUBSET Steps /\ answered \in SUBSET Steps
  /\ advances \in 0 .. MaxRevision

-----------------------------------------------------------------------------
(* reduceOrchestration().                                                  *)

Routes(phase) ==
  CASE phase = "admission" -> {"intent_classification"}
    [] phase = "intent_classification" -> {"codebase_discovery", "waiting_input"}
    [] phase = "codebase_discovery" -> {"planning"}
    [] phase = "planning" -> {"approval_pending", "tool_execution", "analysis", "waiting_input"}
    [] phase \in {"approval_pending", "waiting_input"} -> {"planning", "tool_execution"}
    [] phase = "tool_execution" -> {"result_verification"}
    [] phase = "result_verification" -> {"planning", "analysis", "result_acceptance"}
    [] phase = "analysis" -> {"result_acceptance", "planning"}
    [] phase = "result_acceptance" -> {"completed"}
    [] OTHER -> {}

\* authority(): who may make a transition.
Authority(phase, next) ==
  IF next \in Interruptions \cup Terminal \/ phase \in {"suspended", "admission", "tool_execution"}
  THEN "runtime"
  ELSE CASE phase \in {"approval_pending", "waiting_input"} -> "user"
         [] phase = "analysis" -> "analyst"
         [] OTHER -> "jev"

\* Mutant of Routed: a suspended task takes any route of the phase it left.
RoutedAnywhere(s, next) ==
  next \in Interruptions \/ next \in Routes(IF s.phase = "suspended" THEN s.resume ELSE s.phase)
\* A suspended task goes back where it was, but never into a dispatch.
Routed(s, next) ==
  \/ next \in Interruptions
  \/ s.phase = "suspended" /\ next = s.resume /\ next # "tool_execution"
  \/ s.phase # "suspended" /\ next \in Routes(s.phase)

\* A dispatch names a step that was not verified, and none is ambiguous.
MayDispatch(s, e) ==
  s.ambiguous = {} /\ e.step # NoReceipt /\ e.step.id \notin s.verified

\* Mutant of MayComplete: accepted goals are enough.
MayCompleteAccepted(s, e) == e.accepted
MayComplete(s, e) == e.accepted /\ s.ambiguous = {}

\* The guards of reduceOrchestration(), in a task that is not terminal.
Legal(s, e) ==
  /\ s.phase \notin Terminal \cup {"none"}
  /\ e.role = Authority(s.phase, e.next)
  /\ Routed(s, e.next)
  /\ e.next = "tool_execution" => MayDispatch(s, e)
  /\ s.phase = "tool_execution" /\ e.next \notin Interruptions => e.step.id = s.active
  /\ e.next = "completed" => MayComplete(s, e)

Still(s, e) == IF s.progress = e.progress THEN s.still + 1 ELSE 0

InBudget(s, e) ==
  e.next \in Interruptions \/ (s.turns < MaxTurns /\ Still(s, e) < MaxStill)

\* What a transition that leaves a dispatch notes of its step.
Noted(s, e, status, known) ==
  IF s.phase = "tool_execution" /\ e.step # NoReceipt /\ e.step.status = status
  THEN known \cup {e.step.id} ELSE known

Reduced(s, e) ==
  LET ambiguous == Noted(s, e, "UNKNOWN", s.ambiguous) IN
  [phase |-> e.next,
   resume |-> CASE e.next = "suspended" /\ s.phase # "suspended" -> s.phase
                [] s.phase = "suspended" /\ e.next \notin Interruptions -> "none"
                [] OTHER -> s.resume,
   revision |-> s.revision + 1,
   active |-> CASE e.next = "tool_execution" -> e.step.id
                [] s.phase = "tool_execution" /\ e.next \notin Interruptions -> NoStep
                [] OTHER -> s.active,
   verified |-> Noted(s, e, "VERIFIED", s.verified),
   ambiguous |-> ambiguous,
   turns |-> s.turns + 1,
   still |-> Still(s, e),
   progress |-> e.progress,
   outcome |-> CASE e.next = "completed" -> "VERIFIED"
                 [] e.next = "failed" -> IF ambiguous # {} THEN "UNKNOWN" ELSE "INCOMPLETE"
                 [] e.next = "cancelled" -> "CANCELLED"
                 [] OTHER -> s.outcome]

\* OrchestrationHistory.view(): what a reader is told.
DispatchUnknown(s) ==
  s.ambiguous # {} \/ (s.phase = "suspended" /\ s.resume = "tool_execution")

-----------------------------------------------------------------------------
(* SqliteOrchestrationStore.                                               *)

\* Mutant of Fence: a cancelled task is told by its deadline alone.
FenceByDeadline(w) == ~overdue
\* fence(): the worker's lease is the one that runs, and the task is live.
Fence(w) == worker[w].lease = lease /\ lease > 0 /\ ~overdue

\* admit() and initialize(): the row is new, and its state canonical.
Admit(w) ==
  /\ Fence(w) /\ row.phase = "none"
  /\ row' = [NoState EXCEPT !.phase = "admission"]
  /\ worker' = [worker EXCEPT ![w].view = row']
  /\ UNCHANGED <<events, lease, overdue, dispatched, answered, advances>>

\* load()
Load(w) ==
  /\ Fence(w) /\ row.phase # "none"
  /\ worker' = [worker EXCEPT ![w].view = row]
  /\ UNCHANGED <<row, events, lease, overdue, dispatched, answered, advances>>

\* The row is reduced again, and must give the state of the entry.
Committed(w, e) == Reduced(row, e)

\* advanceTask() reduces the loaded state, commit() the row.
Commit(w, e) ==
  LET next == Committed(w, e) IN
  /\ Fence(w) /\ Legal(worker[w].view, e) /\ InBudget(worker[w].view, e)
  /\ next = Reduced(worker[w].view, e) /\ row.revision < MaxRevision
  /\ row' = next
  /\ events' = events \cup {next.revision}
  /\ worker' = [worker EXCEPT ![w].view = next]
  /\ dispatched' = IF e.next = "tool_execution" THEN dispatched \cup {e.step.id} ELSE dispatched
  /\ answered' = IF row.phase = "tool_execution" /\ e.step.id = row.active
                 THEN answered \cup {e.step.id}
                 ELSE IF e.next = "tool_execution" THEN answered \ {e.step.id} ELSE answered
  /\ advances' = IF e.next \in Interruptions THEN advances ELSE advances + 1
  /\ UNCHANGED <<lease, overdue>>

\* The durable task is reclaimed by a worker, cancelled, or reaches its deadline.
Reclaim(w) ==
  /\ lease \in 1 .. MaxLeases - 1 /\ ~overdue
  /\ lease' = lease + 1
  /\ worker' = [worker EXCEPT ![w].lease = lease + 1]
  /\ UNCHANGED <<row, events, overdue, dispatched, answered, advances>>
Stop ==
  /\ lease' = 0 /\ lease > 0
  /\ UNCHANGED <<row, events, overdue, worker, dispatched, answered, advances>>
Expire ==
  /\ ~overdue /\ overdue' = TRUE
  /\ UNCHANGED <<row, events, lease, worker, dispatched, answered, advances>>

-----------------------------------------------------------------------------

Init ==
  /\ row = NoState
  /\ events = {}
  /\ lease = 1 /\ overdue = FALSE
  /\ \E w \in Workers :
       worker = [v \in Workers |-> [lease |-> IF v = w THEN 1 ELSE 0, view |-> NoState]]
  /\ dispatched = {} /\ answered = {} /\ advances = 0

Next ==
  \/ \E w \in Workers :
       \/ Admit(w) \/ Load(w) \/ Reclaim(w)
       \/ \E next \in Phases \ {"none", "admission"} :
            /\ Fence(w) /\ Routed(worker[w].view, next)
            /\ \E e \in Transition(next) : Commit(w, e)
  \/ Stop \/ Expire

Spec == Init /\ [][Next]_vars

-----------------------------------------------------------------------------
(* Properties.                                                             *)

\* The events are the history of the row: one for every revision.
JournalIsWhole == events = 1 .. row.revision

\* While a dispatched step has no answer, by suspension, interruption or an unknown
\* receipt, no step is dispatched; and a verified step is never dispatched again.
NoBlindDispatch ==
  [][row'.phase = "tool_execution" /\ row # row' =>
       dispatched \subseteq answered /\ row.ambiguous = {} /\ row'.active \notin row.verified]_vars

\* A task completes only when every step it dispatched was answered, and none as
\* unknown.
CompletedIsKnown ==
  row.outcome = "VERIFIED" => dispatched \subseteq answered /\ row.ambiguous = {}

\* A task makes a bounded number of transitions, however often it is suspended and
\* resumed in between.
TurnsBounded == advances <= MaxTurns

\* A holder of an older lease, and everybody after a stop or the deadline, leaves
\* the task as it is.
OnlyHolderAdvances ==
  [][row' # row => lease > 0 /\ ~overdue
       /\ \E w \in Workers : worker[w].lease = lease /\ worker'[w].view = row']_vars

\* "If either side crashes after reservation but before a reliable receipt, the attempt
\* is ambiguous": a task that stops with an unanswered dispatch is shown as such.
AmbiguityIsShown ==
  row.phase \in {"suspended"} \cup Terminal /\ ~(dispatched \subseteq answered) =>
    DispatchUnknown(row)
=============================================================================
