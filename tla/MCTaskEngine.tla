---------------------------- MODULE MCTaskEngine ----------------------------
(* The task engine of the agent server for TLC: the store of durable tasks   *)
(* (DurableTask; all tasks share one tab and one deadline) and the           *)
(* orchestration of a task (Orchestration), which models of the store only   *)
(* the lease of its task. A behaviour drives one of them, chosen at the      *)
(* start, and the other one rests.                                           *)
EXTENDS DurableTask, TLC

CONSTANTS t1, t2, tab, w1, w2, c1, c2 , s1, s2, d1, d2, CommonDeadline,
          NoStep, PlanSteps, Digests, MaxTurns, MaxStill, MaxTransitions, MaxHolders

VARIABLES driven, row, events, lease, overdue, worker, dispatched, answered, advances

Plan == INSTANCE Orchestration
          WITH Steps <- PlanSteps, MaxRevision <- MaxTransitions, MaxLeases <- MaxHolders

ASSUME PlanFits == Plan!ConstantsFit

planVars == <<row, events, lease, overdue, worker, dispatched, answered, advances>>
all == <<vars, planVars, driven>>

MCTabOf == [t \in Tasks |-> tab]
MCDeadline == [t \in Tasks |-> CommonDeadline]
Symmetry == Permutations(Tasks) \cup Permutations(Workers) \cup Permutations(Calls)
              \cup Permutations(Steps) \cup Permutations(Digests)

(* What a behaviour is about, within bounds of its own. Of the store: two    *)
(* tasks that take the lease of their tab from each other, without calls;    *)
(* or two calls across a reclaim. Of the orchestration: one worker that      *)
(* brings a task to its end; or two, with reclaims, that begin it.           *)
StoreScales ==
  { [tasks |-> 2, calls |-> 0, setbacks |-> 1, revision |-> 3],
    [tasks |-> 1, calls |-> 2, setbacks |-> 0, revision |-> 5] }
PlanScales ==
  { [leases |-> 1, digests |-> 1, transitions |-> MaxTransitions],
    [leases |-> MaxHolders, digests |-> 2, transitions |-> 4] }

StoreWithin(b) ==
  /\ Cardinality({t \in Tasks : tasks[t].phase # "none"}) <= b.tasks
  /\ Cardinality({c \in Calls : prepared[c] # NoCall}) <= b.calls
  /\ setbacks <= b.setbacks
  /\ \A t \in Tasks : tasks[t].revision <= b.revision

PlanWithin(b) ==
  /\ lease <= b.leases /\ row.revision <= b.transitions
  /\ b.digests = 1 /\ row.revision > 1 => row.still = row.turns - 1

BothInit == driven \in StoreScales \cup PlanScales /\ Init /\ Plan!Init

BothNext ==
  /\ UNCHANGED driven
  /\ \/ driven \in StoreScales /\ Next /\ UNCHANGED planVars /\ StoreWithin(driven)'
     \/ driven \in PlanScales /\ Plan!Next /\ UNCHANGED vars /\ PlanWithin(driven)'

BothSpec == BothInit /\ [][BothNext]_all

-----------------------------------------------------------------------------
(* Properties.                                                               *)

\* The store counts every moment a task runs while the clock is not set back, only a
\* holder that started or resumed a task runs it, and the page of the journal a reader
\* is given is complete.
StoreSafety == TypeOK /\ TimeIsAccounted /\ ResumedByHolder /\ ReplayIsComplete

\* A task completes only when every step it dispatched was answered and none as unknown;
\* its journal has every revision, and its transitions are bounded.
CompletedIsKnown ==
  /\ Plan!CompletedIsKnown
  /\ Plan!TypeOK /\ Plan!JournalIsWhole /\ Plan!TurnsBounded

\* While a dispatched step has no answer no step is dispatched, and none twice.
NoBlindDispatch == Plan!NoBlindDispatch

\* A holder of an older lease, and everybody after a stop or the deadline, leaves the
\* task as it is.
OnlyHolderAdvances == Plan!OnlyHolderAdvances
=============================================================================
