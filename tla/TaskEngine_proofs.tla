------------------------- MODULE TaskEngine_proofs -------------------------
(***************************************************************************)
(* Proofs about the task engine: DurableTask for every set of tasks, tabs, *)
(* workers and calls, every budget and every movement of the clock; then   *)
(* Orchestration, for every set of workers, steps and digests; and what    *)
(* the two say of the behaviours that MCTaskEngine checks.                 *)
(***************************************************************************)
EXTENDS MCTaskEngine, FiniteSetTheorems, TLAPS

-----------------------------------------------------------------------------
(* The inductive invariant of the tasks.                                   *)

\* The row of a tab is the lease granted last on it.
RowIsNewest ==
  \A s \in Tabs : leases[s].task # NoTask => leases[s].lease = newest[s]

\* A task with the tab's lease was claimed, and so was one that runs.
Claimed ==
  \A t \in Tasks :
    leases[TabOf[t]].task = t \/ tasks[t].phase = "running" =>
      tasks[t].epoch > 0 /\ tasks[t].phase # "none"

\* A recorded call keeps its intent until its task has ended.
IntentsKept ==
  /\ intents \in SUBSET recorded
  /\ \A c \in recorded :
       /\ prepared[c].hand.task \in Tasks
       /\ tasks[prepared[c].hand.task].phase # "none"
       /\ c \notin intents => tasks[prepared[c].hand.task].phase \in Ended

\* Every dispatch of a task is an attempt within its budget.
RecordedOf(t) == {c \in recorded : prepared[c].hand.task = t}
AttemptsCounted ==
  /\ IsFiniteSet(recorded)
  /\ \A t \in Tasks :
       /\ Cardinality(RecordedOf(t)) <= tasks[t].attempts
       /\ tasks[t].attempts <= AttemptLimit

\* A stored receipt is the one the runtime wrote, and a certain one is right.
ReceiptsTrue ==
  \A c \in Calls :
    /\ receipt[c] \in {"none", final[c]}
    /\ final[c] = "verified" => c \in effects
    /\ final[c] \in {"untouched", "satisfied"} => c \notin effects

\* Only a task that was admitted has run.
RanAdmitted == \A t \in Tasks : tasks[t].phase = "none" => ran[t] = 0

IInv ==
  /\ TypeOK /\ RanAdmitted /\ TimeIsAccounted /\ RowIsNewest /\ Claimed /\ ResumedByHolder
  /\ IntentsKept /\ StepDispatchedOnce /\ AttemptsCounted /\ ReceiptsTrue

-----------------------------------------------------------------------------
(* What the operations write.                                              *)

\* The accountant changes the budget and nothing else, and keeps the limit.
LEMMA AccountedFacts ==
  ASSUME TypeOK, NEW t \in Tasks, NEW tries \in 0 .. 1, CanAccount(tasks[t], tries)
  PROVE  LET e == Accounted(tasks[t], tries) IN
         /\ e \in Task
         /\ e.phase = tasks[t].phase /\ e.revision = tasks[t].revision
         /\ e.epoch = tasks[t].epoch /\ e.generation = tasks[t].generation
         /\ e.lease = tasks[t].lease /\ e.leaseUntil = tasks[t].leaseUntil
         /\ e.attempts = tasks[t].attempts + tries /\ e.attempts <= AttemptLimit
         /\ e.active = tasks[t].active + Elapsed(tasks[t]) /\ e.accountedAt = now
<1>1. tasks[t] \in Task /\ now \in Nat /\ tasks[t].accountedAt <= now
  BY NumbersAreNatural DEF TypeOK, CanAccount
<1>2. Elapsed(tasks[t]) \in Nat
  BY <1>1 DEF Elapsed, Task
<1>3. Accounted(tasks[t], tries) =
        [tasks[t] EXCEPT !.active = tasks[t].active + Elapsed(tasks[t]),
                         !.attempts = tasks[t].attempts + tries, !.accountedAt = now]
  BY DEF Accounted
<1>4. tasks[t].active + Elapsed(tasks[t]) \in Nat /\ tasks[t].attempts + tries \in Nat
  BY <1>1, <1>2 DEF Task
<1> QED
  BY <1>1, <1>3, <1>4 DEF Task, CanAccount

\* An event advances the phase and the revision and nothing else that guards read.
LEMMA ReducedFacts ==
  ASSUME TypeOK, NEW e \in Task, NEW event \in Events, e.phase \in From(event),
         e.revision + 1 <= MaxRevision
  PROVE  LET f == Reduced(e, event) IN
         /\ f \in Task
         /\ f.phase = To(event, e.phase) /\ f.revision = e.revision + 1
         /\ f.epoch = e.epoch /\ f.generation = e.generation
         /\ f.lease = e.lease /\ f.leaseUntil = e.leaseUntil
         /\ f.attempts = e.attempts
         /\ f.active = e.active /\ f.accountedAt = e.accountedAt
<1>1. To(event, e.phase) \in Phases
  BY DEF To, Phases, Ended, Active, Events, Task
<1>2. e.revision + 1 \in 0 .. MaxRevision /\ now \in Nat
  BY NumbersAreNatural DEF TypeOK, Task
<1>3. (IF event \in Ended THEN now ELSE e.terminalAt) \in Nat
  BY <1>2 DEF Task
<1>4. Reduced(e, event) =
        [e EXCEPT !.phase = To(event, e.phase), !.revision = e.revision + 1,
                  !.terminalAt = IF event \in Ended THEN now ELSE e.terminalAt]
  BY DEF Reduced
<1> QED
  BY <1>1, <1>2, <1>3, <1>4 DEF Task

\* A saved row has a revision within the bound, and becomes the row of its task.
LEMMA SaveFacts ==
  ASSUME TypeOK, NEW t \in Tasks, NEW e \in Task, e.revision > 0, Save(t, e)
  PROVE  /\ tasks' \in [Tasks -> Task] /\ log' \in [Tasks -> SUBSET (1 .. MaxRevision)]
         /\ tasks'[t] = e
         /\ \A u \in Tasks : u # t => tasks'[u] = tasks[u]
<1>1. tasks' \in [Tasks -> Task] /\ tasks'[t] = e
      /\ \A u \in Tasks : u # t => tasks'[u] = tasks[u]
  BY DEF TypeOK, Save
<1>2. e.revision \in 1 .. MaxRevision
  BY NumbersAreNatural DEF Task
<1>3. log' = [log EXCEPT ![t] = log[t] \cup {e.revision}]
  BY DEF Save
<1>4. log' \in [Tasks -> SUBSET (1 .. MaxRevision)]
  BY <1>2, <1>3 DEF TypeOK
<1> QED
  BY <1>1, <1>4

\* The fields of a claimed row.
LEMMA ClaimFacts ==
  ASSUME TypeOK, NEW w \in Workers, NEW t \in Tasks, NEW ttl \in 1 .. MaxTtl,
         Claim(w, t, ttl)
  PROVE  \E e \in Task :
         /\ Save(t, e) /\ e.revision > 0
         /\ e.phase = Reclaimed(tasks[t]) /\ e.epoch = tasks[t].epoch + 1
         /\ e.lease = granted + 1 /\ e.attempts = tasks[t].attempts
         /\ e.active = tasks[t].active + Elapsed(tasks[t]) /\ e.accountedAt = now
         /\ HandOf(t, e) \in Hand /\ hand' = [hand EXCEPT ![w] = HandOf(t, e)]
         /\ e.leaseUntil \in Nat
         /\ leases' = [leases EXCEPT ![TabOf[t]] =
                         [task |-> t, lease |-> granted + 1, until |-> e.leaseUntil]]
<1> DEFINE a == Accounted(tasks[t], 0)
           until == Smaller(now + ttl, Deadline[t])
           e == [a EXCEPT !.epoch = a.epoch + 1, !.revision = a.revision + 1,
                          !.lease = granted + 1, !.leaseUntil = until,
                          !.phase = Reclaimed(tasks[t])]
<1>1. /\ a \in Task /\ a.epoch = tasks[t].epoch /\ a.revision = tasks[t].revision
      /\ a.attempts = tasks[t].attempts
      /\ a.active = tasks[t].active + Elapsed(tasks[t]) /\ a.accountedAt = now
  <2>1. CanAccount(tasks[t], 0) /\ 0 \in 0 .. 1
    BY DEF Claim
  <2>2. tasks[t].attempts \in Nat
    BY DEF TypeOK, Task
  <2>3. a \in Task /\ a.epoch = tasks[t].epoch /\ a.revision = tasks[t].revision
        /\ a.attempts = tasks[t].attempts + 0
        /\ a.active = tasks[t].active + Elapsed(tasks[t]) /\ a.accountedAt = now
    BY <2>1, AccountedFacts
  <2> QED BY <2>2, <2>3
<1>2. Save(t, e) /\ hand' = [hand EXCEPT ![w] = HandOf(t, e)]
      /\ leases' = [leases EXCEPT ![TabOf[t]] =
                      [task |-> t, lease |-> granted + 1, until |-> until]]
  BY DEF Claim
<1>3. until \in Nat
  <2>1. now \in Nat /\ ttl \in Nat /\ Deadline[t] \in Nat
    BY NumbersAreNatural DEF TypeOK
  <2> QED BY <2>1 DEF Smaller
<1>4. granted + 1 \in 0 .. MaxLeases
  BY NumbersAreNatural DEF Claim, TypeOK
<1>5. Reclaimed(tasks[t]) \in Phases
  BY DEF Reclaimed, TypeOK, Task, Phases, Active
<1>6. a.revision + 1 <= MaxRevision
  BY <1>2 DEF Save, Task
<1>7. a.revision + 1 \in 0 .. MaxRevision /\ a.epoch + 1 \in Nat
  BY <1>1, <1>6, NumbersAreNatural DEF Task
<1>8. /\ e \in Task /\ e.revision = a.revision + 1 /\ e.epoch = a.epoch + 1
      /\ e.lease = granted + 1 /\ e.leaseUntil = until /\ e.attempts = a.attempts
      /\ e.phase = Reclaimed(tasks[t]) /\ e.active = a.active /\ e.accountedAt = a.accountedAt
  BY <1>1, <1>3, <1>4, <1>5, <1>7 DEF Task
<1>9. HandOf(t, e) \in Hand
  BY <1>8 DEF HandOf, Hand, Task
<1>10. e.revision > 0
  BY <1>1, <1>8 DEF Task
<1> HIDE DEF e
<1> QED
  BY <1>1, <1>2, <1>3, <1>8, <1>9, <1>10

\* A claim keeps the attempts of its task and leaves the other tasks alone.
LEMMA ClaimKeeps ==
  ASSUME TypeOK, NEW w \in Workers, NEW t \in Tasks, NEW ttl \in 1 .. MaxTtl,
         Claim(w, t, ttl)
  PROVE  /\ tasks'[t].attempts = tasks[t].attempts
         /\ tasks'[t].phase = Reclaimed(tasks[t])
         /\ \A u \in Tasks : u # t => tasks'[u] = tasks[u]
<1>1. PICK e \in Task :
        /\ Save(t, e) /\ e.revision > 0
        /\ e.phase = Reclaimed(tasks[t]) /\ e.epoch = tasks[t].epoch + 1
        /\ e.lease = granted + 1 /\ e.attempts = tasks[t].attempts
        /\ e.active = tasks[t].active + Elapsed(tasks[t]) /\ e.accountedAt = now
        /\ HandOf(t, e) \in Hand /\ hand' = [hand EXCEPT ![w] = HandOf(t, e)]
        /\ e.leaseUntil \in Nat
        /\ leases' = [leases EXCEPT ![TabOf[t]] =
                        [task |-> t, lease |-> granted + 1, until |-> e.leaseUntil]]
  BY ClaimFacts, Zenon
<1> QED
  BY <1>1, SaveFacts

\* The fields of a row that took an event.
LEMMA AdvanceFacts ==
  ASSUME TypeOK, NEW w \in Workers, NEW event \in Events, NEW tries \in 0 .. 1,
         Advance(w, event, tries)
  PROVE  LET t == hand[w].task IN
         /\ t \in Tasks /\ Fence(hand[w])
         /\ tasks[t].phase \in From(event)
         /\ \E e \in Task :
              /\ Save(t, e) /\ e.revision > 0
              /\ e.phase = To(event, tasks[t].phase)
              /\ e.epoch = tasks[t].epoch /\ e.lease = tasks[t].lease
              /\ e.attempts = tasks[t].attempts + tries /\ e.attempts <= AttemptLimit
              /\ e.active = tasks[t].active + Elapsed(tasks[t]) /\ e.accountedAt = now
              /\ HandOf(t, e) \in Hand /\ hand' = [hand EXCEPT ![w] = HandOf(t, e)]
<1> DEFINE t == hand[w].task
           a == Accounted(tasks[t], tries)
           e == Reduced(a, event)
<1>1. t \in Tasks /\ Fence(hand[w])
  BY DEF Advance, Fence
<1>2. tasks[t].phase \in From(event) /\ CanAccount(tasks[t], tries)
      /\ Save(t, e) /\ hand' = [hand EXCEPT ![w] = HandOf(t, e)]
  BY DEF Advance
<1>3. /\ a \in Task /\ a.phase = tasks[t].phase /\ a.epoch = tasks[t].epoch
      /\ a.lease = tasks[t].lease
      /\ a.attempts = tasks[t].attempts + tries /\ a.attempts <= AttemptLimit
      /\ a.active = tasks[t].active + Elapsed(tasks[t]) /\ a.accountedAt = now
  BY <1>1, <1>2, AccountedFacts
<1>4. a.revision + 1 <= MaxRevision
  BY <1>2, <1>3 DEF Save, Reduced, Task
<1>5. /\ e \in Task /\ e.phase = To(event, a.phase) /\ e.revision = a.revision + 1
      /\ e.epoch = a.epoch /\ e.lease = a.lease /\ e.attempts = a.attempts
      /\ e.active = a.active /\ e.accountedAt = a.accountedAt
  <2>1. a.phase \in From(event)
    BY <1>2, <1>3
  <2> HIDE DEF a
  <2> QED BY <1>3, <1>4, <2>1, ReducedFacts
<1>6. HandOf(t, e) \in Hand
  BY <1>1, <1>5 DEF HandOf, Hand, Task
<1>7. e.revision > 0
  BY <1>3, <1>5 DEF Task
<1> HIDE DEF e, a
<1>8. /\ Save(t, e) /\ e.revision > 0
      /\ e.phase = To(event, tasks[t].phase)
      /\ e.epoch = tasks[t].epoch /\ e.lease = tasks[t].lease
      /\ e.attempts = tasks[t].attempts + tries /\ e.attempts <= AttemptLimit
      /\ e.active = tasks[t].active + Elapsed(tasks[t]) /\ e.accountedAt = now
      /\ HandOf(t, e) \in Hand /\ hand' = [hand EXCEPT ![w] = HandOf(t, e)]
  BY <1>2, <1>3, <1>5, <1>6, <1>7
<1> QED
  BY <1>1, <1>2, <1>5, <1>8

\* The fields of a cancelled row.
LEMMA CancelFacts ==
  ASSUME TypeOK, NEW t \in Tasks, Cancel(t)
  PROVE  \E e \in Task :
         /\ Save(t, e) /\ e.revision > 0 /\ e.phase = "cancelled"
         /\ e.attempts = tasks[t].attempts
<1> DEFINE b == tasks[t]
           e == [b EXCEPT !.generation = b.generation + 1, !.epoch = b.epoch + 1,
                          !.revision = b.revision + 1, !.phase = "cancelled",
                          !.terminalAt = now, !.leaseUntil = 0]
<1>1. b \in Task /\ now \in Nat
  BY NumbersAreNatural DEF TypeOK
<1>2. Save(t, e)
  BY DEF Cancel
<1>3. b.revision + 1 <= MaxRevision
  BY <1>1, <1>2 DEF Save, Task
<1>4. /\ b.revision + 1 \in 0 .. MaxRevision /\ b.epoch + 1 \in Nat
      /\ b.generation + 1 \in Nat /\ "cancelled" \in Phases /\ 0 \in Nat
  BY <1>1, <1>3, NumbersAreNatural DEF Task, Phases, Ended
<1>5. /\ e \in Task /\ e.revision = b.revision + 1 /\ e.phase = "cancelled"
      /\ e.attempts = b.attempts
  BY <1>1, <1>4 DEF Task
<1>6. e.revision > 0
  BY <1>1, <1>5 DEF Task
<1> HIDE DEF e
<1> QED
  BY <1>2, <1>5, <1>6

\* The fields of a row that counted a dispatch.
LEMMA RecordFacts ==
  ASSUME TypeOK, NEW c \in Calls, Record(c)
  PROVE  LET t == prepared[c].hand.task IN
         /\ t \in Tasks /\ Fence(prepared[c].hand) /\ tasks[t].phase = "running"
         /\ \E e \in Task :
              /\ Save(t, e) /\ e.revision > 0 /\ e.phase = "running"
              /\ e.epoch = tasks[t].epoch /\ e.lease = tasks[t].lease
              /\ e.attempts = tasks[t].attempts + 1 /\ e.attempts <= AttemptLimit
              /\ e.active = tasks[t].active + Elapsed(tasks[t]) /\ e.accountedAt = now
<1> DEFINE t == prepared[c].hand.task
           a == Accounted(tasks[t], 1)
           e == [a EXCEPT !.revision = a.revision + 1]
<1>1. t \in Tasks /\ Fence(prepared[c].hand) /\ tasks[t].phase = "running"
  BY DEF Record, Fence
<1>2. CanAccount(tasks[t], 1) /\ Save(t, e)
  BY DEF Record
<1>3. /\ a \in Task /\ a.phase = tasks[t].phase /\ a.epoch = tasks[t].epoch
      /\ a.lease = tasks[t].lease
      /\ a.attempts = tasks[t].attempts + 1 /\ a.attempts <= AttemptLimit
      /\ a.active = tasks[t].active + Elapsed(tasks[t]) /\ a.accountedAt = now
  <2>1. 1 \in 0 .. 1
    OBVIOUS
  <2>2. t \in Tasks /\ CanAccount(tasks[t], 1)
    BY <1>1, <1>2
  <2> HIDE DEF t
  <2> QED BY <2>1, <2>2, AccountedFacts
<1>4. Save(t, e) /\ a.revision + 1 = e.revision
  BY <1>2, <1>3 DEF Task
<1> HIDE DEF a
<1>5. a.revision + 1 \in 0 .. MaxRevision
  BY <1>3, <1>4, NumbersAreNatural DEF Save, Task
<1>6. /\ e \in Task /\ e.phase = a.phase /\ e.revision = a.revision + 1
      /\ e.epoch = a.epoch /\ e.lease = a.lease /\ e.attempts = a.attempts
      /\ e.active = a.active /\ e.accountedAt = a.accountedAt
  BY <1>3, <1>5 DEF Task
<1>7. e.revision > 0
  BY <1>3, <1>6 DEF Task
<1> HIDE DEF e
<1> QED
  BY <1>1, <1>3, <1>4, <1>6, <1>7

\* The fields of an admitted row.
LEMMA AdmitFacts ==
  ASSUME TypeOK, NEW t \in Tasks, Admit(t)
  PROVE  \E e \in Task :
         /\ Save(t, e) /\ e.revision > 0 /\ e.phase = "accepted"
         /\ e.epoch = 0 /\ e.attempts = 0 /\ e.active = 0
<1> DEFINE e == [NewTask EXCEPT !.phase = "accepted", !.revision = 1, !.accountedAt = now]
<1>1. Save(t, e)
  BY DEF Admit
<1>2. 1 <= MaxRevision
  BY <1>1 DEF Save, NewTask
<1>3. now \in Nat /\ 1 \in 0 .. MaxRevision /\ 0 \in 0 .. MaxLeases
  BY <1>2, NumbersAreNatural DEF TypeOK
<1>4. e \in Task /\ e.revision = 1 /\ e.phase = "accepted" /\ e.epoch = 0 /\ e.attempts = 0
      /\ e.active = 0
  BY <1>3 DEF NewTask, Task, Phases, Active
<1> HIDE DEF e
<1> QED
  BY <1>1, <1>4

-----------------------------------------------------------------------------
(* Type correctness.                                                       *)

LEMMA TypeInit == ASSUME Init PROVE TypeOK
<1>1. NewTask \in Task /\ NoLease \in Lease /\ NoHand \in Hand /\ NoCall \in Call
  BY NumbersAreNatural
  DEF NewTask, NoLease, NoHand, NoCall, Task, Lease, Hand, Call, Phases
<1>2. 0 \in 0 .. MaxTime /\ 0 \in 0 .. MaxLeases /\ 0 \in 0 .. MaxSetbacks
  BY NumbersAreNatural
<1> QED
  BY <1>1, <1>2 DEF Init, TypeOK, Receipts

LEMMA TypeStep == ASSUME TypeOK, [Next]_vars PROVE TypeOK'
<1>1. ASSUME NEW t \in Tasks, Admit(t) PROVE TypeOK'
  <2>1. PICK e \in Task : Save(t, e) /\ e.revision > 0
    BY <1>1, AdmitFacts
  <2>2. tasks' \in [Tasks -> Task] /\ log' \in [Tasks -> SUBSET (1 .. MaxRevision)]
    BY <2>1, SaveFacts
  <2> QED BY <1>1, <2>2 DEF Admit, history, TypeOK
<1>2. ASSUME NEW t \in Tasks, Cancel(t) PROVE TypeOK'
  <2>1. PICK e \in Task : Save(t, e) /\ e.revision > 0
    BY <1>2, CancelFacts
  <2>2. tasks' \in [Tasks -> Task] /\ log' \in [Tasks -> SUBSET (1 .. MaxRevision)]
    BY <2>1, SaveFacts
  <2>3. NoLease \in Lease
    BY NumbersAreNatural DEF NoLease, Lease
  <2>4. leases' \in [Tabs -> Lease]
    BY <1>2, <2>3 DEF Cancel, TypeOK
  <2> QED BY <1>2, <2>2, <2>4 DEF Cancel, history, TypeOK
<1>3. ASSUME NEW w \in Workers, NEW t \in Tasks, Read(w, t) PROVE TypeOK'
  <2>1. HandOf(t, tasks[t]) \in Hand
    BY DEF TypeOK, Task, HandOf, Hand
  <2>2. hand' \in [Workers -> Hand]
    BY <1>3, <2>1 DEF Read, TypeOK
  <2> QED BY <1>3, <2>2 DEF Read, tables, history, TypeOK
<1>4. ASSUME NEW w \in Workers, NEW t \in Tasks, NEW ttl \in 1 .. MaxTtl, Claim(w, t, ttl)
      PROVE  TypeOK'
  <2>1. PICK e \in Task :
          /\ Save(t, e) /\ e.revision > 0
          /\ HandOf(t, e) \in Hand /\ hand' = [hand EXCEPT ![w] = HandOf(t, e)]
          /\ e.leaseUntil \in Nat
          /\ leases' = [leases EXCEPT ![TabOf[t]] =
                          [task |-> t, lease |-> granted + 1, until |-> e.leaseUntil]]
    BY <1>4, ClaimFacts
  <2>2. tasks' \in [Tasks -> Task] /\ log' \in [Tasks -> SUBSET (1 .. MaxRevision)]
    BY <2>1, SaveFacts
  <2>3. hand' \in [Workers -> Hand]
    BY <2>1 DEF TypeOK
  <2>4. granted' = granted + 1 /\ granted + 1 \in 0 .. MaxLeases
    BY <1>4, NumbersAreNatural DEF Claim, TypeOK
  <2>5. [task |-> t, lease |-> granted + 1, until |-> e.leaseUntil] \in Lease
    BY <2>1, <2>4 DEF Lease
  <2>6. leases' \in [Tabs -> Lease]
    BY <2>1, <2>5, TabOfType DEF TypeOK
  <2>7. newest' \in [Tabs -> 0 .. MaxLeases]
    BY <1>4, <2>4, TabOfType DEF Claim, TypeOK
  <2> QED BY <1>4, <2>2, <2>3, <2>4, <2>6, <2>7 DEF Claim, TypeOK
<1>5. ASSUME NEW w \in Workers, NEW event \in Events, NEW tries \in 0 .. 1,
             Advance(w, event, tries)
      PROVE  TypeOK'
  <2> DEFINE t == hand[w].task
  <2>1. t \in Tasks
    BY <1>5, AdvanceFacts
  <2>2. PICK e \in Task :
          /\ Save(t, e) /\ e.revision > 0
          /\ HandOf(t, e) \in Hand /\ hand' = [hand EXCEPT ![w] = HandOf(t, e)]
    BY <1>5, AdvanceFacts
  <2>3. tasks' \in [Tasks -> Task] /\ log' \in [Tasks -> SUBSET (1 .. MaxRevision)]
    BY <2>1, <2>2, SaveFacts
  <2>4. hand' \in [Workers -> Hand]
    BY <2>2 DEF TypeOK
  <2>5. resumer' \in [Tasks -> 0 .. MaxLeases]
    <3>1. hand[w].lease \in 0 .. MaxLeases
      BY DEF TypeOK, Hand
    <3>2. resumer' = resumer \/ resumer' = [resumer EXCEPT ![t] = hand[w].lease]
      BY <1>5 DEF Advance
    <3> QED BY <3>1, <3>2 DEF TypeOK
  <2> QED BY <1>5, <2>3, <2>4, <2>5 DEF Advance, TypeOK
<1>6. ASSUME NEW w \in Workers, NEW c \in Calls, NEW s \in Steps, Prepare(w, c, s)
      PROVE  TypeOK'
  <2>1. [hand |-> hand[w], step |-> s] \in Call
    BY DEF TypeOK, Call
  <2>2. prepared' \in [Calls -> Call]
    BY <1>6, <2>1 DEF Prepare, TypeOK
  <2> QED BY <1>6, <2>2 DEF Prepare, tables, history, TypeOK
<1>7. ASSUME NEW c \in Calls, Record(c) PROVE TypeOK'
  <2> DEFINE t == prepared[c].hand.task
  <2>1. t \in Tasks
    BY <1>7, RecordFacts
  <2>2. PICK e \in Task : Save(t, e) /\ e.revision > 0
    BY <1>7, RecordFacts
  <2>3. tasks' \in [Tasks -> Task] /\ log' \in [Tasks -> SUBSET (1 .. MaxRevision)]
    BY <2>1, <2>2, SaveFacts
  <2> QED BY <1>7, <2>3 DEF Record, TypeOK
<1>8. ASSUME NEW c \in Calls, Perform(c) PROVE TypeOK'
  BY <1>8 DEF Perform, tables, TypeOK
<1>9. ASSUME NEW c \in Calls, Conclude(c) PROVE TypeOK'
  <2>1. final' \in [Calls -> Receipts \cup {"open"}]
    BY <1>9 DEF Conclude, TypeOK
  <2> QED BY <1>9, <2>1 DEF Conclude, tables, history, TypeOK
<1>10. ASSUME NEW c \in Calls, Settle(c) PROVE TypeOK'
  <2>1. receipt' \in [Calls -> Receipts \cup {"none"}]
    BY <1>10 DEF Settle, TypeOK
  <2> QED BY <1>10, <2>1 DEF Settle, history, TypeOK
<1>11. ASSUME Prune PROVE TypeOK'
  <2>1. intents' \in SUBSET Calls
    BY <1>11 DEF Prune, TypeOK
  <2>2. log' \in [Tasks -> SUBSET (1 .. MaxRevision)]
    BY <1>11 DEF Prune, TypeOK
  <2> QED BY <1>11, <2>1, <2>2 DEF Prune, history, TypeOK
<1>12. ASSUME Tick PROVE TypeOK'
  <2>1. now' \in 0 .. MaxTime
    BY <1>12, NumbersAreNatural DEF Tick, TypeOK
  <2>2. ran' \in [Tasks -> Nat]
    BY <1>12 DEF Tick, TypeOK
  <2> QED BY <1>12, <2>1, <2>2 DEF Tick, tables, TypeOK
<1>13. ASSUME SetBack PROVE TypeOK'
  <2>1. setbacks' \in 0 .. MaxSetbacks
    BY <1>13, NumbersAreNatural DEF SetBack, TypeOK
  <2>2. now' \in 0 .. MaxTime
    BY <1>13 DEF SetBack
  <2> QED BY <1>13, <2>1, <2>2 DEF SetBack, tables, TypeOK
<1>14. CASE UNCHANGED vars
  BY <1>14 DEF vars, TypeOK
<1> QED
  BY <1>1, <1>2, <1>3, <1>4, <1>5, <1>6, <1>7, <1>8, <1>9, <1>10, <1>11, <1>12, <1>13, <1>14
  DEF Next, Store, Runtime

-----------------------------------------------------------------------------
(* Authority, resumption and the end of a task.                            *)

LEMMA RowStep == ASSUME TypeOK, RowIsNewest, [Next]_vars PROVE RowIsNewest'
<1>1. ASSUME NEW t \in Tasks, Cancel(t) PROVE RowIsNewest'
  <2>1. newest' = newest /\ \A s \in Tabs : leases'[s] = leases[s] \/ leases'[s].task = NoTask
    BY <1>1 DEF Cancel, history, NoLease, TypeOK
  <2> QED BY <2>1 DEF RowIsNewest
<1>2. ASSUME NEW w \in Workers, NEW t \in Tasks, NEW ttl \in 1 .. MaxTtl, Claim(w, t, ttl)
      PROVE  RowIsNewest'
  <2>1. PICK e \in Task : leases' = [leases EXCEPT ![TabOf[t]] =
                       [task |-> t, lease |-> granted + 1, until |-> e.leaseUntil]]
    BY <1>2, ClaimFacts
  <2>2. newest' = [newest EXCEPT ![TabOf[t]] = granted + 1]
    BY <1>2 DEF Claim
  <2> QED BY <2>1, <2>2 DEF RowIsNewest, TypeOK
<1>3. CASE UNCHANGED <<leases, newest>>
  BY <1>3 DEF RowIsNewest
<1> QED
  BY <1>1, <1>2, <1>3
  DEF Next, Store, Runtime, vars, tables, history, Admit, Read, Advance, Prepare, Record,
      Perform, Conclude, Settle, Prune, Tick, SetBack

\* Where an event leads to running, the resumer is the lease of the worker.
LEMMA RunningAfter ==
  ASSUME NEW event \in Events, NEW phase \in From(event), To(event, phase) = "running"
  PROVE  phase = "running" \/ event \in {"started", "resumed"}
BY DEF Events, From, To, Active, Ended

LEMMA ResumeStep ==
  ASSUME TypeOK, Claimed, ResumedByHolder, [Next]_vars
  PROVE  Claimed' /\ ResumedByHolder'
<1>1. ASSUME NEW t \in Tasks, Admit(t) PROVE Claimed' /\ ResumedByHolder'
  <2>1. PICK e \in Task : Save(t, e) /\ e.revision > 0 /\ e.phase = "accepted" /\ e.epoch = 0
    BY <1>1, AdmitFacts
  <2>2. tasks'[t] = e /\ \A u \in Tasks : u # t => tasks'[u] = tasks[u]
    BY <2>1, SaveFacts
  <2>3. tasks[t].phase = "none" /\ leases' = leases /\ resumer' = resumer
    BY <1>1 DEF Admit, history
  <2> QED BY <2>1, <2>2, <2>3 DEF Claimed, ResumedByHolder
<1>2. ASSUME NEW t \in Tasks, Cancel(t) PROVE Claimed' /\ ResumedByHolder'
  <2>1. PICK e \in Task : Save(t, e) /\ e.revision > 0 /\ e.phase = "cancelled"
    BY <1>2, CancelFacts
  <2>2. tasks'[t] = e /\ \A u \in Tasks : u # t => tasks'[u] = tasks[u]
    BY <2>1, SaveFacts
  <2>3. resumer' = resumer
        /\ \A s \in Tabs : leases'[s].task # t
                           /\ (leases'[s] = leases[s] \/ leases'[s].task = NoTask)
    BY <1>2, NoTaskFresh DEF Cancel, history, NoLease, TypeOK
  <2> QED BY <2>1, <2>2, <2>3, TabOfType, NoTaskFresh DEF Claimed, ResumedByHolder
<1>3. ASSUME NEW w \in Workers, NEW t \in Tasks, NEW ttl \in 1 .. MaxTtl, Claim(w, t, ttl)
      PROVE  Claimed' /\ ResumedByHolder'
  <2>1. PICK e \in Task :
          /\ Save(t, e) /\ e.revision > 0
          /\ e.phase = Reclaimed(tasks[t]) /\ e.epoch = tasks[t].epoch + 1
          /\ leases' = [leases EXCEPT ![TabOf[t]] =
                          [task |-> t, lease |-> granted + 1, until |-> e.leaseUntil]]
    BY <1>3, ClaimFacts
  <2>2. tasks'[t] = e /\ \A u \in Tasks : u # t => tasks'[u] = tasks[u]
    BY <2>1, SaveFacts
  <2>3. tasks[t].epoch \in Nat
    BY DEF TypeOK, Task
  <2>4. e.phase # "running" /\ e.phase # "none" /\ e.epoch > 0
    <3>1. tasks[t].phase # "none"
      BY <1>3 DEF Claim, Live, Active
    <3> QED BY <2>1, <2>3, <3>1 DEF Reclaimed, Claimed
  <2>5. \A s \in Tabs : leases'[s] = leases[s] \/ leases'[s].task = t
    BY <2>1 DEF TypeOK
  <2>6. resumer' = resumer
    BY <1>3 DEF Claim
  <2> QED BY <2>2, <2>4, <2>5, <2>6, TabOfType DEF Claimed, ResumedByHolder
<1>4. ASSUME NEW w \in Workers, NEW event \in Events, NEW tries \in 0 .. 1,
             Advance(w, event, tries)
      PROVE  Claimed' /\ ResumedByHolder'
  <2> DEFINE t == hand[w].task
  <2>1. /\ t \in Tasks /\ tasks[t].lease = hand[w].lease /\ leases[TabOf[t]].task = t
        /\ tasks[t].phase \in From(event)
    BY <1>4, AdvanceFacts DEF Fence
  <2>2. PICK e \in Task :
          /\ Save(t, e) /\ e.revision > 0
          /\ e.phase = To(event, tasks[t].phase)
          /\ e.epoch = tasks[t].epoch /\ e.lease = tasks[t].lease
    BY <1>4, AdvanceFacts
  <2>3. tasks'[t] = e /\ \A u \in Tasks : u # t => tasks'[u] = tasks[u]
    BY <2>1, <2>2, SaveFacts
  <2>4. leases' = leases
    BY <1>4 DEF Advance
  <2>5. Claimed'
    <3>1. e.phase # "none"
      BY <2>1, <2>2 DEF Events, From, To, Active, Ended
    <3> QED BY <2>1, <2>2, <2>3, <2>4, <3>1 DEF Claimed
  <2>6. resumer' = IF event \in {"started", "resumed"}
                   THEN [resumer EXCEPT ![t] = hand[w].lease] ELSE resumer
    BY <1>4 DEF Advance
  <2>7. \A u \in Tasks : u # t => resumer'[u] = resumer[u]
    BY <2>6 DEF TypeOK
  <2>8. e.phase = "running" => resumer'[t] = e.lease
    <3>1. CASE event \in {"started", "resumed"}
      BY <2>1, <2>2, <2>6, <3>1 DEF TypeOK
    <3>2. CASE event \notin {"started", "resumed"}
      BY <2>1, <2>2, <2>6, <3>2, RunningAfter DEF ResumedByHolder
    <3> QED BY <3>1, <3>2
  <2> QED BY <2>3, <2>5, <2>7, <2>8 DEF ResumedByHolder
<1>5. ASSUME NEW c \in Calls, Record(c) PROVE Claimed' /\ ResumedByHolder'
  <2> DEFINE t == prepared[c].hand.task
  <2>1. t \in Tasks /\ tasks[t].phase = "running"
    BY <1>5, RecordFacts
  <2>2. PICK e \in Task :
          /\ Save(t, e) /\ e.revision > 0 /\ e.phase = "running"
          /\ e.epoch = tasks[t].epoch /\ e.lease = tasks[t].lease
    BY <1>5, RecordFacts
  <2>3. tasks'[t] = e /\ \A u \in Tasks : u # t => tasks'[u] = tasks[u]
    BY <2>1, <2>2, SaveFacts
  <2>4. leases' = leases /\ resumer' = resumer
    BY <1>5 DEF Record
  <2> QED BY <2>1, <2>2, <2>3, <2>4 DEF Claimed, ResumedByHolder
<1>6. CASE UNCHANGED <<tasks, leases, resumer>>
  BY <1>6 DEF Claimed, ResumedByHolder
<1> QED
  BY <1>1, <1>2, <1>3, <1>4, <1>5, <1>6
  DEF Next, Store, Runtime, vars, tables, history, Read, Prepare, Perform, Conclude, Settle,
      Prune, Tick, SetBack

\* Only an active task is written after its admission, and no call is recorded
\* for another.
LEMMA FinalStep ==
  ASSUME TypeOK, [Next]_vars, NEW t \in Tasks, tasks[t].phase \in Ended
  PROVE  /\ tasks'[t] = tasks[t]
         /\ \A c \in recorded' \ recorded : prepared[c].hand.task # t
<1>1. tasks[t].phase \notin Active /\ tasks[t].phase # "none"
  BY DEF Ended, Active
<1>2. ASSUME NEW u \in Tasks, Admit(u) PROVE tasks'[t] = tasks[t] /\ recorded' = recorded
  BY <1>1, <1>2 DEF Admit, Save, history, TypeOK
<1>3. ASSUME NEW u \in Tasks, Cancel(u) PROVE tasks'[t] = tasks[t] /\ recorded' = recorded
  BY <1>1, <1>3 DEF Cancel, Save, history, TypeOK
<1>4. ASSUME NEW w \in Workers, NEW u \in Tasks, NEW ttl \in 1 .. MaxTtl, Claim(w, u, ttl)
      PROVE  tasks'[t] = tasks[t] /\ recorded' = recorded
  BY <1>1, <1>4 DEF Claim, Live, Save, TypeOK
<1>5. ASSUME NEW w \in Workers, NEW event \in Events, NEW tries \in 0 .. 1,
             Advance(w, event, tries)
      PROVE  tasks'[t] = tasks[t] /\ recorded' = recorded
  BY <1>1, <1>5 DEF Advance, Fence, Live, Save, TypeOK
<1>6. ASSUME NEW c \in Calls, Record(c)
      PROVE  /\ tasks'[t] = tasks[t]
             /\ \A d \in recorded' \ recorded : prepared[d].hand.task # t
  BY <1>1, <1>6 DEF Record, Fence, Live, Save, TypeOK
<1>7. CASE UNCHANGED <<tasks, recorded>>
  BY <1>7
<1> QED
  BY <1>2, <1>3, <1>4, <1>5, <1>6, <1>7
  DEF Next, Store, Runtime, vars, tables, history, Read, Prepare, Perform, Conclude, Settle,
      Prune, Tick, SetBack

-----------------------------------------------------------------------------
(* Time.                                                                   *)

\* A row whose running time was accounted at this moment has none open.
LEMMA AccountedNow ==
  ASSUME NEW e \in Task, now \in Nat, e.accountedAt = now
  PROVE  Elapsed(e) = 0
BY DEF Elapsed

\* A task that is written while it is active, with all its running time counted.
LEMMA CountedRow ==
  ASSUME TypeOK, RanAdmitted, TimeIsAccounted, NEW t \in Tasks, NEW e \in Task,
         Save(t, e), e.revision > 0, tasks[t].phase \in Active, e.phase # "none",
         e.active = tasks[t].active + Elapsed(tasks[t]), e.accountedAt = now,
         UNCHANGED <<now, ran, setbacks>>
  PROVE  RanAdmitted' /\ TimeIsAccounted'
<1>1. tasks'[t] = e /\ \A u \in Tasks : u # t => tasks'[u] = tasks[u]
  BY SaveFacts
<1>2. now \in Nat /\ e.active \in Nat
  BY NumbersAreNatural DEF TypeOK, Task
<1>3. Elapsed(e) = 0 /\ Elapsed(e)' = Elapsed(e)
  BY <1>2, AccountedNow DEF Elapsed
<1>4. setbacks = 0 => ran[t] = e.active + Elapsed(e)
  <2>1. setbacks = 0 => ran[t] = tasks[t].active + Elapsed(tasks[t])
    BY DEF TimeIsAccounted
  <2> QED BY <1>2, <1>3, <2>1
<1>5. RanAdmitted'
  BY <1>1 DEF RanAdmitted
<1>6. \A u \in Tasks : u # t /\ setbacks = 0 /\ tasks[u].phase \in Active =>
        ran[u] = tasks[u].active + Elapsed(tasks[u])
  BY DEF TimeIsAccounted
<1> QED
  BY <1>1, <1>3, <1>4, <1>5, <1>6 DEF TimeIsAccounted, Elapsed

LEMMA TimeStep ==
  ASSUME TypeOK, RanAdmitted, TimeIsAccounted, [Next]_vars
  PROVE  RanAdmitted' /\ TimeIsAccounted'
<1>1. ASSUME NEW t \in Tasks, Admit(t) PROVE RanAdmitted' /\ TimeIsAccounted'
  <2>1. PICK e \in Task : Save(t, e) /\ e.revision > 0 /\ e.phase = "accepted" /\ e.active = 0
    BY <1>1, AdmitFacts
  <2>2. tasks'[t] = e /\ \A u \in Tasks : u # t => tasks'[u] = tasks[u]
    BY <2>1, SaveFacts
  <2>3. ran[t] = 0 /\ ran' = ran /\ now' = now /\ setbacks' = setbacks
    BY <1>1 DEF Admit, history, RanAdmitted
  <2>4. RanAdmitted'
    BY <2>1, <2>2, <2>3 DEF RanAdmitted
  <2> QED BY <2>1, <2>2, <2>3, <2>4 DEF TimeIsAccounted, Elapsed
<1>2. ASSUME NEW t \in Tasks, Cancel(t) PROVE RanAdmitted' /\ TimeIsAccounted'
  <2>1. PICK e \in Task : Save(t, e) /\ e.revision > 0 /\ e.phase = "cancelled"
    BY <1>2, CancelFacts
  <2>2. tasks'[t] = e /\ \A u \in Tasks : u # t => tasks'[u] = tasks[u]
    BY <2>1, SaveFacts
  <2>3. ran' = ran /\ now' = now /\ setbacks' = setbacks
    BY <1>2 DEF Cancel, history
  <2>4. RanAdmitted'
    BY <2>1, <2>2, <2>3 DEF RanAdmitted
  <2> QED BY <2>1, <2>2, <2>3, <2>4 DEF TimeIsAccounted, Elapsed, Active
<1>3. ASSUME NEW w \in Workers, NEW t \in Tasks, NEW ttl \in 1 .. MaxTtl, Claim(w, t, ttl)
      PROVE  RanAdmitted' /\ TimeIsAccounted'
  <2>1. PICK e \in Task :
          /\ Save(t, e) /\ e.revision > 0 /\ e.phase = Reclaimed(tasks[t])
          /\ e.active = tasks[t].active + Elapsed(tasks[t]) /\ e.accountedAt = now
    BY <1>3, ClaimFacts
  <2>2. tasks[t].phase \in Active /\ UNCHANGED <<now, ran, setbacks>>
    BY <1>3 DEF Claim, Live
  <2>3. e.phase # "none"
    BY <2>1, <2>2 DEF Reclaimed, Active
  <2> QED BY <2>1, <2>2, <2>3, CountedRow
<1>4. ASSUME NEW w \in Workers, NEW event \in Events, NEW tries \in 0 .. 1,
             Advance(w, event, tries)
      PROVE  RanAdmitted' /\ TimeIsAccounted'
  <2> DEFINE t == hand[w].task
  <2>1. t \in Tasks /\ Fence(hand[w]) /\ tasks[t].phase \in From(event)
    BY <1>4, AdvanceFacts
  <2>2. PICK e \in Task :
          /\ Save(t, e) /\ e.revision > 0 /\ e.phase = To(event, tasks[t].phase)
          /\ e.active = tasks[t].active + Elapsed(tasks[t]) /\ e.accountedAt = now
    BY <1>4, AdvanceFacts
  <2>3. e.phase # "none" /\ tasks[t].phase \in Active
    BY <2>1, <2>2 DEF Events, From, To, Active, Ended
  <2>4. UNCHANGED <<now, ran, setbacks>>
    BY <1>4 DEF Advance
  <2> HIDE DEF t
  <2> QED BY <2>1, <2>2, <2>3, <2>4, CountedRow
<1>5. ASSUME NEW c \in Calls, Record(c) PROVE RanAdmitted' /\ TimeIsAccounted'
  <2> DEFINE t == prepared[c].hand.task
  <2>1. t \in Tasks /\ tasks[t].phase = "running"
    BY <1>5, RecordFacts
  <2>2. PICK e \in Task :
          /\ Save(t, e) /\ e.revision > 0 /\ e.phase = "running"
          /\ e.active = tasks[t].active + Elapsed(tasks[t]) /\ e.accountedAt = now
    BY <1>5, RecordFacts
  <2>3. UNCHANGED <<now, ran, setbacks>> /\ "running" \in Active
    BY <1>5 DEF Record, Active
  <2> HIDE DEF t
  <2> QED BY <2>1, <2>2, <2>3, CountedRow
<1>6. ASSUME Tick PROVE RanAdmitted' /\ TimeIsAccounted'
  <2>1. /\ tasks' = tasks /\ setbacks' = setbacks /\ now' = now + 1
        /\ \A t \in Tasks : ran'[t] = IF tasks[t].phase = "running" THEN ran[t] + 1 ELSE ran[t]
    BY <1>6 DEF Tick, tables
  <2>2. RanAdmitted'
    BY <2>1 DEF RanAdmitted
  <2>3. ASSUME NEW t \in Tasks, setbacks = 0, tasks[t].phase \in Active
        PROVE  ran'[t] = tasks[t].active + Elapsed(tasks[t])'
    <3>1. ran[t] = tasks[t].active + Elapsed(tasks[t])
      BY <2>3 DEF TimeIsAccounted
    <3>2. /\ tasks[t].active \in Nat /\ tasks[t].accountedAt \in Nat /\ now \in Nat
          /\ ran[t] \in Nat
      BY NumbersAreNatural DEF TypeOK, Task
    <3> QED BY <2>1, <3>1, <3>2 DEF Elapsed
  <2> QED BY <2>1, <2>2, <2>3 DEF TimeIsAccounted
<1>7. ASSUME SetBack PROVE RanAdmitted' /\ TimeIsAccounted'
  <2>1. tasks' = tasks /\ ran' = ran /\ setbacks' = setbacks + 1 /\ setbacks \in Nat
    BY <1>7, NumbersAreNatural DEF SetBack, tables, TypeOK
  <2> QED BY <2>1 DEF RanAdmitted, TimeIsAccounted
<1>8. ASSUME UNCHANGED <<tasks, now, ran, setbacks>> PROVE RanAdmitted' /\ TimeIsAccounted'
  BY <1>8 DEF RanAdmitted, TimeIsAccounted, Elapsed
<1>9. ASSUME NEW w \in Workers, NEW t \in Tasks, Read(w, t)
      PROVE  UNCHANGED <<tasks, now, ran, setbacks>>
  BY <1>9 DEF Read, tables, history
<1>10. ASSUME NEW w \in Workers, NEW c \in Calls, NEW s \in Steps, Prepare(w, c, s)
       PROVE  UNCHANGED <<tasks, now, ran, setbacks>>
  BY <1>10 DEF Prepare, tables, history
<1>11. ASSUME NEW c \in Calls, Perform(c) \/ Conclude(c) \/ Settle(c)
       PROVE  UNCHANGED <<tasks, now, ran, setbacks>>
  BY <1>11 DEF Perform, Conclude, Settle, tables, history
<1>12. ASSUME Prune \/ UNCHANGED vars PROVE UNCHANGED <<tasks, now, ran, setbacks>>
  BY <1>12 DEF Prune, vars, tables, history
<1> QED
  BY <1>1, <1>2, <1>3, <1>4, <1>5, <1>6, <1>7, <1>8, <1>9, <1>10, <1>11, <1>12
  DEF Next, Store, Runtime

-----------------------------------------------------------------------------
(* Dispatches and receipts.                                                *)

\* A task stays admitted, and its attempts grow within the limit.
LEMMA AttemptsStep ==
  ASSUME TypeOK, [Next]_vars, NEW t \in Tasks, tasks[t].attempts <= AttemptLimit
  PROVE  /\ tasks'[t].attempts <= AttemptLimit
         /\ tasks[t].phase # "none" =>
              tasks'[t].phase # "none" /\ tasks[t].attempts <= tasks'[t].attempts
<1> DEFINE Good == /\ tasks'[t].attempts <= AttemptLimit
                   /\ tasks[t].phase # "none" =>
                        tasks'[t].phase # "none" /\ tasks[t].attempts <= tasks'[t].attempts
<1>0. tasks[t].attempts \in Nat
  BY DEF TypeOK, Task
<1>1. ASSUME NEW u \in Tasks, Admit(u) PROVE Good
  <2>1. PICK e \in Task : Save(u, e) /\ e.revision > 0 /\ e.phase = "accepted"
                          /\ e.attempts = 0
    BY <1>1, AdmitFacts
  <2>2. tasks'[u] = e /\ \A v \in Tasks : v # u => tasks'[v] = tasks[v]
    BY <2>1, SaveFacts
  <2>3. tasks[u].phase = "none" /\ 0 <= AttemptLimit
    BY <1>1, NumbersAreNatural DEF Admit
  <2> QED BY <1>0, <2>1, <2>2, <2>3
<1>2. ASSUME NEW u \in Tasks, Cancel(u) PROVE Good
  <2>1. PICK e \in Task : Save(u, e) /\ e.revision > 0 /\ e.phase = "cancelled"
                          /\ e.attempts = tasks[u].attempts
    BY <1>2, CancelFacts
  <2>2. tasks'[u] = e /\ \A v \in Tasks : v # u => tasks'[v] = tasks[v]
    BY <2>1, SaveFacts
  <2> QED BY <1>0, <2>1, <2>2
<1>3. ASSUME NEW w \in Workers, NEW u \in Tasks, NEW ttl \in 1 .. MaxTtl, Claim(w, u, ttl)
      PROVE  Good
  <2>1. /\ tasks'[u].attempts = tasks[u].attempts
        /\ tasks'[u].phase = Reclaimed(tasks[u])
        /\ \A v \in Tasks : v # u => tasks'[v] = tasks[v]
    BY <1>3, ClaimKeeps
  <2> QED BY <1>0, <2>1 DEF Reclaimed
<1>4. ASSUME NEW w \in Workers, NEW event \in Events, NEW tries \in 0 .. 1,
             Advance(w, event, tries)
      PROVE  Good
  <2> DEFINE u == hand[w].task
  <2>1. u \in Tasks /\ tasks[u].phase \in From(event)
    BY <1>4, AdvanceFacts
  <2>2. PICK e \in Task : Save(u, e) /\ e.revision > 0 /\ e.phase = To(event, tasks[u].phase)
                          /\ e.attempts = tasks[u].attempts + tries
                          /\ e.attempts <= AttemptLimit
    BY <1>4, AdvanceFacts
  <2>3. tasks'[u] = e /\ \A v \in Tasks : v # u => tasks'[v] = tasks[v]
    BY <2>1, <2>2, SaveFacts
  <2>4. e.phase # "none"
    BY <2>1, <2>2 DEF Events, From, To, Active, Ended
  <2> QED BY <1>0, <2>2, <2>3, <2>4
<1>5. ASSUME NEW c \in Calls, Record(c) PROVE Good
  <2> DEFINE u == prepared[c].hand.task
  <2>1. u \in Tasks
    BY <1>5, RecordFacts
  <2>2. PICK e \in Task : Save(u, e) /\ e.revision > 0 /\ e.phase = "running"
                          /\ e.attempts = tasks[u].attempts + 1
                          /\ e.attempts <= AttemptLimit
    BY <1>5, RecordFacts
  <2>3. tasks'[u] = e /\ \A v \in Tasks : v # u => tasks'[v] = tasks[v]
    BY <2>1, <2>2, SaveFacts
  <2> QED BY <1>0, <2>2, <2>3
<1>6. CASE UNCHANGED tasks
  BY <1>0, <1>6
<1> QED
  BY <1>1, <1>2, <1>3, <1>4, <1>5, <1>6
  DEF Next, Store, Runtime, vars, tables, history, Read, Prepare, Perform, Conclude, Settle,
      Prune, Tick, SetBack

\* The context of a recorded call is settled.
LEMMA PreparedKept ==
  ASSUME TypeOK, IntentsKept, [Next]_vars, NEW c \in recorded
  PROVE  prepared'[c] = prepared[c]
<1>1. ASSUME NEW w \in Workers, NEW d \in Calls, NEW s \in Steps, Prepare(w, d, s)
      PROVE  prepared'[c] = prepared[c]
  <2>1. prepared[d] = NoCall
    BY <1>1 DEF Prepare
  <2>2. prepared[d].hand.task \notin Tasks
    BY <2>1, NoTaskFresh DEF NoCall, NoHand
  <2>3. c # d
    BY <2>2 DEF IntentsKept
  <2> QED BY <1>1, <2>3 DEF Prepare, TypeOK
<1>2. ASSUME NEW t \in Tasks, Admit(t) \/ Cancel(t) PROVE UNCHANGED prepared
  BY <1>2 DEF Admit, Cancel
<1>3. ASSUME NEW w \in Workers, NEW t \in Tasks,
             Read(w, t) \/ \E ttl \in 1 .. MaxTtl : Claim(w, t, ttl)
      PROVE  UNCHANGED prepared
  BY <1>3 DEF Read, Claim
<1>4. ASSUME NEW w \in Workers, NEW event \in Events, NEW tries \in 0 .. 1,
             Advance(w, event, tries)
      PROVE  UNCHANGED prepared
  BY <1>4 DEF Advance
<1>5. ASSUME NEW d \in Calls, Runtime(d) PROVE UNCHANGED prepared
  BY <1>5 DEF Runtime, Record, Perform, Conclude, Settle
<1>6. ASSUME Prune \/ Tick \/ SetBack \/ UNCHANGED vars PROVE UNCHANGED prepared
  BY <1>6 DEF Prune, Tick, SetBack, vars
<1> QED
  BY <1>1, <1>2, <1>3, <1>4, <1>5, <1>6 DEF Next, Store

\* What recording a call, pruning and every other step do to the intents.
LEMMA DispatchCases ==
  ASSUME [Next]_vars
  PROVE  \/ \E c \in Calls : Record(c)
         \/ Prune
         \/ UNCHANGED <<intents, recorded>>
<1>1. ASSUME NEW t \in Tasks, Admit(t) \/ Cancel(t) PROVE UNCHANGED <<intents, recorded>>
  BY <1>1 DEF Admit, Cancel, history
<1>2. ASSUME NEW w \in Workers, Store(w) PROVE UNCHANGED <<intents, recorded>>
  BY <1>2 DEF Store, Read, Claim, Advance, Prepare, tables, history
<1>3. ASSUME NEW c \in Calls, Perform(c) \/ Conclude(c) \/ Settle(c)
      PROVE  UNCHANGED <<intents, recorded>>
  BY <1>3 DEF Perform, Conclude, Settle, tables, history
<1>4. ASSUME Tick \/ SetBack \/ UNCHANGED vars PROVE UNCHANGED <<intents, recorded>>
  BY <1>4 DEF Tick, SetBack, vars, tables
<1> QED
  BY <1>1, <1>2, <1>3, <1>4 DEF Next, Runtime

LEMMA DispatchStep ==
  ASSUME TypeOK, IntentsKept, StepDispatchedOnce, AttemptsCounted, [Next]_vars
  PROVE  IntentsKept' /\ StepDispatchedOnce' /\ AttemptsCounted'
<1>1. \A c \in recorded : prepared'[c] = prepared[c]
  BY PreparedKept
<1>2. \A t \in Tasks :
        /\ tasks'[t].attempts <= AttemptLimit
        /\ tasks[t].phase # "none" =>
             tasks'[t].phase # "none" /\ tasks[t].attempts <= tasks'[t].attempts
  BY AttemptsStep DEF AttemptsCounted
<1>3. \A t \in Tasks : tasks[t].phase \in Ended => tasks'[t] = tasks[t]
  BY FinalStep
<1>4. \A t \in Tasks :
        /\ IsFiniteSet(RecordedOf(t)) /\ Cardinality(RecordedOf(t)) \in Nat
        /\ tasks[t].attempts \in Nat /\ tasks'[t].attempts \in Nat
  <2>1. TypeOK'
    BY TypeStep
  <2>2. \A t \in Tasks : RecordedOf(t) \in SUBSET recorded
    BY DEF RecordedOf
  <2>3. \A t \in Tasks : IsFiniteSet(RecordedOf(t))
    BY <2>2, FS_Subset DEF AttemptsCounted
  <2>4. \A t \in Tasks : Cardinality(RecordedOf(t)) \in Nat
    BY <2>3, FS_CardinalityType
  <2> QED BY <2>1, <2>3, <2>4 DEF TypeOK, Task
<1>5. ASSUME recorded' = recorded PROVE StepDispatchedOnce' /\ AttemptsCounted'
  <2>1. StepDispatchedOnce'
    BY <1>1, <1>5 DEF StepDispatchedOnce, SameStep
  <2>2. ASSUME NEW t \in Tasks PROVE Cardinality(RecordedOf(t)') <= tasks'[t].attempts
    <3>1. RecordedOf(t)' = RecordedOf(t)
      BY <1>1, <1>5 DEF RecordedOf
    <3>2. Cardinality(RecordedOf(t)) <= tasks[t].attempts
      BY DEF AttemptsCounted
    <3>3. CASE tasks[t].phase # "none"
      <4>1. tasks[t].attempts <= tasks'[t].attempts
        BY <1>2, <3>3
      <4> QED BY <1>4, <3>1, <3>2, <4>1
    <3>4. CASE tasks[t].phase = "none"
      <4>1. RecordedOf(t) = {}
        BY <3>4 DEF RecordedOf, IntentsKept
      <4>2. Cardinality(RecordedOf(t)') = 0
        BY <3>1, <4>1, FS_EmptySet
      <4> QED BY <1>4, <4>2
    <3> QED BY <3>3, <3>4
  <2> QED BY <1>2, <1>5, <2>1, <2>2 DEF AttemptsCounted
<1>6. ASSUME NEW c \in Calls, Record(c)
      PROVE  IntentsKept' /\ StepDispatchedOnce' /\ AttemptsCounted'
  <2> DEFINE t == prepared[c].hand.task
  <2>1. t \in Tasks /\ tasks[t].phase = "running"
    BY <1>6, RecordFacts
  <2>2. /\ ~Dispatched(c) /\ prepared' = prepared
        /\ intents' = intents \cup {c} /\ recorded' = recorded \cup {c}
    BY <1>6 DEF Record
  <2>3. IntentsKept'
    BY <1>2, <1>3, <2>1, <2>2 DEF IntentsKept
  <2>4. \A d \in recorded : ~SameStep(c, d) /\ ~SameStep(d, c)
    <3>1. \A d \in intents : ~SameStep(c, d) /\ ~SameStep(d, c)
      BY <2>2 DEF Dispatched, SameStep
    <3>2. \A d \in recorded \ intents : prepared[d].hand.task # t
      BY <2>1 DEF IntentsKept, Ended
    <3> QED BY <3>1, <3>2 DEF SameStep
  <2>5. StepDispatchedOnce'
    BY <2>2, <2>4 DEF StepDispatchedOnce, SameStep
  <2>6. ASSUME NEW u \in Tasks PROVE Cardinality(RecordedOf(u)') <= tasks'[u].attempts
    <3>1. Cardinality(RecordedOf(u)) <= tasks[u].attempts
      BY DEF AttemptsCounted
    <3>2. CASE u = t
      <4>1. RecordedOf(u)' = RecordedOf(u) \cup {c}
        BY <2>2, <3>2 DEF RecordedOf
      <4>2. Cardinality(RecordedOf(u) \cup {c}) <= Cardinality(RecordedOf(u)) + 1
        <5>1. IsFiniteSet(RecordedOf(u)) /\ Cardinality(RecordedOf(u)) \in Nat
          BY <1>4
        <5>2. \/ Cardinality(RecordedOf(u) \cup {c}) = Cardinality(RecordedOf(u))
              \/ Cardinality(RecordedOf(u) \cup {c}) = Cardinality(RecordedOf(u)) + 1
          BY <5>1, FS_AddElement
        <5> QED BY <5>1, <5>2
      <4>3. PICK e \in Task : Save(t, e) /\ e.revision > 0
                              /\ e.attempts = tasks[t].attempts + 1
        BY <1>6, RecordFacts
      <4>4. tasks'[t] = e
        BY <2>1, <4>3, SaveFacts
      <4>5. Cardinality(RecordedOf(u) \cup {c}) \in Nat
        BY <1>4, FS_AddElement, FS_CardinalityType
      <4> QED BY <1>4, <3>1, <3>2, <4>1, <4>2, <4>3, <4>4, <4>5
    <3>3. CASE u # t
      <4>1. RecordedOf(u)' = RecordedOf(u)
        BY <2>2, <3>3 DEF RecordedOf
      <4>2. tasks'[u] = tasks[u]
        BY <1>6, <3>3 DEF Record, Save, TypeOK
      <4> QED BY <3>1, <4>1, <4>2
    <3> QED BY <3>2, <3>3
  <2>7. IsFiniteSet(recorded')
    BY <2>2, FS_AddElement DEF AttemptsCounted
  <2> QED BY <1>2, <2>3, <2>5, <2>6, <2>7 DEF AttemptsCounted
<1>7. ASSUME Prune PROVE IntentsKept' /\ recorded' = recorded
  <2>1. /\ recorded' = recorded /\ prepared' = prepared /\ tasks' = tasks
        /\ intents' = {c \in intents : Expired(prepared[c].hand.task) => Uncertain(c)}
    BY <1>7 DEF Prune, history
  <2>2. \A c \in recorded \ intents' :
          c \notin intents \/ tasks[prepared[c].hand.task].phase \in Ended
    BY <2>1 DEF Expired
  <2> QED BY <2>1, <2>2 DEF IntentsKept
<1>8. ASSUME UNCHANGED <<intents, recorded>> PROVE IntentsKept'
  BY <1>1, <1>2, <1>3, <1>8 DEF IntentsKept
<1> QED
  BY <1>5, <1>6, <1>7, <1>8, DispatchCases

LEMMA ReceiptStep ==
  ASSUME TypeOK, ReceiptsTrue, [Next]_vars
  PROVE  ReceiptsTrue'
<1>1. ASSUME NEW c \in Calls, Perform(c) PROVE ReceiptsTrue'
  BY <1>1 DEF Perform, tables, ReceiptsTrue
<1>2. ASSUME NEW c \in Calls, Conclude(c) PROVE ReceiptsTrue'
  <2>1. receipt' = receipt /\ effects' = effects /\ \A d \in Calls : d # c => final'[d] = final[d]
    BY <1>2 DEF Conclude, tables, history, TypeOK
  <2>2. receipt[c] = "none"
    BY <1>2 DEF Conclude, ReceiptsTrue, TypeOK, Receipts
  <2>3. /\ final'[c] = "verified" => c \in effects
        /\ final'[c] \in {"untouched", "satisfied"} => c \notin effects
    BY <1>2 DEF Conclude, TypeOK
  <2> QED BY <2>1, <2>2, <2>3 DEF ReceiptsTrue
<1>3. ASSUME NEW c \in Calls, Settle(c) PROVE ReceiptsTrue'
  BY <1>3 DEF Settle, history, ReceiptsTrue, TypeOK
<1>4. ASSUME UNCHANGED <<receipt, final, effects>> PROVE ReceiptsTrue'
  BY <1>4 DEF ReceiptsTrue
<1>5. ASSUME NEW t \in Tasks, Admit(t) \/ Cancel(t) PROVE UNCHANGED <<receipt, final, effects>>
  BY <1>5 DEF Admit, Cancel, history
<1>6. ASSUME NEW w \in Workers, Store(w) PROVE UNCHANGED <<receipt, final, effects>>
  BY <1>6 DEF Store, Read, Claim, Advance, Prepare, tables, history
<1>7. ASSUME NEW c \in Calls, Record(c) PROVE UNCHANGED <<receipt, final, effects>>
  BY <1>7 DEF Record
<1>8. ASSUME Prune \/ Tick \/ SetBack \/ UNCHANGED vars
      PROVE  UNCHANGED <<receipt, final, effects>>
  BY <1>8 DEF Prune, Tick, SetBack, vars, tables, history
<1> QED
  BY <1>1, <1>2, <1>3, <1>4, <1>5, <1>6, <1>7, <1>8 DEF Next, Runtime

-----------------------------------------------------------------------------
(* The theorems.                                                           *)

LEMMA InitInv == ASSUME Init PROVE IInv
<1>1. TypeOK
  BY TypeInit
<1>2. RowIsNewest /\ Claimed /\ ResumedByHolder
  BY TabOfType, NoTaskFresh
  DEF Init, NewTask, NoLease, RowIsNewest, Claimed, ResumedByHolder
<1>3. IntentsKept /\ StepDispatchedOnce
  BY DEF Init, IntentsKept, StepDispatchedOnce
<1>4. AttemptsCounted
  <2>1. recorded = {} /\ \A t \in Tasks : RecordedOf(t) = {} /\ tasks[t].attempts = 0
    BY DEF Init, NewTask, RecordedOf
  <2>2. Cardinality({}) = 0 /\ IsFiniteSet({}) /\ 0 <= AttemptLimit
    BY FS_EmptySet, NumbersAreNatural
  <2> QED BY <2>1, <2>2 DEF AttemptsCounted
<1>5. ReceiptsTrue
  BY DEF Init, ReceiptsTrue
<1>6. RanAdmitted /\ TimeIsAccounted
  BY DEF Init, NewTask, RanAdmitted, TimeIsAccounted, Active
<1> QED
  BY <1>1, <1>2, <1>3, <1>4, <1>5, <1>6 DEF IInv

LEMMA StepInv == ASSUME IInv, [Next]_vars PROVE IInv'
BY TypeStep, TimeStep, RowStep, ResumeStep, DispatchStep, ReceiptStep DEF IInv

\* The inductive invariant of the task store.
THEOREM Invariance == Spec => []IInv
BY InitInv, StepInv, PTL DEF Spec

\* The tables, the hands of the workers and the contexts of the calls keep their
\* types: clocks, budgets and leases stay in their ranges in every step of the
\* store.
THEOREM TypeCorrect == Spec => []TypeOK
<1>1. IInv => TypeOK
  BY DEF IInv
<1> QED
  BY <1>1, Invariance, PTL

\* assertFence(): whoever passes it holds the newest lease of the tab, however the
\* clock was moved.
THEOREM Authority == Spec => []AuthorityIsNewest
<1>1. IInv => AuthorityIsNewest
  <2>1. SUFFICES ASSUME IInv,
                        NEW h \in {hand[w] : w \in Workers} \cup {prepared[c].hand : c \in Calls},
                        Fence(h)
                 PROVE  h.lease = newest[TabOf[h.task]]
    BY DEF AuthorityIsNewest
  <2>2. /\ h.task \in Tasks /\ leases[TabOf[h.task]].task = h.task
        /\ leases[TabOf[h.task]].lease = h.lease
    BY <2>1 DEF Fence
  <2> QED BY <2>1, <2>2, TabOfType, NoTaskFresh DEF IInv, RowIsNewest
<1> QED
  BY <1>1, Invariance, PTL

\* claim(): a reclaimed task runs only after its new holder resumed it.
THEOREM Resumption == Spec => []ResumedByHolder
<1>1. IInv => ResumedByHolder
  BY DEF IInv
<1> QED
  BY <1>1, Invariance, PTL

\* account(): as long as the clock never went back, the active budget of a task
\* knows every moment it ran.
THEOREM TimeKept == Spec => []TimeIsAccounted
<1>1. IInv => TimeIsAccounted
  BY DEF IInv
<1> QED
  BY <1>1, Invariance, PTL

\* cancel(), reduceTask() and record(): nothing writes an ended task, and no
\* dispatch is recorded for it.
THEOREM Finality == Spec => TerminalIsFinal
<1>1. IInv /\ [Next]_vars =>
        [\A t \in Tasks : tasks[t].phase \in Ended =>
           /\ tasks'[t] = tasks[t]
           /\ \A c \in recorded' \ recorded : prepared[c].hand.task # t]_vars
  BY FinalStep DEF IInv
<1> QED
  BY <1>1, Invariance, PTL DEF Spec, TerminalIsFinal

\* record(): two calls never dispatch the same step of a task, whatever workers
\* and leases prepared them, and whatever retention deleted.
THEOREM DispatchedOnce == Spec => []StepDispatchedOnce
<1>1. IInv => StepDispatchedOnce
  BY DEF IInv
<1> QED
  BY <1>1, Invariance, PTL

\* account(): the dispatches of a task stay within its attempt budget.
THEOREM BudgetHolds == Spec => []DispatchesBounded
<1>1. IInv => DispatchesBounded
  <2>1. SUFFICES ASSUME IInv, NEW t \in Tasks
                 PROVE  Cardinality({c \in recorded : prepared[c].hand.task = t}) <= AttemptLimit
    BY DEF DispatchesBounded
  <2>2. Cardinality(RecordedOf(t)) <= tasks[t].attempts /\ tasks[t].attempts <= AttemptLimit
        /\ IsFiniteSet(recorded)
    BY <2>1 DEF IInv, AttemptsCounted
  <2>3. IsFiniteSet(RecordedOf(t))
    <3>1. RecordedOf(t) \in SUBSET recorded
      BY DEF RecordedOf
    <3> QED BY <2>2, <3>1, FS_Subset
  <2>4. Cardinality(RecordedOf(t)) \in Nat /\ tasks[t].attempts \in Nat
    BY <2>1, <2>3, FS_CardinalityType DEF IInv, TypeOK, Task
  <2>5. RecordedOf(t) = {c \in recorded : prepared[c].hand.task = t}
    BY DEF RecordedOf
  <2> QED BY <2>2, <2>4, <2>5, NumbersAreNatural
<1> QED
  BY <1>1, Invariance, PTL

\* resumeTaskHistory(): when it calls no dispatch of a task unknown, no intent is
\* missing, and every recorded call ended as its receipt says.
THEOREM CertaintyIsTrue == Spec => []NoFalseCertainty
<1>1. IInv => NoFalseCertainty
  <2>1. SUFFICES ASSUME IInv, NEW t \in Tasks, ~Unknown(t),
                        NEW c \in recorded, prepared[c].hand.task = t
                 PROVE  final[c] = IF c \in effects THEN "verified" ELSE "untouched"
    BY DEF NoFalseCertainty
  <2>2. IsFiniteSet(RecordedOf(t)) /\ IntentsOf(t) \in SUBSET RecordedOf(t)
    <3>1. RecordedOf(t) \in SUBSET recorded /\ IsFiniteSet(recorded)
      BY <2>1 DEF RecordedOf, IInv, AttemptsCounted
    <3>2. IsFiniteSet(RecordedOf(t))
      BY <3>1, FS_Subset
    <3>3. IntentsOf(t) \in SUBSET RecordedOf(t)
      BY <2>1 DEF IntentsOf, RecordedOf, IInv, IntentsKept
    <3> QED BY <3>2, <3>3
  <2>3. Cardinality(IntentsOf(t)) <= Cardinality(RecordedOf(t))
        /\ IsFiniteSet(IntentsOf(t))
        /\ (Cardinality(RecordedOf(t)) = Cardinality(IntentsOf(t)) =>
              RecordedOf(t) = IntentsOf(t))
    BY <2>2, FS_Subset
  <2>4. /\ Cardinality(IntentsOf(t)) \in Nat /\ Cardinality(RecordedOf(t)) \in Nat
        /\ tasks[t].attempts \in Nat
    BY <2>1, <2>2, <2>3, FS_CardinalityType DEF IInv, TypeOK, Task
  <2>5. Cardinality(RecordedOf(t)) <= tasks[t].attempts
        /\ ~(tasks[t].attempts > Cardinality(IntentsOf(t)))
    BY <2>1 DEF Unknown, IInv, AttemptsCounted
  <2>6. Cardinality(RecordedOf(t)) = Cardinality(IntentsOf(t))
    BY <2>3, <2>4, <2>5
  <2>7. c \in IntentsOf(t)
    BY <2>1, <2>3, <2>6 DEF RecordedOf
  <2>8. receipt[c] \in {"verified", "untouched"}
    BY <2>1, <2>7 DEF Unknown, Uncertain
  <2>9. c \in Calls
    BY <2>1 DEF IInv, TypeOK
  <2> QED BY <2>1, <2>8, <2>9 DEF IInv, ReceiptsTrue
<1> QED
  BY <1>1, Invariance, PTL

-----------------------------------------------------------------------------
(* The dispatch promise.                                                   *)

\* A call that reached the page was recorded.
EffectsRecorded == effects \in SUBSET recorded
\* A worker holds a row of a task, or nothing.
HandsOfTasks == \A w \in Workers : hand[w].task \in Tasks \/ hand[w] = NoHand

LEMMA PromiseFactsStep ==
  ASSUME TypeOK, EffectsRecorded, HandsOfTasks, [Next]_vars
  PROVE  EffectsRecorded' /\ HandsOfTasks'
<1>1. ASSUME NEW t \in Tasks, Admit(t) \/ Cancel(t)
      PROVE  UNCHANGED <<hand, effects, recorded>>
  BY <1>1 DEF Admit, Cancel, history
<1>2. ASSUME NEW w \in Workers, Store(w)
      PROVE  UNCHANGED <<effects, recorded>> /\ HandsOfTasks'
  <2>1. ASSUME NEW t \in Tasks, Read(w, t)
        PROVE  UNCHANGED <<effects, recorded>> /\ HandsOfTasks'
    BY <2>1 DEF Read, history, HandsOfTasks, HandOf, TypeOK
  <2>2. ASSUME NEW t \in Tasks, NEW ttl \in 1 .. MaxTtl, Claim(w, t, ttl)
        PROVE  UNCHANGED <<effects, recorded>> /\ HandsOfTasks'
    BY <2>2 DEF Claim, HandsOfTasks, HandOf, TypeOK
  <2>3. ASSUME NEW event \in Events, NEW tries \in 0 .. 1, Advance(w, event, tries)
        PROVE  UNCHANGED <<effects, recorded>> /\ HandsOfTasks'
    BY <2>3 DEF Advance, Fence, HandsOfTasks, HandOf, TypeOK
  <2>4. ASSUME NEW c \in Calls, NEW s \in Steps, Prepare(w, c, s)
        PROVE  UNCHANGED <<effects, recorded>> /\ HandsOfTasks'
    BY <2>4 DEF Prepare, history, HandsOfTasks
  <2> QED BY <1>2, <2>1, <2>2, <2>3, <2>4 DEF Store
<1>3. ASSUME NEW c \in Calls, Runtime(c) PROVE hand' = hand /\ EffectsRecorded'
  BY <1>3 DEF Runtime, Record, Perform, Conclude, Settle, tables, history, EffectsRecorded
<1>4. ASSUME Prune \/ Tick \/ SetBack \/ UNCHANGED vars
      PROVE  UNCHANGED <<hand, effects, recorded>>
  BY <1>4 DEF Prune, Tick, SetBack, vars, tables, history
<1> QED
  BY <1>1, <1>2, <1>3, <1>4 DEF Next, EffectsRecorded, HandsOfTasks

LEMMA PromiseFacts == Spec => [](EffectsRecorded /\ HandsOfTasks)
<1>1. Init => EffectsRecorded /\ HandsOfTasks
  BY DEF Init, EffectsRecorded, HandsOfTasks
<1>2. IInv => TypeOK
  BY DEF IInv
<1> QED
  BY <1>1, <1>2, PromiseFactsStep, Invariance, PTL DEF Spec

PromisedStep(c) == <<prepared[c].hand.task, prepared[c].step>>

\* Only Prepare, Perform and Conclude change what the promise speaks of.
LEMMA PromiseCases ==
  ASSUME [Next]_vars
  PROVE  \/ \E w \in Workers, c \in Calls, s \in Steps : Prepare(w, c, s)
         \/ \E c \in Calls : Perform(c) \/ Conclude(c)
         \/ UNCHANGED <<prepared, effects, final>>
<1>1. ASSUME NEW t \in Tasks, Admit(t) \/ Cancel(t)
      PROVE  UNCHANGED <<prepared, effects, final>>
  BY <1>1 DEF Admit, Cancel, history
<1>2. ASSUME NEW w \in Workers, Store(w)
      PROVE  \/ \E c \in Calls, s \in Steps : Prepare(w, c, s)
             \/ UNCHANGED <<prepared, effects, final>>
  BY <1>2 DEF Store, Read, Claim, Advance, tables, history
<1>3. ASSUME NEW c \in Calls, Record(c) \/ Settle(c)
      PROVE  UNCHANGED <<prepared, effects, final>>
  BY <1>3 DEF Record, Settle, tables, history
<1>4. ASSUME Prune \/ Tick \/ SetBack \/ UNCHANGED vars
      PROVE  UNCHANGED <<prepared, effects, final>>
  BY <1>4 DEF Prune, Tick, SetBack, vars, tables, history
<1> QED
  BY <1>1, <1>2, <1>3, <1>4 DEF Next, Runtime

\* A prepared step is one of a task: the worker's hand holds a running lease.
LEMMA PreparePromise ==
  ASSUME TypeOK, IntentsKept, EffectsRecorded,
         NEW w \in Workers, NEW c \in Calls, NEW s \in Steps, Prepare(w, c, s),
         HandsOfTasks
  PROVE  Promise!Next
<1>1. prepared[c] = NoCall /\ hand[w].task \in Tasks
  BY DEF Prepare, HandsOfTasks, TypeOK, NoHand
<1>2. c \notin effects
  BY <1>1, NoTaskFresh DEF IntentsKept, EffectsRecorded, NoCall, NoHand
<1>3. prepared' = [prepared EXCEPT ![c] = [hand |-> hand[w], step |-> s]]
      /\ effects' = effects /\ final' = final
  BY DEF Prepare, history
<1>4. PromisedStep(c) = <<NoTask, "none">>
  BY <1>1 DEF PromisedStep, NoCall, NoHand
<1>5. [d \in Calls |-> <<prepared'[d].hand.task, prepared'[d].step>>] =
        [[d \in Calls |-> <<prepared[d].hand.task, prepared[d].step>>] EXCEPT
           ![c] = <<hand[w].task, s>>]
  BY <1>3 DEF TypeOK
<1>6. Promise!Assign(c, <<hand[w].task, s>>)
  BY <1>1, <1>2, <1>3, <1>4, <1>5 DEF Promise!Assign, PromisedStep
<1>7. <<hand[w].task, s>> \in Tasks \X Steps
  BY <1>1
<1> QED
  BY <1>6, <1>7 DEF Promise!Next, Promise!Assign

LEMMA PerformPromise ==
  ASSUME TypeOK, StepDispatchedOnce, EffectsRecorded, NEW c \in Calls, Perform(c)
  PROVE  Promise!Act(c)
<1>1. final[c] \notin {"untouched", "satisfied"} /\ effects' = effects \cup {c}
      /\ prepared' = prepared /\ final' = final /\ c \in recorded
  BY DEF Perform, tables
<1>2. ASSUME NEW d \in effects, PromisedStep(d) = PromisedStep(c) PROVE d = c
  BY <1>1, <1>2 DEF StepDispatchedOnce, SameStep, EffectsRecorded, PromisedStep
<1>3. effects \in SUBSET Calls
  BY DEF TypeOK
<1> QED
  BY <1>1, <1>2, <1>3 DEF Promise!Act, PromisedStep

LEMMA ConcludePromise ==
  ASSUME TypeOK, NEW c \in Calls, Conclude(c)
  PROVE  \E v \in {"verified"} \cup {"untouched", "satisfied"} \cup {"uncertain"} :
           Promise!Judge(c, v)
<1>1. PICK r \in Receipts :
        /\ r = "verified" => c \in effects
        /\ r \in {"untouched", "satisfied"} => c \notin effects
        /\ final' = [final EXCEPT ![c] = r]
  BY DEF Conclude
<1>2. final[c] = "open" /\ effects' = effects /\ prepared' = prepared
  BY DEF Conclude, tables, history
<1> QED
  BY <1>1, <1>2 DEF Promise!Judge, Receipts

\* The store and the runtimes that call it keep the dispatch promise: a step of a
\* task reaches the page through one call, whose receipt is true for ever.
THEOREM PromiseKept == Spec => KeepsPromise
<1>1. Init => Promise!Init
  BY DEF Init, NoCall, NoHand, Promise!Init
<1>2. ASSUME IInv, EffectsRecorded, HandsOfTasks, [Next]_vars
      PROVE  [Promise!Next]_(Promise!vars)
  <2>1. ASSUME NEW w \in Workers, NEW c \in Calls, NEW s \in Steps, Prepare(w, c, s)
        PROVE  Promise!Next
    <3>1. TypeOK /\ IntentsKept
      BY <1>2 DEF IInv
    <3> QED BY <1>2, <2>1, <3>1, PreparePromise
  <2>2. ASSUME NEW c \in Calls, Perform(c) PROVE Promise!Next
    BY <1>2, <2>2, PerformPromise DEF Promise!Next, IInv
  <2>3. ASSUME NEW c \in Calls, Conclude(c) PROVE Promise!Next
    BY <1>2, <2>3, ConcludePromise DEF Promise!Next, IInv
  <2>4. ASSUME UNCHANGED <<prepared, effects, final>> PROVE UNCHANGED Promise!vars
    BY <2>4 DEF Promise!vars
  <2> QED
    BY <1>2, <2>1, <2>2, <2>3, <2>4, PromiseCases
<1> QED
  BY <1>1, <1>2, Invariance, PromiseFacts, PTL DEF Spec, KeepsPromise, Promise!Spec

-----------------------------------------------------------------------------
(* The history a reader follows.                                           *)

\* The events of a task are of its revisions.
LogWithin ==
  \A t \in Tasks :
    /\ \A i \in log[t] : i <= tasks[t].revision
    /\ tasks[t].phase = "none" => tasks[t].revision = 0

\* A saved row has one revision more than the row before.
LEMMA SaveLog ==
  ASSUME TypeOK, LogWithin, NEW t \in Tasks, NEW e \in Task, Save(t, e),
         tasks[t].revision < e.revision, e.phase # "none"
  PROVE  LogWithin'
<1>1. /\ tasks' = [tasks EXCEPT ![t] = e] /\ log' = [log EXCEPT ![t] = log[t] \cup {e.revision}]
      /\ tasks \in [Tasks -> Task] /\ log \in [Tasks -> SUBSET (1 .. MaxRevision)]
  BY DEF Save, TypeOK
<1>2. e.revision \in Nat /\ tasks[t].revision \in Nat
  BY <1>1 DEF Task
<1>3. \A i \in log[t] : i \in Nat /\ i <= tasks[t].revision
  BY <1>1, NumbersAreNatural DEF LogWithin
<1>4. \A i \in log'[t] : i <= e.revision
  BY <1>1, <1>2, <1>3
<1>5. tasks'[t] = e /\ \A u \in Tasks : u # t => tasks'[u] = tasks[u] /\ log'[u] = log[u]
  BY <1>1
<1> QED BY <1>4, <1>5 DEF LogWithin

LEMMA LogStep == ASSUME TypeOK, LogWithin, [Next]_vars PROVE LogWithin'
<1>1. ASSUME NEW t \in Tasks, Admit(t) PROVE LogWithin'
  <2>1. PICK e \in Task : Save(t, e) /\ e.revision > 0 /\ e.phase = "accepted"
    BY <1>1, AdmitFacts
  <2>2. tasks[t].revision = 0
    BY <1>1 DEF Admit, LogWithin
  <2> QED BY <2>1, <2>2, SaveLog
<1>2. ASSUME NEW t \in Tasks, Cancel(t) PROVE LogWithin'
  <2>1. PICK e \in Task : Save(t, e) /\ e.phase = "cancelled"
    BY <1>2, CancelFacts
  <2>2. tasks[t] \in Task /\ tasks'[t] = e /\ tasks'[t].revision = tasks[t].revision + 1
    BY <1>2, <2>1 DEF Cancel, Save, TypeOK, Task
  <2>3. tasks[t].revision < e.revision
    BY <2>2 DEF Task
  <2> QED BY <2>1, <2>3, SaveLog
<1>3. ASSUME NEW w \in Workers, NEW t \in Tasks, NEW ttl \in 1 .. MaxTtl, Claim(w, t, ttl)
      PROVE  LogWithin'
  <2>1. PICK e \in Task : Save(t, e)
    BY <1>3, ClaimFacts, Zenon
  <2>2. e.phase # "none"
    <3>1. tasks'[t] = e /\ tasks'[t].phase = Reclaimed(tasks[t])
      BY <1>3, <2>1, ClaimKeeps DEF Save, TypeOK
    <3> QED BY <1>3, <3>1 DEF Claim, Live, Active, Reclaimed
  <2>3. Accounted(tasks[t], 0) \in Task /\ Accounted(tasks[t], 0).revision = tasks[t].revision
    BY <1>3, AccountedFacts DEF Claim
  <2>4. tasks'[t].revision = tasks[t].revision + 1
    <3> DEFINE a == Accounted(tasks[t], 0)
    <3>1. a \in Task /\ a.revision = tasks[t].revision
      BY <2>3
    <3>2. tasks' = [tasks EXCEPT ![t] =
                      [a EXCEPT !.epoch = a.epoch + 1, !.revision = a.revision + 1,
                         !.lease = granted + 1, !.leaseUntil = Smaller(now + ttl, Deadline[t]),
                         !.phase = Reclaimed(tasks[t])]]
      BY <1>3 DEF Claim, Save
    <3> HIDE DEF a
    <3> QED BY <3>1, <3>2 DEF TypeOK, Task
  <2>5. tasks'[t] = e /\ tasks[t].revision \in Nat
    BY <2>1 DEF Save, TypeOK, Task
  <2> QED BY <2>1, <2>2, <2>4, <2>5, SaveLog
<1>4. ASSUME NEW w \in Workers, NEW event \in Events, NEW tries \in 0 .. 1, Advance(w, event, tries)
      PROVE  LogWithin'
  <2> DEFINE t == hand[w].task
  <2>1. t \in Tasks /\ tasks[t].phase \in From(event)
    BY <1>4, AdvanceFacts
  <2>2. PICK e \in Task : Save(t, e) /\ e.phase = To(event, tasks[t].phase)
    BY <1>4, AdvanceFacts
  <2>3. e.phase # "none"
    BY <2>1, <2>2 DEF From, To, Events, Active, Ended
  <2>4. tasks'[t].revision = tasks[t].revision + 1
    <3> DEFINE a == Accounted(tasks[t], tries)
    <3>1. a \in Task /\ a.revision = tasks[t].revision
      BY <1>4, <2>1, AccountedFacts DEF Advance
    <3>2. tasks' = [tasks EXCEPT ![t] =
                      [a EXCEPT !.phase = To(event, a.phase), !.revision = a.revision + 1,
                         !.terminalAt = IF event \in Ended THEN now ELSE a.terminalAt]]
      BY <1>4 DEF Advance, Save, Reduced
    <3> HIDE DEF a
    <3> QED BY <2>1, <3>1, <3>2 DEF TypeOK, Task
  <2>5. tasks'[t] = e /\ tasks[t].revision \in Nat
    BY <2>1, <2>2 DEF Save, TypeOK, Task
  <2> HIDE DEF t
  <2> QED BY <2>1, <2>2, <2>3, <2>4, <2>5, SaveLog
<1>5. ASSUME NEW c \in Calls, Record(c) PROVE LogWithin'
  <2> DEFINE t == prepared[c].hand.task
  <2>1. t \in Tasks
    BY <1>5, RecordFacts
  <2>2. PICK e \in Task : Save(t, e) /\ e.phase = "running"
    BY <1>5, RecordFacts
  <2>4. tasks'[t].revision = tasks[t].revision + 1
    <3> DEFINE a == Accounted(tasks[t], 1)
    <3>1. a \in Task /\ a.revision = tasks[t].revision
      BY <1>5, <2>1, AccountedFacts DEF Record
    <3>2. tasks' = [tasks EXCEPT ![t] = [a EXCEPT !.revision = a.revision + 1]]
      BY <1>5 DEF Record, Save
    <3> HIDE DEF a
    <3> QED BY <2>1, <3>1, <3>2 DEF TypeOK, Task
  <2>5. tasks'[t] = e /\ tasks[t].revision \in Nat
    BY <2>1, <2>2 DEF Save, TypeOK, Task
  <2> HIDE DEF t
  <2> QED BY <2>1, <2>2, <2>4, <2>5, SaveLog
<1>6. CASE Prune
  <2>1. tasks' = tasks /\ \A t \in Tasks : log'[t] \subseteq log[t]
    BY <1>6 DEF Prune
  <2> QED BY <2>1 DEF LogWithin
<1>7. CASE UNCHANGED <<tasks, log>>
  BY <1>7 DEF LogWithin
<1> QED
  BY <1>1, <1>2, <1>3, <1>4, <1>5, <1>6, <1>7
  DEF Next, Store, Runtime, vars, tables, Read, Prepare, Perform, Conclude, Settle, Tick, SetBack

\* The first numbers of an interval.
LEMMA FirstOfInterval ==
  ASSUME NEW a \in Nat, NEW b \in Nat, NEW n \in Nat \ {0}
  PROVE  First((a + 1) .. b, n) = (a + 1) .. Smaller(b, a + n)
<1>1. ASSUME NEW i \in (a + 1) .. b
      PROVE  Cardinality({j \in (a + 1) .. b : j < i}) = i - (a + 1)
  <2>1. {j \in (a + 1) .. b : j < i} = (a + 1) .. (i - 1)
    OBVIOUS
  <2>2. Cardinality((a + 1) .. (i - 1)) = i - (a + 1)
    BY FS_Interval
  <2> QED BY <2>1, <2>2
<1>2. First((a + 1) .. b, n) = {i \in (a + 1) .. b : i - (a + 1) < n}
  BY <1>1 DEF First
<1>3. {i \in (a + 1) .. b : i - (a + 1) < n} = (a + 1) .. Smaller(b, a + n)
  BY DEF Smaller
<1> QED BY <1>2, <1>3

LEMMA ReplayOfLog ==
  ASSUME TypeOK, LogWithin, NEW t \in Tasks, NEW after \in 0 .. tasks[t].revision
  PROVE  LET r == Replay(t, after) IN
         /\ ~r.resync => r.events = (after + 1) .. r.cursor
         /\ r.more \/ r.cursor = tasks[t].revision
         /\ r.cursor > after \/ after = tasks[t].revision
<1> DEFINE R == tasks[t].revision
           rows == First({i \in log[t] : after < i}, PageSize)
           size == Cardinality(rows)
           reached == after + size
           resync == \/ rows # (after + 1) .. reached
                     \/ reached < R /\ size < PageSize
           told == IF resync THEN {} ELSE First(rows, WireSize)
           cursor == IF resync THEN R ELSE after + Cardinality(told)
           last == Smaller(reached, after + WireSize)
           r == Replay(t, after)
<1>1. /\ r.resync = resync /\ r.events = told /\ r.cursor = cursor
      /\ r.more = (~resync /\ cursor < R)
  BY DEF Replay, Covered
<1>2. R \in Nat /\ after \in Nat /\ after <= R
  BY DEF TypeOK, Task
<1>3. rows \subseteq log[t]
  BY DEF First
<1>4. size \in Nat
  <2>1. log[t] \subseteq 1 .. MaxRevision /\ IsFiniteSet(1 .. MaxRevision)
    <3>1. 1 \in Int /\ MaxRevision \in Int
      BY NumbersAreNatural
    <3>2. IsFiniteSet(1 .. MaxRevision)
      BY <3>1, FS_Interval
    <3> QED BY <3>2 DEF TypeOK
  <2>2. IsFiniteSet(rows)
    BY <1>3, <2>1, FS_Subset
  <2> QED BY <2>2, FS_CardinalityType
<1>5. \A i \in rows : i <= R
  BY <1>3 DEF LogWithin
<1> HIDE DEF rows, size, r, R
<1>6. CASE resync
  <2>1. cursor = R
    BY <1>6
  <2> HIDE DEF cursor, told, resync
  <2> QED BY <1>1, <1>2, <1>6, <2>1 DEF R, r
<1>7. CASE ~resync
  <2>1. rows = (after + 1) .. reached /\ (reached >= R \/ size >= PageSize)
    BY <1>2, <1>4, <1>7, NumbersAreNatural
  <2>2. size > 0 => reached <= R
    BY <1>2, <1>4, <1>5, <2>1
  <2>3. size > 0 \/ after = R
    BY <1>2, <1>4, <2>1, NumbersAreNatural
  <2>4. reached <= R
    BY <1>2, <1>4, <2>2
  <2>5. told = (after + 1) .. last
    BY <1>2, <1>4, <1>7, <2>1, FirstOfInterval, NumbersAreNatural
  <2>6. last \in Nat /\ after <= last /\ last <= R /\ (size > 0 => last > after)
    BY <1>2, <1>4, <2>4, NumbersAreNatural DEF Smaller
  <2>7. cursor = last
    <3>1. Cardinality((after + 1) .. last) = last - after
      <4>1. after + 1 \in Int /\ last \in Int
        BY <1>2, <2>6
      <4> HIDE DEF last
      <4>2. Cardinality((after + 1) .. last) = IF after + 1 > last THEN 0 ELSE last - (after + 1) + 1
        BY <4>1, FS_Interval
      <4> QED BY <1>2, <2>6, <4>2
    <3> QED BY <1>2, <1>7, <2>5, <2>6, <3>1
  <2> HIDE DEF told, cursor, last, resync, reached
  <2>8. r.events = (after + 1) .. r.cursor
    BY <1>1, <2>5, <2>7
  <2>9. r.more \/ r.cursor = R
    <3>1. cursor < R \/ cursor = R
      BY <1>2, <2>6, <2>7
    <3> QED BY <1>1, <1>7, <3>1, Zenon
  <2>10. r.cursor > after \/ after = R
    BY <1>1, <2>3, <2>6, <2>7
  <2> QED BY <2>8, <2>9, <2>10 DEF R, r
<1> QED BY <1>6, <1>7 DEF r, R

\* resumeTaskHistory(): whatever page and reply sizes, and whatever retention deleted, a
\* reader misses no event silently and is told when it is behind.
THEOREM ReplayComplete == Spec => []ReplayIsComplete
<1>1. TypeOK /\ LogWithin => ReplayIsComplete
  BY ReplayOfLog DEF ReplayIsComplete
<1>2. Init => LogWithin
  BY DEF Init, LogWithin, NewTask
<1>3. TypeOK /\ LogWithin /\ [Next]_vars => LogWithin'
  BY LogStep
<1> QED BY <1>1, <1>2, <1>3, TypeCorrect, PTL DEF Spec

-----------------------------------------------------------------------------
(* The inductive invariant of the orchestration.                           *)

\* Every commit counts as a revision and a turn.
TurnsCounted ==
  /\ row.turns = row.revision /\ row.still <= row.revision
  /\ advances <= row.turns /\ advances <= MaxTurns

\* A row that was not admitted is canonical, and nobody has loaded it.
UnadmittedIsNew ==
  row.phase = "none" => row = Plan!NoState /\ \A w \in Workers : worker[w].view.phase = "none"

\* A loaded state with the revision of the row is the row.
ViewIsHistory ==
  \A w \in Workers :
    /\ worker[w].view.revision <= row.revision
    /\ worker[w].view.phase # "none" /\ worker[w].view.revision = row.revision =>
         worker[w].view = row

\* Outside of a dispatch, and of a suspension or an end that followed one, every
\* dispatched step was answered; in a dispatch all but the active one were.
DispatchedAnswered ==
  /\ row.phase \notin {"tool_execution"} \cup Plan!Interruptions => dispatched \subseteq answered
  /\ row.phase = "suspended" /\ row.resume # "tool_execution" => dispatched \subseteq answered
  /\ row.phase = "tool_execution" =>
       row.active \in PlanSteps /\ dispatched \subseteq answered \cup {row.active}

\* Only a completed task is verified, and it has no ambiguous step.
VerifiedIsCompleted ==
  /\ row.outcome = "VERIFIED" => row.phase = "completed"
  /\ row.phase = "completed" => row.ambiguous = {}

PlanInv ==
  /\ Plan!TypeOK /\ TurnsCounted /\ UnadmittedIsNew /\ ViewIsHistory
  /\ Plan!JournalIsWhole /\ DispatchedAnswered /\ VerifiedIsCompleted

-----------------------------------------------------------------------------
(* The steps of the orchestration.                                         *)

LEMMA PlanInit == ASSUME Plan!Init PROVE PlanInv
<1>0. Plan!NoState \in Plan!State
  BY PlanFits DEF Plan!ConstantsFit, Plan!NoState, Plan!State, Plan!Phases
<1>1. PICK w \in Workers :
        worker = [v \in Workers |-> [lease |-> IF v = w THEN 1 ELSE 0, view |-> Plan!NoState]]
  BY DEF Plan!Init
<1>2. /\ MaxTransitions \in Nat /\ MaxHolders \in Nat /\ MaxHolders # 0 /\ MaxTurns \in Nat
  BY PlanFits DEF Plan!ConstantsFit
<1>3. worker \in [Workers -> [lease : 0 .. MaxHolders, view : Plan!State]]
  BY <1>0, <1>1, <1>2
<1>4. Plan!TypeOK
  <2>1. events \in SUBSET (1 .. MaxTransitions) /\ lease \in 0 .. MaxHolders /\ advances \in 0 .. MaxTransitions
    BY <1>2 DEF Plan!Init
  <2>2. row \in Plan!State /\ overdue \in BOOLEAN
    BY <1>0 DEF Plan!Init
  <2>3. dispatched \in SUBSET PlanSteps /\ answered \in SUBSET PlanSteps
    BY DEF Plan!Init
  <2> QED BY <1>3, <2>1, <2>2, <2>3 DEF Plan!TypeOK
<1>5. TurnsCounted /\ UnadmittedIsNew /\ ViewIsHistory
  BY <1>1, <1>2 DEF TurnsCounted, UnadmittedIsNew, ViewIsHistory, Plan!Init, Plan!NoState
<1>6. Plan!JournalIsWhole /\ DispatchedAnswered /\ VerifiedIsCompleted
  BY DEF Plan!JournalIsWhole, DispatchedAnswered, VerifiedIsCompleted, Plan!Init, Plan!NoState
<1> QED BY <1>4, <1>5, <1>6 DEF PlanInv

\* The transitions.
Entries == UNION {Plan!Transition(next) : next \in Plan!Phases \ {"none", "admission"}}

LEMMA EntryType ==
  ASSUME NEW e \in Entries
  PROVE  /\ e.next \in Plan!Phases \ {"none", "admission"} /\ e.progress \in Digests
         /\ e.accepted \in BOOLEAN
         /\ e.step \in Plan!Receipts
<1>1. PICK next \in Plan!Phases \ {"none", "admission"} : e \in Plan!Transition(next)
  BY DEF Entries
<1>2. /\ e.next = next /\ e.progress \in Digests
      /\ e.step \in IF next \in {"tool_execution", "result_verification"} \cup Plan!Interruptions
                    THEN Plan!Receipts ELSE {Plan!NoReceipt}
      /\ e.accepted \in IF next = "completed" THEN BOOLEAN ELSE {FALSE}
  BY <1>1 DEF Plan!Transition
<1> QED BY <1>2 DEF Plan!Receipts

LEMMA StepType ==
  ASSUME NEW r \in Plan!Receipts
  PROVE  r.id \in PlanSteps \cup {NoStep} /\ r.status \in Plan!Statuses
BY DEF Plan!Receipts, Plan!NoReceipt, Plan!Statuses

\* What a worker loaded is what it reduces again in its commit.
LEMMA CommitOfRow ==
  ASSUME PlanInv, NEW w \in Workers, NEW e \in Entries, Plan!Commit(w, e)
  PROVE  /\ worker[w].view = row
         /\ Plan!Legal(row, e) /\ Plan!InBudget(row, e)
         /\ row' = Plan!Reduced(row, e)
<1>1. /\ Plan!Legal(worker[w].view, e) /\ Plan!InBudget(worker[w].view, e)
      /\ Plan!Reduced(row, e) = Plan!Reduced(worker[w].view, e)
      /\ row' = Plan!Reduced(row, e)
  BY DEF Plan!Commit, Plan!Committed
<1>2. row \in Plan!State /\ worker[w].view \in Plan!State
  BY DEF PlanInv, Plan!TypeOK
<1>3. row.revision + 1 = worker[w].view.revision + 1
  BY <1>1 DEF Plan!Reduced
<1>4. row.revision = worker[w].view.revision
  BY <1>2, <1>3, PlanFits DEF Plan!State, Plan!ConstantsFit
<1>5. worker[w].view.phase # "none"
  BY <1>1 DEF Plan!Legal
<1>6. worker[w].view = row
  BY <1>4, <1>5 DEF PlanInv, ViewIsHistory
<1> QED BY <1>1, <1>6

\* The reducer keeps the type of a state within the bound.
LEMMA ReducedType ==
  ASSUME PlanInv, NEW e \in Entries, row.revision < MaxTransitions
  PROVE  Plan!Reduced(row, e) \in Plan!State
<1>1. /\ row \in Plan!State /\ MaxTransitions \in Nat
      /\ row.turns = row.revision /\ row.still <= row.revision
  BY PlanFits DEF PlanInv, Plan!TypeOK, TurnsCounted, Plan!ConstantsFit
<1>2. /\ e.next \in Plan!Phases /\ e.progress \in Digests
      /\ e.step.id \in PlanSteps \cup {NoStep}
  BY EntryType, StepType
<1>3. Plan!Still(row, e) \in 0 .. MaxTransitions /\ Plan!Still(row, e) <= row.revision + 1
  BY <1>1 DEF Plan!Still, Plan!State
<1>4. ASSUME NEW status, NEW known \in SUBSET PlanSteps
      PROVE  Plan!Noted(row, e, status, known) \in SUBSET PlanSteps
  BY <1>4, EntryType DEF Plan!Noted, Plan!Receipts, Plan!NoReceipt
<1>5. Plan!Noted(row, e, "UNKNOWN", row.ambiguous) \in SUBSET PlanSteps
  BY <1>1, <1>4 DEF Plan!State
<1>6. Plan!Noted(row, e, "VERIFIED", row.verified) \in SUBSET PlanSteps
  BY <1>1, <1>4 DEF Plan!State
<1>7. row.revision + 1 \in 0 .. MaxTransitions /\ row.turns + 1 \in 0 .. MaxTransitions
  BY <1>1 DEF Plan!State
<1>8. /\ row.phase \in Plan!Phases /\ row.resume \in Plan!Phases /\ "none" \in Plan!Phases
      /\ row.active \in PlanSteps \cup {NoStep}
      /\ row.outcome \in {"PENDING", "VERIFIED", "INCOMPLETE", "UNKNOWN", "CANCELLED"}
  BY <1>1 DEF Plan!State, Plan!Phases
<1> QED BY <1>2, <1>3, <1>5, <1>6, <1>7, <1>8 DEF Plan!Reduced, Plan!State

LEMMA CommitType ==
  ASSUME PlanInv, NEW w \in Workers, NEW e \in Entries, Plan!Commit(w, e)
  PROVE  Plan!TypeOK' /\ TurnsCounted'
<1>1. /\ row' = Plan!Reduced(row, e) /\ Plan!InBudget(row, e) /\ Plan!Legal(row, e)
  BY CommitOfRow
<1>2. row.revision < MaxTransitions /\ MaxTransitions \in Nat /\ MaxTurns \in Nat
  BY PlanFits DEF Plan!Commit, Plan!ConstantsFit
<1>3. row' \in Plan!State
  BY <1>1, <1>2, ReducedType
<1>4. /\ row'.revision = row.revision + 1 /\ row'.turns = row.turns + 1
      /\ row'.still = Plan!Still(row, e)
  BY <1>1 DEF Plan!Reduced
<1>5. /\ row \in Plan!State /\ events \in SUBSET (1 .. MaxTransitions)
      /\ worker \in [Workers -> [lease : 0 .. MaxHolders, view : Plan!State]]
      /\ advances \in 0 .. MaxTransitions
      /\ dispatched \in SUBSET PlanSteps /\ answered \in SUBSET PlanSteps
      /\ lease \in 0 .. MaxHolders /\ overdue \in BOOLEAN /\ TurnsCounted
  BY DEF PlanInv, Plan!TypeOK
<1>6. /\ row.revision \in Nat /\ row.turns \in Nat /\ row.still \in Nat /\ advances \in Nat
      /\ row'.revision \in 1 .. MaxTransitions
  BY <1>2, <1>3, <1>4, <1>5 DEF Plan!State
<1>7. /\ worker' = [worker EXCEPT ![w].view = row']
      /\ events' = events \cup {row'.revision}
      /\ lease' = lease /\ overdue' = overdue
      /\ advances' = IF e.next \in Plan!Interruptions THEN advances ELSE advances + 1
  BY DEF Plan!Commit
<1>8. worker' \in [Workers -> [lease : 0 .. MaxHolders, view : Plan!State]]
  BY <1>3, <1>5, <1>7
<1>9. TurnsCounted'
  BY <1>1, <1>2, <1>4, <1>5, <1>6, <1>7 DEF TurnsCounted, Plan!InBudget, Plan!Still
<1>10. advances' \in 0 .. MaxTransitions
  BY <1>2, <1>4, <1>5, <1>6, <1>7, <1>9 DEF TurnsCounted
<1>11. dispatched' \in SUBSET PlanSteps /\ answered' \in SUBSET PlanSteps
  <2>1. e.next = "tool_execution" => e.step.id \in PlanSteps
    BY <1>1, EntryType DEF Plan!Legal, Plan!MayDispatch, Plan!Receipts
  <2>2. row.phase = "tool_execution" /\ e.step.id = row.active => e.step.id \in PlanSteps
    BY DEF PlanInv, DispatchedAnswered
  <2> QED BY <2>1, <2>2, <1>5 DEF Plan!Commit
<1>12. events' \in SUBSET (1 .. MaxTransitions)
  BY <1>5, <1>6, <1>7
<1> QED
  BY <1>3, <1>5, <1>7, <1>8, <1>9, <1>10, <1>11, <1>12 DEF Plan!TypeOK

LEMMA CommitHistory ==
  ASSUME PlanInv, NEW w \in Workers, NEW e \in Entries, Plan!Commit(w, e)
  PROVE  UnadmittedIsNew' /\ ViewIsHistory' /\ Plan!JournalIsWhole'
<1>1. row' = Plan!Reduced(row, e) /\ row' \in Plan!State
  BY CommitOfRow, CommitType DEF Plan!TypeOK
<1>2. /\ row'.revision = row.revision + 1 /\ row'.phase = e.next
      /\ row.revision \in Nat /\ row'.phase # "none"
  <2>1. row.revision \in 0 .. MaxTransitions /\ MaxTransitions \in Nat
    BY PlanFits DEF PlanInv, Plan!TypeOK, Plan!State, Plan!ConstantsFit
  <2> QED BY <1>1, <2>1, EntryType DEF Plan!Reduced
<1>3. /\ worker' = [worker EXCEPT ![w].view = row']
      /\ events' = events \cup {row'.revision}
      /\ worker \in [Workers -> [lease : 0 .. MaxHolders, view : Plan!State]]
  BY DEF Plan!Commit, PlanInv, Plan!TypeOK
<1>4. UnadmittedIsNew'
  BY <1>2 DEF UnadmittedIsNew
<1>5. ViewIsHistory'
  <2>1. SUFFICES ASSUME NEW v \in Workers
                 PROVE  /\ worker'[v].view.revision <= row'.revision
                        /\ worker'[v].view.phase # "none" /\ worker'[v].view.revision = row'.revision =>
                             worker'[v].view = row'
    BY DEF ViewIsHistory
  <2>2. v = w => worker'[v].view = row'
    BY <1>3
  <2>3. v # w => worker'[v].view = worker[v].view
    BY <1>3
  <2>4. worker[v].view.revision <= row.revision /\ worker[v].view.revision \in Nat
    <3>1. worker[v].view \in Plan!State /\ MaxTransitions \in Nat
      BY <1>3, PlanFits DEF Plan!ConstantsFit
    <3> QED BY <3>1 DEF PlanInv, ViewIsHistory, Plan!State
  <2> QED BY <1>2, <2>2, <2>3, <2>4
<1>6. Plan!JournalIsWhole'
  BY <1>2, <1>3 DEF PlanInv, Plan!JournalIsWhole
<1> QED BY <1>4, <1>5, <1>6

\* A step is dispatched from a phase in which none is on its way.
LEMMA DispatchFrom ==
  ASSUME NEW e \in Entries, Plan!Legal(row, e), e.next = "tool_execution"
  PROVE  /\ row.phase \notin {"tool_execution"} \cup Plan!Interruptions \cup Plan!Terminal
         /\ Plan!Reduced(row, e).active = e.step.id
<1>1. Plan!Routed(row, e.next) /\ row.phase \notin Plan!Terminal
  BY DEF Plan!Legal
<1>2. row.phase \notin {"tool_execution"} \cup Plan!Interruptions \cup Plan!Terminal
  BY <1>1 DEF Plan!Routed, Plan!Routes, Plan!Interruptions, Plan!Terminal
<1> QED BY <1>2 DEF Plan!Reduced

LEMMA CommitDispatch ==
  ASSUME PlanInv, NEW w \in Workers, NEW e \in Entries, Plan!Commit(w, e)
  PROVE  DispatchedAnswered' /\ VerifiedIsCompleted'
<1>1. /\ row' = Plan!Reduced(row, e) /\ Plan!Legal(row, e)
      /\ e.step \in Plan!Receipts /\ row \in Plan!State
  BY CommitOfRow, EntryType DEF PlanInv, Plan!TypeOK
<1>2. /\ row'.phase = e.next
      /\ e.next = "tool_execution" => row'.active = e.step.id /\ e.step.id \in PlanSteps
      /\ e.next = "suspended" => row'.resume = IF row.phase # "suspended" THEN row.phase ELSE row.resume
      /\ row'.ambiguous = Plan!Noted(row, e, "UNKNOWN", row.ambiguous)
      /\ row'.outcome = "VERIFIED" => e.next = "completed" \/ row.outcome = "VERIFIED"
  <2>1. row'.phase = e.next
    BY <1>1 DEF Plan!Reduced
  <2>2. e.next = "tool_execution" => row'.active = e.step.id
    BY <1>1, DispatchFrom
  <2>3. e.next = "tool_execution" => e.step.id \in PlanSteps
    BY <1>1 DEF Plan!Legal, Plan!MayDispatch, Plan!Receipts
  <2>4. e.next = "suspended" => row'.resume = IF row.phase # "suspended" THEN row.phase ELSE row.resume
    <3>1. e.next = "suspended" => e.next \in Plan!Interruptions
      BY DEF Plan!Interruptions
    <3> QED BY <1>1, <3>1 DEF Plan!Reduced
  <2>5. row'.ambiguous = Plan!Noted(row, e, "UNKNOWN", row.ambiguous)
    BY <1>1 DEF Plan!Reduced
  <2>6. row'.outcome = "VERIFIED" => e.next = "completed" \/ row.outcome = "VERIFIED"
    BY <1>1 DEF Plan!Reduced
  <2> QED BY <2>1, <2>2, <2>3, <2>4, <2>5, <2>6
<1>3. /\ dispatched' = IF e.next = "tool_execution" THEN dispatched \cup {e.step.id} ELSE dispatched
      /\ answered' = IF row.phase = "tool_execution" /\ e.step.id = row.active
                     THEN answered \cup {e.step.id}
                     ELSE IF e.next = "tool_execution" THEN answered \ {e.step.id} ELSE answered
  BY DEF Plan!Commit
<1>4. /\ row.phase \notin Plan!Terminal \cup {"none"}
      /\ Plan!Routed(row, e.next)
      /\ row.phase = "tool_execution" /\ e.next \notin Plan!Interruptions => e.step.id = row.active
      /\ e.next = "completed" => row.ambiguous = {} /\ e.accepted
  BY <1>1 DEF Plan!Legal, Plan!MayComplete
<1>5. e.next = "tool_execution" => row.phase \notin {"suspended", "tool_execution"}
  BY <1>1, DispatchFrom DEF Plan!Interruptions
<1>6. e.next = "completed" => row.phase # "tool_execution"
  BY <1>4 DEF Plan!Routed, Plan!Routes, Plan!Interruptions
<1>7. DispatchedAnswered /\ VerifiedIsCompleted
  BY DEF PlanInv
<1>8. CASE e.next \in Plan!Interruptions
  <2>1. dispatched \subseteq answered => dispatched' \subseteq answered'
    BY <1>3, <1>8 DEF Plan!Interruptions
  <2>2. e.next = "suspended" /\ row'.resume # "tool_execution" => dispatched \subseteq answered
    BY <1>2, <1>4, <1>7 DEF DispatchedAnswered, Plan!Interruptions, Plan!Terminal
  <2>3. DispatchedAnswered'
    BY <1>2, <1>8, <2>1, <2>2 DEF DispatchedAnswered, Plan!Interruptions
  <2>4. VerifiedIsCompleted'
    BY <1>2, <1>4, <1>7, <1>8 DEF VerifiedIsCompleted, Plan!Interruptions, Plan!Terminal
  <2> QED BY <2>3, <2>4
<1>9. CASE e.next \notin Plan!Interruptions
  <2>1. row.phase = "suspended" => row.resume = e.next /\ e.next # "tool_execution"
    BY <1>4, <1>9 DEF Plan!Routed
  <2>2. row.phase # "tool_execution" => dispatched \subseteq answered
    BY <1>4, <1>7, <2>1 DEF DispatchedAnswered, Plan!Interruptions, Plan!Terminal
  <2>3. e.next # "tool_execution" => dispatched' \subseteq answered'
    BY <1>3, <1>4, <1>7, <1>9, <2>2 DEF DispatchedAnswered
  <2>4. e.next = "tool_execution" => dispatched' \subseteq answered' \cup {row'.active}
    BY <1>2, <1>3, <1>5, <2>2
  <2>5. DispatchedAnswered'
    BY <1>2, <1>9, <2>3, <2>4 DEF DispatchedAnswered, Plan!Interruptions
  <2>6. e.next = "completed" => row'.ambiguous = {}
    BY <1>2, <1>4, <1>6 DEF Plan!Noted
  <2>7. row.outcome # "VERIFIED"
    BY <1>4, <1>7 DEF VerifiedIsCompleted, Plan!Terminal
  <2>8. VerifiedIsCompleted'
    BY <1>2, <2>6, <2>7 DEF VerifiedIsCompleted
  <2> QED BY <2>5, <2>8
<1> QED BY <1>8, <1>9

\* Admission and loads.
LEMMA AdmitPlan ==
  ASSUME PlanInv, NEW w \in Workers, Plan!Admit(w) PROVE PlanInv'
<1>1. /\ row = Plan!NoState /\ \A v \in Workers : worker[v].view.phase = "none"
      /\ worker \in [Workers -> [lease : 0 .. MaxHolders, view : Plan!State]]
      /\ row \in Plan!State
  BY DEF PlanInv, Plan!TypeOK, UnadmittedIsNew, Plan!Admit
<1>2. /\ row' = [Plan!NoState EXCEPT !.phase = "admission"]
      /\ worker' = [worker EXCEPT ![w].view = row']
      /\ UNCHANGED <<events, lease, overdue, dispatched, answered, advances>>
  BY DEF Plan!Admit
<1>3. row' \in Plan!State
  BY <1>1, <1>2 DEF Plan!State, Plan!Phases, Plan!NoState
<1>4. worker' \in [Workers -> [lease : 0 .. MaxHolders, view : Plan!State]]
  BY <1>1, <1>2, <1>3
<1>5. Plan!TypeOK'
  BY <1>2, <1>3, <1>4 DEF PlanInv, Plan!TypeOK
<1>6. /\ row'.revision = 0 /\ row'.turns = 0 /\ row'.still = 0 /\ row'.phase = "admission"
      /\ row'.outcome = "PENDING" /\ row.revision = 0 /\ row.turns = 0 /\ row.phase = "none"
  BY <1>1, <1>2 DEF Plan!NoState
<1>7. TurnsCounted' /\ UnadmittedIsNew' /\ Plan!JournalIsWhole' /\ VerifiedIsCompleted'
  BY <1>2, <1>6 DEF PlanInv, TurnsCounted, UnadmittedIsNew, Plan!JournalIsWhole, VerifiedIsCompleted
<1>8. DispatchedAnswered'
  BY <1>2, <1>6 DEF PlanInv, DispatchedAnswered, Plan!Interruptions
<1>9. ViewIsHistory'
  <2>1. ASSUME NEW v \in Workers, v # w
        PROVE  worker'[v].view.phase = "none" /\ worker'[v].view.revision <= 0
    BY <1>1, <1>2, <1>6, <2>1 DEF PlanInv, ViewIsHistory
  <2>2. worker'[w].view = row'
    BY <1>1, <1>2
  <2> QED BY <1>6, <2>1, <2>2 DEF ViewIsHistory
<1> QED BY <1>5, <1>7, <1>8, <1>9 DEF PlanInv

\* The other steps of the orchestration leave the row as it is.
LEMMA RowKept ==
  ASSUME PlanInv, UNCHANGED <<row, events, dispatched, answered, advances>>,
         Plan!TypeOK', ViewIsHistory', UnadmittedIsNew'
  PROVE  PlanInv'
BY DEF PlanInv, TurnsCounted, Plan!JournalIsWhole, DispatchedAnswered, VerifiedIsCompleted

LEMMA LoadPlan ==
  ASSUME PlanInv, NEW w \in Workers, Plan!Load(w) PROVE PlanInv'
<1>1. /\ worker' = [worker EXCEPT ![w].view = row] /\ row.phase # "none"
      /\ UNCHANGED <<row, events, lease, overdue, dispatched, answered, advances>>
      /\ worker \in [Workers -> [lease : 0 .. MaxHolders, view : Plan!State]]
      /\ row \in Plan!State
  BY DEF Plan!Load, PlanInv, Plan!TypeOK
<1>2. worker' \in [Workers -> [lease : 0 .. MaxHolders, view : Plan!State]]
  BY <1>1
<1>3. Plan!TypeOK'
  BY <1>1, <1>2 DEF PlanInv, Plan!TypeOK
<1>4. row.revision <= row.revision
  BY <1>1, PlanFits DEF Plan!State, Plan!ConstantsFit
<1>5. \A v \in Workers : worker'[v].view = row \/ worker'[v].view = worker[v].view
  BY <1>1
<1>6. ViewIsHistory' /\ UnadmittedIsNew'
  BY <1>1, <1>4, <1>5 DEF PlanInv, ViewIsHistory, UnadmittedIsNew
<1> QED BY <1>1, <1>3, <1>6, RowKept

LEMMA ReclaimPlan ==
  ASSUME PlanInv, NEW w \in Workers, Plan!Reclaim(w) PROVE PlanInv'
<1>1. /\ worker' = [worker EXCEPT ![w].lease = lease + 1] /\ lease' = lease + 1
      /\ lease + 1 \in 0 .. MaxHolders
      /\ UNCHANGED <<row, events, overdue, dispatched, answered, advances>>
      /\ worker \in [Workers -> [lease : 0 .. MaxHolders, view : Plan!State]]
  <2>1. MaxHolders \in Nat
    BY PlanFits DEF Plan!ConstantsFit
  <2> QED BY <2>1 DEF Plan!Reclaim, PlanInv, Plan!TypeOK
<1>2. worker' \in [Workers -> [lease : 0 .. MaxHolders, view : Plan!State]]
  BY <1>1
<1>3. Plan!TypeOK'
  BY <1>1, <1>2 DEF PlanInv, Plan!TypeOK
<1>4. \A v \in Workers : worker'[v].view = worker[v].view
  BY <1>1
<1>5. ViewIsHistory' /\ UnadmittedIsNew'
  BY <1>1, <1>4 DEF PlanInv, ViewIsHistory, UnadmittedIsNew
<1> QED BY <1>1, <1>3, <1>5, RowKept

\* A stop and the deadline, and what is no step of the orchestration.
LEMMA StopPlan ==
  ASSUME PlanInv, Plan!Stop \/ Plan!Expire \/ UNCHANGED Plan!vars PROVE PlanInv'
<1>1. /\ UNCHANGED <<row, events, worker, dispatched, answered, advances>>
  BY DEF Plan!Stop, Plan!Expire, Plan!vars
<1>2. Plan!TypeOK'
  <2>1. lease' \in 0 .. MaxHolders
    <3>1. MaxHolders \in Nat /\ lease' \in {0, lease} /\ lease \in 0 .. MaxHolders
      BY PlanFits DEF Plan!ConstantsFit, Plan!Stop, Plan!Expire, Plan!vars, PlanInv, Plan!TypeOK
    <3> QED BY <3>1
  <2>2. overdue' \in BOOLEAN
    BY DEF Plan!Stop, Plan!Expire, Plan!vars, PlanInv, Plan!TypeOK
  <2> QED BY <1>1, <2>1, <2>2 DEF PlanInv, Plan!TypeOK
<1>3. ViewIsHistory' /\ UnadmittedIsNew'
  BY <1>1 DEF PlanInv, ViewIsHistory, UnadmittedIsNew
<1> QED BY <1>1, <1>2, <1>3, RowKept

\* A step of the orchestration is one of these.
LEMMA PlanCases ==
  ASSUME [Plan!Next]_(Plan!vars)
  PROVE  \/ \E w \in Workers : Plan!Admit(w) \/ Plan!Load(w) \/ Plan!Reclaim(w)
         \/ \E w \in Workers, e \in Entries : Plan!Commit(w, e)
         \/ Plan!Stop \/ Plan!Expire \/ UNCHANGED Plan!vars
BY DEF Plan!Next, Entries

LEMMA PlanStep == ASSUME PlanInv, [Plan!Next]_(Plan!vars) PROVE PlanInv'
<1>1. ASSUME NEW w \in Workers, NEW e \in Entries, Plan!Commit(w, e) PROVE PlanInv'
  BY <1>1, CommitType, CommitHistory, CommitDispatch DEF PlanInv
<1> QED BY <1>1, PlanCases, AdmitPlan, LoadPlan, ReclaimPlan, StopPlan

-----------------------------------------------------------------------------
(* The theorems.                                                           *)

\* The inductive invariant of the orchestration.
THEOREM PlanInvariance == Plan!Spec => []PlanInv
BY PlanInit, PlanStep, PTL DEF Plan!Spec

\* The composition drives the store or the orchestration.
LEMMA DrivesBoth == BothSpec => Spec /\ Plan!Spec
<1>1. BothInit => Init /\ Plan!Init
  BY DEF BothInit
<1>2. [BothNext]_all => [Next]_vars /\ [Plan!Next]_(Plan!vars)
  BY DEF BothNext, all, planVars, Plan!vars
<1> QED BY <1>1, <1>2, PTL DEF BothSpec, Spec, Plan!Spec

\* reduceOrchestration() and its store: a task completes only when every step it dispatched
\* was answered and none as unknown; its journal has every revision, and its transitions
\* are bounded by its budget.
THEOREM CompletionIsKnown == BothSpec => []CompletedIsKnown
<1>1. PlanInv => CompletedIsKnown
  BY DEF PlanInv, CompletedIsKnown, Plan!CompletedIsKnown, VerifiedIsCompleted,
         DispatchedAnswered, TurnsCounted, Plan!TurnsBounded, Plan!Interruptions
<1> QED BY <1>1, PlanInvariance, DrivesBoth, PTL

\* No step is dispatched while one has no answer, and none that was verified, whatever
\* workers and suspensions came between.
THEOREM NoneIsBlind == BothSpec => NoBlindDispatch
<1>1. ASSUME PlanInv, [Plan!Next]_(Plan!vars), row'.phase = "tool_execution", row # row'
      PROVE  dispatched \subseteq answered /\ row.ambiguous = {} /\ row'.active \notin row.verified
  <2>1. PICK w \in Workers, e \in Entries : Plan!Commit(w, e)
    BY <1>1, PlanCases DEF Plan!Admit, Plan!Load, Plan!Reclaim, Plan!Stop, Plan!Expire, Plan!vars,
                          Plan!NoState
  <2>2. row' = Plan!Reduced(row, e) /\ Plan!Legal(row, e)
    BY <1>1, <2>1, CommitOfRow
  <2>3. e.next = "tool_execution" /\ row'.active = e.step.id
    <3>1. e.next = "tool_execution"
      BY <1>1, <2>2 DEF Plan!Reduced
    <3> QED BY <2>2, <3>1, DispatchFrom
  <2>4. Plan!MayDispatch(row, e)
    BY <2>2, <2>3 DEF Plan!Legal
  <2>5. row.phase \notin {"tool_execution"} \cup Plan!Interruptions
    BY <2>2, <2>3, DispatchFrom
  <2> QED BY <1>1, <2>3, <2>4, <2>5 DEF PlanInv, DispatchedAnswered, Plan!MayDispatch
<1> QED BY <1>1, PlanInvariance, DrivesBoth, PTL DEF NoBlindDispatch, Plan!NoBlindDispatch, Plan!Spec

\* fence(): who has not the running lease of a live task leaves the row as it is.
THEOREM HolderAdvances == BothSpec => OnlyHolderAdvances
<1>1. ASSUME PlanInv, [Plan!Next]_(Plan!vars), row' # row
      PROVE  /\ lease > 0 /\ ~overdue
             /\ \E w \in Workers : worker[w].lease = lease /\ worker'[w].view = row'
  <2>1. PICK w \in Workers : Plan!Fence(w) /\ worker' = [worker EXCEPT ![w].view = row']
    BY <1>1, PlanCases DEF Plan!Admit, Plan!Commit, Plan!Load, Plan!Reclaim, Plan!Stop, Plan!Expire,
                          Plan!vars
  <2>2. worker'[w].view = row'
    BY <1>1, <2>1 DEF PlanInv, Plan!TypeOK
  <2> QED BY <2>1, <2>2 DEF Plan!Fence
<1> QED
  BY <1>1, PlanInvariance, DrivesBoth, PTL DEF OnlyHolderAdvances, Plan!OnlyHolderAdvances, Plan!Spec

\* The store: types, the account of running time, the resumption by the holder and the
\* replay of the journal, as they are proved above.
THEOREM StoreIsSafe == BothSpec => []StoreSafety
<1>1. TypeOK /\ TimeIsAccounted /\ ResumedByHolder /\ ReplayIsComplete => StoreSafety
  BY DEF StoreSafety
<1> QED BY <1>1, DrivesBoth, TypeCorrect, TimeKept, Resumption, ReplayComplete, PTL
=============================================================================
