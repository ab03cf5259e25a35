---------------------- MODULE RequestLifecycle_proofs ----------------------
(***************************************************************************)
(* Proofs about RequestLifecycle, for every set of requests and tabs and   *)
(* every bound.                                                            *)
(***************************************************************************)
EXTENDS RequestLifecycle, FiniteSetTheorems, TLAPS

-----------------------------------------------------------------------------
(* The inductive invariant, in parts.                                      *)

\* A request that has not ended was resumed at most MaxGeneration times.
GenerationBounded ==
  \A r \in Requests :
    requests[r].state # "TERMINAL" => requests[r].generation <= MaxGeneration

\* A driver on its way to the page has an effect left to give.
EffectRoom ==
  \A r \in Requests : at[r] \in {"claiming", "marking", "marked"} => effects[r] < MaxEffects

\* A save wakes only drivers that are parked on it.
Waiters ==
  \A i \in 1 .. Len(queue) : \A r \in queue[i].wakes : at[r] \in {"flushing", "marking"}

\* No driver is parked on two saves.
OneWaiter ==
  \A i, j \in 1 .. Len(queue) : queue[i].wakes \cap queue[j].wakes # {} => i = j

\* A driver belongs to a request that was accepted.
Present == \A r \in Requests : requests[r].state = "ABSENT" => at[r] = "none"

Typing ==
  TypeOK /\ GenerationBounded /\ EffectRoom /\ Waiters /\ OneWaiter /\ Present

\* At most one unfinished request of a tab.
OneOnTab ==
  \A r, s \in Requests : Live(r) /\ Live(s) /\ TabOf[r] = TabOf[s] => r = s

\* A driver beyond startRun() has its timer until the request ends.
Driving == Parked \ {"none", "flushing", "stored", "unstored", "unmarked", "done"}
Budgeted == \A r \in Requests : at[r] \in Driving /\ Live(r) => r \in budget

Ownership == OneOnTab /\ ActiveRunIsOwned /\ Budgeted

\* Nothing is known of a request that was not accepted.
Blank(row) == row.state = "ABSENT" => ~row.dispatched /\ row.outcome = NoOutcome
RowsBlank ==
  \A r \in Requests :
    Blank(requests[r]) /\ Blank(disk[r]) /\ \A i \in 1 .. Len(queue) : Blank(queue[i].rows[r])

\* No save of an unfinished request tells an end.
Open(row) == row.state # "TERMINAL" /\ row.outcome = NoOutcome
RowsOpen ==
  \A r \in Requests : requests[r].state # "TERMINAL" =>
    /\ requests[r].outcome = NoOutcome /\ Open(disk[r])
    /\ \A i \in 1 .. Len(queue) : Open(queue[i].rows[r])

\* From the save a marking driver is parked on, every save carries its marker;
\* once it is stored, everything does.
Marked(row) == row.state = "UNFINISHED" /\ row.dispatched
MarkerWaits ==
  \A r \in Requests : at[r] = "marking" /\ Live(r) =>
    /\ requests[r].dispatched
    /\ \A i, j \in 1 .. Len(queue) :
         i <= j /\ r \in queue[i].wakes => Marked(queue[j].rows[r])
MarkerStored ==
  \A r \in Requests : at[r] = "marked" /\ Live(r) =>
    /\ requests[r].dispatched /\ Marked(disk[r])
    /\ \A i \in 1 .. Len(queue) : Marked(queue[i].rows[r])

\* The marker of an effect is never lost and never contradicted.
Told(row) == row.state # "ABSENT" /\ row.dispatched /\ row.outcome \notin Dishonest
EffectsTold ==
  \A r \in Requests \ refused : effects[r] > 0 =>
    /\ Told(requests[r]) /\ Told(disk[r])
    /\ \A i \in 1 .. Len(queue) : Told(queue[i].rows[r])

Telling == RowsBlank /\ RowsOpen /\ MarkerWaits /\ MarkerStored /\ EffectsTold

\* The last save is of the map as it is.
Latest == IF queue = <<>> THEN disk ELSE queue[Len(queue)].rows
CaughtUp ==
  failures = 0 =>
    /\ Latest = Snapshot(requests)
    /\ \A r \in Requests : at[r] # "unmarked"

-----------------------------------------------------------------------------
(* What saving, moving and ending a request produce.                       *)

\* A saved map is one row per request.
LEMMA SnapshotType ==
  ASSUME NEW m \in [Requests -> Entry]
  PROVE  Snapshot(m) \in [Requests -> Row]
BY DEF Snapshot, RowOf, Row, Entry, States, Unfinished, Outcomes

\* Enqueue() keeps the saves that wait and leaves a save of the map last.
LEMMA EnqueueShape ==
  ASSUME NEW q \in Seq(Save), NEW m \in [Requests -> Entry], NEW w \in SUBSET Requests
  PROVE  /\ Enqueue(q, m, w) \in Seq(Save)
         /\ Enqueue(q, m, w) # <<>>
         /\ Len(Enqueue(q, m, w)) \in {Len(q), Len(q) + 1}
         /\ \A i \in 1 .. Len(q) : Enqueue(q, m, w)[i] = q[i]
         /\ \A i \in 1 .. Len(Enqueue(q, m, w)) :
              i > Len(q) => Enqueue(q, m, w)[i] = [rows |-> Snapshot(m), wakes |-> w]
         /\ Enqueue(q, m, w)[Len(Enqueue(q, m, w))].rows = Snapshot(m)
<1>1. [rows |-> Snapshot(m), wakes |-> w] \in Save
  BY SnapshotType DEF Save
<1>2. CASE q # <<>> /\ w = {} /\ q[Len(q)] = [rows |-> Snapshot(m), wakes |-> {}]
  BY <1>2 DEF Enqueue
<1>3. CASE ~(q # <<>> /\ w = {} /\ q[Len(q)] = [rows |-> Snapshot(m), wakes |-> {}])
  <2>1. PICK x \in Save : x = [rows |-> Snapshot(m), wakes |-> w]
    BY <1>1
  <2>2. Enqueue(q, m, w) = Append(q, x)
    BY <1>3, <2>1 DEF Enqueue
  <2>3. /\ Append(q, x) \in Seq(Save) /\ Append(q, x) # <<>>
        /\ Len(Append(q, x)) = Len(q) + 1
        /\ \A i \in 1 .. Len(q) : Append(q, x)[i] = q[i]
        /\ Append(q, x)[Len(q) + 1] = x
    OBVIOUS
  <2>4. x.rows = Snapshot(m)
    BY <2>1
  <2>5. \A i \in 1 .. Len(Append(q, x)) : i > Len(q) => i = Len(q) + 1
    BY <2>3
  <2> QED BY <2>1, <2>2, <2>3, <2>4, <2>5
<1> QED BY <1>2, <1>3

\* Enqueue() does not touch the saves that wait.
LEMMA EnqueueKeeps ==
  ASSUME NEW q \in Seq(Save), NEW m \in [Requests -> Entry], NEW w \in SUBSET Requests,
         NEW i \in 1 .. Len(q)
  PROVE  Enqueue(q, m, w)[i] = q[i]
<1>1. [rows |-> Snapshot(m), wakes |-> w] \in Save
  BY SnapshotType DEF Save
<1>2. PICK x \in Save : x = [rows |-> Snapshot(m), wakes |-> w]
  BY <1>1
<1>3. Append(q, x)[i] = q[i]
  OBVIOUS
<1>4. Enqueue(q, m, w) \in {q, Append(q, x)}
  BY <1>2 DEF Enqueue
<1> QED BY <1>3, <1>4

\* Replacing one entry of a request map.
LEMMA Revised ==
  ASSUME NEW m \in [Requests -> Entry], NEW r \in Requests, NEW e \in Entry
  PROVE  /\ [m EXCEPT ![r] = e] \in [Requests -> Entry]
         /\ [m EXCEPT ![r] = e][r] = e
         /\ \A s \in Requests \ {r} : [m EXCEPT ![r] = e][s] = m[s]
OBVIOUS

\* Ending a request yields a request map again.
LEMMA EndedType ==
  ASSUME NEW m \in [Requests -> Entry], NEW r \in Requests, NEW o \in Outcomes
  PROVE  Terminal(m, r) \in [Requests -> Entry] /\ Ended(m, r, o) \in [Requests -> Entry]
<1>1. PICK e : e = [m[r] EXCEPT !.state = "TERMINAL"]
  OBVIOUS
<1>2. e \in Entry
  BY <1>1 DEF Entry, States
<1>3. Terminal(m, r) = [m EXCEPT ![r] = e]
  BY <1>1 DEF Terminal
<1>4. Terminal(m, r) \in [Requests -> Entry] /\ Terminal(m, r)[r] = e
  BY <1>2, <1>3, Revised
<1>5. PICK h : h = Honest(m[r], o)
  OBVIOUS
<1>6. h \in Outcomes
  BY <1>5 DEF Honest, Outcomes
<1>7. PICK f : f = [e EXCEPT !.outcome = h]
  OBVIOUS
<1>8. f \in Entry
  BY <1>2, <1>6, <1>7 DEF Entry
<1>9. Ended(m, r, o) = [Terminal(m, r) EXCEPT ![r] = f]
  BY <1>4, <1>5, <1>7 DEF Ended
<1> QED BY <1>4, <1>8, <1>9

\* Ending a request touches its state and its outcome only.
LEMMA EndedFields ==
  ASSUME NEW m \in [Requests -> Entry], NEW r \in Requests, NEW o \in Outcomes
  PROVE  /\ \A s \in Requests \ {r} : Ended(m, r, o)[s] = m[s]
         /\ Ended(m, r, o)[r].state = "TERMINAL"
         /\ Ended(m, r, o)[r].outcome = Honest(m[r], o)
         /\ Ended(m, r, o)[r].dispatched = m[r].dispatched
         /\ Ended(m, r, o)[r].generation = m[r].generation
BY DEF Terminal, Ended, Entry

-----------------------------------------------------------------------------
(* What a step does to the saves and to the map.                           *)

\* The step keeps the saves that wait; of those it adds only the last one may
\* wake somebody, of w.
Grows(w) ==
  /\ queue' \in Seq(Save) /\ Len(queue') >= Len(queue)
  /\ \A i \in 1 .. Len(queue) : queue'[i] = queue[i]
  /\ \A i \in 1 .. Len(queue') : i > Len(queue) =>
       queue'[i].wakes \subseteq w /\ (i < Len(queue') => queue'[i].wakes = {})

\* The saves it adds carry maps of Maps.
Adds(Maps, w) ==
  /\ Grows(w)
  /\ \A i \in 1 .. Len(queue') : i > Len(queue) =>
       \E m \in Maps : queue'[i].rows = Snapshot(m)

\* The step saved the map it left.
SavesLatest ==
  queue' # <<>> /\ queue'[Len(queue')].rows = Snapshot(requests')

\* One save.
LEMMA AddsOne ==
  ASSUME TypeOK, NEW m \in [Requests -> Entry], NEW w \in SUBSET Requests,
         queue' = Enqueue(queue, m, w)
  PROVE  /\ Adds({m}, w)
         /\ queue' # <<>> /\ queue'[Len(queue')].rows = Snapshot(m)
<1>1. queue \in Seq(Save)
  BY DEF TypeOK
<1>2. /\ queue' \in Seq(Save) /\ queue' # <<>>
      /\ Len(queue') \in {Len(queue), Len(queue) + 1}
      /\ \A i \in 1 .. Len(queue) : queue'[i] = queue[i]
      /\ \A i \in 1 .. Len(queue') :
           i > Len(queue) => queue'[i] = [rows |-> Snapshot(m), wakes |-> w]
      /\ queue'[Len(queue')].rows = Snapshot(m)
  BY <1>1, EnqueueShape
<1> QED BY <1>1, <1>2 DEF Adds, Grows

\* Two saves, of which the second may wake.
LEMMA AddsTwo ==
  ASSUME TypeOK, NEW m \in [Requests -> Entry], NEW n \in [Requests -> Entry],
         NEW w \in SUBSET Requests,
         queue' = Enqueue(Enqueue(queue, m, {}), n, w)
  PROVE  /\ Adds({m, n}, w)
         /\ queue' # <<>> /\ queue'[Len(queue')].rows = Snapshot(n)
<1>1. PICK q, v : v = {} /\ q = Enqueue(queue, m, v)
  OBVIOUS
<1>2. /\ queue \in Seq(Save) /\ v \in SUBSET Requests
  BY <1>1 DEF TypeOK
<1>3. /\ q \in Seq(Save)
      /\ Len(q) \in {Len(queue), Len(queue) + 1}
      /\ \A i \in 1 .. Len(queue) : q[i] = queue[i]
      /\ \A i \in 1 .. Len(q) :
           i > Len(queue) => q[i] = [rows |-> Snapshot(m), wakes |-> v]
  <2>1. queue \in Seq(Save) /\ m \in [Requests -> Entry] /\ v \in SUBSET Requests
    BY <1>2
  <2>2. /\ Enqueue(queue, m, v) \in Seq(Save)
        /\ Len(Enqueue(queue, m, v)) \in {Len(queue), Len(queue) + 1}
    BY <2>1, EnqueueShape
  <2>3. ASSUME NEW i \in 1 .. Len(queue) PROVE Enqueue(queue, m, v)[i] = queue[i]
    BY <2>1, EnqueueKeeps
  <2>4. \A i \in 1 .. Len(Enqueue(queue, m, v)) :
          i > Len(queue) => Enqueue(queue, m, v)[i] = [rows |-> Snapshot(m), wakes |-> v]
    BY <2>1, EnqueueShape
  <2> QED BY <1>1, <2>2, <2>3, <2>4
<1>4. /\ queue' \in Seq(Save) /\ queue' # <<>>
      /\ Len(queue') \in {Len(q), Len(q) + 1}
      /\ \A i \in 1 .. Len(q) : queue'[i] = q[i]
      /\ \A i \in 1 .. Len(queue') :
           i > Len(q) => queue'[i] = [rows |-> Snapshot(n), wakes |-> w]
      /\ queue'[Len(queue')].rows = Snapshot(n)
  BY <1>1, <1>3, EnqueueShape
<1>5. Len(queue) \in Nat /\ Len(q) \in Nat /\ Len(queue') \in Nat
  BY <1>2, <1>3, <1>4
<1>6. ASSUME NEW i \in 1 .. Len(queue'), i > Len(queue)
      PROVE  /\ \E x \in {m, n} : queue'[i].rows = Snapshot(x)
             /\ queue'[i].wakes \subseteq w /\ (i < Len(queue') => queue'[i].wakes = {})
  <2>1. CASE i > Len(q)
    BY <1>4, <1>5, <2>1
  <2>2. CASE i <= Len(q)
    <3>1. i \in 1 .. Len(q) /\ i > Len(queue)
      BY <1>5, <1>6, <2>2
    <3>2. queue'[i] = [rows |-> Snapshot(m), wakes |-> v]
      BY <1>3, <1>4, <3>1
    <3> QED BY <1>1, <3>2
  <2> QED BY <1>5, <2>1, <2>2
<1>7. \A i \in 1 .. Len(queue) : queue'[i] = queue[i]
  BY <1>3, <1>4, <1>5
<1>8. Len(queue') >= Len(queue)
  BY <1>3, <1>4, <1>5
<1> QED BY <1>4, <1>6, <1>7, <1>8 DEF Adds, Grows

\* finish() of r on the map m.
LEMMA EndInShape ==
  ASSUME TypeOK, NEW m \in [Requests -> Entry], NEW r \in Requests, NEW o \in Outcomes,
         EndIn(m, r, o)
  PROVE  /\ requests' = Ended(m, r, o)
         /\ requests' \in [Requests -> Entry]
         /\ budget' = budget \ {r}
         /\ runs' = [runs EXCEPT ![TabOf[r]] = NoRequest]
         /\ Adds({Terminal(m, r), requests'}, {}) /\ SavesLatest
<1>1. Terminal(m, r) \in [Requests -> Entry] /\ Ended(m, r, o) \in [Requests -> Entry]
  BY EndedType
<1>2. requests' = Ended(m, r, o)
  BY DEF EndIn
<1>3. queue' = Enqueue(Enqueue(queue, Terminal(m, r), {}), Ended(m, r, o), {})
  BY DEF EndIn, EndSaves, Saves
<1>4. Adds({Terminal(m, r), requests'}, {}) /\ SavesLatest
  <2>1. PICK x \in [Requests -> Entry] : x = Terminal(m, r)
    BY <1>1
  <2>2. PICK y \in [Requests -> Entry] : y = Ended(m, r, o)
    BY <1>1
  <2>3. queue' = Enqueue(Enqueue(queue, x, {}), y, {})
    BY <1>3, <2>1, <2>2
  <2>4. {} \in SUBSET Requests
    OBVIOUS
  <2>5. Adds({x, y}, {}) /\ queue' # <<>> /\ queue'[Len(queue')].rows = Snapshot(y)
    BY <2>3, <2>4, AddsTwo
  <2> QED BY <1>2, <2>1, <2>2, <2>5 DEF SavesLatest
<1> QED BY <1>1, <1>2, <1>4 DEF EndIn

\* progress() on the tab t.
LEMMA MoveShape ==
  ASSUME TypeOK, NEW t \in Tabs, NEW state \in Unfinished, Move(t, state)
  PROVE  /\ requests' \in [Requests -> Entry]
         /\ \/ requests' = requests /\ queue' = queue
            \/ /\ \E s \in LiveOn(t) : requests' = [requests EXCEPT ![s].state = state]
               /\ Adds({requests'}, {}) /\ SavesLatest
<1>1. CASE LiveOn(t) = {}
  BY <1>1 DEF Move, TypeOK
<1>2. CASE LiveOn(t) # {}
  <2>1. PICK s \in LiveOn(t) :
          /\ requests' = [requests EXCEPT ![s].state = state]
          /\ Saves(Enqueue(queue, requests', {}))
    BY <1>2 DEF Move
  <2>2. s \in Requests /\ requests' \in [Requests -> Entry]
    <3>1. s \in Requests /\ requests \in [Requests -> Entry]
      BY <2>1 DEF LiveOn, TypeOK
    <3>2. PICK e : e = [requests[s] EXCEPT !.state = state]
      OBVIOUS
    <3>3. e \in Entry
      BY <3>1, <3>2 DEF Entry, States
    <3>4. requests' = [requests EXCEPT ![s] = e]
      BY <2>1, <3>2
    <3> QED BY <3>1, <3>3, <3>4
  <2>3. PICK n \in [Requests -> Entry] : n = requests'
    BY <2>2
  <2>4. queue' = Enqueue(queue, n, {}) /\ {} \in SUBSET Requests
    BY <2>1, <2>3 DEF Saves
  <2>5. Adds({n}, {}) /\ queue' # <<>> /\ queue'[Len(queue')].rows = Snapshot(n)
    BY <2>4, AddsOne
  <2>6. Adds({requests'}, {}) /\ SavesLatest
    BY <2>3, <2>5 DEF SavesLatest
  <2> QED BY <2>1, <2>2, <2>6
<1> QED BY <1>1, <1>2

-----------------------------------------------------------------------------
(* Typing is inductive.                                                    *)

\* The step keeps the map typed and forgets no request.
MapKeeps ==
  /\ requests' \in [Requests -> Entry]
  /\ \A r \in Requests :
       /\ requests'[r].state # "TERMINAL" => requests'[r].generation <= MaxGeneration
       /\ requests'[r].state = "ABSENT" => requests'[r] = requests[r]

\* Drivers parked on a save stay there, those of w come to it, and only
\* drivers of accepted requests move.
DriversKeep(w) ==
  /\ \A r \in Requests : at'[r] # at[r] =>
       at[r] \notin {"flushing", "marking"} /\ requests'[r].state # "ABSENT"
  /\ \A r \in w : at[r] \notin {"flushing", "marking"} /\ at'[r] \in {"flushing", "marking"}

\* A step whose map, saves and drivers keep their shape keeps Typing.
LEMMA Advance ==
  ASSUME Typing, NEW w \in SUBSET Requests, Grows(w), MapKeeps, DriversKeep(w),
         TypeOK', EffectRoom'
  PROVE  Typing'
<1>1. GenerationBounded'
  BY DEF MapKeeps, GenerationBounded
<1>2. Present'
  BY DEF MapKeeps, DriversKeep, Present, Typing
<1>3. queue \in Seq(Save) /\ Len(queue) \in Nat /\ Len(queue') \in Nat
  BY DEF Typing, TypeOK, Grows
<1>4. \A i \in 1 .. Len(queue') :
        \/ i \in 1 .. Len(queue) /\ queue'[i] = queue[i]
        \/ i > Len(queue) /\ queue'[i].wakes = {}
        \/ i = Len(queue') /\ i > Len(queue) /\ queue'[i].wakes \subseteq w
  BY <1>3 DEF Grows
<1>5. Waiters'
  <2>1. SUFFICES ASSUME NEW i \in 1 .. Len(queue'), NEW r \in queue'[i].wakes
                 PROVE  at'[r] \in {"flushing", "marking"}
    BY DEF Waiters
  <2>2. CASE i \in 1 .. Len(queue) /\ queue'[i] = queue[i]
    <3>1. queue[i] \in Save /\ r \in queue[i].wakes
      BY <1>3, <2>2
    <3>2. r \in Requests /\ at[r] \in {"flushing", "marking"}
      BY <2>2, <3>1 DEF Save, Waiters, Typing
    <3> QED BY <3>2 DEF DriversKeep
  <2>3. CASE queue'[i].wakes \subseteq w
    BY <2>1, <2>3 DEF DriversKeep
  <2> QED BY <1>4, <2>1, <2>2, <2>3
<1>6. OneWaiter'
  <2>1. SUFFICES ASSUME NEW i \in 1 .. Len(queue'), NEW j \in 1 .. Len(queue'),
                        NEW r \in queue'[i].wakes \cap queue'[j].wakes
                 PROVE  i = j
    BY DEF OneWaiter
  <2>2. ASSUME NEW k \in 1 .. Len(queue), queue'[k] = queue[k], r \in queue'[k].wakes
        PROVE  at[r] \in {"flushing", "marking"}
    BY <2>2 DEF Typing, Waiters
  <2>3. CASE /\ i \in 1 .. Len(queue) /\ queue'[i] = queue[i]
             /\ j \in 1 .. Len(queue) /\ queue'[j] = queue[j]
    BY <2>1, <2>3 DEF Typing, OneWaiter
  <2>4. ASSUME r \in w PROVE at[r] \notin {"flushing", "marking"}
    BY <2>4 DEF DriversKeep
  <2> QED BY <1>3, <1>4, <2>1, <2>2, <2>3, <2>4
<1> QED BY <1>1, <1>2, <1>5, <1>6 DEF Typing

\* finish() on a map that differs from the worker's in the ended request only.
LEMMA EndInKeeps ==
  ASSUME Typing, NEW m \in [Requests -> Entry], NEW r \in Requests, NEW o \in Outcomes,
         \A s \in Requests \ {r} : m[s] = requests[s], EndIn(m, r, o)
  PROVE  /\ MapKeeps /\ Grows({}) /\ requests'[r].state = "TERMINAL"
         /\ budget' \in SUBSET Requests /\ runs' \in [Tabs -> Requests \cup {NoRequest}]
<1>1. /\ requests' = Ended(m, r, o) /\ requests' \in [Requests -> Entry]
      /\ budget' = budget \ {r} /\ runs' = [runs EXCEPT ![TabOf[r]] = NoRequest]
      /\ Adds({Terminal(m, r), requests'}, {})
  BY EndInShape DEF Typing
<1>2. requests'[r].state = "TERMINAL" /\ \A s \in Requests \ {r} : requests'[s] = requests[s]
  BY <1>1, EndedFields
<1>3. MapKeeps
  BY <1>1, <1>2 DEF MapKeeps, Typing, GenerationBounded
<1> QED BY <1>1, <1>2, <1>3 DEF Adds, Typing, TypeOK

\* finish() keeps the map and the saves in shape.
LEMMA EndKeeps ==
  ASSUME Typing, NEW r \in Requests, NEW o \in Outcomes, End(r, o)
  PROVE  /\ MapKeeps /\ Grows({})
         /\ budget' \in SUBSET Requests /\ runs' \in [Tabs -> Requests \cup {NoRequest}]
<1>1. PICK m \in [Requests -> Entry] : m = requests
  BY DEF Typing, TypeOK
<1>2. EndIn(m, r, o)
  BY <1>1 DEF End
<1> QED BY <1>1, <1>2, EndInKeeps

\* endTab() keeps the map and the saves in shape.
LEMMA EndTabKeeps ==
  ASSUME Typing, NEW t \in Tabs, NEW o \in Outcomes, EndTab(t, o)
  PROVE  /\ MapKeeps /\ Grows({})
         /\ budget' \in SUBSET Requests /\ runs' \in [Tabs -> Requests \cup {NoRequest}]
<1>1. PICK r \in LiveOn(t) : End(r, o)
  BY DEF EndTab
<1>2. r \in Requests /\ requests \in [Requests -> Entry]
  BY DEF LiveOn, Typing, TypeOK
<1>3. PICK m \in [Requests -> Entry] : m = requests
  BY <1>2
<1>4. EndIn(m, r, o)
  BY <1>1, <1>3 DEF End, EndIn, Ended, Terminal, EndSaves
<1> QED BY <1>2, <1>3, <1>4, EndInKeeps

\* A step that saves nothing.
LEMMA NothingKeeps ==
  ASSUME Typing, UNCHANGED <<requests, queue>>
  PROVE  MapKeeps /\ Grows({})
BY DEF MapKeeps, Grows, Typing, TypeOK, GenerationBounded

\* progress() keeps the map and the saves in shape.
LEMMA MoveKeeps ==
  ASSUME Typing, NEW t \in Tabs, NEW state \in Unfinished, Move(t, state)
  PROVE  MapKeeps /\ Grows({})
<1>1. CASE UNCHANGED <<requests, queue>>
  BY <1>1, NothingKeeps
<1>2. ASSUME NEW s \in LiveOn(t), requests' = [requests EXCEPT ![s].state = state],
             Adds({requests'}, {}), requests' \in [Requests -> Entry]
      PROVE  MapKeeps /\ Grows({})
  <2>1. s \in Requests /\ requests[s].state \in Unfinished
    BY DEF LiveOn, Live
  <2>2. \A r \in Requests \ {s} : requests'[r] = requests[r]
    BY <1>2 DEF Typing, TypeOK
  <2>3. requests'[s].state \in Unfinished /\ requests'[s].generation = requests[s].generation
    BY <1>2, <2>1 DEF Typing, TypeOK, Entry
  <2> QED BY <1>2, <2>1, <2>2, <2>3 DEF MapKeeps, Typing, GenerationBounded, Unfinished, Adds
<1> QED BY <1>1, <1>2, MoveShape DEF Typing

\* Saving the map the step leaves.
LEMMA SaveGrows ==
  ASSUME Typing, NEW w \in SUBSET Requests, requests' \in [Requests -> Entry],
         queue' = Enqueue(queue, requests', w)
  PROVE  Grows(w)
<1>1. PICK n \in [Requests -> Entry] : n = requests'
  OBVIOUS
<1>2. queue' = Enqueue(queue, n, w)
  BY <1>1
<1> QED BY <1>2, AddsOne DEF Typing, Adds

\* Saving it twice, as progress() and flush() do.
LEMMA SaveTwiceGrows ==
  ASSUME Typing, NEW w \in SUBSET Requests, requests' \in [Requests -> Entry],
         queue' = Enqueue(Enqueue(queue, requests', {}), requests', w)
  PROVE  Grows(w)
<1>1. PICK n \in [Requests -> Entry] : n = requests'
  OBVIOUS
<1>2. queue' = Enqueue(Enqueue(queue, n, {}), n, w)
  BY <1>1
<1> QED BY <1>2, AddsTwo DEF Typing, Adds

\* The step StartNothing keeps Typing.
LEMMA StartNothingTypes ==
  ASSUME Typing, NEW r \in Requests, StartNothing(r)
  PROVE  Typing'
<1>1. MapKeeps /\ Grows({})
  BY NothingKeeps DEF StartNothing, Go, Rest, store, history
<1>2. DriversKeep({})
  BY <1>1 DEF StartNothing, Go, Rest, store, history, DriversKeep, MapKeeps, Typing, TypeOK,
     Present
<1>3. TypeOK'
  BY <1>1, BoundsAreNatural DEF StartNothing, Go, Rest, store, history, MapKeeps, Grows, Typing,
     TypeOK, Parked
<1>4. EffectRoom'
  BY DEF StartNothing, Go, Rest, store, history, Typing, EffectRoom, TypeOK
<1> QED BY <1>1, <1>2, <1>3, <1>4, Advance

\* The step BeginStep keeps Typing.
LEMMA BeginStepTypes ==
  ASSUME Typing, NEW r \in Requests, BeginStep(r)
  PROVE  Typing'
<1>1. MapKeeps /\ Grows({})
  BY NothingKeeps DEF BeginStep, Go, Rest, store, history
<1>2. DriversKeep({})
  BY <1>1 DEF BeginStep, Go, Rest, store, history, DriversKeep, MapKeeps, Typing, TypeOK, Present
<1>3. TypeOK'
  BY <1>1, BoundsAreNatural DEF BeginStep, Go, Rest, store, history, MapKeeps, Grows, Typing,
     TypeOK, Parked
<1>4. EffectRoom'
  BY DEF BeginStep, Go, Rest, store, history, Typing, EffectRoom, TypeOK
<1> QED BY <1>1, <1>2, <1>3, <1>4, Advance

\* The step Proceed keeps Typing.
LEMMA ProceedTypes ==
  ASSUME Typing, NEW r \in Requests, Proceed(r)
  PROVE  Typing'
<1>1. MapKeeps /\ Grows({})
  BY NothingKeeps DEF Proceed, Go, Rest, store, history
<1>2. DriversKeep({})
  BY <1>1 DEF Proceed, Go, Rest, store, history, DriversKeep, MapKeeps, Typing, TypeOK, Present
<1>3. TypeOK'
  BY <1>1, BoundsAreNatural DEF Proceed, Go, Rest, store, history, MapKeeps, Grows, Typing,
     TypeOK, Parked
<1>4. EffectRoom'
  BY DEF Proceed, Go, Rest, store, history, Typing, EffectRoom, TypeOK
<1> QED BY <1>1, <1>2, <1>3, <1>4, Advance

\* The step Decline keeps Typing.
LEMMA DeclineTypes ==
  ASSUME Typing, NEW r \in Requests, Decline(r)
  PROVE  Typing'
<1>1. MapKeeps /\ Grows({})
  BY NothingKeeps DEF Decline, Go, Rest, store, history
<1>2. DriversKeep({})
  BY <1>1 DEF Decline, Go, Rest, store, history, DriversKeep, MapKeeps, Typing, TypeOK, Present
<1>3. TypeOK'
  BY <1>1, BoundsAreNatural DEF Decline, Go, Rest, store, history, MapKeeps, Grows, Typing,
     TypeOK, Parked
<1>4. EffectRoom'
  BY DEF Decline, Go, Rest, store, history, Typing, EffectRoom, TypeOK
<1> QED BY <1>1, <1>2, <1>3, <1>4, Advance

\* The step Claim keeps Typing.
LEMMA ClaimTypes ==
  ASSUME Typing, NEW r \in Requests, Claim(r)
  PROVE  Typing'
<1>1. MapKeeps /\ Grows({})
  BY NothingKeeps DEF Claim, Go, Rest, store, history
<1>2. DriversKeep({})
  BY <1>1 DEF Claim, Go, Rest, store, history, DriversKeep, MapKeeps, Typing, TypeOK, Present
<1>3. TypeOK'
  BY <1>1, BoundsAreNatural DEF Claim, Go, Rest, store, history, MapKeeps, Grows, Typing,
     TypeOK, Parked
<1>4. EffectRoom'
  BY DEF Claim, Go, Rest, store, history, Typing, EffectRoom, TypeOK
<1> QED BY <1>1, <1>2, <1>3, <1>4, Advance

\* The step Dispatch keeps Typing.
LEMMA DispatchTypes ==
  ASSUME Typing, NEW r \in Requests, Dispatch(r)
  PROVE  Typing'
<1>1. MapKeeps /\ Grows({})
  BY NothingKeeps DEF Dispatch, Go, Rest, store, history
<1>2. DriversKeep({})
  BY <1>1 DEF Dispatch, Go, Rest, store, history, DriversKeep, MapKeeps, Typing, TypeOK, Present
<1>3. TypeOK'
  BY <1>1, BoundsAreNatural DEF Dispatch, Go, Rest, store, history, MapKeeps, Grows, Typing,
     TypeOK, Parked, EffectRoom
<1>4. EffectRoom'
  BY DEF Dispatch, Go, Rest, store, history, Typing, EffectRoom, TypeOK
<1> QED BY <1>1, <1>2, <1>3, <1>4, Advance

\* The step Abandon keeps Typing.
LEMMA AbandonTypes ==
  ASSUME Typing, NEW r \in Requests, Abandon(r)
  PROVE  Typing'
<1>1. MapKeeps /\ Grows({})
  BY NothingKeeps DEF Abandon, Go, Rest, store, history
<1>2. DriversKeep({})
  BY <1>1 DEF Abandon, Go, Rest, store, history, DriversKeep, MapKeeps, Typing, TypeOK, Present
<1>3. TypeOK'
  BY <1>1, BoundsAreNatural DEF Abandon, Go, Rest, store, history, MapKeeps, Grows, Typing,
     TypeOK, Parked
<1>4. EffectRoom'
  BY DEF Abandon, Go, Rest, store, history, Typing, EffectRoom, TypeOK
<1> QED BY <1>1, <1>2, <1>3, <1>4, Advance

\* The step PerformReturn keeps Typing.
LEMMA PerformReturnTypes ==
  ASSUME Typing, NEW r \in Requests, PerformReturn(r)
  PROVE  Typing'
<1>1. MapKeeps /\ Grows({})
  BY NothingKeeps DEF PerformReturn, Go, Rest, store, history
<1>2. DriversKeep({})
  BY <1>1 DEF PerformReturn, Go, Rest, store, history, DriversKeep, MapKeeps, Typing, TypeOK,
     Present
<1>3. TypeOK'
  BY <1>1, BoundsAreNatural DEF PerformReturn, Go, Rest, store, history, MapKeeps, Grows,
     Typing, TypeOK, Parked
<1>4. EffectRoom'
  BY DEF PerformReturn, Go, Rest, store, history, Typing, EffectRoom, TypeOK
<1> QED BY <1>1, <1>2, <1>3, <1>4, Advance

\* The step Approve keeps Typing.
LEMMA ApproveTypes ==
  ASSUME Typing, NEW r \in Requests, Approve(r)
  PROVE  Typing'
<1>1. MapKeeps /\ Grows({})
  BY NothingKeeps DEF Approve, Go, Rest, store, history
<1>2. DriversKeep({})
  BY <1>1 DEF Approve, Go, Rest, store, history, DriversKeep, MapKeeps, Typing, TypeOK, Present
<1>3. TypeOK'
  BY <1>1, BoundsAreNatural DEF Approve, Go, Rest, store, history, MapKeeps, Grows, Typing,
     TypeOK, Parked
<1>4. EffectRoom'
  BY DEF Approve, Go, Rest, store, history, Typing, EffectRoom, TypeOK
<1> QED BY <1>1, <1>2, <1>3, <1>4, Advance

\* The step Choose keeps Typing.
LEMMA ChooseTypes ==
  ASSUME Typing, NEW r \in Requests, Choose(r)
  PROVE  Typing'
<1>1. MapKeeps /\ Grows({})
  BY NothingKeeps DEF Choose, Go, Rest, store, history
<1>2. DriversKeep({})
  BY <1>1 DEF Choose, Go, Rest, store, history, DriversKeep, MapKeeps, Typing, TypeOK, Present
<1>3. TypeOK'
  BY <1>1, BoundsAreNatural DEF Choose, Go, Rest, store, history, MapKeeps, Grows, Typing,
     TypeOK, Parked
<1>4. EffectRoom'
  BY DEF Choose, Go, Rest, store, history, Typing, EffectRoom, TypeOK
<1> QED BY <1>1, <1>2, <1>3, <1>4, Advance

\* The step Activity keeps Typing.
LEMMA ActivityTypes ==
  ASSUME Typing, NEW r \in Requests, Activity(r)
  PROVE  Typing'
<1>1. MapKeeps /\ Grows({})
  BY MoveKeeps, NothingKeeps, TabOfType DEF Activity, Progress, Go, Rest, store, history,
     Unfinished
<1>2. DriversKeep({})
  BY <1>1 DEF Activity, Go, Rest, store, history, DriversKeep, MapKeeps, Typing, TypeOK, Present
<1>3. TypeOK'
  BY <1>1, BoundsAreNatural DEF Activity, Go, Rest, store, history, MapKeeps, Grows, Typing,
     TypeOK, Parked, Progress, Alive, Live, Unfinished
<1>4. EffectRoom'
  BY DEF Activity, Go, Rest, store, history, Typing, EffectRoom, TypeOK, Progress, Alive, Live,
     Unfinished
<1> QED BY <1>1, <1>2, <1>3, <1>4, Advance

\* The step DiscoverSelect keeps Typing.
LEMMA DiscoverSelectTypes ==
  ASSUME Typing, NEW r \in Requests, DiscoverSelect(r)
  PROVE  Typing'
<1>1. MapKeeps /\ Grows({})
  BY MoveKeeps, NothingKeeps, TabOfType DEF DiscoverSelect, Progress, Go, Rest, store, history,
     Unfinished
<1>2. DriversKeep({})
  BY <1>1 DEF DiscoverSelect, Go, Rest, store, history, DriversKeep, MapKeeps, Typing, TypeOK,
     Present
<1>3. TypeOK'
  BY <1>1, BoundsAreNatural DEF DiscoverSelect, Go, Rest, store, history, MapKeeps, Grows,
     Typing, TypeOK, Parked, Progress, Alive, Live, Unfinished
<1>4. EffectRoom'
  BY DEF DiscoverSelect, Go, Rest, store, history, Typing, EffectRoom, TypeOK, Progress, Alive,
     Live, Unfinished
<1> QED BY <1>1, <1>2, <1>3, <1>4, Advance

\* The step DiscoverRun keeps Typing.
LEMMA DiscoverRunTypes ==
  ASSUME Typing, NEW r \in Requests, DiscoverRun(r)
  PROVE  Typing'
<1>1. MapKeeps /\ Grows({})
  BY MoveKeeps, NothingKeeps, TabOfType DEF DiscoverRun, Progress, Go, Rest, store, history,
     Unfinished
<1>2. DriversKeep({})
  BY <1>1 DEF DiscoverRun, Go, Rest, store, history, DriversKeep, MapKeeps, Typing, TypeOK,
     Present
<1>3. TypeOK'
  BY <1>1, BoundsAreNatural DEF DiscoverRun, Go, Rest, store, history, MapKeeps, Grows, Typing,
     TypeOK, Parked, Progress, Alive, Live, Unfinished
<1>4. EffectRoom'
  BY DEF DiscoverRun, Go, Rest, store, history, Typing, EffectRoom, TypeOK, Progress, Alive,
     Live, Unfinished
<1> QED BY <1>1, <1>2, <1>3, <1>4, Advance

\* The step StepProgress keeps Typing.
LEMMA StepProgressTypes ==
  ASSUME Typing, NEW r \in Requests, StepProgress(r)
  PROVE  Typing'
<1>1. MapKeeps /\ Grows({})
  BY MoveKeeps, NothingKeeps, TabOfType DEF StepProgress, Progress, Go, Rest, store, history,
     Unfinished
<1>2. DriversKeep({})
  BY <1>1 DEF StepProgress, Go, Rest, store, history, DriversKeep, MapKeeps, Typing, TypeOK,
     Present
<1>3. TypeOK'
  BY <1>1, BoundsAreNatural DEF StepProgress, Go, Rest, store, history, MapKeeps, Grows, Typing,
     TypeOK, Parked, Progress, Alive, Live, Unfinished
<1>4. EffectRoom'
  BY DEF StepProgress, Go, Rest, store, history, Typing, EffectRoom, TypeOK, Progress, Alive,
     Live, Unfinished
<1> QED BY <1>1, <1>2, <1>3, <1>4, Advance

\* The step StepWait keeps Typing.
LEMMA StepWaitTypes ==
  ASSUME Typing, NEW r \in Requests, StepWait(r)
  PROVE  Typing'
<1>1. MapKeeps /\ Grows({})
  BY MoveKeeps, NothingKeeps, TabOfType DEF StepWait, Progress, Go, Rest, store, history,
     Unfinished
<1>2. DriversKeep({})
  BY <1>1 DEF StepWait, Go, Rest, store, history, DriversKeep, MapKeeps, Typing, TypeOK, Present
<1>3. TypeOK'
  <2>1. PICK pc \in Parked : Go(r, pc)
    BY DEF StepWait, Parked
  <2>2. at' \in [Requests -> Parked]
    BY <2>1 DEF Go, Typing, TypeOK
  <2>3. UNCHANGED <<budget, runs>> /\ Rest
    BY DEF StepWait, Progress, store
  <2> QED BY <1>1, <2>2, <2>3 DEF Rest, MapKeeps, Grows, Typing, TypeOK
<1>4. EffectRoom'
  BY DEF StepWait, Go, Rest, store, history, Typing, EffectRoom, TypeOK, Progress, Alive, Live,
     Unfinished
<1> QED BY <1>1, <1>2, <1>3, <1>4, Advance

\* The step Start keeps Typing.
LEMMA StartTypes ==
  ASSUME Typing, NEW r \in Requests, Start(r)
  PROVE  Typing'
<1>1. /\ requests' \in [Requests -> Entry]
      /\ \A s \in Requests \ {r} : requests'[s] = requests[s]
      /\ requests'[r].state \in Unfinished /\ requests'[r].generation <= MaxGeneration
  <2>1. requests \in [Requests -> Entry] /\ requests[r].generation <= MaxGeneration
    BY DEF Start, Typing, TypeOK, GenerationBounded
  <2>2. PICK e : e = [requests[r] EXCEPT !.state = "ACCEPTED"]
    OBVIOUS
  <2>3. e \in Entry /\ e.state \in Unfinished /\ e.generation = requests[r].generation
    BY <2>1, <2>2 DEF Entry, States, Unfinished
  <2>4. requests' = [requests EXCEPT ![r] = e]
    BY <2>2 DEF Start
  <2> QED BY <2>1, <2>3, <2>4, Revised
<1>2. Grows({r})
  BY <1>1, SaveGrows DEF Start, Saves
<1>3. MapKeeps /\ Grows({r})
  BY <1>1, <1>2 DEF MapKeeps, Typing, GenerationBounded, Unfinished
<1>4. DriversKeep({r})
  BY <1>3 DEF Start, Go, Rest, store, history, DriversKeep, MapKeeps, Typing, TypeOK, Present
<1>5. TypeOK'
  BY <1>3, BoundsAreNatural DEF Start, Go, Rest, store, history, MapKeeps, Grows, Typing,
     TypeOK, Parked
<1>6. EffectRoom'
  BY DEF Start, Go, Rest, store, history, Typing, EffectRoom, TypeOK, Present
<1> QED BY <1>3, <1>4, <1>5, <1>6, Advance

\* The step StartRun keeps Typing.
LEMMA StartRunTypes ==
  ASSUME Typing, NEW r \in Requests, StartRun(r)
  PROVE  Typing'
<1>1. /\ requests' \in [Requests -> Entry]
      /\ \A s \in Requests \ {r} : requests'[s] = requests[s]
      /\ requests'[r].state \in Unfinished /\ requests'[r].generation <= MaxGeneration
  <2>1. requests \in [Requests -> Entry] /\ requests[r].generation <= MaxGeneration
    BY DEF StartRun, Typing, TypeOK, GenerationBounded, Unfinished
  <2>2. PICK e : e = [requests[r] EXCEPT !.state = "RUNNING"]
    OBVIOUS
  <2>3. e \in Entry /\ e.state \in Unfinished /\ e.generation = requests[r].generation
    BY <2>1, <2>2 DEF Entry, States, Unfinished
  <2>4. requests' = [requests EXCEPT ![r] = e]
    BY <2>2 DEF StartRun
  <2> QED BY <2>1, <2>3, <2>4, Revised
<1>2. Grows({})
  BY <1>1, SaveGrows DEF StartRun, Saves
<1>3. MapKeeps /\ Grows({})
  BY <1>1, <1>2 DEF MapKeeps, Typing, GenerationBounded, Unfinished
<1>4. requests[r].generation \in 0 .. MaxGeneration
  BY BoundsAreNatural DEF StartRun, Typing, TypeOK, GenerationBounded, Entry
<1>5. DriversKeep({})
  BY <1>3 DEF StartRun, Go, Rest, store, history, DriversKeep, MapKeeps, Typing, TypeOK, Present
<1>6. TypeOK'
  <2>1. PICK pc \in Parked : Go(r, pc)
    BY DEF StartRun, Parked
  <2>2. at' \in [Requests -> Parked]
    BY <2>1 DEF Go, Typing, TypeOK
  <2>3. bound' \in [Requests -> 0 .. MaxGeneration] /\ budget' \in SUBSET Requests
    BY <1>4 DEF StartRun, Typing, TypeOK
  <2> QED BY <1>3, <2>2, <2>3 DEF StartRun, history, MapKeeps, Grows, Typing, TypeOK
<1>7. EffectRoom'
  BY DEF StartRun, Go, Rest, store, history, Typing, EffectRoom, TypeOK
<1> QED BY <1>3, <1>5, <1>6, <1>7, Advance

\* The step Mark keeps Typing.
LEMMA MarkTypes ==
  ASSUME Typing, NEW r \in Requests, Mark(r)
  PROVE  Typing'
<1>1. /\ requests' \in [Requests -> Entry]
      /\ \A s \in Requests \ {r} : requests'[s] = requests[s]
      /\ requests'[r].state \in Unfinished /\ requests'[r].generation <= MaxGeneration
  <2>1. requests \in [Requests -> Entry] /\ requests[r].generation <= MaxGeneration
    BY DEF Mark, Typing, TypeOK, GenerationBounded, Alive, Live, Unfinished
  <2>2. PICK e : e = [requests[r] EXCEPT !.dispatched = TRUE, !.state = "RUNNING"]
    OBVIOUS
  <2>3. e \in Entry /\ e.state \in Unfinished /\ e.generation = requests[r].generation
    BY <2>1, <2>2 DEF Entry, States, Unfinished
  <2>4. requests' = [requests EXCEPT ![r] = e]
    BY <2>1, <2>2 DEF Mark
  <2> QED BY <2>1, <2>3, <2>4, Revised
<1>2. Grows({r})
  BY <1>1, SaveTwiceGrows DEF Mark, Saves
<1>3. MapKeeps /\ Grows({r})
  BY <1>1, <1>2 DEF MapKeeps, Typing, GenerationBounded, Unfinished
<1>4. DriversKeep({r})
  BY <1>3 DEF Mark, Go, Rest, store, history, DriversKeep, MapKeeps, Typing, TypeOK, Present
<1>5. TypeOK'
  BY <1>3, BoundsAreNatural DEF Mark, Go, Rest, store, history, MapKeeps, Grows, Typing, TypeOK,
     Parked
<1>6. EffectRoom'
  BY DEF Mark, Go, Rest, store, history, Typing, EffectRoom, TypeOK
<1> QED BY <1>3, <1>4, <1>5, <1>6, Advance

\* The step Resume keeps Typing.
LEMMA ResumeTypes ==
  ASSUME Typing, NEW r \in Requests, Resume(r)
  PROVE  Typing'
<1>1. requests[r].generation \in Nat /\ requests[r].generation + 1 \in 0 .. MaxGeneration
  BY BoundsAreNatural DEF Resume, Typing, TypeOK, Entry
<1>2. PICK g \in 0 .. MaxGeneration : g = requests[r].generation + 1
  BY <1>1
<1>3. requests' = [requests EXCEPT ![r].state = "RUNNING", ![r].generation = g]
  BY <1>2 DEF Resume
<1>4. /\ requests' \in [Requests -> Entry]
      /\ \A s \in Requests \ {r} : requests'[s] = requests[s]
      /\ requests'[r].state \in Unfinished /\ requests'[r].generation <= MaxGeneration
  <2>1. requests \in [Requests -> Entry]
    BY DEF Typing, TypeOK
  <2>2. PICK e : e = [requests[r] EXCEPT !.state = "RUNNING", !.generation = g]
    OBVIOUS
  <2>3. g \in 0 .. MaxGeneration + 1 /\ g <= MaxGeneration
    BY <1>2, BoundsAreNatural
  <2>4. e \in Entry /\ e.state \in Unfinished /\ e.generation = g
    BY <2>1, <2>2, <2>3 DEF Entry, States, Unfinished
  <2>5. requests' = [requests EXCEPT ![r] = e]
    BY <1>3, <2>1, <2>2
  <2> QED BY <2>1, <2>3, <2>4, <2>5, Revised
<1>5. Grows({})
  BY <1>4, SaveGrows DEF Resume, Saves
<1>6. MapKeeps /\ Grows({})
  BY <1>4, <1>5 DEF MapKeeps, Typing, GenerationBounded, Unfinished
<1>7. DriversKeep({})
  BY <1>6 DEF Resume, Go, Rest, store, history, DriversKeep, MapKeeps, Typing, TypeOK, Present
<1>8. TypeOK'
  BY <1>6, <1>1, BoundsAreNatural DEF Resume, Go, Rest, store, history, MapKeeps, Grows, Typing,
     TypeOK, Parked
<1>9. EffectRoom'
  BY DEF Resume, Go, Rest, store, history, Typing, EffectRoom, TypeOK
<1> QED BY <1>6, <1>7, <1>8, <1>9, Advance

\* The step StartRefused keeps Typing.
LEMMA StartRefusedTypes ==
  ASSUME Typing, NEW r \in Requests, StartRefused(r)
  PROVE  Typing'
<1>1. /\ MapKeeps /\ Grows({})
      /\ budget' \in SUBSET Requests /\ runs' \in [Tabs -> Requests \cup {NoRequest}]
  BY EndKeeps, NothingKeeps DEF StartRefused, Go, Rest, store, history, Outcomes, Typing, TypeOK
<1>2. DriversKeep({})
  BY <1>1 DEF StartRefused, Go, Rest, store, history, DriversKeep, MapKeeps, Typing, TypeOK,
     Present
<1>3. TypeOK'
  BY <1>1, BoundsAreNatural DEF StartRefused, Go, Rest, store, history, MapKeeps, Grows, Typing,
     TypeOK, Parked
<1>4. EffectRoom'
  BY DEF StartRefused, Go, Rest, store, history, Typing, EffectRoom, TypeOK
<1> QED BY <1>1, <1>2, <1>3, <1>4, Advance

\* The step Expire keeps Typing.
LEMMA ExpireTypes ==
  ASSUME Typing, NEW r \in Requests, Expire(r)
  PROVE  Typing'
<1>1. /\ MapKeeps /\ Grows({})
      /\ budget' \in SUBSET Requests /\ runs' \in [Tabs -> Requests \cup {NoRequest}]
  BY EndKeeps, NothingKeeps DEF Expire, Go, Rest, store, history, Outcomes, Typing, TypeOK
<1>2. DriversKeep({})
  BY <1>1 DEF Expire, Go, Rest, store, history, DriversKeep, MapKeeps, Typing, TypeOK, Present
<1>3. TypeOK'
  BY <1>1, BoundsAreNatural DEF Expire, Go, Rest, store, history, MapKeeps, Grows, Typing,
     TypeOK, Parked
<1>4. EffectRoom'
  BY DEF Expire, Go, Rest, store, history, Typing, EffectRoom, TypeOK
<1> QED BY <1>1, <1>2, <1>3, <1>4, Advance

\* The step DiscoverFail keeps Typing.
LEMMA DiscoverFailTypes ==
  ASSUME Typing, NEW r \in Requests, DiscoverFail(r)
  PROVE  Typing'
<1>1. /\ MapKeeps /\ Grows({})
      /\ budget' \in SUBSET Requests /\ runs' \in [Tabs -> Requests \cup {NoRequest}]
  BY EndKeeps, MoveKeeps, NothingKeeps, TabOfType DEF DiscoverFail, Progress, Go, Rest, store,
     history, Outcomes, Unfinished, Typing, TypeOK
<1>2. DriversKeep({})
  BY <1>1 DEF DiscoverFail, Go, Rest, store, history, DriversKeep, MapKeeps, Typing, TypeOK,
     Present
<1>3. TypeOK'
  BY <1>1, BoundsAreNatural DEF DiscoverFail, Go, Rest, store, history, MapKeeps, Grows, Typing,
     TypeOK, Parked
<1>4. EffectRoom'
  BY DEF DiscoverFail, Go, Rest, store, history, Typing, EffectRoom, TypeOK
<1> QED BY <1>1, <1>2, <1>3, <1>4, Advance

\* The step StepFail keeps Typing.
LEMMA StepFailTypes ==
  ASSUME Typing, NEW r \in Requests, StepFail(r)
  PROVE  Typing'
<1>1. /\ MapKeeps /\ Grows({})
      /\ budget' \in SUBSET Requests /\ runs' \in [Tabs -> Requests \cup {NoRequest}]
  BY EndKeeps, NothingKeeps DEF StepFail, Go, Rest, store, history, Outcomes, Typing, TypeOK
<1>2. DriversKeep({})
  BY <1>1 DEF StepFail, Go, Rest, store, history, DriversKeep, MapKeeps, Typing, TypeOK, Present
<1>3. TypeOK'
  BY <1>1, BoundsAreNatural DEF StepFail, Go, Rest, store, history, MapKeeps, Grows, Typing,
     TypeOK, Parked
<1>4. EffectRoom'
  BY DEF StepFail, Go, Rest, store, history, Typing, EffectRoom, TypeOK
<1> QED BY <1>1, <1>2, <1>3, <1>4, Advance

\* The step StepEnd keeps Typing.
LEMMA StepEndTypes ==
  ASSUME Typing, NEW r \in Requests, StepEnd(r)
  PROVE  Typing'
<1>1. /\ MapKeeps /\ Grows({})
      /\ budget' \in SUBSET Requests /\ runs' \in [Tabs -> Requests \cup {NoRequest}]
  BY EndTabKeeps, TabOfType DEF StepEnd, Go, Rest, store, history, Outcomes
<1>2. DriversKeep({})
  BY <1>1 DEF StepEnd, Go, Rest, store, history, DriversKeep, MapKeeps, Typing, TypeOK, Present
<1>3. TypeOK'
  BY <1>1, BoundsAreNatural DEF StepEnd, Go, Rest, store, history, MapKeeps, Grows, Typing,
     TypeOK, Parked
<1>4. EffectRoom'
  BY DEF StepEnd, Go, Rest, store, history, Typing, EffectRoom, TypeOK
<1> QED BY <1>1, <1>2, <1>3, <1>4, Advance

\* The step Reject keeps Typing.
LEMMA RejectTypes ==
  ASSUME Typing, NEW r \in Requests, Reject(r)
  PROVE  Typing'
<1>1. /\ MapKeeps /\ Grows({})
      /\ budget' \in SUBSET Requests /\ runs' \in [Tabs -> Requests \cup {NoRequest}]
  BY EndTabKeeps, NothingKeeps, TabOfType DEF Reject, Go, Rest, store, history, Outcomes,
     Typing, TypeOK
<1>2. DriversKeep({})
  BY <1>1 DEF Reject, Go, Rest, store, history, DriversKeep, MapKeeps, Typing, TypeOK, Present
<1>3. TypeOK'
  BY <1>1, BoundsAreNatural DEF Reject, Go, Rest, store, history, MapKeeps, Grows, Typing,
     TypeOK, Parked
<1>4. EffectRoom'
  BY DEF Reject, Go, Rest, store, history, Typing, EffectRoom, TypeOK
<1> QED BY <1>1, <1>2, <1>3, <1>4, Advance

\* The step PageChange keeps Typing.
LEMMA PageChangeTypes ==
  ASSUME Typing, NEW t \in Tabs, PageChange(t)
  PROVE  Typing'
<1>1. /\ MapKeeps /\ Grows({})
      /\ budget' \in SUBSET Requests /\ runs' \in [Tabs -> Requests \cup {NoRequest}]
  BY EndTabKeeps DEF PageChange, Go, Rest, store, history, Outcomes
<1>2. DriversKeep({})
  BY <1>1 DEF PageChange, Go, Rest, store, history, DriversKeep, MapKeeps, Typing, TypeOK, Present
<1>3. TypeOK'
  BY <1>1, BoundsAreNatural DEF PageChange, Go, Rest, store, history, MapKeeps, Grows, Typing,
     TypeOK, Parked
<1>4. EffectRoom'
  BY DEF PageChange, Go, Rest, store, history, Typing, EffectRoom, TypeOK
<1> QED BY <1>1, <1>2, <1>3, <1>4, Advance

\* The step StopAll keeps Typing.
LEMMA StopAllTypes ==
  ASSUME Typing, NEW t \in Tabs, StopAll(t)
  PROVE  Typing'
<1>1. /\ MapKeeps /\ Grows({})
      /\ budget' \in SUBSET Requests /\ runs' \in [Tabs -> Requests \cup {NoRequest}]
  BY EndTabKeeps DEF StopAll, Go, Rest, store, history, Outcomes
<1>2. DriversKeep({})
  BY <1>1 DEF StopAll, Go, Rest, store, history, DriversKeep, MapKeeps, Typing, TypeOK, Present
<1>3. TypeOK'
  BY <1>1, BoundsAreNatural DEF StopAll, Go, Rest, store, history, MapKeeps, Grows, Typing,
     TypeOK, Parked
<1>4. EffectRoom'
  BY DEF StopAll, Go, Rest, store, history, Typing, EffectRoom, TypeOK
<1> QED BY <1>1, <1>2, <1>3, <1>4, Advance

\* The step Cancel keeps Typing.
LEMMA CancelTypes ==
  ASSUME Typing, NEW r \in Requests, Cancel(r)
  PROVE  Typing'
<1>1. PICK m \in [Requests -> Entry] :
        /\ m = [requests EXCEPT ![r].generation = @ + 1] /\ EndIn(m, r, "CANCELLED")
  <2>1. requests[r].generation + 1 \in 0 .. MaxGeneration + 1
    <3>1. requests[r].generation \in 0 .. MaxGeneration + 1
      BY DEF Typing, TypeOK, Entry
    <3>2. requests[r].generation <= MaxGeneration
      BY DEF Cancel, Live, Unfinished, Typing, GenerationBounded
    <3> QED BY <3>1, <3>2, BoundsAreNatural
  <2>2. [requests EXCEPT ![r].generation = @ + 1] \in [Requests -> Entry]
    BY <2>1 DEF Typing, TypeOK, Entry
  <2>3. PICK m : m = [requests EXCEPT ![r].generation = @ + 1]
    OBVIOUS
  <2>4. EndIn(m, r, "CANCELLED")
    BY <2>3 DEF Cancel
  <2> QED BY <2>2, <2>3, <2>4
<1>2. "CANCELLED" \in Outcomes /\ \A s \in Requests \ {r} : m[s] = requests[s]
  BY <1>1 DEF Outcomes, Typing, TypeOK
<1>3. /\ MapKeeps /\ Grows({})
      /\ budget' \in SUBSET Requests /\ runs' \in [Tabs -> Requests \cup {NoRequest}]
  BY <1>1, <1>2, EndInKeeps
<1>4. DriversKeep({})
  BY <1>3 DEF Cancel, Go, Rest, store, history, DriversKeep, MapKeeps, Typing, TypeOK, Present
<1>5. TypeOK'
  BY <1>3, BoundsAreNatural DEF Cancel, Go, Rest, store, history, MapKeeps, Grows, Typing,
     TypeOK, Parked
<1>6. EffectRoom'
  BY DEF Cancel, Go, Rest, store, history, Typing, EffectRoom, TypeOK
<1> QED BY <1>3, <1>4, <1>5, <1>6, Advance

\* The step MarkRefused keeps Typing.
LEMMA MarkRefusedTypes ==
  ASSUME Typing, NEW r \in Requests, MarkRefused(r)
  PROVE  Typing'
<1>1. PICK m \in [Requests -> Entry] : m = [requests EXCEPT ![r].dispatched = FALSE]
  BY DEF Typing, TypeOK, Entry
<1>2. "FAILED" \in Outcomes /\ \A s \in Requests \ {r} : m[s] = requests[s]
  BY <1>1 DEF Outcomes, Typing, TypeOK
<1>3. /\ MapKeeps /\ Grows({})
      /\ budget' \in SUBSET Requests /\ runs' \in [Tabs -> Requests \cup {NoRequest}]
  <2>1. CASE Live(r)
    BY <1>1, <1>2, <2>1, EndInKeeps DEF MarkRefused
  <2>2. CASE ~Live(r)
    <3>1. requests' = m /\ queue' = queue /\ UNCHANGED <<budget, runs>>
      BY <1>1, <2>2 DEF MarkRefused
    <3>2. requests[r].state # "ABSENT"
      BY DEF MarkRefused, Typing, Present
    <3>3. m[r].state = requests[r].state /\ m[r].generation = requests[r].generation
      BY <1>1 DEF Typing, TypeOK, Entry
    <3> QED BY <1>2, <3>1, <3>2, <3>3 DEF MapKeeps, Grows, Typing, TypeOK, GenerationBounded
  <2> QED BY <2>1, <2>2
<1>4. DriversKeep({})
  BY <1>3 DEF MarkRefused, Go, Rest, store, history, DriversKeep, MapKeeps, Typing, TypeOK,
     Present
<1>5. TypeOK'
  BY <1>3, BoundsAreNatural DEF MarkRefused, Go, Rest, store, history, MapKeeps, Grows, Typing,
     TypeOK, Parked
<1>6. EffectRoom'
  BY DEF MarkRefused, Go, Rest, store, history, Typing, EffectRoom, TypeOK
<1> QED BY <1>3, <1>4, <1>5, <1>6, Advance

\* What is left of the saves when the oldest was answered.
LEMMA TailShape ==
  ASSUME NEW q \in Seq(Save), q # <<>>
  PROVE  /\ Tail(q) \in Seq(Save) /\ Len(Tail(q)) = Len(q) - 1 /\ Len(q) \in Nat \ {0}
         /\ \A i \in 1 .. Len(Tail(q)) : i + 1 \in 1 .. Len(q) /\ Tail(q)[i] = q[i + 1]
         /\ Head(q) \in Save /\ Head(q) = q[1] /\ 1 \in 1 .. Len(q)
OBVIOUS

\* The oldest save was answered: its drivers go on to first or second.
LEMMA AnswerTypes ==
  ASSUME Typing, queue # <<>>, queue' = Tail(queue), requests' = requests, effects' = effects,
         NEW first \in {"stored", "unstored"}, NEW second \in {"marked", "unmarked"},
         at' = [r \in Requests |->
                  IF ~Woken(r) THEN at[r] ELSE IF at[r] = "flushing" THEN first ELSE second],
         TypeOK'
  PROVE  Typing'
<1> DEFINE q == queue
<1>1. /\ Tail(q) \in Seq(Save) /\ Len(Tail(q)) = Len(q) - 1 /\ Len(q) \in Nat \ {0}
      /\ \A i \in 1 .. Len(Tail(q)) : i + 1 \in 1 .. Len(q) /\ Tail(q)[i] = q[i + 1]
      /\ Head(q) \in Save /\ Head(q) = q[1] /\ 1 \in 1 .. Len(q)
  BY TailShape DEF Typing, TypeOK
<1>2. \A r \in Requests : Woken(r) => at[r] \in {"flushing", "marking"}
  BY <1>1 DEF Woken, Typing, Waiters
<1>3. GenerationBounded'
  BY DEF Typing, GenerationBounded
<1>4. EffectRoom'
  BY <1>2 DEF Typing, TypeOK, EffectRoom
<1>5. Present'
  BY <1>2 DEF Typing, TypeOK, Present
<1>6. \A i \in 1 .. Len(queue') : i + 1 \in 1 .. Len(queue) /\ queue'[i] = queue[i + 1]
  BY <1>1
<1>7. Waiters'
  <2>1. SUFFICES ASSUME NEW i \in 1 .. Len(queue'), NEW r \in queue'[i].wakes
                 PROVE  at'[r] \in {"flushing", "marking"}
    BY DEF Waiters
  <2>2. r \in queue[i + 1].wakes /\ i + 1 \in 1 .. Len(queue) /\ queue[i + 1] \in Save
    BY <1>6 DEF Typing, TypeOK
  <2>3. r \in Requests /\ at[r] \in {"flushing", "marking"}
    BY <2>2 DEF Save, Typing, Waiters
  <2>4. ~Woken(r)
    <3>1. ASSUME Woken(r) PROVE r \in queue[1].wakes \cap queue[i + 1].wakes
      BY <1>1, <2>2, <3>1 DEF Woken
    <3>2. i + 1 # 1
      OBVIOUS
    <3> QED BY <1>1, <2>2, <3>1, <3>2 DEF Typing, OneWaiter
  <2> QED BY <2>3, <2>4
<1>8. OneWaiter'
  <2>1. SUFFICES ASSUME NEW i \in 1 .. Len(queue'), NEW j \in 1 .. Len(queue'),
                        queue'[i].wakes \cap queue'[j].wakes # {}
                 PROVE  i = j
    BY DEF OneWaiter
  <2>2. i + 1 = j + 1
    BY <1>6, <2>1 DEF Typing, OneWaiter
  <2> QED BY <2>2
<1> QED BY <1>3, <1>4, <1>5, <1>7, <1>8 DEF Typing

\* The step SaveOk keeps Typing.
LEMMA SaveOkTypes ==
  ASSUME Typing, SaveOk
  PROVE  Typing'
<1>1. Tail(queue) \in Seq(Save) /\ Head(queue) \in Save
  BY TailShape DEF SaveOk, Typing, TypeOK
<1>2. TypeOK'
  BY <1>1 DEF SaveOk, history, Typing, TypeOK, Parked, Save
<1> QED BY <1>2, AnswerTypes DEF SaveOk, history

\* The step SaveFail keeps Typing.
LEMMA SaveFailTypes ==
  ASSUME Typing, SaveFail
  PROVE  Typing'
<1>1. Tail(queue) \in Seq(Save)
  BY TailShape DEF SaveFail, Typing, TypeOK
<1>2. TypeOK'
  BY <1>1, BoundsAreNatural DEF SaveFail, Typing, TypeOK, Parked
<1> QED BY <1>2, AnswerTypes DEF SaveFail

\* The step Restart keeps Typing.
LEMMA RestartTypes ==
  ASSUME Typing, Restart
  PROVE  Typing'
<1>1. disk' \in [Requests -> Row]
  <2>1. \A i \in 1 .. (IF queue = <<>> THEN 0 ELSE 1) : queue[i].rows \in [Requests -> Row]
    <3>1. CASE queue = <<>>
      BY <3>1
    <3>2. CASE queue # <<>>
      <4>1. queue[1] \in Save
        BY <3>2, TailShape DEF Typing, TypeOK
      <4>2. queue[1].rows \in [Requests -> Row]
        BY <4>1 DEF Save
      <4> QED BY <3>2, <4>2
    <3> QED BY <3>1, <3>2
  <2> QED BY <2>1 DEF Restart, Typing, TypeOK
<1>2. \A row \in Row :
        /\ Restored(row) \in Entry
        /\ Restored(row).state = "ABSENT" => Restored(row).generation = 0
        /\ Restored(row).state \in {"ABSENT", "TERMINAL"}
  BY BoundsAreNatural DEF Restored, Row, Entry, States, Unfinished, Outcomes
<1>3. /\ requests' \in [Requests -> Entry]
      /\ \A r \in Requests : requests'[r] = Restored(disk'[r])
  BY <1>1, <1>2 DEF Restart
<1>4. queue' \in Seq(Save) /\ Len(queue') = 1 /\ queue'[1].wakes = {}
  <2>1. PICK n \in [Requests -> Entry] : n = requests'
    BY <1>3
  <2>2. [rows |-> Snapshot(n), wakes |-> {}] \in Save
    BY SnapshotType DEF Save
  <2>3. queue' = <<[rows |-> Snapshot(n), wakes |-> {}]>>
    BY <2>1 DEF Restart
  <2> QED BY <2>2, <2>3
<1>5. TypeOK'
  BY <1>1, <1>3, <1>4, BoundsAreNatural DEF Restart, Typing, TypeOK, Parked
<1>6. GenerationBounded'
  BY <1>1, <1>2, <1>3, BoundsAreNatural DEF GenerationBounded
<1>7. EffectRoom' /\ Waiters' /\ OneWaiter'
  BY <1>4 DEF Restart, EffectRoom, Waiters, OneWaiter
<1>8. Present'
  BY DEF Restart, Present
<1> QED BY <1>5, <1>6, <1>7, <1>8 DEF Typing

\* The worker starts typed.
LEMMA TypingInit ==
  ASSUME Init
  PROVE  Typing
<1>1. TypeOK
  <2>1. Absent \in Entry /\ NoRow \in Row
    BY BoundsAreNatural DEF Absent, NoRow, Entry, Row, States, NoOutcome
  <2> QED BY <2>1, BoundsAreNatural DEF Init, TypeOK, Parked
<1>2. GenerationBounded /\ EffectRoom /\ Waiters /\ OneWaiter /\ Present
  BY BoundsAreNatural DEF Init, Absent, GenerationBounded, EffectRoom, Waiters, OneWaiter, Present
<1> QED BY <1>1, <1>2 DEF Typing

\* Every step keeps Typing.
LEMMA TypingStep ==
  ASSUME Typing, [Next]_vars
  PROVE  Typing'
<1>1. CASE UNCHANGED vars
  BY <1>1 DEF vars, Typing, TypeOK, GenerationBounded, EffectRoom, Waiters, OneWaiter, Present
<1>2. ASSUME NEW r \in Requests,
             Handler(r) \/ Discovery(r) \/ Step(r) \/ Panel(r) \/ Expire(r)
      PROVE  Typing'
  <2>1. CASE Handler(r)
    BY <2>1, StartTypes, StartRunTypes, StartNothingTypes, StartRefusedTypes DEF Handler
  <2>2. CASE Discovery(r)
    BY <2>2, ActivityTypes, DiscoverSelectTypes, DiscoverRunTypes, DiscoverFailTypes DEF Discovery
  <2>3. CASE Step(r)
    BY <2>3, BeginStepTypes, StepProgressTypes, StepWaitTypes, StepEndTypes, StepFailTypes,
       ProceedTypes, DeclineTypes, ClaimTypes, MarkTypes, DispatchTypes, AbandonTypes,
       MarkRefusedTypes, PerformReturnTypes DEF Step
  <2>4. CASE Panel(r)
    BY <2>4, ApproveTypes, RejectTypes, ResumeTypes, ChooseTypes, CancelTypes DEF Panel
  <2>5. CASE Expire(r)
    BY <2>5, ExpireTypes
  <2> QED BY <1>2, <2>1, <2>2, <2>3, <2>4, <2>5
<1>3. ASSUME NEW t \in Tabs, PageChange(t) \/ StopAll(t)
      PROVE  Typing'
  BY <1>3, PageChangeTypes, StopAllTypes
<1>4. CASE Storage \/ Restart
  BY <1>4, SaveOkTypes, SaveFailTypes, RestartTypes DEF Storage
<1> QED BY <1>1, <1>2, <1>3, <1>4 DEF Next

\* Every state of every behaviour is typed: in particular a driver is woken
\* only while it is parked on a save, and no bound of the model is passed.
THEOREM TypeCorrect == Spec => []TypeOK
<1>1. Init => Typing
  BY TypingInit
<1>2. Typing /\ [Next]_vars => Typing'
  BY TypingStep
<1>3. Typing => TypeOK
  BY DEF Typing
<1> QED BY <1>1, <1>2, <1>3, PTL DEF Spec

-----------------------------------------------------------------------------
(* The other parts of the invariant.                                       *)

Strong == Ownership /\ Telling /\ CaughtUp

\* Of the unfinished requests those of E end, with their runs and their timers.
Owns(E) ==
  /\ \A r \in Requests : requests'[r].state \in Unfinished <=> Live(r) /\ r \notin E
  /\ \A t \in Tabs :
       \/ runs'[t] = NoRequest
       \/ runs'[t] = runs[t] /\ runs[t] \notin E
       \/ runs'[t] \in Requests \ E /\ Live(runs'[t]) /\ TabOf[runs'[t]] = t
  /\ budget \ E \subseteq budget'

\* The maps that are saved agree with the one the step leaves on unfinished
\* requests, and contradict no marker.
MapsTell(Maps) ==
  \A r \in Requests :
    /\ requests'[r].state # "TERMINAL" =>
         /\ requests[r].state # "TERMINAL" /\ requests'[r].outcome = NoOutcome
         /\ requests[r].dispatched => requests'[r].dispatched
    /\ \A m \in Maps \cup {requests'} :
         /\ m \in [Requests -> Entry] /\ Blank(m[r])
         /\ requests'[r].state # "TERMINAL" => m[r] = requests'[r]
         /\ r \notin refused' /\ Told(requests[r]) => Told(m[r])

\* The map is saved as the step leaves it, unless it did not change.
Settled == SavesLatest \/ UNCHANGED <<requests, queue>> \/ failures # 0

Shape(w) == Settled /\ \E Maps \in SUBSET [Requests -> Entry] : Adds(Maps, w) /\ MapsTell(Maps)

\* How drivers may move.
DriversAdvance ==
  \A r \in Requests :
    /\ at'[r] \in Driving => at[r] \in Driving \/ r \in budget'
    /\ at'[r] = "marked" => at[r] = "marked"
    /\ at'[r] = "marking" =>
         \/ at[r] = "marking"
         \/ at[r] # "flushing" /\ (requests'[r].state \in Unfinished => requests'[r].dispatched)
    /\ at'[r] = "unmarked" => at[r] = "unmarked"
    /\ requests'[r].state \in Unfinished => Live(r) \/ at'[r] = "flushing"

\* A step of this shape keeps Ownership.
LEMMA CarryOwnership ==
  ASSUME Typing, Ownership, NEW E, Owns(E), DriversAdvance
  PROVE  Ownership'
<1>1. OneOnTab'
  BY DEF Ownership, OneOnTab, Owns, Live
<1>2. Budgeted'
  BY DEF Ownership, Budgeted, Owns, Live, DriversAdvance
<1>3. ActiveRunIsOwned'
  <2>1. SUFFICES ASSUME NEW t \in Tabs, runs'[t] # NoRequest
                 PROVE  /\ runs'[t] \in Requests /\ TabOf[runs'[t]] = t
                        /\ requests'[runs'[t]].state \in Unfinished
    BY DEF ActiveRunIsOwned, LiveOn, Live
  <2>2. CASE runs'[t] = runs[t] /\ runs[t] \notin E
    <3>1. runs[t] \in Requests /\ TabOf[runs[t]] = t /\ Live(runs[t])
      BY <2>1, <2>2 DEF Ownership, ActiveRunIsOwned, LiveOn
    <3> QED BY <2>2, <3>1 DEF Owns
  <2>3. CASE runs'[t] \in Requests \ E /\ Live(runs'[t]) /\ TabOf[runs'[t]] = t
    BY <2>3 DEF Owns
  <2> QED BY <2>1, <2>2, <2>3 DEF Owns
<1> QED BY <1>1, <1>2, <1>3 DEF Ownership

\* What a saved row says of an entry.
LEMMA RowFields ==
  ASSUME NEW m \in [Requests -> Entry], NEW r \in Requests
  PROVE  /\ Snapshot(m)[r].dispatched = m[r].dispatched
         /\ Snapshot(m)[r].outcome = m[r].outcome
         /\ Snapshot(m)[r].state = "UNFINISHED" <=> m[r].state \in Unfinished
         /\ Snapshot(m)[r].state = "ABSENT" <=> m[r].state = "ABSENT"
         /\ Snapshot(m)[r].state = "TERMINAL" <=> m[r].state = "TERMINAL"
BY DEF Snapshot, RowOf, Entry, States, Unfinished

\* A step of this shape keeps Telling.
LEMMA CarryTelling ==
  ASSUME Typing, Telling, NEW w, Shape(w), DriversAdvance,
         UNCHANGED <<disk, effects>>, refused \subseteq refused'
  PROVE  Telling'
<1>1. PICK Maps \in SUBSET [Requests -> Entry] : Adds(Maps, w) /\ MapsTell(Maps)
  BY DEF Shape
<1>2. \A i \in 1 .. Len(queue') :
        \/ i \in 1 .. Len(queue) /\ queue'[i] = queue[i]
        \/ i > Len(queue) /\ \E m \in Maps : queue'[i].rows = Snapshot(m)
  BY <1>1 DEF Adds, Grows, Typing, TypeOK
<1>3. RowsBlank'
  <2>1. SUFFICES ASSUME NEW r \in Requests
                 PROVE  /\ Blank(requests'[r]) /\ Blank(disk[r])
                        /\ \A i \in 1 .. Len(queue') : Blank(queue'[i].rows[r])
    BY DEF RowsBlank
  <2>2. \A m \in Maps : Blank(Snapshot(m)[r])
    BY <1>1, RowFields DEF MapsTell, Blank
  <2> QED BY <1>1, <1>2, <2>2 DEF MapsTell, Telling, RowsBlank
<1>4. RowsOpen'
  <2>1. SUFFICES ASSUME NEW r \in Requests, requests'[r].state # "TERMINAL"
                 PROVE  /\ requests'[r].outcome = NoOutcome /\ Open(disk[r])
                        /\ \A i \in 1 .. Len(queue') : Open(queue'[i].rows[r])
    BY DEF RowsOpen
  <2>2. requests[r].state # "TERMINAL" /\ requests'[r].outcome = NoOutcome
    BY <1>1, <2>1 DEF MapsTell
  <2>3. \A m \in Maps : Open(Snapshot(m)[r])
    BY <1>1, <2>1, <2>2, RowFields DEF MapsTell, Open
  <2> QED BY <1>2, <2>2, <2>3 DEF Telling, RowsOpen
<1>5. ASSUME NEW r \in Requests, requests'[r].state \in Unfinished, requests'[r].dispatched,
             NEW i \in 1 .. Len(queue'), i > Len(queue)
      PROVE  Marked(queue'[i].rows[r])
  <2>1. PICK m \in Maps : queue'[i].rows = Snapshot(m)
    BY <1>1, <1>5 DEF Adds
  <2>2. m[r] = requests'[r] /\ m \in [Requests -> Entry]
    BY <1>1, <1>5, <2>1 DEF MapsTell, Unfinished
  <2> QED BY <1>5, <2>1, <2>2, RowFields DEF Marked
<1>6. ASSUME NEW r \in Requests, requests'[r].state \in Unfinished, at'[r] # "flushing"
      PROVE  Live(r) /\ (requests[r].dispatched => requests'[r].dispatched)
  BY <1>1, <1>6 DEF MapsTell, DriversAdvance, Unfinished
<1>7. MarkerWaits'
  <2>1. SUFFICES ASSUME NEW r \in Requests, at'[r] = "marking", requests'[r].state \in Unfinished
                 PROVE  /\ requests'[r].dispatched
                        /\ \A i, j \in 1 .. Len(queue') :
                             i <= j /\ r \in queue'[i].wakes => Marked(queue'[j].rows[r])
    BY DEF MarkerWaits, Live
  <2>2. requests'[r].dispatched
    BY <1>6, <2>1 DEF DriversAdvance, Telling, MarkerWaits
  <2>3. SUFFICES ASSUME NEW i \in 1 .. Len(queue'), NEW j \in 1 .. Len(queue'),
                        i <= j, r \in queue'[i].wakes
                 PROVE  Marked(queue'[j].rows[r])
    BY <2>2
  <2>4. CASE j \in 1 .. Len(queue)
    <3>1. i \in 1 .. Len(queue) /\ queue'[i] = queue[i] /\ queue'[j] = queue[j]
      BY <1>2, <2>3, <2>4
    <3>2. at[r] \in {"flushing", "marking"}
      BY <2>3, <3>1 DEF Typing, Waiters
    <3>3. at[r] = "marking" /\ Live(r)
      BY <1>6, <2>1, <3>2 DEF DriversAdvance
    <3> QED BY <2>3, <2>4, <3>1, <3>3 DEF Telling, MarkerWaits
  <2>5. CASE j > Len(queue)
    BY <1>5, <2>1, <2>2, <2>5
  <2> QED BY <1>2, <2>4, <2>5
<1>8. MarkerStored'
  <2>1. SUFFICES ASSUME NEW r \in Requests, at'[r] = "marked", requests'[r].state \in Unfinished
                 PROVE  /\ requests'[r].dispatched /\ Marked(disk[r])
                        /\ \A i \in 1 .. Len(queue') : Marked(queue'[i].rows[r])
    BY DEF MarkerStored, Live
  <2>2. at[r] = "marked" /\ Live(r) /\ (requests[r].dispatched => requests'[r].dispatched)
    BY <1>6, <2>1 DEF DriversAdvance
  <2> QED BY <1>2, <1>5, <2>1, <2>2 DEF Telling, MarkerStored
<1>9. EffectsTold'
  <2>1. SUFFICES ASSUME NEW r \in Requests \ refused', effects[r] > 0
                 PROVE  /\ Told(requests'[r]) /\ Told(disk[r])
                        /\ \A i \in 1 .. Len(queue') : Told(queue'[i].rows[r])
    BY DEF EffectsTold
  <2>2. /\ Told(requests[r]) /\ Told(disk[r])
        /\ \A i \in 1 .. Len(queue) : Told(queue[i].rows[r])
    BY <2>1 DEF Telling, EffectsTold
  <2>3. \A m \in Maps \cup {requests'} : m \in [Requests -> Entry] /\ Told(m[r])
    BY <1>1, <2>1, <2>2 DEF MapsTell
  <2>4. \A m \in Maps : Told(Snapshot(m)[r])
    BY <2>3, RowFields DEF Told
  <2> QED BY <1>2, <2>2, <2>3, <2>4
<1> QED BY <1>3, <1>4, <1>7, <1>8, <1>9 DEF Telling

\* A step of this shape keeps CaughtUp.
LEMMA CarryCaughtUp ==
  ASSUME Typing, CaughtUp, Settled, UNCHANGED <<disk, failures>>, DriversAdvance
  PROVE  CaughtUp'
<1>1. failures = 0 => \A r \in Requests : at'[r] # "unmarked"
  BY DEF CaughtUp, DriversAdvance
<1>2. failures = 0 => Latest' = Snapshot(requests')
  <2>1. CASE SavesLatest
    BY <2>1 DEF SavesLatest, Latest
  <2>2. CASE UNCHANGED <<requests, queue>>
    BY <2>2 DEF CaughtUp, Latest, Snapshot
  <2> QED BY <2>1, <2>2 DEF Settled
<1> QED BY <1>1, <1>2 DEF CaughtUp

\* A step of this shape keeps every part.
LEMMA Carry ==
  ASSUME Typing, Strong, NEW E, NEW w, Owns(E), Shape(w), DriversAdvance,
         UNCHANGED <<disk, effects, failures>>, refused \subseteq refused'
  PROVE  Strong'
BY CarryOwnership, CarryTelling, CarryCaughtUp DEF Strong, Shape

\* A step that saves nothing.
LEMMA NothingShape ==
  ASSUME Typing, Strong, UNCHANGED <<requests, queue>>
  PROVE  Shape({})
<1>1. Adds({}, {})
  BY NothingKeeps DEF Adds, Typing, TypeOK
<1>2. MapsTell({})
  BY DEF MapsTell, Typing, TypeOK, Strong, Telling, RowsOpen, RowsBlank
<1> QED BY <1>1, <1>2 DEF Shape, Settled

\* A step that touches no request, timer or run ends none.
LEMMA NothingOwns ==
  ASSUME UNCHANGED <<requests, budget, runs>>
  PROVE  Owns({})
BY DEF Owns, Live

\* finish() of a live request, on a map that may have lost its marker.
LEMMA EndInStrong ==
  ASSUME Typing, Strong, NEW m \in [Requests -> Entry], NEW r \in Requests, NEW o \in Outcomes,
         \A s \in Requests \ {r} : m[s] = requests[s], Live(r),
         m[r].state = requests[r].state, m[r].outcome = requests[r].outcome,
         m[r].dispatched = requests[r].dispatched \/ r \in refused',
         EndIn(m, r, o)
  PROVE  Owns({r}) /\ Shape({})
<1>1. /\ requests' = Ended(m, r, o) /\ requests' \in [Requests -> Entry]
      /\ budget' = budget \ {r} /\ runs' = [runs EXCEPT ![TabOf[r]] = NoRequest]
      /\ Adds({Terminal(m, r), requests'}, {}) /\ SavesLatest
  BY EndInShape DEF Typing
<1>2. /\ \A s \in Requests \ {r} : requests'[s] = requests[s]
      /\ requests'[r].state = "TERMINAL" /\ requests'[r].outcome = Honest(m[r], o)
      /\ requests'[r].dispatched = m[r].dispatched
  BY <1>1, EndedFields
<1>3. Owns({r})
  <2>1. ASSUME NEW t \in Tabs
        PROVE  runs'[t] = NoRequest \/ (runs'[t] = runs[t] /\ runs[t] \notin {r})
    <3>1. CASE t = TabOf[r]
      BY <1>1, <3>1 DEF Typing, TypeOK
    <3>2. CASE t # TabOf[r]
      BY <1>1, <3>2 DEF Typing, TypeOK, Strong, Ownership, ActiveRunIsOwned, LiveOn
    <3> QED BY <3>1, <3>2
  <2> QED BY <1>1, <1>2, <2>1 DEF Owns, Live, Unfinished
<1>4. PICK a \in [Requests -> Entry] : a = Terminal(m, r)
  BY EndedType
<1>5. PICK b \in [Requests -> Entry] : b = requests'
  BY <1>1
<1>6. /\ \A s \in Requests \ {r} : a[s] = requests[s]
      /\ a[r].state = "TERMINAL" /\ a[r].outcome = m[r].outcome /\ a[r].dispatched = m[r].dispatched
  BY <1>4 DEF Terminal, Entry
<1>7. MapsTell({a, b})
  <2>1. ASSUME NEW s \in Requests, requests'[s].state # "TERMINAL"
        PROVE  /\ requests[s].state # "TERMINAL" /\ requests'[s].outcome = NoOutcome
               /\ requests[s].dispatched => requests'[s].dispatched
               /\ a[s] = requests'[s]
    BY <1>2, <1>6, <2>1 DEF Strong, Telling, RowsOpen
  <2>2. ASSUME NEW s \in Requests
        PROVE  Blank(a[s]) /\ Blank(requests'[s])
    BY <1>2, <1>6 DEF Blank, Strong, Telling, RowsBlank
  <2>3. ASSUME NEW s \in Requests, s \notin refused', Told(requests[s])
        PROVE  Told(a[s]) /\ Told(requests'[s])
    <3>1. CASE s = r
      BY <1>2, <1>6, <2>3, <3>1 DEF Told, Honest, Dishonest
    <3>2. CASE s # r
      BY <1>2, <1>6, <2>3, <3>2
    <3> QED BY <3>1, <3>2
  <2> QED BY <1>5, <2>1, <2>2, <2>3 DEF MapsTell
<1>8. Adds({a, b}, {}) /\ {a, b} \in SUBSET [Requests -> Entry]
  BY <1>1, <1>4, <1>5
<1> QED BY <1>1, <1>3, <1>7, <1>8 DEF Shape, Settled

\* finish() of a live request.
LEMMA EndStrong ==
  ASSUME Typing, Strong, NEW r \in Requests, NEW o \in Outcomes, Live(r), End(r, o)
  PROVE  Owns({r}) /\ Shape({})
<1>1. PICK m \in [Requests -> Entry] : m = requests
  BY DEF Typing, TypeOK
<1>2. EndIn(m, r, o)
  BY <1>1 DEF End
<1> QED BY <1>1, <1>2, EndInStrong

\* endTab() of a tab.
LEMMA EndTabStrong ==
  ASSUME Typing, Strong, NEW t \in Tabs, NEW o \in Outcomes, EndTab(t, o)
  PROVE  \E r \in Requests : Owns({r}) /\ Shape({})
<1>1. PICK r \in LiveOn(t) : End(r, o)
  BY DEF EndTab
<1>2. r \in Requests /\ Live(r)
  BY DEF LiveOn
<1> QED BY <1>1, <1>2, EndStrong

\* progress() of a tab.
LEMMA MoveStrong ==
  ASSUME Typing, Strong, NEW t \in Tabs, NEW state \in Unfinished, Move(t, state),
         UNCHANGED <<budget, runs>>
  PROVE  Owns({}) /\ Shape({})
<1>1. CASE UNCHANGED <<requests, queue>>
  BY <1>1, NothingShape, NothingOwns
<1>2. ASSUME NEW s \in LiveOn(t), requests' = [requests EXCEPT ![s].state = state],
             Adds({requests'}, {}), SavesLatest, requests' \in [Requests -> Entry]
      PROVE  Owns({}) /\ Shape({})
  <2>1. s \in Requests /\ Live(s)
    BY DEF LiveOn
  <2>2. /\ \A r \in Requests \ {s} : requests'[r] = requests[r]
        /\ requests'[s].state \in Unfinished /\ requests'[s].outcome = requests[s].outcome
        /\ requests'[s].dispatched = requests[s].dispatched
    BY <1>2, <2>1 DEF Typing, TypeOK, Entry
  <2>3. Owns({})
    BY <2>1, <2>2 DEF Owns, Live
  <2>4. PICK b \in [Requests -> Entry] : b = requests'
    BY <1>2
  <2>5. ASSUME NEW r \in Requests
        PROVE  /\ Blank(b[r]) /\ (Told(requests[r]) => Told(b[r]))
               /\ b[r].state # "TERMINAL" =>
                    requests[r].state # "TERMINAL" /\ b[r].outcome = NoOutcome
               /\ requests[r].dispatched => b[r].dispatched
    BY <2>1, <2>2, <2>4 DEF Blank, Told, Live, Unfinished, Strong, Telling, RowsOpen, RowsBlank
  <2>6. MapsTell({b})
    BY <2>4, <2>5 DEF MapsTell
  <2>7. Adds({b}, {}) /\ {b} \in SUBSET [Requests -> Entry]
    BY <1>2, <2>4
  <2> QED BY <1>2, <2>3, <2>6, <2>7 DEF Shape, Settled
<1> QED BY <1>1, <1>2, MoveShape DEF Typing

\* A step that changes one request and saves the map.
LEMMA SaveShape ==
  ASSUME Typing, Strong, NEW r \in Requests, NEW w \in SUBSET Requests,
         requests' \in [Requests -> Entry],
         \/ queue' = Enqueue(queue, requests', w)
         \/ queue' = Enqueue(Enqueue(queue, requests', {}), requests', w),
         \A s \in Requests \ {r} : requests'[s] = requests[s],
         requests[r].state # "TERMINAL", requests'[r].state \in Unfinished,
         requests'[r].outcome = requests[r].outcome,
         requests[r].dispatched => requests'[r].dispatched
  PROVE  Shape(w)
<1>1. PICK b \in [Requests -> Entry] : b = requests'
  OBVIOUS
<1>2. Adds({b}, w) /\ queue' # <<>> /\ queue'[Len(queue')].rows = Snapshot(b)
  <2>1. CASE queue' = Enqueue(queue, requests', w)
    BY <1>1, <2>1, AddsOne DEF Typing
  <2>2. CASE queue' = Enqueue(Enqueue(queue, requests', {}), requests', w)
    <3>1. queue' = Enqueue(Enqueue(queue, b, {}), b, w)
      BY <1>1, <2>2
    <3>2. Adds({b, b}, w) /\ queue' # <<>> /\ queue'[Len(queue')].rows = Snapshot(b)
      BY <3>1, AddsTwo DEF Typing
    <3>3. {b, b} = {b}
      OBVIOUS
    <3> QED BY <3>2, <3>3
  <2> QED BY <2>1, <2>2
<1>3. ASSUME NEW s \in Requests
      PROVE  /\ Blank(b[s]) /\ (Told(requests[s]) => Told(b[s]))
             /\ b[s].state # "TERMINAL" =>
                  requests[s].state # "TERMINAL" /\ b[s].outcome = NoOutcome
             /\ requests[s].dispatched => b[s].dispatched
  BY <1>1 DEF Blank, Told, Unfinished, Strong, Telling, RowsOpen, RowsBlank
<1>4. MapsTell({b})
  BY <1>1, <1>3 DEF MapsTell
<1>5. SavesLatest /\ {b} \in SUBSET [Requests -> Entry]
  BY <1>1, <1>2 DEF SavesLatest
<1> QED BY <1>2, <1>4, <1>5 DEF Shape, Settled

\* No driver moves.
LEMMA Stayed ==
  ASSUME NEW E, Owns(E), UNCHANGED at
  PROVE  DriversAdvance
BY DEF Owns, DriversAdvance, Live

\* The driver of r moves to pc.
LEMMA Stepped ==
  ASSUME Typing, NEW E, Owns(E), NEW r \in Requests, NEW pc \in Parked \ {"marked", "unmarked"},
         at' = [at EXCEPT ![r] = pc],
         pc \in Driving => at[r] \in Driving \/ r \in budget',
         pc = "marking" => at[r] # "flushing" /\ requests'[r].dispatched
  PROVE  DriversAdvance
<1>1. at'[r] = pc /\ \A s \in Requests \ {r} : at'[s] = at[s]
  BY DEF Typing, TypeOK
<1>2. \A s \in Requests : requests'[s].state \in Unfinished => Live(s)
  BY DEF Owns, Live
<1> QED BY <1>1, <1>2 DEF DriversAdvance, Live

\* The step StartNothing keeps the other parts.
LEMMA StartNothingStrong ==
  ASSUME Typing, Strong, NEW r \in Requests, StartNothing(r)
  PROVE  Strong'
<1>1. Owns({}) /\ Shape({})
  BY NothingShape, NothingOwns DEF StartNothing, Go, Rest, store, history
<1>2. DriversAdvance
  BY <1>1, Stepped DEF StartNothing, Go, Driving, Parked
<1>3. UNCHANGED <<disk, effects, failures>> /\ refused \subseteq refused'
  BY DEF StartNothing, Go, Rest, store, history
<1> QED BY <1>1, <1>2, <1>3, Carry

\* The step Proceed keeps the other parts.
LEMMA ProceedStrong ==
  ASSUME Typing, Strong, NEW r \in Requests, Proceed(r)
  PROVE  Strong'
<1>1. Owns({}) /\ Shape({})
  BY NothingShape, TabOfType DEF Proceed, Go, Rest, store, history, Owns, Alive, Live, Typing,
     TypeOK
<1>2. PICK pc \in {"step", "between"} : Go(r, pc)
  BY DEF Proceed
<1>3. DriversAdvance
  BY <1>1, <1>2, Stepped DEF Proceed, Go, Driving, Parked
<1>4. UNCHANGED <<disk, effects, failures>> /\ refused \subseteq refused'
  BY DEF Proceed, Go, Rest, store, history
<1> QED BY <1>1, <1>3, <1>4, Carry

\* The step Decline keeps the other parts.
LEMMA DeclineStrong ==
  ASSUME Typing, Strong, NEW r \in Requests, Decline(r)
  PROVE  Strong'
<1>1. Owns({}) /\ Shape({})
  BY NothingShape, NothingOwns DEF Decline, Go, Rest, store, history
<1>2. DriversAdvance
  BY <1>1, Stepped DEF Decline, Go, Driving, Parked
<1>3. UNCHANGED <<disk, effects, failures>> /\ refused \subseteq refused'
  BY DEF Decline, Go, Rest, store, history
<1> QED BY <1>1, <1>2, <1>3, Carry

\* The step Claim keeps the other parts.
LEMMA ClaimStrong ==
  ASSUME Typing, Strong, NEW r \in Requests, Claim(r)
  PROVE  Strong'
<1>1. Owns({}) /\ Shape({})
  BY NothingShape, NothingOwns DEF Claim, Go, Rest, store, history
<1>2. DriversAdvance
  BY <1>1, Stepped DEF Claim, Go, Driving, Parked
<1>3. UNCHANGED <<disk, effects, failures>> /\ refused \subseteq refused'
  BY DEF Claim, Go, Rest, store, history
<1> QED BY <1>1, <1>2, <1>3, Carry

\* The step Abandon keeps the other parts.
LEMMA AbandonStrong ==
  ASSUME Typing, Strong, NEW r \in Requests, Abandon(r)
  PROVE  Strong'
<1>1. Owns({}) /\ Shape({})
  BY NothingShape, NothingOwns DEF Abandon, Go, Rest, store, history
<1>2. DriversAdvance
  BY <1>1, Stepped DEF Abandon, Go, Driving, Parked
<1>3. UNCHANGED <<disk, effects, failures>> /\ refused \subseteq refused'
  BY DEF Abandon, Go, Rest, store, history
<1> QED BY <1>1, <1>2, <1>3, Carry

\* The step PerformReturn keeps the other parts.
LEMMA PerformReturnStrong ==
  ASSUME Typing, Strong, NEW r \in Requests, PerformReturn(r)
  PROVE  Strong'
<1>1. Owns({}) /\ Shape({})
  BY NothingShape, TabOfType DEF PerformReturn, Go, Rest, store, history, Owns, Alive, Live,
     Typing, TypeOK
<1>2. DriversAdvance
  BY <1>1, Stepped DEF PerformReturn, Go, Driving, Parked
<1>3. UNCHANGED <<disk, effects, failures>> /\ refused \subseteq refused'
  BY DEF PerformReturn, Go, Rest, store, history
<1> QED BY <1>1, <1>2, <1>3, Carry

\* The step Approve keeps the other parts.
LEMMA ApproveStrong ==
  ASSUME Typing, Strong, NEW r \in Requests, Approve(r)
  PROVE  Strong'
<1>1. Owns({}) /\ Shape({})
  BY NothingShape, NothingOwns DEF Approve, Go, Rest, store, history
<1>2. DriversAdvance
  BY <1>1, Stepped DEF Approve, Go, Driving, Parked
<1>3. UNCHANGED <<disk, effects, failures>> /\ refused \subseteq refused'
  BY DEF Approve, Go, Rest, store, history
<1> QED BY <1>1, <1>2, <1>3, Carry

\* The step Choose keeps the other parts.
LEMMA ChooseStrong ==
  ASSUME Typing, Strong, NEW r \in Requests, Choose(r)
  PROVE  Strong'
<1>1. Owns({}) /\ Shape({})
  BY NothingShape, NothingOwns DEF Choose, Go, Rest, store, history
<1>2. DriversAdvance
  BY <1>1, Stepped DEF Choose, Go, Driving, Parked
<1>3. UNCHANGED <<disk, effects, failures>> /\ refused \subseteq refused'
  BY DEF Choose, Go, Rest, store, history
<1> QED BY <1>1, <1>2, <1>3, Carry

\* The step BeginStep keeps the other parts.
LEMMA BeginStepStrong ==
  ASSUME Typing, Strong, NEW r \in Requests, BeginStep(r)
  PROVE  Strong'
<1>1. Owns({}) /\ Shape({})
  BY NothingShape, TabOfType DEF BeginStep, Go, Rest, store, history, Owns, Alive, Live, Typing,
     TypeOK
<1>2. DriversAdvance
  BY <1>1, Stepped DEF BeginStep, Go, Driving, Parked
<1>3. UNCHANGED <<disk, effects, failures>> /\ refused \subseteq refused'
  BY DEF BeginStep, Go, Rest, store, history
<1> QED BY <1>1, <1>2, <1>3, Carry

\* The step Activity keeps the other parts.
LEMMA ActivityStrong ==
  ASSUME Typing, Strong, NEW r \in Requests, Activity(r)
  PROVE  Strong'
<1>1. Owns({}) /\ Shape({})
  BY MoveStrong, NothingShape, NothingOwns, TabOfType DEF Activity, Progress, Go, Rest, store,
     history, Unfinished
<1>2. DriversAdvance
  BY <1>1, Stayed DEF Activity
<1>3. UNCHANGED <<disk, effects, failures>> /\ refused \subseteq refused'
  BY DEF Activity, Go, Rest, store, history
<1> QED BY <1>1, <1>2, <1>3, Carry

\* The step DiscoverSelect keeps the other parts.
LEMMA DiscoverSelectStrong ==
  ASSUME Typing, Strong, NEW r \in Requests, DiscoverSelect(r)
  PROVE  Strong'
<1>1. Owns({}) /\ Shape({})
  BY MoveStrong, NothingShape, NothingOwns, TabOfType DEF DiscoverSelect, Progress, Go, Rest,
     store, history, Unfinished
<1>2. PICK pc \in {"select", "done"} : Go(r, pc)
  BY DEF DiscoverSelect
<1>3. DriversAdvance
  BY <1>1, <1>2, Stepped DEF DiscoverSelect, Go, Driving, Parked
<1>4. UNCHANGED <<disk, effects, failures>> /\ refused \subseteq refused'
  BY DEF DiscoverSelect, Go, Rest, store, history
<1> QED BY <1>1, <1>3, <1>4, Carry

\* The step DiscoverRun keeps the other parts.
LEMMA DiscoverRunStrong ==
  ASSUME Typing, Strong, NEW r \in Requests, DiscoverRun(r)
  PROVE  Strong'
<1>1. Owns({}) /\ Shape({})
  BY MoveStrong, NothingShape, NothingOwns, TabOfType DEF DiscoverRun, Progress, Go, Rest,
     store, history, Unfinished
<1>2. DriversAdvance
  BY <1>1, Stepped DEF DiscoverRun, Go, Driving, Parked
<1>3. UNCHANGED <<disk, effects, failures>> /\ refused \subseteq refused'
  BY DEF DiscoverRun, Go, Rest, store, history
<1> QED BY <1>1, <1>2, <1>3, Carry

\* The step StepProgress keeps the other parts.
LEMMA StepProgressStrong ==
  ASSUME Typing, Strong, NEW r \in Requests, StepProgress(r)
  PROVE  Strong'
<1>1. Owns({}) /\ Shape({})
  BY MoveStrong, NothingShape, NothingOwns, TabOfType DEF StepProgress, Progress, Go, Rest,
     store, history, Unfinished
<1>2. DriversAdvance
  BY <1>1, Stayed DEF StepProgress
<1>3. UNCHANGED <<disk, effects, failures>> /\ refused \subseteq refused'
  BY DEF StepProgress, Go, Rest, store, history
<1> QED BY <1>1, <1>2, <1>3, Carry

\* The step StepWait keeps the other parts.
LEMMA StepWaitStrong ==
  ASSUME Typing, Strong, NEW r \in Requests, StepWait(r)
  PROVE  Strong'
<1>1. Owns({}) /\ Shape({})
  BY MoveStrong, NothingShape, NothingOwns, TabOfType DEF StepWait, Progress, Go, Rest, store,
     history, Unfinished
<1>2. PICK pc \in {"review", "select", "done"} : Go(r, pc)
  BY DEF StepWait
<1>3. DriversAdvance
  BY <1>1, <1>2, Stepped DEF StepWait, Go, Driving, Parked
<1>4. UNCHANGED <<disk, effects, failures>> /\ refused \subseteq refused'
  BY DEF StepWait, Go, Rest, store, history
<1> QED BY <1>1, <1>3, <1>4, Carry

\* The step StartRefused keeps the other parts.
LEMMA StartRefusedStrong ==
  ASSUME Typing, Strong, NEW r \in Requests, StartRefused(r)
  PROVE  Strong'
<1>1. PICK E \in SUBSET Requests : Owns(E) /\ Shape({})
  BY EndStrong, NothingShape, NothingOwns DEF StartRefused, Go, Rest, store, history, Outcomes,
     Alive
<1>2. DriversAdvance
  BY <1>1, Stepped DEF StartRefused, Go, Driving, Parked
<1>3. UNCHANGED <<disk, effects, failures>> /\ refused \subseteq refused'
  BY DEF StartRefused, Go, Rest, store, history
<1> QED BY <1>1, <1>2, <1>3, Carry

\* The step StepFail keeps the other parts.
LEMMA StepFailStrong ==
  ASSUME Typing, Strong, NEW r \in Requests, StepFail(r)
  PROVE  Strong'
<1>1. PICK E \in SUBSET Requests : Owns(E) /\ Shape({})
  BY EndStrong, NothingShape, NothingOwns DEF StepFail, Go, Rest, store, history, Outcomes, Alive
<1>2. DriversAdvance
  BY <1>1, Stepped DEF StepFail, Go, Driving, Parked
<1>3. UNCHANGED <<disk, effects, failures>> /\ refused \subseteq refused'
  BY DEF StepFail, Go, Rest, store, history
<1> QED BY <1>1, <1>2, <1>3, Carry

\* The step Expire keeps the other parts.
LEMMA ExpireStrong ==
  ASSUME Typing, Strong, NEW r \in Requests, Expire(r)
  PROVE  Strong'
<1>1. PICK E \in SUBSET Requests : Owns(E) /\ Shape({})
  BY EndStrong DEF Expire, Go, Rest, store, history, Outcomes
<1>2. DriversAdvance
  BY <1>1, Stayed DEF Expire
<1>3. UNCHANGED <<disk, effects, failures>> /\ refused \subseteq refused'
  BY DEF Expire, Go, Rest, store, history
<1> QED BY <1>1, <1>2, <1>3, Carry

\* The step DiscoverFail keeps the other parts.
LEMMA DiscoverFailStrong ==
  ASSUME Typing, Strong, NEW r \in Requests, DiscoverFail(r)
  PROVE  Strong'
<1>1. PICK E \in SUBSET Requests : Owns(E) /\ Shape({})
  BY EndStrong, MoveStrong, TabOfType DEF DiscoverFail, Progress, Go, Rest, store, history,
     Outcomes, Unfinished, Alive
<1>2. DriversAdvance
  BY <1>1, Stepped DEF DiscoverFail, Go, Driving, Parked
<1>3. UNCHANGED <<disk, effects, failures>> /\ refused \subseteq refused'
  BY DEF DiscoverFail, Go, Rest, store, history
<1> QED BY <1>1, <1>2, <1>3, Carry

\* The step StepEnd keeps the other parts.
LEMMA StepEndStrong ==
  ASSUME Typing, Strong, NEW r \in Requests, StepEnd(r)
  PROVE  Strong'
<1>1. PICK E \in SUBSET Requests : Owns(E) /\ Shape({})
  BY EndTabStrong, TabOfType DEF StepEnd, Go, Rest, store, history, Outcomes
<1>2. DriversAdvance
  BY <1>1, Stepped DEF StepEnd, Go, Driving, Parked
<1>3. UNCHANGED <<disk, effects, failures>> /\ refused \subseteq refused'
  BY DEF StepEnd, Go, Rest, store, history
<1> QED BY <1>1, <1>2, <1>3, Carry

\* The step Reject keeps the other parts.
LEMMA RejectStrong ==
  ASSUME Typing, Strong, NEW r \in Requests, Reject(r)
  PROVE  Strong'
<1>1. PICK E \in SUBSET Requests : Owns(E) /\ Shape({})
  BY EndTabStrong, NothingShape, NothingOwns, TabOfType DEF Reject, Go, Rest, store, history,
     Outcomes
<1>2. DriversAdvance
  BY <1>1, Stepped DEF Reject, Go, Driving, Parked
<1>3. UNCHANGED <<disk, effects, failures>> /\ refused \subseteq refused'
  BY DEF Reject, Go, Rest, store, history
<1> QED BY <1>1, <1>2, <1>3, Carry

\* The step PageChange keeps the other parts.
LEMMA PageChangeStrong ==
  ASSUME Typing, Strong, NEW t \in Tabs, PageChange(t)
  PROVE  Strong'
<1>1. PICK E \in SUBSET Requests : Owns(E) /\ Shape({})
  BY EndTabStrong DEF PageChange, Go, Rest, store, history, Outcomes
<1>2. DriversAdvance
  BY <1>1, Stayed DEF PageChange
<1>3. UNCHANGED <<disk, effects, failures>> /\ refused \subseteq refused'
  BY DEF PageChange, Go, Rest, store, history
<1> QED BY <1>1, <1>2, <1>3, Carry

\* The step StopAll keeps the other parts.
LEMMA StopAllStrong ==
  ASSUME Typing, Strong, NEW t \in Tabs, StopAll(t)
  PROVE  Strong'
<1>1. PICK E \in SUBSET Requests : Owns(E) /\ Shape({})
  BY EndTabStrong DEF StopAll, Go, Rest, store, history, Outcomes
<1>2. DriversAdvance
  BY <1>1, Stayed DEF StopAll
<1>3. UNCHANGED <<disk, effects, failures>> /\ refused \subseteq refused'
  BY DEF StopAll, Go, Rest, store, history
<1> QED BY <1>1, <1>2, <1>3, Carry

\* The step Cancel keeps the other parts.
LEMMA CancelStrong ==
  ASSUME Typing, Strong, NEW r \in Requests, Cancel(r)
  PROVE  Strong'
<1>1. PICK m : m = [requests EXCEPT ![r].generation = @ + 1]
  OBVIOUS
<1>2. EndIn(m, r, "CANCELLED") /\ Live(r)
  BY <1>1 DEF Cancel
<1>3. requests[r].generation + 1 \in 0 .. MaxGeneration + 1
  <2>1. requests[r].generation \in 0 .. MaxGeneration + 1
    BY DEF Typing, TypeOK, Entry
  <2>2. requests[r].generation <= MaxGeneration
    BY <1>2 DEF Live, Unfinished, Typing, GenerationBounded
  <2> QED BY <2>1, <2>2, BoundsAreNatural
<1>4. /\ m \in [Requests -> Entry] /\ \A s \in Requests \ {r} : m[s] = requests[s]
      /\ m[r].state = requests[r].state /\ m[r].outcome = requests[r].outcome
      /\ m[r].dispatched = requests[r].dispatched
  BY <1>1, <1>3 DEF Typing, TypeOK, Entry
<1>5. Owns({r}) /\ Shape({})
  BY <1>2, <1>4, EndInStrong DEF Outcomes
<1>6. DriversAdvance
  BY <1>5, Stayed DEF Cancel
<1>7. UNCHANGED <<disk, effects, failures>> /\ refused \subseteq refused'
  BY DEF Cancel, Go, Rest, store, history
<1> QED BY <1>5, <1>6, <1>7, Carry

\* The step MarkRefused keeps the other parts.
LEMMA MarkRefusedStrong ==
  ASSUME Typing, Strong, NEW r \in Requests, MarkRefused(r)
  PROVE  Strong'
<1>1. PICK m : m = [requests EXCEPT ![r].dispatched = FALSE]
  OBVIOUS
<1>2. /\ m \in [Requests -> Entry] /\ \A s \in Requests \ {r} : m[s] = requests[s]
      /\ m[r].state = requests[r].state /\ m[r].outcome = requests[r].outcome
      /\ ~m[r].dispatched
  BY <1>1 DEF Typing, TypeOK, Entry
<1>3. r \in refused' /\ at[r] = "unmarked" /\ failures # 0
  BY DEF MarkRefused, Strong, CaughtUp
<1>4. PICK E \in SUBSET Requests : Owns(E) /\ Shape({})
  <2>1. CASE Live(r)
    <3>1. EndIn(m, r, "FAILED")
      BY <1>1, <2>1 DEF MarkRefused
    <3> QED BY <1>2, <1>3, <2>1, <3>1, EndInStrong DEF Outcomes
  <2>2. CASE ~Live(r)
    <3>1. requests' = m /\ UNCHANGED <<budget, runs, queue>>
      BY <1>1, <2>2 DEF MarkRefused
    <3>2. requests[r].state = "TERMINAL"
      BY <1>3, <2>2 DEF Live, Typing, TypeOK, Present, Entry, States
    <3>3. Owns({})
      BY <1>2, <3>1 DEF Owns, Live
    <3>4. MapsTell({})
      BY <1>2, <1>3, <3>1, <3>2
      DEF MapsTell, Blank, Strong, Telling, RowsOpen, RowsBlank
    <3>5. Adds({}, {})
      BY <3>1 DEF Adds, Grows, Typing, TypeOK
    <3> QED BY <1>3, <3>3, <3>4, <3>5 DEF Shape, Settled
  <2> QED BY <2>1, <2>2
<1>5. DriversAdvance
  BY <1>4, Stepped DEF MarkRefused, Go, Driving, Parked
<1>6. UNCHANGED <<disk, effects, failures>> /\ refused \subseteq refused'
  BY DEF MarkRefused, Go, Rest, store, history
<1> QED BY <1>4, <1>5, <1>6, Carry

\* The step StartRun keeps the other parts.
LEMMA StartRunStrong ==
  ASSUME Typing, Strong, NEW r \in Requests, StartRun(r)
  PROVE  Strong'
<1>1. /\ requests' \in [Requests -> Entry]
      /\ \A s \in Requests \ {r} : requests'[s] = requests[s]
      /\ requests'[r].state \in Unfinished /\ requests'[r].outcome = requests[r].outcome
      /\ requests'[r].dispatched = requests[r].dispatched
  BY DEF StartRun, Typing, TypeOK, Entry, States, Unfinished
<1>2. Owns({}) /\ Shape({})
  <2>1. Shape({})
    BY <1>1, SaveShape DEF StartRun, Saves
  <2>2. Owns({})
    BY <1>1 DEF StartRun, Owns, Live, Unfinished
  <2> QED BY <2>1, <2>2
<1>3. PICK pc \in {"discover", "between"} : Go(r, pc)
  BY DEF StartRun
<1>4. DriversAdvance
  BY <1>2, <1>3, Stepped DEF StartRun, Go, Driving, Parked
<1>5. UNCHANGED <<disk, effects, failures>> /\ refused \subseteq refused'
  BY DEF StartRun, Go, Rest, store, history
<1> QED BY <1>2, <1>4, <1>5, Carry

\* The step Resume keeps the other parts.
LEMMA ResumeStrong ==
  ASSUME Typing, Strong, NEW r \in Requests, Resume(r)
  PROVE  Strong'
<1>1. requests[r].generation + 1 \in 0 .. MaxGeneration
  BY BoundsAreNatural DEF Resume, Typing, TypeOK, Entry
<1>2. PICK g \in 0 .. MaxGeneration : g = requests[r].generation + 1
  BY <1>1
<1>3. requests' = [requests EXCEPT ![r].state = "RUNNING", ![r].generation = g]
  BY <1>2 DEF Resume
<1>4. /\ requests' \in [Requests -> Entry]
      /\ \A s \in Requests \ {r} : requests'[s] = requests[s]
      /\ requests'[r].state \in Unfinished /\ requests'[r].outcome = requests[r].outcome
      /\ requests'[r].dispatched = requests[r].dispatched
  <2>1. g \in 0 .. MaxGeneration + 1 /\ "RUNNING" \in States
    BY <1>2, BoundsAreNatural DEF States, Unfinished
  <2>2. "RUNNING" \in Unfinished
    BY DEF Unfinished
  <2>3. requests \in [Requests -> Entry]
    BY DEF Typing, TypeOK
  <2>4. PICK e : e = [requests[r] EXCEPT !.state = "RUNNING", !.generation = g]
    OBVIOUS
  <2>5. /\ e \in Entry /\ e.state = "RUNNING"
        /\ e.outcome = requests[r].outcome /\ e.dispatched = requests[r].dispatched
    BY <2>1, <2>3, <2>4 DEF Entry
  <2>6. requests' = [requests EXCEPT ![r] = e]
    BY <1>3, <2>3, <2>4
  <2> QED BY <2>2, <2>3, <2>5, <2>6, Revised
<1>5. Owns({}) /\ Shape({})
  <2>1. Shape({})
    BY <1>4, SaveShape DEF Resume, Saves
  <2>2. Owns({})
    BY <1>4 DEF Resume, Owns, Live, Unfinished
  <2> QED BY <2>1, <2>2
<1>6. PICK pc \in {"step", "discover"} : Go(r, pc)
  BY DEF Resume
<1>7. DriversAdvance
  BY <1>5, <1>6, Stepped DEF Resume, Go, Driving, Parked
<1>8. UNCHANGED <<disk, effects, failures>> /\ refused \subseteq refused'
  BY DEF Resume, Go, Rest, store, history
<1> QED BY <1>5, <1>7, <1>8, Carry

\* The step Mark keeps the other parts.
LEMMA MarkStrong ==
  ASSUME Typing, Strong, NEW r \in Requests, Mark(r)
  PROVE  Strong'
<1>1. /\ requests' \in [Requests -> Entry]
      /\ \A s \in Requests \ {r} : requests'[s] = requests[s]
      /\ requests'[r].state \in Unfinished /\ requests'[r].outcome = requests[r].outcome
      /\ requests'[r].dispatched = TRUE
  <2>1. requests \in [Requests -> Entry]
    BY DEF Typing, TypeOK
  <2>2. PICK e : e = [requests[r] EXCEPT !.dispatched = TRUE, !.state = "RUNNING"]
    OBVIOUS
  <2>3. /\ e \in Entry /\ e.state \in Unfinished /\ e.dispatched = TRUE
        /\ e.outcome = requests[r].outcome
    BY <2>1, <2>2 DEF Entry, States, Unfinished
  <2>4. requests' = [requests EXCEPT ![r] = e]
    BY <2>1, <2>2 DEF Mark
  <2> QED BY <2>1, <2>3, <2>4, Revised
<1>2. Owns({}) /\ Shape({r}) /\ requests'[r].dispatched
  <2>1. Shape({r})
    BY <1>1, SaveShape DEF Mark, Saves, Alive, Live, Unfinished
  <2>2. Owns({})
    BY <1>1 DEF Mark, Owns, Alive, Live
  <2> QED BY <1>1, <2>1, <2>2
<1>3. DriversAdvance
  BY <1>2, <1>1, Stepped DEF Mark, Go, Driving, Parked
<1>4. UNCHANGED <<disk, effects, failures>> /\ refused \subseteq refused'
  BY DEF Mark, Go, Rest, store, history
<1> QED BY <1>2, <1>3, <1>4, Carry

\* The step Start keeps the other parts.
LEMMA StartStrong ==
  ASSUME Typing, Strong, NEW r \in Requests, Start(r)
  PROVE  Strong'
<1>1. requests[r].state = "ABSENT" /\ at[r] = "none" /\ LiveOn(TabOf[r]) = {}
  BY DEF Start, Typing, Present
<1>2. /\ requests' \in [Requests -> Entry]
      /\ \A s \in Requests \ {r} : requests'[s] = requests[s]
      /\ requests'[r].state = "ACCEPTED" /\ requests'[r].outcome = requests[r].outcome
      /\ requests'[r].dispatched = requests[r].dispatched
  BY DEF Start, Typing, TypeOK, Entry, States, Unfinished
<1>3. /\ \A s \in Requests \ {r} : at'[s] = at[s]
      /\ at'[r] = "flushing" /\ UNCHANGED <<budget, runs>>
      /\ UNCHANGED <<disk, effects, failures, refused>>
  BY DEF Start, Go, Rest, Typing, TypeOK
<1>4. Shape({r})
  BY <1>1, <1>2, SaveShape DEF Start, Saves, Unfinished
<1>5. DriversAdvance
  BY <1>2, <1>3 DEF DriversAdvance, Live, Driving
<1>6. Ownership'
  <2>1. OneOnTab'
    <3>1. \A s \in Requests : Live(s) => TabOf[s] # TabOf[r]
      BY <1>1 DEF LiveOn
    <3> QED BY <1>2, <3>1 DEF OneOnTab, Live, Strong, Ownership
  <2>2. ActiveRunIsOwned'
    <3>1. \A t \in Tabs : runs[t] # NoRequest => runs[t] \in Requests /\ TabOf[runs[t]] = t /\ Live(runs[t])
      BY DEF Strong, Ownership, ActiveRunIsOwned, LiveOn
    <3>2. \A s \in Requests : Live(s) => requests'[s].state \in Unfinished
      BY <1>1, <1>2 DEF Live, Unfinished
    <3> QED BY <1>3, <3>1, <3>2 DEF ActiveRunIsOwned, LiveOn, Live
  <2>3. Budgeted'
    BY <1>2, <1>3 DEF Budgeted, Live, Driving, Strong, Ownership
  <2> QED BY <2>1, <2>2, <2>3 DEF Ownership
<1>7. Telling' /\ CaughtUp'
  BY <1>3, <1>4, <1>5, CarryTelling, CarryCaughtUp DEF Strong, Shape
<1> QED BY <1>6, <1>7 DEF Strong

\* The step Dispatch keeps the other parts.
LEMMA DispatchStrong ==
  ASSUME Typing, Strong, NEW r \in Requests, Dispatch(r)
  PROVE  Strong'
<1>1. /\ at[r] = "marked" /\ Live(r)
      /\ \A s \in Requests \ {r} : at'[s] = at[s] /\ effects'[s] = effects[s]
      /\ at'[r] = "performing"
      /\ UNCHANGED <<requests, budget, runs, queue, disk, failures, refused>>
  BY DEF Dispatch, Alive, Go, store, Typing, TypeOK
<1>2. Ownership'
  <2>1. OneOnTab' /\ ActiveRunIsOwned'
    BY <1>1 DEF Strong, Ownership, OneOnTab, ActiveRunIsOwned, LiveOn, Live
  <2>2. Budgeted'
    BY <1>1 DEF Strong, Ownership, Budgeted, Live, Driving, Parked
  <2> QED BY <2>1, <2>2 DEF Ownership
<1>3. RowsBlank' /\ RowsOpen'
  BY <1>1 DEF Strong, Telling, RowsBlank, RowsOpen
<1>4. MarkerWaits' /\ MarkerStored'
  BY <1>1 DEF Strong, Telling, MarkerWaits, MarkerStored, Live
<1>5. EffectsTold'
  <2>1. requests[r].dispatched /\ Marked(disk[r]) /\ \A i \in 1 .. Len(queue) : Marked(queue[i].rows[r])
    BY <1>1 DEF Strong, Telling, MarkerStored
  <2>2. /\ requests[r].outcome = NoOutcome /\ Open(disk[r])
        /\ \A i \in 1 .. Len(queue) : Open(queue[i].rows[r])
    BY <1>1 DEF Live, Unfinished, Strong, Telling, RowsOpen
  <2>3. NoOutcome \notin Dishonest
    BY DEF NoOutcome, Dishonest
  <2>4. /\ Told(requests[r]) /\ Told(disk[r])
        /\ \A i \in 1 .. Len(queue) : Told(queue[i].rows[r])
    BY <1>1, <2>1, <2>2, <2>3 DEF Told, Marked, Open, Live, Unfinished
  <2> QED BY <1>1, <2>4 DEF Strong, Telling, EffectsTold
<1>6. CaughtUp'
  BY <1>1 DEF Strong, CaughtUp, Latest, Snapshot
<1> QED BY <1>2, <1>3, <1>4, <1>5, <1>6 DEF Strong, Telling

\* The oldest save was answered, and what is stored is what was stored before
\* or what the save carried.
LEMMA AnswerStrong ==
  ASSUME Typing, Strong, queue # <<>>, queue' = Tail(queue),
         UNCHANGED <<requests, budget, runs, effects, refused>>,
         disk' \in {disk, Head(queue).rows},
         NEW first \in {"stored", "unstored"}, NEW second \in {"marked", "unmarked"},
         second = "marked" => disk' = Head(queue).rows,
         at' = [r \in Requests |->
                  IF ~Woken(r) THEN at[r] ELSE IF at[r] = "flushing" THEN first ELSE second]
  PROVE  Ownership' /\ Telling'
<1>1. /\ Len(queue') = Len(queue) - 1 /\ Len(queue) \in Nat \ {0}
      /\ \A i \in 1 .. Len(queue') : i + 1 \in 1 .. Len(queue) /\ queue'[i] = queue[i + 1]
      /\ Head(queue) = queue[1] /\ 1 \in 1 .. Len(queue)
  BY TailShape DEF Typing, TypeOK
<1>2. disk' = disk \/ disk' = queue[1].rows
  BY <1>1
<1>3. \A r \in Requests :
        \/ at'[r] = at[r] /\ r \notin queue[1].wakes
        \/ r \in queue[1].wakes /\ at[r] = "flushing" /\ at'[r] = first
        \/ r \in queue[1].wakes /\ at[r] = "marking" /\ at'[r] = second
  BY <1>1 DEF Woken, Typing, Waiters
<1>4. OneOnTab' /\ ActiveRunIsOwned'
  BY DEF Strong, Ownership, OneOnTab, ActiveRunIsOwned, LiveOn, Live
<1>5. Budgeted'
  BY <1>3 DEF Strong, Ownership, Budgeted, Live, Driving, Parked
<1>6. RowsBlank'
  BY <1>1, <1>2 DEF Strong, Telling, RowsBlank
<1>7. RowsOpen'
  BY <1>1, <1>2 DEF Strong, Telling, RowsOpen
<1>8. MarkerWaits'
  <2>1. SUFFICES ASSUME NEW r \in Requests, at'[r] = "marking", Live(r)
                 PROVE  /\ requests[r].dispatched
                        /\ \A i, j \in 1 .. Len(queue') :
                             i <= j /\ r \in queue'[i].wakes => Marked(queue'[j].rows[r])
    BY DEF MarkerWaits, Live
  <2>2. at[r] = "marking"
    BY <1>3, <2>1
  <2>3. requests[r].dispatched
    BY <2>1, <2>2 DEF Strong, Telling, MarkerWaits
  <2>4. ASSUME NEW i \in 1 .. Len(queue'), NEW j \in 1 .. Len(queue'),
               i <= j, r \in queue'[i].wakes
        PROVE  Marked(queue'[j].rows[r])
    <3>1. /\ i + 1 \in 1 .. Len(queue) /\ queue'[i] = queue[i + 1]
          /\ j + 1 \in 1 .. Len(queue) /\ queue'[j] = queue[j + 1] /\ i + 1 <= j + 1
      BY <1>1, <2>4
    <3> QED BY <2>1, <2>2, <2>4, <3>1 DEF Strong, Telling, MarkerWaits
  <2> QED BY <2>3, <2>4
<1>9. MarkerStored'
  <2>1. SUFFICES ASSUME NEW r \in Requests, at'[r] = "marked", Live(r)
                 PROVE  /\ requests[r].dispatched /\ Marked(disk'[r])
                        /\ \A i \in 1 .. Len(queue') : Marked(queue'[i].rows[r])
    BY DEF MarkerStored, Live
  <2>2. CASE at[r] = "marked"
    <3>1. /\ requests[r].dispatched /\ Marked(disk[r])
          /\ \A i \in 1 .. Len(queue) : Marked(queue[i].rows[r])
      BY <2>1, <2>2 DEF Strong, Telling, MarkerStored
    <3> QED BY <1>1, <1>2, <3>1
  <2>3. CASE r \in queue[1].wakes /\ at[r] = "marking" /\ second = "marked"
    <3>1. requests[r].dispatched /\ \A j \in 1 .. Len(queue) : Marked(queue[j].rows[r])
      BY <1>1, <2>1, <2>3 DEF Strong, Telling, MarkerWaits
    <3>2. disk' = queue[1].rows
      BY <1>1, <2>3
    <3> QED BY <1>1, <3>1, <3>2
  <2> QED BY <1>3, <2>1, <2>2, <2>3
<1>10. EffectsTold'
  BY <1>1, <1>2 DEF Strong, Telling, EffectsTold
<1> QED BY <1>4, <1>5, <1>6, <1>7, <1>8, <1>9, <1>10 DEF Ownership, Telling

\* The step SaveOk keeps the other parts.
LEMMA SaveOkStrong ==
  ASSUME Typing, Strong, SaveOk
  PROVE  Strong'
<1>1. Ownership' /\ Telling'
  BY AnswerStrong DEF SaveOk, history
<1>2. CaughtUp'
  <2>1. /\ Len(queue') = Len(queue) - 1 /\ Len(queue) \in Nat \ {0}
        /\ \A i \in 1 .. Len(queue') : i + 1 \in 1 .. Len(queue) /\ queue'[i] = queue[i + 1]
        /\ Head(queue) = queue[1] /\ queue' \in Seq(Save)
    BY TailShape DEF SaveOk, Typing, TypeOK
  <2>2. Latest' = Latest
    <3>1. CASE queue' = <<>>
      <4>1. Len(queue) = 1
        BY <2>1, <3>1
      <4> QED BY <2>1, <3>1, <4>1 DEF SaveOk, Latest
    <3>2. CASE queue' # <<>>
      <4>1. Len(queue') \in 1 .. Len(queue') /\ Len(queue') + 1 = Len(queue)
        BY <2>1, <3>2
      <4> QED BY <2>1, <3>2, <4>1 DEF SaveOk, Latest
    <3> QED BY <3>1, <3>2
  <2>3. \A r \in Requests : at'[r] = "unmarked" => at[r] = "unmarked"
    BY DEF SaveOk
  <2> QED BY <2>2, <2>3 DEF SaveOk, history, Strong, CaughtUp, Snapshot
<1> QED BY <1>1, <1>2 DEF Strong

\* The step SaveFail keeps the other parts.
LEMMA SaveFailStrong ==
  ASSUME Typing, Strong, SaveFail
  PROVE  Strong'
<1>1. Ownership' /\ Telling'
  BY AnswerStrong DEF SaveFail
<1>2. CaughtUp'
  BY DEF SaveFail, CaughtUp, Typing, TypeOK
<1> QED BY <1>1, <1>2 DEF Strong

\* The step Restart keeps the other parts.
LEMMA RestartStrong ==
  ASSUME Typing, Strong, Restart
  PROVE  Strong'
<1>1. disk' = disk \/ (1 \in 1 .. Len(queue) /\ disk' = queue[1].rows)
  BY DEF Restart, Typing, TypeOK
<1>2. disk' \in [Requests -> Row]
  BY RestartTypes DEF Typing, TypeOK
<1>3. PICK n \in [Requests -> Entry] : n = requests'
  BY RestartTypes DEF Typing, TypeOK
<1>4. queue' = <<[rows |-> Snapshot(n), wakes |-> {}]>>
  BY <1>3 DEF Restart
<1>5. Len(queue') = 1 /\ queue'[1].rows = Snapshot(n) /\ queue'[1].wakes = {}
  BY <1>4
<1>6. \A r \in Requests : n[r] = Restored(disk'[r])
  BY <1>3 DEF Restart
<1>7. \A r \in Requests :
        /\ n[r].state = IF disk'[r].state = "ABSENT" THEN "ABSENT" ELSE "TERMINAL"
        /\ n[r].dispatched = disk'[r].dispatched
        /\ disk'[r].state # "UNFINISHED" => n[r].outcome = disk'[r].outcome
        /\ disk'[r].state = "UNFINISHED" =>
             n[r].outcome = IF disk'[r].dispatched THEN "UNKNOWN" ELSE "FAILED"
  BY <1>6 DEF Restored
<1>8. \A r \in Requests : n[r].state \notin Unfinished /\ at'[r] = "none"
  BY <1>7 DEF Restart, Unfinished
<1>9. Ownership'
  BY <1>3, <1>8 DEF Restart, Ownership, OneOnTab, ActiveRunIsOwned, Budgeted, Live, Driving
<1>10. RowsBlank'
  <2>1. \A r \in Requests : Blank(disk'[r])
    BY <1>1 DEF Strong, Telling, RowsBlank
  <2>2. \A r \in Requests : Blank(n[r])
    BY <1>7, <2>1 DEF Blank
  <2>3. \A r \in Requests : Blank(Snapshot(n)[r])
    BY <2>2, RowFields DEF Blank
  <2> QED BY <1>3, <1>5, <2>1, <2>2, <2>3 DEF RowsBlank
<1>11. RowsOpen'
  <2>1. SUFFICES ASSUME NEW r \in Requests, n[r].state # "TERMINAL"
                 PROVE  n[r].outcome = NoOutcome /\ Open(disk'[r]) /\ Open(Snapshot(n)[r])
    BY <1>3, <1>5 DEF RowsOpen
  <2>2. disk'[r].state = "ABSENT"
    BY <1>7, <2>1
  <2>3. disk'[r].outcome = NoOutcome
    BY <1>1, <2>2 DEF Strong, Telling, RowsBlank, Blank
  <2>4. n[r].state = "ABSENT" /\ n[r].outcome = NoOutcome
    BY <1>7, <2>2, <2>3
  <2> QED BY <2>2, <2>3, <2>4, RowFields DEF Open
<1>12. MarkerWaits' /\ MarkerStored'
  BY <1>8 DEF MarkerWaits, MarkerStored
<1>13. EffectsTold'
  <2>1. SUFFICES ASSUME NEW r \in Requests \ refused, effects[r] > 0
                 PROVE  Told(n[r]) /\ Told(disk'[r]) /\ Told(Snapshot(n)[r])
    <3>1. UNCHANGED <<effects, refused>>
      BY DEF Restart
    <3> QED BY <1>3, <1>5, <3>1 DEF EffectsTold
  <2>2. Told(disk'[r])
    BY <1>1, <2>1 DEF Strong, Telling, EffectsTold
  <2>3. Told(n[r])
    BY <1>7, <2>2 DEF Told, Dishonest
  <2> QED BY <2>2, <2>3, RowFields DEF Told
<1>14. CaughtUp'
  BY <1>3, <1>5, <1>8 DEF CaughtUp, Latest
<1> QED BY <1>9, <1>10, <1>11, <1>12, <1>13, <1>14 DEF Strong, Telling

\* The worker starts with every part of the invariant.
LEMMA StrongInit ==
  ASSUME Init
  PROVE  Strong
<1>1. Ownership
  BY DEF Init, Absent, Ownership, OneOnTab, ActiveRunIsOwned, Budgeted, Live, Unfinished, Driving
<1>2. Telling
  BY DEF Init, Absent, NoRow, Telling, RowsBlank, RowsOpen, MarkerWaits, MarkerStored,
         EffectsTold, Blank, Open, Live, Unfinished
<1>3. CaughtUp
  BY DEF Init, CaughtUp, Latest, Snapshot, RowOf, Absent, NoRow, Unfinished
<1> QED BY <1>1, <1>2, <1>3 DEF Strong

\* Every step keeps every part of the invariant.
LEMMA StrongStep ==
  ASSUME Typing, Strong, [Next]_vars
  PROVE  Strong'
<1>1. CASE UNCHANGED vars
  <2>1. Ownership'
    BY <1>1 DEF vars, Strong, Ownership, OneOnTab, ActiveRunIsOwned, Budgeted, LiveOn, Live
  <2>2. Telling'
    BY <1>1 DEF vars, Strong, Telling, RowsBlank, RowsOpen, MarkerWaits, MarkerStored,
       EffectsTold, Live
  <2>3. CaughtUp'
    BY <1>1 DEF vars, Strong, CaughtUp, Latest, Snapshot
  <2> QED BY <2>1, <2>2, <2>3 DEF Strong
<1>2. ASSUME NEW r \in Requests,
             Handler(r) \/ Discovery(r) \/ Step(r) \/ Panel(r) \/ Expire(r)
      PROVE  Strong'
  <2>1. CASE Handler(r)
    BY <2>1, StartStrong, StartRunStrong, StartNothingStrong, StartRefusedStrong DEF Handler
  <2>2. CASE Discovery(r)
    BY <2>2, ActivityStrong, DiscoverSelectStrong, DiscoverRunStrong,
       DiscoverFailStrong DEF Discovery
  <2>3. CASE Step(r)
    BY <2>3, BeginStepStrong, StepProgressStrong, StepWaitStrong, StepEndStrong, StepFailStrong,
       ProceedStrong, DeclineStrong, ClaimStrong, MarkStrong, DispatchStrong, AbandonStrong,
       MarkRefusedStrong, PerformReturnStrong DEF Step
  <2>4. CASE Panel(r)
    BY <2>4, ApproveStrong, RejectStrong, ResumeStrong, ChooseStrong, CancelStrong DEF Panel
  <2>5. CASE Expire(r)
    BY <2>5, ExpireStrong
  <2> QED BY <1>2, <2>1, <2>2, <2>3, <2>4, <2>5
<1>3. ASSUME NEW t \in Tabs, PageChange(t) \/ StopAll(t)
      PROVE  Strong'
  BY <1>3, PageChangeStrong, StopAllStrong
<1>4. CASE Storage \/ Restart
  BY <1>4, SaveOkStrong, SaveFailStrong, RestartStrong DEF Storage
<1> QED BY <1>1, <1>2, <1>3, <1>4 DEF Next

-----------------------------------------------------------------------------
(* The theorems.                                                           *)

\* The inductive invariant holds in every state.
THEOREM Invariance == Spec => [](Typing /\ Strong)
<1>1. Init => Typing /\ Strong
  BY TypingInit, StrongInit
<1>2. Typing /\ Strong /\ [Next]_vars => (Typing /\ Strong)'
  BY TypingStep, StrongStep
<1> QED BY <1>1, <1>2, PTL DEF Spec

\* An unfinished run of a tab belongs to an unfinished request of that tab, for
\* any number of requests, tabs, resumes, refused saves and restarts.
THEOREM RunOwnership == Spec => []ActiveRunIsOwned
<1>1. Typing /\ Strong => ActiveRunIsOwned
  BY DEF Strong, Ownership
<1> QED BY <1>1, Invariance, PTL

\* A driver on its way to the page is under a running budget or its request
\* has ended.
THEOREM BudgetRuns == Spec => []DriverIsBudgeted
<1>1. Typing /\ Strong => DriverIsBudgeted
  BY DEF Strong, Ownership, Budgeted, DriverIsBudgeted, Alive, Driving, Parked
<1> QED BY <1>1, Invariance, PTL

\* A request with an effect is reported neither FAILED nor CANCELLED, unless a
\* marker of it was refused.
THEOREM Honesty == Spec => []HonestOutcome
<1>1. Typing /\ Strong => HonestOutcome
  BY DEF Strong, Telling, EffectsTold, Told, HonestOutcome
<1> QED BY <1>1, Invariance, PTL

\* Once an action reached the page, a restart at any moment reports something
\* other than a failure.
THEOREM MarkerAhead == Spec => []WriteAhead
<1>1. Typing /\ Strong => WriteAhead
  BY DEF Strong, Telling, EffectsTold, Told, WriteAhead, Tells
<1> QED BY <1>1, Invariance, PTL

\* Session storage catches up with memory when nothing is refused.
THEOREM CatchesUp == Spec => []StorageCatchesUp
<1>1. Typing /\ Strong => StorageCatchesUp
  BY DEF Strong, CaughtUp, Latest, StorageCatchesUp
<1> QED BY <1>1, Invariance, PTL

\* start() keeps a tab to one unfinished request.
THEOREM OneRequestPerTab == Spec => []TabExclusive
<1>1. ASSUME Typing, Strong, NEW t \in Tabs
      PROVE  Cardinality(LiveOn(t)) <= 1
  <2>1. CASE LiveOn(t) = {}
    BY <2>1, FS_EmptySet
  <2>2. CASE LiveOn(t) # {}
    <3>1. PICK r \in LiveOn(t) : TRUE
      BY <2>2
    <3>2. LiveOn(t) = {r}
      BY <1>1, <3>1 DEF LiveOn, Strong, Ownership, OneOnTab
    <3> QED BY <3>2, FS_Singleton
  <2> QED BY <2>1, <2>2
<1>2. Typing /\ Strong => TabExclusive
  BY <1>1 DEF TabExclusive
<1> QED BY <1>2, Invariance, PTL

\* Only Dispatch() has an effect.
LEMMA EffectsOfSteps ==
  ASSUME Typing, Next
  PROVE  effects' = effects \/ \E r \in Requests : Dispatch(r)
<1>1. ASSUME NEW r \in Requests,
             Handler(r) \/ Discovery(r) \/ Panel(r) \/ Expire(r)
      PROVE  effects' = effects
  BY <1>1 DEF Handler, Discovery, Panel, Expire, Start, StartRun, StartNothing, StartRefused,
              Activity, DiscoverSelect, DiscoverRun, DiscoverFail, Approve, Reject, Resume,
              Choose, Cancel, Rest, history
<1>2. ASSUME NEW r \in Requests, Step(r)
      PROVE  effects' = effects \/ Dispatch(r)
  BY <1>2 DEF Step, BeginStep, StepProgress, StepWait, StepEnd, StepFail, Proceed, Decline,
              Claim, Mark, Abandon, MarkRefused, PerformReturn, Rest
<1>3. ASSUME NEW t \in Tabs, PageChange(t) \/ StopAll(t)
      PROVE  effects' = effects
  BY <1>3 DEF PageChange, StopAll, Rest
<1>4. ASSUME Storage \/ Restart
      PROVE  effects' = effects
  BY <1>4 DEF Storage, SaveOk, SaveFail, Restart, history
<1> QED BY <1>1, <1>2, <1>3, <1>4 DEF Next

\* An action is sent only for an unfinished request whose stored row carries
\* the marker.
THEOREM EffectsMarked == Spec => EffectIsMarked
<1>1. ASSUME Typing, Strong, [Next]_vars, NEW r \in Requests, effects'[r] # effects[r]
      PROVE  Live(r) /\ disk[r].dispatched /\ disk[r].state = "UNFINISHED"
  <2>1. PICK s \in Requests : Dispatch(s)
    BY <1>1, EffectsOfSteps DEF vars
  <2>2. s = r
    BY <1>1, <2>1 DEF Dispatch, Typing, TypeOK
  <2>3. at[r] = "marked" /\ Live(r)
    BY <2>1, <2>2 DEF Dispatch, Alive
  <2> QED BY <1>1, <2>3 DEF Strong, Telling, MarkerStored, Marked
<1>2. Typing /\ Strong /\ [Next]_vars =>
        [\A r \in Requests : effects'[r] # effects[r] =>
           Live(r) /\ disk[r].dispatched /\ disk[r].state = "UNFINISHED"]_vars
  BY <1>1
<1> QED BY <1>2, Invariance, PTL DEF Spec, EffectIsMarked

\* The only unfinished request of the tab of an open run is the request of that run.
LEMMA RunIsAlone ==
  ASSUME Typing, Strong, NEW r \in Requests, RunActive(r)
  PROVE  LiveOn(TabOf[r]) = {r}
<1>1. r \in LiveOn(TabOf[r])
  BY TabOfType, NoRequestFresh DEF Strong, Ownership, ActiveRunIsOwned, RunActive
<1> QED BY <1>1 DEF LiveOn, Strong, Ownership, OneOnTab

\* What progress(tab), endTab() and finish() change while the run of r is open.
LEMMA OnlyItsOwn ==
  ASSUME Typing, NEW r \in Requests, NEW s \in Requests \ {r}
  PROVE  /\ LiveOn(TabOf[r]) = {r} =>
              /\ \A state : Progress(TabOf[r], state) => requests'[s] = requests[s]
              /\ \A o : EndTab(TabOf[r], o) => requests'[s] = requests[s]
         /\ \A m, o : EndIn(m, r, o) /\ m \in [Requests -> Entry] => requests'[s] = m[s]
<1>1. ASSUME NEW m \in [Requests -> Entry], NEW o, EndIn(m, r, o) PROVE requests'[s] = m[s]
  BY <1>1 DEF EndIn, Ended, Terminal
<1>2. requests \in [Requests -> Entry]
  BY DEF Typing, TypeOK
<1>3. ASSUME LiveOn(TabOf[r]) = {r}, NEW o, EndTab(TabOf[r], o) PROVE requests'[s] = requests[s]
  BY <1>1, <1>2, <1>3 DEF EndTab, End
<1>4. ASSUME LiveOn(TabOf[r]) = {r}, NEW state, Progress(TabOf[r], state) PROVE requests'[s] = requests[s]
  BY <1>2, <1>4 DEF Progress, Move
<1> QED BY <1>1, <1>3, <1>4

\* A late step of a driver, and what the end of its run publishes, change no request but
\* its own.
THEOREM Isolation == Spec => StepIsolation
<1>1. ASSUME Typing, Strong, NEW r \in Requests, Step(r), NEW s \in Requests \ {r}
      PROVE  requests'[s] = requests[s]
  <2> USE DEF store
  <2>1. requests \in [Requests -> Entry]
    BY <1>1 DEF Typing, TypeOK
  <2>2. CASE StepProgress(r) \/ StepWait(r)
    BY <1>1, <2>2, RunIsAlone, OnlyItsOwn DEF StepProgress, StepWait
  <2>3. CASE StepEnd(r)
    BY <1>1, <2>3, RunIsAlone, OnlyItsOwn DEF StepEnd
  <2>4. CASE StepFail(r)
    BY <1>1, <2>1, <2>4, OnlyItsOwn DEF StepFail, End
  <2>5. CASE MarkRefused(r)
    <3> DEFINE m == [requests EXCEPT ![r].dispatched = FALSE]
    <3>1. m \in [Requests -> Entry] /\ m[s] = requests[s]
      BY <2>1 DEF Entry
    <3>2. EndIn(m, r, "FAILED") \/ requests' = m
      BY <2>5 DEF MarkRefused
    <3> QED BY <1>1, <3>1, <3>2, OnlyItsOwn
  <2>6. CASE Mark(r)
    BY <2>1, <2>6 DEF Mark
  <2>7. CASE BeginStep(r) \/ Proceed(r) \/ Decline(r) \/ Claim(r) \/ Dispatch(r) \/ Abandon(r)
               \/ PerformReturn(r)
    BY <2>7 DEF BeginStep, Proceed, Decline, Claim, Dispatch, Abandon, PerformReturn
  <2> QED BY <1>1, <2>2, <2>3, <2>4, <2>5, <2>6, <2>7 DEF Step
<1>2. Typing /\ Strong =>
        [\A r \in Requests : Step(r) => \A s \in Requests \ {r} : requests'[s] = requests[s]]_vars
  BY <1>1
<1> QED BY <1>2, Invariance, PTL DEF StepIsolation

\* An ended request keeps its row through progress() and every end of another request.
LEMMA EndedIsKept ==
  ASSUME Typing, NEW r \in Requests, requests[r].state = "TERMINAL"
  PROVE  /\ \A t, state : Progress(t, state) => requests'[r] = requests[r]
         /\ \A t, o : EndTab(t, o) => requests'[r] = requests[r]
         /\ \A s \in Requests : \A o : Live(s) /\ End(s, o) => requests'[r] = requests[r]
<1>1. requests \in [Requests -> Entry] /\ ~Live(r)
  BY DEF Typing, TypeOK, Live, Unfinished
<1>2. ASSUME NEW s \in Requests, NEW o, Live(s), End(s, o) PROVE requests'[r] = requests[r]
  BY <1>1, <1>2 DEF End, EndIn, Ended, Terminal
<1>3. ASSUME NEW t, NEW o, EndTab(t, o) PROVE requests'[r] = requests[r]
  BY <1>2, <1>3 DEF EndTab, LiveOn
<1>4. ASSUME NEW t, NEW state, Progress(t, state) PROVE requests'[r] = requests[r]
  BY <1>1, <1>4 DEF Progress, Move, LiveOn
<1> QED BY <1>2, <1>3, <1>4

\* While the worker lives an ended request keeps its state, its outcome and its marker; the
\* marker alone goes when a late save of it is refused.
THEOREM Finality == Spec => TerminalIsFinal
<1>1. ASSUME Typing, Strong, Next, NEW r \in Requests, requests[r].state = "TERMINAL",
             requests'[r] # requests[r]
      PROVE  \/ restarts' # restarts
             \/ r \in refused' /\ requests'[r] = [requests[r] EXCEPT !.dispatched = FALSE]
  <2> USE DEF store
  <2>1. requests \in [Requests -> Entry] /\ ~Live(r)
    BY <1>1 DEF Typing, TypeOK, Live, Unfinished
  <2>2. CASE Restart
    BY <1>1, <2>2 DEF Restart, Typing, TypeOK
  <2>3. CASE Storage
    BY <1>1, <2>3 DEF Storage, SaveOk, SaveFail
  <2>4. CASE \E t \in Tabs : PageChange(t) \/ StopAll(t)
    BY <1>1, <2>4, EndedIsKept DEF PageChange, StopAll
  <2>5. ASSUME NEW s \in Requests, Handler(s) PROVE FALSE
    <3>1. CASE Start(s)
      BY <1>1, <2>1, <3>1 DEF Start
    <3>2. CASE StartRun(s)
      BY <1>1, <2>1, <3>2 DEF StartRun
    <3>3. CASE StartNothing(s) \/ StartRefused(s)
      BY <1>1, <3>3, EndedIsKept DEF StartNothing, StartRefused
    <3> QED BY <2>5, <3>1, <3>2, <3>3 DEF Handler
  <2>6. ASSUME NEW s \in Requests, Discovery(s) PROVE FALSE
    BY <1>1, <2>6, EndedIsKept DEF Discovery, Activity, DiscoverSelect, DiscoverRun, DiscoverFail, Alive
  <2>7. ASSUME NEW s \in Requests, Panel(s) \/ Expire(s) PROVE FALSE
    <3>1. CASE Approve(s) \/ Choose(s)
      BY <1>1, <3>1 DEF Approve, Choose
    <3>2. CASE Reject(s) \/ Expire(s)
      BY <1>1, <3>2, EndedIsKept DEF Reject, Expire
    <3>3. CASE Resume(s)
      BY <1>1, <2>1, <3>3 DEF Resume
    <3>4. CASE Cancel(s)
      BY <1>1, <2>1, <3>4 DEF Cancel, EndIn, Ended, Terminal
    <3> QED BY <2>7, <3>1, <3>2, <3>3, <3>4 DEF Panel
  <2>8. ASSUME NEW s \in Requests, Step(s), ~MarkRefused(s) PROVE FALSE
    <3>1. CASE StepProgress(s) \/ StepWait(s) \/ StepEnd(s) \/ StepFail(s)
      BY <1>1, <3>1, EndedIsKept DEF StepProgress, StepWait, StepEnd, StepFail, Alive
    <3>2. CASE Mark(s)
      BY <1>1, <2>1, <3>2 DEF Mark, Alive
    <3>3. CASE BeginStep(s) \/ Proceed(s) \/ Decline(s) \/ Claim(s) \/ Dispatch(s) \/ Abandon(s)
                 \/ PerformReturn(s)
      BY <1>1, <3>3 DEF BeginStep, Proceed, Decline, Claim, Dispatch, Abandon, PerformReturn
    <3> QED BY <2>8, <3>1, <3>2, <3>3 DEF Step
  <2>9. ASSUME NEW s \in Requests, MarkRefused(s)
        PROVE  r \in refused' /\ requests'[r] = [requests[r] EXCEPT !.dispatched = FALSE]
    <3> DEFINE m == [requests EXCEPT ![s].dispatched = FALSE]
    <3>1. m \in [Requests -> Entry] /\ (r # s => m[r] = requests[r])
      BY <2>1 DEF Entry
    <3>2. r = s
      <4>1. EndIn(m, s, "FAILED") \/ requests' = m
        BY <2>9 DEF MarkRefused
      <4>2. r # s => requests'[r] = m[r]
        BY <3>1, <4>1 DEF EndIn, Ended, Terminal
      <4> QED BY <1>1, <3>1, <4>2
    <3>3. requests' = m
      BY <2>1, <2>9, <3>2 DEF MarkRefused
    <3> QED BY <2>1, <2>9, <3>2, <3>3 DEF MarkRefused
  <2> QED BY <1>1, <2>2, <2>3, <2>4, <2>5, <2>6, <2>7, <2>8, <2>9 DEF Next
<1>2. Typing /\ Strong /\ [Next]_vars =>
        [\A r \in Requests :
           requests[r].state = "TERMINAL" /\ requests'[r] # requests[r] =>
             \/ restarts' # restarts
             \/ r \in refused' /\ requests'[r] = [requests[r] EXCEPT !.dispatched = FALSE]]_vars
  BY <1>1
<1> QED BY <1>2, Invariance, PTL DEF Spec, TerminalIsFinal

=============================================================================
