------------------------------ MODULE CdpSession ------------------------------
(***************************************************************************)
(* The debugger broker of the target extension                             *)
(* (packages/browser-runtime/src/cdp) on one tab: a session marks the tab  *)
(* in the database, attaches, runs its operation and gives the tab back.   *)
(*                                                                         *)
(* Attach and detach are bounded by timers, so an attach may complete when *)
(* its session gave up, or when its worker is gone.                        *)
(***************************************************************************)
EXTENDS Naturals

CONSTANTS
  Sessions,        \* calls of session() on the tab, over the life of the database
  None,            \* none of them
  MaxRestarts      \* bound: restarts of the worker

VARIABLES
  at,           \* where each session is
  owned,        \* sessions whose attach resolved (of this worker)
  detached,     \* sessions that were told of a detach
  late,         \* sessions that await an attach nobody waits for
  active, quarantined,  \* whether the sets of the broker hold the tab
  held,         \* whether the transport owns the tab
  row,          \* the owner of the tab in the database
  debugger,     \* the session that is attached in the browser
  restarts

vars == <<at, owned, detached, late, active, quarantined, held, row, debugger, restarts>>

Places == {"idle", "available", "mark", "attach", "markOwned", "use", "denied",
           "markLost", "close", "clear", "markFailed", "done", "stuck", "lost"}
\* The places in which a session listens to detaches.
Listening == {"use"}

TypeOK ==
  /\ at \in [Sessions -> Places]
  /\ {owned, detached, late} \subseteq SUBSET Sessions
  /\ {active, quarantined, held} \subseteq BOOLEAN
  /\ row \in Sessions \cup {None} /\ debugger \in Sessions \cup {None}
  /\ restarts \in 0 .. MaxRestarts

Goto(s, place) == at' = [at EXCEPT ![s] = place]

-----------------------------------------------------------------------------
(* ownership.ts: a write fails when another session owns the row, and may  *)
(* be refused.                                                             *)

Mark(s) == row \in {None, s} /\ row' = s
Release(s) == row \in {None, s} /\ row' = None

-----------------------------------------------------------------------------
(* session()                                                               *)

Open(s) ==
  /\ at[s] = "idle"
  /\ IF active \/ quarantined
     THEN Goto(s, "done") /\ UNCHANGED active
     ELSE active' = TRUE /\ Goto(s, "available")
  /\ UNCHANGED <<owned, detached, late, quarantined, held, row, debugger, restarts>>

\* The end of the finally of a session that owns nothing.
Over(s) == active' = FALSE /\ Goto(s, "done")

Available(s) ==
  /\ at[s] = "available"
  /\ IF row = None THEN Goto(s, "mark") /\ UNCHANGED active ELSE Over(s)
  /\ UNCHANGED <<owned, detached, late, quarantined, held, row, debugger, restarts>>

MarkAttaching(s) ==
  /\ at[s] = "mark"
  /\ \/ Mark(s) /\ Goto(s, "attach") /\ UNCHANGED active
     \/ Over(s) /\ UNCHANGED row
  /\ UNCHANGED <<owned, detached, late, quarantined, held, debugger, restarts>>

\* The browser attaches, with a denial, an unclear error or no answer in time.
Attach(s) ==
  /\ at[s] = "attach"
  /\ \/ /\ ~held /\ debugger = None /\ debugger' = s /\ held' = TRUE
        /\ owned' = owned \cup {s} /\ Goto(s, "markOwned") /\ UNCHANGED <<late, quarantined>>
     \/ ~held /\ Goto(s, "denied") /\ UNCHANGED <<owned, late, quarantined, held, debugger>>
     \/ /\ quarantined' = TRUE /\ Goto(s, "markLost")
        /\ debugger' \in {debugger, IF debugger = None THEN s ELSE debugger}
        /\ UNCHANGED <<owned, late, held>>
     \/ /\ ~held /\ quarantined' = TRUE /\ late' = late \cup {s} /\ Goto(s, "markLost")
        /\ UNCHANGED <<owned, held, debugger>>
  /\ UNCHANGED <<detached, active, row, restarts>>

\* Only a definite denial gives the tab back.
Denied(s) ==
  /\ at[s] = "denied" /\ Over(s)
  /\ Release(s) \/ UNCHANGED row
  /\ UNCHANGED <<owned, detached, late, quarantined, held, debugger, restarts>>

\* The attach is marked as lost; an attach that resolved meanwhile is given up below.
MarkLost(s) ==
  /\ at[s] = "markLost"
  /\ Mark(s) \/ UNCHANGED row
  /\ IF s \in owned THEN Goto(s, "close") /\ UNCHANGED active ELSE Over(s)
  /\ UNCHANGED <<owned, detached, late, quarantined, held, debugger, restarts>>

\* An attach nobody waits for resolves, and is detached, or fails.
LateAttach(s) ==
  /\ s \in late /\ late' = late \ {s}
  /\ \/ /\ debugger = None /\ at[s] = "markLost"
        /\ debugger' = s /\ held' = TRUE /\ owned' = owned \cup {s}
     \/ /\ debugger = None /\ at[s] # "markLost"
        /\ debugger' \in {None, s} /\ held' = (at[s] # "lost" /\ debugger' = s)
        /\ UNCHANGED owned
     \/ UNCHANGED <<debugger, held, owned>>
  /\ UNCHANGED <<at, detached, active, quarantined, row, restarts>>

MarkOwned(s) ==
  /\ at[s] = "markOwned"
  /\ \/ Mark(s) /\ at' \in {[at EXCEPT ![s] = p] : p \in {"use", "close"}}
     \/ Goto(s, "close") /\ UNCHANGED row
  /\ UNCHANGED <<owned, detached, late, active, quarantined, held, debugger, restarts>>

\* Mutant of MaySend: the operation may outlive its session.
MaySendLate(s) == at[s] \in {"use", "close", "clear", "done"} /\ s \notin detached
MaySend(s) == at[s] = "use" /\ s \notin detached
\* check() and the transport let a command through.
Send(s) ==
  /\ MaySend(s) /\ held
  /\ UNCHANGED vars

\* The operation ends, fails, or runs out of time.
Used(s) ==
  /\ at[s] = "use" /\ Goto(s, "close")
  /\ UNCHANGED <<owned, detached, late, active, quarantined, held, row, debugger, restarts>>

\* The finally detaches unless it was told of a detach, or fails and quarantines.
Close(s) ==
  /\ at[s] = "close"
  /\ \/ /\ s \in detached /\ Goto(s, "clear") /\ UNCHANGED <<held, debugger, quarantined>>
     \/ /\ s \notin detached /\ held /\ debugger = s
        /\ Goto(s, "clear") /\ debugger' = None /\ held' = FALSE /\ UNCHANGED quarantined
     \/ /\ s \notin detached /\ quarantined' = TRUE /\ Goto(s, "markFailed")
        /\ debugger' \in {debugger, None} /\ UNCHANGED held
  /\ UNCHANGED <<owned, detached, late, active, row, restarts>>

Clear(s) ==
  /\ at[s] = "clear"
  /\ \/ quarantined /\ Over(s) /\ UNCHANGED <<row, quarantined>>
     \/ ~quarantined /\ Release(s) /\ Over(s) /\ UNCHANGED quarantined
     \/ ~quarantined /\ quarantined' = TRUE /\ Goto(s, "markFailed") /\ UNCHANGED <<row, active>>
  /\ UNCHANGED <<owned, detached, late, held, debugger, restarts>>

\* When even the mark is refused the finally throws, and the tab stays active.
MarkFailed(s) ==
  /\ at[s] = "markFailed"
  /\ \/ Mark(s) /\ Over(s)
     \/ Goto(s, "stuck") /\ UNCHANGED <<row, active>>
  /\ UNCHANGED <<owned, detached, late, quarantined, held, debugger, restarts>>

-----------------------------------------------------------------------------
(* The browser and the worker.                                             *)

\* The browser ends the debugger session; who listens is told.
BrowserDetach ==
  /\ debugger # None /\ debugger' = None
  /\ LET listeners == {s \in Sessions : at[s] \in Listening} IN
     /\ detached' = detached \cup listeners
     /\ held' = (held /\ listeners = {})
  /\ UNCHANGED <<at, owned, late, active, quarantined, row, restarts>>

\* The database and the debugger outlive the worker; an attach may still be on its way.
Restart ==
  /\ restarts < MaxRestarts /\ restarts' = restarts + 1
  /\ late' = late \cup {s \in Sessions : at[s] = "attach"}
  /\ at' = [s \in Sessions |-> IF at[s] \in {"idle", "done"} THEN at[s] ELSE "lost"]
  /\ owned' = {} /\ detached' = {}
  /\ active' = FALSE /\ quarantined' = FALSE /\ held' = FALSE
  /\ UNCHANGED <<row, debugger>>

-----------------------------------------------------------------------------

Init ==
  /\ at = [s \in Sessions |-> "idle"]
  /\ owned = {} /\ detached = {} /\ late = {}
  /\ active = FALSE /\ quarantined = FALSE /\ held = FALSE
  /\ row = None /\ debugger = None /\ restarts = 0

Run(s) ==
  \/ Available(s) \/ MarkAttaching(s) \/ Attach(s) \/ Denied(s) \/ MarkLost(s)
  \/ MarkOwned(s) \/ Used(s) \/ Close(s) \/ Clear(s) \/ MarkFailed(s)

Next ==
  \/ \E s \in Sessions : Open(s) \/ Run(s) \/ LateAttach(s) \/ Send(s)
  \/ BrowserDetach \/ Restart

Spec == Init /\ [][Next]_vars
-----------------------------------------------------------------------------
(* Properties.                                                             *)

\* A debugger session has its row in the database at every moment: a worker that dies
\* leaves a tab that the next one does not attach to.
SessionIsMarked == debugger # None => row # None

\* A command goes to the tab only while no other session is attached to it.
CommandIsOwn == \A s \in Sessions : MaySend(s) /\ held => debugger \in {s, None}

\* A tab is not free again for the next worker while this one has it quarantined, and
\* a late attach always meets a row.
QuarantineOutlives == (quarantined \/ late # {}) => row # None

=============================================================================
