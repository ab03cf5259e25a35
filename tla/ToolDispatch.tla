---------------------------- MODULE ToolDispatch ----------------------------
(***************************************************************************)
(* The tool runtime of the target extension: preparation and execution of  *)
(* a tool call (packages/tool-runtime), approvals (packages/policy-engine),*)
(* the dispatch ledger and the revocations of the browser (packages/       *)
(* browser-runtime), and the receipt synchronisation with the agent server *)
(* (apps/chrome-extension/src/runtime).                                    *)
(*                                                                         *)
(* One task of one partition.  An execution (a call of execute() or        *)
(* recordNoOp()) is a process; the adapter it starts is another one, which *)
(* keeps running when the execution gives up on it.  The awaits of         *)
(* executeStep() are the boundaries of the actions.  The worker of the     *)
(* extension may crash: ledger and stop row are IndexedDB and survive,     *)
(* runtime, approvals, executions and adapters do not.                     *)
(*                                                                         *)
(* world is what a step is bound to and must find unchanged: the tool      *)
(* context, the policy and the epoch of the registry.  The intent table of *)
(* the agent server (DurableTask) is here only its rule: one call a step.  *)
(***************************************************************************)
EXTENDS Naturals, FiniteSets

CONSTANTS
  Calls, Steps,   \* tool calls (fresh ids), and the plan steps they are for
  NoStep, NoCall, NoGrant,
  Grants,         \* approval receipts (fresh ids)
  Execs,          \* executions
  MaxWorld,       \* bound: changes of context or policy
  MaxCommands,    \* bound: commands of one adapter
  MaxCrashes      \* bound: crashes of the worker

ASSUME BoundsAreNatural == MaxWorld \in Nat /\ MaxCommands \in Nat /\ MaxCrashes \in Nat
ASSUME NoStepFresh == NoStep \notin Steps

VARIABLES
  world,      \* version of context, policy and registry
  call,       \* steps, scopes: the prepared record of each call
  cancelled,  \* ToolRuntime.cancelled
  grant,      \* approvals and those being issued
  exec,       \* the executions
  adapter,    \* commands an execution's adapter issued, and whether it runs
  ledger,     \* IndexedDB dispatchLedger
  row,        \* IndexedDB: the stop row of the task
  blocked,    \* BrowserRevocations.blocked has the task
  ready,      \* BrowserRevocations.ready
  receipts,   \* ToolRuntime.receipts
  intents,    \* calls recorded by the agent server
  synced,     \* receipts the agent server acknowledged
  effects,    \* history: [call, exec, grant, world] of every command
  wasCall,    \* history: the record of each call that ever was prepared
  crashes

durable == <<ledger, row, intents, synced>>
memory == <<call, cancelled, grant, exec, adapter, blocked, ready, receipts>>
vars == <<world, call, cancelled, grant, exec, adapter, ledger, row, blocked, ready,
          receipts, intents, synced, effects, wasCall, crashes>>

\* The dispatch field of a receipt with its verification.
Receipts == {"verified", "uncertain", "untouched", "satisfied"}
NoRecord == [step |-> NoStep, world |-> 0]
Free == [state |-> "free", call |-> NoCall, world |-> 0]
Idle == [pc |-> "idle", call |-> NoCall, grant |-> NoGrant, started |-> FALSE,
         late |-> FALSE, pinned |-> 0, result |-> "none"]

Record == [step : Steps \cup {NoStep}, world : 0 .. MaxWorld]
Grant == [state : {"free", "minting", "active", "used", "void"}, call : Calls \cup {NoCall},
          world : 0 .. MaxWorld]
Exec == [pc : {"idle", "preflight", "intent", "reserving", "observing", "dispatching",
               "settling", "acking", "told", "failed", "dead"},
         call : Calls \cup {NoCall}, grant : Grants \cup {NoGrant}, started : BOOLEAN,
         late : BOOLEAN, pinned : 0 .. MaxWorld, result : Receipts \cup {"none"}]

TypeOK ==
  /\ world \in 0 .. MaxWorld
  /\ call \in [Calls -> Record] /\ wasCall \in [Calls -> Record]
  /\ cancelled \in BOOLEAN /\ blocked \in BOOLEAN /\ ready \in BOOLEAN
  /\ grant \in [Grants -> Grant]
  /\ exec \in [Execs -> Exec]
  /\ adapter \in [Execs -> [runs : BOOLEAN, commands : 0 .. MaxCommands]]
  /\ ledger \in [Calls -> Receipts \cup {"none", "reserved"}]
  /\ row \in {"none", "pending", "acknowledged"}
  /\ receipts \in [Calls -> Receipts \cup {"none"}]
  /\ intents \in SUBSET Calls
  /\ synced \in SUBSET Calls
  /\ effects \in SUBSET [call : Calls, exec : Execs, grant : Grants, world : 0 .. MaxWorld]
  /\ crashes \in 0 .. MaxCrashes

-----------------------------------------------------------------------------
(* Guards.                                                                 *)

\* BrowserRevocations.assert().
NotRevoked == ready /\ ~blocked

\* Mutant of Current: the record exists.
CurrentAtAll(c) == call[c] # NoRecord
\* assertCurrent(), and the capability and policy checks beside it.
Current(c) == call[c] # NoRecord /\ call[c].world = world

\* Approvals.validate(), and the conditions of consume().
Usable(g, c) == grant[g].state = "active" /\ grant[g].call = c /\ grant[g].world = world

\* Mutant of Permitted: the execution is not closed by its deadline.
PermittedLate(x) ==
  LET e == exec[x] IN
  /\ NotRevoked /\ Current(e.call)
  /\ IF e.started THEN grant[e.grant].state = "used" ELSE Usable(e.grant, e.call)
\* beforeSideEffect() within the guard of the revocations: the execution is
\* open, its approval is still there, and nothing it was bound to has changed;
\* the first command needs the approval unused.
Permitted(x) ==
  LET e == exec[x] IN
  /\ e.pc = "dispatching" /\ ~e.late
  /\ NotRevoked /\ Current(e.call) /\ e.pinned = world
  /\ IF e.started THEN grant[e.grant].state = "used" ELSE Usable(e.grant, e.call)

-----------------------------------------------------------------------------
(* Preparation and approval.                                               *)

\* ToolRuntime.prepare(): one call for a scope; the revocation guard stands
\* before resolve, preflight and observe.
Prepare(c, s) ==
  /\ ~cancelled /\ NotRevoked
  /\ wasCall[c] = NoRecord /\ \A d \in Calls : call[d].step # s
  /\ call' = [call EXCEPT ![c] = [step |-> s, world |-> world]]
  /\ wasCall' = [wasCall EXCEPT ![c] = [step |-> s, world |-> world]]
  /\ UNCHANGED <<world, cancelled, grant, exec, adapter, blocked, ready, receipts, durable,
                 effects, crashes>>

\* Approvals.request() by policy, or respond() of the user: issue() starts.
Ask(g, c) ==
  /\ ~cancelled /\ grant[g].state = "free" /\ Current(c)
  /\ grant' = [grant EXCEPT ![g] = [state |-> "minting", call |-> c, world |-> world]]
  /\ UNCHANGED <<world, call, cancelled, exec, adapter, blocked, ready, receipts, durable,
                 effects, wasCall, crashes>>

\* issue() ends: the epoch has not moved and the step is still current.
Issue(g) ==
  /\ grant[g].state = "minting" /\ Current(grant[g].call)
  /\ grant' = [grant EXCEPT ![g].state = "active"]
  /\ UNCHANGED <<world, call, cancelled, exec, adapter, blocked, ready, receipts, durable,
                 effects, wasCall, crashes>>

\* ToolRuntime.cancel(): the epoch moves and all approvals go.
Cancel ==
  /\ ~cancelled
  /\ cancelled' = TRUE
  /\ grant' = [g \in Grants |-> IF grant[g].state = "free" THEN grant[g]
                                ELSE [grant[g] EXCEPT !.state = "void"]]
  /\ UNCHANGED <<world, call, exec, adapter, blocked, ready, receipts, durable, effects,
                 wasCall, crashes>>

-----------------------------------------------------------------------------
(* executeStep().                                                          *)

Go(x, fields) == exec' = [exec EXCEPT ![x] = fields]
\* Actions of an execution that touch nothing else.
OnlyExec == UNCHANGED <<world, call, cancelled, grant, adapter, blocked, ready, receipts,
                        durable, effects, wasCall, crashes>>

\* execute() of a call without a receipt, up to the preflight.
Begin(x, c, g) ==
  /\ exec[x].pc = "idle" /\ receipts[c] = "none" /\ ~cancelled
  /\ Current(c) /\ Usable(g, c)
  /\ Go(x, [Idle EXCEPT !.pc = "preflight", !.call = c, !.grant = g])
  /\ OnlyExec

\* recordNoOp(): the postcondition holds already; the browser observed it.
BeginNoOp(x, c) ==
  /\ exec[x].pc = "idle" /\ ~cancelled /\ Current(c) /\ NotRevoked
  /\ Go(x, [Idle EXCEPT !.pc = "intent", !.call = c, !.result = "satisfied"])
  /\ OnlyExec

Preflight(x) ==
  /\ exec[x].pc = "preflight" /\ NotRevoked /\ ~exec[x].late
  /\ Go(x, [exec[x] EXCEPT !.pc = "intent"])
  /\ OnlyExec

\* The step of a call is taken by another one at the agent server.
Taken(c) == \E d \in intents \ {c} : wasCall[d].step = wasCall[c].step

\* intent.record(): the reply may be lost after the intent was recorded.
Intend(x) ==
  /\ exec[x].pc = "intent" /\ ~Taken(exec[x].call)
  /\ intents' = intents \cup {exec[x].call}
  /\ \E pc \in {"reserving", "failed"} : Go(x, [exec[x] EXCEPT !.pc = pc])
  /\ UNCHANGED <<world, call, cancelled, grant, adapter, blocked, ready, receipts, ledger, row,
                 synced, effects, wasCall, crashes>>

\* journal.reserve(): the id has a row.
Reserved(c) == ledger[c] # "none"

\* A fresh reservation, under the policy of this moment; a no-op settles at once.
Reserve(x) ==
  LET e == exec[x] IN
  /\ e.pc = "reserving" /\ ~Reserved(e.call)
  /\ ledger' = [ledger EXCEPT ![e.call] = "reserved"]
  /\ Go(x, [e EXCEPT !.pc = IF e.result = "none" THEN "observing" ELSE "settling",
                     !.pinned = world])
  /\ UNCHANGED <<world, call, cancelled, grant, adapter, blocked, ready, receipts, row, intents,
                 synced, effects, wasCall, crashes>>

\* A known id: its receipt, or unknown.  The ledger's transactions are serial,
\* so the answer is kept before the holder of the reservation settles.
Repeat(x) ==
  LET e == exec[x]
      r == IF ledger[e.call] \in Receipts THEN ledger[e.call] ELSE "uncertain"
  IN  /\ e.pc = "reserving" /\ Reserved(e.call)
      /\ Go(x, [e EXCEPT !.pc = "told", !.result = r])
      /\ receipts' = [receipts EXCEPT ![e.call] = IF e.grant = NoGrant THEN @ ELSE r]
      /\ UNCHANGED <<world, call, cancelled, grant, adapter, blocked, ready, durable, effects,
                     wasCall, crashes>>

\* observe() before the dispatch: satisfied, or the adapter starts.
Observe(x) ==
  LET e == exec[x] IN
  /\ e.pc = "observing" /\ NotRevoked /\ Current(e.call) /\ ~e.late
  /\ \/ /\ Go(x, [e EXCEPT !.pc = "settling", !.result = "satisfied"])
        /\ UNCHANGED adapter
     \/ /\ Go(x, [e EXCEPT !.pc = "dispatching"])
        /\ adapter' = [adapter EXCEPT ![x].runs = TRUE]
  /\ UNCHANGED <<world, call, cancelled, grant, blocked, ready, receipts, durable, effects,
                 wasCall, crashes>>

\* The adapter asks before each command, and issues it in the same turn.
Command(x) ==
  LET e == exec[x] IN
  /\ adapter[x].runs /\ adapter[x].commands < MaxCommands /\ Permitted(x)
  /\ adapter' = [adapter EXCEPT ![x].commands = @ + 1]
  /\ grant' = [grant EXCEPT ![e.grant].state = "used"]
  /\ exec' = [exec EXCEPT ![x].started = TRUE]
  /\ effects' = effects \cup
       {[call |-> e.call, exec |-> x, grant |-> e.grant, world |-> world]}
  /\ UNCHANGED <<world, call, cancelled, blocked, ready, receipts, durable, wasCall, crashes>>

\* The adapter returns after its commands, and the postcondition is observed,
\* or is not.
Return(x) ==
  /\ exec[x].pc = "dispatching" /\ adapter[x].runs /\ adapter[x].commands > 0
  /\ adapter' = [adapter EXCEPT ![x].runs = FALSE]
  /\ \E r \in {"verified", "uncertain"} :
       /\ r = "verified" => NotRevoked
       /\ Go(x, [exec[x] EXCEPT !.pc = "settling", !.result = r])
  /\ UNCHANGED <<world, call, cancelled, grant, blocked, ready, receipts, durable, effects,
                 wasCall, crashes>>

\* The deadline of the execution passes.
Expire(x) ==
  /\ exec[x].pc \in {"preflight", "intent", "reserving", "observing", "dispatching"}
  /\ ~exec[x].late
  /\ Go(x, [exec[x] EXCEPT !.late = TRUE])
  /\ OnlyExec

\* Mutant of Verdict: an error means that nothing was dispatched.
VerdictAtStart(e) == "untouched"
Verdict(e) == IF e.started THEN "uncertain" ELSE "untouched"

\* Mutant of Caught: only an error of the adapter ends the wait for it.
CaughtError(x) ==
  /\ exec[x].pc \in {"observing", "dispatching"} /\ ~exec[x].late
  /\ Go(x, [exec[x] EXCEPT !.pc = "settling", !.result = Verdict(exec[x])])
  /\ OnlyExec
\* catch: an error of the browser port or of the adapter, or the deadline that
\* ends the wait; the adapter may still run.
Caught(x) ==
  /\ exec[x].pc \in {"observing", "dispatching"}
  /\ Go(x, [exec[x] EXCEPT !.pc = "settling", !.result = Verdict(exec[x])])
  /\ OnlyExec

\* Before the reservation an error rejects the execution without a receipt.
Fail(x) ==
  /\ exec[x].pc \in {"preflight", "intent", "reserving"}
  /\ Go(x, [exec[x] EXCEPT !.pc = "failed"])
  /\ OnlyExec

\* ReceiptSyncJournal.settle(): the ledger first.
Settle(x) ==
  /\ exec[x].pc = "settling"
  /\ ledger' = [ledger EXCEPT ![exec[x].call] = exec[x].result]
  /\ Go(x, [exec[x] EXCEPT !.pc = "acking"])
  /\ UNCHANGED <<world, call, cancelled, grant, adapter, blocked, ready, receipts, row, intents,
                 synced, effects, wasCall, crashes>>

\* The agent server acknowledges, or its acknowledgement is lost.
Acknowledge(x) ==
  LET e == exec[x] IN
  /\ e.pc = "acking"
  /\ \/ /\ synced' = synced \cup {e.call}
        /\ receipts' = [receipts EXCEPT ![e.call] = e.result]
        /\ Go(x, [e EXCEPT !.pc = "told"])
     \/ /\ Go(x, [e EXCEPT !.pc = "failed"])
        /\ \E s \in {synced, synced \cup {e.call}} : synced' = s
        /\ UNCHANGED receipts
  /\ UNCHANGED <<world, call, cancelled, grant, adapter, blocked, ready, ledger, row, intents,
                 effects, wasCall, crashes>>

-----------------------------------------------------------------------------
(* Revocation, change and crash.                                           *)

\* stop() revokes in memory before its first await ...
Stop ==
  /\ ~blocked /\ blocked' = TRUE
  /\ UNCHANGED <<world, call, cancelled, grant, exec, adapter, ready, receipts, durable,
                 effects, wasCall, crashes>>
\* ... and then puts the row.
StopRow ==
  /\ blocked /\ row = "none" /\ row' = "pending"
  /\ UNCHANGED <<world, memory, ledger, intents, synced, effects, wasCall, crashes>>

\* acknowledge(): the cancellation reached the agent server.
AckStop ==
  /\ blocked /\ row = "pending" /\ row' = "acknowledged"
  /\ UNCHANGED <<world, memory, ledger, intents, synced, effects, wasCall, crashes>>

\* Mutant of Revokes: an acknowledged stop is over.
RevokesPending == row = "pending"
\* restore(): every revocation row blocks its task.
Revokes == row # "none"
Restore ==
  /\ ~ready /\ ready' = TRUE
  /\ blocked' = (blocked \/ Revokes)
  /\ UNCHANGED <<world, call, cancelled, grant, exec, adapter, receipts, durable, effects,
                 wasCall, crashes>>

Change ==
  /\ world < MaxWorld /\ world' = world + 1
  /\ UNCHANGED <<memory, durable, effects, wasCall, crashes>>

Crash ==
  /\ crashes < MaxCrashes /\ crashes' = crashes + 1
  /\ call' = [c \in Calls |-> NoRecord]
  /\ cancelled' = FALSE /\ blocked' = FALSE /\ ready' = FALSE
  /\ grant' = [g \in Grants |-> IF grant[g].state = "free" THEN grant[g]
                                ELSE [grant[g] EXCEPT !.state = "void"]]
  /\ exec' = [x \in Execs |-> IF exec[x].pc = "idle" THEN exec[x]
                              ELSE [exec[x] EXCEPT !.pc = "dead"]]
  /\ adapter' = [x \in Execs |-> [adapter[x] EXCEPT !.runs = FALSE]]
  /\ receipts' = [c \in Calls |-> "none"]
  /\ UNCHANGED <<world, durable, effects, wasCall>>

-----------------------------------------------------------------------------

Init ==
  /\ world = 0
  /\ call = [c \in Calls |-> NoRecord] /\ wasCall = [c \in Calls |-> NoRecord]
  /\ cancelled = FALSE /\ blocked = FALSE /\ ready = FALSE
  /\ grant = [g \in Grants |-> Free]
  /\ exec = [x \in Execs |-> Idle]
  /\ adapter = [x \in Execs |-> [runs |-> FALSE, commands |-> 0]]
  /\ ledger = [c \in Calls |-> "none"]
  /\ row = "none"
  /\ receipts = [c \in Calls |-> "none"]
  /\ intents = {} /\ synced = {} /\ effects = {} /\ crashes = 0

Run(x) ==
  \/ Preflight(x) \/ Intend(x) \/ Reserve(x) \/ Repeat(x) \/ Observe(x) \/ Return(x)
  \/ Expire(x) \/ Caught(x) \/ Fail(x) \/ Settle(x) \/ Acknowledge(x)

Next ==
  \/ \E c \in Calls, s \in Steps : Prepare(c, s)
  \/ \E g \in Grants : Issue(g) \/ \E c \in Calls : Ask(g, c)
  \/ \E x \in Execs :
       \/ \E c \in Calls : BeginNoOp(x, c) \/ \E g \in Grants : Begin(x, c, g)
       \/ Run(x) \/ Command(x)
  \/ Cancel \/ Stop \/ StopRow \/ AckStop \/ Restore \/ Change \/ Crash

Spec == Init /\ [][Next]_vars

\* The timers of bounded() fire, and a local IndexedDB transaction ends.
FairSpec == Spec /\ \A x \in Execs : WF_vars(Caught(x)) /\ WF_vars(Settle(x))

-----------------------------------------------------------------------------
(* Properties.                                                             *)

Touched(c) == \E e \in effects : e.call = c

\* However often a call is executed, concurrently, after a lost answer or after a
\* crash, one execution under one approval issues its commands.
OneExecution ==
  \A e, f \in effects : e.call = f.call => e.exec = f.exec /\ e.grant = f.grant

\* Every command is issued in the context and under the policy its step was
\* prepared for and its approval was given for, also the later ones of an adapter.
AsApproved ==
  \A e \in effects : e.world = grant[e.grant].world /\ e.world = wasCall[e.call].world

\* No receipt, in the ledger or in memory, denies an effect that came or will
\* still come, and none that confirms one is without it.
ReceiptsAreTrue ==
  \A c \in Calls :
    /\ {ledger[c], receipts[c]} \cap {"untouched", "satisfied"} # {} => ~Touched(c)
    /\ "verified" \in {ledger[c], receipts[c]} => Touched(c)

\* After a stop nothing reaches the page any more: at once while the worker lives,
\* and for ever when its row was written, also once it is acknowledged.
StopHolds == [][blocked \/ row # "none" => effects' = effects]_vars

\* After a cancellation no approval is left or comes back, and no command is issued.
CancelHolds ==
  [][cancelled /\ cancelled' =>
       /\ effects' = effects
       /\ \A g \in Grants : grant'[g].state \notin {"active", "used"}]_vars

\* The dispatch promise: across crashes a step reaches the page through one call.
PromisedVerdict ==
  [c \in Calls |-> IF ledger[c] \in Receipts THEN ledger[c] ELSE "open"]
Promise == INSTANCE DispatchPromise WITH
  stepOf <- [c \in Calls |-> wasCall[c].step],
  acted <- {c \in Calls : Touched(c)},
  verdict <- PromisedVerdict,
  Reached <- {"verified"}, Untouched <- {"untouched", "satisfied"}, Unsure <- {"uncertain"}
KeepsPromise == Promise!Spec

\* A reserved call gets its receipt unless the worker crashes.
ReservedSettles ==
  \A c \in Calls : ledger[c] = "reserved" ~> ledger[c] # "reserved" \/ crashes > 0

\* A call has its effects under one approval, and all of them in the context they were
\* approved in: whatever is repeated, overlaps, changes or crashes.
CallSafety == TypeOK /\ OneExecution /\ AsApproved

\* Neither a stop nor a cancellation is followed by an effect.
RevocationHolds == StopHolds /\ CancelHolds
=============================================================================
