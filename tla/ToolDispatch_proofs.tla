------------------------ MODULE ToolDispatch_proofs ------------------------
(***************************************************************************)
(* That a call of a tool has its effects under one execution and one       *)
(* approval, in the context it was approved in, that its receipts are      *)
(* true, and that stops and cancellations hold, for any number of calls,   *)
(* executions, approvals, commands and crashes.  The reservation of the    *)
(* ledger, which survives a crash, keeps the execution single; the intent  *)
(* of the agent server keeps the call of a step single; the pinned world   *)
(* of an execution that has started is the one of its approval.            *)
(***************************************************************************)
EXTENDS ToolDispatch, TLAPS

\* An execution that holds the reservation of its call.
Holds(x) == exec[x].pc \in {"observing", "dispatching", "settling", "acking"}

\* A record is that of the preparation, and what is recorded elsewhere was prepared.
RecordsKept ==
  /\ \A c \in Calls : wasCall[c] = NoRecord \/ wasCall[c].step \in Steps
  /\ \A c \in Calls : call[c] = NoRecord \/ call[c] = wasCall[c]
  /\ \A c \in intents : wasCall[c] # NoRecord
  /\ \A x \in Execs : exec[x].pc # "idle" =>
       exec[x].call \in Calls /\ wasCall[exec[x].call] # NoRecord

\* The agent server has recorded one call of a step.
StepTakenOnce == \A c, d \in intents : wasCall[c].step = wasCall[d].step => c = d

\* The reservation of a call has one holder, whose intent is recorded.
HeldOnce ==
  /\ \A x \in Execs : exec[x].pc = "reserving" \/ Holds(x) => exec[x].call \in intents
  /\ \A x \in Execs : Holds(x) =>
       ledger[exec[x].call] = IF exec[x].pc = "acking" THEN exec[x].result ELSE "reserved"
  /\ \A x, y \in Execs : Holds(x) /\ Holds(y) /\ exec[x].call = exec[y].call => x = y

\* What an execution carries before it may issue commands.
CarriedAlong ==
  \A x \in Execs :
    /\ exec[x].pc \in {"idle", "preflight", "intent", "reserving", "observing"} => ~exec[x].started
    /\ exec[x].pc \in {"preflight", "intent", "reserving"} =>
         exec[x].result = "satisfied" \/ (exec[x].result = "none" /\ exec[x].grant \in Grants)
    /\ exec[x].pc \in {"observing", "dispatching"} => exec[x].grant \in Grants
    /\ exec[x].pc \in {"settling", "acking"} => exec[x].result \in Receipts
    /\ adapter[x].commands > 0 => exec[x].started

\* An effect belongs to an execution that started under the approval of the effect, and
\* to the only one that can hold the reservation of its call.
EffectsKept ==
  \A e \in effects :
    /\ e.call \in intents /\ ledger[e.call] # "none"
    /\ exec[e.exec].call = e.call /\ exec[e.exec].grant = e.grant /\ exec[e.exec].started
    /\ \A x \in Execs : Holds(x) /\ exec[x].call = e.call => x = e.exec

\* An execution that has started is pinned to the world of its approval.
StartedPinned ==
  \A x \in Execs : exec[x].started =>
    /\ exec[x].grant \in Grants /\ grant[exec[x].grant].state # "free"
    /\ grant[exec[x].grant].world = exec[x].pinned
    /\ Touched(exec[x].call)

\* A verdict is true from the moment it is made.
VerdictsTrue ==
  /\ \A x \in Execs : exec[x].pc = "settling" =>
       /\ exec[x].result \in {"untouched", "satisfied"} => ~Touched(exec[x].call)
       /\ exec[x].result = "verified" => Touched(exec[x].call)
  /\ \A c \in Calls :
       /\ ledger[c] \in {"untouched", "satisfied"} => ~Touched(c)
       /\ ledger[c] = "verified" => Touched(c)
       /\ receipts[c] \in {"none", "uncertain", ledger[c]}

\* A stop row blocks the task once it was read; a cancellation leaves no approval.
RevocationsKept ==
  /\ row # "none" /\ ready => blocked
  /\ cancelled => \A g \in Grants : grant[g].state \in {"free", "void"}

IInv ==
  /\ TypeOK /\ RecordsKept /\ StepTakenOnce /\ HeldOnce /\ CarriedAlong
  /\ OneExecution /\ AsApproved /\ EffectsKept /\ StartedPinned /\ VerdictsTrue /\ RevocationsKept

-----------------------------------------------------------------------------
(* Typing of the steps of an execution.                                    *)

Places == {"idle", "preflight", "intent", "reserving", "observing", "dispatching", "settling",
           "acking", "told", "failed", "dead"}

LEMMA PcTyped == ASSUME NEW e \in Exec, NEW p \in Places PROVE [e EXCEPT !.pc = p] \in Exec
  BY DEF Exec, Places
LEMMA LateTyped == ASSUME NEW e \in Exec PROVE [e EXCEPT !.late = TRUE] \in Exec
  BY DEF Exec
LEMMA StartedTyped == ASSUME NEW e \in Exec PROVE [e EXCEPT !.started = TRUE] \in Exec
  BY DEF Exec
LEMMA ResultTyped ==
  ASSUME NEW e \in Exec, NEW p \in Places, NEW r \in Receipts \cup {"none"}
  PROVE  [e EXCEPT !.pc = p, !.result = r] \in Exec
  BY DEF Exec, Places
LEMMA PinnedTyped ==
  ASSUME NEW e \in Exec, NEW p \in Places, NEW w \in 0 .. MaxWorld
  PROVE  [e EXCEPT !.pc = p, !.pinned = w] \in Exec
  BY DEF Exec, Places
LEMMA IdleTyped == Idle \in Exec
  BY BoundsAreNatural DEF Exec, Idle
LEMMA BegunTyped ==
  ASSUME NEW e \in Exec, NEW c \in Calls, NEW g \in Grants
  PROVE  [e EXCEPT !.pc = "preflight", !.call = c, !.grant = g] \in Exec
  BY DEF Exec
LEMMA NoOpTyped ==
  ASSUME NEW e \in Exec, NEW c \in Calls
  PROVE  [e EXCEPT !.pc = "intent", !.call = c, !.result = "satisfied"] \in Exec
  BY DEF Exec, Receipts
LEMMA VoidTyped == ASSUME NEW e \in Grant PROVE [e EXCEPT !.state = "void"] \in Grant
  BY DEF Grant
LEMMA RunsTyped ==
  ASSUME NEW a \in [runs : BOOLEAN, commands : 0 .. MaxCommands], NEW b \in BOOLEAN
  PROVE  [a EXCEPT !.runs = b] \in [runs : BOOLEAN, commands : 0 .. MaxCommands]
  OBVIOUS

-----------------------------------------------------------------------------

\* The invariant speaks of the state only.
LEMMA Stutter == IInv /\ UNCHANGED vars => IInv'
  BY DEF IInv, vars, durable, TypeOK, RecordsKept, StepTakenOnce, HeldOnce, Holds, CarriedAlong, OneExecution,
     AsApproved, EffectsKept, StartedPinned, Touched, VerdictsTrue, RevocationsKept

LEMMA Initially == Init => IInv
<1> SUFFICES ASSUME Init PROVE IInv
  OBVIOUS
<1> USE DEF Idle, NoRecord, Free
<1>1. TypeOK
  <2>1. world \in 0 .. MaxWorld /\ crashes \in 0 .. MaxCrashes
    BY BoundsAreNatural DEF Init
  <2>2. call \in [Calls -> Record] /\ wasCall \in [Calls -> Record] /\ grant \in [Grants -> Grant]
    BY BoundsAreNatural DEF Init, Record, Grant
  <2>3. exec \in [Execs -> Exec]
    <3> HIDE DEF Idle
    <3> QED
      BY IdleTyped DEF Init
  <2>4. adapter \in [Execs -> [runs : BOOLEAN, commands : 0 .. MaxCommands]]
    BY BoundsAreNatural DEF Init
  <2> QED
    BY <2>1, <2>2, <2>3, <2>4 DEF Init, TypeOK
<1>2. \A x \in Execs : exec[x].pc = "idle" /\ ~exec[x].started /\ adapter[x].commands = 0
  BY DEF Init
<1>3. effects = {} /\ intents = {} /\ \A c \in Calls : ledger[c] = "none" /\ receipts[c] = "none"
  BY DEF Init
<1>4. RecordsKept /\ StepTakenOnce /\ HeldOnce /\ CarriedAlong
  BY <1>2, <1>3 DEF Init, RecordsKept, StepTakenOnce, HeldOnce, Holds, CarriedAlong
<1>5. OneExecution /\ AsApproved /\ EffectsKept /\ StartedPinned /\ VerdictsTrue
  BY <1>2, <1>3 DEF OneExecution, AsApproved, EffectsKept, StartedPinned, VerdictsTrue, Touched
<1>6. RevocationsKept
  BY DEF Init, RevocationsKept
<1> QED
  BY <1>1, <1>4, <1>5, <1>6 DEF IInv

LEMMA PrepareKeeps == ASSUME IInv, NEW c \in Calls, NEW s \in Steps, Prepare(c, s) PROVE IInv'
<1> USE BoundsAreNatural, NoStepFresh DEF Idle, Free, NoRecord, durable, memory
<1>0. /\ TypeOK /\ RecordsKept /\ StepTakenOnce /\ HeldOnce /\ CarriedAlong /\ OneExecution
      /\ AsApproved /\ EffectsKept /\ StartedPinned /\ VerdictsTrue /\ RevocationsKept
  BY DEF IInv
<1>1. TypeOK'
  <2>1. world' \in 0 .. MaxWorld /\ crashes' \in 0 .. MaxCrashes /\ row' \in {"none", "pending", "acknowledged"}
        /\ {cancelled', blocked', ready'} \subseteq BOOLEAN /\ {intents', synced'} \subseteq SUBSET Calls
    BY <1>0 DEF TypeOK, Prepare, RecordsKept, HeldOnce, Holds
  <2>2. call' \in [Calls -> Record] /\ wasCall' \in [Calls -> Record]
    BY <1>0 DEF TypeOK, Prepare, Record
  <2>3. grant' \in [Grants -> Grant]
    BY <1>0 DEF TypeOK, Prepare, Grant
  <2>4. exec' \in [Execs -> Exec]
    BY <1>0 DEF TypeOK, Prepare, Exec, Receipts
  <2>5. adapter' \in [Execs -> [runs : BOOLEAN, commands : 0 .. MaxCommands]]
    BY <1>0 DEF TypeOK, Prepare
  <2>6. ledger' \in [Calls -> Receipts \cup {"none", "reserved"}] /\ receipts' \in [Calls -> Receipts \cup {"none"}]
    BY <1>0 DEF TypeOK, Prepare, CarriedAlong, Receipts
  <2>7. effects' \in SUBSET [call : Calls, exec : Execs, grant : Grants, world : 0 .. MaxWorld]
    BY <1>0 DEF TypeOK, Prepare, CarriedAlong, RecordsKept
  <2> QED
    BY <2>1, <2>2, <2>3, <2>4, <2>5, <2>6, <2>7 DEF TypeOK
<1>2. RecordsKept'
  BY <1>0 DEF TypeOK, Record, Grant, Exec, Prepare, RecordsKept
<1>3. StepTakenOnce'
  BY <1>0 DEF TypeOK, Record, Grant, Exec, Prepare, StepTakenOnce, RecordsKept
<1>4. HeldOnce'
  BY <1>0 DEF TypeOK, Record, Grant, Exec, Prepare, HeldOnce, Holds, CarriedAlong
<1>5. CarriedAlong'
  BY <1>0 DEF TypeOK, Record, Grant, Exec, Prepare, CarriedAlong, Receipts
<1>6. OneExecution'
  BY <1>0 DEF TypeOK, Record, Grant, Exec, Prepare, OneExecution
<1>7. AsApproved'
  BY <1>0 DEF TypeOK, Record, Grant, Exec, Prepare, AsApproved, StartedPinned, EffectsKept, RecordsKept, StepTakenOnce
<1>8. EffectsKept'
  BY <1>0 DEF TypeOK, Record, Grant, Exec, Prepare, EffectsKept, Holds
<1>9. StartedPinned'
  BY <1>0 DEF TypeOK, Record, Grant, Exec, Prepare, StartedPinned, Touched, CarriedAlong, EffectsKept, Holds
<1>10. VerdictsTrue'
  BY <1>0 DEF TypeOK, Record, Grant, Exec, Prepare, VerdictsTrue, Touched, Holds, EffectsKept, HeldOnce, CarriedAlong
<1>11. RevocationsKept'
  BY <1>0 DEF TypeOK, Record, Grant, Exec, Prepare, RevocationsKept
<1> QED
  BY <1>1, <1>2, <1>3, <1>4, <1>5, <1>6, <1>7, <1>8, <1>9, <1>10, <1>11 DEF IInv

LEMMA AskKeeps == ASSUME IInv, NEW g \in Grants, NEW c \in Calls, Ask(g, c) PROVE IInv'
<1> USE BoundsAreNatural, NoStepFresh DEF Idle, Free, NoRecord, durable, memory, Current
<1>0. /\ TypeOK /\ RecordsKept /\ StepTakenOnce /\ HeldOnce /\ CarriedAlong /\ OneExecution
      /\ AsApproved /\ EffectsKept /\ StartedPinned /\ VerdictsTrue /\ RevocationsKept
  BY DEF IInv
<1>1. TypeOK'
  <2>1. world' \in 0 .. MaxWorld /\ crashes' \in 0 .. MaxCrashes /\ row' \in {"none", "pending", "acknowledged"}
        /\ {cancelled', blocked', ready'} \subseteq BOOLEAN /\ {intents', synced'} \subseteq SUBSET Calls
    BY <1>0 DEF TypeOK, Ask, RecordsKept, HeldOnce, Holds
  <2>2. call' \in [Calls -> Record] /\ wasCall' \in [Calls -> Record]
    BY <1>0 DEF TypeOK, Ask, Record
  <2>3. grant' \in [Grants -> Grant]
    BY <1>0 DEF TypeOK, Ask, Grant
  <2>4. exec' \in [Execs -> Exec]
    BY <1>0 DEF TypeOK, Ask, Exec, Receipts
  <2>5. adapter' \in [Execs -> [runs : BOOLEAN, commands : 0 .. MaxCommands]]
    BY <1>0 DEF TypeOK, Ask
  <2>6. ledger' \in [Calls -> Receipts \cup {"none", "reserved"}] /\ receipts' \in [Calls -> Receipts \cup {"none"}]
    BY <1>0 DEF TypeOK, Ask, CarriedAlong, Receipts
  <2>7. effects' \in SUBSET [call : Calls, exec : Execs, grant : Grants, world : 0 .. MaxWorld]
    BY <1>0 DEF TypeOK, Ask, CarriedAlong, RecordsKept
  <2> QED
    BY <2>1, <2>2, <2>3, <2>4, <2>5, <2>6, <2>7 DEF TypeOK
<1>2. RecordsKept'
  BY <1>0 DEF TypeOK, Record, Grant, Exec, Ask, RecordsKept
<1>3. StepTakenOnce'
  BY <1>0 DEF TypeOK, Record, Grant, Exec, Ask, StepTakenOnce, RecordsKept
<1>4. HeldOnce'
  BY <1>0 DEF TypeOK, Record, Grant, Exec, Ask, HeldOnce, Holds, CarriedAlong
<1>5. CarriedAlong'
  BY <1>0 DEF TypeOK, Record, Grant, Exec, Ask, CarriedAlong, Receipts
<1>6. OneExecution'
  BY <1>0 DEF TypeOK, Record, Grant, Exec, Ask, OneExecution
<1>7. AsApproved'
  BY <1>0 DEF TypeOK, Record, Grant, Exec, Ask, AsApproved, StartedPinned, EffectsKept
<1>8. EffectsKept'
  BY <1>0 DEF TypeOK, Record, Grant, Exec, Ask, EffectsKept, Holds
<1>9. StartedPinned'
  BY <1>0 DEF TypeOK, Record, Grant, Exec, Ask, StartedPinned, Touched, CarriedAlong, EffectsKept, Holds
<1>10. VerdictsTrue'
  BY <1>0 DEF TypeOK, Record, Grant, Exec, Ask, VerdictsTrue, Touched, Holds, EffectsKept, HeldOnce, CarriedAlong
<1>11. RevocationsKept'
  BY <1>0 DEF TypeOK, Record, Grant, Exec, Ask, RevocationsKept
<1> QED
  BY <1>1, <1>2, <1>3, <1>4, <1>5, <1>6, <1>7, <1>8, <1>9, <1>10, <1>11 DEF IInv

LEMMA IssueKeeps == ASSUME IInv, NEW g \in Grants, Issue(g) PROVE IInv'
<1> USE BoundsAreNatural, NoStepFresh DEF Idle, Free, NoRecord, durable, memory, Current
<1>0. /\ TypeOK /\ RecordsKept /\ StepTakenOnce /\ HeldOnce /\ CarriedAlong /\ OneExecution
      /\ AsApproved /\ EffectsKept /\ StartedPinned /\ VerdictsTrue /\ RevocationsKept
  BY DEF IInv
<1>1. TypeOK'
  <2>1. world' \in 0 .. MaxWorld /\ crashes' \in 0 .. MaxCrashes /\ row' \in {"none", "pending", "acknowledged"}
        /\ {cancelled', blocked', ready'} \subseteq BOOLEAN /\ {intents', synced'} \subseteq SUBSET Calls
    BY <1>0 DEF TypeOK, Issue, RecordsKept, HeldOnce, Holds
  <2>2. call' \in [Calls -> Record] /\ wasCall' \in [Calls -> Record]
    BY <1>0 DEF TypeOK, Issue, Record
  <2>3. grant' \in [Grants -> Grant]
    BY <1>0 DEF TypeOK, Issue, Grant
  <2>4. exec' \in [Execs -> Exec]
    BY <1>0 DEF TypeOK, Issue, Exec, Receipts
  <2>5. adapter' \in [Execs -> [runs : BOOLEAN, commands : 0 .. MaxCommands]]
    BY <1>0 DEF TypeOK, Issue
  <2>6. ledger' \in [Calls -> Receipts \cup {"none", "reserved"}] /\ receipts' \in [Calls -> Receipts \cup {"none"}]
    BY <1>0 DEF TypeOK, Issue, CarriedAlong, Receipts
  <2>7. effects' \in SUBSET [call : Calls, exec : Execs, grant : Grants, world : 0 .. MaxWorld]
    BY <1>0 DEF TypeOK, Issue, CarriedAlong, RecordsKept
  <2> QED
    BY <2>1, <2>2, <2>3, <2>4, <2>5, <2>6, <2>7 DEF TypeOK
<1>2. RecordsKept'
  BY <1>0 DEF TypeOK, Record, Grant, Exec, Issue, RecordsKept
<1>3. StepTakenOnce'
  BY <1>0 DEF TypeOK, Record, Grant, Exec, Issue, StepTakenOnce, RecordsKept
<1>4. HeldOnce'
  BY <1>0 DEF TypeOK, Record, Grant, Exec, Issue, HeldOnce, Holds, CarriedAlong
<1>5. CarriedAlong'
  BY <1>0 DEF TypeOK, Record, Grant, Exec, Issue, CarriedAlong, Receipts
<1>6. OneExecution'
  BY <1>0 DEF TypeOK, Record, Grant, Exec, Issue, OneExecution
<1>7. AsApproved'
  BY <1>0 DEF TypeOK, Record, Grant, Exec, Issue, AsApproved, StartedPinned
<1>8. EffectsKept'
  BY <1>0 DEF TypeOK, Record, Grant, Exec, Issue, EffectsKept, Holds
<1>9. StartedPinned'
  BY <1>0 DEF TypeOK, Record, Grant, Exec, Issue, StartedPinned, Touched, CarriedAlong, EffectsKept, Holds
<1>10. VerdictsTrue'
  BY <1>0 DEF TypeOK, Record, Grant, Exec, Issue, VerdictsTrue, Touched, Holds, EffectsKept, HeldOnce, CarriedAlong
<1>11. RevocationsKept'
  BY <1>0 DEF TypeOK, Record, Grant, Exec, Issue, RevocationsKept
<1> QED
  BY <1>1, <1>2, <1>3, <1>4, <1>5, <1>6, <1>7, <1>8, <1>9, <1>10, <1>11 DEF IInv

LEMMA CancelKeeps == ASSUME IInv, Cancel PROVE IInv'
<1> USE BoundsAreNatural, NoStepFresh DEF Idle, Free, NoRecord, durable, memory
<1>0. /\ TypeOK /\ RecordsKept /\ StepTakenOnce /\ HeldOnce /\ CarriedAlong /\ OneExecution
      /\ AsApproved /\ EffectsKept /\ StartedPinned /\ VerdictsTrue /\ RevocationsKept
  BY DEF IInv
<1>1. TypeOK'
  <2>1. world' \in 0 .. MaxWorld /\ crashes' \in 0 .. MaxCrashes /\ row' \in {"none", "pending", "acknowledged"}
        /\ {cancelled', blocked', ready'} \subseteq BOOLEAN /\ {intents', synced'} \subseteq SUBSET Calls
    BY <1>0 DEF TypeOK, Cancel, RecordsKept, HeldOnce, Holds
  <2>2. call' \in [Calls -> Record] /\ wasCall' \in [Calls -> Record]
    BY <1>0 DEF TypeOK, Cancel, Record
  <2>3. grant' \in [Grants -> Grant]
    <3>1. \A g \in Grants : grant[g] \in Grant /\ [grant[g] EXCEPT !.state = "void"] \in Grant
      BY <1>0, VoidTyped DEF TypeOK
    <3> QED
      BY <3>1 DEF Cancel
  <2>4. exec' \in [Execs -> Exec]
    BY <1>0 DEF TypeOK, Cancel, Exec, Receipts
  <2>5. adapter' \in [Execs -> [runs : BOOLEAN, commands : 0 .. MaxCommands]]
    BY <1>0 DEF TypeOK, Cancel
  <2>6. ledger' \in [Calls -> Receipts \cup {"none", "reserved"}] /\ receipts' \in [Calls -> Receipts \cup {"none"}]
    BY <1>0 DEF TypeOK, Cancel, CarriedAlong, Receipts
  <2>7. effects' \in SUBSET [call : Calls, exec : Execs, grant : Grants, world : 0 .. MaxWorld]
    BY <1>0 DEF TypeOK, Cancel, CarriedAlong, RecordsKept
  <2> QED
    BY <2>1, <2>2, <2>3, <2>4, <2>5, <2>6, <2>7 DEF TypeOK
<1>2. RecordsKept'
  BY <1>0 DEF TypeOK, Record, Grant, Exec, Cancel, RecordsKept
<1>3. StepTakenOnce'
  BY <1>0 DEF TypeOK, Record, Grant, Exec, Cancel, StepTakenOnce, RecordsKept
<1>4. HeldOnce'
  BY <1>0 DEF TypeOK, Record, Grant, Exec, Cancel, HeldOnce, Holds, CarriedAlong
<1>5. CarriedAlong'
  BY <1>0 DEF TypeOK, Record, Grant, Exec, Cancel, CarriedAlong, Receipts
<1>6. OneExecution'
  BY <1>0 DEF TypeOK, Record, Grant, Exec, Cancel, OneExecution
<1>7. AsApproved'
  BY <1>0 DEF TypeOK, Record, Grant, Exec, Cancel, AsApproved, StartedPinned
<1>8. EffectsKept'
  BY <1>0 DEF TypeOK, Record, Grant, Exec, Cancel, EffectsKept, Holds
<1>9. StartedPinned'
  BY <1>0 DEF TypeOK, Record, Grant, Exec, Cancel, StartedPinned, Touched, CarriedAlong, EffectsKept, Holds
<1>10. VerdictsTrue'
  BY <1>0 DEF TypeOK, Record, Grant, Exec, Cancel, VerdictsTrue, Touched, Holds, EffectsKept, HeldOnce, CarriedAlong
<1>11. RevocationsKept'
  BY <1>0 DEF TypeOK, Record, Grant, Exec, Cancel, RevocationsKept
<1> QED
  BY <1>1, <1>2, <1>3, <1>4, <1>5, <1>6, <1>7, <1>8, <1>9, <1>10, <1>11 DEF IInv

LEMMA BeginKeeps == ASSUME IInv, NEW x \in Execs, NEW c \in Calls, NEW g \in Grants, Begin(x, c, g) PROVE IInv'
<1> USE BoundsAreNatural, NoStepFresh DEF Idle, Free, NoRecord, durable, memory, Go, OnlyExec, Current, Usable
<1>0. /\ TypeOK /\ RecordsKept /\ StepTakenOnce /\ HeldOnce /\ CarriedAlong /\ OneExecution
      /\ AsApproved /\ EffectsKept /\ StartedPinned /\ VerdictsTrue /\ RevocationsKept
  BY DEF IInv
<1>1. TypeOK'
  <2>1. world' \in 0 .. MaxWorld /\ crashes' \in 0 .. MaxCrashes /\ row' \in {"none", "pending", "acknowledged"}
        /\ {cancelled', blocked', ready'} \subseteq BOOLEAN /\ {intents', synced'} \subseteq SUBSET Calls
    BY <1>0 DEF TypeOK, Begin, RecordsKept, HeldOnce, Holds
  <2>2. call' \in [Calls -> Record] /\ wasCall' \in [Calls -> Record]
    BY <1>0 DEF TypeOK, Begin, Record
  <2>3. grant' \in [Grants -> Grant]
    BY <1>0 DEF TypeOK, Begin, Grant
  <2>4. exec' \in [Execs -> Exec]
    <3>1. [Idle EXCEPT !.pc = "preflight", !.call = c, !.grant = g] \in Exec
      <4> HIDE DEF Idle
      <4> QED
        BY IdleTyped, BegunTyped
    <3>2. exec' = [exec EXCEPT ![x] = [Idle EXCEPT !.pc = "preflight", !.call = c, !.grant = g]]
      BY DEF Begin
    <3> QED
      BY <1>0, <3>1, <3>2 DEF TypeOK
  <2>5. adapter' \in [Execs -> [runs : BOOLEAN, commands : 0 .. MaxCommands]]
    BY <1>0 DEF TypeOK, Begin
  <2>6. ledger' \in [Calls -> Receipts \cup {"none", "reserved"}] /\ receipts' \in [Calls -> Receipts \cup {"none"}]
    BY <1>0 DEF TypeOK, Begin, CarriedAlong, Receipts
  <2>7. effects' \in SUBSET [call : Calls, exec : Execs, grant : Grants, world : 0 .. MaxWorld]
    BY <1>0 DEF TypeOK, Begin, CarriedAlong, RecordsKept
  <2> QED
    BY <2>1, <2>2, <2>3, <2>4, <2>5, <2>6, <2>7 DEF TypeOK
<1>2. RecordsKept'
  BY <1>0 DEF TypeOK, Record, Grant, Exec, Begin, RecordsKept
<1>3. StepTakenOnce'
  BY <1>0 DEF TypeOK, Record, Grant, Exec, Begin, StepTakenOnce, RecordsKept
<1>4. HeldOnce'
  BY <1>0 DEF TypeOK, Record, Grant, Exec, Begin, HeldOnce, Holds, CarriedAlong
<1>5. CarriedAlong'
  BY <1>0 DEF TypeOK, Record, Grant, Exec, Begin, CarriedAlong, Receipts
<1>6. OneExecution'
  BY <1>0 DEF TypeOK, Record, Grant, Exec, Begin, OneExecution
<1>7. AsApproved'
  BY <1>0 DEF TypeOK, Record, Grant, Exec, Begin, AsApproved, StartedPinned
<1>8. EffectsKept'
  BY <1>0 DEF TypeOK, Record, Grant, Exec, Begin, EffectsKept, Holds, CarriedAlong
<1>9. StartedPinned'
  BY <1>0 DEF TypeOK, Record, Grant, Exec, Begin, StartedPinned, Touched, CarriedAlong, EffectsKept, Holds
<1>10. VerdictsTrue'
  BY <1>0 DEF TypeOK, Record, Grant, Exec, Begin, VerdictsTrue, Touched, Holds, EffectsKept, HeldOnce, CarriedAlong
<1>11. RevocationsKept'
  BY <1>0 DEF TypeOK, Record, Grant, Exec, Begin, RevocationsKept
<1> QED
  BY <1>1, <1>2, <1>3, <1>4, <1>5, <1>6, <1>7, <1>8, <1>9, <1>10, <1>11 DEF IInv

LEMMA BeginNoOpKeeps == ASSUME IInv, NEW x \in Execs, NEW c \in Calls, BeginNoOp(x, c) PROVE IInv'
<1> USE BoundsAreNatural, NoStepFresh DEF Idle, Free, NoRecord, durable, memory, Go, OnlyExec, Current
<1>0. /\ TypeOK /\ RecordsKept /\ StepTakenOnce /\ HeldOnce /\ CarriedAlong /\ OneExecution
      /\ AsApproved /\ EffectsKept /\ StartedPinned /\ VerdictsTrue /\ RevocationsKept
  BY DEF IInv
<1>1. TypeOK'
  <2>1. world' \in 0 .. MaxWorld /\ crashes' \in 0 .. MaxCrashes /\ row' \in {"none", "pending", "acknowledged"}
        /\ {cancelled', blocked', ready'} \subseteq BOOLEAN /\ {intents', synced'} \subseteq SUBSET Calls
    BY <1>0 DEF TypeOK, BeginNoOp, RecordsKept, HeldOnce, Holds
  <2>2. call' \in [Calls -> Record] /\ wasCall' \in [Calls -> Record]
    BY <1>0 DEF TypeOK, BeginNoOp, Record
  <2>3. grant' \in [Grants -> Grant]
    BY <1>0 DEF TypeOK, BeginNoOp, Grant
  <2>4. exec' \in [Execs -> Exec]
    <3>1. [Idle EXCEPT !.pc = "intent", !.call = c, !.result = "satisfied"] \in Exec
      <4> HIDE DEF Idle
      <4> QED
        BY IdleTyped, NoOpTyped
    <3>2. exec' = [exec EXCEPT ![x] = [Idle EXCEPT !.pc = "intent", !.call = c, !.result = "satisfied"]]
      BY DEF BeginNoOp
    <3> QED
      BY <1>0, <3>1, <3>2 DEF TypeOK
  <2>5. adapter' \in [Execs -> [runs : BOOLEAN, commands : 0 .. MaxCommands]]
    BY <1>0 DEF TypeOK, BeginNoOp
  <2>6. ledger' \in [Calls -> Receipts \cup {"none", "reserved"}] /\ receipts' \in [Calls -> Receipts \cup {"none"}]
    BY <1>0 DEF TypeOK, BeginNoOp, CarriedAlong, Receipts
  <2>7. effects' \in SUBSET [call : Calls, exec : Execs, grant : Grants, world : 0 .. MaxWorld]
    BY <1>0 DEF TypeOK, BeginNoOp, CarriedAlong, RecordsKept
  <2> QED
    BY <2>1, <2>2, <2>3, <2>4, <2>5, <2>6, <2>7 DEF TypeOK
<1>2. RecordsKept'
  BY <1>0 DEF TypeOK, Record, Grant, Exec, BeginNoOp, RecordsKept
<1>3. StepTakenOnce'
  BY <1>0 DEF TypeOK, Record, Grant, Exec, BeginNoOp, StepTakenOnce, RecordsKept
<1>4. HeldOnce'
  BY <1>0 DEF TypeOK, Record, Grant, Exec, BeginNoOp, HeldOnce, Holds, CarriedAlong
<1>5. CarriedAlong'
  BY <1>0 DEF TypeOK, Record, Grant, Exec, BeginNoOp, CarriedAlong, Receipts
<1>6. OneExecution'
  BY <1>0 DEF TypeOK, Record, Grant, Exec, BeginNoOp, OneExecution
<1>7. AsApproved'
  BY <1>0 DEF TypeOK, Record, Grant, Exec, BeginNoOp, AsApproved, StartedPinned
<1>8. EffectsKept'
  BY <1>0 DEF TypeOK, Record, Grant, Exec, BeginNoOp, EffectsKept, Holds, CarriedAlong
<1>9. StartedPinned'
  BY <1>0 DEF TypeOK, Record, Grant, Exec, BeginNoOp, StartedPinned, Touched, CarriedAlong, EffectsKept, Holds
<1>10. VerdictsTrue'
  BY <1>0 DEF TypeOK, Record, Grant, Exec, BeginNoOp, VerdictsTrue, Touched, Holds, EffectsKept, HeldOnce, CarriedAlong
<1>11. RevocationsKept'
  BY <1>0 DEF TypeOK, Record, Grant, Exec, BeginNoOp, RevocationsKept
<1> QED
  BY <1>1, <1>2, <1>3, <1>4, <1>5, <1>6, <1>7, <1>8, <1>9, <1>10, <1>11 DEF IInv

LEMMA PreflightKeeps == ASSUME IInv, NEW x \in Execs, Preflight(x) PROVE IInv'
<1> USE BoundsAreNatural, NoStepFresh DEF Idle, Free, NoRecord, durable, memory, Go, OnlyExec
<1>0. /\ TypeOK /\ RecordsKept /\ StepTakenOnce /\ HeldOnce /\ CarriedAlong /\ OneExecution
      /\ AsApproved /\ EffectsKept /\ StartedPinned /\ VerdictsTrue /\ RevocationsKept
  BY DEF IInv
<1>1. TypeOK'
  <2>1. world' \in 0 .. MaxWorld /\ crashes' \in 0 .. MaxCrashes /\ row' \in {"none", "pending", "acknowledged"}
        /\ {cancelled', blocked', ready'} \subseteq BOOLEAN /\ {intents', synced'} \subseteq SUBSET Calls
    BY <1>0 DEF TypeOK, Preflight, RecordsKept, HeldOnce, Holds
  <2>2. call' \in [Calls -> Record] /\ wasCall' \in [Calls -> Record]
    BY <1>0 DEF TypeOK, Preflight, Record
  <2>3. grant' \in [Grants -> Grant]
    BY <1>0 DEF TypeOK, Preflight, Grant
  <2>4. exec' \in [Execs -> Exec]
    <3>1. exec[x] \in Exec /\ world \in 0 .. MaxWorld
      BY <1>0 DEF TypeOK
    <3>2. \E p \in Places : exec' = [exec EXCEPT ![x] = [exec[x] EXCEPT !.pc = p]]
      BY <1>0 DEF TypeOK, Preflight, Places
    <3> QED
      BY <1>0, <3>1, <3>2, PcTyped DEF TypeOK
  <2>5. adapter' \in [Execs -> [runs : BOOLEAN, commands : 0 .. MaxCommands]]
    BY <1>0 DEF TypeOK, Preflight
  <2>6. ledger' \in [Calls -> Receipts \cup {"none", "reserved"}] /\ receipts' \in [Calls -> Receipts \cup {"none"}]
    BY <1>0 DEF TypeOK, Preflight, CarriedAlong, Receipts
  <2>7. effects' \in SUBSET [call : Calls, exec : Execs, grant : Grants, world : 0 .. MaxWorld]
    BY <1>0 DEF TypeOK, Preflight, CarriedAlong, RecordsKept
  <2> QED
    BY <2>1, <2>2, <2>3, <2>4, <2>5, <2>6, <2>7 DEF TypeOK
<1>2. RecordsKept'
  BY <1>0 DEF TypeOK, Record, Grant, Exec, Preflight, RecordsKept
<1>3. StepTakenOnce'
  BY <1>0 DEF TypeOK, Record, Grant, Exec, Preflight, StepTakenOnce, RecordsKept
<1>4. HeldOnce'
  BY <1>0 DEF TypeOK, Record, Grant, Exec, Preflight, HeldOnce, Holds, CarriedAlong
<1>5. CarriedAlong'
  BY <1>0 DEF TypeOK, Record, Grant, Exec, Preflight, CarriedAlong, Receipts
<1>6. OneExecution'
  BY <1>0 DEF TypeOK, Record, Grant, Exec, Preflight, OneExecution
<1>7. AsApproved'
  BY <1>0 DEF TypeOK, Record, Grant, Exec, Preflight, AsApproved, StartedPinned
<1>8. EffectsKept'
  BY <1>0 DEF TypeOK, Record, Grant, Exec, Preflight, EffectsKept, Holds
<1>9. StartedPinned'
  BY <1>0 DEF TypeOK, Record, Grant, Exec, Preflight, StartedPinned, Touched, CarriedAlong, EffectsKept, Holds
<1>10. VerdictsTrue'
  BY <1>0 DEF TypeOK, Record, Grant, Exec, Preflight, VerdictsTrue, Touched, Holds, EffectsKept, HeldOnce, CarriedAlong
<1>11. RevocationsKept'
  BY <1>0 DEF TypeOK, Record, Grant, Exec, Preflight, RevocationsKept
<1> QED
  BY <1>1, <1>2, <1>3, <1>4, <1>5, <1>6, <1>7, <1>8, <1>9, <1>10, <1>11 DEF IInv

LEMMA IntendKeeps == ASSUME IInv, NEW x \in Execs, Intend(x) PROVE IInv'
<1> USE BoundsAreNatural, NoStepFresh DEF Idle, Free, NoRecord, durable, memory, Go, Taken
<1>0. /\ TypeOK /\ RecordsKept /\ StepTakenOnce /\ HeldOnce /\ CarriedAlong /\ OneExecution
      /\ AsApproved /\ EffectsKept /\ StartedPinned /\ VerdictsTrue /\ RevocationsKept
  BY DEF IInv
<1>1. TypeOK'
  <2>1. world' \in 0 .. MaxWorld /\ crashes' \in 0 .. MaxCrashes /\ row' \in {"none", "pending", "acknowledged"}
        /\ {cancelled', blocked', ready'} \subseteq BOOLEAN /\ {intents', synced'} \subseteq SUBSET Calls
    BY <1>0 DEF TypeOK, Intend, RecordsKept, HeldOnce, Holds
  <2>2. call' \in [Calls -> Record] /\ wasCall' \in [Calls -> Record]
    BY <1>0 DEF TypeOK, Intend, Record
  <2>3. grant' \in [Grants -> Grant]
    BY <1>0 DEF TypeOK, Intend, Grant
  <2>4. exec' \in [Execs -> Exec]
    <3>1. exec[x] \in Exec /\ world \in 0 .. MaxWorld
      BY <1>0 DEF TypeOK
    <3>2. \E p \in Places : exec' = [exec EXCEPT ![x] = [exec[x] EXCEPT !.pc = p]]
      BY <1>0 DEF TypeOK, Intend, Places
    <3> QED
      BY <1>0, <3>1, <3>2, PcTyped DEF TypeOK
  <2>5. adapter' \in [Execs -> [runs : BOOLEAN, commands : 0 .. MaxCommands]]
    BY <1>0 DEF TypeOK, Intend
  <2>6. ledger' \in [Calls -> Receipts \cup {"none", "reserved"}] /\ receipts' \in [Calls -> Receipts \cup {"none"}]
    BY <1>0 DEF TypeOK, Intend, CarriedAlong, Receipts
  <2>7. effects' \in SUBSET [call : Calls, exec : Execs, grant : Grants, world : 0 .. MaxWorld]
    BY <1>0 DEF TypeOK, Intend, CarriedAlong, RecordsKept
  <2> QED
    BY <2>1, <2>2, <2>3, <2>4, <2>5, <2>6, <2>7 DEF TypeOK
<1>2. RecordsKept'
  BY <1>0 DEF TypeOK, Record, Grant, Exec, Intend, RecordsKept
<1>3. StepTakenOnce'
  BY <1>0 DEF TypeOK, Record, Grant, Exec, Intend, StepTakenOnce, RecordsKept
<1>4. HeldOnce'
  BY <1>0 DEF TypeOK, Record, Grant, Exec, Intend, HeldOnce, Holds, CarriedAlong
<1>5. CarriedAlong'
  BY <1>0 DEF TypeOK, Record, Grant, Exec, Intend, CarriedAlong, Receipts
<1>6. OneExecution'
  BY <1>0 DEF TypeOK, Record, Grant, Exec, Intend, OneExecution
<1>7. AsApproved'
  BY <1>0 DEF TypeOK, Record, Grant, Exec, Intend, AsApproved, StartedPinned
<1>8. EffectsKept'
  BY <1>0 DEF TypeOK, Record, Grant, Exec, Intend, EffectsKept, Holds
<1>9. StartedPinned'
  BY <1>0 DEF TypeOK, Record, Grant, Exec, Intend, StartedPinned, Touched, CarriedAlong, EffectsKept, Holds
<1>10. VerdictsTrue'
  BY <1>0 DEF TypeOK, Record, Grant, Exec, Intend, VerdictsTrue, Touched, Holds, EffectsKept, HeldOnce, CarriedAlong
<1>11. RevocationsKept'
  BY <1>0 DEF TypeOK, Record, Grant, Exec, Intend, RevocationsKept
<1> QED
  BY <1>1, <1>2, <1>3, <1>4, <1>5, <1>6, <1>7, <1>8, <1>9, <1>10, <1>11 DEF IInv

LEMMA ReserveKeeps == ASSUME IInv, NEW x \in Execs, Reserve(x) PROVE IInv'
<1> USE BoundsAreNatural, NoStepFresh DEF Idle, Free, NoRecord, durable, memory, Go, Reserved
<1>0. /\ TypeOK /\ RecordsKept /\ StepTakenOnce /\ HeldOnce /\ CarriedAlong /\ OneExecution
      /\ AsApproved /\ EffectsKept /\ StartedPinned /\ VerdictsTrue /\ RevocationsKept
  BY DEF IInv
<1>1. TypeOK'
  <2>1. world' \in 0 .. MaxWorld /\ crashes' \in 0 .. MaxCrashes /\ row' \in {"none", "pending", "acknowledged"}
        /\ {cancelled', blocked', ready'} \subseteq BOOLEAN /\ {intents', synced'} \subseteq SUBSET Calls
    BY <1>0 DEF TypeOK, Reserve, RecordsKept, HeldOnce, Holds
  <2>2. call' \in [Calls -> Record] /\ wasCall' \in [Calls -> Record]
    BY <1>0 DEF TypeOK, Reserve, Record
  <2>3. grant' \in [Grants -> Grant]
    BY <1>0 DEF TypeOK, Reserve, Grant
  <2>4. exec' \in [Execs -> Exec]
    <3>1. exec[x] \in Exec /\ world \in 0 .. MaxWorld
      BY <1>0 DEF TypeOK
    <3>2. PICK p \in Places : exec' = [exec EXCEPT ![x] = [exec[x] EXCEPT !.pc = p, !.pinned = world]]
      BY DEF Reserve, Places
    <3>3. [exec[x] EXCEPT !.pc = p, !.pinned = world] \in Exec
      BY <3>1, PinnedTyped
    <3> QED
      BY <1>0, <3>2, <3>3 DEF TypeOK
  <2>5. adapter' \in [Execs -> [runs : BOOLEAN, commands : 0 .. MaxCommands]]
    BY <1>0 DEF TypeOK, Reserve
  <2>6. ledger' \in [Calls -> Receipts \cup {"none", "reserved"}] /\ receipts' \in [Calls -> Receipts \cup {"none"}]
    BY <1>0 DEF TypeOK, Reserve, CarriedAlong, Receipts
  <2>7. effects' \in SUBSET [call : Calls, exec : Execs, grant : Grants, world : 0 .. MaxWorld]
    BY <1>0 DEF TypeOK, Reserve, CarriedAlong, RecordsKept
  <2> QED
    BY <2>1, <2>2, <2>3, <2>4, <2>5, <2>6, <2>7 DEF TypeOK
<1>a. /\ exec[x].pc = "reserving" /\ ledger[exec[x].call] = "none"
      /\ exec'[x].pc = IF exec[x].result = "none" THEN "observing" ELSE "settling"
      /\ exec'[x].call = exec[x].call /\ exec'[x].grant = exec[x].grant /\ exec'[x].started = exec[x].started
      /\ exec'[x].result = exec[x].result /\ exec'[x].pinned = world
  BY <1>0 DEF TypeOK, Exec, Reserve
<1>b. \A y \in Execs : y # x => exec'[y] = exec[y]
  BY <1>0 DEF TypeOK, Reserve
<1>c. /\ ledger' = [ledger EXCEPT ![exec[x].call] = "reserved"]
      /\ UNCHANGED <<world, call, cancelled, grant, adapter, blocked, ready, receipts, row, intents, effects, wasCall>>
  BY <1>0 DEF TypeOK, Reserve
<1>2. RecordsKept'
  BY <1>0, <1>a, <1>b, <1>c DEF TypeOK, RecordsKept
<1>3. StepTakenOnce'
  BY <1>0, <1>a, <1>b, <1>c DEF TypeOK, StepTakenOnce, RecordsKept
<1>4. HeldOnce'
  <2>1. \A y \in Execs : exec'[y].call = exec[y].call /\ exec'[y].result = exec[y].result
    BY <1>a, <1>b
  <2>2. \A y \in Execs : y # x => (Holds(y)' <=> Holds(y)) /\ exec'[y].pc = exec[y].pc
    BY <1>b DEF Holds
  <2>3. \A y \in Execs : Holds(y) => exec[y].call # exec[x].call
    BY <1>0, <1>a DEF HeldOnce, Holds, CarriedAlong, Receipts
  <2>4. exec[x].call \in Calls /\ exec[x].call \in intents /\ exec'[x].pc # "acking" /\ exec'[x].pc # "reserving"
    BY <1>0, <1>a DEF TypeOK, HeldOnce
  <2>5. ledger'[exec[x].call] = "reserved" /\ \A c \in Calls : c # exec[x].call => ledger'[c] = ledger[c]
    BY <1>0, <1>c, <2>4 DEF TypeOK
  <2>6. \A y \in Execs : exec'[y].pc = "reserving" \/ Holds(y)' => exec'[y].call \in intents'
    BY <1>0, <1>c, <2>1, <2>2, <2>4 DEF HeldOnce
  <2>7. \A y \in Execs : Holds(y)' =>
          ledger'[exec'[y].call] = IF exec'[y].pc = "acking" THEN exec'[y].result ELSE "reserved"
    <3> SUFFICES ASSUME NEW y \in Execs, Holds(y)'
                 PROVE ledger'[exec'[y].call] = IF exec'[y].pc = "acking" THEN exec'[y].result ELSE "reserved"
      OBVIOUS
    <3>1. CASE y = x
      BY <2>1, <2>4, <2>5, <3>1
    <3>2. CASE y # x
      <4>1. Holds(y) /\ exec[y].call # exec[x].call /\ exec[y].call \in Calls
        BY <1>0, <2>2, <2>3, <3>2 DEF HeldOnce, TypeOK
      <4> QED
        BY <1>0, <2>1, <2>2, <2>5, <3>2, <4>1 DEF HeldOnce
    <3> QED
      BY <3>1, <3>2
  <2>8. \A y, z \in Execs : Holds(y)' /\ Holds(z)' /\ exec'[y].call = exec'[z].call => y = z
    BY <1>0, <2>1, <2>2, <2>3 DEF HeldOnce
  <2> QED
    BY <2>6, <2>7, <2>8 DEF HeldOnce
<1>5. CarriedAlong'
  BY <1>0, <1>a, <1>b, <1>c DEF TypeOK, CarriedAlong, Receipts
<1>6. OneExecution'
  BY <1>0, <1>a, <1>b, <1>c DEF TypeOK, OneExecution
<1>7. AsApproved'
  BY <1>0, <1>a, <1>b, <1>c DEF TypeOK, AsApproved, StartedPinned
<1>8. EffectsKept'
  BY <1>0, <1>a, <1>b, <1>c DEF TypeOK, EffectsKept, Holds, HeldOnce, CarriedAlong
<1>9. StartedPinned'
  BY <1>0, <1>a, <1>b, <1>c DEF TypeOK, StartedPinned, Touched, CarriedAlong, EffectsKept, Holds
<1>10. VerdictsTrue'
  BY <1>0, <1>a, <1>b, <1>c DEF TypeOK, VerdictsTrue, Touched, Holds, EffectsKept, HeldOnce, CarriedAlong
<1>11. RevocationsKept'
  BY <1>0, <1>a, <1>b, <1>c DEF TypeOK, RevocationsKept
<1> QED
  BY <1>1, <1>2, <1>3, <1>4, <1>5, <1>6, <1>7, <1>8, <1>9, <1>10, <1>11 DEF IInv

LEMMA RepeatKeeps == ASSUME IInv, NEW x \in Execs, Repeat(x) PROVE IInv'
<1> USE BoundsAreNatural, NoStepFresh DEF Idle, Free, NoRecord, durable, memory, Go, Reserved
<1>0. /\ TypeOK /\ RecordsKept /\ StepTakenOnce /\ HeldOnce /\ CarriedAlong /\ OneExecution
      /\ AsApproved /\ EffectsKept /\ StartedPinned /\ VerdictsTrue /\ RevocationsKept
  BY DEF IInv
<1>1. TypeOK'
  <2>1. world' \in 0 .. MaxWorld /\ crashes' \in 0 .. MaxCrashes /\ row' \in {"none", "pending", "acknowledged"}
        /\ {cancelled', blocked', ready'} \subseteq BOOLEAN /\ {intents', synced'} \subseteq SUBSET Calls
    BY <1>0 DEF TypeOK, Repeat, RecordsKept, HeldOnce, Holds
  <2>2. call' \in [Calls -> Record] /\ wasCall' \in [Calls -> Record]
    BY <1>0 DEF TypeOK, Repeat, Record
  <2>3. grant' \in [Grants -> Grant]
    BY <1>0 DEF TypeOK, Repeat, Grant
  <2>4. exec' \in [Execs -> Exec]
    <3>1. exec[x] \in Exec
      BY <1>0 DEF TypeOK
    <3>2. PICK p \in Places, r \in Receipts \cup {"none"} :
            exec' = [exec EXCEPT ![x] = [exec[x] EXCEPT !.pc = p, !.result = r]]
      BY <1>0 DEF TypeOK, Repeat, Places, Receipts
    <3>3. [exec[x] EXCEPT !.pc = p, !.result = r] \in Exec
      BY <3>1, ResultTyped
    <3> QED
      BY <1>0, <3>2, <3>3 DEF TypeOK
  <2>5. adapter' \in [Execs -> [runs : BOOLEAN, commands : 0 .. MaxCommands]]
    BY <1>0 DEF TypeOK, Repeat
  <2>6. ledger' \in [Calls -> Receipts \cup {"none", "reserved"}] /\ receipts' \in [Calls -> Receipts \cup {"none"}]
    BY <1>0 DEF TypeOK, Repeat, CarriedAlong, Receipts
  <2>7. effects' \in SUBSET [call : Calls, exec : Execs, grant : Grants, world : 0 .. MaxWorld]
    BY <1>0 DEF TypeOK, Repeat, CarriedAlong, RecordsKept
  <2> QED
    BY <2>1, <2>2, <2>3, <2>4, <2>5, <2>6, <2>7 DEF TypeOK
<1>2. RecordsKept'
  BY <1>0 DEF TypeOK, Record, Grant, Exec, Repeat, RecordsKept
<1>3. StepTakenOnce'
  BY <1>0 DEF TypeOK, Record, Grant, Exec, Repeat, StepTakenOnce, RecordsKept
<1>4. HeldOnce'
  BY <1>0 DEF TypeOK, Record, Grant, Exec, Repeat, HeldOnce, Holds, CarriedAlong
<1>5. CarriedAlong'
  BY <1>0 DEF TypeOK, Record, Grant, Exec, Repeat, CarriedAlong, Receipts
<1>6. OneExecution'
  BY <1>0 DEF TypeOK, Record, Grant, Exec, Repeat, OneExecution
<1>7. AsApproved'
  BY <1>0 DEF TypeOK, Record, Grant, Exec, Repeat, AsApproved, StartedPinned
<1>8. EffectsKept'
  BY <1>0 DEF TypeOK, Record, Grant, Exec, Repeat, EffectsKept, Holds
<1>9. StartedPinned'
  BY <1>0 DEF TypeOK, Record, Grant, Exec, Repeat, StartedPinned, Touched, CarriedAlong, EffectsKept, Holds
<1>10. VerdictsTrue'
  BY <1>0 DEF TypeOK, Record, Grant, Exec, Repeat, VerdictsTrue, Touched, Holds, EffectsKept, HeldOnce, CarriedAlong
<1>11. RevocationsKept'
  BY <1>0 DEF TypeOK, Record, Grant, Exec, Repeat, RevocationsKept
<1> QED
  BY <1>1, <1>2, <1>3, <1>4, <1>5, <1>6, <1>7, <1>8, <1>9, <1>10, <1>11 DEF IInv

LEMMA ObserveKeeps == ASSUME IInv, NEW x \in Execs, Observe(x) PROVE IInv'
<1> USE BoundsAreNatural, NoStepFresh DEF Idle, Free, NoRecord, durable, memory, Go
<1>0. /\ TypeOK /\ RecordsKept /\ StepTakenOnce /\ HeldOnce /\ CarriedAlong /\ OneExecution
      /\ AsApproved /\ EffectsKept /\ StartedPinned /\ VerdictsTrue /\ RevocationsKept
  BY DEF IInv
<1>1. TypeOK'
  <2>1. world' \in 0 .. MaxWorld /\ crashes' \in 0 .. MaxCrashes /\ row' \in {"none", "pending", "acknowledged"}
        /\ {cancelled', blocked', ready'} \subseteq BOOLEAN /\ {intents', synced'} \subseteq SUBSET Calls
    BY <1>0 DEF TypeOK, Observe, RecordsKept, HeldOnce, Holds
  <2>2. call' \in [Calls -> Record] /\ wasCall' \in [Calls -> Record]
    BY <1>0 DEF TypeOK, Observe, Record
  <2>3. grant' \in [Grants -> Grant]
    BY <1>0 DEF TypeOK, Observe, Grant
  <2>4. exec' \in [Execs -> Exec]
    <3>1. exec[x] \in Exec
      BY <1>0 DEF TypeOK
    <3>2. PICK e \in {[exec[x] EXCEPT !.pc = "dispatching"],
                      [exec[x] EXCEPT !.pc = "settling", !.result = "satisfied"]} :
            exec' = [exec EXCEPT ![x] = e]
      BY DEF Observe
    <3>3. [exec[x] EXCEPT !.pc = "dispatching"] \in Exec
      BY <3>1, PcTyped DEF Places
    <3>4. [exec[x] EXCEPT !.pc = "settling", !.result = "satisfied"] \in Exec
      BY <3>1, ResultTyped DEF Places, Receipts
    <3> QED
      BY <1>0, <3>2, <3>3, <3>4 DEF TypeOK
  <2>5. adapter' \in [Execs -> [runs : BOOLEAN, commands : 0 .. MaxCommands]]
    <3>1. adapter' = adapter \/ adapter' = [adapter EXCEPT ![x] = [adapter[x] EXCEPT !.runs = TRUE]]
      BY DEF Observe
    <3>2. [adapter[x] EXCEPT !.runs = TRUE] \in [runs : BOOLEAN, commands : 0 .. MaxCommands]
      BY <1>0, RunsTyped DEF TypeOK
    <3> QED
      BY <1>0, <3>1, <3>2 DEF TypeOK
  <2>6. ledger' \in [Calls -> Receipts \cup {"none", "reserved"}] /\ receipts' \in [Calls -> Receipts \cup {"none"}]
    BY <1>0 DEF TypeOK, Observe, CarriedAlong, Receipts
  <2>7. effects' \in SUBSET [call : Calls, exec : Execs, grant : Grants, world : 0 .. MaxWorld]
    BY <1>0 DEF TypeOK, Observe, CarriedAlong, RecordsKept
  <2> QED
    BY <2>1, <2>2, <2>3, <2>4, <2>5, <2>6, <2>7 DEF TypeOK
<1>a. /\ exec[x].pc = "observing"
      /\ \/ exec'[x].pc = "settling" /\ exec'[x].result = "satisfied"
         \/ exec'[x].pc = "dispatching" /\ exec'[x].result = exec[x].result
      /\ exec'[x].call = exec[x].call /\ exec'[x].grant = exec[x].grant /\ exec'[x].started = exec[x].started
      /\ exec'[x].pinned = exec[x].pinned
  <2>1. exec[x].pc = "observing" /\ exec[x] \in Exec /\ x \in Execs
    BY <1>0 DEF TypeOK, Observe
  <2>2. CASE exec' = [exec EXCEPT ![x] = [exec[x] EXCEPT !.pc = "settling", !.result = "satisfied"]]
    <3>1. exec'[x] = [exec[x] EXCEPT !.pc = "settling", !.result = "satisfied"]
      BY <1>0, <2>2 DEF TypeOK
    <3> QED
      BY <2>1, <3>1 DEF Exec
  <2>3. CASE exec' = [exec EXCEPT ![x] = [exec[x] EXCEPT !.pc = "dispatching"]]
    <3>1. exec'[x] = [exec[x] EXCEPT !.pc = "dispatching"]
      BY <1>0, <2>3 DEF TypeOK
    <3> QED
      BY <2>1, <3>1 DEF Exec
  <2> QED
    BY <2>2, <2>3 DEF Observe
<1>b. \A y \in Execs : y # x => exec'[y] = exec[y]
  BY <1>0 DEF TypeOK, Observe
<1>c. /\ \A y \in Execs : adapter'[y].commands = adapter[y].commands
      /\ UNCHANGED <<world, call, cancelled, grant, blocked, ready, receipts, ledger, row, intents, effects, wasCall>>
  BY <1>0 DEF TypeOK, Observe
<1>2. RecordsKept'
  BY <1>0, <1>a, <1>b, <1>c DEF TypeOK, RecordsKept
<1>3. StepTakenOnce'
  BY <1>0, <1>a, <1>b, <1>c DEF TypeOK, StepTakenOnce, RecordsKept
<1>4. HeldOnce'
  <2>1. \A y \in Execs : exec'[y].call = exec[y].call
    BY <1>a, <1>b
  <2>2. \A y \in Execs : (Holds(y)' <=> Holds(y)) /\ (exec'[y].pc = "acking" <=> exec[y].pc = "acking")
    BY <1>a, <1>b DEF Holds
  <2>3. \A y \in Execs : exec'[y].pc = "acking" => exec'[y].result = exec[y].result
    BY <1>a, <1>b
  <2>4. \A y \in Execs : exec'[y].pc = "reserving" => exec[y].pc = "reserving"
    BY <1>a, <1>b
  <2> QED
    BY <1>0, <1>c, <2>1, <2>2, <2>3, <2>4 DEF HeldOnce
<1>5. CarriedAlong'
  BY <1>0, <1>a, <1>b, <1>c DEF TypeOK, CarriedAlong, Receipts
<1>6. OneExecution'
  BY <1>0, <1>a, <1>b, <1>c DEF TypeOK, OneExecution
<1>7. AsApproved'
  BY <1>0, <1>a, <1>b, <1>c DEF TypeOK, AsApproved, StartedPinned
<1>8. EffectsKept'
  BY <1>0, <1>a, <1>b, <1>c DEF TypeOK, EffectsKept, Holds
<1>9. StartedPinned'
  BY <1>0, <1>a, <1>b, <1>c DEF TypeOK, StartedPinned, Touched, CarriedAlong, EffectsKept, Holds
<1>10. VerdictsTrue'
  BY <1>0, <1>a, <1>b, <1>c DEF TypeOK, VerdictsTrue, Touched, Holds, EffectsKept, HeldOnce, CarriedAlong
<1>11. RevocationsKept'
  BY <1>0, <1>a, <1>b, <1>c DEF TypeOK, RevocationsKept
<1> QED
  BY <1>1, <1>2, <1>3, <1>4, <1>5, <1>6, <1>7, <1>8, <1>9, <1>10, <1>11 DEF IInv

LEMMA CommandKeeps == ASSUME IInv, NEW x \in Execs, Command(x) PROVE IInv'
<1> USE BoundsAreNatural, NoStepFresh DEF Idle, Free, NoRecord, durable, memory, Permitted, Current, Usable, NotRevoked
<1>0. /\ TypeOK /\ RecordsKept /\ StepTakenOnce /\ HeldOnce /\ CarriedAlong /\ OneExecution
      /\ AsApproved /\ EffectsKept /\ StartedPinned /\ VerdictsTrue /\ RevocationsKept
  BY DEF IInv
<1>1. TypeOK'
  <2>1. world' \in 0 .. MaxWorld /\ crashes' \in 0 .. MaxCrashes /\ row' \in {"none", "pending", "acknowledged"}
        /\ {cancelled', blocked', ready'} \subseteq BOOLEAN /\ {intents', synced'} \subseteq SUBSET Calls
    BY <1>0 DEF TypeOK, Command, RecordsKept, HeldOnce, Holds
  <2>2. call' \in [Calls -> Record] /\ wasCall' \in [Calls -> Record]
    BY <1>0 DEF TypeOK, Command, Record
  <2>3. grant' \in [Grants -> Grant]
    BY <1>0 DEF TypeOK, Command, Grant, CarriedAlong
  <2>4. exec' \in [Execs -> Exec]
    <3>1. exec[x] \in Exec /\ world \in 0 .. MaxWorld
      BY <1>0 DEF TypeOK
    <3>2. exec' = [exec EXCEPT ![x] = [exec[x] EXCEPT !.started = TRUE]]
      BY <1>0 DEF TypeOK, Command
    <3> QED
      BY <1>0, <3>1, <3>2, StartedTyped DEF TypeOK
  <2>5. adapter' \in [Execs -> [runs : BOOLEAN, commands : 0 .. MaxCommands]]
    BY <1>0 DEF TypeOK, Command
  <2>6. ledger' \in [Calls -> Receipts \cup {"none", "reserved"}] /\ receipts' \in [Calls -> Receipts \cup {"none"}]
    BY <1>0 DEF TypeOK, Command, CarriedAlong, Receipts
  <2>7. effects' \in SUBSET [call : Calls, exec : Execs, grant : Grants, world : 0 .. MaxWorld]
    BY <1>0 DEF TypeOK, Command, CarriedAlong, RecordsKept
  <2> QED
    BY <2>1, <2>2, <2>3, <2>4, <2>5, <2>6, <2>7 DEF TypeOK
<1>2. RecordsKept'
  BY <1>0 DEF TypeOK, Record, Grant, Exec, Command, RecordsKept
<1>3. StepTakenOnce'
  BY <1>0 DEF TypeOK, Record, Grant, Exec, Command, StepTakenOnce, RecordsKept
<1>4. HeldOnce'
  BY <1>0 DEF TypeOK, Record, Grant, Exec, Command, HeldOnce, Holds, CarriedAlong
<1>5. CarriedAlong'
  BY <1>0 DEF TypeOK, Record, Grant, Exec, Command, CarriedAlong, Receipts
<1>6. OneExecution'
  BY <1>0 DEF TypeOK, Record, Grant, Exec, Command, OneExecution, EffectsKept, Holds, HeldOnce
<1>7. AsApproved'
  BY <1>0 DEF TypeOK, Record, Grant, Exec, Command, AsApproved, StartedPinned, RecordsKept, CarriedAlong, EffectsKept
<1>8. EffectsKept'
  BY <1>0 DEF TypeOK, Record, Grant, Exec, Command, EffectsKept, Holds, HeldOnce, CarriedAlong
<1>9. StartedPinned'
  <2>1. \A y \in Execs : y # x => exec'[y] = exec[y]
    BY <1>0 DEF TypeOK, Command
  <2>2. /\ exec'[x].call = exec[x].call /\ exec'[x].grant = exec[x].grant
        /\ exec'[x].pinned = exec[x].pinned
    BY <1>0 DEF TypeOK, Exec, Command
  <2>3. \A g \in Grants : grant'[g].world = grant[g].world /\ (grant'[g].state = grant[g].state \/ grant'[g].state = "used")
    BY <1>0 DEF TypeOK, Grant, Command
  <2>4. exec[x].grant \in Grants /\ grant[exec[x].grant].world = exec[x].pinned
    BY <1>0 DEF TypeOK, Command, CarriedAlong, StartedPinned
  <2>5. (\E e \in effects' : e.call = exec'[x].call) /\ effects \subseteq effects' /\ grant'[exec[x].grant].state = "used"
    <3>1. effects' = effects \cup {[call |-> exec[x].call, exec |-> x, grant |-> exec[x].grant, world |-> world]}
      BY DEF Command
    <3>2. \E e \in effects' : e.call = exec'[x].call
      <4>1. [call |-> exec[x].call, exec |-> x, grant |-> exec[x].grant, world |-> world] \in effects'
        BY <3>1
      <4>2. [call |-> exec[x].call, exec |-> x, grant |-> exec[x].grant, world |-> world].call = exec'[x].call
        BY <2>2
      <4> QED
        BY <4>1, <4>2
    <3>3. grant'[exec[x].grant].state = "used"
      BY <1>0, <2>4 DEF TypeOK, Grant, Command
    <3> QED
      BY <3>1, <3>2, <3>3 DEF Touched
  <2> QED
    BY <1>0, <2>1, <2>2, <2>3, <2>4, <2>5 DEF StartedPinned, Touched
<1>10. VerdictsTrue'
  BY <1>0 DEF TypeOK, Record, Grant, Exec, Command, VerdictsTrue, Touched, Holds, EffectsKept, HeldOnce, CarriedAlong
<1>11. RevocationsKept'
  BY <1>0 DEF TypeOK, Record, Grant, Exec, Command, RevocationsKept
<1> QED
  BY <1>1, <1>2, <1>3, <1>4, <1>5, <1>6, <1>7, <1>8, <1>9, <1>10, <1>11 DEF IInv

LEMMA ReturnKeeps == ASSUME IInv, NEW x \in Execs, Return(x) PROVE IInv'
<1> USE BoundsAreNatural, NoStepFresh DEF Idle, Free, NoRecord, durable, memory, Go
<1>0. /\ TypeOK /\ RecordsKept /\ StepTakenOnce /\ HeldOnce /\ CarriedAlong /\ OneExecution
      /\ AsApproved /\ EffectsKept /\ StartedPinned /\ VerdictsTrue /\ RevocationsKept
  BY DEF IInv
<1>1. TypeOK'
  <2>1. world' \in 0 .. MaxWorld /\ crashes' \in 0 .. MaxCrashes /\ row' \in {"none", "pending", "acknowledged"}
        /\ {cancelled', blocked', ready'} \subseteq BOOLEAN /\ {intents', synced'} \subseteq SUBSET Calls
    BY <1>0 DEF TypeOK, Return, RecordsKept, HeldOnce, Holds
  <2>2. call' \in [Calls -> Record] /\ wasCall' \in [Calls -> Record]
    BY <1>0 DEF TypeOK, Return, Record
  <2>3. grant' \in [Grants -> Grant]
    BY <1>0 DEF TypeOK, Return, Grant
  <2>4. exec' \in [Execs -> Exec]
    <3>1. exec[x] \in Exec
      BY <1>0 DEF TypeOK
    <3>2. PICK p \in Places, r \in Receipts \cup {"none"} :
            exec' = [exec EXCEPT ![x] = [exec[x] EXCEPT !.pc = p, !.result = r]]
      BY <1>0 DEF TypeOK, Return, Places, Receipts
    <3>3. [exec[x] EXCEPT !.pc = p, !.result = r] \in Exec
      BY <3>1, ResultTyped
    <3> QED
      BY <1>0, <3>2, <3>3 DEF TypeOK
  <2>5. adapter' \in [Execs -> [runs : BOOLEAN, commands : 0 .. MaxCommands]]
    <3>1. adapter' = [adapter EXCEPT ![x] = [adapter[x] EXCEPT !.runs = FALSE]]
      BY DEF Return
    <3>2. [adapter[x] EXCEPT !.runs = FALSE] \in [runs : BOOLEAN, commands : 0 .. MaxCommands]
      BY <1>0, RunsTyped DEF TypeOK
    <3> QED
      BY <1>0, <3>1, <3>2 DEF TypeOK
  <2>6. ledger' \in [Calls -> Receipts \cup {"none", "reserved"}] /\ receipts' \in [Calls -> Receipts \cup {"none"}]
    BY <1>0 DEF TypeOK, Return, CarriedAlong, Receipts
  <2>7. effects' \in SUBSET [call : Calls, exec : Execs, grant : Grants, world : 0 .. MaxWorld]
    BY <1>0 DEF TypeOK, Return, CarriedAlong, RecordsKept
  <2> QED
    BY <2>1, <2>2, <2>3, <2>4, <2>5, <2>6, <2>7 DEF TypeOK
<1>2. RecordsKept'
  BY <1>0 DEF TypeOK, Record, Grant, Exec, Return, RecordsKept
<1>3. StepTakenOnce'
  BY <1>0 DEF TypeOK, Record, Grant, Exec, Return, StepTakenOnce, RecordsKept
<1>4. HeldOnce'
  BY <1>0 DEF TypeOK, Record, Grant, Exec, Return, HeldOnce, Holds, CarriedAlong
<1>5. CarriedAlong'
  BY <1>0 DEF TypeOK, Record, Grant, Exec, Return, CarriedAlong, Receipts
<1>6. OneExecution'
  BY <1>0 DEF TypeOK, Record, Grant, Exec, Return, OneExecution
<1>7. AsApproved'
  BY <1>0 DEF TypeOK, Record, Grant, Exec, Return, AsApproved, StartedPinned
<1>8. EffectsKept'
  BY <1>0 DEF TypeOK, Record, Grant, Exec, Return, EffectsKept, Holds
<1>9. StartedPinned'
  BY <1>0 DEF TypeOK, Record, Grant, Exec, Return, StartedPinned, Touched, CarriedAlong, EffectsKept, Holds
<1>10. VerdictsTrue'
  BY <1>0 DEF TypeOK, Record, Grant, Exec, Return, VerdictsTrue, Touched, Holds, EffectsKept, HeldOnce, CarriedAlong, StartedPinned
<1>11. RevocationsKept'
  BY <1>0 DEF TypeOK, Record, Grant, Exec, Return, RevocationsKept
<1> QED
  BY <1>1, <1>2, <1>3, <1>4, <1>5, <1>6, <1>7, <1>8, <1>9, <1>10, <1>11 DEF IInv

LEMMA ExpireKeeps == ASSUME IInv, NEW x \in Execs, Expire(x) PROVE IInv'
<1> USE BoundsAreNatural, NoStepFresh DEF Idle, Free, NoRecord, durable, memory, Go, OnlyExec
<1>0. /\ TypeOK /\ RecordsKept /\ StepTakenOnce /\ HeldOnce /\ CarriedAlong /\ OneExecution
      /\ AsApproved /\ EffectsKept /\ StartedPinned /\ VerdictsTrue /\ RevocationsKept
  BY DEF IInv
<1>1. TypeOK'
  <2>1. world' \in 0 .. MaxWorld /\ crashes' \in 0 .. MaxCrashes /\ row' \in {"none", "pending", "acknowledged"}
        /\ {cancelled', blocked', ready'} \subseteq BOOLEAN /\ {intents', synced'} \subseteq SUBSET Calls
    BY <1>0 DEF TypeOK, Expire, RecordsKept, HeldOnce, Holds
  <2>2. call' \in [Calls -> Record] /\ wasCall' \in [Calls -> Record]
    BY <1>0 DEF TypeOK, Expire, Record
  <2>3. grant' \in [Grants -> Grant]
    BY <1>0 DEF TypeOK, Expire, Grant
  <2>4. exec' \in [Execs -> Exec]
    <3>1. exec[x] \in Exec /\ world \in 0 .. MaxWorld
      BY <1>0 DEF TypeOK
    <3>2. exec' = [exec EXCEPT ![x] = [exec[x] EXCEPT !.late = TRUE]]
      BY <1>0 DEF TypeOK, Expire
    <3> QED
      BY <1>0, <3>1, <3>2, LateTyped DEF TypeOK
  <2>5. adapter' \in [Execs -> [runs : BOOLEAN, commands : 0 .. MaxCommands]]
    BY <1>0 DEF TypeOK, Expire
  <2>6. ledger' \in [Calls -> Receipts \cup {"none", "reserved"}] /\ receipts' \in [Calls -> Receipts \cup {"none"}]
    BY <1>0 DEF TypeOK, Expire, CarriedAlong, Receipts
  <2>7. effects' \in SUBSET [call : Calls, exec : Execs, grant : Grants, world : 0 .. MaxWorld]
    BY <1>0 DEF TypeOK, Expire, CarriedAlong, RecordsKept
  <2> QED
    BY <2>1, <2>2, <2>3, <2>4, <2>5, <2>6, <2>7 DEF TypeOK
<1>2. RecordsKept'
  BY <1>0 DEF TypeOK, Record, Grant, Exec, Expire, RecordsKept
<1>3. StepTakenOnce'
  BY <1>0 DEF TypeOK, Record, Grant, Exec, Expire, StepTakenOnce, RecordsKept
<1>4. HeldOnce'
  BY <1>0 DEF TypeOK, Record, Grant, Exec, Expire, HeldOnce, Holds, CarriedAlong
<1>5. CarriedAlong'
  BY <1>0 DEF TypeOK, Record, Grant, Exec, Expire, CarriedAlong, Receipts
<1>6. OneExecution'
  BY <1>0 DEF TypeOK, Record, Grant, Exec, Expire, OneExecution
<1>7. AsApproved'
  BY <1>0 DEF TypeOK, Record, Grant, Exec, Expire, AsApproved, StartedPinned
<1>8. EffectsKept'
  BY <1>0 DEF TypeOK, Record, Grant, Exec, Expire, EffectsKept, Holds
<1>9. StartedPinned'
  BY <1>0 DEF TypeOK, Record, Grant, Exec, Expire, StartedPinned, Touched, CarriedAlong, EffectsKept, Holds
<1>10. VerdictsTrue'
  BY <1>0 DEF TypeOK, Record, Grant, Exec, Expire, VerdictsTrue, Touched, Holds, EffectsKept, HeldOnce, CarriedAlong
<1>11. RevocationsKept'
  BY <1>0 DEF TypeOK, Record, Grant, Exec, Expire, RevocationsKept
<1> QED
  BY <1>1, <1>2, <1>3, <1>4, <1>5, <1>6, <1>7, <1>8, <1>9, <1>10, <1>11 DEF IInv

LEMMA CaughtKeeps == ASSUME IInv, NEW x \in Execs, Caught(x) PROVE IInv'
<1> USE BoundsAreNatural, NoStepFresh DEF Idle, Free, NoRecord, durable, memory, Go, OnlyExec, Verdict
<1>0. /\ TypeOK /\ RecordsKept /\ StepTakenOnce /\ HeldOnce /\ CarriedAlong /\ OneExecution
      /\ AsApproved /\ EffectsKept /\ StartedPinned /\ VerdictsTrue /\ RevocationsKept
  BY DEF IInv
<1>1. TypeOK'
  <2>1. world' \in 0 .. MaxWorld /\ crashes' \in 0 .. MaxCrashes /\ row' \in {"none", "pending", "acknowledged"}
        /\ {cancelled', blocked', ready'} \subseteq BOOLEAN /\ {intents', synced'} \subseteq SUBSET Calls
    BY <1>0 DEF TypeOK, Caught, RecordsKept, HeldOnce, Holds
  <2>2. call' \in [Calls -> Record] /\ wasCall' \in [Calls -> Record]
    BY <1>0 DEF TypeOK, Caught, Record
  <2>3. grant' \in [Grants -> Grant]
    BY <1>0 DEF TypeOK, Caught, Grant
  <2>4. exec' \in [Execs -> Exec]
    <3>1. exec[x] \in Exec
      BY <1>0 DEF TypeOK
    <3>2. PICK p \in Places, r \in Receipts \cup {"none"} :
            exec' = [exec EXCEPT ![x] = [exec[x] EXCEPT !.pc = p, !.result = r]]
      BY <1>0 DEF TypeOK, Caught, Places, Receipts
    <3>3. [exec[x] EXCEPT !.pc = p, !.result = r] \in Exec
      BY <3>1, ResultTyped
    <3> QED
      BY <1>0, <3>2, <3>3 DEF TypeOK
  <2>5. adapter' \in [Execs -> [runs : BOOLEAN, commands : 0 .. MaxCommands]]
    BY <1>0 DEF TypeOK, Caught
  <2>6. ledger' \in [Calls -> Receipts \cup {"none", "reserved"}] /\ receipts' \in [Calls -> Receipts \cup {"none"}]
    BY <1>0 DEF TypeOK, Caught, CarriedAlong, Receipts
  <2>7. effects' \in SUBSET [call : Calls, exec : Execs, grant : Grants, world : 0 .. MaxWorld]
    BY <1>0 DEF TypeOK, Caught, CarriedAlong, RecordsKept
  <2> QED
    BY <2>1, <2>2, <2>3, <2>4, <2>5, <2>6, <2>7 DEF TypeOK
<1>2. RecordsKept'
  BY <1>0 DEF TypeOK, Record, Grant, Exec, Caught, RecordsKept
<1>3. StepTakenOnce'
  BY <1>0 DEF TypeOK, Record, Grant, Exec, Caught, StepTakenOnce, RecordsKept
<1>4. HeldOnce'
  BY <1>0 DEF TypeOK, Record, Grant, Exec, Caught, HeldOnce, Holds, CarriedAlong
<1>5. CarriedAlong'
  BY <1>0 DEF TypeOK, Record, Grant, Exec, Caught, CarriedAlong, Receipts
<1>6. OneExecution'
  BY <1>0 DEF TypeOK, Record, Grant, Exec, Caught, OneExecution
<1>7. AsApproved'
  BY <1>0 DEF TypeOK, Record, Grant, Exec, Caught, AsApproved, StartedPinned
<1>8. EffectsKept'
  BY <1>0 DEF TypeOK, Record, Grant, Exec, Caught, EffectsKept, Holds
<1>9. StartedPinned'
  BY <1>0 DEF TypeOK, Record, Grant, Exec, Caught, StartedPinned, Touched, CarriedAlong, EffectsKept, Holds
<1>10. VerdictsTrue'
  BY <1>0 DEF TypeOK, Record, Grant, Exec, Caught, VerdictsTrue, Touched, Holds, EffectsKept, HeldOnce, CarriedAlong
<1>11. RevocationsKept'
  BY <1>0 DEF TypeOK, Record, Grant, Exec, Caught, RevocationsKept
<1> QED
  BY <1>1, <1>2, <1>3, <1>4, <1>5, <1>6, <1>7, <1>8, <1>9, <1>10, <1>11 DEF IInv

LEMMA FailKeeps == ASSUME IInv, NEW x \in Execs, Fail(x) PROVE IInv'
<1> USE BoundsAreNatural, NoStepFresh DEF Idle, Free, NoRecord, durable, memory, Go, OnlyExec
<1>0. /\ TypeOK /\ RecordsKept /\ StepTakenOnce /\ HeldOnce /\ CarriedAlong /\ OneExecution
      /\ AsApproved /\ EffectsKept /\ StartedPinned /\ VerdictsTrue /\ RevocationsKept
  BY DEF IInv
<1>1. TypeOK'
  <2>1. world' \in 0 .. MaxWorld /\ crashes' \in 0 .. MaxCrashes /\ row' \in {"none", "pending", "acknowledged"}
        /\ {cancelled', blocked', ready'} \subseteq BOOLEAN /\ {intents', synced'} \subseteq SUBSET Calls
    BY <1>0 DEF TypeOK, Fail, RecordsKept, HeldOnce, Holds
  <2>2. call' \in [Calls -> Record] /\ wasCall' \in [Calls -> Record]
    BY <1>0 DEF TypeOK, Fail, Record
  <2>3. grant' \in [Grants -> Grant]
    BY <1>0 DEF TypeOK, Fail, Grant
  <2>4. exec' \in [Execs -> Exec]
    <3>1. exec[x] \in Exec /\ world \in 0 .. MaxWorld
      BY <1>0 DEF TypeOK
    <3>2. \E p \in Places : exec' = [exec EXCEPT ![x] = [exec[x] EXCEPT !.pc = p]]
      BY <1>0 DEF TypeOK, Fail, Places
    <3> QED
      BY <1>0, <3>1, <3>2, PcTyped DEF TypeOK
  <2>5. adapter' \in [Execs -> [runs : BOOLEAN, commands : 0 .. MaxCommands]]
    BY <1>0 DEF TypeOK, Fail
  <2>6. ledger' \in [Calls -> Receipts \cup {"none", "reserved"}] /\ receipts' \in [Calls -> Receipts \cup {"none"}]
    BY <1>0 DEF TypeOK, Fail, CarriedAlong, Receipts
  <2>7. effects' \in SUBSET [call : Calls, exec : Execs, grant : Grants, world : 0 .. MaxWorld]
    BY <1>0 DEF TypeOK, Fail, CarriedAlong, RecordsKept
  <2> QED
    BY <2>1, <2>2, <2>3, <2>4, <2>5, <2>6, <2>7 DEF TypeOK
<1>2. RecordsKept'
  BY <1>0 DEF TypeOK, Record, Grant, Exec, Fail, RecordsKept
<1>3. StepTakenOnce'
  BY <1>0 DEF TypeOK, Record, Grant, Exec, Fail, StepTakenOnce, RecordsKept
<1>4. HeldOnce'
  BY <1>0 DEF TypeOK, Record, Grant, Exec, Fail, HeldOnce, Holds, CarriedAlong
<1>5. CarriedAlong'
  BY <1>0 DEF TypeOK, Record, Grant, Exec, Fail, CarriedAlong, Receipts
<1>6. OneExecution'
  BY <1>0 DEF TypeOK, Record, Grant, Exec, Fail, OneExecution
<1>7. AsApproved'
  BY <1>0 DEF TypeOK, Record, Grant, Exec, Fail, AsApproved, StartedPinned
<1>8. EffectsKept'
  BY <1>0 DEF TypeOK, Record, Grant, Exec, Fail, EffectsKept, Holds
<1>9. StartedPinned'
  BY <1>0 DEF TypeOK, Record, Grant, Exec, Fail, StartedPinned, Touched, CarriedAlong, EffectsKept, Holds
<1>10. VerdictsTrue'
  BY <1>0 DEF TypeOK, Record, Grant, Exec, Fail, VerdictsTrue, Touched, Holds, EffectsKept, HeldOnce, CarriedAlong
<1>11. RevocationsKept'
  BY <1>0 DEF TypeOK, Record, Grant, Exec, Fail, RevocationsKept
<1> QED
  BY <1>1, <1>2, <1>3, <1>4, <1>5, <1>6, <1>7, <1>8, <1>9, <1>10, <1>11 DEF IInv

LEMMA SettleKeeps == ASSUME IInv, NEW x \in Execs, Settle(x) PROVE IInv'
<1> USE BoundsAreNatural, NoStepFresh DEF Idle, Free, NoRecord, durable, memory, Go
<1>0. /\ TypeOK /\ RecordsKept /\ StepTakenOnce /\ HeldOnce /\ CarriedAlong /\ OneExecution
      /\ AsApproved /\ EffectsKept /\ StartedPinned /\ VerdictsTrue /\ RevocationsKept
  BY DEF IInv
<1>1. TypeOK'
  <2>1. world' \in 0 .. MaxWorld /\ crashes' \in 0 .. MaxCrashes /\ row' \in {"none", "pending", "acknowledged"}
        /\ {cancelled', blocked', ready'} \subseteq BOOLEAN /\ {intents', synced'} \subseteq SUBSET Calls
    BY <1>0 DEF TypeOK, Settle, RecordsKept, HeldOnce, Holds
  <2>2. call' \in [Calls -> Record] /\ wasCall' \in [Calls -> Record]
    BY <1>0 DEF TypeOK, Settle, Record
  <2>3. grant' \in [Grants -> Grant]
    BY <1>0 DEF TypeOK, Settle, Grant
  <2>4. exec' \in [Execs -> Exec]
    <3>1. exec[x] \in Exec /\ world \in 0 .. MaxWorld
      BY <1>0 DEF TypeOK
    <3>2. \E p \in Places : exec' = [exec EXCEPT ![x] = [exec[x] EXCEPT !.pc = p]]
      BY <1>0 DEF TypeOK, Settle, Places
    <3> QED
      BY <1>0, <3>1, <3>2, PcTyped DEF TypeOK
  <2>5. adapter' \in [Execs -> [runs : BOOLEAN, commands : 0 .. MaxCommands]]
    BY <1>0 DEF TypeOK, Settle
  <2>6. ledger' \in [Calls -> Receipts \cup {"none", "reserved"}] /\ receipts' \in [Calls -> Receipts \cup {"none"}]
    BY <1>0 DEF TypeOK, Settle, CarriedAlong, Receipts
  <2>7. effects' \in SUBSET [call : Calls, exec : Execs, grant : Grants, world : 0 .. MaxWorld]
    BY <1>0 DEF TypeOK, Settle, CarriedAlong, RecordsKept
  <2> QED
    BY <2>1, <2>2, <2>3, <2>4, <2>5, <2>6, <2>7 DEF TypeOK
<1>a. /\ exec[x].pc = "settling" /\ exec'[x].pc = "acking"
      /\ exec'[x].call = exec[x].call /\ exec'[x].grant = exec[x].grant /\ exec'[x].started = exec[x].started
      /\ exec'[x].result = exec[x].result /\ exec'[x].pinned = exec[x].pinned
  BY <1>0 DEF TypeOK, Exec, Settle
<1>b. \A y \in Execs : y # x => exec'[y] = exec[y]
  BY <1>0 DEF TypeOK, Settle
<1>c. /\ ledger' = [ledger EXCEPT ![exec[x].call] = exec[x].result]
      /\ UNCHANGED <<world, call, cancelled, grant, adapter, blocked, ready, receipts, row, intents, effects, wasCall>>
  BY <1>0 DEF TypeOK, Settle
<1>2. RecordsKept'
  BY <1>0, <1>a, <1>b, <1>c DEF TypeOK, RecordsKept
<1>3. StepTakenOnce'
  BY <1>0, <1>a, <1>b, <1>c DEF TypeOK, StepTakenOnce, RecordsKept
<1>4. HeldOnce'
  BY <1>0, <1>a, <1>b, <1>c DEF TypeOK, HeldOnce, Holds, CarriedAlong
<1>5. CarriedAlong'
  BY <1>0, <1>a, <1>b, <1>c DEF TypeOK, CarriedAlong, Receipts
<1>6. OneExecution'
  BY <1>0, <1>a, <1>b, <1>c DEF TypeOK, OneExecution
<1>7. AsApproved'
  BY <1>0, <1>a, <1>b, <1>c DEF TypeOK, AsApproved, StartedPinned
<1>8. EffectsKept'
  <2>1. exec[x].call \in Calls /\ exec[x].result \in Receipts
    BY <1>0, <1>a DEF RecordsKept, CarriedAlong
  <2>2. \A c \in Calls : ledger[c] # "none" => ledger'[c] # "none"
    BY <1>0, <1>c, <2>1 DEF TypeOK, Receipts
  <2>3. \A e \in effects : e.call \in Calls /\ e.exec \in Execs
    BY <1>0 DEF TypeOK
  <2>4. \A y \in Execs : /\ exec'[y].call = exec[y].call /\ exec'[y].grant = exec[y].grant
                         /\ exec'[y].started = exec[y].started /\ (Holds(y)' <=> Holds(y))
    BY <1>a, <1>b DEF Holds
  <2> QED
    BY <1>0, <1>c, <2>2, <2>3, <2>4 DEF EffectsKept
<1>9. StartedPinned'
  BY <1>0, <1>a, <1>b, <1>c DEF TypeOK, StartedPinned, Touched, CarriedAlong, EffectsKept, Holds
<1>10. VerdictsTrue'
  BY <1>0, <1>a, <1>b, <1>c DEF TypeOK, VerdictsTrue, Touched, Holds, EffectsKept, HeldOnce, CarriedAlong, Receipts
<1>11. RevocationsKept'
  BY <1>0, <1>a, <1>b, <1>c DEF TypeOK, RevocationsKept
<1> QED
  BY <1>1, <1>2, <1>3, <1>4, <1>5, <1>6, <1>7, <1>8, <1>9, <1>10, <1>11 DEF IInv

LEMMA AcknowledgeKeeps == ASSUME IInv, NEW x \in Execs, Acknowledge(x) PROVE IInv'
<1> USE BoundsAreNatural, NoStepFresh DEF Idle, Free, NoRecord, durable, memory, Go
<1>0. /\ TypeOK /\ RecordsKept /\ StepTakenOnce /\ HeldOnce /\ CarriedAlong /\ OneExecution
      /\ AsApproved /\ EffectsKept /\ StartedPinned /\ VerdictsTrue /\ RevocationsKept
  BY DEF IInv
<1>1. TypeOK'
  <2>1. world' \in 0 .. MaxWorld /\ crashes' \in 0 .. MaxCrashes /\ row' \in {"none", "pending", "acknowledged"}
        /\ {cancelled', blocked', ready'} \subseteq BOOLEAN /\ {intents', synced'} \subseteq SUBSET Calls
    BY <1>0 DEF TypeOK, Acknowledge, RecordsKept, HeldOnce, Holds
  <2>2. call' \in [Calls -> Record] /\ wasCall' \in [Calls -> Record]
    BY <1>0 DEF TypeOK, Acknowledge, Record
  <2>3. grant' \in [Grants -> Grant]
    BY <1>0 DEF TypeOK, Acknowledge, Grant
  <2>4. exec' \in [Execs -> Exec]
    <3>1. exec[x] \in Exec /\ world \in 0 .. MaxWorld
      BY <1>0 DEF TypeOK
    <3>2. \E p \in Places : exec' = [exec EXCEPT ![x] = [exec[x] EXCEPT !.pc = p]]
      BY <1>0 DEF TypeOK, Acknowledge, Places
    <3> QED
      BY <1>0, <3>1, <3>2, PcTyped DEF TypeOK
  <2>5. adapter' \in [Execs -> [runs : BOOLEAN, commands : 0 .. MaxCommands]]
    BY <1>0 DEF TypeOK, Acknowledge
  <2>6. ledger' \in [Calls -> Receipts \cup {"none", "reserved"}] /\ receipts' \in [Calls -> Receipts \cup {"none"}]
    BY <1>0 DEF TypeOK, Acknowledge, CarriedAlong, Receipts
  <2>7. effects' \in SUBSET [call : Calls, exec : Execs, grant : Grants, world : 0 .. MaxWorld]
    BY <1>0 DEF TypeOK, Acknowledge, CarriedAlong, RecordsKept
  <2> QED
    BY <2>1, <2>2, <2>3, <2>4, <2>5, <2>6, <2>7 DEF TypeOK
<1>a. /\ exec[x].pc = "acking" /\ exec'[x].pc \in {"told", "failed"}
      /\ exec'[x].call = exec[x].call /\ exec'[x].grant = exec[x].grant /\ exec'[x].started = exec[x].started
      /\ exec'[x].result = exec[x].result /\ exec'[x].pinned = exec[x].pinned
  BY <1>0 DEF TypeOK, Exec, Acknowledge
<1>b. \A y \in Execs : y # x => exec'[y] = exec[y]
  BY <1>0 DEF TypeOK, Acknowledge
<1>c. /\ receipts' \in {receipts, [receipts EXCEPT ![exec[x].call] = exec[x].result]}
      /\ UNCHANGED <<world, call, cancelled, grant, adapter, blocked, ready, ledger, row, intents, effects, wasCall>>
  BY <1>0 DEF TypeOK, Acknowledge
<1>2. RecordsKept'
  BY <1>0, <1>a, <1>b, <1>c DEF TypeOK, RecordsKept
<1>3. StepTakenOnce'
  BY <1>0, <1>a, <1>b, <1>c DEF TypeOK, StepTakenOnce, RecordsKept
<1>4. HeldOnce'
  BY <1>0, <1>a, <1>b, <1>c DEF TypeOK, HeldOnce, Holds, CarriedAlong
<1>5. CarriedAlong'
  BY <1>0, <1>a, <1>b, <1>c DEF TypeOK, CarriedAlong, Receipts
<1>6. OneExecution'
  BY <1>0, <1>a, <1>b, <1>c DEF TypeOK, OneExecution
<1>7. AsApproved'
  BY <1>0, <1>a, <1>b, <1>c DEF TypeOK, AsApproved, StartedPinned
<1>8. EffectsKept'
  BY <1>0, <1>a, <1>b, <1>c DEF TypeOK, EffectsKept, Holds
<1>9. StartedPinned'
  BY <1>0, <1>a, <1>b, <1>c DEF TypeOK, StartedPinned, Touched, CarriedAlong, EffectsKept, Holds
<1>10. VerdictsTrue'
  BY <1>0, <1>a, <1>b, <1>c DEF TypeOK, VerdictsTrue, Touched, Holds, EffectsKept, HeldOnce, CarriedAlong
<1>11. RevocationsKept'
  BY <1>0, <1>a, <1>b, <1>c DEF TypeOK, RevocationsKept
<1> QED
  BY <1>1, <1>2, <1>3, <1>4, <1>5, <1>6, <1>7, <1>8, <1>9, <1>10, <1>11 DEF IInv

LEMMA StopKeeps == ASSUME IInv, Stop PROVE IInv'
<1> USE BoundsAreNatural, NoStepFresh DEF Idle, Free, NoRecord, durable, memory
<1>0. /\ TypeOK /\ RecordsKept /\ StepTakenOnce /\ HeldOnce /\ CarriedAlong /\ OneExecution
      /\ AsApproved /\ EffectsKept /\ StartedPinned /\ VerdictsTrue /\ RevocationsKept
  BY DEF IInv
<1>1. TypeOK'
  <2>1. world' \in 0 .. MaxWorld /\ crashes' \in 0 .. MaxCrashes /\ row' \in {"none", "pending", "acknowledged"}
        /\ {cancelled', blocked', ready'} \subseteq BOOLEAN /\ {intents', synced'} \subseteq SUBSET Calls
    BY <1>0 DEF TypeOK, Stop, RecordsKept, HeldOnce, Holds
  <2>2. call' \in [Calls -> Record] /\ wasCall' \in [Calls -> Record]
    BY <1>0 DEF TypeOK, Stop, Record
  <2>3. grant' \in [Grants -> Grant]
    BY <1>0 DEF TypeOK, Stop, Grant
  <2>4. exec' \in [Execs -> Exec]
    BY <1>0 DEF TypeOK, Stop, Exec, Receipts
  <2>5. adapter' \in [Execs -> [runs : BOOLEAN, commands : 0 .. MaxCommands]]
    BY <1>0 DEF TypeOK, Stop
  <2>6. ledger' \in [Calls -> Receipts \cup {"none", "reserved"}] /\ receipts' \in [Calls -> Receipts \cup {"none"}]
    BY <1>0 DEF TypeOK, Stop, CarriedAlong, Receipts
  <2>7. effects' \in SUBSET [call : Calls, exec : Execs, grant : Grants, world : 0 .. MaxWorld]
    BY <1>0 DEF TypeOK, Stop, CarriedAlong, RecordsKept
  <2> QED
    BY <2>1, <2>2, <2>3, <2>4, <2>5, <2>6, <2>7 DEF TypeOK
<1>2. RecordsKept'
  BY <1>0 DEF TypeOK, Record, Grant, Exec, Stop, RecordsKept
<1>3. StepTakenOnce'
  BY <1>0 DEF TypeOK, Record, Grant, Exec, Stop, StepTakenOnce, RecordsKept
<1>4. HeldOnce'
  BY <1>0 DEF TypeOK, Record, Grant, Exec, Stop, HeldOnce, Holds, CarriedAlong
<1>5. CarriedAlong'
  BY <1>0 DEF TypeOK, Record, Grant, Exec, Stop, CarriedAlong, Receipts
<1>6. OneExecution'
  BY <1>0 DEF TypeOK, Record, Grant, Exec, Stop, OneExecution
<1>7. AsApproved'
  BY <1>0 DEF TypeOK, Record, Grant, Exec, Stop, AsApproved, StartedPinned
<1>8. EffectsKept'
  BY <1>0 DEF TypeOK, Record, Grant, Exec, Stop, EffectsKept, Holds
<1>9. StartedPinned'
  BY <1>0 DEF TypeOK, Record, Grant, Exec, Stop, StartedPinned, Touched, CarriedAlong, EffectsKept, Holds
<1>10. VerdictsTrue'
  BY <1>0 DEF TypeOK, Record, Grant, Exec, Stop, VerdictsTrue, Touched, Holds, EffectsKept, HeldOnce, CarriedAlong
<1>11. RevocationsKept'
  BY <1>0 DEF TypeOK, Record, Grant, Exec, Stop, RevocationsKept
<1> QED
  BY <1>1, <1>2, <1>3, <1>4, <1>5, <1>6, <1>7, <1>8, <1>9, <1>10, <1>11 DEF IInv

LEMMA StopRowKeeps == ASSUME IInv, StopRow PROVE IInv'
<1> USE BoundsAreNatural, NoStepFresh DEF Idle, Free, NoRecord, durable, memory
<1>0. /\ TypeOK /\ RecordsKept /\ StepTakenOnce /\ HeldOnce /\ CarriedAlong /\ OneExecution
      /\ AsApproved /\ EffectsKept /\ StartedPinned /\ VerdictsTrue /\ RevocationsKept
  BY DEF IInv
<1>1. TypeOK'
  <2>1. world' \in 0 .. MaxWorld /\ crashes' \in 0 .. MaxCrashes /\ row' \in {"none", "pending", "acknowledged"}
        /\ {cancelled', blocked', ready'} \subseteq BOOLEAN /\ {intents', synced'} \subseteq SUBSET Calls
    BY <1>0 DEF TypeOK, StopRow, RecordsKept, HeldOnce, Holds
  <2>2. call' \in [Calls -> Record] /\ wasCall' \in [Calls -> Record]
    BY <1>0 DEF TypeOK, StopRow, Record
  <2>3. grant' \in [Grants -> Grant]
    BY <1>0 DEF TypeOK, StopRow, Grant
  <2>4. exec' \in [Execs -> Exec]
    BY <1>0 DEF TypeOK, StopRow, Exec, Receipts
  <2>5. adapter' \in [Execs -> [runs : BOOLEAN, commands : 0 .. MaxCommands]]
    BY <1>0 DEF TypeOK, StopRow
  <2>6. ledger' \in [Calls -> Receipts \cup {"none", "reserved"}] /\ receipts' \in [Calls -> Receipts \cup {"none"}]
    BY <1>0 DEF TypeOK, StopRow, CarriedAlong, Receipts
  <2>7. effects' \in SUBSET [call : Calls, exec : Execs, grant : Grants, world : 0 .. MaxWorld]
    BY <1>0 DEF TypeOK, StopRow, CarriedAlong, RecordsKept
  <2> QED
    BY <2>1, <2>2, <2>3, <2>4, <2>5, <2>6, <2>7 DEF TypeOK
<1>2. RecordsKept'
  BY <1>0 DEF TypeOK, Record, Grant, Exec, StopRow, RecordsKept
<1>3. StepTakenOnce'
  BY <1>0 DEF TypeOK, Record, Grant, Exec, StopRow, StepTakenOnce, RecordsKept
<1>4. HeldOnce'
  BY <1>0 DEF TypeOK, Record, Grant, Exec, StopRow, HeldOnce, Holds, CarriedAlong
<1>5. CarriedAlong'
  BY <1>0 DEF TypeOK, Record, Grant, Exec, StopRow, CarriedAlong, Receipts
<1>6. OneExecution'
  BY <1>0 DEF TypeOK, Record, Grant, Exec, StopRow, OneExecution
<1>7. AsApproved'
  BY <1>0 DEF TypeOK, Record, Grant, Exec, StopRow, AsApproved, StartedPinned
<1>8. EffectsKept'
  BY <1>0 DEF TypeOK, Record, Grant, Exec, StopRow, EffectsKept, Holds
<1>9. StartedPinned'
  BY <1>0 DEF TypeOK, Record, Grant, Exec, StopRow, StartedPinned, Touched, CarriedAlong, EffectsKept, Holds
<1>10. VerdictsTrue'
  BY <1>0 DEF TypeOK, Record, Grant, Exec, StopRow, VerdictsTrue, Touched, Holds, EffectsKept, HeldOnce, CarriedAlong
<1>11. RevocationsKept'
  BY <1>0 DEF TypeOK, Record, Grant, Exec, StopRow, RevocationsKept
<1> QED
  BY <1>1, <1>2, <1>3, <1>4, <1>5, <1>6, <1>7, <1>8, <1>9, <1>10, <1>11 DEF IInv

LEMMA AckStopKeeps == ASSUME IInv, AckStop PROVE IInv'
<1> USE BoundsAreNatural, NoStepFresh DEF Idle, Free, NoRecord, durable, memory
<1>0. /\ TypeOK /\ RecordsKept /\ StepTakenOnce /\ HeldOnce /\ CarriedAlong /\ OneExecution
      /\ AsApproved /\ EffectsKept /\ StartedPinned /\ VerdictsTrue /\ RevocationsKept
  BY DEF IInv
<1>1. TypeOK'
  <2>1. world' \in 0 .. MaxWorld /\ crashes' \in 0 .. MaxCrashes /\ row' \in {"none", "pending", "acknowledged"}
        /\ {cancelled', blocked', ready'} \subseteq BOOLEAN /\ {intents', synced'} \subseteq SUBSET Calls
    BY <1>0 DEF TypeOK, AckStop, RecordsKept, HeldOnce, Holds
  <2>2. call' \in [Calls -> Record] /\ wasCall' \in [Calls -> Record]
    BY <1>0 DEF TypeOK, AckStop, Record
  <2>3. grant' \in [Grants -> Grant]
    BY <1>0 DEF TypeOK, AckStop, Grant
  <2>4. exec' \in [Execs -> Exec]
    BY <1>0 DEF TypeOK, AckStop, Exec, Receipts
  <2>5. adapter' \in [Execs -> [runs : BOOLEAN, commands : 0 .. MaxCommands]]
    BY <1>0 DEF TypeOK, AckStop
  <2>6. ledger' \in [Calls -> Receipts \cup {"none", "reserved"}] /\ receipts' \in [Calls -> Receipts \cup {"none"}]
    BY <1>0 DEF TypeOK, AckStop, CarriedAlong, Receipts
  <2>7. effects' \in SUBSET [call : Calls, exec : Execs, grant : Grants, world : 0 .. MaxWorld]
    BY <1>0 DEF TypeOK, AckStop, CarriedAlong, RecordsKept
  <2> QED
    BY <2>1, <2>2, <2>3, <2>4, <2>5, <2>6, <2>7 DEF TypeOK
<1>2. RecordsKept'
  BY <1>0 DEF TypeOK, Record, Grant, Exec, AckStop, RecordsKept
<1>3. StepTakenOnce'
  BY <1>0 DEF TypeOK, Record, Grant, Exec, AckStop, StepTakenOnce, RecordsKept
<1>4. HeldOnce'
  BY <1>0 DEF TypeOK, Record, Grant, Exec, AckStop, HeldOnce, Holds, CarriedAlong
<1>5. CarriedAlong'
  BY <1>0 DEF TypeOK, Record, Grant, Exec, AckStop, CarriedAlong, Receipts
<1>6. OneExecution'
  BY <1>0 DEF TypeOK, Record, Grant, Exec, AckStop, OneExecution
<1>7. AsApproved'
  BY <1>0 DEF TypeOK, Record, Grant, Exec, AckStop, AsApproved, StartedPinned
<1>8. EffectsKept'
  BY <1>0 DEF TypeOK, Record, Grant, Exec, AckStop, EffectsKept, Holds
<1>9. StartedPinned'
  BY <1>0 DEF TypeOK, Record, Grant, Exec, AckStop, StartedPinned, Touched, CarriedAlong, EffectsKept, Holds
<1>10. VerdictsTrue'
  BY <1>0 DEF TypeOK, Record, Grant, Exec, AckStop, VerdictsTrue, Touched, Holds, EffectsKept, HeldOnce, CarriedAlong
<1>11. RevocationsKept'
  BY <1>0 DEF TypeOK, Record, Grant, Exec, AckStop, RevocationsKept
<1> QED
  BY <1>1, <1>2, <1>3, <1>4, <1>5, <1>6, <1>7, <1>8, <1>9, <1>10, <1>11 DEF IInv

LEMMA RestoreKeeps == ASSUME IInv, Restore PROVE IInv'
<1> USE BoundsAreNatural, NoStepFresh DEF Idle, Free, NoRecord, durable, memory, Revokes
<1>0. /\ TypeOK /\ RecordsKept /\ StepTakenOnce /\ HeldOnce /\ CarriedAlong /\ OneExecution
      /\ AsApproved /\ EffectsKept /\ StartedPinned /\ VerdictsTrue /\ RevocationsKept
  BY DEF IInv
<1>1. TypeOK'
  <2>1. world' \in 0 .. MaxWorld /\ crashes' \in 0 .. MaxCrashes /\ row' \in {"none", "pending", "acknowledged"}
        /\ {cancelled', blocked', ready'} \subseteq BOOLEAN /\ {intents', synced'} \subseteq SUBSET Calls
    BY <1>0 DEF TypeOK, Restore, RecordsKept, HeldOnce, Holds
  <2>2. call' \in [Calls -> Record] /\ wasCall' \in [Calls -> Record]
    BY <1>0 DEF TypeOK, Restore, Record
  <2>3. grant' \in [Grants -> Grant]
    BY <1>0 DEF TypeOK, Restore, Grant
  <2>4. exec' \in [Execs -> Exec]
    BY <1>0 DEF TypeOK, Restore, Exec, Receipts
  <2>5. adapter' \in [Execs -> [runs : BOOLEAN, commands : 0 .. MaxCommands]]
    BY <1>0 DEF TypeOK, Restore
  <2>6. ledger' \in [Calls -> Receipts \cup {"none", "reserved"}] /\ receipts' \in [Calls -> Receipts \cup {"none"}]
    BY <1>0 DEF TypeOK, Restore, CarriedAlong, Receipts
  <2>7. effects' \in SUBSET [call : Calls, exec : Execs, grant : Grants, world : 0 .. MaxWorld]
    BY <1>0 DEF TypeOK, Restore, CarriedAlong, RecordsKept
  <2> QED
    BY <2>1, <2>2, <2>3, <2>4, <2>5, <2>6, <2>7 DEF TypeOK
<1>2. RecordsKept'
  BY <1>0 DEF TypeOK, Record, Grant, Exec, Restore, RecordsKept
<1>3. StepTakenOnce'
  BY <1>0 DEF TypeOK, Record, Grant, Exec, Restore, StepTakenOnce, RecordsKept
<1>4. HeldOnce'
  BY <1>0 DEF TypeOK, Record, Grant, Exec, Restore, HeldOnce, Holds, CarriedAlong
<1>5. CarriedAlong'
  BY <1>0 DEF TypeOK, Record, Grant, Exec, Restore, CarriedAlong, Receipts
<1>6. OneExecution'
  BY <1>0 DEF TypeOK, Record, Grant, Exec, Restore, OneExecution
<1>7. AsApproved'
  BY <1>0 DEF TypeOK, Record, Grant, Exec, Restore, AsApproved, StartedPinned
<1>8. EffectsKept'
  BY <1>0 DEF TypeOK, Record, Grant, Exec, Restore, EffectsKept, Holds
<1>9. StartedPinned'
  BY <1>0 DEF TypeOK, Record, Grant, Exec, Restore, StartedPinned, Touched, CarriedAlong, EffectsKept, Holds
<1>10. VerdictsTrue'
  BY <1>0 DEF TypeOK, Record, Grant, Exec, Restore, VerdictsTrue, Touched, Holds, EffectsKept, HeldOnce, CarriedAlong
<1>11. RevocationsKept'
  BY <1>0 DEF TypeOK, Record, Grant, Exec, Restore, RevocationsKept
<1> QED
  BY <1>1, <1>2, <1>3, <1>4, <1>5, <1>6, <1>7, <1>8, <1>9, <1>10, <1>11 DEF IInv

LEMMA ChangeKeeps == ASSUME IInv, Change PROVE IInv'
<1> USE BoundsAreNatural, NoStepFresh DEF Idle, Free, NoRecord, durable, memory
<1>0. /\ TypeOK /\ RecordsKept /\ StepTakenOnce /\ HeldOnce /\ CarriedAlong /\ OneExecution
      /\ AsApproved /\ EffectsKept /\ StartedPinned /\ VerdictsTrue /\ RevocationsKept
  BY DEF IInv
<1>1. TypeOK'
  <2>1. world' \in 0 .. MaxWorld /\ crashes' \in 0 .. MaxCrashes /\ row' \in {"none", "pending", "acknowledged"}
        /\ {cancelled', blocked', ready'} \subseteq BOOLEAN /\ {intents', synced'} \subseteq SUBSET Calls
    BY <1>0 DEF TypeOK, Change, RecordsKept, HeldOnce, Holds
  <2>2. call' \in [Calls -> Record] /\ wasCall' \in [Calls -> Record]
    BY <1>0 DEF TypeOK, Change, Record
  <2>3. grant' \in [Grants -> Grant]
    BY <1>0 DEF TypeOK, Change, Grant
  <2>4. exec' \in [Execs -> Exec]
    BY <1>0 DEF TypeOK, Change, Exec, Receipts
  <2>5. adapter' \in [Execs -> [runs : BOOLEAN, commands : 0 .. MaxCommands]]
    BY <1>0 DEF TypeOK, Change
  <2>6. ledger' \in [Calls -> Receipts \cup {"none", "reserved"}] /\ receipts' \in [Calls -> Receipts \cup {"none"}]
    BY <1>0 DEF TypeOK, Change, CarriedAlong, Receipts
  <2>7. effects' \in SUBSET [call : Calls, exec : Execs, grant : Grants, world : 0 .. MaxWorld]
    BY <1>0 DEF TypeOK, Change, CarriedAlong, RecordsKept
  <2> QED
    BY <2>1, <2>2, <2>3, <2>4, <2>5, <2>6, <2>7 DEF TypeOK
<1>2. RecordsKept'
  BY <1>0 DEF TypeOK, Record, Grant, Exec, Change, RecordsKept
<1>3. StepTakenOnce'
  BY <1>0 DEF TypeOK, Record, Grant, Exec, Change, StepTakenOnce, RecordsKept
<1>4. HeldOnce'
  BY <1>0 DEF TypeOK, Record, Grant, Exec, Change, HeldOnce, Holds, CarriedAlong
<1>5. CarriedAlong'
  BY <1>0 DEF TypeOK, Record, Grant, Exec, Change, CarriedAlong, Receipts
<1>6. OneExecution'
  BY <1>0 DEF TypeOK, Record, Grant, Exec, Change, OneExecution
<1>7. AsApproved'
  BY <1>0 DEF TypeOK, Record, Grant, Exec, Change, AsApproved, StartedPinned
<1>8. EffectsKept'
  BY <1>0 DEF TypeOK, Record, Grant, Exec, Change, EffectsKept, Holds
<1>9. StartedPinned'
  BY <1>0 DEF TypeOK, Record, Grant, Exec, Change, StartedPinned, Touched, CarriedAlong, EffectsKept, Holds
<1>10. VerdictsTrue'
  BY <1>0 DEF TypeOK, Record, Grant, Exec, Change, VerdictsTrue, Touched, Holds, EffectsKept, HeldOnce, CarriedAlong
<1>11. RevocationsKept'
  BY <1>0 DEF TypeOK, Record, Grant, Exec, Change, RevocationsKept
<1> QED
  BY <1>1, <1>2, <1>3, <1>4, <1>5, <1>6, <1>7, <1>8, <1>9, <1>10, <1>11 DEF IInv

LEMMA CrashKeeps == ASSUME IInv, Crash PROVE IInv'
<1> USE BoundsAreNatural, NoStepFresh DEF Idle, Free, NoRecord, durable, memory
<1>0. /\ TypeOK /\ RecordsKept /\ StepTakenOnce /\ HeldOnce /\ CarriedAlong /\ OneExecution
      /\ AsApproved /\ EffectsKept /\ StartedPinned /\ VerdictsTrue /\ RevocationsKept
  BY DEF IInv
<1>1. TypeOK'
  <2>1. world' \in 0 .. MaxWorld /\ crashes' \in 0 .. MaxCrashes /\ row' \in {"none", "pending", "acknowledged"}
        /\ {cancelled', blocked', ready'} \subseteq BOOLEAN /\ {intents', synced'} \subseteq SUBSET Calls
    <3>1. crashes' \in 0 .. MaxCrashes
      BY <1>0 DEF TypeOK, Crash
    <3>2. cancelled' = FALSE /\ blocked' = FALSE /\ ready' = FALSE /\ UNCHANGED <<world, row, intents, synced>>
      BY DEF Crash
    <3> QED
      BY <1>0, <3>1, <3>2 DEF TypeOK
  <2>2. call' \in [Calls -> Record] /\ wasCall' \in [Calls -> Record]
    BY <1>0 DEF TypeOK, Crash, Record
  <2>3. grant' \in [Grants -> Grant]
    <3>1. \A g \in Grants : grant[g] \in Grant /\ [grant[g] EXCEPT !.state = "void"] \in Grant
      BY <1>0, VoidTyped DEF TypeOK
    <3> QED
      BY <3>1 DEF Crash
  <2>4. exec' \in [Execs -> Exec]
    <3>1. \A x \in Execs : [exec[x] EXCEPT !.pc = "dead"] \in Exec /\ exec[x] \in Exec
      <4> SUFFICES ASSUME NEW x \in Execs
                   PROVE [exec[x] EXCEPT !.pc = "dead"] \in Exec /\ exec[x] \in Exec
        OBVIOUS
      <4>1. exec[x] \in Exec /\ "dead" \in Places
        BY <1>0 DEF TypeOK, Places
      <4> QED
        BY <4>1, PcTyped
    <3> QED
      BY <3>1 DEF Crash
  <2>5. adapter' \in [Execs -> [runs : BOOLEAN, commands : 0 .. MaxCommands]]
    BY <1>0 DEF TypeOK, Crash
  <2>6. ledger' \in [Calls -> Receipts \cup {"none", "reserved"}] /\ receipts' \in [Calls -> Receipts \cup {"none"}]
    BY <1>0 DEF TypeOK, Crash, CarriedAlong, Receipts
  <2>7. effects' \in SUBSET [call : Calls, exec : Execs, grant : Grants, world : 0 .. MaxWorld]
    BY <1>0 DEF TypeOK, Crash, CarriedAlong, RecordsKept
  <2> QED
    BY <2>1, <2>2, <2>3, <2>4, <2>5, <2>6, <2>7 DEF TypeOK
<1>2. RecordsKept'
  BY <1>0 DEF TypeOK, Record, Grant, Exec, Crash, RecordsKept
<1>3. StepTakenOnce'
  BY <1>0 DEF TypeOK, Record, Grant, Exec, Crash, StepTakenOnce, RecordsKept
<1>4. HeldOnce'
  BY <1>0 DEF TypeOK, Record, Grant, Exec, Crash, HeldOnce, Holds, CarriedAlong
<1>5. CarriedAlong'
  <2>1. \A x \in Execs : (exec'[x] = exec[x] /\ exec[x].pc = "idle") \/ exec'[x] = [exec[x] EXCEPT !.pc = "dead"]
    BY DEF Crash
  <2>2. \A x \in Execs : exec'[x].started = exec[x].started /\ exec'[x].pc \in {"idle", "dead"}
    <3> SUFFICES ASSUME NEW x \in Execs
                 PROVE exec'[x].started = exec[x].started /\ exec'[x].pc \in {"idle", "dead"}
      OBVIOUS
    <3>1. exec[x] \in Exec
      BY <1>0 DEF TypeOK
    <3>2. CASE exec'[x] = exec[x] /\ exec[x].pc = "idle"
      BY <3>2
    <3>3. CASE exec'[x] = [exec[x] EXCEPT !.pc = "dead"]
      BY <3>1, <3>3 DEF Exec
    <3> QED
      BY <2>1, <3>2, <3>3
  <2>3. \A x \in Execs : exec'[x].pc = "idle" => exec'[x] = exec[x]
    <3> SUFFICES ASSUME NEW x \in Execs, exec'[x] # exec[x] PROVE exec'[x].pc # "idle"
      OBVIOUS
    <3>1. exec'[x] = [exec[x] EXCEPT !.pc = "dead"] /\ exec[x] \in Exec
      BY <1>0, <2>1 DEF TypeOK
    <3> QED
      BY <3>1 DEF Exec
  <2>4. \A x \in Execs : adapter'[x].commands = adapter[x].commands
    BY <1>0 DEF TypeOK, Crash
  <2> QED
    BY <1>0, <2>2, <2>3, <2>4 DEF CarriedAlong
<1>6. OneExecution'
  BY <1>0 DEF TypeOK, Record, Grant, Exec, Crash, OneExecution
<1>7. AsApproved'
  BY <1>0 DEF TypeOK, Record, Grant, Exec, Crash, AsApproved, StartedPinned
<1>8. EffectsKept'
  BY <1>0 DEF TypeOK, Record, Grant, Exec, Crash, EffectsKept, Holds
<1>9. StartedPinned'
  BY <1>0 DEF TypeOK, Record, Grant, Exec, Crash, StartedPinned, Touched, CarriedAlong, EffectsKept, Holds
<1>10. VerdictsTrue'
  BY <1>0 DEF TypeOK, Record, Grant, Exec, Crash, VerdictsTrue, Touched, Holds, EffectsKept, HeldOnce, CarriedAlong
<1>11. RevocationsKept'
  BY <1>0 DEF TypeOK, Record, Grant, Exec, Crash, RevocationsKept
<1> QED
  BY <1>1, <1>2, <1>3, <1>4, <1>5, <1>6, <1>7, <1>8, <1>9, <1>10, <1>11 DEF IInv

-----------------------------------------------------------------------------

\* Every step keeps the invariant.
LEMMA NextKeeps == IInv /\ [Next]_vars => IInv'
<1> SUFFICES ASSUME IInv, Next PROVE IInv'
  BY Stutter
<1>1. CASE \E c \in Calls, s \in Steps : Prepare(c, s)
  BY <1>1, PrepareKeeps
<1>2. CASE \E g \in Grants : Issue(g) \/ \E c \in Calls : Ask(g, c)
  BY <1>2, IssueKeeps, AskKeeps
<1>3. CASE \E x \in Execs :
             \/ \E c \in Calls : BeginNoOp(x, c) \/ \E g \in Grants : Begin(x, c, g)
             \/ Run(x) \/ Command(x)
  <2>1. PICK x \in Execs :
          \/ \E c \in Calls : BeginNoOp(x, c) \/ \E g \in Grants : Begin(x, c, g)
          \/ Run(x) \/ Command(x)
    BY <1>3
  <2>2. CASE \E c \in Calls : BeginNoOp(x, c) \/ \E g \in Grants : Begin(x, c, g)
    BY <2>2, BeginNoOpKeeps, BeginKeeps
  <2>3. CASE Run(x)
    BY <2>3, PreflightKeeps, IntendKeeps, ReserveKeeps, RepeatKeeps, ObserveKeeps, ReturnKeeps,
       ExpireKeeps, CaughtKeeps, FailKeeps, SettleKeeps, AcknowledgeKeeps DEF Run
  <2>4. CASE Command(x)
    BY <2>4, CommandKeeps
  <2> QED
    BY <2>1, <2>2, <2>3, <2>4
<1>4. CASE Cancel \/ Stop \/ StopRow \/ AckStop \/ Restore \/ Change \/ Crash
  BY <1>4, CancelKeeps, StopKeeps, StopRowKeeps, AckStopKeeps, RestoreKeeps, ChangeKeeps, CrashKeeps
<1> QED
  BY <1>1, <1>2, <1>3, <1>4 DEF Next

\* Overlapping executions, late adapters, stops, changes and crashes keep the invariant.
THEOREM Invariance == Spec => []IInv
<1>1. Init => IInv
  BY Initially
<1>2. IInv /\ [Next]_vars => IInv'
  BY NextKeeps
<1> QED
  BY <1>1, <1>2, PTL DEF Spec

\* However often a call is executed, also across crashes, its commands are issued by one
\* execution, under one approval and in the context both were made for.
THEOREM CallIsSafe == Spec => []CallSafety
<1>1. IInv => CallSafety
  BY DEF IInv, CallSafety
<1> QED
  BY <1>1, Invariance, PTL

\* No receipt denies an effect that came or will still come, and none confirms one that
\* did not.
THEOREM ReceiptsTrue == Spec => []ReceiptsAreTrue
<1>1. IInv => ReceiptsAreTrue
  <2> SUFFICES ASSUME IInv, NEW c \in Calls
               PROVE /\ {ledger[c], receipts[c]} \cap {"untouched", "satisfied"} # {} => ~Touched(c)
                     /\ "verified" \in {ledger[c], receipts[c]} => Touched(c)
    BY DEF ReceiptsAreTrue
  <2>1. /\ ledger[c] \in {"untouched", "satisfied"} => ~Touched(c)
        /\ ledger[c] = "verified" => Touched(c)
        /\ receipts[c] \in {"none", "uncertain", ledger[c]}
    BY DEF IInv, VerdictsTrue
  <2> QED
    BY <2>1
<1> QED
  BY <1>1, Invariance, PTL

\* What a step may do to the effects: a command adds one, under an approval that is in
\* force, while the task is not stopped; everything else leaves them.
LEMMA EffectsStep ==
  ASSUME IInv, [Next]_vars
  PROVE  effects' = effects \/ \E x \in Execs : Command(x)
<1>1. CASE \E x \in Execs : Command(x)
  BY <1>1
<1>2. CASE UNCHANGED vars
  BY <1>2 DEF vars
<1>3. CASE Next /\ ~\E x \in Execs : Command(x)
  BY <1>3 DEF Next, Run, Prepare, Ask, Issue, Cancel, Begin, BeginNoOp, Preflight, Intend, Reserve, Repeat,
     Observe, Return, Expire, Caught, Fail, Settle, Acknowledge, Stop, StopRow, AckStop, Restore, Change,
     Crash, OnlyExec
<1> QED
  BY <1>1, <1>2, <1>3

\* A stop, once it is in memory or in its row, and a cancellation end the effects; a
\* cancellation also leaves no approval.
THEOREM RevocationsHold == Spec => RevocationHolds
<1>1. ASSUME IInv, [Next]_vars, blocked \/ row # "none" PROVE effects' = effects
  <2> SUFFICES ASSUME NEW x \in Execs, Command(x) PROVE FALSE
    BY <1>1, EffectsStep
  <2>1. ready /\ ~blocked
    BY DEF Command, Permitted, NotRevoked
  <2>2. row # "none" /\ ready => blocked
    BY <1>1 DEF IInv, RevocationsKept
  <2> QED
    BY <1>1, <2>1, <2>2
<1>2. ASSUME IInv, IInv', [Next]_vars, cancelled, cancelled'
      PROVE  effects' = effects /\ \A g \in Grants : grant'[g].state \notin {"active", "used"}
  <2>1. /\ \A g \in Grants : grant[g].state \in {"free", "void"}
        /\ \A g \in Grants : grant'[g].state \in {"free", "void"}
    BY <1>2 DEF IInv, RevocationsKept
  <2>2. ASSUME NEW x \in Execs, Command(x) PROVE FALSE
    <3>1. exec[x].pc = "dispatching"
      BY <2>2 DEF Command, Permitted
    <3>2. exec[x].grant \in Grants
      BY <1>2, <3>1 DEF IInv, CarriedAlong
    <3>3. grant[exec[x].grant].state \in {"used", "active"}
      BY <2>2 DEF Command, Permitted, Usable
    <3> QED
      BY <2>1, <3>2, <3>3
  <2> QED
    BY <1>2, <2>1, <2>2, EffectsStep
<1> QED
  BY <1>1, <1>2, Invariance, PTL DEF Spec, RevocationHolds, StopHolds, CancelHolds

-----------------------------------------------------------------------------
(* The dispatch promise: a step of the runtime is a step of DispatchPromise, *)
(* or none.                                                                  *)

PromisedStep == [c \in Calls |-> wasCall[c].step]
PromisedActs == {c \in Calls : Touched(c)}

LEMMA PreparePromise ==
  ASSUME IInv, NEW c \in Calls, NEW s \in Steps, Prepare(c, s)
  PROVE  Promise!Assign(c, s)
<1>1. wasCall[c] = NoRecord /\ UNCHANGED <<ledger, effects>>
      /\ wasCall' = [wasCall EXCEPT ![c] = [step |-> s, world |-> world]]
  BY DEF Prepare, durable
<1>2. c \notin PromisedActs
  BY <1>1 DEF IInv, EffectsKept, RecordsKept, PromisedActs, Touched
<1>3. PromisedStep[c] = NoStep
  BY <1>1 DEF PromisedStep, NoRecord
<1>4. PromisedStep' = [PromisedStep EXCEPT ![c] = s]
  <2>1. wasCall \in [Calls -> Record]
    BY DEF IInv, TypeOK
  <2>2. \A d \in Calls : wasCall'[d].step = IF d = c THEN s ELSE wasCall[d].step
    BY <1>1, <2>1
  <2> QED
    BY <2>2 DEF PromisedStep
<1>5. UNCHANGED <<PromisedActs, PromisedVerdict>>
  BY <1>1 DEF PromisedActs, Touched, PromisedVerdict
<1> QED
  BY <1>2, <1>3, <1>4, <1>5 DEF Promise!Assign, PromisedStep, PromisedActs

LEMMA CommandPromise ==
  ASSUME IInv, IInv', NEW x \in Execs, Command(x)
  PROVE  exec[x].call \in Calls /\ Promise!Act(exec[x].call)
<1> DEFINE c == exec[x].call
<1>1. c \in Calls /\ c \in intents /\ ledger[c] = "reserved"
  BY DEF IInv, Command, Permitted, RecordsKept, HeldOnce, Holds
<1>2. PromisedVerdict[c] = "open"
  BY <1>1 DEF PromisedVerdict, Receipts
<1>3. ASSUME NEW d \in PromisedActs, PromisedStep[d] = PromisedStep[c] PROVE d = c
  <2>1. d \in Calls /\ d \in intents
    BY <1>3 DEF IInv, EffectsKept, PromisedActs, Touched
  <2> QED
    BY <1>1, <1>3, <2>1 DEF IInv, StepTakenOnce, PromisedStep
<1>4. PromisedActs' = PromisedActs \cup {c}
  <2>1. effects' = effects \cup {[call |-> c, exec |-> x, grant |-> exec[x].grant, world |-> world]}
    BY DEF Command
  <2>2. \A d \in Calls : (\E e \in effects' : e.call = d) <=> (\E e \in effects : e.call = d) \/ d = c
    <3> DEFINE new == [call |-> c, exec |-> x, grant |-> exec[x].grant, world |-> world]
    <3>1. new.call = c
      OBVIOUS
    <3>2. effects' = effects \cup {new}
      BY <2>1
    <3> HIDE DEF new, c
    <3> QED
      BY <3>1, <3>2
  <2> HIDE DEF c
  <2> QED
    BY <1>1, <2>2 DEF PromisedActs, Touched
<1>5. UNCHANGED <<PromisedStep, PromisedVerdict>>
  BY DEF Command, durable, PromisedStep, PromisedVerdict
<1> QED
  BY <1>1, <1>2, <1>3, <1>4, <1>5 DEF Promise!Act, PromisedStep, PromisedActs

LEMMA SettlePromise ==
  ASSUME IInv, NEW x \in Execs, Settle(x)
  PROVE  exec[x].call \in Calls /\ exec[x].result \in Receipts /\ Promise!Judge(exec[x].call, exec[x].result)
<1> DEFINE c == exec[x].call
<1> DEFINE r == exec[x].result
<1>1. c \in Calls /\ ledger[c] = "reserved" /\ r \in Receipts
  BY DEF IInv, Settle, RecordsKept, HeldOnce, Holds, CarriedAlong
<1>2. /\ r = "verified" => c \in PromisedActs
      /\ r \in {"untouched", "satisfied"} => c \notin PromisedActs
  BY <1>1 DEF IInv, Settle, VerdictsTrue, PromisedActs
<1>3. PromisedVerdict[c] = "open"
  BY <1>1 DEF PromisedVerdict, Receipts
<1>4. ledger' = [ledger EXCEPT ![c] = r] /\ UNCHANGED <<wasCall, effects>>
  BY DEF Settle, Go
<1>5. PromisedVerdict' = [PromisedVerdict EXCEPT ![c] = r]
  <2>1. \A d \in Calls : ledger'[d] = IF d = c THEN r ELSE ledger[d]
    BY <1>1, <1>4 DEF IInv, TypeOK
  <2> HIDE DEF c, r
  <2> QED
    BY <1>1, <2>1 DEF PromisedVerdict
<1>6. UNCHANGED <<PromisedStep, PromisedActs>>
  BY <1>4 DEF PromisedStep, PromisedActs, Touched
<1> QED
  BY <1>1, <1>2, <1>3, <1>5, <1>6 DEF Promise!Judge, PromisedStep, PromisedActs

\* A reservation is not yet a verdict.
LEMMA ReservePromise ==
  ASSUME IInv, NEW x \in Execs, Reserve(x)
  PROVE  UNCHANGED <<wasCall, effects, PromisedVerdict>>
<1>1. UNCHANGED <<wasCall, effects>> /\ ledger' = [ledger EXCEPT ![exec[x].call] = "reserved"]
      /\ ledger[exec[x].call] = "none"
  BY DEF Reserve, Reserved, Go
<1>2. \A d \in Calls : ledger'[d] = ledger[d] \/ (ledger[d] = "none" /\ ledger'[d] = "reserved")
  BY <1>1 DEF IInv, TypeOK
<1>3. \A d \in Calls : ledger'[d] \in Receipts <=> ledger[d] \in Receipts
  BY <1>2 DEF Receipts
<1>4. \A d \in Calls : ledger[d] \in Receipts => ledger'[d] = ledger[d]
  BY <1>2 DEF Receipts
<1>5. PromisedVerdict' = PromisedVerdict
  BY <1>3, <1>4 DEF PromisedVerdict
<1> QED
  BY <1>1, <1>5

LEMMA OtherSteps ==
  ASSUME [Next]_vars
  PROVE  \/ \E c \in Calls, s \in Steps : Prepare(c, s)
         \/ \E x \in Execs : Command(x) \/ Settle(x) \/ Reserve(x)
         \/ UNCHANGED <<wasCall, effects, ledger>>
<1>1. CASE UNCHANGED vars
  BY <1>1 DEF vars
<1>2. ASSUME NEW g \in Grants, Issue(g) \/ \E c \in Calls : Ask(g, c)
      PROVE  UNCHANGED <<wasCall, effects, ledger>>
  BY <1>2 DEF Issue, Ask, durable
<1>3. ASSUME NEW x \in Execs, Run(x) \/ \E c \in Calls : BeginNoOp(x, c) \/ \E g \in Grants : Begin(x, c, g)
      PROVE  Settle(x) \/ Reserve(x) \/ UNCHANGED <<wasCall, effects, ledger>>
  <2>1. CASE Preflight(x) \/ Intend(x) \/ Repeat(x) \/ Observe(x) \/ Return(x)
    BY <2>1 DEF Preflight, Intend, Repeat, Observe, Return, OnlyExec, durable
  <2>2. CASE Expire(x) \/ Caught(x) \/ Fail(x) \/ Acknowledge(x)
    BY <2>2 DEF Expire, Caught, Fail, Acknowledge, OnlyExec, durable
  <2>3. CASE \E c \in Calls : BeginNoOp(x, c) \/ \E g \in Grants : Begin(x, c, g)
    BY <2>3 DEF BeginNoOp, Begin, OnlyExec, durable
  <2> QED
    BY <1>3, <2>1, <2>2, <2>3 DEF Run
<1>4. CASE Cancel \/ Stop \/ StopRow \/ AckStop \/ Restore \/ Change \/ Crash
  BY <1>4 DEF Cancel, Stop, StopRow, AckStop, Restore, Change, Crash, durable
<1> QED
  BY <1>1, <1>2, <1>3, <1>4 DEF Next

\* The runtime keeps the dispatch promise across overlaps, late adapters and crashes: a
\* step reaches the page through one call, whose receipt is true for ever.
THEOREM PromiseKept == Spec => KeepsPromise
<1>1. Init => Promise!Init
  <2> SUFFICES ASSUME Init PROVE Promise!Init
    OBVIOUS
  <2>1. PromisedStep = [c \in Calls |-> NoStep]
    BY DEF Init, NoRecord, PromisedStep
  <2>2. PromisedActs = {} /\ PromisedVerdict = [c \in Calls |-> "open"]
    BY DEF Init, PromisedActs, Touched, PromisedVerdict, Receipts
  <2> QED
    BY <2>1, <2>2 DEF Promise!Init, PromisedStep, PromisedActs
<1>2. ASSUME IInv, IInv', [Next]_vars
      PROVE  [Promise!Next]_(Promise!vars)
  <2>1. ASSUME NEW c \in Calls, NEW s \in Steps, Prepare(c, s) PROVE Promise!Next
    BY <1>2, <2>1, PreparePromise DEF Promise!Next
  <2>2. ASSUME NEW x \in Execs, Command(x) PROVE Promise!Next
    BY <1>2, <2>2, CommandPromise DEF Promise!Next
  <2>3. ASSUME NEW x \in Execs, Settle(x) PROVE Promise!Next
    BY <1>2, <2>3, SettlePromise DEF Promise!Next, Receipts
  <2>4. ASSUME UNCHANGED <<wasCall, effects, PromisedVerdict>> PROVE UNCHANGED Promise!vars
    BY <2>4 DEF Promise!vars, Touched
  <2>5. ASSUME UNCHANGED <<wasCall, effects, ledger>> PROVE UNCHANGED Promise!vars
    BY <2>5, <2>4 DEF PromisedVerdict
  <2> QED
    BY <1>2, <2>1, <2>2, <2>3, <2>4, <2>5, OtherSteps, ReservePromise
<1> QED
  BY <1>1, <1>2, Invariance, PTL DEF Spec, KeepsPromise, Promise!Spec

=============================================================================
