--------------------------- MODULE ProjectionRead ---------------------------
(* The agent server reads the page graph of the extension over the bridge.  *)
(* The extension publishes leases bound to a revision of the graph          *)
(* (projection-registry.ts), the agent asks reads of them                   *)
(* (projection-channel.ts, projection-pending.ts), the endpoint serves them *)
(* one at a time (codebase-endpoint.ts) and sends the packet as a transfer  *)
(* of several calls (codebase-transfer.ts). Every call of the extension has *)
(* its digest computed before it is posted, and one answer; two digests may *)
(* be ready in either order. A packet is one chunk here.                    *)
(* The lease is validated three times for a read: by the projection itself, *)
(* before the transfer and before its completion. Each time the repository  *)
(* is read again, which may take any time or never end; only the first is   *)
(* raced with the deadline and the signal of the read.                      *)
EXTENDS Integers, Sequences, FiniteSets, SequencesExt

CONSTANTS Leases, Reads,
          Nil,         \* no read, no lease
          ReadLimit,   \* 4: reads open at the agent, and queued in the endpoint
          CallLimit,   \* 4: calls of the bridge without an answer
          Others,      \* how many of them may be of the rest of the extension
          MaxGraph, MaxLate

VARIABLES graph,     \* the revision stored in the extension
          alive,     \* leases whose admission holds: not aborted, document current
          entry,     \* the registry: [Leases -> [state, at]]
          offers,    \* the leases the agent knows
          reads,     \* [Reads -> [state, lease]] at the agent
          late,      \* reads whose deadline has passed
          aborted,   \* reads whose controller in the endpoint is aborted
          queue,     \* reads in the endpoint; the first one is being served
          pc,        \* where the first one stands
          look,      \* the validation it is in: what was seen of the repository
          checking,  \* leases being validated by publish()
          posting,   \* calls whose digest is being computed
          toAgent,   \* calls on their way
          toExt,     \* answers, requests and cancels on their way back
          transfer,  \* the transfer open at the agent
          closed,    \* why the bridge was closed, or "no"
          held       \* history: the stages at which the lease of a read fitted the graph,
                     \* and the transfers whose cancel was refused

endpoint == <<aborted, queue, pc, look, checking>>
ext == <<alive, entry, endpoint, posting>>
agent == <<offers, reads, transfer>>
vars == <<graph, alive, entry, offers, reads, late, aborted, queue, pc, look, checking,
          posting, toAgent, toExt, transfer, closed, held>>

Open == closed = "no"
Head1 == queue[1]
LeaseOf(q) == reads[q].lease
Answers == {i \in DOMAIN toExt : toExt[i].kind = "answer"}
Outstanding == Len(toAgent) + Cardinality(Answers)

(* request(): a call is refused at once while four are unanswered, which    *)
(* cannot be when it follows an answer.                                     *)
Call(kind, l, q) == [kind |-> kind, lease |-> l, read |-> q, full |-> Outstanding >= CallLimit]
Following(kind, l, q) == [kind |-> kind, lease |-> l, read |-> q, full |-> FALSE]

---------------------------------------------------------------------------
(* The registry. active() drops the entry when its admission is gone;       *)
(* validate() also when the stored graph is not the one of the lease.       *)
EntryActive(l) == entry[l].state = "installed" /\ l \in alive
Matches(l) == graph = entry[l].at
Valid(l) == EntryActive(l) /\ Matches(l)

(* revoke() and the call it makes of the agent; nothing without an entry.   *)
Retracts(call) == IF entry[call.lease].state = "installed" THEN {[call EXCEPT !.kind = "revoke", !.read = Nil]} ELSE {}
Revocation(l) == Retracts(Call("revoke", l, Nil))
Revoked(l) == IF entry[l].state = "installed" THEN [entry EXCEPT ![l].state = "revoked"] ELSE entry

(* active() of the endpoint: what the read in service is checked for before *)
(* each call.                                                               *)
Given(q) == q \notin aborted /\ q \notin late
Usable(q) == Given(q) /\ EntryActive(LeaseOf(q))

(* The endpoint goes on with a call, or drops the lease and goes on; a read *)
(* that was cancelled or is late is given up without touching its lease.    *)
Goes(step, call) ==
  /\ pc' = step /\ look' = "no"
  /\ posting' = posting \cup {call}
  /\ UNCHANGED entry
Drops(step, call) ==
  /\ pc' = step /\ look' = "no"
  /\ posting' = posting \cup Retracts(call) \cup {call}
  /\ entry' = Revoked(call.lease)
Fails(step, call) == IF Given(call.read) THEN Drops(step, call) ELSE Goes(step, call)
Finished ==
  /\ queue' = Tail(queue)
  /\ pc' = "idle"
  /\ aborted' = aborted \ {Head1}

(* NativeBridge.close() and the end of the socket at the agent.             *)
Close(why) ==
  /\ closed' = why
  /\ entry' = [l \in Leases |-> [entry[l] EXCEPT !.state = "revoked"]]
  /\ offers' = {}
  /\ reads' = [q \in Reads |-> IF reads[q].state = "active" THEN [reads[q] EXCEPT !.state = "refused"] ELSE reads[q]]
  /\ queue' = <<>> /\ pc' = "idle" /\ look' = "no" /\ checking' = {}
  /\ posting' = {} /\ toAgent' = <<>> /\ toExt' = <<>>
  /\ transfer' = Nil /\ aborted' = {}
  /\ UNCHANGED <<graph, alive, late, held>>

---------------------------------------------------------------------------
(* The extension.                                                           *)
Publish(l) ==
  /\ Open /\ l \in alive /\ entry[l].state = "new"
  /\ entry' = [entry EXCEPT ![l] = [state |-> "installed", at |-> graph]]
  /\ posting' = posting \cup {Call("offer", l, Nil)}
  /\ UNCHANGED <<graph, alive, late, endpoint, agent, toAgent, toExt, closed, held>>

(* The signal of the admission or the timer of the entry revokes at once;   *)
(* a navigation is noticed by the next check only.                          *)
Abort(l) ==
  /\ Open /\ l \in alive
  /\ alive' = alive \ {l}
  /\ entry' = Revoked(l)
  /\ posting' = posting \cup Revocation(l)
  /\ UNCHANGED <<graph, late, endpoint, agent, toAgent, toExt, closed, held>>

Navigate(l) ==
  /\ Open /\ l \in alive
  /\ alive' = alive \ {l}
  /\ UNCHANGED <<graph, entry, late, endpoint, posting, agent, toAgent, toExt, closed, held>>

Commit ==
  /\ graph < MaxGraph
  /\ graph' = graph + 1
  /\ UNCHANGED <<ext, agent, late, toAgent, toExt, closed, held>>

(* publish() validates the lease once more when the agent has answered.     *)
PublishChecked(l) ==
  /\ Open /\ l \in checking
  /\ checking' = checking \ {l}
  /\ IF Valid(l) THEN UNCHANGED <<entry, posting>>
                 ELSE entry' = Revoked(l) /\ posting' = posting \cup Revocation(l)
  /\ UNCHANGED <<graph, alive, late, aborted, queue, pc, look, agent, toAgent, toExt, closed, held>>

(* The digest of a call is there: it is posted, unless four are unanswered. *)
(* A revocation or a rejection that fails closes the bridge, an offer that  *)
(* fails revokes its lease, a transfer that fails is undone.                *)
Post(c) ==
  /\ Open /\ c \in posting /\ ~c.full /\ Outstanding < CallLimit
  /\ toAgent' = Append(toAgent, c)
  /\ posting' = posting \ {c}
  /\ UNCHANGED <<graph, alive, entry, late, endpoint, agent, toExt, closed, held>>

PostFails(c) ==
  /\ Open /\ c \in posting /\ (c.full \/ Outstanding + Others >= CallLimit)
  /\ \/ /\ c.kind \in {"revoke", "reject"}
        /\ Close("calls")
     \/ /\ c.kind = "offer"
        /\ posting' = (posting \ {c}) \cup Revocation(c.lease)
        /\ entry' = Revoked(c.lease)
        /\ UNCHANGED <<graph, alive, late, endpoint, agent, toAgent, toExt, closed, held>>
     \/ /\ c.kind \in {"open", "cancelTransfer"}
        /\ pc' = "rejecting"
        /\ posting' = (posting \ {c}) \cup {Call("reject", c.lease, c.read)}
        /\ held' = IF c.kind = "open" THEN held ELSE held \cup {<<c.read, "dropped">>}
        /\ UNCHANGED <<graph, alive, entry, late, aborted, queue, look, checking, agent, toAgent, toExt, closed>>
     \/ /\ c.kind \in {"chunk", "ack", "complete"}
        /\ pc' = "cancelling"
        /\ posting' = (posting \ {c}) \cup {Call("cancelTransfer", c.lease, c.read)}
        /\ UNCHANGED <<graph, alive, entry, late, aborted, queue, look, checking, agent, toAgent, toExt, closed, held>>

(* The inbox: a frame is taken when what was sent before it has been. A     *)
(* frame past its deadline or over the limit closes the bridge.             *)
InTime(q) == q \notin late
TakeRequest ==
  /\ Open /\ toExt # <<>> /\ Head(toExt).kind = "request"
  /\ LET q == Head(toExt).read
     IN  \/ ~InTime(q) /\ Close("late")
         \/ InTime(q) /\ Len(queue) >= ReadLimit /\ Close("queue")
         \/ /\ InTime(q) /\ Len(queue) < ReadLimit
            /\ queue' = Append(queue, q)
            /\ toExt' = Tail(toExt)
            /\ UNCHANGED <<graph, alive, entry, late, aborted, pc, look, checking, posting, agent, toAgent,
                           closed, held>>

(* A cancelled read takes its lease with it.                                *)
TakeCancel ==
  /\ Open /\ toExt # <<>> /\ Head(toExt).kind = "cancel"
  /\ LET q == Head(toExt).read
     IN  /\ aborted' = aborted \cup ({q} \cap ToSet(queue))
         /\ entry' = Revoked(LeaseOf(q))
         /\ posting' = posting \cup Revocation(LeaseOf(q))
  /\ toExt' = Tail(toExt)
  /\ UNCHANGED <<graph, alive, late, queue, pc, look, checking, agent, toAgent, closed, held>>

Serving(step) == Open /\ queue # <<>> /\ pc = step
Reject(q) == Call("reject", LeaseOf(q), q)

(* process(): the check of the entry and the projection, with the catalog   *)
(* before and after the read itself.                                        *)
still == <<graph, alive, late, aborted, queue, checking, agent, toAgent, toExt, closed>>
Start ==
  /\ Serving("idle")
  /\ IF Usable(Head1) THEN pc' = "reading" /\ UNCHANGED <<entry, look, posting>>
                      ELSE Fails("rejecting", Reject(Head1))
  /\ UNCHANGED <<still, held>>

ReadBefore ==
  /\ Serving("reading")
  /\ IF Matches(LeaseOf(Head1)) THEN pc' = "read" /\ UNCHANGED <<entry, look, posting>>
                                ELSE Goes("rejecting", Reject(Head1))
  /\ UNCHANGED <<still, held>>

ReadAfter ==
  /\ Serving("read")
  /\ IF Matches(LeaseOf(Head1)) THEN pc' = "validating" /\ look' = "due" /\ UNCHANGED <<entry, posting>>
                                ELSE Goes("rejecting", Reject(Head1))
  /\ UNCHANGED <<still, held>>

(* validate(): active(), the catalog of the repository, active() again and  *)
(* the comparison. It revokes the lease that fails, also of a read that was *)
(* cancelled or is late.                                                    *)
ValidateBegins ==
  /\ Open /\ look = "due"
  /\ IF EntryActive(LeaseOf(Head1)) THEN look' = "asked" /\ UNCHANGED <<pc, entry, posting>>
                                    ELSE Drops("rejecting", Reject(Head1))
  /\ UNCHANGED <<still, held>>

CatalogRead ==
  /\ Open /\ look = "asked"
  /\ look' = IF Matches(LeaseOf(Head1)) THEN "fits" ELSE "differs"
  /\ UNCHANGED <<still, pc, entry, posting, held>>

Seen(step) == Serving(step) /\ look \in {"fits", "differs"}
Passes(q) == look = "fits" /\ EntryActive(LeaseOf(q))
Holds(q, stage) == IF Valid(LeaseOf(q)) THEN held \cup {<<q, stage>>} ELSE held

Projected ==
  /\ Seen("validating")
  /\ \/ /\ Passes(Head1) /\ Head1 \notin late
        /\ pc' = "checking" /\ look' = "due"
        /\ held' = Holds(Head1, "read")
        /\ UNCHANGED <<entry, posting>>
     \/ /\ Passes(Head1) /\ Head1 \in late
        /\ Goes("rejecting", Reject(Head1)) /\ UNCHANGED held
     \/ /\ ~Passes(Head1)
        /\ Drops("rejecting", Reject(Head1)) /\ UNCHANGED held
  /\ UNCHANGED still

\* Mutant of Raced: the race ends with the signal only.
RacedSignal(q) == q \in aborted
Raced(q) == q \in aborted \/ q \in late
Race ==
  /\ Open /\ queue # <<>> /\ pc \in {"reading", "read", "validating"}
  /\ Raced(Head1)
  /\ Drops("rejecting", Reject(Head1))
  /\ UNCHANGED <<still, held>>

(* sendProjection(): the validation before the transfer and the one before  *)
(* its completion, and what follows the answer of each call.                *)
Undo(q) == Fails("cancelling", Following("cancelTransfer", LeaseOf(q), q))

Checked ==
  /\ Seen("checking")
  /\ LET q == Head1
     IN  \/ Passes(q) /\ Given(q) /\ Goes("opening", Call("open", LeaseOf(q), q))
         \/ Passes(q) /\ ~Given(q) /\ Goes("rejecting", Reject(q))
         \/ ~Passes(q) /\ Drops("rejecting", Reject(q))
  /\ UNCHANGED <<still, held>>

Rechecked ==
  /\ Seen("rechecking")
  /\ LET q == Head1
         cancel == Call("cancelTransfer", LeaseOf(q), q)
     IN  \/ Passes(q) /\ Given(q) /\ Goes("completing", Call("complete", LeaseOf(q), q))
         \/ Passes(q) /\ ~Given(q) /\ Goes("cancelling", cancel)
         \/ ~Passes(q) /\ Drops("cancelling", cancel)
  /\ UNCHANGED <<still, held>>

AfterOpen(q) ==
  /\ IF Usable(q) THEN Goes("sending", Following("chunk", LeaseOf(q), q)) ELSE Undo(q)
  /\ UNCHANGED <<queue, aborted, checking, held>>
AfterChunk(q) ==
  /\ IF Usable(q) THEN Goes("sending", Following("ack", LeaseOf(q), q)) ELSE Undo(q)
  /\ UNCHANGED <<queue, aborted, checking, held>>
\* Mutant of AfterAck: the lease is not validated again.
AfterAckAtOnce(q) ==
  /\ IF Usable(q) THEN Goes("completing", Following("complete", LeaseOf(q), q)) ELSE Undo(q)
  /\ held' = Holds(q, "sent")
  /\ UNCHANGED <<queue, aborted, checking>>
AfterAck(q) ==
  /\ IF EntryActive(LeaseOf(q))
     THEN pc' = "rechecking" /\ look' = "asked" /\ UNCHANGED <<entry, posting>>
     ELSE Drops("cancelling", Following("cancelTransfer", LeaseOf(q), q))
  /\ held' = Holds(q, "sent")
  /\ UNCHANGED <<queue, aborted, checking>>
AfterCancel(q) == Goes("rejecting", Following("reject", LeaseOf(q), q)) /\ UNCHANGED <<queue, aborted, checking, held>>
AfterOffer(l) ==
  /\ checking' = IF EntryActive(l) THEN checking \cup {l} ELSE checking
  /\ IF EntryActive(l) THEN UNCHANGED <<entry, posting>>
                       ELSE entry' = Revoked(l) /\ posting' = posting \cup Retracts(Following("revoke", l, Nil))
  /\ UNCHANGED <<queue, aborted, pc, look, held>>
FirstAnswer == CHOOSE i \in Answers : \A j \in Answers : i <= j
TakeAnswer ==
  /\ Open /\ Answers # {}
  /\ LET c == toExt[FirstAnswer].call
     IN  /\ CASE c.kind = "open" -> AfterOpen(c.read)
              [] c.kind = "chunk" -> AfterChunk(c.read)
              [] c.kind = "ack" -> AfterAck(c.read)
              [] c.kind = "cancelTransfer" -> AfterCancel(c.read)
              [] c.kind \in {"complete", "reject"} -> Finished /\ UNCHANGED <<entry, look, checking, posting, held>>
              [] c.kind = "offer" -> AfterOffer(c.lease)
              [] OTHER -> UNCHANGED <<entry, posting, queue, aborted, pc, look, checking, held>>
  /\ toExt' = RemoveAt(toExt, FirstAnswer)
  /\ UNCHANGED <<graph, alive, late, agent, toAgent, closed>>

---------------------------------------------------------------------------
(* The agent.                                                               *)
Active == {q \in Reads : reads[q].state = "active"}
Settled(qs, state) == [q \in Reads |-> IF q \in qs THEN [reads[q] EXCEPT !.state = state] ELSE reads[q]]
Frame(kind, q) == [kind |-> kind, read |-> q, call |-> Nil]
Answered(c) == [kind |-> "answer", read |-> c.read, call |-> c]

Ask(q, l) ==
  /\ Open /\ reads[q].state = "idle"
  /\ l \in offers
  /\ Cardinality(Active) < ReadLimit
  /\ reads' = [reads EXCEPT ![q] = [state |-> "active", lease |-> l]]
  /\ toExt' = Append(toExt, Frame("request", q))
  /\ UNCHANGED <<graph, ext, offers, transfer, late, toAgent, closed, held>>

(* stop(): the signal of the reader, or the timer at the deadline.          *)
Stop(q) ==
  /\ Open /\ q \in Active
  /\ reads' = Settled({q}, "refused")
  /\ toExt' = Append(toExt, Frame("cancel", q))
  /\ UNCHANGED <<graph, ext, offers, transfer, late, toAgent, closed, held>>
Cancel(q) == q \notin late /\ Stop(q)
Timer(q) == q \in late /\ Stop(q)

(* Date.now() passes the deadline of a read.                                *)
Expire(q) ==
  /\ Open /\ reads[q].state # "idle" /\ q \notin late
  /\ q \in Active \/ q \in ToSet(queue)
  /\ Cardinality(late) < MaxLate
  /\ late' = late \cup {q}
  /\ UNCHANGED <<graph, ext, agent, toAgent, toExt, closed, held>>

(* The timer of a transfer forgets it.                                      *)
TransferTimer ==
  /\ Open /\ transfer \in late
  /\ transfer' = Nil
  /\ UNCHANGED <<graph, ext, offers, reads, late, toAgent, toExt, closed, held>>

(* A call of the extension: the answer, or the end of the socket.           *)
Handled(c) ==
  /\ toAgent' = Tail(toAgent)
  /\ toExt' = Append(toExt, Answered(c))
  /\ UNCHANGED <<graph, ext, late, closed, held>>
Refuse(c) == Close(IF c.read \in late THEN "late" ELSE "order")
Complete(q) ==
  IF q \notin Active THEN reads
  ELSE Settled({q}, IF LeaseOf(q) \in offers THEN "answered" ELSE "refused")

HandleLease(c) ==
  \/ /\ c.kind = "offer"
     /\ offers' = offers \cup {c.lease}
     /\ Handled(c) /\ UNCHANGED <<reads, transfer>>
  \/ /\ c.kind = "revoke"
     /\ offers' = offers \ {c.lease}
     /\ reads' = Settled({q \in Active : LeaseOf(q) = c.lease}, "refused")
     /\ Handled(c) /\ UNCHANGED transfer
  \/ /\ c.kind = "reject"
     /\ reads' = Settled(Active \cap {c.read}, "refused")
     /\ Handled(c) /\ UNCHANGED <<offers, transfer>>

HandleTransfer(c) ==
  \/ /\ c.kind = "open"
     /\ IF transfer = Nil /\ c.read \notin late
        THEN transfer' = c.read /\ Handled(c) /\ UNCHANGED <<offers, reads>>
        ELSE Refuse(c)
  \/ /\ c.kind \in {"chunk", "ack"}
     /\ IF transfer = c.read /\ c.read \notin late
        THEN Handled(c) /\ UNCHANGED agent
        ELSE Refuse(c)
  \/ /\ c.kind = "complete"
     /\ IF transfer = c.read /\ c.read \notin late
        THEN transfer' = Nil /\ reads' = Complete(c.read) /\ Handled(c) /\ UNCHANGED offers
        ELSE Refuse(c)
  \/ /\ c.kind = "cancelTransfer"
     /\ IF transfer = c.read
        THEN transfer' = Nil /\ Handled(c) /\ UNCHANGED <<offers, reads>>
        ELSE Refuse(c)

Handle == Open /\ toAgent # <<>> /\ (HandleLease(Head(toAgent)) \/ HandleTransfer(Head(toAgent)))

---------------------------------------------------------------------------
Init ==
  /\ graph = 0
  /\ alive = Leases
  /\ entry = [l \in Leases |-> [state |-> "new", at |-> 0]]
  /\ offers = {}
  /\ reads = [q \in Reads |-> [state |-> "idle", lease |-> Nil]]
  /\ late = {} /\ aborted = {}
  /\ queue = <<>> /\ pc = "idle" /\ look = "no"
  /\ checking = {} /\ posting = {} /\ toAgent = <<>> /\ toExt = <<>>
  /\ transfer = Nil
  /\ closed = "no"
  /\ held = {}

Next ==
  \/ \E l \in Leases : Publish(l) \/ PublishChecked(l) \/ Abort(l) \/ Navigate(l)
  \/ Commit
  \/ \E c \in posting : Post(c) \/ PostFails(c)
  \/ TakeRequest \/ TakeCancel \/ TakeAnswer
  \/ Start \/ ReadBefore \/ ReadAfter \/ Race
  \/ ValidateBegins \/ CatalogRead \/ Projected \/ Checked \/ Rechecked
  \/ \E q \in Reads, l \in Leases : Ask(q, l)
  \/ \E q \in Reads : Cancel(q) \/ Timer(q) \/ Expire(q)
  \/ TransferTimer \/ Handle

Spec == Init /\ [][Next]_vars

(* Digests are computed, messages are delivered and answered, code that     *)
(* waits for nothing runs, timers fire and deadlines pass. The repository   *)
(* may never answer: nothing is assumed of ReadBefore, ReadAfter,           *)
(* CatalogRead and PublishChecked.                                          *)
Sends == \E c \in posting : Post(c) \/ PostFails(c)
Goings == Start \/ ValidateBegins \/ Projected \/ Checked \/ Rechecked
Settles ==
  \/ Sends \/ Handle \/ TakeRequest \/ TakeCancel \/ TakeAnswer \/ Goings \/ Race
  \/ \E q \in Reads : Timer(q) \/ Expire(q)

(* One condition is enough for all of them: a step uses up what it acts on, *)
(* so none is taken for ever while another one waits.                       *)
LiveSpec == Spec /\ WF_vars(Settles)

---------------------------------------------------------------------------
Kinds == {"offer", "revoke", "open", "chunk", "ack", "complete", "cancelTransfer", "reject"}
Calls == [kind : Kinds, lease : Leases, read : Reads \cup {Nil}, full : BOOLEAN]
TypeOK ==
  /\ graph \in 0 .. MaxGraph
  /\ alive \subseteq Leases /\ offers \subseteq Leases
  /\ entry \in [Leases -> [state : {"new", "installed", "revoked"}, at : 0 .. MaxGraph]]
  /\ reads \in [Reads -> [state : {"idle", "active", "answered", "refused"}, lease : Leases \cup {Nil}]]
  /\ late \subseteq Reads /\ aborted \subseteq ToSet(queue) /\ held \subseteq Reads \X {"read", "sent", "dropped"}
  /\ queue \in Seq(Reads) /\ Len(queue) <= ReadLimit
  /\ pc \in {"idle", "reading", "read", "validating", "checking", "opening", "sending", "rechecking",
              "completing", "cancelling", "rejecting"}
  /\ look \in {"no", "due", "asked", "fits", "differs"}
  /\ (look # "no") <=> (pc \in {"validating", "checking", "rechecking"})
  /\ checking \subseteq Leases
  /\ queue = <<>> => pc = "idle"
  /\ posting \subseteq Calls /\ toAgent \in Seq(Calls)
  /\ Cardinality(Active) <= ReadLimit /\ Outstanding <= CallLimit
  /\ transfer \in Reads \cup {Nil}
  /\ closed \in {"no", "late", "queue", "calls", "order"}

(* "Source/graph checks run before and after asynchronous reads/hash work    *)
(* and before transfer completion" (docs/evidence/                          *)
(* s29-native-projection-2026-11-02.md): no read is answered whose lease was *)
(* revoked, whose document left or whose graph changed before its last      *)
(* chunk was acknowledged, however long the repository, the bridge and the  *)
(* digests took; a change after that may still be overtaken by the answer.  *)
AnsweredFresh == \A q \in Reads : reads[q].state = "answered" => <<q, "sent">> \in held

(* Nothing is sent of a read whose lease no longer fitted the graph when    *)
(* its projection had been read and hashed.                                 *)
OpenedFresh ==
  /\ \A c \in posting \cup ToSet(toAgent) : c.kind \in {"open", "chunk"} => <<c.read, "read">> \in held
  /\ transfer # Nil => <<transfer, "read">> \in held

(* The endpoint never opens a transfer while another is open, nor sends a   *)
(* chunk of one that is not, whatever is cancelled in between: the agent    *)
(* would end the connection of all. It does only when a transfer could not  *)
(* be cancelled because the bridge had no room for the call.                *)
TransfersInOrder == closed = "order" => \E q \in Reads : <<q, "dropped">> \in held

(* Cancelling reads leaves the bridge usable: the test "cancels a stalled   *)
(* projection in both directions" sends a heartbeat over it afterwards.     *)
BridgeStays == closed = "no"

(* "Cancellation is sent in both directions" (same document): a transfer    *)
(* that the endpoint gives up does not stay open at the agent.              *)
GivenUpIsCancelled ==
  pc = "rejecting" /\ transfer = Head1 /\ Head1 \notin late
    => \E c \in posting \cup ToSet(toAgent) : c.kind = "cancelTransfer"

(* The endpoint serves the reads one after the other, and a repository that *)
(* never answers a projection stops none of them: the deadline of the read  *)
(* or its cancellation ends it. The two validations of the transfer are     *)
(* outside that race: a repository that does not answer one of them stops   *)
(* the reads for good.                                                      *)
Stalled == pc \in {"checking", "rechecking"} /\ look = "asked"
QueueDrains == <>[]Stalled \/ [](queue # <<>> => <>(queue = <<>>))

(* The agent forgets every lease that is revoked while it has it. (The      *)
(* revocation of a lease may overtake its offer, whose digest takes longer, *)
(* and then the offer stays.)                                               *)
Retracted == \A l \in Leases :
  [](l \in offers /\ entry[l].state = "installed" => [](entry[l].state = "revoked" => <>(l \notin offers)))
=============================================================================
