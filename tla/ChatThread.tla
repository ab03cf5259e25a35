----------------------------- MODULE ChatThread -----------------------------
(* The chat thread of one tab, from the event that a run publishes to the  *)
(* panel that shows it.                                                    *)
(*                                                                         *)
(* The service worker numbers the events of the thread, keeps them, writes *)
(* them to session storage a while later and posts them to the panel's     *)
(* port.  The panel drops what it has seen, asks for what it missed, and   *)
(* reads the whole thread again whenever it connects or its request ends.  *)
(* Approval events are never written.  A restarted worker goes on from the *)
(* written events.                                                         *)
(*                                                                         *)
(* What the worker sends one panel arrives in order; a restart loses it.   *)
EXTENDS Integers, Sequences, FiniteSets, SequencesExt, FiniteSetsExt

CONSTANTS Runs,        \* the chat runs that may ever be asked for
          None,
          Quota,       \* persistent events that fit in the thread
          MaxEvents,   \* bound: events ever published
          MaxRestarts, \* bound: restarts of the worker
          MaxClears,   \* bound: conversations thrown away
          MaxPanels    \* bound: times the panel is opened again

ASSUME ChatAssumption ==
  /\ None \notin Runs /\ IsFiniteSet(Runs)
  /\ {Quota, MaxEvents, MaxRestarts, MaxClears, MaxPanels} \subseteq Nat

Types == {"open", "text", "ask", "end", "scope"}

VARIABLES
  chat,    \* the store: thread id, next sequence, events, bound and finished runs
  run,     \* Runs -> "new", "asked", "live", "over"
  disk,    \* the written snapshot, the debounce timer, the queue of writes
  wire,    \* what the worker sent the panel
  panel,   \* the panel's port, sequences, gate, questions and request
  past     \* history: events, sequences, clears, restarts, panels so far

vars == <<chat, run, disk, wire, panel, past>>

\* The elements of s that are in S, in their order: filter() of an array.
Within(s, S) ==
  LET kept[i \in 0 .. Len(s)] ==
        IF i = 0 THEN <<>>
        ELSE IF s[i] \in S THEN Append(kept[i - 1], s[i]) ELSE kept[i - 1]
  IN kept[Len(s)]

Fresh == [thread |-> 0, next |-> 1, events |-> <<>>, bound |-> {}, finished |-> {}]
Persistent(e) == e.type # "ask"
Transcript(events) == Within(events, {e \in ToSet(events) : Persistent(e)})

\* Mutant: approval events are written too.
SnapshotAll(c) == [thread |-> c.thread, events |-> c.events]

Snapshot(c) == [thread |-> c.thread, events |-> Transcript(c.events)]
Threads == 0 .. (MaxClears + MaxRestarts + 1)
NewPanel == [port |-> "none", seen |-> [t \in Threads |-> 0], active |-> None,
             ended |-> {}, offered |-> <<>>, hidden |-> {},
             recovery |-> "idle", resync |-> None, waiting |-> None, busy |-> FALSE,
             clearing |-> FALSE]

Init ==
  /\ chat = Fresh
  /\ run = [r \in Runs |-> "new"]
  /\ disk = [saved |-> None, timer |-> FALSE, queue |-> <<>>]
  /\ wire = <<>>
  /\ panel = NewPanel
  /\ past = [born |-> 0, given |-> [t \in Threads |-> <<>>], threads |-> 0,
             cleared |-> 0, clears |-> 0, restarts |-> 0, panels |-> 0]

-----------------------------------------------------------------------------
(* The store.                                                              *)

Event(c, n, r, type) == [thread |-> c.thread, seq |-> c.next, run |-> r, type |-> type, n |-> n]
Append1(c, n, r, type) ==
  [c EXCEPT !.events = Append(@, Event(c, n, r, type)), !.next = @ + 1,
            !.finished = IF type = "end" THEN @ \cup {r} ELSE @]
Recoverable(c) == Within(c.events, {e \in ToSet(c.events) : Persistent(e) \/ e.run \notin c.finished})
OverQuota(c) == Len(Transcript(c.events)) > Quota

\* The thread a run is bound to: made when there is none, marked when the page moved.
Bind(c, r, moved) ==
  LET made == IF c.thread = 0 THEN [c EXCEPT !.thread = past.threads + 1]
              ELSE IF moved THEN Append1(c, past.born + 1, None, "scope") ELSE c
  IN [made EXCEPT !.bound = @ \cup {r}, !.finished = @ \ {r}]

Scheduled(immediate) ==
  IF immediate THEN [disk EXCEPT !.timer = FALSE, !.queue = Append(@, [job |-> "snapshot"])]
  ELSE [disk EXCEPT !.timer = TRUE]

Post(e) == IF panel.port = "bound" THEN Append(wire, [kind |-> "live", event |-> e]) ELSE wire

Given(c, d) ==      \* history: the sequences that d has and c had not
  [past EXCEPT !.born = @ + Len(d.events) - Len(c.events), !.threads = IF d.thread > @ THEN d.thread ELSE @,
               !.given[d.thread] = @ \o [i \in 1 .. Len(d.events) - Len(c.events) |->
                                           d.events[Len(c.events) + i].seq]]

\* publish(): the event is kept first; over the quota nobody hears of it.
Publish(c, r, type) ==
  LET d == Append1(c, past.born + Len(c.events) - Len(chat.events) + 1, r, type) IN
  /\ chat' = d
  /\ past' = Given(chat, d)
  /\ IF OverQuota(d) THEN UNCHANGED <<disk, wire>>
     ELSE /\ disk' = Scheduled(type = "end")
          /\ wire' = Post(Last(d.events))

Busy(r) == \E s \in Runs \ {r} : run[s] = "live"

Start(r) ==
  /\ run[r] = "asked" /\ ~Busy(r)
  /\ past.born + 1 < MaxEvents
  /\ \E moved \in BOOLEAN : Publish(Bind(chat, r, moved), r, "open")
  /\ run' = [run EXCEPT ![r] = "live"]
  /\ UNCHANGED panel

\* SESSION_STREAM_BUSY: the request of a forgotten panel still runs.
Refuse(r) ==
  /\ run[r] = "asked" /\ Busy(r)
  /\ run' = [run EXCEPT ![r] = "over"]
  /\ panel' = IF panel.waiting = r THEN [panel EXCEPT !.waiting = None, !.busy = FALSE] ELSE panel
  /\ UNCHANGED <<chat, disk, wire, past>>

Say(r) ==
  /\ run[r] = "live" /\ r \in chat.bound \ chat.finished
  /\ past.born < MaxEvents
  /\ \E type \in {"text", "ask"} : Publish(chat, r, type)
  /\ UNCHANGED <<run, panel>>

End(r) ==
  /\ run[r] = "live" /\ r \in chat.bound \ chat.finished
  /\ Publish(chat, r, "end")
  /\ run' = [run EXCEPT ![r] = "over"]
  /\ UNCHANGED panel

-----------------------------------------------------------------------------
(* The writes.                                                             *)

Timer ==
  /\ disk.timer
  /\ disk' = Scheduled(TRUE)
  /\ UNCHANGED <<chat, run, wire, panel, past>>

\* Mutant: the erasing write leaves the stored chat.
WrittenKept(job) == IF job = "snapshot" THEN Snapshot(chat) ELSE disk.saved

\* The snapshot is taken when the write is reached.
Written(job) == IF job = "snapshot" THEN Snapshot(chat) ELSE None

Write ==
  /\ disk.queue # <<>>
  /\ LET head == Head(disk.queue) IN
     /\ disk' = [disk EXCEPT !.saved = Written(head.job), !.queue = Tail(@)]
     /\ IF head.job = "clear"
        THEN /\ wire' = Append(wire, [kind |-> "cleared"])
             /\ past' = [past EXCEPT !.cleared = head.upto]
        ELSE UNCHANGED <<wire, past>>
  /\ UNCHANGED <<chat, run, panel>>

\* CHAT_CLEAR: the run of the tab is cancelled without an event, the store is
\* emptied, the stored chat is erased behind the writes that wait.  The dialog
\* stays over the panel until the answer.
Emptied(c) == Fresh
Clear ==
  /\ past.clears < MaxClears /\ ~panel.clearing
  /\ chat' = Emptied(chat)
  /\ disk' = [disk EXCEPT !.timer = FALSE, !.queue = Append(@, [job |-> "clear", upto |-> past.born])]
  /\ past' = [past EXCEPT !.clears = @ + 1]
  /\ UNCHANGED wire
  /\ run' = [r \in Runs |-> IF run[r] = "new" THEN "new" ELSE "over"]
  /\ panel' = [panel EXCEPT !.clearing = TRUE]

-----------------------------------------------------------------------------
(* The panel.                                                              *)

\* shouldRenderChatEvent() for the event of the shown tab.
Renders(p, e) == (p.active = None \/ e.run = p.active \/ e.type = "scope") /\ e.run \notin p.ended
GatedByOther(p, e) == p.active # None /\ e.run # p.active /\ e.type # "scope" /\ e.run \notin p.ended

Shown(p, e) ==
  LET q == [p EXCEPT !.seen[e.thread] = e.seq, !.offered = Append(@, e.n),
                     !.hidden = IF GatedByOther(p, e) THEN @ \cup {e.run} ELSE @]
  IN IF ~Renders(p, e) THEN q
     ELSE CASE e.type = "open" -> [q EXCEPT !.active = e.run, !.busy = TRUE]
            [] e.type = "end"  -> [q EXCEPT !.ended = @ \cup {e.run}, !.active = None, !.busy = FALSE]
            [] OTHER -> q

\* Mutants: recovered events are not compared; a gap is not noticed.
DecisionTrusting(previous, seq, recovered) ==
  IF recovered THEN "apply" ELSE IF seq <= previous THEN "ignore"
  ELSE IF seq > previous + 1 THEN "resync" ELSE "apply"
DecisionNoGap(previous, seq, recovered) == IF seq <= previous THEN "ignore" ELSE "apply"

\* eventSequenceDecision()
Decision(previous, seq, recovered) ==
  IF seq <= previous THEN "ignore"
  ELSE IF ~recovered /\ seq > previous + 1 THEN "resync" ELSE "apply"

Apply(p, e, recovered) ==
  LET decision == Decision(p.seen[e.thread], e.seq, recovered) IN
  CASE decision = "ignore" -> p
    [] decision = "resync" -> IF p.resync # None THEN p
                              ELSE [p EXCEPT !.resync = [run |-> e.run, after |-> p.seen[e.thread]]]
    [] OTHER -> Shown(p, e)
ApplyAll(p, events) ==
  LET after[i \in 0 .. Len(events)] == IF i = 0 THEN p ELSE Apply(after[i - 1], events[i], TRUE)
  IN after[Len(events)]

\* clearConversation(): recoveries under way no longer count.
Cleared(p) == [NewPanel EXCEPT !.port = p.port]

Received(p, m) ==
  CASE m.kind = "live"      -> Apply(p, m.event, FALSE)
    [] m.kind = "recovered" -> ApplyAll([p EXCEPT !.recovery = "idle"], m.events)
    [] m.kind = "resynced"  -> [ApplyAll(p, m.events) EXCEPT !.resync = None]
    [] OTHER                -> Cleared(p)

NoRecovery(messages) == Within(messages, {m \in ToSet(messages) : m.kind # "recovered"})

Receive ==
  /\ wire # <<>>
  /\ panel' = Received(panel, Head(wire))
  /\ wire' = IF Head(wire).kind = "cleared" THEN NoRecovery(Tail(wire)) ELSE Tail(wire)
  /\ UNCHANGED <<chat, run, disk, past>>

\* recoverChatEvents(): the answers to earlier calls are not taken any more.
Recovering(p) == [p EXCEPT !.recovery = "asked"]

\* The window of a port that connects is looked up before the thread is read.
AnswerRecovery ==
  /\ panel.recovery = "asked" /\ panel.port # "binding"
  /\ panel' = [panel EXCEPT !.recovery = "answered"]
  /\ wire' = Append(wire, [kind |-> "recovered", events |-> Recoverable(chat)])
  /\ UNCHANGED <<chat, run, disk, past>>

\* sinceThreadForRun(), or nothing when the run is not bound any more.
Missing(r, after) ==
  IF r \in chat.bound THEN Within(Recoverable(chat), {e \in ToSet(chat.events) : e.seq > after}) ELSE <<>>
AnswerResync ==
  /\ panel.resync # None
  /\ ~\E i \in DOMAIN wire : wire[i].kind = "resynced"
  /\ wire' = Append(wire, [kind |-> "resynced", events |-> Missing(panel.resync.run, panel.resync.after)])
  /\ UNCHANGED <<chat, run, disk, panel, past>>

Connect ==
  /\ panel.port = "none"
  /\ panel' = Recovering([panel EXCEPT !.port = "binding"])
  /\ wire' = NoRecovery(wire)
  /\ UNCHANGED <<chat, run, disk, past>>

\* What is published before the panel's window is known does not reach it.
BindPort ==
  /\ panel.port = "binding"
  /\ panel' = [panel EXCEPT !.port = "bound"]
  /\ UNCHANGED <<chat, run, disk, wire, past>>

\* submit(): the new request is not held up by the gate of the run before.
Submit(r) ==
  /\ run[r] = "new" /\ ~panel.busy /\ ~panel.clearing
  /\ run' = [run EXCEPT ![r] = "asked"]
  /\ panel' = [panel EXCEPT !.waiting = r, !.busy = TRUE, !.active = None,
                            !.ended = @ \cup ({panel.active} \ {None})]
  /\ UNCHANGED <<chat, disk, wire, past>>

\* Mutant: the thread is not read again when the request is over.
SettledOnly(p) == [p EXCEPT !.waiting = None, !.busy = FALSE]

\* The poll of the request finds it over and reads the thread once more, unless
\* the snapshot is that of a restarted worker, with a revision below the last.
Settled(p) == Recovering([p EXCEPT !.waiting = None, !.busy = FALSE])
PollTerminal ==
  /\ panel.waiting # None /\ run[panel.waiting] = "over"
  /\ \/ panel' = Settled(panel) /\ wire' = NoRecovery(wire)
     \/ /\ panel.waiting \notin chat.bound
        /\ panel' = [panel EXCEPT !.waiting = None] /\ UNCHANGED wire
  /\ UNCHANGED <<chat, run, disk, past>>

\* The panel is closed and opened: it forgets its request.
Reopen ==
  /\ past.panels < MaxPanels /\ ~panel.clearing
  /\ panel' = NewPanel
  /\ wire' = <<>>
  /\ past' = [past EXCEPT !.panels = @ + 1]
  /\ UNCHANGED <<chat, run, disk>>

\* Mutant: the numbering starts at the last written sequence.
RestoredSame(saved) ==
  IF saved = None THEN Fresh
  ELSE [Fresh EXCEPT !.thread = saved.thread, !.events = saved.events,
                     !.next = Max({1} \cup {saved.events[i].seq : i \in DOMAIN saved.events})]

\* restore(): the numbering goes on from the written events, the runs are gone.
Restored(saved) ==
  IF saved = None THEN Fresh
  ELSE [Fresh EXCEPT !.thread = saved.thread, !.events = saved.events,
                     !.next = Max({0} \cup {saved.events[i].seq : i \in DOMAIN saved.events}) + 1]

\* The worker is stopped and started: its answers are lost, the panel asks again.
Restart ==
  /\ past.restarts < MaxRestarts
  /\ chat' = Restored(disk.saved)
  /\ run' = [r \in Runs |-> IF run[r] = "new" THEN "new" ELSE "over"]
  /\ disk' = [disk EXCEPT !.timer = FALSE, !.queue = <<>>]
  /\ wire' = <<>>
  /\ panel' = [panel EXCEPT !.port = "none", !.resync = None, !.clearing = FALSE,
                 !.recovery = IF @ # "idle" \/ panel.resync # None THEN "asked" ELSE "idle"]
  /\ past' = [past EXCEPT !.restarts = @ + 1]

-----------------------------------------------------------------------------
Worker == Timer \/ Write \/ AnswerRecovery \/ AnswerResync \/ BindPort
Next ==
  \/ \E r \in Runs : Submit(r) \/ Start(r) \/ Refuse(r) \/ Say(r) \/ End(r)
  \/ Worker \/ Receive \/ Connect \/ PollTerminal
  \/ Clear \/ Reopen \/ Restart

Spec == Init /\ [][Next]_vars

\* Messages are answered and delivered, the 250 ms reconnect and the poll run.
Fairness ==
  /\ WF_vars(Timer) /\ WF_vars(Write) /\ WF_vars(AnswerRecovery) /\ WF_vars(AnswerResync)
  /\ WF_vars(BindPort) /\ WF_vars(Receive) /\ WF_vars(Connect) /\ WF_vars(PollTerminal)
FairSpec == Spec /\ Fairness

-----------------------------------------------------------------------------
EventType == [thread : Threads, seq : 1 .. MaxEvents + Cardinality(Runs) + 1, run : Runs \cup {None},
              type : Types, n : 1 .. MaxEvents + Cardinality(Runs) + 1]

\* The store, the panel and the stored chat have the shape the code gives them,
\* and the events of a thread are in the order of their sequences.
TypeOK ==
  /\ ToSet(chat.events) \subseteq EventType
  /\ chat.bound \subseteq Runs /\ chat.finished \subseteq chat.bound
  /\ \A i, j \in DOMAIN chat.events : i < j => chat.events[i].seq < chat.events[j].seq
  /\ \A i \in DOMAIN chat.events : chat.events[i].thread = chat.thread /\ chat.events[i].seq < chat.next
  /\ run \in [Runs -> {"new", "asked", "live", "over"}]
  /\ disk.saved = None \/ ToSet(disk.saved.events) \subseteq {e \in EventType : Persistent(e)}
  /\ panel.active \in Runs \cup {None} /\ panel.waiting \in Runs \cup {None}
  /\ panel.port \in {"none", "binding", "bound"} /\ panel.recovery \in {"idle", "asked", "answered"}

\* The panel takes the events in the order they were published and none twice,
\* whatever is posted, recovered and resynchronised, across restarts as well
\* (applyChatEvent with the sequence of the thread).
ShownInOrder ==
  \A i, j \in DOMAIN panel.offered : i < j => panel.offered[i] < panel.offered[j]

\* While the worker lives, a panel that has come to a sequence of the thread
\* has been offered every transcript event up to it: the gap check and the two
\* ways to read the thread again leave no hole.
NothingSkipped ==
  past.restarts = 0 =>
    \A i \in DOMAIN chat.events : LET e == chat.events[i] IN
      (Persistent(e) /\ e.seq <= panel.seen[e.thread]) => e.n \in ToSet(panel.offered)

\* Once CHAT_CLEAR is answered, no event of the conversation thrown away is in
\* the store or in session storage, so no restart brings it back.
ClearedStaysCleared ==
  /\ \A i \in DOMAIN chat.events : chat.events[i].n > past.cleared
  /\ disk.saved # None => \A i \in DOMAIN disk.saved.events : disk.saved.events[i].n > past.cleared

\* An approval event never comes back from a worker that was restarted: what a
\* later worker holds to be approved was published by a run it knows.
AsksAreLive == \A i \in DOMAIN chat.events :
  chat.events[i].type = "ask" => chat.events[i].run \in chat.bound

Ended(r) == \E i \in DOMAIN chat.events : chat.events[i].run = r /\ chat.events[i].type = "end"

\* When the end of a run is in the thread, the panel leaves the run: the end is
\* delivered or is found when the request is seen to be over.
PanelSettles == \A r \in Runs : (Ended(r) /\ panel.active = r) ~> (panel.active # r \/ ~Ended(r))

\* "sequence is monotonic within a tab thread" (sidepanel/entry.ts, where the
\* panel drops every event whose sequence is not above the last).
SequencesGrow == \A t \in Threads : \A i, j \in DOMAIN past.given[t] :
                   i < j => past.given[t][i] < past.given[t][j]

\* "A new user request must not inherit the previous run's rendering gate"
\* (sidepanel/entry.ts): no run's events are withheld because an earlier run,
\* which never ended in the thread, still holds the gate.
NoInheritedGate == panel.hidden = {}

\* The thread and the panel together: what the panel shows is in order and without
\* holes, a cleared chat stays cleared, and no approval outlives its worker.
ThreadSafety == TypeOK /\ ShownInOrder /\ NothingSkipped /\ ClearedStaysCleared /\ AsksAreLive
=============================================================================
