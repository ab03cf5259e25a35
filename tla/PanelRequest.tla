---------------------------- MODULE PanelRequest ----------------------------
(* The side panel's request client against the worker's request map: one   *)
(* panel on one tab starts requests, polls their status, stops them,       *)
(* answers a selection and gives the composer back when it learns that a   *)
(* request is over.                                                        *)
(*                                                                         *)
(* Calls reach the worker in the order they were sent; every call is given *)
(* up after five seconds, and its answer is then not taken any more.  A    *)
(* reset moves the client to another epoch; an epoch never has two ids, so *)
(* an answer is of the client's epoch when it is about the client's id.    *)
EXTENDS Integers, Sequences, FiniteSets, SequencesExt

CONSTANTS Requests,     \* the ids that may ever be used
          None,
          MaxRevision,  \* bound: revision from which progress is not counted
          MaxIncidents, \* bound: restarts, selections asked of the user and progress, together
          MaxTimeouts   \* bound: calls given up

ConstantsFit ==
  /\ None \notin Requests
  /\ {MaxRevision, MaxIncidents, MaxTimeouts} \subseteq Nat
  /\ MaxRevision > 0

VARIABLES
  client,   \* id, revision, delivered, polling: the fields of RequestClient
  panel,    \* the request submitted last, the composer, what was shown
  requests, \* the worker's map: state, revision, result, whether a run began
  saved,    \* the rows in session storage
  ends,     \* the requests whose run has put its end in the thread
  mail,     \* calls on their way to the worker
  replies,  \* answers on their way to the panel
  past      \* history: restarts, timeouts and selections so far

vars == <<client, panel, requests, saved, ends, mail, replies, past>>

States == {"ABSENT", "ACCEPTED", "RUNNING", "WAITING_USER", "TERMINAL"}
Unfinished == {"ACCEPTED", "RUNNING", "WAITING_USER"}
Results == {"none", "select", "review"}
Absent == [state |-> "ABSENT", revision |-> 0, result |-> "none", run |-> "none"]
Idle == [id |-> None, revision |-> 0, delivered |-> FALSE, polling |-> FALSE]

Init ==
  /\ client = Idle
  /\ panel = [of |-> None, busy |-> FALSE, stop |-> FALSE, view |-> None,
              results |-> {}, untold |-> FALSE]
  /\ requests = [r \in Requests |-> Absent]
  /\ saved = [r \in Requests |-> Absent]
  /\ ends = {}
  /\ mail = <<>>
  /\ replies = {}
  /\ past = [restarts |-> 0, timeouts |-> 0, events |-> 0]

Call(kind, r) == [kind |-> kind, id |-> r, heard |-> TRUE]
Send(kind, r) == mail' = Append(mail, Call(kind, r))
Awaits(kind, r) == (\E i \in DOMAIN mail : mail[i] = Call(kind, r))
                   \/ (\E a \in replies : a.kind = kind /\ a.id = r)
Answer(kind, r, ok, row) == [kind |-> kind, id |-> r, ok |-> ok, broken |-> FALSE, row |-> row]

-----------------------------------------------------------------------------
(* The client.                                                             *)

\* poll(): one at a time.
Polled(c) == [c EXCEPT !.polling = TRUE]
PollAfter(c) ==
  IF c.id = None \/ c.polling THEN client' = c /\ UNCHANGED mail
  ELSE client' = Polled(c) /\ Send("status", c.id)

\* submit() and start(): a new id and a new epoch.
Submit(r) ==
  /\ ~panel.busy /\ ~panel.stop
  /\ requests[r] = Absent /\ saved[r] = Absent /\ ~\E i \in DOMAIN mail : mail[i].id = r
  /\ client' = [Idle EXCEPT !.id = r]
  /\ panel' = [panel EXCEPT !.of = r, !.busy = TRUE, !.view = None, !.results = {}, !.untold = FALSE]
  /\ Send("start", r)
  /\ UNCHANGED <<requests, saved, ends, replies, past>>

\* The 3-second timer, or the window gets the focus.
Poll ==
  /\ client.id # None /\ ~client.polling
  /\ PollAfter(client)
  /\ UNCHANGED <<panel, requests, saved, ends, replies, past>>

\* cancelRun(): the composer is locked until the end is known.
Stop ==
  /\ panel.busy /\ ~panel.stop /\ client.id # None
  /\ panel' = [panel EXCEPT !.stop = TRUE]
  /\ Send("cancel", client.id)
  /\ UNCHANGED <<client, requests, saved, ends, replies, past>>

\* A candidate of the selection card is chosen.
Choose ==
  /\ client.id # None /\ panel.of = client.id /\ "select" \in panel.results /\ ~Awaits("resume", client.id)
  /\ client' = [client EXCEPT !.delivered = FALSE]
  /\ Send("resume", client.id)
  /\ UNCHANGED <<panel, requests, saved, ends, replies, past>>

\* clearConversation() in the answer of CHAT_CLEAR, which has cancelled the run
\* of the tab but not its request.
NewChat ==
  /\ panel.of # None
  /\ client' = Idle
  /\ panel' = [panel EXCEPT !.busy = FALSE, !.stop = FALSE, !.view = None, !.of = None]
  /\ requests' = [r \in Requests |-> [requests[r] EXCEPT !.run = IF @ = "live" THEN "cut" ELSE @]]
  /\ UNCHANGED <<saved, ends, mail, replies, past>>

\* Mutant: the answer is taken whatever request it is about.
MineAny(a) == client.id # None

\* The answer belongs to the present epoch.
Mine(a) == a.id = client.id

\* The snapshot is shown unless its revision went back.
Newer(a) == a.row.revision >= client.revision
Updated(p, a) ==
  IF ~Newer(a) THEN p
  ELSE [p EXCEPT !.view = a.id,
                 !.busy = IF a.row.state = "TERMINAL" /\ ~p.stop THEN FALSE ELSE @]
Delivered(p, a) ==
  IF client.delivered \/ a.row.result = "none" THEN p
  ELSE [p EXCEPT !.results = @ \cup {a.row.result}]

\* Mutant: a poll that fails leaves the flag.
PollFailedStuck(c) == c

\* Mutant: the reset forgets the polling flag.
LetGoPolling(c) == [Idle EXCEPT !.polling = c.polling]

\* reset().
LetGo(c) == Idle

\* finally: the next poll is possible again.
PollFailed(c) == [c EXCEPT !.polling = FALSE]

\* A status answer: shown, its result handed over once, and the client lets go
\* of a request that is over.
TakeStatus(a) ==
  /\ a.kind = "status" /\ a.ok
  /\ panel' = [Delivered(Updated(panel, a), a) EXCEPT
                !.untold = @ \/ (a.row.state = "TERMINAL" /\ ~Newer(a))]
  /\ client' = IF a.row.state = "TERMINAL" THEN LetGo(client)
               ELSE [client EXCEPT !.polling = FALSE,
                       !.revision = IF Newer(a) THEN a.row.revision ELSE @,
                       !.delivered = @ \/ a.row.result # "none"]
  /\ UNCHANGED mail

\* REQUEST_NOT_FOUND gives the composer back; any other failure is tried again.
TakeNoStatus(a) ==
  /\ a.kind = "status" /\ ~a.ok
  /\ IF a.broken THEN client' = PollFailed(client) /\ UNCHANGED panel
     ELSE client' = LetGo(client) /\ panel' = [panel EXCEPT !.busy = FALSE]
  /\ UNCHANGED mail

TakeAccepted(a) ==
  /\ a.kind # "status" /\ a.ok
  /\ PollAfter(client)
  /\ UNCHANGED panel

TakeRefused(a) ==
  /\ a.kind # "status" /\ ~a.ok
  /\ client' = IF a.kind = "start" THEN Idle ELSE client
  /\ panel' = CASE a.kind = "start"  -> [panel EXCEPT !.busy = FALSE]
               [] a.kind = "cancel" -> [panel EXCEPT !.stop = FALSE]
               [] OTHER             -> panel
  /\ UNCHANGED mail

\* An answer about an id the client has let go of is dropped; only a Stop that
\* failed unlocks the composer whatever it was about.
TakeForeign(a) ==
  /\ panel' = IF a.kind = "cancel" /\ ~a.ok THEN [panel EXCEPT !.stop = FALSE] ELSE panel
  /\ UNCHANGED <<client, mail>>

Take(kind) ==
  \E a \in replies :
    /\ a.kind = kind
    /\ replies' = replies \ {a}
    /\ IF Mine(a) THEN TakeStatus(a) \/ TakeNoStatus(a) \/ TakeAccepted(a) \/ TakeRefused(a)
       ELSE TakeForeign(a)
    /\ UNCHANGED <<requests, saved, ends, past>>

\* Five seconds without an answer.  The call may still reach the worker.
Timeout(kind) ==
  /\ past.timeouts < MaxTimeouts /\ client.id # None /\ Awaits(kind, client.id)
  /\ past' = [past EXCEPT !.timeouts = @ + 1]
  /\ LET r == client.id
         unheard == [i \in DOMAIN mail |-> IF mail[i] = Call(kind, r)
                                           THEN [mail[i] EXCEPT !.heard = FALSE] ELSE mail[i]]
     IN /\ replies' = {a \in replies : a.kind # kind \/ a.id # r}
        /\ client' = IF kind = "status" THEN PollFailed(client)
                     ELSE IF kind = "start" THEN Polled(client) ELSE client
        /\ mail' = IF kind = "start" /\ ~client.polling THEN Append(unheard, Call("status", r)) ELSE unheard
        /\ panel' = IF kind = "cancel" THEN [panel EXCEPT !.stop = FALSE] ELSE panel
  /\ UNCHANGED <<requests, saved, ends>>

\* The run_terminal event of the request's run is shown (ChatThread).
SeeEnd ==
  /\ panel.of # None /\ panel.busy /\ panel.of \in ends
  /\ panel' = [panel EXCEPT !.busy = FALSE, !.stop = FALSE]
  /\ UNCHANGED <<client, requests, saved, ends, mail, replies, past>>

-----------------------------------------------------------------------------
(* The worker.                                                             *)

Live(r) == requests[r].state \in Unfinished
Bump(n) == IF n < MaxRevision THEN n + 1 ELSE n

Set(r, e) == requests' = [requests EXCEPT ![r] = e]

\* onTerminal: an unfinished run of the tab ends with the request, and says so.
Finish(r, run) ==
  LET e == requests[r] IN
  /\ Set(r, [e EXCEPT !.state = "TERMINAL", !.revision = @ + 1,
                      !.run = IF e.run = "cut" THEN @ ELSE run])
  /\ ends' = IF e.run = "live" THEN ends \cup {r} ELSE ends

Row(e) == [e EXCEPT !.result = "none", !.run = "none"]
Saved(m) == [r \in Requests |-> Row(m[r])]

Reply(c, ok, row) ==
  replies' = IF c.heard THEN replies \cup {Answer(c.kind, c.id, ok, row)} ELSE replies

\* Mutant: the tab is busy only while a run is.
TabFree == \E r \in Requests : requests[r].run = "live"

\* start() of the request store: an unfinished request of the tab.
TabBusy == \E r \in Requests : Live(r)

\* START: the row is flushed, the call answered and the run begun (startRun).
Entered(state, n) == [Absent EXCEPT !.state = state, !.revision = n]
HandleStart(c) ==
  /\ c.kind = "start"
  /\ IF TabBusy
     THEN Reply(c, FALSE, Absent) /\ UNCHANGED <<requests, saved>>
     ELSE /\ requests' = [requests EXCEPT ![c.id] = Entered("RUNNING", 2)]
          /\ saved' = Saved([requests EXCEPT ![c.id] = Entered("ACCEPTED", 1)])
          /\ Reply(c, TRUE, Absent)
  /\ UNCHANGED ends

HandleStatus(c) ==
  /\ c.kind = "status"
  /\ Reply(c, requests[c.id] # Absent, requests[c.id])
  /\ UNCHANGED <<requests, saved, ends>>

HandleCancel(c) ==
  /\ c.kind = "cancel"
  /\ IF Live(c.id) THEN Finish(c.id, "cut") ELSE UNCHANGED <<requests, ends>>
  /\ Reply(c, requests[c.id] # Absent, Absent)
  /\ UNCHANGED saved

HandleResume(c) ==
  /\ c.kind = "resume"
  /\ LET e == requests[c.id]
         waits == e.state = "WAITING_USER" /\ e.result = "select"
     IN /\ IF waits THEN Set(c.id, [e EXCEPT !.state = "RUNNING", !.result = "none", !.revision = Bump(@)])
           ELSE UNCHANGED requests
        /\ Reply(c, waits, Absent)
  /\ UNCHANGED <<saved, ends>>

Handle ==
  /\ mail # <<>>
  /\ LET c == Head(mail) IN HandleStart(c) \/ HandleStatus(c) \/ HandleCancel(c) \/ HandleResume(c)
  /\ mail' = Tail(mail)
  /\ UNCHANGED <<client, panel, past>>

Others == UNCHANGED <<client, panel, saved, mail, replies, past>>
Step(r, e) == Set(r, e) /\ Others /\ UNCHANGED ends

\* The page is read before the run begins.
BeginRun(r) ==
  /\ requests[r].state = "RUNNING" /\ requests[r].run = "none"
  /\ Step(r, [requests[r] EXCEPT !.run = "live"])
Progress(r) ==
  /\ requests[r].state = "RUNNING" /\ requests[r].revision < MaxRevision
  /\ past.restarts + past.events < MaxIncidents /\ past' = [past EXCEPT !.events = @ + 1]
  /\ Set(r, [requests[r] EXCEPT !.revision = @ + 1])
  /\ UNCHANGED <<client, panel, saved, ends, mail, replies>>
Select(r) ==
  /\ requests[r].state = "RUNNING" /\ requests[r].run = "live"
  /\ past.restarts + past.events < MaxIncidents /\ past' = [past EXCEPT !.events = @ + 1]
  /\ Set(r, [requests[r] EXCEPT !.state = "WAITING_USER", !.result = "select", !.revision = Bump(@)])
  /\ UNCHANGED <<client, panel, saved, ends, mail, replies>>

\* The run ends, and the request with it (endTab).
EndRun(r) ==
  /\ Live(r) /\ requests[r].run = "live"
  /\ Finish(r, "over") /\ Others

\* The driver throws, or the time of the request is up.
Fail(r) ==
  /\ Live(r)
  /\ Finish(r, "cut") /\ Others

\* settled() with a review-only result: it is kept even when the end of the run
\* has already settled the request.
Review(r) ==
  /\ requests[r].run \in {"live", "over"} /\ requests[r].result = "none"
  /\ requests[r].state \in {"RUNNING", "TERMINAL"}
  /\ Others
  /\ Set(r, [requests[r] EXCEPT !.state = "TERMINAL", !.result = "review", !.run = "cut",
                                !.revision = IF Live(r) THEN @ + 1 ELSE @])
  /\ ends' = IF Live(r) /\ requests[r].run = "live" THEN ends \cup {r} ELSE ends

Save ==
  /\ saved # Saved(requests)
  /\ saved' = Saved(requests)
  /\ UNCHANGED <<client, panel, requests, ends, mail, replies, past>>

\* restore(): unfinished rows end, one revision above the saved one.
Restored(row) ==
  [row EXCEPT !.state = IF @ \in Unfinished THEN "TERMINAL" ELSE @,
              !.revision = IF row.state \in Unfinished THEN @ + 1 ELSE @,
              !.run = "cut"]
Restart ==
  /\ past.restarts + past.events < MaxIncidents
  /\ past' = [past EXCEPT !.restarts = @ + 1]
  /\ requests' = [r \in Requests |-> IF saved[r].state = "ABSENT" THEN Absent ELSE Restored(saved[r])]
  /\ replies' = replies \cup {[Answer(mail[i].kind, mail[i].id, FALSE, Absent) EXCEPT !.broken = TRUE] :
                              i \in {j \in DOMAIN mail : mail[j].heard}}
  /\ mail' = <<>>
  /\ UNCHANGED <<client, panel, saved, ends>>

-----------------------------------------------------------------------------
Kinds == {"start", "status", "cancel", "resume"}
Next ==
  \/ \E r \in Requests : Submit(r) \/ BeginRun(r) \/ Progress(r) \/ Select(r) \/ EndRun(r)
                        \/ Fail(r) \/ Review(r)
  \/ \E kind \in Kinds : Take(kind) \/ Timeout(kind)
  \/ Poll \/ Stop \/ Choose \/ NewChat \/ SeeEnd \/ Handle \/ Save \/ Restart

Spec == Init /\ [][Next]_vars

\* The poll timer runs, calls are handled and answered, events are shown.
Fairness ==
  /\ WF_vars(Poll) /\ WF_vars(Handle) /\ WF_vars(SeeEnd)
  /\ \A kind \in Kinds : WF_vars(Take(kind))
FairSpec == Spec /\ Fairness

-----------------------------------------------------------------------------
Entry == [state : States, revision : 0 .. MaxRevision + 2, result : Results,
          run : {"none", "live", "over", "cut"}]

\* The client, the request map and the stored rows have the shape the code gives
\* them, and a client that polls knows what it polls for.
TypeOK ==
  /\ client \in [id : Requests \cup {None}, revision : 0 .. MaxRevision + 2,
                 delivered : BOOLEAN, polling : BOOLEAN]
  /\ client.polling => client.id # None
  /\ requests \in [Requests -> Entry] /\ saved \in [Requests -> Entry]
  /\ panel.results \subseteq Results /\ ends \subseteq Requests

\* What the panel shows and delivers is of the request submitted last, however
\* late the answers about earlier ones come (the epoch of RequestClient).
ShowsPresent == panel.view # None => panel.view = panel.of

\* A panel that waits for a request asks again: a failed or timed-out poll never
\* leaves the client with an id and no poll to come, so it lets go of every
\* request that is over or unknown.
LetsGo == \A r \in Requests :
  (client.id = r /\ ~Live(r) /\ ~\E i \in DOMAIN mail : mail[i].id = r /\ mail[i].kind = "start")
    ~> (client.id # r)

\* One request at a time runs in the tab, whatever the panel has given up on.
OneRequest == Cardinality({r \in Requests : Live(r)}) <= 1

\* "must reach the Panel even when the run terminal event settled the request
\* first" (chat-request-lifecycle.ts): a review result that a request the panel
\* submitted has gained is delivered, or the client still asks for it.
ReviewReaches == \A r \in Requests :
  (panel.of = r /\ requests[r].result = "review" /\ client.id # r) => "review" \in panel.results

\* A stop before the dispatch is followed by a new request in the same tab
\* (sprint s10-r): a stopped request that is over gives the composer back.
StoppedIsFreed == \A r \in Requests :
  (panel.of = r /\ panel.stop /\ requests[r].state = "TERMINAL") ~> (panel.of # r \/ ~panel.stop)

\* "observes a snapshot failure without a chat terminal event" (request-client
\* test): a client that lets go of a request that is over has told the panel.
EndIsTold == ~panel.untold

\* The request client: one request at a time runs in the tab, and the panel shows no
\* other than the one submitted last.
PanelSafety == TypeOK /\ ShowsPresent /\ OneRequest
=============================================================================
