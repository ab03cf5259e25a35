----------------------------- MODULE MutationRun -----------------------------
(***************************************************************************)
(* From an approved proposal to its one effect on the page: the messages   *)
(* ACT_APPROVE, ACT_VALUE_SUBMIT, ACT_CONFIRM and ACT_REJECT (act-proposal *)
(* modules of the service worker), the mutation and run coordinators,      *)
(* value slots and confirmation tokens (extension/src/state), and the      *)
(* runners of page APIs and page methods.                                  *)
(*                                                                         *)
(* A handler is one message in flight; messages may be duplicated, and     *)
(* each await lets the others run.  A run has one proposal, of a kind:     *)
(* "r1" (executed at once), "text" (asks for a value), "r2" (asks for a    *)
(* confirmation), "api" and "method".                                      *)
(*                                                                         *)
(* Each ACT_APPROVE reads the page again, and the digest of the intent     *)
(* covers the state of the target it read and the changes derived from it. *)
(* So an intent is a run with a reading; the page may show any reading at  *)
(* any time, and two approvals of one run may be of two intents.           *)
(***************************************************************************)
EXTENDS Naturals, FiniteSets

CONSTANTS
  Runs, None,
  Readings,    \* states of a target that tell digests apart
  Handlers,    \* messages that may be in flight at once
  Tab, Kind    \* the tab and the kind of the proposal of each run

Kinds == {"r1", "text", "r2", "api", "method"}
ConstantsFit ==
  Kind \in [Runs -> Kinds] /\ DOMAIN Tab = Runs /\ None \notin Runs /\ None \notin Readings

VARIABLES
  active,      \* RunCoordinator.active: the last run of each tab
  phase, outcome,       \* EXECUTING stands for PREFLIGHT and VERIFYING_* too
  aborted,     \* runs whose request has ended: its signal is aborted
  reserved,    \* digests of MutationCoordinator
  pending,     \* MutationCoordinator.pending: the reading proposed last
  slots, tokens,        \* live value slots and confirmations, by their intent
  awaiting,    \* awaitingValue and awaitingConfirmation of the session
  inFlight, consumed,   \* keys of the page API and page method runners
  handler,     \* the intent and the place of each message
  reached      \* history: how often an intent was sent to its page

vars == <<active, phase, outcome, aborted, reserved, pending, slots, tokens, awaiting,
          inFlight, consumed, handler, reached>>
stores == <<reserved, pending, slots, tokens, awaiting>>
runners == <<inFlight, consumed>>

Tabs == {Tab[r] : r \in Runs}
Phases == {"new", "PROPOSING", "AWAITING_VALUE", "AWAITING_CONFIRMATION", "EXECUTING", "TERMINAL"}
Outcomes == {"none", "CANCELLED", "FAILED", "UNKNOWN", "VERIFIED"}
Places == {"authorize", "read", "probe", "before", "flight", "value", "confirm", "prepare", "send"}

\* A run and what was read for it; None until the page is read, and for a page call.
Seen == Readings \cup {None}
Intents == Runs \X Seen
Unread(r) == <<r, None>>
PageCall(r) == Kind[r] \in {"api", "method"}

Idle == [of |-> None, at |-> "idle"]

TypeOK ==
  /\ active \in [Tabs -> Runs \cup {None}]
  /\ phase \in [Runs -> Phases] /\ outcome \in [Runs -> Outcomes]
  /\ {aborted, inFlight, consumed} \subseteq SUBSET Runs
  /\ {reserved, slots, tokens} \subseteq SUBSET Intents
  /\ pending \in [Runs -> Seen] /\ awaiting \in [Runs -> Seen]
  /\ handler \in [Handlers -> [of : Intents, at : Places] \cup {Idle}]
  /\ reached \in [Intents -> 0 .. 2]

Known(r) == active[Tab[r]] = r
Live(r) == Known(r) /\ phase[r] # "TERMINAL"
On(h, d, place) == handler[h] = [of |-> d, at |-> place]
Goto(h, d, place) == handler' = [handler EXCEPT ![h] = [of |-> d, at |-> place]]
Done(h) == handler' = [handler EXCEPT ![h] = Idle]

\* terminal(): the first outcome stays; the stores of all runs are cleared.
Terminal(r, result) ==
  IF Live(r)
  THEN /\ phase' = [phase EXCEPT ![r] = "TERMINAL"]
       /\ outcome' = [outcome EXCEPT ![r] = result]
       /\ slots' = {} /\ tokens' = {}
  ELSE UNCHANGED <<phase, outcome, slots, tokens>>

Phase(r, next) == phase' = [phase EXCEPT ![r] = next]

-----------------------------------------------------------------------------
(* Runs of a tab.                                                          *)

\* A step of a request starts its run, which replaces and cancels the run before; the
\* request itself goes on.
Start(r) ==
  LET old == active[Tab[r]] IN
  /\ phase[r] = "new" /\ active' = [active EXCEPT ![Tab[r]] = r]
  /\ IF old # None /\ phase[old] # "TERMINAL"
     THEN /\ phase' = [phase EXCEPT ![r] = "PROPOSING", ![old] = "TERMINAL"]
          /\ outcome' = [outcome EXCEPT ![old] = "CANCELLED"]
          /\ slots' = {} /\ tokens' = {}
     ELSE Phase(r, "PROPOSING") /\ UNCHANGED <<outcome, slots, tokens>>
  /\ UNCHANGED <<aborted, reserved, pending, awaiting, runners, handler, reached>>

\* ACT_REJECT ends the run; Stop, a page change or the end of the budget end its request
\* too, and with it the runs of the request that are over already.
Cancel(r) ==
  /\ Known(r) /\ Terminal(r, "CANCELLED")
  /\ \/ Live(r) /\ UNCHANGED aborted
     \/ \E before \in SUBSET {q \in Runs : Tab[q] = Tab[r] /\ phase[q] = "TERMINAL"} :
          aborted' = aborted \cup {r} \cup before
  /\ UNCHANGED <<active, reserved, pending, awaiting, runners, handler, reached>>

\* Slots and tokens expire; a value that is not valid deletes its slot.
Expire(d) ==
  /\ d \in slots \cup tokens /\ slots' = slots \ {d} /\ tokens' = tokens \ {d}
  /\ UNCHANGED <<active, phase, outcome, aborted, reserved, pending, awaiting, runners,
                 handler, reached>>

-----------------------------------------------------------------------------
(* ACT_APPROVE: executeProposal()                                          *)

Approve(h, r) ==
  /\ handler[h] = Idle /\ Live(r) /\ r \notin aborted
  /\ Goto(h, Unread(r), "authorize")
  /\ UNCHANGED <<active, phase, outcome, aborted, stores, runners, reached>>

\* A message whose handler throws or asks for a permission.
Fail(h) ==
  /\ handler[h].at \in {"authorize", "read", "value", "confirm"} /\ Done(h)
  /\ UNCHANGED <<active, phase, outcome, aborted, stores, runners, reached>>

\* A page runner that answers without a dispatch.
Refused(h, r, result) ==
  Terminal(r, result) /\ Done(h)
  /\ UNCHANGED <<active, aborted, reserved, pending, awaiting, reached>>

\* The key of a page API is refused while a call of it runs, or when it was consumed.
Busy(r) == IF Kind[r] = "api" THEN r \in inFlight \cup consumed ELSE r \in consumed

Authorize(h, r) ==
  /\ On(h, Unread(r), "authorize")
  /\ IF ~PageCall(r) THEN
        /\ Goto(h, Unread(r), "read")
        /\ UNCHANGED <<active, phase, outcome, aborted, stores, runners, reached>>
     ELSE IF Busy(r) \/ r \in aborted THEN Refused(h, r, "FAILED") /\ UNCHANGED runners
     ELSE /\ Goto(h, Unread(r), "probe")
          /\ inFlight' = IF Kind[r] = "api" THEN inFlight \cup {r} ELSE inFlight
          /\ UNCHANGED <<active, phase, outcome, aborted, stores, consumed, reached>>

\* The page is probed: it may lack the function, or show the result already.
Probe(h, r) ==
  /\ On(h, Unread(r), "probe")
  /\ \/ /\ r \notin aborted /\ Goto(h, Unread(r), "before")
        /\ UNCHANGED <<active, phase, outcome, aborted, stores, runners, reached>>
     \/ /\ \/ Refused(h, r, "FAILED")
           \/ Kind[r] = "api" /\ r \notin aborted /\ Refused(h, r, "VERIFIED")
        /\ inFlight' = inFlight \ {r} /\ UNCHANGED consumed

\* After the marker is saved the request is checked, and a method call once more.
Checked(r) == r \notin aborted /\ r \notin consumed

Before(h, r) ==
  /\ On(h, Unread(r), "before")
  /\ IF Checked(r)
     THEN /\ reached' = [reached EXCEPT ![Unread(r)] = @ + 1] /\ Goto(h, Unread(r), "flight")
          /\ consumed' = IF Kind[r] = "method" THEN consumed \cup {r} ELSE consumed
          /\ UNCHANGED <<active, phase, outcome, aborted, stores, inFlight>>
     ELSE Refused(h, r, "FAILED") /\ inFlight' = inFlight \ {r} /\ UNCHANGED consumed

\* The call returns, throws or runs out of time.
Returned(h, r) ==
  /\ On(h, Unread(r), "flight") /\ PageCall(r)
  /\ \E result \in {"UNKNOWN", "VERIFIED"} :
       /\ Kind[r] = "method" \/ r \in aborted => result = "UNKNOWN"
       /\ Terminal(r, result)
  /\ inFlight' = inFlight \ {r} /\ consumed' = consumed \cup {r} /\ Done(h)
  /\ UNCHANGED <<active, aborted, reserved, pending, awaiting, reached>>

-----------------------------------------------------------------------------
(* A proposal on an element: propose(), and what it waits for.             *)

\* Mutant of Reserve: a digest may be reserved again.
ReserveAgain(d) == reserved' = reserved \cup {d}
Reserve(d) == d \notin reserved /\ reserved' = reserved \cup {d}

\* The proposal of the run that is pending is executed: the last turn of the coordinator.
Execute(h, r, seen) == Phase(r, "EXECUTING") /\ Goto(h, <<r, seen>>, "prepare")

\* With the page read again, the action is proposed and, unless it asks, executed. What an
\* earlier approval of the run was waiting for is replaced, but not deleted.
Propose(h, r) ==
  /\ On(h, Unread(r), "read") /\ r \notin aborted /\ Live(r)
  /\ \E seen \in Readings :
       /\ Reserve(<<r, seen>>) /\ pending' = [pending EXCEPT ![r] = seen]
       /\ \/ /\ Execute(h, r, seen)   \* value given, or confirmed by policy
             /\ UNCHANGED <<slots, tokens, awaiting>>
          \/ /\ Kind[r] = "text" /\ Phase(r, "AWAITING_VALUE") /\ Done(h)
             /\ slots' = slots \cup {<<r, seen>>} /\ UNCHANGED tokens
             /\ awaiting' = [awaiting EXCEPT ![r] = seen]
          \/ /\ Kind[r] = "r2" /\ Phase(r, "AWAITING_CONFIRMATION") /\ Done(h)
             /\ tokens' = tokens \cup {<<r, seen>>} /\ UNCHANGED slots
             /\ awaiting' = [awaiting EXCEPT ![r] = seen]
  /\ UNCHANGED <<active, outcome, aborted, runners, reached>>

\* ACT_VALUE_SUBMIT and ACT_CONFIRM first ask for the authorization again; what the
\* session waits for is read before.
Answer(h, r) ==
  /\ handler[h] = Idle /\ awaiting[r] # None /\ Live(r) /\ r \notin aborted
  /\ \/ Kind[r] = "text" /\ Goto(h, <<r, awaiting[r]>>, "value")
     \/ /\ Kind[r] = "r2" /\ phase[r] = "AWAITING_CONFIRMATION"
        /\ Goto(h, <<r, awaiting[r]>>, "confirm")
  /\ UNCHANGED <<active, phase, outcome, aborted, stores, runners, reached>>

\* A slot is the one of the proposal that is pending, a token bound to its digest.
Fits(r, seen) == pending[r] = seen

\* The slot is validated and consumed in one turn, or the message fails.
SubmitValue(h, r, seen) ==
  /\ On(h, <<r, seen>>, "value")
  /\ IF Live(r) /\ phase[r] = "AWAITING_VALUE" /\ Fits(r, seen) /\ <<r, seen>> \in slots
     THEN /\ slots' = slots \ {<<r, seen>>} /\ awaiting' = [awaiting EXCEPT ![r] = None]
          /\ Execute(h, r, pending[r])
     ELSE Done(h) /\ UNCHANGED <<slots, awaiting, phase>>
  /\ UNCHANGED <<active, outcome, aborted, reserved, pending, tokens, runners, reached>>

\* A token is used once, whether it fits or not.
Confirm(h, r, seen) ==
  /\ On(h, <<r, seen>>, "confirm") /\ awaiting' = [awaiting EXCEPT ![r] = None]
  /\ IF Live(r) /\ phase[r] = "AWAITING_CONFIRMATION"
     THEN /\ tokens' = tokens \ {<<r, seen>>}
          /\ IF <<r, seen>> \in tokens /\ Fits(r, seen)
             THEN Execute(h, r, pending[r])
             ELSE Done(h) /\ UNCHANGED phase
     ELSE Done(h) /\ UNCHANGED <<tokens, phase>>
  /\ UNCHANGED <<active, outcome, aborted, reserved, pending, slots, runners, reached>>

-----------------------------------------------------------------------------
(* The execution of an element's action.                                   *)

\* The effect must be verifiable; then the debugger's actions and navigations change the
\* phase once more, which fails when the run is over, and the others do not.
Prepare(h, d) ==
  /\ On(h, d, "prepare")
  /\ \/ Live(d[1]) /\ Phase(d[1], "EXECUTING") /\ Goto(h, d, "send")
     \/ Goto(h, d, "send") /\ UNCHANGED phase
     \/ Done(h) /\ UNCHANGED phase
  /\ UNCHANGED <<active, outcome, aborted, stores, runners, reached>>

\* Mutant of StillActive: a run is not looked up after the marker is saved.
StillActiveAnyway(r) == TRUE
StillActive(r) == Live(r)

\* The marker is saved, then the action goes to the page; a run that is over sends
\* nothing, and a marker that is not saved may fail the run.
Send(h, d) ==
  /\ On(h, d, "send")
  /\ \/ /\ StillActive(d[1]) /\ Goto(h, d, "flight")
        /\ reached' = [reached EXCEPT ![d] = @ + 1]
        /\ UNCHANGED <<phase, outcome, slots, tokens>>
     \/ /\ Done(h) /\ UNCHANGED reached
        /\ Terminal(d[1], "FAILED") \/ UNCHANGED <<phase, outcome, slots, tokens>>
  /\ UNCHANGED <<active, aborted, reserved, pending, awaiting, runners>>

\* The page answers, or does not in time; the effect is verified.
Executed(h, d) ==
  /\ On(h, d, "flight") /\ ~PageCall(d[1])
  /\ \E result \in {"FAILED", "UNKNOWN", "VERIFIED"} : Terminal(d[1], result)
  /\ Done(h)
  /\ UNCHANGED <<active, aborted, reserved, pending, awaiting, runners, reached>>

-----------------------------------------------------------------------------

Init ==
  /\ active = [t \in Tabs |-> None]
  /\ phase = [r \in Runs |-> "new"] /\ outcome = [r \in Runs |-> "none"]
  /\ aborted = {} /\ reserved = {} /\ slots = {} /\ tokens = {}
  /\ pending = [r \in Runs |-> None] /\ awaiting = [r \in Runs |-> None]
  /\ inFlight = {} /\ consumed = {}
  /\ handler = [h \in Handlers |-> Idle] /\ reached = [d \in Intents |-> 0]

Approval(h, r) ==
  Approve(h, r) \/ Authorize(h, r) \/ Probe(h, r) \/ Before(h, r) \/ Returned(h, r) \/ Propose(h, r)

Answered(h, r) ==
  Answer(h, r) \/ \E seen \in Readings : SubmitValue(h, r, seen) \/ Confirm(h, r, seen)

Next ==
  \/ \E r \in Runs : Start(r) \/ Cancel(r) \/ \E h \in Handlers : Approval(h, r) \/ Answered(h, r)
  \/ \E d \in Intents : Expire(d) \/ \E h \in Handlers : Prepare(h, d) \/ Send(h, d) \/ Executed(h, d)
  \/ \E h \in Handlers : Fail(h)

Spec == Init /\ [][Next]_vars

-----------------------------------------------------------------------------
(* Properties.                                                             *)

\* However often the panel approves, submits or confirms, the intent of one reading of
\* the page is sent once, and so is a page call. An approval that reads another state of
\* the page makes another intent, so a run may still act twice: see OneDispatch.
DispatchedOnce == \A d \in Intents : reached[d] <= 1

\* An action is executed by the answer to its own intent: its slot or token is used up,
\* and the answer to an earlier reading does not release it. A run that is over has
\* neither.
AnsweredAsAsked ==
  /\ \A h \in Handlers, d \in slots \cup tokens :
       ~(On(h, d, "prepare") \/ On(h, d, "send") \/ On(h, d, "flight"))
  /\ \A d \in slots \cup tokens : phase[d[1]] # "TERMINAL"

\* Messages that repeat or interleave send no intent twice, and none unanswered.
MutationSafety == TypeOK /\ DispatchedOnce /\ AnsweredAsAsked

\* Once its request has ended nothing of a run is sent: not after the probe, the
\* authorization or the write of the marker.
NoDispatchAfterAbort ==
  [][\A d \in Intents : d[1] \in aborted => reached'[d] = reached[d]]_vars

\* A page call that was sent, or still will be, does not have a run that failed.
FailedIsUnsent ==
  \A r \in Runs : PageCall(r) /\ outcome[r] = "FAILED" => reached[Unread(r)] = 0

\* The approved action of a run is executed once, whatever its approvals read.
OneDispatch ==
  \A r \in Runs, seen, other \in Readings :
    reached[<<r, seen>>] > 0 /\ reached[<<r, other>>] > 0 => seen = other
=============================================================================
