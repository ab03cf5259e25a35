-------------------------- MODULE MCConversation ---------------------------
(* The conversation of one tab for TLC: the thread of events (ChatThread), *)
(* the panel's request client with the worker's request map (PanelRequest) *)
(* and the actions that are proposed in it (MutationRun). Each has stores  *)
(* and messages of its own: a client is told of a run by its request, and  *)
(* a proposal by its run. So a specification drives one of them, and the   *)
(* others rest.                                                            *)
EXTENDS ChatThread, TLC

CONSTANTS q1, q2, m1, m2, m3, m4, k1, k2, t1, t2, s1, s2,
          Requests, MaxRevision, MaxIncidents, MaxTimeouts,
          Proposals,   \* the runs of MutationRun, one proposal each
          Readings, Handlers, Tab, Kind,
          MaxStarted   \* bound: runs of MutationRun started in a behaviour

VARIABLES client, composer, requests, rows, ends, mail, replies, tally,
          active, phase, outcome, aborted, reserved, pending, slots, tokens, awaiting,
          inFlight, consumed, handler, reached

Client == INSTANCE PanelRequest
            WITH panel <- composer, saved <- rows, past <- tally
Mutations == INSTANCE MutationRun WITH Runs <- Proposals

ASSUME ClientFits == Client!ConstantsFit
ASSUME MutationsFit == Mutations!ConstantsFit

clientVars == <<client, composer, requests, rows, ends, mail, replies, tally>>
mutationVars == <<active, phase, outcome, aborted, reserved, pending, slots, tokens, awaiting,
                  inFlight, consumed, handler, reached>>

everything == <<vars, clientVars, mutationVars>>

AllInit == Init /\ Client!Init /\ Mutations!Init

\* The panel's client with the request map; the rows are saved by the way only while a
\* restart may still read them.
Read == tally.restarts + tally.events < MaxIncidents
PanelNext ==
  /\ Client!Next /\ UNCHANGED <<vars, mutationVars>>
  /\ rows' # rows => mail' # mail \/ Read
PanelSpec == AllInit /\ [][PanelNext]_everything
FairPanelSpec == PanelSpec /\ Client!Fairness

\* The proposed actions.
MutationNext ==
  /\ Mutations!Next /\ UNCHANGED <<vars, clientVars>>
  /\ Cardinality({r \in Proposals : phase'[r] # "new"}) <= MaxStarted
MutationSpec == AllInit /\ [][MutationNext]_everything

-----------------------------------------------------------------------------
(* Instances: proposals of every kind, three on one tab and one on another. *)

TwoTabs == [r \in Proposals |-> IF r = m3 THEN t2 ELSE t1]
MixedKinds ==
  [r \in Proposals |-> CASE r = m1 -> "r2" [] r = m2 -> "api" [] r = m3 -> "text" [] OTHER -> "method"]
RequestSymmetry == Permutations(Requests)
HandlerSymmetry == Permutations(Handlers) \cup Permutations(Readings)

-----------------------------------------------------------------------------
(* Properties.                                                             *)

\* The request client: one request at a time runs in the tab, and the panel shows no
\* other than the one submitted last, however late answers about earlier ones come.
PanelSafety == Client!PanelSafety

\* A panel that waits for a request asks again, and lets go of every request that is
\* over or unknown.
LetsGo == Client!LetsGo

\* What an approval read and reserved is sent to the page at most once, as is a page call,
\* and by the answer to that reading only.
MutationSafety == Mutations!MutationSafety

\* Nothing of a run is sent once its request has ended.
NoDispatchAfterAbort == Mutations!NoDispatchAfterAbort

-----------------------------------------------------------------------------
(* What the configurations kept beside the project's runs refute.          *)

\* A page call that was sent does not have a run that failed.
FailedIsUnsent == Mutations!FailedIsUnsent

\* The action that was approved is executed once, also when the page has changed between
\* two approvals.
OneDispatch == Mutations!OneDispatch

\* A client that lets go of a request that is over has told the panel.
EndIsTold == Client!EndIsTold

\* A review result that a request has gained is delivered, or the client still asks for it.
ReviewReaches == Client!ReviewReaches

\* A stopped request that is over gives the composer back.
StoppedIsFreed == Client!StoppedIsFreed
=============================================================================
