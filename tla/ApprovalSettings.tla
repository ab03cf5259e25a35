--------------------------- MODULE ApprovalSettings ---------------------------
(***************************************************************************)
(* The approval policy of the extension and what is decided under it:      *)
(* saves of the settings page (preferences-message-handler.ts), updates of *)
(* a provider (core-message-handlers.ts), the save boundary and the grants *)
(* (approval-runtime.ts), consents of requests (source-consent.ts) and the *)
(* analysis of a workflow (workflow-analysis-message-handler.ts).          *)
(*                                                                         *)
(* One category of approval stands for all; a policy is its revision and   *)
(* the decision for that category.  Each await is an interleaving point.   *)
(***************************************************************************)
EXTENDS Naturals, Sequences, FiniteSets

CONSTANTS
  Tabs, None,
  Saves,         \* messages AGENT_PREFERENCES_SAVE
  Provider,      \* the message that changes a provider
  MaxRestarts    \* bound: terminations of the worker

ASSUME ProviderIsFresh == Provider \notin Saves /\ None \notin Saves \cup Tabs
ASSUME BoundsAreFinite == IsFiniteSet(Saves) /\ MaxRestarts \in Nat

VARIABLES
  policy, stored,       \* the policy in memory and in storage.local
  saving, storageFailed,
  queue,                \* saves of the promise chain, the head runs
  save,                 \* state of each save
  update,               \* state of the provider update: beginApprovalUpdate()
  left,                 \* tabs cancelAllRuns() has still to visit
  request,              \* the live request of each tab
  analysis,             \* a workflow analysis
  restarts,
  used                  \* history: the last disclosure

vars == <<policy, stored, saving, storageFailed, queue, save, update, left, request,
          analysis, restarts, used>>
boundary == <<policy, stored, saving, storageFailed, queue, save, update, left>>

Decisions == {"ask", "auto", "deny"}
Revisions == 0 .. Cardinality(Saves)
Policies == [revision : Revisions, decision : Decisions]
Pending == {"queued", "first", "write", "second"}
Actors == Saves \cup {Provider}

TypeOK ==
  /\ {policy, stored} \subseteq Policies /\ {saving, storageFailed} \subseteq BOOLEAN
  /\ save \in [Saves -> [at : Pending \cup {"new", "saved", "refused", "failed", "lost"},
                         expected : Revisions, decision : Decisions]]
  /\ queue \in Seq(Saves) /\ update \in {"new", "first", "change", "second", "over"}
  /\ left \in [Actors -> SUBSET Tabs]
  /\ request \in [Tabs -> [began : Revisions, consent : {"none", "asked", "given"},
                           under : Policies] \cup {None}]
  /\ analysis \in [at : {"idle", "active", "source"}, current : BOOLEAN,
                   user : BOOLEAN, under : Revisions]
  /\ restarts \in 0 .. MaxRestarts

\* assertApprovalAvailable() throws.
Blocked == saving \/ update \in {"first", "change", "second"}
\* Every change of the epoch makes the issued epoch of an analysis stale.
Stale == [analysis EXCEPT !.current = FALSE]
Fresh == [began |-> policy.revision, consent |-> "none", under |-> policy]
Discloses(under) ==
  used' = [under |-> under, inForce |-> policy.revision, blocked |-> Blocked]

-----------------------------------------------------------------------------
(* AGENT_PREFERENCES_SAVE                                                  *)

\* The page saves what it read: the revision of now or of before.
Save(s, expected, decision) ==
  /\ save[s].at = "new" /\ expected <= policy.revision
  /\ save' = [save EXCEPT ![s] = [at |-> "queued", expected |-> expected, decision |-> decision]]
  /\ queue' = Append(queue, s) /\ saving' = TRUE /\ analysis' = Stale
  /\ UNCHANGED <<policy, stored, storageFailed, update, left, request, restarts, used>>

\* Mutant of Turn: a rejected chain never runs the saves behind it.
TurnUntilFailure(s) == queue # <<>> /\ Head(queue) = s /\ ~storageFailed
Turn(s) == queue # <<>> /\ Head(queue) = s

\* Mutant of Opens: the boundary opens although the last save failed.
OpensAlways(s, failed) == \A x \in Saves \ {s} : save[x].at \notin Pending
\* finally(): the last save to end opens the boundary unless a save has failed.
Opens(s, failed) == (\A x \in Saves \ {s} : save[x].at \notin Pending) /\ ~failed

Answered(s, answer, failed) ==
  /\ save' = [save EXCEPT ![s].at = answer] /\ queue' = Tail(queue)
  /\ storageFailed' = failed
  /\ IF Opens(s, failed) THEN saving' = FALSE /\ analysis' = Stale
                         ELSE UNCHANGED <<saving, analysis>>

Conflicts(s) == save[s].expected # policy.revision

Refuse(s) ==
  /\ Turn(s) /\ save[s].at = "queued" /\ Conflicts(s)
  /\ Answered(s, "refused", storageFailed)
  /\ UNCHANGED <<policy, stored, update, left, request, restarts, used>>

SaveRuns(s) ==
  /\ Turn(s) /\ save[s].at = "queued" /\ ~Conflicts(s)
  /\ save' = [save EXCEPT ![s].at = "first"] /\ left' = [left EXCEPT ![s] = Tabs]
  /\ UNCHANGED <<policy, stored, saving, storageFailed, queue, update, request, analysis,
                 restarts, used>>

\* One tab of cancelAllRuns(): its run and its request end, a pending consent with them.
CancelTab(a, t) ==
  /\ t \in left[a] /\ left' = [left EXCEPT ![a] = @ \ {t}]
  /\ request' = [request EXCEPT ![t] = None]
  /\ UNCHANGED <<policy, stored, saving, storageFailed, queue, save, update, analysis,
                 restarts, used>>

SaveCancelled(s) ==
  /\ save[s].at = "first" /\ left[s] = {} /\ save' = [save EXCEPT ![s].at = "write"]
  /\ UNCHANGED <<policy, stored, saving, storageFailed, queue, update, left, request,
                 analysis, restarts, used>>

\* cancelAllRuns() once more.
AfterWrite == Tabs

\* savePreferences(): storage first, then the memory.
SaveWritten(s) ==
  LET next == [revision |-> policy.revision + 1, decision |-> save[s].decision] IN
  /\ save[s].at = "write" /\ stored' = next /\ policy' = next
  /\ save' = [save EXCEPT ![s].at = "second"] /\ left' = [left EXCEPT ![s] = AfterWrite]
  /\ UNCHANGED <<saving, storageFailed, queue, update, request, analysis, restarts, used>>

SaveOk(s) ==
  /\ save[s].at = "second" /\ left[s] = {} /\ Answered(s, "saved", FALSE)
  /\ UNCHANGED <<policy, stored, update, left, request, restarts, used>>

\* A pass or the write is rejected; the rejected write may have reached the storage.
SaveFails(s) ==
  /\ save[s].at \in {"first", "write", "second"} /\ Answered(s, "failed", TRUE)
  /\ left' = [left EXCEPT ![s] = {}]
  /\ stored' \in IF save[s].at = "write"
                 THEN {stored, [revision |-> policy.revision + 1, decision |-> save[s].decision]}
                 ELSE {stored}
  /\ UNCHANGED <<policy, update, request, restarts, used>>

-----------------------------------------------------------------------------
(* PROVIDER_SAVE and the like, and the end of the worker.                  *)

UpdateBegins ==
  /\ update = "new" /\ update' = "first" /\ left' = [left EXCEPT ![Provider] = Tabs]
  /\ analysis' = Stale
  /\ UNCHANGED <<policy, stored, saving, storageFailed, queue, save, request, restarts, used>>

UpdateNext ==
  /\ left[Provider] = {}
  /\ \/ update = "first" /\ update' = "change" /\ UNCHANGED left
     \/ update = "change" /\ update' = "second" /\ left' = [left EXCEPT ![Provider] = Tabs]
     \/ update = "second" /\ update' = "over" /\ UNCHANGED left
  /\ UNCHANGED <<policy, stored, saving, storageFailed, queue, save, request, analysis,
                 restarts, used>>

\* Whatever throws, finish() ends the update.
UpdateFails ==
  /\ update \in {"first", "change", "second"} /\ update' = "over"
  /\ left' = [left EXCEPT ![Provider] = {}]
  /\ UNCHANGED <<policy, stored, saving, storageFailed, queue, save, request, analysis,
                 restarts, used>>

\* A new worker loads the stored policy; nothing of the old one goes on.
Restart ==
  /\ restarts < MaxRestarts /\ restarts' = restarts + 1
  /\ policy' = stored /\ saving' = FALSE /\ storageFailed' = FALSE /\ queue' = <<>>
  /\ save' = [s \in Saves |-> [save[s] EXCEPT !.at = IF @ \in Pending THEN "lost" ELSE @]]
  /\ update' = IF update = "new" THEN "new" ELSE "over"
  /\ left' = [a \in Actors |-> {}] /\ request' = [t \in Tabs |-> None]
  /\ analysis' = [at |-> "idle", current |-> FALSE, user |-> FALSE, under |-> 0]
  /\ UNCHANGED <<stored, used>>

-----------------------------------------------------------------------------
(* Requests and their consents.                                            *)

\* A request is accepted at any time; its steps check the boundary.
Begin(t) ==
  /\ request[t] = None /\ request' = [request EXCEPT ![t] = Fresh]
  /\ UNCHANGED <<boundary, analysis, restarts, used>>

End(t) ==
  /\ request[t] # None /\ request' = [request EXCEPT ![t] = None]
  /\ UNCHANGED <<boundary, analysis, restarts, used>>

\* requestSourceConsent(): "auto" discloses at once, "deny" never.
Ask(t) ==
  /\ request[t] # None /\ request[t].consent = "none" /\ ~Blocked
  /\ \/ policy.decision = "ask" /\ UNCHANGED used
        /\ request' = [request EXCEPT ![t].consent = "asked", ![t].under = policy]
     \/ policy.decision = "auto" /\ Discloses(policy.revision) /\ UNCHANGED request
  /\ UNCHANGED <<boundary, analysis, restarts>>

\* The user allows, within 120 seconds: the grant takes the policy that was asked under.
Allow(t) ==
  /\ request[t] # None /\ request[t].consent = "asked"
  /\ request' = [request EXCEPT ![t].consent = IF Blocked THEN "none" ELSE "given"]
  /\ UNCHANGED <<boundary, analysis, restarts, used>>

\* The user refuses or the timer fires.
Deny(t) ==
  /\ request[t] # None /\ request[t].consent = "asked"
  /\ request' = [request EXCEPT ![t].consent = "none"]
  /\ UNCHANGED <<boundary, analysis, restarts, used>>

\* assertRequestActive() after the await.
Active == ~Blocked

Disclose(t) ==
  /\ request[t] # None /\ request[t].consent = "given"
  /\ IF Active THEN Discloses(request[t].under.revision) /\ request' = [request EXCEPT ![t].consent = "none"]
               ELSE request' = [request EXCEPT ![t] = None] /\ UNCHANGED used
  /\ UNCHANGED <<boundary, analysis, restarts>>

-----------------------------------------------------------------------------
(* WORKFLOW_ANALYZE and WORKFLOW_ANALYSIS_PREVIEW under "auto".            *)

Analyze(user) ==
  /\ analysis.at = "idle" /\ (user \/ (policy.decision = "auto" /\ ~Blocked))
  /\ analysis' = [at |-> "active", current |-> TRUE, user |-> user, under |-> policy.revision]
  /\ UNCHANGED <<boundary, request, restarts, used>>

AnalysisEnds == analysis' = [analysis EXCEPT !.at = "idle"] /\ UNCHANGED used

\* The grant is created and consumed after the active page was read.
Grant ==
  /\ analysis.at = "active"
  /\ IF ~Blocked /\ analysis.current
        /\ policy.decision \in IF analysis.user THEN {"ask", "auto"} ELSE {"auto"}
     THEN analysis' = [analysis EXCEPT !.at = "source"] /\ UNCHANGED used
     ELSE AnalysisEnds
  /\ UNCHANGED <<boundary, request, restarts>>

EpochHolds == analysis.current

\* The source of the page goes to the provider.
Send ==
  /\ analysis.at = "source" /\ analysis' = [analysis EXCEPT !.at = "idle"]
  /\ IF EpochHolds THEN Discloses(analysis.under) ELSE UNCHANGED used
  /\ UNCHANGED <<boundary, request, restarts>>

-----------------------------------------------------------------------------
Init ==
  /\ policy \in {[revision |-> 0, decision |-> d] : d \in Decisions} /\ stored = policy
  /\ saving = FALSE /\ storageFailed = FALSE /\ queue = <<>> /\ update = "new"
  /\ save = [s \in Saves |-> [at |-> "new", expected |-> 0, decision |-> "ask"]]
  /\ left = [a \in Actors |-> {}] /\ request = [t \in Tabs |-> None]
  /\ analysis = [at |-> "idle", current |-> FALSE, user |-> FALSE, under |-> 0]
  /\ restarts = 0 /\ used = None

SaveStep(s) ==
  Refuse(s) \/ SaveRuns(s) \/ SaveCancelled(s) \/ SaveWritten(s) \/ SaveOk(s) \/ SaveFails(s)

Next ==
  \/ \E s \in Saves : SaveStep(s) \/ \E e \in Revisions, d \in Decisions : Save(s, e, d)
  \/ \E a \in Actors, t \in Tabs : CancelTab(a, t)
  \/ UpdateBegins \/ UpdateNext \/ UpdateFails \/ Restart
  \/ \E t \in Tabs : Begin(t) \/ End(t) \/ Ask(t) \/ Allow(t) \/ Deny(t) \/ Disclose(t)
  \/ \E user \in BOOLEAN : Analyze(user)
  \/ Grant \/ Send

Spec == Init /\ [][Next]_vars

\* Calls of the browser come back: a pass, a write and the chain of saves go on.
Fairness ==
  \A s \in Saves : WF_vars(SaveStep(s)) /\ \A t \in Tabs : WF_vars(CancelTab(s, t))
FairSpec == Spec /\ Fairness

-----------------------------------------------------------------------------
(* What is disclosed - the answer of a consent or the source of a page -   *)
(* is disclosed under the policy in force, and never while a save or an    *)
(* update of a provider is under way.                                      *)
DisclosedInForce == used # None => used.under = used.inForce /\ ~used.blocked

(* Once the boundary is open, no request lives that began under an earlier *)
(* policy: whatever began during the two passes of a save was cancelled.   *)
NoOldRequest ==
  ~Blocked => \A t \in Tabs : request[t] # None => request[t].began = policy.revision

(* The policy in force is the stored one, so that a restart changes        *)
(* nothing, except while a save runs or after one whose outcome is unknown, *)
(* when the boundary stays closed.                                         *)
InForceIsStored == ~saving => policy = stored

(* Of two saves of the same revision at most one succeeds.                 *)
NoLostSave ==
  \A s, x \in Saves : save[s].at = "saved" /\ save[x].at = "saved"
                        /\ save[s].expected = save[x].expected => s = x

(* Every save is answered, also after a save before it has failed.         *)
SavesAreAnswered == \A s \in Saves : (save[s].at = "queued") ~> (save[s].at \notin Pending)
=============================================================================
