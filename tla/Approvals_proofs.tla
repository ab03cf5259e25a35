--------------------------- MODULE Approvals_proofs ---------------------------
(***************************************************************************)
(* Proofs about the two stored policies of the extension: the approval     *)
(* policy (ApprovalSettings), for every set of saves and tabs, and the     *)
(* permissions (PermissionGrants), for every set of keys, sessions and     *)
(* tabs and every number of decisions and restarts.                        *)
(***************************************************************************)
EXTENDS MCApprovals, FiniteSetTheorems, TLAPS

-----------------------------------------------------------------------------
(* The approval policy: the inductive invariant.                           *)

Runs(s) == save[s].at \in {"first", "write", "second"}

\* One save runs, the head of the queue, and whoever waits keeps the boundary closed.
OneRuns ==
  /\ \A s \in Saves : Runs(s) => queue # <<>> /\ Head(queue) = s
  /\ \A s \in Saves : save[s].at \in Pending => saving
  /\ storageFailed => saving

\* A write changes the memory and the storage, one that failed perhaps the storage alone,
\* and no revision is given twice.
Wrote(s) == save[s].at \in {"second", "saved"}
Over == {s \in Saves : save[s].at \in {"second", "saved", "failed", "lost"}}
RevisionsCount ==
  /\ policy # stored => storageFailed
  /\ policy.revision <= stored.revision /\ stored.revision <= Cardinality(Over)
  /\ \A s \in Saves :
       /\ save[s].at \in {"first", "write"} => save[s].expected = policy.revision
       /\ Wrote(s) => save[s].expected < policy.revision
       /\ save[s].at = "second" => policy = stored
       /\ \A x \in Saves : Wrote(s) /\ Wrote(x) /\ save[s].expected = save[x].expected => s = x

\* A request is of the policy in force, or a save that has written is about to cancel it,
\* or one has failed and the boundary is closed until one succeeds.
Follows(t) ==
  request[t] # None =>
    /\ request[t].began = policy.revision
    /\ request[t].consent \in {"asked", "given"} => request[t].under.revision = policy.revision
RequestsFollow ==
  \/ \E s \in Saves : save[s].at = "second" /\ \A t \in Tabs \ left[s] : Follows(t)
  \/ storageFailed /\ \A s \in Saves : save[s].at # "second"
  \/ \A t \in Tabs : Follows(t)

\* The epoch an analysis was given is current while the policy is that of its start.
AnalysisFollows ==
  analysis.current =>
    /\ analysis.at = "active" /\ ~saving => analysis.under = policy.revision
    /\ analysis.at = "source" => ~Blocked /\ analysis.under = policy.revision

PolicyInv ==
  /\ TypeOK /\ OneRuns /\ RevisionsCount /\ RequestsFollow /\ AnalysisFollows
  /\ DisclosedInForce

-----------------------------------------------------------------------------
(* Types and revisions.                                                    *)

SaveStates == [at : Pending \cup {"new", "saved", "refused", "failed", "lost"},
               expected : Revisions, decision : Decisions]
RequestStates == [began : Revisions, consent : {"none", "asked", "given"}, under : Policies]
AnalysisStates == [at : {"idle", "active", "source"}, current : BOOLEAN, user : BOOLEAN,
                   under : Revisions]

LEMMA Typed ==
  TypeOK <=> /\ policy \in Policies /\ stored \in Policies
             /\ saving \in BOOLEAN /\ storageFailed \in BOOLEAN
             /\ save \in [Saves -> SaveStates] /\ queue \in Seq(Saves)
             /\ update \in {"new", "first", "change", "second", "over"}
             /\ left \in [Actors -> SUBSET Tabs]
             /\ request \in [Tabs -> RequestStates \cup {None}]
             /\ analysis \in AnalysisStates /\ restarts \in 0 .. MaxRestarts
BY DEF TypeOK, SaveStates, RequestStates, AnalysisStates

LEMMA CountIsNat == Cardinality(Saves) \in Nat /\ Revisions \subseteq Nat /\ 0 \in Revisions
BY BoundsAreFinite, FS_CardinalityType DEF Revisions

LEMMA OverFinite ==
  /\ IsFiniteSet(Over) /\ Cardinality(Over) \in Nat /\ Cardinality(Over) <= Cardinality(Saves)
BY BoundsAreFinite, FS_Subset, FS_CardinalityType DEF Over

LEMMA OverFinitePrime ==
  /\ IsFiniteSet(Over') /\ Cardinality(Over') \in Nat /\ Cardinality(Over') <= Cardinality(Saves)
BY BoundsAreFinite, FS_Subset, FS_CardinalityType DEF Over

\* More saves are over.
LEMMA OverMore ==
  ASSUME Over \subseteq Over' PROVE Cardinality(Over) <= Cardinality(Over')
BY OverFinitePrime, FS_Subset

LEMMA SaveMoved ==
  ASSUME save \in [Saves -> SaveStates], NEW s \in Saves,
         NEW place \in Pending \cup {"new", "saved", "refused", "failed", "lost"},
         save' = [save EXCEPT ![s].at = place]
  PROVE  /\ save' \in [Saves -> SaveStates] /\ save'[s].at = place
         /\ save'[s].expected = save[s].expected /\ save'[s].decision = save[s].decision
         /\ \A x \in Saves \ {s} : save'[x] = save[x]
<1> DEFINE next == [save[s] EXCEPT !.at = place]
<1>1. save' = [save EXCEPT ![s] = next]
  OBVIOUS
<1>2. /\ next \in SaveStates /\ next.at = place
      /\ next.expected = save[s].expected /\ next.decision = save[s].decision
  BY DEF SaveStates
<1> HIDE DEF next
<1> QED BY <1>1, <1>2

\* The next revision is one of them, because the save that writes it was not over.
LEMMA NextRevision ==
  ASSUME PolicyInv, NEW s \in Saves, save[s].at = "write",
         NEW place \in {"second", "failed"}, save' = [save EXCEPT ![s].at = place]
  PROVE  /\ policy.revision \in Nat /\ stored.revision \in Nat
         /\ policy.revision + 1 \in Revisions /\ policy.revision + 1 <= Cardinality(Over')
         /\ stored.revision <= Cardinality(Over') /\ Over' = Over \cup {s}
<1>1. save \in [Saves -> SaveStates] /\ policy \in Policies /\ stored \in Policies
  BY Typed DEF PolicyInv
<1>2. policy.revision \in Nat /\ stored.revision \in Nat
  BY <1>1, CountIsNat DEF Policies
<1>3. /\ policy.revision <= stored.revision /\ stored.revision <= Cardinality(Over)
  BY DEF PolicyInv, RevisionsCount
<1>4. save'[s].at = place /\ \A x \in Saves \ {s} : save'[x] = save[x]
  BY <1>1, SaveMoved DEF Pending
<1>5. Over' = Over \cup {s} /\ s \notin Over
  BY <1>4 DEF Over
<1>6. Cardinality(Over') = Cardinality(Over) + 1
  BY <1>5, OverFinite, FS_AddElement
<1> QED BY <1>2, <1>3, <1>5, <1>6, OverFinite, OverFinitePrime, CountIsNat DEF Revisions

\* What a step that leaves the saves and the policies alone keeps.
LEMMA SavesRest ==
  ASSUME PolicyInv, UNCHANGED <<policy, stored, saving, storageFailed, queue, save>>
  PROVE  OneRuns' /\ RevisionsCount'
BY DEF PolicyInv, OneRuns, Runs, RevisionsCount, Wrote, Over

-----------------------------------------------------------------------------
(* Requests, analyses and updates.                                         *)

\* A step of a request, which discloses under the policy in force or nothing.
LEMMA RequestStep ==
  ASSUME PolicyInv, NEW t \in Tabs, UNCHANGED <<boundary, analysis, restarts>>,
         NEW next \in RequestStates \cup {None}, request' = [request EXCEPT ![t] = next],
         Follows(t) => Follows(t)', DisclosedInForce'
  PROVE  PolicyInv'
<1>1. UNCHANGED <<policy, stored, saving, storageFailed, queue, save, update, left>>
  BY DEF boundary
<1>2. TypeOK'
  BY <1>1, Typed DEF PolicyInv, TypeOK, RequestStates
<1>3. OneRuns' /\ RevisionsCount'
  BY <1>1, SavesRest
<1>4. \A x \in Tabs : Follows(x) => Follows(x)'
  BY <1>1, Typed DEF PolicyInv, Follows
<1>5. RequestsFollow'
  BY <1>1, <1>4 DEF PolicyInv, RequestsFollow
<1>6. AnalysisFollows'
  BY <1>1 DEF PolicyInv, AnalysisFollows, Blocked
<1> QED BY <1>2, <1>3, <1>5, <1>6 DEF PolicyInv

\* What is disclosed under the policy in force behind an open boundary.
LEMMA Disclosed ==
  ASSUME NEW under, ~Blocked, Discloses(under), under = policy.revision
  PROVE  DisclosedInForce'
<1>1. used'.under = under /\ used'.inForce = policy.revision
  BY DEF Discloses
<1>2. used'.blocked = Blocked
  BY Zenon DEF Discloses
<1>3. ~used'.blocked
  BY <1>2, Zenon
<1> QED BY <1>1, <1>3 DEF DisclosedInForce

\* While the boundary is open every request is of the policy in force.
LEMMA OpenFollows ==
  ASSUME PolicyInv, ~Blocked PROVE \A t \in Tabs : Follows(t)
BY DEF PolicyInv, Blocked, RequestsFollow, OneRuns, Pending

LEMMA RequestSteps ==
  ASSUME PolicyInv, NEW t \in Tabs,
         Begin(t) \/ End(t) \/ Ask(t) \/ Allow(t) \/ Deny(t) \/ Disclose(t)
  PROVE  PolicyInv'
<1>1. request \in [Tabs -> RequestStates \cup {None}] /\ policy \in Policies
  BY Typed DEF PolicyInv
<1>2. UNCHANGED <<boundary, analysis, restarts>> /\ policy' = policy
  BY DEF Begin, End, Ask, Allow, Deny, Disclose, boundary
<1>3. used' = used => DisclosedInForce'
  BY DEF PolicyInv, DisclosedInForce
<1>4. CASE Begin(t)
  <2>1. Fresh \in RequestStates /\ Fresh.began = policy.revision /\ Fresh.consent = "none"
    BY <1>1 DEF Fresh, RequestStates, Policies
  <2>2. request' = [request EXCEPT ![t] = Fresh] /\ used' = used
    BY <1>4 DEF Begin
  <2>3. Follows(t)'
    BY <1>1, <1>2, <2>1, <2>2 DEF Follows
  <2> QED BY <1>2, <1>3, <2>1, <2>2, <2>3, RequestStep
<1>5. CASE End(t)
  <2>1. request' = [request EXCEPT ![t] = None] /\ used' = used
    BY <1>5 DEF End
  <2>2. Follows(t)'
    BY <1>1, <2>1 DEF Follows
  <2> QED BY <1>2, <1>3, <2>1, <2>2, RequestStep
<1>6. CASE Ask(t)
  <2>1. request[t] # None /\ ~Blocked
    BY <1>6 DEF Ask
  <2>2. CASE UNCHANGED used /\ request' = [request EXCEPT ![t].consent = "asked", ![t].under = policy]
    <3> DEFINE next == [request[t] EXCEPT !.consent = "asked", !.under = policy]
    <3>1. next \in RequestStates /\ next.began = request[t].began /\ next.under = policy
      BY <1>1, <2>1 DEF RequestStates
    <3>2. request' = [request EXCEPT ![t] = next]
      BY <2>2
    <3> HIDE DEF next
    <3>3. Follows(t) => Follows(t)'
      BY <1>1, <1>2, <2>1, <3>1, <3>2 DEF Follows
    <3> QED BY <1>2, <1>3, <2>2, <3>1, <3>2, <3>3, RequestStep
  <2>3. CASE Discloses(policy.revision) /\ UNCHANGED request
    <3>1. DisclosedInForce'
      BY <2>1, <2>3, Disclosed
    <3>2. request' = [request EXCEPT ![t] = request[t]] /\ request[t] \in RequestStates \cup {None}
      BY <1>1, <2>3
    <3>3. Follows(t) => Follows(t)'
      BY <1>2, <2>3 DEF Follows
    <3> QED BY <1>2, <3>1, <3>2, <3>3, RequestStep
  <2> QED BY <1>6, <2>2, <2>3 DEF Ask
<1>7. CASE Allow(t) \/ Deny(t)
  <2>1. PICK consent \in {"none", "given"} : request' = [request EXCEPT ![t].consent = consent]
    BY <1>7 DEF Allow, Deny
  <2>2. request[t] # None /\ request[t].consent = "asked" /\ used' = used
    BY <1>7 DEF Allow, Deny
  <2> DEFINE next == [request[t] EXCEPT !.consent = consent]
  <2>3. next \in RequestStates /\ next.began = request[t].began /\ next.under = request[t].under
    BY <1>1, <2>2 DEF RequestStates
  <2>4. request' = [request EXCEPT ![t] = next]
    BY <2>1
  <2> HIDE DEF next
  <2>5. Follows(t) => Follows(t)'
    BY <1>1, <1>2, <2>2, <2>3, <2>4 DEF Follows
  <2> QED BY <1>2, <1>3, <2>2, <2>3, <2>4, <2>5, RequestStep
<1>8. CASE Disclose(t)
  <2>1. request[t] # None /\ request[t].consent = "given"
    BY <1>8 DEF Disclose
  <2>2. CASE ~Blocked
    <3>1. Discloses(request[t].under.revision) /\ request' = [request EXCEPT ![t].consent = "none"]
      BY <1>8, <2>2 DEF Disclose, Active
    <3>2. request[t].under.revision = policy.revision
      BY <2>1, <2>2, OpenFollows DEF Follows
    <3>3. DisclosedInForce'
      BY <2>2, <3>1, <3>2, Disclosed
    <3> DEFINE next == [request[t] EXCEPT !.consent = "none"]
    <3>4. next \in RequestStates /\ next.began = request[t].began /\ next.consent = "none"
      BY <1>1, <2>1 DEF RequestStates
    <3>5. request' = [request EXCEPT ![t] = next]
      BY <3>1
    <3> HIDE DEF next
    <3>6. Follows(t) => Follows(t)'
      BY <1>1, <1>2, <2>1, <3>4, <3>5 DEF Follows
    <3> QED BY <1>2, <3>3, <3>4, <3>5, <3>6, RequestStep
  <2>3. CASE Blocked
    <3>1. request' = [request EXCEPT ![t] = None] /\ used' = used
      BY <1>8, <2>3 DEF Disclose, Active
    <3>2. Follows(t)'
      BY <1>1, <3>1 DEF Follows
    <3> QED BY <1>2, <1>3, <3>1, <3>2, RequestStep
  <2> QED BY <2>2, <2>3
<1> QED BY <1>4, <1>5, <1>6, <1>7, <1>8

\* A step of the analysis.
LEMMA AnalysisStep ==
  ASSUME PolicyInv, UNCHANGED <<boundary, request, restarts>>, analysis' \in AnalysisStates,
         AnalysisFollows', DisclosedInForce'
  PROVE  PolicyInv'
<1>1. UNCHANGED <<policy, stored, saving, storageFailed, queue, save, update, left>>
  BY DEF boundary
<1>2. TypeOK'
  BY <1>1, Typed DEF PolicyInv, TypeOK, AnalysisStates
<1>3. OneRuns' /\ RevisionsCount'
  BY <1>1, SavesRest
<1>4. RequestsFollow'
  BY <1>1 DEF PolicyInv, RequestsFollow, Follows
<1> QED BY <1>2, <1>3, <1>4 DEF PolicyInv

LEMMA AnalysisSteps ==
  ASSUME PolicyInv, (\E user \in BOOLEAN : Analyze(user)) \/ Grant \/ Send PROVE PolicyInv'
<1>1. policy \in Policies /\ policy.revision \in Revisions /\ analysis \in AnalysisStates
  BY Typed DEF PolicyInv, Policies
<1>2. UNCHANGED <<boundary, request, restarts>>
  BY DEF Analyze, Grant, Send
<1>3. UNCHANGED <<policy, saving, update>> /\ Blocked' = Blocked
  BY <1>2 DEF boundary, Blocked
<1>4. used' = used => DisclosedInForce'
  BY DEF PolicyInv, DisclosedInForce
<1>5. ASSUME NEW user \in BOOLEAN, Analyze(user) PROVE PolicyInv'
  <2>1. /\ used' = used
        /\ analysis' = [at |-> "active", current |-> TRUE, user |-> user, under |-> policy.revision]
    BY <1>5 DEF Analyze
  <2>2. analysis' \in AnalysisStates
    BY <1>1, <2>1 DEF AnalysisStates
  <2>3. analysis'.at = "active" /\ analysis'.under = policy.revision
    BY <2>1
  <2>4. AnalysisFollows'
    BY <1>3, <2>3 DEF AnalysisFollows
  <2> QED BY <1>2, <1>4, <2>1, <2>2, <2>4, AnalysisStep
<1>6. ASSUME NEW place \in {"idle", "source"}, analysis' = [analysis EXCEPT !.at = place],
             place = "source" => ~Blocked /\ analysis.current /\ analysis.at = "active"
      PROVE  analysis' \in AnalysisStates /\ AnalysisFollows'
  <2>1. /\ analysis' \in AnalysisStates /\ analysis'.at = place
        /\ analysis'.under = analysis.under
    BY <1>1, <1>6 DEF AnalysisStates
  <2>2. place = "source" => ~saving
    BY <1>6 DEF Blocked
  <2>3. place = "source" => analysis.under = policy.revision
    BY <1>6, <2>2 DEF PolicyInv, AnalysisFollows
  <2>4. AnalysisFollows'
    BY <1>3, <1>6, <2>1, <2>3 DEF AnalysisFollows
  <2> QED BY <2>1, <2>4
<1>7. CASE Grant
  <2>1. CASE analysis' = [analysis EXCEPT !.at = "source"] /\ used' = used /\ ~Blocked /\ analysis.current
    BY <1>2, <1>4, <1>6, <1>7, <2>1, AnalysisStep DEF Grant
  <2>2. CASE analysis' = [analysis EXCEPT !.at = "idle"] /\ used' = used
    BY <1>2, <1>4, <1>6, <2>2, AnalysisStep
  <2> QED BY <1>7, <2>1, <2>2 DEF Grant, AnalysisEnds
<1>8. CASE Send
  <2>1. analysis.at = "source" /\ analysis' = [analysis EXCEPT !.at = "idle"]
    BY <1>8 DEF Send
  <2>2. CASE analysis.current
    <3>1. Discloses(analysis.under)
      BY <1>8, <2>2 DEF Send, EpochHolds
    <3>2. ~Blocked /\ analysis.under = policy.revision
      BY <2>1, <2>2 DEF PolicyInv, AnalysisFollows
    <3> QED BY <1>2, <1>6, <2>1, <3>1, <3>2, Disclosed, AnalysisStep
  <2>3. CASE ~analysis.current
    <3>1. used' = used
      BY <1>8, <2>3 DEF Send, EpochHolds
    <3> QED BY <1>2, <1>4, <1>6, <2>1, <3>1, AnalysisStep
  <2> QED BY <2>2, <2>3
<1> QED BY <1>5, <1>7, <1>8

LEMMA StaleFollows ==
  ASSUME PolicyInv, analysis' = Stale PROVE analysis' \in AnalysisStates /\ AnalysisFollows'
<1>1. analysis \in AnalysisStates
  BY Typed DEF PolicyInv
<1>2. analysis' \in AnalysisStates /\ analysis'.current = FALSE
  BY <1>1 DEF Stale, AnalysisStates
<1>3. ~analysis'.current
  BY <1>2, Zenon
<1>4. AnalysisFollows'
  BY <1>3, Zenon DEF AnalysisFollows
<1> QED BY <1>2, <1>4

\* The provider's update neither runs a save nor changes the policy.
LEMMA UpdateSteps ==
  ASSUME PolicyInv, UpdateBegins \/ UpdateNext \/ UpdateFails PROVE PolicyInv'
<1>1. /\ UNCHANGED <<policy, stored, saving, storageFailed, queue, save, request, restarts, used>>
      /\ update \in {"new", "first", "change", "second"}
      /\ update' \in {"first", "change", "second", "over"}
  BY DEF UpdateBegins, UpdateNext, UpdateFails
<1>2. Provider \in Actors /\ Provider \notin Saves /\ Saves \subseteq Actors
  BY ProviderIsFresh DEF Actors
<1>3. left \in [Actors -> SUBSET Tabs] /\ analysis \in AnalysisStates
  BY Typed DEF PolicyInv
<1>4. PICK tabs \in SUBSET Tabs : left' = [left EXCEPT ![Provider] = tabs]
  <2>1. left = [left EXCEPT ![Provider] = left[Provider]] /\ left[Provider] \in SUBSET Tabs
    BY <1>2, <1>3
  <2>2. \/ left' = [left EXCEPT ![Provider] = Tabs] \/ left' = left
        \/ left' = [left EXCEPT ![Provider] = {}]
    BY DEF UpdateBegins, UpdateNext, UpdateFails
  <2> QED BY <2>1, <2>2
<1>5. left' \in [Actors -> SUBSET Tabs] /\ \A s \in Saves : left'[s] = left[s]
  BY <1>2, <1>3, <1>4
<1>6. OneRuns' /\ RevisionsCount'
  BY <1>1, SavesRest
<1>7. RequestsFollow'
  BY <1>1, <1>5 DEF PolicyInv, RequestsFollow, Follows
<1>8. analysis' \in AnalysisStates /\ AnalysisFollows'
  <2>1. CASE UpdateBegins
    BY <2>1, StaleFollows DEF UpdateBegins
  <2>2. CASE UpdateNext \/ UpdateFails
    <3>1. analysis' = analysis /\ Blocked
      BY <2>2 DEF UpdateNext, UpdateFails, Blocked
    <3> QED BY <1>1, <1>3, <3>1 DEF PolicyInv, AnalysisFollows
  <2> QED BY <2>1, <2>2
<1>9. TypeOK'
  BY <1>1, <1>5, <1>8, Typed DEF PolicyInv, TypeOK, AnalysisStates
<1>10. DisclosedInForce'
  BY <1>1 DEF PolicyInv, DisclosedInForce
<1> QED BY <1>6, <1>7, <1>8, <1>9, <1>10 DEF PolicyInv

\* A tab is visited: its request ends.
LEMMA CancelTabStep ==
  ASSUME PolicyInv, NEW a \in Actors, NEW t \in Tabs, CancelTab(a, t) PROVE PolicyInv'
<1>1. /\ left' = [left EXCEPT ![a] = left[a] \ {t}] /\ request' = [request EXCEPT ![t] = None]
      /\ UNCHANGED <<policy, stored, saving, storageFailed, queue, save, update, analysis,
                     restarts, used>>
  BY DEF CancelTab
<1>2. left \in [Actors -> SUBSET Tabs] /\ request \in [Tabs -> RequestStates \cup {None}]
  BY Typed DEF PolicyInv
<1>3. left' \in [Actors -> SUBSET Tabs] /\ request' \in [Tabs -> RequestStates \cup {None}]
  BY <1>1, <1>2
<1>4. TypeOK'
  BY <1>1, <1>3, Typed DEF PolicyInv, TypeOK, RequestStates
<1>5. OneRuns' /\ RevisionsCount'
  BY <1>1, SavesRest
<1>6. Follows(t)' /\ \A x \in Tabs : Follows(x) => Follows(x)'
  BY <1>1, <1>2 DEF Follows
<1>7. RequestsFollow'
  <2>1. CASE \E s \in Saves : save[s].at = "second" /\ \A x \in Tabs \ left[s] : Follows(x)
    <3>1. PICK s \in Saves : save[s].at = "second" /\ \A x \in Tabs \ left[s] : Follows(x)
      BY <2>1
    <3>2. \A x \in Tabs : x \notin left'[s] => x = t \/ x \notin left[s]
      BY <1>1, <1>2 DEF Actors
    <3>3. \A x \in Tabs \ left'[s] : Follows(x)'
      BY <1>6, <3>1, <3>2
    <3> QED BY <1>1, <3>1, <3>3 DEF RequestsFollow
  <2>2. CASE storageFailed /\ \A s \in Saves : save[s].at # "second"
    BY <1>1, <2>2 DEF RequestsFollow
  <2>3. CASE \A x \in Tabs : Follows(x)
    BY <1>6, <2>3 DEF RequestsFollow
  <2> QED BY <2>1, <2>2, <2>3 DEF PolicyInv, RequestsFollow
<1>8. AnalysisFollows' /\ DisclosedInForce'
  BY <1>1 DEF PolicyInv, AnalysisFollows, Blocked, DisclosedInForce
<1> QED BY <1>4, <1>5, <1>7, <1>8 DEF PolicyInv

-----------------------------------------------------------------------------
(* The saves.                                                              *)

LEMMA SaveStep0 ==
  ASSUME PolicyInv, NEW s \in Saves, NEW expected \in Revisions, NEW decision \in Decisions,
         Save(s, expected, decision)
  PROVE  PolicyInv'
<1> DEFINE next == [at |-> "queued", expected |-> expected, decision |-> decision]
<1>1. /\ save[s].at = "new" /\ save' = [save EXCEPT ![s] = next]
      /\ queue' = Append(queue, s) /\ saving' = TRUE /\ analysis' = Stale
      /\ UNCHANGED <<policy, stored, storageFailed, update, left, request, restarts, used>>
  BY DEF Save
<1>2. save \in [Saves -> SaveStates] /\ queue \in Seq(Saves)
  BY Typed DEF PolicyInv
<1>3. next \in SaveStates /\ next.at = "queued"
  BY DEF SaveStates, Pending
<1> HIDE DEF next
<1>4. /\ save' \in [Saves -> SaveStates] /\ save'[s].at = "queued"
      /\ \A x \in Saves \ {s} : save'[x] = save[x]
  BY <1>1, <1>2, <1>3
<1>5. /\ queue' \in Seq(Saves) /\ queue' # <<>>
      /\ queue # <<>> => Head(queue') = Head(queue)
  BY <1>1, <1>2
<1>6. analysis' \in AnalysisStates /\ AnalysisFollows'
  BY <1>1, StaleFollows
<1>7. TypeOK'
  BY <1>1, <1>4, <1>5, <1>6, Typed DEF PolicyInv, TypeOK, SaveStates, AnalysisStates
<1>8. OneRuns'
  <2>1. ASSUME NEW x \in Saves, Runs(x)' PROVE queue' # <<>> /\ Head(queue') = x
    <3>1. Runs(x)
      BY <1>4, <2>1 DEF Runs
    <3> QED BY <1>5, <3>1 DEF PolicyInv, OneRuns
  <2> QED BY <1>1, <2>1 DEF OneRuns
<1>9. Over' = Over
  BY <1>1, <1>4 DEF Over
<1>10. RevisionsCount'
  <2>1. \A x \in Saves : Wrote(x)' => Wrote(x) /\ save'[x] = save[x]
    BY <1>4 DEF Wrote
  <2> QED BY <1>1, <1>4, <1>9, <2>1 DEF PolicyInv, RevisionsCount
<1>11. RequestsFollow'
  <2>1. \A x \in Saves : (save'[x].at = "second") <=> (save[x].at = "second")
    BY <1>1, <1>4
  <2> QED BY <1>1, <2>1 DEF PolicyInv, RequestsFollow, Follows
<1>12. DisclosedInForce'
  BY <1>1 DEF PolicyInv, DisclosedInForce
<1> QED BY <1>6, <1>7, <1>8, <1>10, <1>11, <1>12 DEF PolicyInv

\* No other save runs while one has its turn.
LEMMA OthersWait ==
  ASSUME PolicyInv, NEW s \in Saves, Turn(s) \/ Runs(s)
  PROVE  /\ queue # <<>> /\ Head(queue) = s
         /\ \A x \in Saves \ {s} : ~Runs(x)
BY DEF PolicyInv, OneRuns, Turn

\* A save goes on, with the boundary closed.
LEMMA GoesOn ==
  ASSUME PolicyInv, NEW s \in Saves, Turn(s) \/ Runs(s), save[s].at \in Pending,
         NEW place \in {"first", "write", "second"}, save' = [save EXCEPT ![s].at = place],
         policy' \in Policies, stored' \in Policies, left' \in [Actors -> SUBSET Tabs],
         UNCHANGED <<saving, storageFailed, queue, update, request, analysis, restarts, used>>,
         RevisionsCount', RequestsFollow'
  PROVE  PolicyInv'
<1>1. save \in [Saves -> SaveStates]
  BY Typed DEF PolicyInv
<1>2. /\ save' \in [Saves -> SaveStates] /\ save'[s].at = place
      /\ \A x \in Saves \ {s} : save'[x] = save[x]
  BY <1>1, SaveMoved DEF Pending
<1>3. TypeOK'
  BY <1>2, Typed DEF PolicyInv, TypeOK, SaveStates
<1>4. OneRuns'
  <2>1. ASSUME NEW x \in Saves, Runs(x)' PROVE queue' # <<>> /\ Head(queue') = x
    BY <1>2, <2>1, OthersWait DEF Runs
  <2>2. saving
    BY DEF PolicyInv, OneRuns
  <2> QED BY <2>1, <2>2 DEF OneRuns
<1>5. saving
  BY DEF PolicyInv, OneRuns
<1>6. AnalysisFollows'
  BY <1>5 DEF PolicyInv, AnalysisFollows, Blocked
<1>7. DisclosedInForce'
  BY DEF PolicyInv, DisclosedInForce
<1> QED BY <1>3, <1>4, <1>6, <1>7 DEF PolicyInv

LEMMA SaveRunsStep == ASSUME PolicyInv, NEW s \in Saves, SaveRuns(s) PROVE PolicyInv'
<1>1. /\ Turn(s) /\ save[s].at = "queued" /\ save[s].expected = policy.revision
      /\ save' = [save EXCEPT ![s].at = "first"] /\ left' = [left EXCEPT ![s] = Tabs]
      /\ UNCHANGED <<policy, stored, saving, storageFailed, queue, update, request, analysis,
                     restarts, used>>
  BY DEF SaveRuns, Conflicts
<1>2. /\ save \in [Saves -> SaveStates] /\ left \in [Actors -> SUBSET Tabs]
      /\ policy \in Policies /\ stored \in Policies
  BY Typed DEF PolicyInv
<1>3. /\ save'[s].at = "first" /\ save'[s].expected = save[s].expected
      /\ \A x \in Saves \ {s} : save'[x] = save[x]
  BY <1>1, <1>2, SaveMoved DEF Pending
<1>4. left' \in [Actors -> SUBSET Tabs]
  BY <1>1, <1>2
<1>5. Over' = Over
  BY <1>1, <1>3 DEF Over
<1>6. RevisionsCount'
  <2>1. \A x \in Saves : Wrote(x)' => Wrote(x) /\ save'[x] = save[x]
    BY <1>3 DEF Wrote
  <2> QED BY <1>1, <1>3, <1>5, <2>1 DEF PolicyInv, RevisionsCount
<1>7. RequestsFollow'
  <2>1. \A x \in Saves : save[x].at # "second" /\ save'[x].at # "second"
    BY <1>1, <1>3, OthersWait DEF Runs
  <2> QED BY <1>1, <2>1 DEF PolicyInv, RequestsFollow, Follows
<1> QED BY <1>1, <1>2, <1>4, <1>6, <1>7, GoesOn DEF Pending

LEMMA SaveCancelledStep == ASSUME PolicyInv, NEW s \in Saves, SaveCancelled(s) PROVE PolicyInv'
<1>1. /\ save[s].at = "first" /\ save' = [save EXCEPT ![s].at = "write"]
      /\ UNCHANGED <<policy, stored, saving, storageFailed, queue, update, left, request,
                     analysis, restarts, used>>
  BY DEF SaveCancelled
<1>2. /\ save \in [Saves -> SaveStates] /\ left \in [Actors -> SUBSET Tabs]
      /\ policy \in Policies /\ stored \in Policies
  BY Typed DEF PolicyInv
<1>3. /\ save'[s].at = "write" /\ save'[s].expected = save[s].expected
      /\ \A x \in Saves \ {s} : save'[x] = save[x]
  BY <1>1, <1>2, SaveMoved DEF Pending
<1>4. Over' = Over
  BY <1>1, <1>3 DEF Over
<1>5. RevisionsCount'
  <2>1. \A x \in Saves : Wrote(x)' => Wrote(x) /\ save'[x] = save[x]
    BY <1>3 DEF Wrote
  <2> QED BY <1>1, <1>3, <1>4, <2>1 DEF PolicyInv, RevisionsCount
<1>6. Runs(s)
  BY <1>1 DEF Runs
<1>7. RequestsFollow'
  <2>1. \A x \in Saves : save[x].at # "second" /\ save'[x].at # "second"
    BY <1>1, <1>3, <1>6, OthersWait DEF Runs
  <2> QED BY <1>1, <2>1 DEF PolicyInv, RequestsFollow, Follows
<1> QED BY <1>1, <1>2, <1>5, <1>6, <1>7, GoesOn DEF Pending

LEMMA SaveWrittenStep == ASSUME PolicyInv, NEW s \in Saves, SaveWritten(s) PROVE PolicyInv'
<1> DEFINE next == [revision |-> policy.revision + 1, decision |-> save[s].decision]
<1>1. /\ save[s].at = "write" /\ save' = [save EXCEPT ![s].at = "second"]
      /\ stored' = next /\ policy' = next /\ left' = [left EXCEPT ![s] = Tabs]
      /\ UNCHANGED <<saving, storageFailed, queue, update, request, analysis, restarts, used>>
  BY DEF SaveWritten, AfterWrite
<1>2. save \in [Saves -> SaveStates] /\ left \in [Actors -> SUBSET Tabs]
  BY Typed DEF PolicyInv
<1>3. /\ save'[s].at = "second" /\ save'[s].expected = save[s].expected
      /\ \A x \in Saves \ {s} : save'[x] = save[x]
  BY <1>1, <1>2, SaveMoved DEF Pending
<1>4. /\ policy.revision \in Nat /\ policy.revision + 1 \in Revisions
      /\ policy.revision + 1 <= Cardinality(Over')
  BY <1>1, NextRevision
<1>5. next \in Policies /\ next.revision = policy.revision + 1
  BY <1>2, <1>4 DEF Policies, SaveStates
<1> HIDE DEF next
<1>6. left' \in [Actors -> SUBSET Tabs] /\ left'[s] = Tabs
  BY <1>1, <1>2 DEF Actors
<1>7. Runs(s) /\ \A x \in Saves \ {s} : ~Runs(x)
  BY <1>1, OthersWait DEF Runs
<1>8. RevisionsCount'
  <2>1. save[s].expected = policy.revision
    BY <1>1 DEF PolicyInv, RevisionsCount
  <2>2. \A x \in Saves \ {s} : Wrote(x)' =>
          Wrote(x) /\ save'[x].expected = save[x].expected /\ save[x].expected < policy.revision
    BY <1>3 DEF Wrote, PolicyInv, RevisionsCount
  <2>3. \A x \in Saves : save'[x].expected \in Nat
    BY <1>2, <1>3, CountIsNat DEF SaveStates
  <2>4. \A x \in Saves : Wrote(x)' => save'[x].expected < policy'.revision
    BY <1>1, <1>3, <1>4, <1>5, <2>1, <2>2, <2>3
  <2>5. \A x, y \in Saves : Wrote(x)' /\ Wrote(y)' /\ save'[x].expected = save'[y].expected => x = y
    <3>1. \A x, y \in Saves : Wrote(x) /\ Wrote(y) /\ save[x].expected = save[y].expected => x = y
      BY DEF PolicyInv, RevisionsCount
    <3>2. \A x \in Saves \ {s} : Wrote(x)' => save'[x].expected # save'[s].expected
      BY <1>3, <1>4, <2>1, <2>2, <2>3
    <3> QED BY <2>2, <3>1, <3>2
  <2>6. \A x \in Saves : save'[x].at \notin {"first", "write"}
    BY <1>3, <1>7 DEF Runs
  <2>7. policy'.revision <= stored'.revision /\ stored'.revision <= Cardinality(Over')
    BY <1>1, <1>4, <1>5
  <2> QED BY <1>1, <2>4, <2>5, <2>6, <2>7 DEF RevisionsCount
<1>9. RequestsFollow'
  BY <1>3, <1>6 DEF RequestsFollow
<1> QED BY <1>1, <1>5, <1>6, <1>7, <1>8, <1>9, GoesOn DEF Pending

\* A save is answered: the next one has its turn, and the boundary opens behind the last one
\* unless one has failed.
LEMMA AnsweredStep ==
  ASSUME PolicyInv, NEW s \in Saves, Turn(s) \/ Runs(s), save[s].at \in Pending,
         NEW answer \in {"saved", "refused", "failed"}, NEW failed \in BOOLEAN,
         Answered(s, answer, failed), answer = "saved" => save[s].at = "second",
         UNCHANGED <<policy, update, request, restarts, used>>,
         stored' \in Policies, left' \in [Actors -> SUBSET Tabs],
         policy # stored' => failed, policy.revision <= stored'.revision,
         stored'.revision <= Cardinality(Over'), RequestsFollow'
  PROVE  PolicyInv'
<1>1. /\ save' = [save EXCEPT ![s].at = answer] /\ queue' = Tail(queue) /\ storageFailed' = failed
      /\ \/ Opens(s, failed) /\ saving' = FALSE /\ analysis' = Stale
         \/ ~Opens(s, failed) /\ UNCHANGED <<saving, analysis>>
  BY DEF Answered
<1>2. /\ save \in [Saves -> SaveStates] /\ queue \in Seq(Saves) /\ saving \in BOOLEAN
      /\ analysis \in AnalysisStates
  BY Typed DEF PolicyInv
<1>3. /\ save' \in [Saves -> SaveStates] /\ save'[s].at = answer
      /\ save'[s].expected = save[s].expected /\ \A x \in Saves \ {s} : save'[x] = save[x]
  BY <1>1, <1>2, SaveMoved
<1>4. queue # <<>> /\ \A x \in Saves \ {s} : ~Runs(x)
  BY OthersWait
<1>5. queue' \in Seq(Saves)
  BY <1>1, <1>2, <1>4
<1>6. \A x \in Saves : ~Runs(x)'
  BY <1>3, <1>4 DEF Runs
<1>7. saving
  BY DEF PolicyInv, OneRuns
<1>8. \A x \in Saves : save'[x].at \in Pending => x # s /\ save[x].at \in Pending
  BY <1>3 DEF Pending
<1>9. OneRuns'
  <2>1. CASE Opens(s, failed)
    <3>1. (\A x \in Saves : save'[x].at \notin Pending) /\ ~failed
      BY <1>8, <2>1 DEF Opens
    <3>2. ~storageFailed'
      BY <1>1, <3>1, Zenon
    <3> QED BY <1>6, <3>1, <3>2 DEF OneRuns
  <2>2. CASE ~Opens(s, failed)
    <3>1. saving'
      BY <1>1, <1>7, <2>2, Zenon
    <3> QED BY <1>6, <3>1 DEF OneRuns
  <2> QED BY <2>1, <2>2
<1>10. saving' \in BOOLEAN /\ storageFailed' \in BOOLEAN
  BY <1>1, <1>2, Zenon
<1>11. analysis' \in AnalysisStates /\ AnalysisFollows'
  <2>1. CASE Opens(s, failed)
    BY <1>1, <2>1, StaleFollows
  <2>2. CASE ~Opens(s, failed)
    <3>1. saving' = saving /\ analysis' = analysis
      BY <1>1, <2>2, Zenon
    <3>2. Blocked' = Blocked
      BY <3>1 DEF Blocked
    <3> QED BY <1>2, <3>1, <3>2 DEF PolicyInv, AnalysisFollows
  <2> QED BY <2>1, <2>2
<1>12. TypeOK'
  BY <1>3, <1>5, <1>10, <1>11, Typed DEF PolicyInv, TypeOK, SaveStates, AnalysisStates
<1>13. RevisionsCount'
  <2>1. \A x \in Saves : Wrote(x)' => Wrote(x) /\ save'[x].expected = save[x].expected
    BY <1>3 DEF Wrote
  <2>2. \A x \in Saves : save'[x].at \notin {"first", "write", "second"}
    BY <1>6 DEF Runs
  <2> QED BY <1>1, <2>1, <2>2 DEF PolicyInv, RevisionsCount
<1>14. DisclosedInForce'
  BY DEF PolicyInv, DisclosedInForce
<1> QED BY <1>9, <1>11, <1>12, <1>13, <1>14 DEF PolicyInv

\* A save that did not write leaves the requests as they are.
LEMMA NoneWrites ==
  ASSUME PolicyInv, NEW s \in Saves, Turn(s) \/ Runs(s), save[s].at # "second",
         NEW answer \in {"saved", "refused", "failed"}, save' = [save EXCEPT ![s].at = answer],
         UNCHANGED <<policy, request>>, storageFailed => storageFailed'
  PROVE  RequestsFollow'
<1>1. save \in [Saves -> SaveStates]
  BY Typed DEF PolicyInv
<1>2. \A x \in Saves : save[x].at # "second" /\ save'[x].at # "second"
  BY <1>1, SaveMoved, OthersWait DEF Runs
<1> QED BY <1>2 DEF PolicyInv, RequestsFollow, Follows

LEMMA RefuseStep == ASSUME PolicyInv, NEW s \in Saves, Refuse(s) PROVE PolicyInv'
<1>1. /\ Turn(s) /\ save[s].at = "queued" /\ Answered(s, "refused", storageFailed)
      /\ UNCHANGED <<policy, stored, update, left, request, restarts, used>>
  BY DEF Refuse
<1>2. /\ save' = [save EXCEPT ![s].at = "refused"] /\ storageFailed' = storageFailed
  BY <1>1 DEF Answered
<1>3. /\ storageFailed \in BOOLEAN /\ stored \in Policies /\ left \in [Actors -> SUBSET Tabs]
      /\ save \in [Saves -> SaveStates]
  BY Typed DEF PolicyInv
<1>4. save'[s].at = "refused" /\ \A x \in Saves \ {s} : save'[x] = save[x]
  BY <1>2, <1>3, SaveMoved
<1>5. Over' = Over
  BY <1>1, <1>4 DEF Over
<1>6. RequestsFollow'
  BY <1>1, <1>2, NoneWrites
<1>7. /\ policy # stored' => storageFailed
      /\ policy.revision <= stored'.revision /\ stored'.revision <= Cardinality(Over')
  BY <1>1, <1>5 DEF PolicyInv, RevisionsCount
<1> QED BY <1>1, <1>3, <1>6, <1>7, AnsweredStep DEF Pending

LEMMA SaveOkStep == ASSUME PolicyInv, NEW s \in Saves, SaveOk(s) PROVE PolicyInv'
<1>1. /\ save[s].at = "second" /\ left[s] = {} /\ Answered(s, "saved", FALSE)
      /\ UNCHANGED <<policy, stored, update, left, request, restarts, used>>
  BY DEF SaveOk
<1>2. save' = [save EXCEPT ![s].at = "saved"]
  BY <1>1 DEF Answered
<1>3. /\ stored \in Policies /\ left \in [Actors -> SUBSET Tabs] /\ save \in [Saves -> SaveStates]
  BY Typed DEF PolicyInv
<1>4. save'[s].at = "saved" /\ \A x \in Saves \ {s} : save'[x] = save[x]
  BY <1>2, <1>3, SaveMoved
<1>5. Over' = Over /\ Runs(s)
  BY <1>1, <1>4 DEF Over, Runs
<1>6. RequestsFollow'
  <2>1. \A x \in Saves \ {s} : save[x].at # "second"
    BY <1>5, OthersWait DEF Runs
  <2>2. \A t \in Tabs : Follows(t)
    BY <1>1, <2>1 DEF PolicyInv, RequestsFollow
  <2> QED BY <1>1, <2>2 DEF RequestsFollow, Follows
<1>7. policy = stored' /\ policy.revision <= stored'.revision /\ stored'.revision <= Cardinality(Over')
  BY <1>1, <1>5 DEF PolicyInv, RevisionsCount
<1> QED BY <1>1, <1>3, <1>5, <1>6, <1>7, AnsweredStep DEF Pending

LEMMA SaveFailsStep == ASSUME PolicyInv, NEW s \in Saves, SaveFails(s) PROVE PolicyInv'
<1> DEFINE next == [revision |-> policy.revision + 1, decision |-> save[s].decision]
<1>1. /\ save[s].at \in {"first", "write", "second"} /\ Answered(s, "failed", TRUE)
      /\ left' = [left EXCEPT ![s] = {}] /\ UNCHANGED <<policy, update, request, restarts, used>>
  BY DEF SaveFails
<1>2. stored' = stored \/ (save[s].at = "write" /\ stored' = next)
  BY DEF SaveFails
<1>3. save' = [save EXCEPT ![s].at = "failed"] /\ storageFailed' = TRUE
  BY <1>1 DEF Answered
<1>4. /\ stored \in Policies /\ policy \in Policies /\ left \in [Actors -> SUBSET Tabs]
      /\ save \in [Saves -> SaveStates]
  BY Typed DEF PolicyInv
<1>5. save'[s].at = "failed" /\ \A x \in Saves \ {s} : save'[x] = save[x]
  BY <1>3, <1>4, SaveMoved
<1>6. Runs(s)
  BY <1>1 DEF Runs
<1>7. left' \in [Actors -> SUBSET Tabs]
  BY <1>1, <1>4
<1>8. RequestsFollow'
  <2>1. \A x \in Saves : save'[x].at # "second"
    BY <1>5, <1>6, OthersWait DEF Runs
  <2> QED BY <1>3, <2>1 DEF RequestsFollow
<1>9. Over \subseteq Over'
  BY <1>5 DEF Over
<1>10. /\ stored' \in Policies /\ policy.revision <= stored'.revision
       /\ stored'.revision <= Cardinality(Over')
  <2>1. /\ policy.revision \in Nat /\ stored.revision \in Nat
        /\ policy.revision <= stored.revision /\ stored.revision <= Cardinality(Over)
    BY <1>4, CountIsNat DEF Policies, PolicyInv, RevisionsCount
  <2>2. CASE stored' = stored
    BY <1>4, <1>9, <2>1, <2>2, OverMore, OverFinite, OverFinitePrime
  <2>3. CASE save[s].at = "write" /\ stored' = next
    <3>1. policy.revision + 1 \in Revisions /\ policy.revision + 1 <= Cardinality(Over')
      BY <1>3, <2>3, NextRevision
    <3>2. next \in Policies /\ next.revision = policy.revision + 1
      BY <1>4, <3>1 DEF Policies, SaveStates
    <3> HIDE DEF next
    <3> QED BY <2>1, <2>3, <3>1, <3>2
  <2> QED BY <1>2, <2>2, <2>3
<1> QED BY <1>1, <1>6, <1>7, <1>8, <1>10, AnsweredStep DEF Pending

\* A new worker has the stored policy; a save that was under way is lost.
LEMMA RestartStep == ASSUME PolicyInv, Restart PROVE PolicyInv'
<1>1. /\ restarts < MaxRestarts /\ restarts' = restarts + 1
      /\ policy' = stored /\ saving' = FALSE /\ storageFailed' = FALSE /\ queue' = <<>>
      /\ save' = [s \in Saves |->
           [save[s] EXCEPT !.at = IF save[s].at \in Pending THEN "lost" ELSE save[s].at]]
      /\ update' = IF update = "new" THEN "new" ELSE "over"
      /\ left' = [a \in Actors |-> {}] /\ request' = [t \in Tabs |-> None]
      /\ analysis' = [at |-> "idle", current |-> FALSE, user |-> FALSE, under |-> 0]
      /\ UNCHANGED <<stored, used>>
  BY DEF Restart
<1>2. save \in [Saves -> SaveStates] /\ restarts \in 0 .. MaxRestarts /\ stored \in Policies
  BY Typed DEF PolicyInv
<1>3. ASSUME NEW s \in Saves
      PROVE  /\ save'[s] \in SaveStates /\ save'[s].expected = save[s].expected
             /\ save'[s].at = IF save[s].at \in Pending THEN "lost" ELSE save[s].at
  BY <1>1, <1>2 DEF SaveStates
<1>4. save' \in [Saves -> SaveStates]
  <2> DEFINE F(s) == [save[s] EXCEPT !.at = IF save[s].at \in Pending THEN "lost" ELSE save[s].at]
  <2>1. \A s \in Saves : F(s) \in SaveStates
    BY <1>1, <1>3
  <2>2. save' = [s \in Saves |-> F(s)]
    BY <1>1
  <2> HIDE DEF F
  <2> QED BY <2>1, <2>2
<1>5. analysis' \in AnalysisStates /\ ~analysis'.current
  BY <1>1, CountIsNat DEF AnalysisStates
<1>6. restarts' \in 0 .. MaxRestarts
  BY <1>1, <1>2, BoundsAreFinite
<1>7. TypeOK'
  <2>1. policy' \in Policies /\ stored' \in Policies /\ saving' \in BOOLEAN /\ storageFailed' \in BOOLEAN
    BY <1>1, <1>2
  <2>2. /\ queue' \in Seq(Saves) /\ update' \in {"new", "first", "change", "second", "over"}
        /\ left' \in [Actors -> SUBSET Tabs]
        /\ request' \in [Tabs -> RequestStates \cup {None}]
    BY <1>1
  <2> QED BY <1>4, <1>5, <1>6, <2>1, <2>2 DEF TypeOK, SaveStates, AnalysisStates, RequestStates
<1>8. \A s \in Saves : save'[s].at \notin Pending
  BY <1>3 DEF Pending
<1>9. OneRuns'
  <2>1. ~storageFailed'
    BY <1>1, Zenon
  <2> QED BY <1>8, <2>1 DEF OneRuns, Runs, Pending
<1>10. Over \subseteq Over'
  BY <1>3 DEF Over, Pending
<1>11. RevisionsCount'
  <2>1. /\ stored.revision \in Nat /\ policy.revision \in Nat
        /\ policy.revision <= stored.revision /\ stored.revision <= Cardinality(Over)
    BY <1>2, CountIsNat, Typed DEF PolicyInv, RevisionsCount, Policies
  <2>2. stored'.revision <= Cardinality(Over')
    BY <1>1, <1>10, <2>1, OverMore, OverFinite, OverFinitePrime
  <2>3. \A s \in Saves : Wrote(s)' =>
          Wrote(s) /\ save'[s].expected = save[s].expected /\ save[s].expected < stored.revision
    <3>1. \A s \in Saves : save[s].expected \in Nat
      BY <1>2, CountIsNat DEF SaveStates
    <3>2. \A s \in Saves : Wrote(s) => save[s].expected < policy.revision
      BY DEF PolicyInv, RevisionsCount
    <3>3. \A s \in Saves : Wrote(s)' => Wrote(s)
      BY <1>3 DEF Wrote, Pending
    <3> QED BY <1>3, <2>1, <3>1, <3>2, <3>3
  <2>4. \A x, y \in Saves : Wrote(x) /\ Wrote(y) /\ save[x].expected = save[y].expected => x = y
    BY DEF PolicyInv, RevisionsCount
  <2>5. policy' = stored' /\ policy'.revision <= stored'.revision
    BY <1>1, <2>1
  <2> QED BY <1>1, <1>8, <2>2, <2>3, <2>4, <2>5 DEF RevisionsCount, Pending
<1>12. RequestsFollow'
  BY <1>1 DEF RequestsFollow, Follows
<1>13. AnalysisFollows'
  BY <1>5, Zenon DEF AnalysisFollows
<1>14. DisclosedInForce'
  BY <1>1 DEF PolicyInv, DisclosedInForce
<1> QED BY <1>7, <1>9, <1>11, <1>12, <1>13, <1>14 DEF PolicyInv

-----------------------------------------------------------------------------
(* The approval policy: the theorems.                                      *)

LEMMA PolicyInit == Init => PolicyInv
<1> SUFFICES ASSUME Init PROVE PolicyInv
  OBVIOUS
<1>1. TypeOK
  <2>1. policy \in Policies /\ stored \in Policies
    BY CountIsNat DEF Init, Policies, Decisions
  <2>1a. saving \in BOOLEAN /\ storageFailed \in BOOLEAN
    BY Zenon DEF Init
  <2>2. save \in [Saves -> SaveStates]
    BY CountIsNat DEF Init, SaveStates, Decisions
  <2>3. analysis \in AnalysisStates
    BY CountIsNat DEF Init, AnalysisStates
  <2> QED BY <2>1, <2>1a, <2>2, <2>3, BoundsAreFinite, Typed DEF Init
<1>2. OneRuns
  <2>1. ~storageFailed
    BY DEF Init
  <2>2. \A s \in Saves : save[s].at = "new"
    BY DEF Init
  <2> QED BY <2>1, <2>2 DEF OneRuns, Runs, Pending
<1>3. RevisionsCount
  <2>1. policy = stored /\ policy.revision = 0
    BY DEF Init
  <2>2. \A s \in Saves : save[s].at = "new"
    BY DEF Init
  <2> QED BY <2>1, <2>2, OverFinite DEF RevisionsCount, Wrote
<1>4. RequestsFollow /\ DisclosedInForce
  BY DEF Init, RequestsFollow, Follows, DisclosedInForce
<1>5. AnalysisFollows
  <2>1. ~analysis.current
    BY DEF Init
  <2> QED BY <2>1, Zenon DEF AnalysisFollows
<1> QED BY <1>1, <1>2, <1>3, <1>4, <1>5 DEF PolicyInv

LEMMA PolicyStep == ASSUME PolicyInv, [Next]_vars PROVE PolicyInv'
<1>1. ASSUME NEW s \in Saves, SaveStep(s) PROVE PolicyInv'
  BY <1>1, RefuseStep, SaveRunsStep, SaveCancelledStep, SaveWrittenStep, SaveOkStep, SaveFailsStep
     DEF SaveStep
<1>2. ASSUME NEW s \in Saves, \E e \in Revisions, d \in Decisions : Save(s, e, d) PROVE PolicyInv'
  BY <1>2, SaveStep0
<1>3. ASSUME NEW a \in Actors, NEW t \in Tabs, CancelTab(a, t) PROVE PolicyInv'
  BY <1>3, CancelTabStep
<1>4. CASE UpdateBegins \/ UpdateNext \/ UpdateFails
  BY <1>4, UpdateSteps
<1>5. CASE Restart
  BY <1>5, RestartStep
<1>6. ASSUME NEW t \in Tabs,
             Begin(t) \/ End(t) \/ Ask(t) \/ Allow(t) \/ Deny(t) \/ Disclose(t)
      PROVE  PolicyInv'
  BY <1>6, RequestSteps
<1>7. CASE (\E user \in BOOLEAN : Analyze(user)) \/ Grant \/ Send
  BY <1>7, AnalysisSteps
<1>8. CASE UNCHANGED vars
  <2>1. UNCHANGED <<boundary, request, restarts, analysis, used>>
    BY <1>8 DEF vars, boundary
  <2>2. analysis' \in AnalysisStates /\ Blocked' = Blocked
    BY <2>1, Typed DEF PolicyInv, boundary, Blocked
  <2>3. AnalysisFollows' /\ DisclosedInForce'
    BY <2>1, <2>2 DEF PolicyInv, AnalysisFollows, DisclosedInForce, boundary
  <2> QED BY <2>1, <2>2, <2>3, AnalysisStep
<1> QED BY <1>1, <1>2, <1>3, <1>4, <1>5, <1>6, <1>7, <1>8 DEF Next

\* The inductive invariant of the approval policy.
THEOREM PolicyInvariance == Spec => []PolicyInv
<1>1. PolicyInv /\ [Next]_vars => PolicyInv'
  BY PolicyStep
<1> QED BY <1>1, PolicyInit, PTL DEF Spec

LEMMA PolicyImplies == PolicyInv => PolicySafety
<1> SUFFICES ASSUME PolicyInv PROVE PolicySafety
  OBVIOUS
<1>1. TypeOK /\ DisclosedInForce
  BY DEF PolicyInv
<1>2. InForceIsStored
  BY DEF PolicyInv, InForceIsStored, OneRuns, RevisionsCount
<1>3. NoLostSave
  BY DEF PolicyInv, NoLostSave, RevisionsCount, Wrote
<1>4. NoOldRequest
  BY OpenFollows DEF NoOldRequest, Follows
<1> QED BY <1>1, <1>2, <1>3, <1>4 DEF PolicySafety

\* Each of the two components rests or takes a step of its own.
LEMMA Alone == [BothNext]_all => [Next]_vars /\ [Grants!Next]_Grants!vars
BY DEF BothNext, all, vars, grantVars, Grants!vars

\* For any number of saves, tabs and restarts: nothing is disclosed under a policy that is
\* not in force or behind a closed boundary, the policy in force is the stored one whenever
\* the boundary is open, of two saves of one revision one succeeds, and no request of an
\* earlier policy lives once it is open.
THEOREM PolicyIsSafe == FairBoth => []PolicySafety
<1>1. PolicyInv /\ [BothNext]_all => PolicyInv'
  BY PolicyStep, Alone
<1>2. BothInit => PolicyInv
  BY PolicyInit DEF BothInit
<1> QED BY <1>1, <1>2, PolicyImplies, PTL DEF FairBoth
-----------------------------------------------------------------------------
(* The permissions: the inductive invariant.                               *)

Allowed(entries) == {k \in Keys : entries[k] = "allow"}

\* The write of a revocation is on its way while the revocation waits for it, and it and
\* whatever is written after it allow what was decided since the revocation began.
RevocationWrites ==
  /\ \A i \in 1 .. Len(writes) : writes[i].for = "revocation" =>
       /\ revoking.at = "write"
       /\ \A j \in i .. Len(writes) : Allowed(writes[j].value) \subseteq since.begun
       /\ \A j \in 1 .. Len(writes) : writes[j].for = "revocation" => j = i
  /\ revoking.at # "none" => ready /\ Allowed(persistent) \subseteq since.begun

\* What is on its way to the storage grants nothing on a development host.
LocalUnstored == \A i \in 1 .. Len(writes), k \in Local : writes[i].value[k] = None

\* A revocation that runs has reached the sessions of every tab it is through with.
SessionsReached ==
  /\ revocations \in 0 .. MaxRevocations /\ since.acked <= revocations
  /\ \A s \in Sessions :
       /\ session[s].at = "proposed" => session[s].key \in Keys
       /\ revoking.at # "none" /\ session[s].at = "cleared" /\ Tab[s] \notin revoking.tabs =>
            session[s].seen = revocations
  /\ revoking.at = "write" => revoking.tabs = {}

\* What was denied is denied in the memory of the run, or in the manager and in the
\* newest state on its way to the storage.
Latest == IF writes = <<>> THEN kept ELSE writes[Len(writes)].value
DenialKept ==
  \A s \in Sessions, k \in Keys : <<s, k>> \in refused =>
    /\ k \in Local /\ session[s].at # "over" => <<s, k>> \in denied
    /\ k \notin Local => Latest[k] = "deny" /\ (ready => persistent[k] = "deny")

GrantsInv ==
  /\ Grants!TypeOK /\ Grants!RevokedStaysRevoked /\ Grants!NoOldClearance
  /\ RevocationWrites /\ LocalUnstored /\ SessionsReached /\ DenialKept

-----------------------------------------------------------------------------
(* The permissions: parts that several actions share.                      *)

Writings == [value : [Keys -> Grants!Entry], for : Grants!Waiting]
SessionStates == [at : {"idle", "proposed", "cleared", "over"}, key : Keys \cup {None},
                  seen : 0 .. MaxRevocations]
Records == [begun : SUBSET Keys, held : SUBSET Keys, acked : 0 .. MaxRevocations]

LEMMA GrantsTyped ==
  Grants!TypeOK <=>
    /\ ready \in BOOLEAN
    /\ persistent \in [Keys -> Grants!Entry] /\ kept \in [Keys -> Grants!Entry]
    /\ once \subseteq Sessions \X Keys /\ denied \subseteq Sessions \X Local
    /\ writes \in Seq(Writings) /\ pending \subseteq Sessions \X Keys
    /\ session \in [Sessions -> SessionStates]
    /\ revoking \in [tabs : SUBSET Grants!SessionTabs, at : {"none", "tabs", "write"}]
    /\ refused \subseteq Sessions \X Keys /\ since \in Records
    /\ \A k \in Local : persistent[k] = None /\ kept[k] = None
BY DEF Grants!TypeOK, Writings, SessionStates, Records

\* The manager, the storage and its writes rest.
StoreRests == UNCHANGED <<ready, persistent, kept, writes, revoking, revocations, since>>

LEMMA StoreKept ==
  ASSUME GrantsInv, StoreRests PROVE Grants!RevokedStaysRevoked' /\ RevocationWrites' /\ LocalUnstored'
BY DEF GrantsInv, StoreRests, Grants!RevokedStaysRevoked, RevocationWrites, LocalUnstored, Allowed

\* A step of a session or of the requests.
LEMMA SessionStep ==
  ASSUME GrantsInv, StoreRests, pending' \subseteq Sessions \X Keys,
         UNCHANGED <<refused, denied, once>>, session' \in [Sessions -> SessionStates],
         \A s \in Sessions :
           \/ session'[s] = session[s]
           \/ /\ session[s].at # "over" /\ session'[s].at \in {"idle", "proposed", "cleared"}
              /\ session'[s].at = "proposed" => session'[s].key \in Keys
              /\ session'[s].at = "cleared" => session'[s].seen = revocations
  PROVE  GrantsInv'
<1>1. Grants!TypeOK'
  BY GrantsTyped DEF GrantsInv, StoreRests, Grants!TypeOK, SessionStates
<1>2. Grants!RevokedStaysRevoked' /\ RevocationWrites' /\ LocalUnstored'
  BY StoreKept
<1>3. Grants!NoOldClearance'
  <2>1. since.acked <= revocations
    BY DEF GrantsInv, SessionsReached
  <2> QED BY <2>1 DEF GrantsInv, StoreRests, Grants!NoOldClearance
<1>4. SessionsReached'
  BY DEF GrantsInv, StoreRests, SessionsReached
<1>5. DenialKept'
  BY DEF GrantsInv, StoreRests, DenialKept, Latest
<1> QED BY <1>1, <1>2, <1>3, <1>4, <1>5 DEF GrantsInv

\* Sessions that end take what was granted and denied for their runs with them.
LEMMA EndStep ==
  ASSUME GrantsInv, StoreRests, UNCHANGED <<refused, pending>>, NEW S \in SUBSET Sessions,
         session' \in [Sessions -> SessionStates],
         \A s \in Sessions : IF s \in S THEN session'[s].at = "over" ELSE session'[s] = session[s],
         once' = {g \in once : g[1] \notin S}, denied' = {g \in denied : g[1] \notin S}
  PROVE  GrantsInv'
<1>1. Grants!TypeOK'
  BY GrantsTyped DEF GrantsInv, StoreRests, Grants!TypeOK, SessionStates
<1>2. Grants!RevokedStaysRevoked' /\ RevocationWrites' /\ LocalUnstored'
  BY StoreKept
<1>3. Grants!NoOldClearance'
  BY DEF GrantsInv, StoreRests, Grants!NoOldClearance
<1>4. SessionsReached'
  BY DEF GrantsInv, StoreRests, SessionsReached
<1>5. DenialKept'
  <2>1. \A s \in Sessions, k \in Keys : s \notin S /\ <<s, k>> \in denied => <<s, k>> \in denied'
    OBVIOUS
  <2> QED BY <2>1 DEF GrantsInv, StoreRests, DenialKept, Latest
<1> QED BY <1>1, <1>2, <1>3, <1>4, <1>5 DEF GrantsInv

LEMMA SessionSteps ==
  ASSUME GrantsInv, NEW s \in Sessions,
         (\E k \in Keys : Grants!Propose(s, k)) \/ Grants!Gate(s) \/ Grants!Ask(s)
           \/ Grants!Dispatch(s) \/ Grants!End(s)
  PROVE  GrantsInv'
<1>1. /\ session \in [Sessions -> SessionStates] /\ pending \subseteq Sessions \X Keys
      /\ revocations \in 0 .. MaxRevocations /\ MaxRevocations \in Nat
  BY GrantsTyped, GrantsFit DEF GrantsInv, SessionsReached, Grants!ConstantsFit
<1>2. CASE \E k \in Keys : Grants!Propose(s, k)
  <2>1. PICK k \in Keys : Grants!Propose(s, k)
    BY <1>2
  <2>2. /\ StoreRests /\ UNCHANGED <<refused, denied, once, pending>> /\ session[s].at = "idle"
        /\ session' = [session EXCEPT ![s] = [at |-> "proposed", key |-> k, seen |-> 0]]
    BY <2>1 DEF Grants!Propose, StoreRests, Grants!manager, Grants!counters, Grants!history
  <2>3. [at |-> "proposed", key |-> k, seen |-> 0] \in SessionStates
    BY <1>1 DEF SessionStates
  <2> QED BY <1>1, <2>2, <2>3, SessionStep
<1>3. CASE Grants!Gate(s)
  <2> DEFINE next == [session[s] EXCEPT !.at = "cleared", !.seen = revocations]
  <2>1. /\ StoreRests /\ UNCHANGED <<refused, denied, once, pending>> /\ session[s].at = "proposed"
        /\ session' = [session EXCEPT ![s] = next]
    BY <1>3 DEF Grants!Gate, StoreRests, Grants!manager, Grants!counters, Grants!history
  <2>2. next \in SessionStates /\ next.at = "cleared" /\ next.seen = revocations
    BY <1>1 DEF SessionStates
  <2> HIDE DEF next
  <2> QED BY <1>1, <2>1, <2>2, SessionStep
<1>4. CASE Grants!Ask(s)
  <2>1. /\ StoreRests /\ UNCHANGED <<refused, denied, once, session>> /\ session[s].at = "proposed"
        /\ pending' = pending \cup {<<s, session[s].key>>}
    BY <1>4 DEF Grants!Ask, StoreRests, Grants!manager, Grants!counters, Grants!history
  <2>2. session[s].key \in Keys
    BY <2>1 DEF GrantsInv, SessionsReached
  <2> QED BY <1>1, <2>1, <2>2, SessionStep
<1>5. CASE Grants!Dispatch(s)
  <2>1. /\ StoreRests /\ UNCHANGED <<refused, denied, once, pending>> /\ session[s].at = "cleared"
        /\ session' = [session EXCEPT ![s] = Grants!Idle]
    BY <1>5 DEF Grants!Dispatch, StoreRests, Grants!manager, Grants!counters, Grants!history
  <2>2. Grants!Idle \in SessionStates /\ Grants!Idle.at = "idle"
    BY <1>1 DEF Grants!Idle, SessionStates
  <2> QED BY <1>1, <2>1, <2>2, SessionStep
<1>6. CASE Grants!End(s)
  <2> DEFINE next == [Grants!Idle EXCEPT !.at = "over"]
  <2>1. /\ StoreRests /\ UNCHANGED <<refused, pending>>
        /\ session' = [session EXCEPT ![s] = next]
        /\ once' = {g \in once : g[1] # s} /\ denied' = {g \in denied : g[1] # s}
    BY <1>6 DEF Grants!End, Grants!Forgotten, StoreRests, Grants!counters, Grants!history
  <2>2. next \in SessionStates /\ next.at = "over"
    BY <1>1 DEF Grants!Idle, SessionStates
  <2> HIDE DEF next
  <2>3. /\ session' \in [Sessions -> SessionStates]
        /\ \A x \in Sessions : IF x \in {s} THEN session'[x].at = "over" ELSE session'[x] = session[x]
    BY <1>1, <2>1, <2>2
  <2>4. once' = {g \in once : g[1] \notin {s}} /\ denied' = {g \in denied : g[1] \notin {s}}
    BY <2>1
  <2> QED BY <2>1, <2>3, <2>4, EndStep
<1> QED BY <1>2, <1>3, <1>4, <1>5, <1>6

LEMMA ExpireStep == ASSUME GrantsInv, NEW r, Grants!Expire(r) PROVE GrantsInv'
<1>1. /\ StoreRests /\ UNCHANGED <<refused, denied, once, session>> /\ pending' = pending \ {r}
  BY DEF Grants!Expire, StoreRests, Grants!manager, Grants!counters, Grants!history
<1>2. session \in [Sessions -> SessionStates] /\ pending \subseteq Sessions \X Keys
  BY GrantsTyped DEF GrantsInv
<1> QED BY <1>1, <1>2, SessionStep

-----------------------------------------------------------------------------
(* The permissions: decisions, revocations, writes and restarts.           *)

\* A write that is sent is the newest.
LEMMA Sent ==
  ASSUME writes \in Seq(Writings), NEW w \in Writings, writes' = Append(writes, w)
  PROVE  /\ writes' \in Seq(Writings) /\ Len(writes') = Len(writes) + 1 /\ Len(writes) \in Nat
         /\ \A i \in 1 .. Len(writes) : writes'[i] = writes[i]
         /\ writes'[Len(writes) + 1] = w /\ writes' # <<>> /\ Latest' = w.value
<1>1. /\ writes' \in Seq(Writings) /\ Len(writes') = Len(writes) + 1 /\ Len(writes) \in Nat
      /\ \A i \in 1 .. Len(writes) : writes'[i] = writes[i]
      /\ writes'[Len(writes) + 1] = w
  OBVIOUS
<1>2. writes' # <<>>
  BY <1>1
<1> QED BY <1>1, <1>2 DEF Latest

\* What a decision does to the manager and to the history.
LEMMA DecideFacts ==
  ASSUME GrantsInv, NEW s \in Sessions, NEW k \in Keys, NEW d \in {"once", "always", "deny"},
         Grants!Decide(s, k, d)
  PROVE  /\ persistent' \in [Keys -> Grants!Entry] /\ since' \in Records
         /\ \A x \in Local : persistent'[x] = None
         /\ since.begun \subseteq since'.begun /\ since.held \subseteq since'.held
         /\ since'.acked = since.acked
         /\ Allowed(persistent') \subseteq Allowed(persistent) \cup (since'.begun \cap since'.held)
         /\ once' \subseteq Sessions \X Keys /\ denied \subseteq denied'
         /\ denied' \subseteq Sessions \X Local /\ refused' \subseteq Sessions \X Keys
         /\ \A q \in Sessions, x \in Keys : <<q, x>> \in refused' =>
              /\ x \in Local => <<q, x>> \in refused \/ <<q, x>> \in denied'
              /\ x \notin Local => persistent'[x] = "deny"
<1>1. /\ persistent \in [Keys -> Grants!Entry] /\ since \in Records
      /\ \A x \in Local : persistent[x] = None
      /\ once \subseteq Sessions \X Keys /\ denied \subseteq Sessions \X Local
      /\ refused \subseteq Sessions \X Keys /\ Local \subseteq Keys
  BY GrantsTyped, GrantsFit DEF GrantsInv, Grants!ConstantsFit
<1>2. \A q \in Sessions, x \in Keys : <<q, x>> \in refused /\ x \notin Local => persistent[x] = "deny"
  BY DEF GrantsInv, DenialKept, Grants!Decide
<1>3. CASE d = "deny" /\ k \in Local
  <2>1. /\ denied' = denied \cup {<<s, k>>} /\ once' = once \ {<<s, k>>}
        /\ refused' = refused \cup {<<s, k>>} /\ UNCHANGED <<persistent, since>>
    BY <1>3 DEF Grants!Decide
  <2>2. \A q \in Sessions, x \in Keys : <<q, x>> \in refused' =>
          <<q, x>> \in refused \/ (x \in Local /\ <<q, x>> \in denied')
    BY <1>3, <2>1
  <2> QED BY <1>1, <1>2, <1>3, <2>1, <2>2
<1>4. CASE d = "once"
  <2>1. once' = once \cup {<<s, k>>} /\ UNCHANGED <<persistent, denied, since, refused>>
    BY <1>4 DEF Grants!Decide, Grants!history
  <2> QED BY <1>1, <1>2, <2>1
<1>5. CASE d = "always"
  <2>1. /\ k \notin Local /\ UNCHANGED <<once, denied>>
        /\ persistent' = [persistent EXCEPT ![k] = "allow"]
        /\ since' = [since EXCEPT !.begun = since.begun \cup {k}, !.held = since.held \cup {k}]
        /\ refused' = {r \in refused : r[2] # k}
    BY <1>5 DEF Grants!Decide
  <2>2. \A q \in Sessions, x \in Keys : <<q, x>> \in refused' => x # k /\ <<q, x>> \in refused
    BY <2>1
  <2>3. /\ since' \in Records /\ since'.begun = since.begun \cup {k}
        /\ since'.held = since.held \cup {k} /\ since'.acked = since.acked
    BY <1>1, <2>1 DEF Records
  <2>4. persistent' \in [Keys -> Grants!Entry] /\ \A x \in Keys \ {k} : persistent'[x] = persistent[x]
    BY <1>1, <2>1 DEF Grants!Entry
  <2>5. Allowed(persistent') \subseteq Allowed(persistent) \cup {k}
    BY <2>4 DEF Allowed
  <2>6. \A x \in Local : x # k /\ x \in Keys
    BY <1>1, <2>1
  <2> QED BY <1>1, <1>2, <2>1, <2>2, <2>3, <2>4, <2>5, <2>6
<1>6. CASE d = "deny" /\ k \notin Local
  <2>1. /\ UNCHANGED <<once, denied>> /\ since' = since
        /\ persistent' = [persistent EXCEPT ![k] = "deny"]
        /\ refused' = refused \cup (Sessions \X {k})
    BY <1>6 DEF Grants!Decide
  <2>2. /\ persistent' \in [Keys -> Grants!Entry] /\ persistent'[k] = "deny"
        /\ \A x \in Keys \ {k} : persistent'[x] = persistent[x]
    BY <1>1, <2>1 DEF Grants!Entry
  <2>3. Allowed(persistent') \subseteq Allowed(persistent)
    BY <2>2 DEF Allowed
  <2>4. \A q \in Sessions, x \in Keys : <<q, x>> \in refused' => x = k \/ <<q, x>> \in refused
    BY <2>1
  <2>5. \A x \in Local : x # k /\ x \in Keys
    BY <1>1, <1>6
  <2> QED BY <1>1, <1>2, <1>6, <2>1, <2>2, <2>3, <2>4, <2>5
<1> QED BY <1>3, <1>4, <1>5, <1>6

LEMMA DecideStep ==
  ASSUME GrantsInv, NEW s \in Sessions, NEW k \in Keys, NEW d \in {"once", "always", "deny"},
         Grants!Decide(s, k, d)
  PROVE  GrantsInv'
<1> DEFINE w == [value |-> persistent', for |-> "decision"]
<1>1. /\ persistent' \in [Keys -> Grants!Entry] /\ since' \in Records
      /\ \A x \in Local : persistent'[x] = None
      /\ since.begun \subseteq since'.begun /\ since.held \subseteq since'.held
      /\ since'.acked = since.acked
      /\ Allowed(persistent') \subseteq Allowed(persistent) \cup (since'.begun \cap since'.held)
      /\ once' \subseteq Sessions \X Keys /\ denied \subseteq denied'
      /\ denied' \subseteq Sessions \X Local /\ refused' \subseteq Sessions \X Keys
  BY DecideFacts
<1>2. \A q \in Sessions, x \in Keys : <<q, x>> \in refused' =>
        /\ x \in Local => <<q, x>> \in refused \/ <<q, x>> \in denied'
        /\ x \notin Local => persistent'[x] = "deny"
  BY DecideFacts
<1>3. /\ writes' = Append(writes, w)
      /\ UNCHANGED <<ready, kept, pending, session, revoking, revocations>>
  BY DEF Grants!Decide, Grants!Persist
<1>4. writes \in Seq(Writings) /\ w \in Writings /\ w.value = persistent' /\ w.for = "decision"
  BY <1>1, GrantsTyped DEF GrantsInv, Writings, Grants!Waiting
<1> HIDE DEF w
<1>5. /\ writes' \in Seq(Writings) /\ Len(writes') = Len(writes) + 1 /\ Len(writes) \in Nat
      /\ \A i \in 1 .. Len(writes) : writes'[i] = writes[i]
      /\ writes'[Len(writes) + 1] = w /\ Latest' = persistent'
  BY <1>3, <1>4, Sent
<1>6. Grants!TypeOK'
  BY <1>1, <1>3, <1>5, GrantsTyped DEF GrantsInv, Grants!TypeOK, Writings, SessionStates, Records
<1>7. Grants!RevokedStaysRevoked'
  <2>1. \A x \in Keys : persistent'[x] = "allow" => x \in since'.held
    BY <1>1 DEF GrantsInv, Grants!RevokedStaysRevoked, Allowed
  <2>2. ASSUME NEW i \in 1 .. Len(writes'), NEW x \in Keys, writes'[i].value[x] = "allow"
        PROVE  x \in since'.held
    <3>1. CASE i \in 1 .. Len(writes)
      BY <1>1, <1>5, <2>2, <3>1 DEF GrantsInv, Grants!RevokedStaysRevoked
    <3>2. CASE i = Len(writes) + 1
      BY <1>4, <1>5, <2>1, <2>2, <3>2
    <3> QED BY <1>5, <3>1, <3>2
  <2> QED BY <1>1, <1>3, <2>1, <2>2 DEF GrantsInv, Grants!RevokedStaysRevoked
<1>8. RevocationWrites'
  <2>1. revoking.at # "none" => Allowed(persistent') \subseteq since'.begun
    BY <1>1 DEF GrantsInv, RevocationWrites
  <2>2. ASSUME NEW i \in 1 .. Len(writes'), writes'[i].for = "revocation"
        PROVE  /\ revoking.at = "write" /\ i \in 1 .. Len(writes)
               /\ \A j \in i .. Len(writes') : Allowed(writes'[j].value) \subseteq since'.begun
               /\ \A j \in 1 .. Len(writes') : writes'[j].for = "revocation" => j = i
    <3>1. i \in 1 .. Len(writes) /\ writes[i].for = "revocation"
      BY <1>4, <1>5, <2>2
    <3>2. /\ revoking.at = "write"
          /\ \A j \in i .. Len(writes) : Allowed(writes[j].value) \subseteq since.begun
          /\ \A j \in 1 .. Len(writes) : writes[j].for = "revocation" => j = i
      BY <3>1 DEF GrantsInv, RevocationWrites
    <3>3. ASSUME NEW j \in i .. Len(writes') PROVE Allowed(writes'[j].value) \subseteq since'.begun
      <4>1. CASE j \in i .. Len(writes)
        <5>1. j \in 1 .. Len(writes)
          BY <1>5, <3>1, <4>1
        <5>2. writes'[j] = writes[j] /\ Allowed(writes[j].value) \subseteq since.begun
          BY <1>5, <3>2, <4>1, <5>1
        <5> QED BY <1>1, <5>2
      <4>2. CASE j = Len(writes) + 1
        BY <1>4, <1>5, <2>1, <3>2, <4>2
      <4> QED BY <1>5, <3>1, <4>1, <4>2
    <3>4. \A j \in 1 .. Len(writes') : writes'[j].for = "revocation" => j = i
      BY <1>4, <1>5, <3>2
    <3> QED BY <3>1, <3>2, <3>3, <3>4
  <2>3. revoking.at # "none" => ready
    BY DEF GrantsInv, RevocationWrites
  <2> QED BY <1>3, <2>1, <2>2, <2>3 DEF RevocationWrites
<1>8a. LocalUnstored'
  BY <1>1, <1>4, <1>5 DEF GrantsInv, LocalUnstored
<1>9. Grants!NoOldClearance' /\ SessionsReached'
  BY <1>1, <1>3 DEF GrantsInv, Grants!NoOldClearance, SessionsReached
<1>10. DenialKept'
  <2>1. \A q \in Sessions, x \in Keys : <<q, x>> \in refused /\ x \in Local /\ session[q].at # "over" =>
          <<q, x>> \in denied'
    BY <1>1 DEF GrantsInv, DenialKept
  <2> QED BY <1>2, <1>3, <1>5, <2>1 DEF DenialKept
<1> QED BY <1>6, <1>7, <1>8, <1>8a, <1>9, <1>10 DEF GrantsInv

\* No write of a revocation is on its way unless one waits for it.
LEMMA NoneOnItsWay ==
  ASSUME GrantsInv, revoking.at # "write"
  PROVE  \A i \in 1 .. Len(writes) : writes[i].for # "revocation"
BY DEF GrantsInv, RevocationWrites

LEMMA RevokeStep == ASSUME GrantsInv, Grants!Revoke PROVE GrantsInv'
<1>1. /\ ready /\ revoking = Grants!Lost /\ revocations < MaxRevocations
      /\ persistent' = Grants!Nothing /\ once' = {} /\ denied' = {} /\ refused' = {}
      /\ revoking' = [tabs |-> Grants!SessionTabs, at |-> "tabs"]
      /\ revocations' = revocations + 1 /\ since' = [since EXCEPT !.begun = {}]
      /\ UNCHANGED <<ready, kept, writes, pending, session>>
  BY DEF Grants!Revoke
<1>2. since \in Records /\ revocations \in 0 .. MaxRevocations /\ MaxRevocations \in Nat
  BY GrantsTyped, GrantsFit DEF GrantsInv, SessionsReached, Grants!ConstantsFit
<1>3. /\ since' \in Records /\ since'.held = since.held /\ since'.acked = since.acked
      /\ since.acked \in Nat
  BY <1>1, <1>2 DEF Records
<1>4. revocations' \in 0 .. MaxRevocations /\ since'.acked <= revocations'
  BY <1>1, <1>2, <1>3 DEF GrantsInv, SessionsReached
<1>5. /\ persistent' \in [Keys -> Grants!Entry] /\ \A k \in Keys : persistent'[k] = None
  BY <1>1 DEF Grants!Nothing, Grants!Entry
<1>6. None # "allow" /\ Local \subseteq Keys
  BY GrantsFit DEF Grants!ConstantsFit
<1>7. Grants!TypeOK'
  BY <1>1, <1>3, <1>5, <1>6, GrantsTyped
     DEF GrantsInv, Grants!TypeOK, Writings, SessionStates, Records
<1>8. Grants!RevokedStaysRevoked'
  BY <1>1, <1>3, <1>5, <1>6 DEF GrantsInv, Grants!RevokedStaysRevoked
<1>9. RevocationWrites'
  <2>1. revoking.at = "none"
    BY <1>1 DEF Grants!Lost
  <2>2. Allowed(persistent') = {}
    BY <1>5, <1>6 DEF Allowed
  <2>3. \A i \in 1 .. Len(writes) : writes[i].for # "revocation"
    BY <2>1, NoneOnItsWay
  <2> QED BY <1>1, <2>2, <2>3 DEF RevocationWrites
<1>10. Grants!NoOldClearance'
  BY <1>1, <1>3 DEF GrantsInv, Grants!NoOldClearance
<1>11. SessionsReached'
  <2>1. \A s \in Sessions : Tab[s] \in revoking'.tabs
    BY <1>1 DEF Grants!SessionTabs
  <2>2. revoking'.at = "tabs"
    BY <1>1
  <2> QED BY <1>1, <1>4, <2>1, <2>2 DEF GrantsInv, SessionsReached
<1>11a. LocalUnstored'
  BY <1>1 DEF GrantsInv, LocalUnstored
<1>12. DenialKept'
  BY <1>1 DEF DenialKept
<1> QED BY <1>7, <1>8, <1>9, <1>10, <1>11, <1>11a, <1>12 DEF GrantsInv

LEMMA RevokeTabStep ==
  ASSUME GrantsInv, NEW t \in Grants!SessionTabs, Grants!RevokeTab(t) PROVE GrantsInv'
<1> DEFINE S == {s \in Sessions : Tab[s] = t /\ session[s].at \in {"proposed", "cleared"}}
           over == [Grants!Idle EXCEPT !.at = "over"]
<1>1. /\ revoking.at = "tabs" /\ revoking' = [revoking EXCEPT !.tabs = revoking.tabs \ {t}]
      /\ session' = [s \in Sessions |-> IF s \in S THEN over ELSE session[s]]
      /\ once' = {g \in once : g[1] \notin S} /\ denied' = {g \in denied : g[1] \notin S}
      /\ UNCHANGED <<ready, persistent, kept, writes, pending, revocations, since, refused>>
  BY DEF Grants!RevokeTab, Grants!Ended, Grants!counters, Grants!history
<1>2. /\ session \in [Sessions -> SessionStates] /\ MaxRevocations \in Nat
      /\ revoking \in [tabs : SUBSET Grants!SessionTabs, at : {"none", "tabs", "write"}]
  BY GrantsTyped, GrantsFit DEF GrantsInv, Grants!ConstantsFit
<1>3. over \in SessionStates /\ over.at = "over"
  BY <1>2 DEF Grants!Idle, SessionStates
<1>4. \A s \in Sessions : s \notin S /\ session[s].at = "cleared" => Tab[s] # t
  OBVIOUS
<1> HIDE DEF S, over
<1>5. /\ session' \in [Sessions -> SessionStates]
      /\ \A s \in Sessions : IF s \in S THEN session'[s].at = "over" ELSE session'[s] = session[s]
  BY <1>1, <1>2, <1>3
<1>6. /\ revoking' \in [tabs : SUBSET Grants!SessionTabs, at : {"none", "tabs", "write"}]
      /\ revoking'.at = "tabs" /\ revoking'.tabs = revoking.tabs \ {t}
  BY <1>1, <1>2
<1>7. Grants!TypeOK'
  BY <1>1, <1>5, <1>6, GrantsTyped DEF GrantsInv, Grants!TypeOK, Writings, SessionStates, Records
<1>8. Grants!RevokedStaysRevoked'
  BY <1>1 DEF GrantsInv, Grants!RevokedStaysRevoked
<1>9. RevocationWrites'
  <2>1. \A i \in 1 .. Len(writes) : writes[i].for # "revocation"
    BY <1>1, NoneOnItsWay
  <2>2. Allowed(persistent) \subseteq since.begun /\ ready
    BY <1>1 DEF GrantsInv, RevocationWrites
  <2> QED BY <1>1, <2>1, <2>2 DEF RevocationWrites, Allowed
<1>10. Grants!NoOldClearance'
  BY <1>1, <1>5 DEF GrantsInv, Grants!NoOldClearance
<1>11. SessionsReached'
  BY <1>1, <1>4, <1>5, <1>6 DEF GrantsInv, SessionsReached
<1>11a. LocalUnstored'
  BY <1>1 DEF GrantsInv, LocalUnstored
<1>12. DenialKept'
  <2>1. \A s \in Sessions, k \in Keys : s \notin S /\ <<s, k>> \in denied => <<s, k>> \in denied'
    BY <1>1
  <2> QED BY <1>1, <1>5, <2>1 DEF GrantsInv, DenialKept, Latest
<1> QED BY <1>7, <1>8, <1>9, <1>10, <1>11, <1>11a, <1>12 DEF GrantsInv

LEMMA RevokeFailsStep == ASSUME GrantsInv, Grants!RevokeFails PROVE GrantsInv'
<1>1. /\ revoking.at = "tabs" /\ revoking' = Grants!Lost
      /\ UNCHANGED <<ready, persistent, once, denied, kept, writes, pending, session, revocations,
                     since, refused>>
  BY DEF Grants!RevokeFails, Grants!manager, Grants!counters, Grants!history
<1>2. /\ revoking' \in [tabs : SUBSET Grants!SessionTabs, at : {"none", "tabs", "write"}]
      /\ revoking'.at = "none"
  BY <1>1 DEF Grants!Lost
<1>3. Grants!TypeOK'
  BY <1>1, <1>2, GrantsTyped DEF GrantsInv, Grants!TypeOK, Writings, SessionStates, Records
<1>4. \A i \in 1 .. Len(writes) : writes[i].for # "revocation"
  BY <1>1, NoneOnItsWay
<1>5. RevocationWrites'
  BY <1>1, <1>2, <1>4 DEF RevocationWrites
<1>6. Grants!RevokedStaysRevoked' /\ Grants!NoOldClearance' /\ LocalUnstored'
  BY <1>1 DEF GrantsInv, LocalUnstored, Grants!RevokedStaysRevoked, Grants!NoOldClearance
<1>7. SessionsReached'
  BY <1>1, <1>2 DEF GrantsInv, SessionsReached
<1>8. DenialKept'
  BY <1>1 DEF GrantsInv, DenialKept, Latest
<1> QED BY <1>3, <1>5, <1>6, <1>7, <1>8 DEF GrantsInv

LEMMA RevokeWriteStep == ASSUME GrantsInv, Grants!RevokeWrite PROVE GrantsInv'
<1> DEFINE w == [value |-> persistent, for |-> "revocation"]
<1>1. /\ revoking.at = "tabs" /\ revoking.tabs = {}
      /\ revoking' = [revoking EXCEPT !.at = "write"] /\ writes' = Append(writes, w)
      /\ UNCHANGED <<ready, persistent, once, denied, kept, pending, session, revocations,
                     since, refused>>
  BY DEF Grants!RevokeWrite, Grants!Persist, Grants!manager, Grants!counters, Grants!history
<1>2. /\ writes \in Seq(Writings) /\ w \in Writings /\ w.value = persistent /\ w.for = "revocation"
      /\ revoking \in [tabs : SUBSET Grants!SessionTabs, at : {"none", "tabs", "write"}]
  BY GrantsTyped DEF GrantsInv, Writings, Grants!Waiting
<1> HIDE DEF w
<1>3. /\ writes' \in Seq(Writings) /\ Len(writes') = Len(writes) + 1 /\ Len(writes) \in Nat
      /\ \A i \in 1 .. Len(writes) : writes'[i] = writes[i]
      /\ writes'[Len(writes) + 1] = w /\ Latest' = persistent
  BY <1>1, <1>2, Sent
<1>4. /\ revoking' \in [tabs : SUBSET Grants!SessionTabs, at : {"none", "tabs", "write"}]
      /\ revoking'.at = "write" /\ revoking'.tabs = {}
  BY <1>1, <1>2
<1>5. Grants!TypeOK'
  BY <1>1, <1>3, <1>4, GrantsTyped DEF GrantsInv, Grants!TypeOK, Writings, SessionStates, Records
<1>6. Grants!RevokedStaysRevoked'
  <2>1. ASSUME NEW i \in 1 .. Len(writes'), NEW x \in Keys, writes'[i].value[x] = "allow"
        PROVE  x \in since.held
    <3>1. CASE i \in 1 .. Len(writes)
      BY <1>3, <2>1, <3>1 DEF GrantsInv, Grants!RevokedStaysRevoked
    <3>2. CASE i = Len(writes) + 1
      BY <1>2, <1>3, <2>1, <3>2 DEF GrantsInv, Grants!RevokedStaysRevoked
    <3> QED BY <1>3, <3>1, <3>2
  <2> QED BY <1>1, <2>1 DEF GrantsInv, Grants!RevokedStaysRevoked
<1>7. RevocationWrites'
  <2>1. \A i \in 1 .. Len(writes) : writes[i].for # "revocation"
    BY <1>1, NoneOnItsWay
  <2>2. Allowed(persistent) \subseteq since.begun /\ ready
    BY <1>1 DEF GrantsInv, RevocationWrites
  <2>3. \A i \in 1 .. Len(writes') : writes'[i].for = "revocation" => i = Len(writes')
    BY <1>3, <2>1
  <2>4. Allowed(writes'[Len(writes')].value) \subseteq since.begun
    BY <1>2, <1>3, <2>2
  <2>5. Allowed(persistent') \subseteq since'.begun /\ ready'
    BY <1>1, <2>2 DEF Allowed
  <2>6. \A i \in 1 .. Len(writes') : writes'[i].for = "revocation" =>
          \A j \in i .. Len(writes') : Allowed(writes'[j].value) \subseteq since'.begun
    BY <1>1, <1>3, <2>3, <2>4
  <2> QED BY <1>4, <2>3, <2>5, <2>6 DEF RevocationWrites
<1>7a. LocalUnstored'
  <2>1. \A k \in Local : persistent[k] = None
    BY GrantsTyped DEF GrantsInv
  <2> QED BY <1>2, <1>3, <2>1 DEF GrantsInv, LocalUnstored
<1>8. Grants!NoOldClearance'
  BY <1>1 DEF GrantsInv, Grants!NoOldClearance
<1>9. SessionsReached'
  BY <1>1, <1>4 DEF GrantsInv, SessionsReached
<1>10. DenialKept'
  <2>1. ready
    BY <1>1 DEF GrantsInv, RevocationWrites
  <2> QED BY <1>1, <1>3, <2>1 DEF GrantsInv, DenialKept
<1> QED BY <1>5, <1>6, <1>7, <1>7a, <1>8, <1>9, <1>10 DEF GrantsInv

\* A write that is done or refused leaves the others in their order.
LEMMA Popped ==
  ASSUME writes \in Seq(Writings), writes # <<>>, writes' = Tail(writes)
  PROVE  /\ writes' \in Seq(Writings) /\ Len(writes) \in Nat /\ Len(writes) > 0
         /\ Len(writes') = Len(writes) - 1
         /\ \A i \in 1 .. Len(writes') : writes'[i] = writes[i + 1] /\ i + 1 \in 1 .. Len(writes)
         /\ Head(writes) = writes[1] /\ Head(writes) \in Writings
         /\ Len(writes) > 1 => writes' # <<>> /\ Latest' = Latest
         /\ Len(writes) = 1 => writes' = <<>> /\ Latest = Head(writes).value
<1>1. /\ writes' \in Seq(Writings) /\ Len(writes) \in Nat /\ Len(writes) > 0
      /\ Len(writes') = Len(writes) - 1
      /\ \A i \in 1 .. Len(writes') : writes'[i] = writes[i + 1] /\ i + 1 \in 1 .. Len(writes)
      /\ Head(writes) = writes[1] /\ Head(writes) \in Writings
  OBVIOUS
<1>2. Len(writes) > 1 => writes' # <<>>
  <2>1. Len(writes) > 1 => Len(writes') # 0
    BY <1>1
  <2> QED BY <2>1, Len(<<>>) = 0
<1>3. Len(writes) = 1 => writes' = <<>>
  BY <1>1
<1>4. Len(writes) > 1 => writes'[Len(writes')] = writes[Len(writes)]
  BY <1>1
<1>5. Len(writes) > 1 => Latest' = Latest
  BY <1>2, <1>4 DEF Latest
<1>6. Len(writes) = 1 => Latest = Head(writes).value
  BY <1>1 DEF Latest
<1> QED BY <1>1, <1>2, <1>3, <1>5, <1>6

LEMMA WrittenStep == ASSUME GrantsInv, NEW done \in BOOLEAN, Grants!Written(done) PROVE GrantsInv'
<1> DEFINE head == Head(writes)
           acked == head.for = "revocation" /\ revoking.at = "write"
<1>1. /\ writes # <<>> /\ writes' = Tail(writes)
      /\ UNCHANGED <<ready, persistent, once, denied, pending, session, revocations>>
  BY DEF Grants!Written, Grants!manager, Grants!counters
<1>2. /\ writes \in Seq(Writings) /\ kept \in [Keys -> Grants!Entry] /\ since \in Records
      /\ revoking \in [tabs : SUBSET Grants!SessionTabs, at : {"none", "tabs", "write"}]
      /\ refused \subseteq Sessions \X Keys /\ revocations \in 0 .. MaxRevocations
      /\ MaxRevocations \in Nat /\ Local \subseteq Keys
  BY GrantsTyped, GrantsFit DEF GrantsInv, SessionsReached, Grants!ConstantsFit
<1>3. /\ writes' \in Seq(Writings) /\ Len(writes) \in Nat /\ Len(writes) > 0
      /\ Len(writes') = Len(writes) - 1
      /\ \A i \in 1 .. Len(writes') : writes'[i] = writes[i + 1] /\ i + 1 \in 1 .. Len(writes)
      /\ head = writes[1] /\ head \in Writings
      /\ Len(writes) > 1 => writes' # <<>> /\ Latest' = Latest
      /\ Len(writes) = 1 => writes' = <<>> /\ Latest = head.value
  BY <1>1, <1>2, Popped
<1>4. kept' = kept \/ (done /\ kept' = head.value)
  BY DEF Grants!Written
<1>5. (done /\ kept' = head.value) \/ refused' = {r \in refused : r[2] \in Local}
  BY DEF Grants!Written
<1>6. refused' \subseteq refused
  BY DEF Grants!Written
<1>7. /\ acked => revoking' = Grants!Lost
      /\ ~acked => revoking' = revoking /\ since' = since
  BY DEF Grants!Written
<1>8. \/ since' = since
      \/ /\ acked /\ kept' = head.value
         /\ since' = [since EXCEPT !.held = since.begun, !.acked = revocations]
  BY <1>7 DEF Grants!Written, Grants!Acknowledges
<1>9. /\ since' \in Records /\ since'.begun = since.begun
      /\ \/ since'.held = since.held /\ since'.acked = since.acked
         \/ /\ acked /\ kept' = head.value
            /\ since'.held = since.begun /\ since'.acked = revocations
  BY <1>2, <1>8 DEF Records
<1>10. /\ revoking' \in [tabs : SUBSET Grants!SessionTabs, at : {"none", "tabs", "write"}]
       /\ revoking'.at = "none" \/ (~acked /\ revoking' = revoking)
  BY <1>2, <1>7 DEF Grants!Lost
<1>11. acked => \A i \in 1 .. Len(writes) : Allowed(writes[i].value) \subseteq since.begun
  <2> SUFFICES ASSUME acked, NEW i \in 1 .. Len(writes)
               PROVE  Allowed(writes[i].value) \subseteq since.begun
    OBVIOUS
  <2>1. 1 \in 1 .. Len(writes) /\ writes[1].for = "revocation"
    BY <1>3
  <2> QED BY <2>1 DEF GrantsInv, RevocationWrites
<1>12. acked => Allowed(persistent) \subseteq since.begun
  BY DEF GrantsInv, RevocationWrites
<1>13. /\ head.value \in [Keys -> Grants!Entry]
       /\ \A k \in Keys : head.value[k] = "allow" => k \in since.held
       /\ \A k \in Local : head.value[k] = None
  <2>1. 1 \in 1 .. Len(writes)
    BY <1>3
  <2> QED BY <1>3, <2>1 DEF GrantsInv, Grants!RevokedStaysRevoked, LocalUnstored, Writings
<1> HIDE DEF head
<1> HIDE DEF acked
<1>14. Grants!TypeOK'
  <2>1. kept' \in [Keys -> Grants!Entry] /\ \A k \in Local : kept'[k] = None
    BY <1>2, <1>4, <1>13, GrantsTyped DEF GrantsInv
  <2>2. refused' \subseteq Sessions \X Keys
    BY <1>2, <1>6
  <2> QED BY <1>1, <1>3, <1>9, <1>10, <2>1, <2>2, GrantsTyped
          DEF GrantsInv, Grants!TypeOK, Writings, SessionStates, Records
<1>15. Grants!RevokedStaysRevoked'
  <2>1. CASE acked /\ kept' = head.value /\ since'.held = since.begun
    <3>1. Allowed(kept') \subseteq since.begun
      BY <1>3, <1>11, <2>1
    <3>2. ASSUME NEW i \in 1 .. Len(writes') PROVE Allowed(writes'[i].value) \subseteq since.begun
      BY <1>3, <1>11, <2>1
    <3> QED BY <1>1, <1>12, <2>1, <3>1, <3>2 DEF Grants!RevokedStaysRevoked, Allowed
  <2>2. CASE since'.held = since.held
    <3>1. \A k \in Keys : persistent'[k] = "allow" \/ kept'[k] = "allow" => k \in since'.held
      BY <1>1, <1>4, <1>13, <2>2 DEF GrantsInv, Grants!RevokedStaysRevoked
    <3>2. \A i \in 1 .. Len(writes'), k \in Keys : writes'[i].value[k] = "allow" => k \in since'.held
      BY <1>3, <2>2 DEF GrantsInv, Grants!RevokedStaysRevoked
    <3> QED BY <3>1, <3>2 DEF Grants!RevokedStaysRevoked
  <2> QED BY <1>9, <2>1, <2>2
<1>16. RevocationWrites'
  <2>1. revoking'.at # "none" =>
          /\ revoking' = revoking /\ ready' /\ Allowed(persistent') \subseteq since'.begun
    BY <1>1, <1>9, <1>10 DEF GrantsInv, RevocationWrites, Allowed
  <2>2. ASSUME NEW i \in 1 .. Len(writes'), writes'[i].for = "revocation"
        PROVE  /\ revoking'.at = "write"
               /\ \A j \in i .. Len(writes') : Allowed(writes'[j].value) \subseteq since'.begun
               /\ \A j \in 1 .. Len(writes') : writes'[j].for = "revocation" => j = i
    <3>1. /\ i + 1 \in 1 .. Len(writes) /\ i \in Nat /\ i >= 1
          /\ writes[i + 1].for = "revocation"
      BY <1>3, <2>2
    <3>2. /\ revoking.at = "write"
          /\ \A j \in i + 1 .. Len(writes) : Allowed(writes[j].value) \subseteq since.begun
          /\ \A j \in 1 .. Len(writes) : writes[j].for = "revocation" => j = i + 1
      BY <3>1 DEF GrantsInv, RevocationWrites
    <3>3. ~acked
      <4>1. 1 \in 1 .. Len(writes) /\ i + 1 # 1
        BY <1>3, <3>1
      <4> QED BY <1>3, <3>2, <4>1 DEF acked
    <3>4. ASSUME NEW j \in i .. Len(writes') PROVE Allowed(writes'[j].value) \subseteq since'.begun
      <4>1. j \in 1 .. Len(writes') /\ j + 1 \in i + 1 .. Len(writes)
        BY <1>3, <3>1
      <4> QED BY <1>3, <1>9, <3>2, <4>1
    <3>5. ASSUME NEW j \in 1 .. Len(writes'), writes'[j].for = "revocation" PROVE j = i
      <4>1. j + 1 = i + 1 /\ j \in Nat
        BY <1>3, <3>2, <3>5
      <4> QED BY <3>1, <4>1
    <3> QED BY <1>7, <3>2, <3>3, <3>4, <3>5
  <2> QED BY <2>1, <2>2 DEF RevocationWrites
<1>17. LocalUnstored'
  BY <1>3 DEF GrantsInv, LocalUnstored
<1>18. Grants!NoOldClearance' /\ SessionsReached'
  <2>1. acked => \A s \in Sessions : session[s].at = "cleared" => session[s].seen = revocations
    BY DEF acked, GrantsInv, SessionsReached
  <2>2. since'.acked <= revocations
    BY <1>2, <1>9 DEF GrantsInv, SessionsReached
  <2>3. Grants!NoOldClearance'
    BY <1>1, <1>2, <1>9, <2>1 DEF GrantsInv, Grants!NoOldClearance
  <2>4. SessionsReached'
    BY <1>1, <1>10, <2>2 DEF GrantsInv, SessionsReached
  <2> QED BY <2>3, <2>4
<1>19. DenialKept'
  <2>1. ASSUME NEW s \in Sessions, NEW k \in Keys, <<s, k>> \in refused', k \notin Local
        PROVE  Latest'[k] = "deny" /\ (ready => persistent[k] = "deny")
    <3>1. <<s, k>> \in refused /\ kept' = head.value
      BY <1>5, <1>6, <2>1
    <3>2. Latest[k] = "deny" /\ (ready => persistent[k] = "deny")
      BY <2>1, <3>1 DEF GrantsInv, DenialKept
    <3>3. Latest' = Latest
      <4>1. CASE Len(writes) = 1
        BY <1>3, <3>1, <4>1 DEF Latest
      <4>2. CASE Len(writes) > 1
        BY <1>3, <4>2
      <4> QED BY <1>3, <4>1, <4>2
    <3> QED BY <3>2, <3>3
  <2> QED BY <1>1, <1>6, <2>1 DEF GrantsInv, DenialKept
<1> QED BY <1>14, <1>15, <1>16, <1>17, <1>18, <1>19 DEF GrantsInv

LEMMA GrantsRestart == ASSUME GrantsInv, Grants!Restart PROVE GrantsInv'
<1>1. /\ ready' = FALSE /\ persistent' = Grants!Nothing /\ once' = {} /\ denied' = {}
      /\ pending' = {} /\ revoking' = Grants!Lost
      /\ writes' = [i \in DOMAIN writes |-> [writes[i] EXCEPT !.for = "decision"]]
      /\ session' = [s \in Sessions |-> IF session[s].at = "idle" THEN Grants!Idle
                                        ELSE [Grants!Idle EXCEPT !.at = "over"]]
      /\ refused' = {r \in refused : r[2] \notin Local}
      /\ UNCHANGED <<kept, revocations, since>>
  BY DEF Grants!Restart, Grants!Reset
<1>2. /\ writes \in Seq(Writings) /\ MaxRevocations \in Nat /\ None # "allow"
      /\ Local \subseteq Keys /\ refused \subseteq Sessions \X Keys
  BY GrantsTyped, GrantsFit DEF GrantsInv, Grants!ConstantsFit
<1>3. ~ready'
  BY <1>1, Zenon
<1>4. /\ Grants!Idle \in SessionStates /\ Grants!Idle.at = "idle"
      /\ [Grants!Idle EXCEPT !.at = "over"] \in SessionStates
      /\ [Grants!Idle EXCEPT !.at = "over"].at = "over"
  BY <1>2 DEF Grants!Idle, SessionStates
<1>5. /\ session' \in [Sessions -> SessionStates]
      /\ \A s \in Sessions : session'[s].at \in {"idle", "over"}
      /\ \A s \in Sessions : session[s].at = "over" => session'[s].at = "over"
  BY <1>1, <1>4
<1>6. /\ writes' \in Seq(Writings) /\ Len(writes') = Len(writes) /\ Len(writes) \in Nat
      /\ \A i \in 1 .. Len(writes) :
           writes'[i].value = writes[i].value /\ writes'[i].for = "decision"
  <2> DEFINE F(i) == [writes[i] EXCEPT !.for = "decision"]
  <2>1. DOMAIN writes = 1 .. Len(writes) /\ Len(writes) \in Nat
    BY <1>2
  <2>2. ASSUME NEW i \in 1 .. Len(writes)
        PROVE  F(i) \in Writings /\ F(i).value = writes[i].value /\ F(i).for = "decision"
    <3>1. writes[i] \in Writings
      BY <1>2
    <3> QED BY <3>1 DEF Writings, Grants!Waiting
  <2>3. writes' = [i \in 1 .. Len(writes) |-> F(i)]
    BY <1>1, <2>1
  <2> HIDE DEF F
  <2>4. writes' \in Seq(Writings) /\ Len(writes') = Len(writes)
    BY <2>1, <2>2, <2>3
  <2>5. \A i \in 1 .. Len(writes) : writes'[i] = F(i)
    BY <2>3
  <2> QED BY <2>1, <2>2, <2>4, <2>5
<1>7. /\ persistent' \in [Keys -> Grants!Entry] /\ \A k \in Keys : persistent'[k] = None
  BY <1>1 DEF Grants!Nothing, Grants!Entry
<1>8. /\ revoking' \in [tabs : SUBSET Grants!SessionTabs, at : {"none", "tabs", "write"}]
      /\ revoking'.at = "none"
  BY <1>1 DEF Grants!Lost
<1>9. Grants!TypeOK'
  <2>1. ready' \in BOOLEAN /\ refused' \subseteq Sessions \X Keys
    BY <1>1, <1>2
  <2> QED BY <1>1, <1>2, <1>5, <1>6, <1>7, <1>8, <2>1, GrantsTyped
          DEF GrantsInv, Grants!TypeOK, Writings, SessionStates, Records
<1>10. Grants!RevokedStaysRevoked'
  BY <1>1, <1>2, <1>6, <1>7 DEF GrantsInv, Grants!RevokedStaysRevoked
<1>11. RevocationWrites'
  BY <1>6, <1>8 DEF RevocationWrites
<1>12. LocalUnstored'
  BY <1>6 DEF GrantsInv, LocalUnstored
<1>13. Grants!NoOldClearance' /\ SessionsReached'
  BY <1>1, <1>5, <1>8 DEF GrantsInv, Grants!NoOldClearance, SessionsReached
<1>14. DenialKept'
  <2>1. Latest' = Latest
    <3>1. CASE Len(writes) = 0
      <4>1. writes = <<>> /\ writes' = <<>>
        BY <1>2, <1>6, <3>1
      <4> QED BY <1>1, <4>1 DEF Latest
    <3>2. CASE Len(writes) > 0
      <4>1. writes # <<>> /\ writes' # <<>>
        BY <1>6, <3>2, Len(<<>>) = 0
      <4> QED BY <1>6, <3>2, <4>1 DEF Latest
    <3> QED BY <1>6, <3>1, <3>2
  <2>2. \A s \in Sessions, k \in Keys : <<s, k>> \in refused' =>
          k \notin Local /\ Latest'[k] = "deny"
    BY <1>1, <2>1 DEF GrantsInv, DenialKept
  <2> QED BY <1>3, <2>2 DEF DenialKept
<1> QED BY <1>9, <1>10, <1>11, <1>12, <1>13, <1>14 DEF GrantsInv

LEMMA LoadStep == ASSUME GrantsInv, Grants!Load PROVE GrantsInv'
<1>1. /\ ~ready /\ writes = <<>> /\ ready' = TRUE /\ persistent' = kept
      /\ UNCHANGED <<once, denied, kept, writes, pending, session, revoking, revocations, since,
                     refused>>
  BY DEF Grants!Load, Grants!counters, Grants!history
<1>2. revoking.at = "none"
  BY <1>1 DEF GrantsInv, RevocationWrites
<1>3. Grants!TypeOK'
  <2>1. ready' \in BOOLEAN
    BY <1>1, Zenon
  <2> QED BY <1>1, <2>1, GrantsTyped
          DEF GrantsInv, Grants!TypeOK, Writings, SessionStates, Records
<1>4. Grants!RevokedStaysRevoked' /\ LocalUnstored'
  BY <1>1 DEF GrantsInv, Grants!RevokedStaysRevoked, LocalUnstored
<1>5. RevocationWrites'
  BY <1>1, <1>2 DEF GrantsInv, RevocationWrites
<1>6. Grants!NoOldClearance' /\ SessionsReached'
  BY <1>1 DEF GrantsInv, Grants!NoOldClearance, SessionsReached
<1>7. DenialKept'
  <2>1. Latest' = Latest /\ Latest = persistent'
    BY <1>1 DEF Latest
  <2> QED BY <1>1, <2>1 DEF GrantsInv, DenialKept
<1> QED BY <1>3, <1>4, <1>5, <1>6, <1>7 DEF GrantsInv

-----------------------------------------------------------------------------
(* The permissions: the theorems.                                          *)

LEMMA GrantsInit == Grants!Init => GrantsInv
<1> SUFFICES ASSUME Grants!Init PROVE GrantsInv
  OBVIOUS
<1>1. MaxRevocations \in Nat /\ Local \subseteq Keys
  BY GrantsFit DEF Grants!ConstantsFit
<1>2. Grants!Idle \in SessionStates /\ Grants!Idle.at = "idle"
  BY <1>1 DEF Grants!Idle, SessionStates
<1>3. /\ ready = FALSE /\ persistent = Grants!Nothing /\ once = {} /\ denied = {} /\ writes = <<>>
      /\ pending = {} /\ session = [s \in Sessions |-> Grants!Idle] /\ revoking = Grants!Lost
      /\ revocations = 0 /\ since = [begun |-> {}, held |-> Keys, acked |-> 0] /\ refused = {}
  BY DEF Grants!Init
<1>4. kept \in [Keys -> Grants!Entry] /\ \A k \in Local : kept[k] = None
  BY <1>1 DEF Grants!Init, Grants!Entry
<1>5. persistent \in [Keys -> Grants!Entry] /\ \A k \in Keys : persistent[k] = None
  BY <1>3 DEF Grants!Nothing, Grants!Entry
<1>6. revoking.at = "none" /\ revoking.tabs = {}
  BY <1>3 DEF Grants!Lost
<1>7. since \in Records /\ since.held = Keys /\ since.acked = 0
  BY <1>1, <1>3 DEF Records
<1>8. Grants!TypeOK
  <2>1. ready \in BOOLEAN
    BY <1>3, Zenon
  <2>2. /\ writes \in Seq(Writings) /\ session \in [Sessions -> SessionStates]
        /\ revoking \in [tabs : SUBSET Grants!SessionTabs, at : {"none", "tabs", "write"}]
    BY <1>2, <1>3 DEF Grants!Lost
  <2> QED BY <1>1, <1>3, <1>4, <1>5, <1>7, <2>1, <2>2, GrantsTyped
<1>9. Len(writes) = 0
  BY <1>3, Len(<<>>) = 0
<1>10. Grants!RevokedStaysRevoked /\ Grants!NoOldClearance
  BY <1>2, <1>3, <1>7, <1>9 DEF Grants!RevokedStaysRevoked, Grants!NoOldClearance
<1>11. RevocationWrites /\ LocalUnstored
  BY <1>6, <1>9 DEF RevocationWrites, LocalUnstored
<1>12. SessionsReached
  BY <1>1, <1>2, <1>3, <1>6, <1>7 DEF SessionsReached
<1>13. DenialKept
  BY <1>3 DEF DenialKept
<1> QED BY <1>8, <1>10, <1>11, <1>12, <1>13 DEF GrantsInv

LEMMA GrantsStep == ASSUME GrantsInv, [Grants!Next]_Grants!vars PROVE GrantsInv'
<1>1. ASSUME NEW s \in Sessions, NEW k \in Keys, NEW d \in {"once", "always", "deny"},
             Grants!Decide(s, k, d)
      PROVE  GrantsInv'
  BY <1>1, DecideStep
<1>2. ASSUME NEW s \in Sessions,
             (\E k \in Keys : Grants!Propose(s, k)) \/ Grants!Gate(s) \/ Grants!Ask(s)
               \/ Grants!Dispatch(s) \/ Grants!End(s)
      PROVE  GrantsInv'
  BY <1>2, SessionSteps
<1>3. ASSUME NEW r \in pending, Grants!Expire(r) PROVE GrantsInv'
  BY <1>3, ExpireStep
<1>4. CASE Grants!Revoke \/ (\E t \in Grants!SessionTabs : Grants!RevokeTab(t))
             \/ Grants!RevokeWrite \/ Grants!RevokeFails
  BY <1>4, RevokeStep, RevokeTabStep, RevokeWriteStep, RevokeFailsStep
<1>5. CASE \E done \in BOOLEAN : Grants!Written(done)
  BY <1>5, WrittenStep
<1>6. CASE Grants!Restart \/ Grants!Load
  BY <1>6, GrantsRestart, LoadStep
<1>7. CASE UNCHANGED Grants!vars
  <2>1. StoreRests /\ UNCHANGED <<refused, denied, once, pending, session>>
    BY <1>7 DEF Grants!vars, StoreRests
  <2>2. pending \subseteq Sessions \X Keys /\ session \in [Sessions -> SessionStates]
    BY GrantsTyped DEF GrantsInv
  <2> QED BY <2>1, <2>2, SessionStep
<1> QED BY <1>1, <1>2, <1>3, <1>4, <1>5, <1>6, <1>7 DEF Grants!Next

\* The inductive invariant of the permissions.
THEOREM GrantsInvariance == Grants!Spec => []GrantsInv
<1>1. GrantsInv /\ [Grants!Next]_Grants!vars => GrantsInv'
  BY GrantsStep
<1> QED BY <1>1, GrantsInit, PTL DEF Grants!Spec

\* For any number of keys, sessions, tabs, decisions and restarts: what was acknowledged
\* as revoked is not allowed again by memory, storage or a write on its way, and nothing
\* is sent under a check from before the revocation.
THEOREM RevocationHolds == FairBoth => []RevokedStaysRevoked
<1>1. GrantsInv /\ [BothNext]_all => GrantsInv'
  BY GrantsStep, Alone
<1>2. BothInit => GrantsInv
  BY GrantsInit DEF BothInit
<1>3. GrantsInv => RevokedStaysRevoked
  BY DEF GrantsInv, RevokedStaysRevoked
<1> QED BY <1>1, <1>2, <1>3, PTL DEF FairBoth

\* A step of another kind clears no session.
LEMMA ClearedByGate ==
  ASSUME GrantsInv, [Grants!Next]_Grants!vars, NEW s \in Sessions,
         session[s].at = "proposed", session'[s].at = "cleared"
  PROVE  Grants!Gate(s)
<1>1. session \in [Sessions -> SessionStates] /\ session'[s] # session[s]
  BY GrantsTyped DEF GrantsInv
<1>2. Grants!Idle.at = "idle" /\ [Grants!Idle EXCEPT !.at = "over"].at = "over"
  BY DEF Grants!Idle
<1>3. ASSUME NEW q \in Sessions, NEW k \in Keys,
             Grants!Propose(q, k) \/ \E d \in {"once", "always", "deny"} : Grants!Decide(q, k, d)
      PROVE  FALSE
  BY <1>1, <1>3 DEF Grants!Propose, Grants!Decide
<1>4. ASSUME NEW q \in Sessions,
             Grants!Gate(q) \/ Grants!Ask(q) \/ Grants!Dispatch(q) \/ Grants!End(q)
      PROVE  Grants!Gate(s)
  <2>1. CASE q = s
    <3>1. ~Grants!Ask(s) /\ ~Grants!Dispatch(s) /\ ~Grants!End(s)
      BY <1>1, <1>2 DEF Grants!Ask, Grants!Dispatch, Grants!End
    <3> QED BY <1>4, <2>1, <3>1
  <2>2. CASE q # s
    BY <1>1, <1>4, <2>2 DEF Grants!Gate, Grants!Ask, Grants!Dispatch, Grants!End
  <2> QED BY <2>1, <2>2
<1>5. ASSUME NEW t \in Grants!SessionTabs, Grants!RevokeTab(t) PROVE FALSE
  BY <1>1, <1>2, <1>5 DEF Grants!RevokeTab, Grants!Ended
<1>6. ~Grants!Revoke /\ ~Grants!RevokeWrite /\ ~Grants!RevokeFails /\ ~Grants!Load
  BY <1>1 DEF Grants!Revoke, Grants!RevokeWrite, Grants!RevokeFails, Grants!Load
<1>7. ~Grants!Restart
  BY <1>1, <1>2 DEF Grants!Restart, Grants!Reset
<1>8. ~(\E r \in pending : Grants!Expire(r)) /\ ~(\E done \in BOOLEAN : Grants!Written(done))
  BY <1>1 DEF Grants!Expire, Grants!Written
<1>9. ~UNCHANGED Grants!vars
  BY <1>1 DEF Grants!vars
<1> QED BY <1>3, <1>4, <1>5, <1>6, <1>7, <1>8, <1>9 DEF Grants!Next

\* What was denied is not cleared by the gate.
LEMMA GateRefuses ==
  ASSUME GrantsInv, NEW s \in Sessions, Grants!Gate(s)
  PROVE  <<s, session[s].key>> \notin refused
<1> DEFINE k == session[s].key
<1>1. ready /\ session[s].at = "proposed" /\ Grants!Check(s, k) = "allow"
  BY DEF Grants!Gate
<1>2. k \in Keys
  BY <1>1 DEF GrantsInv, SessionsReached
<1>3. /\ denied \subseteq Sessions \X Local /\ None \notin {"allow", "deny"}
      /\ \A x \in Local : persistent[x] = None
  BY GrantsTyped, GrantsFit DEF GrantsInv, Grants!ConstantsFit
<1>4. SUFFICES ASSUME <<s, k>> \in refused PROVE FALSE
  OBVIOUS
<1> HIDE DEF k
<1>5. CASE k \in Local
  <2>1. <<s, k>> \in denied
    BY <1>1, <1>2, <1>4, <1>5 DEF GrantsInv, DenialKept, k
  <2> QED BY <1>1, <2>1 DEF Grants!Check
<1>6. CASE k \notin Local
  <2>1. persistent[k] = "deny" /\ <<s, k>> \notin denied
    BY <1>1, <1>2, <1>3, <1>4, <1>6 DEF GrantsInv, DenialKept
  <2> QED BY <1>1, <1>3, <2>1 DEF Grants!Check
<1> QED BY <1>5, <1>6

\* A key the user denied passes no gate until the user allows it or revokes everything,
\* not by a grant for a run and not after a restart.
THEOREM DenialIsKept == FairBoth => DenialHolds
<1>1. ASSUME GrantsInv, [BothNext]_all, NEW s \in Sessions,
             session[s].at = "proposed", session'[s].at = "cleared"
      PROVE  <<s, session[s].key>> \notin refused
  BY <1>1, Alone, ClearedByGate, GateRefuses
<1>2. GrantsInv /\ [BothNext]_all =>
        [\A s \in Sessions : session[s].at = "proposed" /\ session'[s].at = "cleared" =>
           <<s, session[s].key>> \notin refused]_Grants!vars
  BY <1>1
<1>3. GrantsInv /\ [BothNext]_all => GrantsInv'
  BY GrantsStep, Alone
<1>4. BothInit => GrantsInv
  BY GrantsInit DEF BothInit
<1> QED BY <1>2, <1>3, <1>4, PTL DEF FairBoth, DenialHolds, Grants!DenialHolds
=============================================================================
