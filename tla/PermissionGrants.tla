--------------------------- MODULE PermissionGrants ---------------------------
(***************************************************************************)
(* Permissions of the service worker: the manager                          *)
(* (policy/permission-manager.ts), its requests, decisions and revocation  *)
(* (run-control-message-handler.ts, core-message-handlers.ts), the gate of *)
(* the proposal executor (permission-mode.ts, act-proposal-executor.ts)    *)
(* and what a restart loads again (storage-bootstrap.ts).                  *)
(*                                                                         *)
(* A key is a capability on a host.  A grant is kept for its run, or       *)
(* stored; on a development host never stored.                             *)
(***************************************************************************)
EXTENDS Naturals, Sequences

CONSTANTS
  Keys, Local,       \* capability and host; those on localhost or an IP
  Sessions, Tab,     \* sessions of the act mode, and the tab of each
  None,
  MaxDecisions, MaxRevocations, MaxRestarts   \* bounds

ConstantsFit ==
  /\ Local \subseteq Keys /\ None \notin Keys \cup {"allow", "deny", "ask"}
  /\ MaxRevocations \in Nat

VARIABLES
  ready,        \* the storage was read: messages are handled
  persistent,   \* the manager's stored entries, in memory
  once, denied, \* <<session, key>> of its run-scoped entries
  stored,       \* contextpilot_permissions
  writes,       \* writes on their way to the storage, oldest first
  request,      \* the pending permission requests
  session,      \* where each session stands
  revoking,     \* the revocation that is running: the tabs it has not reached
  decisions, revocations, restarts,
  since,        \* history: keys allowed for good since the last acknowledged revocation began
  refused       \* history: <<session, key>> the user denied, nothing newer undoing it

vars == <<ready, persistent, once, denied, stored, writes, request, session, revoking,
          decisions, revocations, restarts, since, refused>>
manager == <<persistent, once, denied>>
counters == <<decisions, revocations, restarts>>
history == <<since, refused>>

SessionTabs == {Tab[s] : s \in Sessions}
Entry == {"allow", "deny", None}
Nothing == [k \in Keys |-> None]
Waiting == {"decision", "revocation"}
Idle == [at |-> "idle", key |-> None, seen |-> 0]
Lost == [tabs |-> {}, at |-> "none"]

TypeOK ==
  /\ ready \in BOOLEAN /\ persistent \in [Keys -> Entry] /\ stored \in [Keys -> Entry]
  /\ once \subseteq Sessions \X Keys /\ denied \subseteq Sessions \X Local
  /\ writes \in Seq([value : [Keys -> Entry], for : Waiting])
  /\ request \subseteq Sessions \X Keys
  /\ session \in [Sessions -> [at : {"idle", "proposed", "cleared", "over"},
                               key : Keys \cup {None}, seen : 0 .. MaxRevocations]]
  /\ revoking \in [tabs : SUBSET SessionTabs, at : {"none", "tabs", "write"}]
  /\ refused \subseteq Sessions \X Keys
  /\ since \in [begun : SUBSET Keys, held : SUBSET Keys, acked : 0 .. MaxRevocations]
  /\ \A k \in Local : persistent[k] = None /\ stored[k] = None

\* Mutant of Check: a grant for the run is looked up before the stored entries.
CheckOnceFirst(s, k) ==
  IF <<s, k>> \in denied THEN "deny"
  ELSE IF <<s, k>> \in once THEN "allow"
  ELSE IF persistent[k] # None THEN persistent[k] ELSE "ask"
\* check() and, for a policy that asks, gatePermission().
Check(s, k) ==
  IF <<s, k>> \in denied THEN "deny"
  ELSE IF persistent[k] # None THEN persistent[k]
  ELSE IF <<s, k>> \in once THEN "allow" ELSE "ask"

\* endRun()
Forgotten(s) ==
  once' = {g \in once : g[1] # s} /\ denied' = {g \in denied : g[1] # s}

\* storage.local.set() of a snapshot of the manager.
Persist(value, for) == writes' = Append(writes, [value |-> value, for |-> for])

-----------------------------------------------------------------------------
(* The session and its executor.                                           *)

Propose(s, k) ==
  /\ ready /\ session[s].at = "idle"
  /\ session' = [session EXCEPT ![s] = [at |-> "proposed", key |-> k, seen |-> 0]]
  /\ UNCHANGED <<ready, manager, stored, writes, request, revoking, counters, history>>

\* The gate of executeProposal().
Gate(s) ==
  /\ ready /\ session[s].at = "proposed" /\ Check(s, session[s].key) = "allow"
  /\ session' = [session EXCEPT ![s].at = "cleared", ![s].seen = revocations]
  /\ UNCHANGED <<ready, manager, stored, writes, request, revoking, counters, history>>

Ask(s) ==
  /\ ready /\ session[s].at = "proposed" /\ Check(s, session[s].key) = "ask"
  /\ <<s, session[s].key>> \notin request
  /\ request' = request \cup {<<s, session[s].key>>}
  /\ UNCHANGED <<ready, manager, stored, writes, session, revoking, counters, history>>

\* The request of the session is still active when its action is sent.
Dispatch(s) ==
  /\ ready /\ session[s].at = "cleared"
  /\ session' = [session EXCEPT ![s] = Idle]
  /\ UNCHANGED <<ready, manager, stored, writes, request, revoking, counters, history>>

\* The sessions are ended: their requests are aborted and their runs forgotten.
Ended(S) ==
  /\ session' = [s \in Sessions |-> IF s \in S THEN [Idle EXCEPT !.at = "over"] ELSE session[s]]
  /\ once' = {g \in once : g[1] \notin S} /\ denied' = {g \in denied : g[1] \notin S}

End(s) ==
  /\ session[s].at # "over"
  /\ session' = [session EXCEPT ![s] = [Idle EXCEPT !.at = "over"]] /\ Forgotten(s)
  /\ UNCHANGED <<ready, persistent, stored, writes, request, revoking, counters, history>>

-----------------------------------------------------------------------------
(* Decisions.  A request may be decided until it expires, more than once,   *)
(* and also when its session is over.                                      *)

Decide(s, k, decision) ==
  /\ ready /\ <<s, k>> \in request /\ decisions < MaxDecisions
  /\ decisions' = decisions + 1
  /\ CASE decision = "deny" /\ k \in Local ->
            /\ denied' = denied \cup {<<s, k>>} /\ once' = once \ {<<s, k>>}
            /\ refused' = refused \cup {<<s, k>>} /\ UNCHANGED <<persistent, since>>
       [] decision = "once" ->
            once' = once \cup {<<s, k>>} /\ UNCHANGED <<persistent, denied, history>>
       [] OTHER ->
            /\ k \notin Local
            /\ persistent' = [persistent EXCEPT ![k] = IF decision = "always" THEN "allow" ELSE "deny"]
            /\ since' = IF decision = "always"
                        THEN [since EXCEPT !.begun = @ \cup {k}, !.held = @ \cup {k}] ELSE since
            /\ refused' = IF decision = "always" THEN {r \in refused : r[2] # k}
                          ELSE refused \cup (Sessions \X {k})
            /\ UNCHANGED <<once, denied>>
  /\ Persist(persistent', "decision")
  /\ UNCHANGED <<ready, stored, request, session, revoking, revocations, restarts>>

Expire(r) ==
  /\ r \in request /\ request' = request \ {r}
  /\ UNCHANGED <<ready, manager, stored, writes, session, revoking, counters, history>>

-----------------------------------------------------------------------------
(* Revocation: the memory, the runs of one tab after the other, the write. *)

Revoke ==
  /\ ready /\ revoking = Lost /\ revocations < MaxRevocations
  /\ persistent' = Nothing /\ once' = {} /\ denied' = {}
  /\ revoking' = [tabs |-> SessionTabs, at |-> "tabs"] /\ revocations' = revocations + 1
  /\ since' = [since EXCEPT !.begun = {}] /\ refused' = {}
  /\ UNCHANGED <<ready, stored, writes, request, session, decisions, restarts>>

\* The run of the tab is cancelled and with it every session of the tab.
RevokeTab(t) ==
  /\ revoking.at = "tabs" /\ t \in revoking.tabs
  /\ revoking' = [revoking EXCEPT !.tabs = @ \ {t}]
  /\ Ended({s \in Sessions : Tab[s] = t /\ session[s].at \in {"proposed", "cleared"}})
  /\ UNCHANGED <<ready, persistent, stored, writes, request, counters, history>>

RevokeWrite ==
  /\ revoking.at = "tabs" /\ revoking.tabs = {}
  /\ revoking' = [revoking EXCEPT !.at = "write"] /\ Persist(persistent, "revocation")
  /\ UNCHANGED <<ready, manager, stored, request, session, counters, history>>

\* A tab cannot be reached, or the write is refused: the revocation is not acknowledged.
RevokeFails ==
  /\ revoking.at = "tabs" /\ revoking' = Lost
  /\ UNCHANGED <<ready, manager, stored, writes, request, session, counters, history>>

\* Mutant of Acknowledges: a write that was refused is acknowledged as well.
AcknowledgesAll(done) == TRUE
\* Only a write that was made is acknowledged.
Acknowledges(done) == done

\* The oldest write is done, or refused; its caller is answered.
Written(done) ==
  /\ writes # <<>>
  /\ writes' = Tail(writes)
  /\ stored' = IF done THEN Head(writes).value ELSE stored
  /\ refused' = IF done THEN refused ELSE {r \in refused : r[2] \in Local}
  /\ IF Head(writes).for = "revocation" /\ revoking.at = "write"
     THEN /\ revoking' = Lost
          /\ since' = IF Acknowledges(done) THEN [since EXCEPT !.held = since.begun, !.acked = revocations] ELSE since
     ELSE UNCHANGED <<revoking, since>>
  /\ UNCHANGED <<ready, manager, request, session, counters>>

-----------------------------------------------------------------------------
(* The worker restarts: memory is lost, writes already sent are not.       *)

Reset ==
  session' = [s \in Sessions |-> IF session[s].at = "idle" THEN Idle ELSE [Idle EXCEPT !.at = "over"]]

Restart ==
  /\ restarts < MaxRestarts /\ restarts' = restarts + 1
  /\ ready' = FALSE /\ persistent' = Nothing /\ once' = {} /\ denied' = {}
  /\ request' = {} /\ revoking' = Lost
  /\ writes' = [i \in DOMAIN writes |-> [writes[i] EXCEPT !.for = "decision"]]
  /\ Reset
  /\ UNCHANGED <<stored, decisions, revocations, since>>
  /\ refused' = {r \in refused : r[2] \notin Local}

\* bootstrapStorage(): no message is handled before the storage was read.
Load ==
  /\ ~ready /\ writes = <<>> /\ ready' = TRUE /\ persistent' = stored
  /\ UNCHANGED <<once, denied, stored, writes, request, session, revoking, counters, history>>

Init ==
  /\ ready = FALSE /\ persistent = Nothing /\ once = {} /\ denied = {}
  /\ stored \in {[k \in Keys |-> IF k \in S THEN "allow" ELSE None] : S \in {{}, Keys \ Local}}
  /\ writes = <<>> /\ request = {} /\ session = [s \in Sessions |-> Idle] /\ revoking = Lost
  /\ decisions = 0 /\ revocations = 0 /\ restarts = 0
  /\ since = [begun |-> {}, held |-> Keys, acked |-> 0] /\ refused = {}

Next ==
  \/ \E s \in Sessions, k \in Keys : Propose(s, k)
       \/ \E d \in {"once", "always", "deny"} : Decide(s, k, d)
  \/ \E s \in Sessions : Gate(s) \/ Ask(s) \/ Dispatch(s) \/ End(s)
  \/ \E r \in request : Expire(r)
  \/ Revoke \/ \E t \in SessionTabs : RevokeTab(t)
  \/ RevokeWrite \/ RevokeFails \/ \E done \in BOOLEAN : Written(done)
  \/ Restart \/ Load

Spec == Init /\ [][Next]_vars

-----------------------------------------------------------------------------
(* What was acknowledged as revoked stays revoked: whatever memory, storage *)
(* or a write on its way allows for good was allowed by a decision made    *)
(* after that revocation began, also after a restart.                      *)
RevokedStaysRevoked ==
  /\ \A k \in Keys : persistent[k] = "allow" \/ stored[k] = "allow" => k \in since.held
  /\ \A i \in 1 .. Len(writes), k \in Keys : writes[i].value[k] = "allow" => k \in since.held

(* No action is sent under a permission that was checked before the last   *)
(* acknowledged revocation.                                                *)
NoOldClearance ==
  \A s \in Sessions : session[s].at = "cleared" => session[s].seen >= since.acked

(* A key the user denied passes no gate, until the user allows it or       *)
(* revokes everything: not by a grant for a run, not after a restart.      *)
DenialHolds ==
  [][\A s \in Sessions : session[s].at = "proposed" /\ session'[s].at = "cleared" =>
       <<s, session[s].key>> \notin refused]_vars

=============================================================================
