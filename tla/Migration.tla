------------------------------ MODULE Migration ------------------------------
(***************************************************************************)
(* The migration of the extension's stores to the agent server: sessions   *)
(* of the coordinator (apps/agent-server/src/migration: prepare, copy,     *)
(* acknowledge, commit, rollback), the journal and its fence in SQLite,    *)
(* the owner of the sources in the browser                                 *)
(* (apps/chrome-extension/src/migration) and the commands the browser      *)
(* sends: checkpoints, validation and acknowledgment by remote call.       *)
(*                                                                         *)
(* A digest of a source is its version, a checkpoint the version that was  *)
(* staged.  A write of the journal names the revision it read; revisions   *)
(* only grow, so that a session's copy of the journal is its revision.     *)
(* Abort is any failed check, error or crash of a session.                 *)
(***************************************************************************)
EXTENDS Naturals, FiniteSets

CONSTANTS
  Units, Sessions, None,
  MaxEpoch, MaxRevision,  \* bounds: fences taken, writes of the journal
  MaxSent                 \* bound: commands on the wire, each delivered any number of times

ASSUME BoundsAreNat == MaxEpoch \in Nat /\ MaxRevision \in Nat /\ MaxSent \in Nat

VARIABLES
  journal,     \* the row of migration_journal
  fence,       \* the row of migration_fence: epoch and active namespace
  frozen,      \* the epoch the sources of the browser are frozen for; 0: not frozen
  source,      \* version of the source of each unit
  rows,        \* what is staged of each unit
  ownerAck,    \* the acknowledgment kept in the browser
  session, sent

vars == <<journal, fence, frozen, source, rows, ownerAck, session, sent>>
browser == <<frozen, source, rows, ownerAck>>

Versions == 0 .. 1
Phases == {"prepared", "copying", "validated", "committed", "rolled_back"}
Owners == {"extension", "backend"}
Stores == [Units -> Versions \cup {None}]
Journals == [phase : Phases, revision : 0 .. MaxRevision, epoch : 1 .. MaxEpoch,
             digests : [Units -> Versions], stores : Stores, acks : SUBSET Owners]
Rows == [epoch : 1 .. MaxEpoch, version : Versions]
Acknowledgments == [epoch : 1 .. MaxEpoch, stores : Stores]
ASSUME NoneIsFresh == None \notin Nat \cup Journals \cup Rows \cup Acknowledgments

Idle == [op |-> "none", at |-> "idle", revision |-> 0, epoch |-> 0,
         left |-> {}, seen |-> [u \in Units |-> 0]]
Places == {"freeze", "digest", "write", "reread", "mark", "unit", "activate", "pointer",
           "commit", "owner", "ext", "verify", "back", "fenced", "legacy", "rolled"}
Kinds == {"publish", "validate", "acknowledge"}

TypeOK ==
  /\ journal \in Journals \cup {None}
  /\ fence \in [epoch : 0 .. MaxEpoch, namespace : {"legacy", "target"}]
  /\ frozen \in 0 .. MaxEpoch /\ source \in [Units -> Versions]
  /\ rows \in [Units -> Rows \cup {None}]
  /\ ownerAck \in Acknowledgments \cup {None}
  /\ session \in [Sessions -> [op : {"prepare", "copy", "acknowledge", "commit", "rollback"},
       at : Places, revision : 0 .. MaxRevision, epoch : 0 .. MaxEpoch,
       left : SUBSET Units, seen : [Units -> Versions]] \cup {Idle}]
  /\ sent \subseteq [kind : Kinds, revision : 0 .. MaxRevision, epoch : 1 .. MaxEpoch, stores : Stores]

At(p, place) == session[p].at = place
Goto(p, place) == session' = [session EXCEPT ![p].at = place]
Finish(p) == session' = [session EXCEPT ![p] = Idle]
Start(p, op, place, epoch) ==
  session' = [session EXCEPT ![p] = [Idle EXCEPT !.op = op, !.at = place, !.epoch = epoch,
    !.revision = IF journal = None THEN 0 ELSE journal.revision]]

\* guard(): the fence is of this epoch and the browser is frozen for it.
Guard(epoch) == fence.epoch = epoch /\ frozen = epoch
Complete(stores) == \A u \in Units : stores[u] # None

\* The staged rows and the sources are those of the checkpoints.
Staged(stores, epoch) ==
  \A u \in Units : source[u] = stores[u] /\ rows[u] = [epoch |-> epoch, version |-> stores[u]]

\* The source of a unit is still that of the manifest.
Unchanged(u) == source[u] = journal.digests[u]

\* validateAll() of the journal.
Validates == Guard(journal.epoch) /\ Complete(journal.stores)
               /\ Staged(journal.stores, journal.epoch)

\* verifyAcknowledgment() of the journal.
OwnerAcked == ownerAck = [epoch |-> journal.epoch, stores |-> journal.stores]

\* Mutant of Current: the revision is not compared.
CurrentEpoch(p) == journal # None /\ fence.epoch = journal.epoch
\* The compare and swap of the journal: the revision that was read, under the fence's epoch.
Current(p) ==
  journal # None /\ journal.revision = session[p].revision /\ fence.epoch = journal.epoch

Write(next) ==
  /\ journal.revision < MaxRevision
  /\ journal' = [next EXCEPT !.revision = journal.revision + 1]
Advanced(p, place) ==
  session' = [session EXCEPT ![p].at = place, ![p].revision = journal.revision + 1]

-----------------------------------------------------------------------------
(* The browser and the environment.                                        *)

\* The freeze is lost, for example with the extension; then the sources may change.
Thaw == frozen # 0 /\ frozen' = 0 /\ UNCHANGED <<journal, fence, source, rows, ownerAck, session, sent>>
Change(u) ==
  /\ frozen = 0 /\ source[u] = 0 /\ source' = [source EXCEPT ![u] = 1]
  /\ UNCHANGED <<journal, fence, frozen, rows, ownerAck, session, sent>>

\* stage(): a row is only added; a row of another epoch or version is a conflict.
StageRow(u, epoch) ==
  /\ rows[u] \in {None, [epoch |-> epoch, version |-> source[u]]}
  /\ rows' = [rows EXCEPT ![u] = [epoch |-> epoch, version |-> source[u]]]

Abort(p) ==
  /\ session[p] # Idle /\ Finish(p) /\ UNCHANGED <<journal, fence, browser, sent>>

-----------------------------------------------------------------------------
(* prepare() and the first steps of rollback(): a new fence, then the freeze. *)

Fence(p, op) ==
  /\ session[p] = Idle /\ fence.epoch < MaxEpoch
  /\ (op = "prepare") = (journal = None)
  /\ fence' = [fence EXCEPT !.epoch = @ + 1] /\ Start(p, op, "freeze", fence.epoch + 1)
  /\ UNCHANGED <<journal, browser, sent>>

\* freezeAndDrain(), when no dispatch is left uncertain.
Freeze(p) ==
  /\ At(p, "freeze") /\ frozen' = session[p].epoch
  /\ Goto(p, IF session[p].op = "prepare" THEN "digest" ELSE "fenced")
  /\ UNCHANGED <<journal, fence, source, rows, ownerAck, sent>>

Digests(p) ==
  /\ At(p, "digest") /\ Guard(session[p].epoch)
  /\ session' = [session EXCEPT ![p].at = "write", ![p].seen = source]
  /\ UNCHANGED <<journal, fence, browser, sent>>

Prepare(p) ==
  /\ At(p, "write") /\ journal = None /\ Guard(session[p].epoch)
  /\ journal' = [phase |-> "prepared", revision |-> 0, epoch |-> session[p].epoch,
                 digests |-> session[p].seen, stores |-> [u \in Units |-> None], acks |-> {}]
  /\ Finish(p) /\ UNCHANGED <<fence, browser, sent>>

-----------------------------------------------------------------------------
(* copy(), also called by commit().                                        *)

Reread(p, op) ==
  /\ IF op = "copy" THEN session[p] = Idle ELSE At(p, "reread")
  /\ journal # None /\ journal.phase \in {"prepared", "copying", "validated"}
  /\ session' = [session EXCEPT ![p] = [Idle EXCEPT !.op = op, !.left = Units,
       !.revision = journal.revision, !.epoch = journal.epoch,
       !.at = IF journal.phase = "validated" THEN "unit" ELSE "mark"]]
  /\ UNCHANGED <<journal, fence, browser, sent>>

Mark(p) ==
  /\ At(p, "mark") /\ Current(p) /\ Guard(journal.epoch)
  /\ Write([journal EXCEPT !.phase = "copying"]) /\ Advanced(p, "unit")
  /\ UNCHANGED <<fence, browser, sent>>

\* A unit with a checkpoint is validated again, one without is staged.
Unit(p, u) ==
  /\ At(p, "unit") /\ u \in session[p].left /\ Current(p) /\ Guard(journal.epoch)
  /\ Unchanged(u)
  /\ IF journal.stores[u] = None
     THEN StageRow(u, journal.epoch) /\ UNCHANGED session
     ELSE /\ rows[u] = [epoch |-> journal.epoch, version |-> source[u]]
          /\ session' = [session EXCEPT ![p].left = @ \ {u}] /\ UNCHANGED rows
  /\ UNCHANGED <<journal, fence, frozen, source, ownerAck, sent>>

SaveUnit(p, u) ==
  /\ At(p, "unit") /\ u \in session[p].left /\ Current(p) /\ Guard(journal.epoch)
  /\ journal.stores[u] = None /\ rows[u] = [epoch |-> journal.epoch, version |-> source[u]]
  /\ Unchanged(u)
  /\ Write([journal EXCEPT !.stores[u] = source[u]])
  /\ session' = [session EXCEPT ![p].left = @ \ {u}, ![p].revision = journal.revision + 1]
  /\ UNCHANGED <<fence, browser, sent>>

Copied(p) ==
  /\ At(p, "unit") /\ session[p].left = {} /\ Current(p)
  /\ IF journal.phase = "validated"
     THEN UNCHANGED journal /\ IF session[p].op = "commit" THEN Goto(p, "activate") ELSE Finish(p)
     ELSE /\ session[p].op = "copy" /\ Guard(journal.epoch)
          /\ Write([journal EXCEPT !.phase = "validated"]) /\ Finish(p)
  /\ UNCHANGED <<fence, browser, sent>>

-----------------------------------------------------------------------------
(* acknowledge()                                                           *)

Acknowledge(p) ==
  /\ session[p] = Idle /\ journal # None /\ journal.phase = "validated" /\ Validates
  /\ Start(p, "acknowledge", "owner", journal.epoch)
  /\ UNCHANGED <<journal, fence, browser, sent>>

\* The browser validates its own stores and keeps its acknowledgment; another one is a conflict.
SaveAck(epoch, stores) ==
  /\ frozen = epoch /\ Complete(stores) /\ Staged(stores, epoch)
  /\ ownerAck \in {None, [epoch |-> epoch, stores |-> stores]}
  /\ ownerAck' = [epoch |-> epoch, stores |-> stores]

OwnerAcks(p) ==
  /\ At(p, "owner") /\ journal.epoch = session[p].epoch
  /\ SaveAck(journal.epoch, journal.stores) /\ Goto(p, "ext")
  /\ UNCHANGED <<journal, fence, frozen, source, rows, sent>>

\* coordinator.acknowledge(): read and written under one revision.
Ack(p, owner, place) ==
  /\ journal.phase = "validated" /\ journal.epoch = session[p].epoch
  /\ Guard(journal.epoch) /\ Write([journal EXCEPT !.acks = @ \cup {owner}])
  /\ IF owner = "backend" THEN Finish(p) ELSE Goto(p, place)
  /\ UNCHANGED <<fence, browser, sent>>

AckExtension(p) == At(p, "ext") /\ Ack(p, "extension", "verify")

AckVerifies(p) ==
  /\ At(p, "verify") /\ Validates /\ OwnerAcked /\ journal.epoch = session[p].epoch
  /\ Goto(p, "back") /\ UNCHANGED <<journal, fence, browser, sent>>

AckBackend(p) == At(p, "back") /\ Ack(p, "backend", "back")

-----------------------------------------------------------------------------
(* commit()                                                                *)

Commit(p) ==
  /\ session[p] = Idle /\ journal # None /\ journal.phase = "validated" /\ Validates
  /\ journal.acks = Owners /\ OwnerAcked
  /\ Start(p, "commit", "reread", journal.epoch)
  /\ UNCHANGED <<journal, fence, browser, sent>>

Verified == Validates /\ OwnerAcked

\* activate(), up to the answer of the browser ...
Verify(p) ==
  /\ At(p, "activate") /\ Current(p) /\ Verified
  /\ session' = [session EXCEPT ![p].at = "pointer", ![p].seen = source]
  /\ UNCHANGED <<journal, fence, browser, sent>>

\* ... and the transaction that moves the pointer.
Activate(p) ==
  /\ At(p, "pointer") /\ Current(p) /\ journal.phase = "validated"
  /\ journal.acks = Owners /\ Complete(journal.stores)
  /\ fence' = [fence EXCEPT !.namespace = "target"] /\ Goto(p, "commit")
  /\ UNCHANGED <<journal, browser, sent>>

Committed(p) ==
  /\ At(p, "commit") /\ Current(p) /\ Guard(journal.epoch)
  /\ Write([journal EXCEPT !.phase = "committed"]) /\ Finish(p)
  /\ UNCHANGED <<fence, browser, sent>>

-----------------------------------------------------------------------------
(* rollback(), after its fence and freeze, for a compatible release.       *)

\* Mutant of Unacked: the acknowledgments are kept.
UnackedKept(j) == j
Unacked(j) == [j EXCEPT !.acks = {}]

Fenced(p) ==
  /\ At(p, "fenced") /\ journal.revision = session[p].revision /\ Guard(session[p].epoch)
  /\ Write(Unacked([journal EXCEPT !.epoch = session[p].epoch])) /\ Advanced(p, "legacy")
  /\ UNCHANGED <<fence, browser, sent>>

Legacy(p) ==
  /\ At(p, "legacy") /\ Current(p) /\ Guard(journal.epoch)
  /\ fence' = [fence EXCEPT !.namespace = "legacy"] /\ Goto(p, "rolled")
  /\ UNCHANGED <<journal, browser, sent>>

RolledBack(p) ==
  /\ At(p, "rolled") /\ Current(p) /\ Guard(journal.epoch)
  /\ Write([journal EXCEPT !.phase = "rolled_back"]) /\ Finish(p)
  /\ UNCHANGED <<fence, browser, sent>>

-----------------------------------------------------------------------------
(* Commands of the browser.                                                *)

\* The browser stages a unit on its own, before it publishes checkpoints.
BrowserStages(u) ==
  /\ journal # None /\ journal.phase \in {"prepared", "copying", "validated"}
  /\ Guard(journal.epoch) /\ Unchanged(u) /\ StageRow(u, journal.epoch)
  /\ UNCHANGED <<journal, fence, frozen, source, ownerAck, session, sent>>

Checkpoints == [u \in Units |-> IF rows[u] = None THEN None ELSE rows[u].version]
Stores0(kind) == IF kind = "publish" THEN Checkpoints ELSE journal.stores

\* The browser checks its stores, keeps its acknowledgment, and sends the command.
Send(kind) ==
  LET stores == Stores0(kind) IN
  /\ journal # None /\ Cardinality(sent) < MaxSent /\ frozen = journal.epoch
  /\ journal.phase \in CASE kind = "publish" -> {"prepared", "copying"}
                         [] kind = "validate" -> {"copying", "validated"}
                         [] OTHER -> {"validated"}
  /\ Complete(stores) /\ Staged(stores, journal.epoch) /\ stores = journal.digests
  /\ IF kind = "acknowledge" THEN SaveAck(journal.epoch, stores) ELSE UNCHANGED ownerAck
  /\ sent' = sent \cup {[kind |-> kind, revision |-> journal.revision,
                         epoch |-> journal.epoch, stores |-> stores]}
  /\ UNCHANGED <<journal, fence, frozen, source, rows, session>>

\* The scope every command is checked for, in the transaction that applies it.
InScope(m) ==
  /\ journal # None /\ fence = [epoch |-> m.epoch, namespace |-> "legacy"]
  /\ journal.epoch = m.epoch /\ journal.revision = m.revision

\* A command is applied once, duplicates and late ones are refused or answered unchanged.
Apply(m) ==
  /\ InScope(m)
  /\ \/ /\ m.kind = "publish" /\ journal.phase \in {"prepared", "copying"} /\ journal.acks = {}
        /\ \A u \in Units : journal.stores[u] \in {None, m.stores[u]}
        /\ ~(journal.phase = "copying" /\ journal.stores = m.stores)
        /\ Write([journal EXCEPT !.phase = "copying", !.stores = m.stores])
     \/ /\ m.kind = "validate" /\ journal.phase = "copying" /\ journal.stores = m.stores
        /\ Write([journal EXCEPT !.phase = "validated"])
     \/ /\ m.kind = "acknowledge" /\ journal.phase = "validated" /\ journal.stores = m.stores
        /\ journal.acks # Owners /\ Write([journal EXCEPT !.acks = Owners])
  /\ UNCHANGED <<fence, browser, session, sent>>

-----------------------------------------------------------------------------
Init ==
  /\ journal = None /\ fence = [epoch |-> 0, namespace |-> "legacy"] /\ frozen = 0
  /\ source = [u \in Units |-> 0] /\ rows = [u \in Units |-> None] /\ ownerAck = None
  /\ session = [p \in Sessions |-> Idle] /\ sent = {}

Step(p) ==
  \/ Abort(p) \/ Freeze(p) \/ Digests(p) \/ Prepare(p) \/ Mark(p) \/ Copied(p)
  \/ \E op \in {"prepare", "rollback"} : Fence(p, op)
  \/ \E op \in {"copy", "commit"} : Reread(p, op)
  \/ \E u \in Units : Unit(p, u) \/ SaveUnit(p, u)
  \/ Acknowledge(p) \/ OwnerAcks(p) \/ AckExtension(p) \/ AckVerifies(p) \/ AckBackend(p)
  \/ Commit(p) \/ Verify(p) \/ Activate(p) \/ Committed(p)
  \/ Fenced(p) \/ Legacy(p) \/ RolledBack(p)

Next ==
  \/ \E p \in Sessions : Step(p)
  \/ Thaw \/ \E u \in Units : Change(u) \/ BrowserStages(u)
  \/ \E kind \in Kinds : Send(kind)
  \/ \E m \in sent : Apply(m)

Spec == Init /\ [][Next]_vars

-----------------------------------------------------------------------------
(* The pointer and the journal agree at every crash point: a migration     *)
(* that is rolled back left the target, and one that is committed, and not *)
(* being rolled back, is on it.                                            *)
PointerAgrees ==
  journal # None =>
    /\ journal.phase = "rolled_back" => fence.namespace = "legacy"
    /\ journal.phase = "committed" /\ journal.acks # {} => fence.namespace = "target"

(* An acknowledgment in the journal is backed by the one the browser keeps *)
(* for the same epoch and the same checkpoints.                            *)
AckedByOwner ==
  journal # None /\ journal.acks # {} => Complete(journal.stores) /\ OwnerAcked

(* Whenever the target is active, every unit was staged as the journal     *)
(* says, from the sources the migration was prepared for.                  *)
TargetIsStaged ==
  fence.namespace = "target" =>
    journal # None /\ \A u \in Units :
      rows[u] # None /\ rows[u].version = journal.stores[u]
      /\ journal.stores[u] = journal.digests[u]

(* What becomes active is what the sources held when the browser last      *)
(* answered that they are frozen.                                          *)
ActivatesWhatWasSeen ==
  [][\A p \in Sessions : At(p, "pointer") /\ session'[p].at = "commit" =>
       \A u \in Units : rows[u] = [epoch |-> fence.epoch, version |-> session[p].seen[u]]]_vars

(* Once a rollback has written its fence, no commit of before takes effect: *)
(* a migration that gets committed is of the epoch of the acknowledgments. *)
NoCommitAfterFence ==
  [][journal # None /\ journal'.phase = "committed" /\ journal.phase # "committed" =>
       journal.acks = Owners /\ fence.namespace = "target" /\ fence.epoch = ownerAck.epoch]_vars

\* At every crash point the journal, its owner and the pointer of the active namespace
\* agree, and the active target is completely staged.
MigrationSafety == TypeOK /\ PointerAgrees /\ AckedByOwner /\ TargetIsStaged

\* What is activated is current: of the sources that were seen frozen, and of the
\* epoch that was acknowledged last.
CommitsAreCurrent == ActivatesWhatWasSeen /\ NoCommitAfterFence
=============================================================================
