--------------------------- MODULE Migration_proofs ---------------------------
(***************************************************************************)
(* Proofs about Migration, for every set of units and sessions and every   *)
(* number of fences, journal writes and commands.                          *)
(***************************************************************************)
EXTENDS Migration, TLAPS

-----------------------------------------------------------------------------
(* The inductive invariant.                                                *)

\* Before the journal exists there are sessions of prepare() alone.
BeforeJournal(p) ==
  journal = None =>
    \/ session[p] = Idle
    \/ /\ session[p].op = "prepare" /\ session[p].at \in {"freeze", "digest", "write"}
       /\ session[p].revision = 0

\* What a session knows of a journal whose revision is the one it read: no write came
\* between, so that nobody acknowledged after its fence, moved the pointer back before
\* its commit, or moved it forth before its rollback is noted.
Knows(p) ==
  /\ session[p].at \in {"legacy", "rolled"} => journal.acks = {}
  /\ session[p].at = "rolled" => fence.namespace = "legacy"
  /\ session[p].at = "mark" => journal.phase \in {"prepared", "copying"}
  /\ session[p].at = "unit" => journal.phase \in {"copying", "validated"}
  /\ session[p].at = "pointer" =>
       \A u \in Units : rows[u] = [epoch |-> journal.epoch, version |-> session[p].seen[u]]
  /\ session[p].at = "commit" =>
       journal.acks = Owners /\ fence.namespace = "target" /\ journal.phase = "validated"

\* A session that acknowledges has the browser's acknowledgment of its epoch.
KnowsOwner(p) ==
  session[p].at \in {"ext", "verify", "back"} =>
    ownerAck # None /\ ownerAck.epoch = session[p].epoch

Fits(p) ==
  /\ session[p].at # "idle" => session[p].epoch > 0
  /\ BeforeJournal(p) /\ KnowsOwner(p)
  /\ journal # None =>
       /\ session[p].revision <= journal.revision
       /\ session[p].revision = journal.revision => Knows(p)

\* The browser's acknowledgment is of the checkpoints of the journal, which do not change
\* once they are complete, and every acknowledgment in the journal or on the wire is that one.
OwnerKept ==
  /\ ownerAck # None =>
       journal # None /\ Complete(ownerAck.stores) /\ ownerAck.stores = journal.stores
  /\ journal # None /\ journal.acks # {} => ownerAck # None /\ ownerAck.epoch = journal.epoch
  /\ \A m \in sent : m.kind = "acknowledge" => ownerAck # None /\ ownerAck.epoch = m.epoch

\* Whatever has a checkpoint, in the journal or on the wire, is staged from the source the
\* migration was prepared for.
StagedAs(version, u) ==
  rows[u] # None /\ rows[u].version = version /\ version = journal.digests[u]
CheckpointsStaged ==
  /\ journal # None =>
       \A u \in Units : journal.stores[u] # None => StagedAs(journal.stores[u], u)
  /\ \A m \in sent :
       journal # None /\ Complete(m.stores) /\ \A u \in Units : StagedAs(m.stores[u], u)

TargetComplete == fence.namespace = "target" => journal # None /\ Complete(journal.stores)

IInv ==
  /\ TypeOK /\ \A p \in Sessions : Fits(p)
  /\ OwnerKept /\ CheckpointsStaged /\ TargetComplete /\ PointerAgrees

-----------------------------------------------------------------------------
(* Sessions and journals as records.                                       *)

Working == [op : {"prepare", "copy", "acknowledge", "commit", "rollback"},
            at : Places, revision : 0 .. MaxRevision, epoch : 0 .. MaxEpoch,
            left : SUBSET Units, seen : [Units -> Versions]]

LEMMA SessionType ==
  ASSUME TypeOK, NEW p \in Sessions
  PROVE  /\ session[p] \in Working \cup {Idle}
         /\ session[p].at # "idle" => session[p] \in Working
         /\ session[p].at = "idle" => session[p] = Idle
         /\ session[p].at \in Places \cup {"idle"}
         /\ session[p].revision \in Nat /\ session[p].epoch \in Nat
<1>1. session[p] \in Working \cup {Idle}
  BY DEF TypeOK, Working
<1>2. Idle.at = "idle" /\ Idle.revision = 0 /\ Idle.epoch = 0
  BY DEF Idle
<1>3. session[p] \in Working =>
        /\ session[p].at \in Places /\ session[p].at # "idle"
        /\ session[p].revision \in Nat /\ session[p].epoch \in Nat
  BY BoundsAreNat DEF Working, Places
<1> QED BY <1>1, <1>2, <1>3

LEMMA JournalType ==
  ASSUME TypeOK, journal # None
  PROVE  /\ journal \in Journals /\ journal.revision \in Nat /\ journal.revision \in 0 .. MaxRevision
         /\ journal.epoch \in 1 .. MaxEpoch /\ journal.epoch \in Nat /\ journal.epoch > 0
         /\ journal.digests \in [Units -> Versions]
         /\ journal.stores \in Stores /\ journal.acks \in SUBSET Owners
         /\ journal.phase \in Phases
BY BoundsAreNat DEF TypeOK, Journals

\* How the sessions are changed.
Others(p) == \A q \in Sessions : q # p => session'[q] = session[q]
SessionsTyped == session' \in [Sessions -> Working \cup {Idle}]

LEMMA Placed ==
  ASSUME TypeOK, NEW p \in Sessions, session[p].at # "idle", NEW place \in Places, Goto(p, place)
  PROVE  /\ Others(p) /\ SessionsTyped
         /\ session'[p].at = place /\ session'[p].revision = session[p].revision
         /\ session'[p].epoch = session[p].epoch /\ session'[p].seen = session[p].seen
         /\ session'[p].op = session[p].op /\ session'[p] # Idle
<1>1. session[p] \in Working
  BY SessionType
<1>2. session' = [session EXCEPT ![p] = [session[p] EXCEPT !.at = place]]
  BY DEF Goto
<1>3. [session[p] EXCEPT !.at = place] \in Working
  BY <1>1 DEF Working
<1>4. session \in [Sessions -> Working \cup {Idle}]
  BY DEF TypeOK, Working
<1>5. place # "idle" /\ Idle.at = "idle"
  BY DEF Places, Idle
<1> QED BY <1>1, <1>2, <1>3, <1>4, <1>5 DEF Others, SessionsTyped, Working

LEMMA Finished ==
  ASSUME TypeOK, NEW p \in Sessions, Finish(p)
  PROVE  /\ Others(p) /\ SessionsTyped /\ session'[p] = Idle /\ session'[p].at = "idle"
         /\ session'[p].revision = 0
BY DEF TypeOK, Finish, Others, SessionsTyped, Working, Idle

LEMMA Started ==
  ASSUME TypeOK, NEW p \in Sessions,
         NEW op \in {"prepare", "copy", "acknowledge", "commit", "rollback"},
         NEW place \in Places, NEW epoch \in 0 .. MaxEpoch, Start(p, op, place, epoch)
  PROVE  /\ Others(p) /\ SessionsTyped
         /\ session'[p].at = place /\ session'[p].epoch = epoch /\ session'[p].op = op
         /\ session'[p].revision = IF journal = None THEN 0 ELSE journal.revision
<1> DEFINE r == IF journal = None THEN 0 ELSE journal.revision
           s == [Idle EXCEPT !.op = op, !.at = place, !.epoch = epoch, !.revision = r]
<1>1. r \in 0 .. MaxRevision
  BY JournalType, BoundsAreNat
<1>2. session' = [session EXCEPT ![p] = s]
  BY DEF Start
<1> HIDE DEF r
<1>3. s \in Working /\ s.at = place /\ s.epoch = epoch /\ s.op = op /\ s.revision = r
  <2> DEFINE zero == [u \in Units |-> 0]
  <2>1. zero \in [Units -> Versions]
    BY DEF Versions
  <2>2. Idle \in [op : {"none"}, at : {"idle"}, revision : {0}, epoch : {0}, left : SUBSET Units,
                   seen : [Units -> Versions]]
    BY <2>1 DEF Idle, zero
  <2> HIDE DEF zero
  <2> QED BY <1>1, <2>2 DEF Working
<1>4. session \in [Sessions -> Working \cup {Idle}]
  BY DEF TypeOK, Working
<1> HIDE DEF s
<1> QED BY <1>2, <1>3, <1>4 DEF Others, SessionsTyped, r

-----------------------------------------------------------------------------
(* Three kinds of steps: quiet ones change neither the journal nor the      *)
(* stores, writes change the journal, and stagings add rows.               *)

\* A session that does not move fits on when no write, or one it did not read, was made.
LEMMA Unmoved ==
  ASSUME NEW p \in Sessions, Fits(p), session'[p] = session[p],
         UNCHANGED <<journal, rows, ownerAck>>, fence'.namespace = fence.namespace
  PROVE  Fits(p)'
BY DEF Fits, BeforeJournal, KnowsOwner, Knows

LEMMA Overtaken ==
  ASSUME TypeOK, TypeOK', NEW p \in Sessions, Fits(p), session'[p] = session[p], ownerAck' = ownerAck,
         journal # None, journal' # None, journal'.revision = journal.revision + 1
  PROVE  Fits(p)'
<1>1. journal.revision \in Nat /\ session[p].revision \in Nat /\ session[p].revision <= journal.revision
  BY JournalType, SessionType DEF Fits
<1>2. session'[p].revision <= journal'.revision /\ session'[p].revision # journal'.revision
  BY <1>1
<1> QED BY <1>2 DEF Fits, BeforeJournal, KnowsOwner

LEMMA Quiet ==
  ASSUME IInv, TypeOK', UNCHANGED <<journal, rows, ownerAck, sent>>,
         fence'.namespace = fence.namespace,
         \A p \in Sessions : session'[p] = session[p] \/ Fits(p)'
  PROVE  IInv'
<1>1. \A p \in Sessions : Fits(p)'
  BY Unmoved DEF IInv
<1>2. OwnerKept' /\ CheckpointsStaged'
  BY DEF IInv, OwnerKept, CheckpointsStaged, StagedAs, Complete
<1>3. TargetComplete' /\ PointerAgrees'
  BY DEF IInv, TargetComplete, PointerAgrees, Complete
<1> QED BY <1>1, <1>2, <1>3 DEF IInv

\* What a write may do to the journal.
Writes ==
  /\ journal # None /\ journal' # None
  /\ journal'.revision = journal.revision + 1
  /\ journal'.digests = journal.digests
  /\ \A u \in Units :
       \/ journal'.stores[u] = journal.stores[u]
       \/ journal.stores[u] = None /\ StagedAs(journal'.stores[u], u)
  /\ journal'.stores \in Stores
  /\ journal'.acks # {} => ownerAck # None /\ ownerAck.epoch = journal'.epoch
  /\ journal'.phase = "rolled_back" => fence.namespace = "legacy"
  /\ journal'.phase = "committed" /\ journal'.acks # {} => fence.namespace = "target"

LEMMA CompleteStays ==
  ASSUME TypeOK, Writes, Complete(journal.stores) PROVE journal'.stores = journal.stores
<1>1. \A u \in Units : journal'.stores[u] = journal.stores[u]
  BY DEF Writes, Complete
<1>2. journal.stores \in Stores /\ journal'.stores \in Stores
  BY JournalType DEF Writes
<1> QED BY <1>1, <1>2 DEF Stores

LEMMA Written ==
  ASSUME IInv, TypeOK', Writes, UNCHANGED <<rows, ownerAck, sent, fence>>,
         \A p \in Sessions : session'[p] = session[p] \/ Fits(p)'
  PROVE  IInv'
<1>0. /\ TypeOK /\ journal # None /\ journal' # None /\ journal'.digests = journal.digests
      /\ journal'.revision = journal.revision + 1
      /\ Complete(journal.stores) => journal'.stores = journal.stores
  BY CompleteStays DEF Writes, IInv
<1>1. ASSUME NEW p \in Sessions PROVE Fits(p)'
  <2>1. Fits(p)
    BY DEF IInv
  <2> QED BY <1>0, <2>1, Overtaken
<1>2. OwnerKept'
  <2>1. ownerAck # None => ownerAck.stores = journal'.stores /\ Complete(ownerAck.stores)
    BY <1>0 DEF IInv, OwnerKept
  <2> QED BY <1>0, <2>1 DEF IInv, OwnerKept, Writes, Complete
<1>3. CheckpointsStaged'
  <2>1. \A u \in Units : journal'.stores[u] # None => StagedAs(journal'.stores[u], u)
    BY <1>0 DEF IInv, CheckpointsStaged, Writes
  <2> QED BY <1>0, <2>1 DEF IInv, CheckpointsStaged, StagedAs, Complete
<1>4. TargetComplete'
  BY <1>0 DEF IInv, TargetComplete
<1>5. PointerAgrees'
  BY <1>0 DEF PointerAgrees, Writes
<1> QED BY <1>1, <1>2, <1>3, <1>4, <1>5 DEF IInv

\* A staging adds a row, and leaves those that are there.
LEMMA StagedMore ==
  ASSUME IInv, TypeOK', \A u \in Units : rows[u] # None => rows'[u] = rows[u],
         UNCHANGED <<journal, fence, ownerAck, session, sent>>
  PROVE  IInv'
<1>1. ASSUME NEW p \in Sessions PROVE Fits(p)'
  <2>1. \A u \in Units, epoch \in 1 .. MaxEpoch, version \in Versions :
          rows[u] = [epoch |-> epoch, version |-> version] => rows'[u] = rows[u]
    BY NoneIsFresh DEF Rows
  <2>2. journal # None => journal.epoch \in 1 .. MaxEpoch
    BY JournalType DEF IInv
  <2>3. session[p].at = "pointer" => \A u \in Units : session[p].seen[u] \in Versions
    BY SessionType DEF IInv, Working
  <2> QED BY <2>1, <2>2, <2>3 DEF IInv, Fits, BeforeJournal, KnowsOwner, Knows
<1>2. CheckpointsStaged'
  BY DEF IInv, CheckpointsStaged, StagedAs, Complete
<1>3. OwnerKept' /\ TargetComplete' /\ PointerAgrees'
  BY DEF IInv, OwnerKept, TargetComplete, PointerAgrees, Complete
<1> QED BY <1>1, <1>2, <1>3 DEF IInv

\* What a step writes keeps its type.
LEMMA QuietType ==
  ASSUME TypeOK, SessionsTyped, UNCHANGED <<journal, fence, browser, sent>>
  PROVE  TypeOK'
BY DEF TypeOK, SessionsTyped, Working, browser

LEMMA WriteType ==
  ASSUME TypeOK, SessionsTyped, journal' \in Journals, UNCHANGED <<fence, browser, sent>>
  PROVE  TypeOK'
BY DEF TypeOK, SessionsTyped, Working, browser

LEMMA WriteFacts ==
  ASSUME TypeOK, journal # None, NEW next \in Journals, Write(next)
  PROVE  /\ journal' \in Journals /\ journal' # None
         /\ journal'.revision = journal.revision + 1
         /\ journal.revision + 1 \in 0 .. MaxRevision
         /\ journal'.phase = next.phase /\ journal'.epoch = next.epoch
         /\ journal'.digests = next.digests /\ journal'.stores = next.stores
         /\ journal'.acks = next.acks
<1>1. journal.revision + 1 \in 0 .. MaxRevision
  BY JournalType, BoundsAreNat DEF Write
<1>2. journal' = [next EXCEPT !.revision = journal.revision + 1]
  BY DEF Write
<1> QED BY <1>1, <1>2, NoneIsFresh DEF Journals

\* A write of the phase alone, within the promise of the pointer.
LEMMA PhaseWritten ==
  ASSUME IInv, journal # None, NEW phase \in Phases, Write([journal EXCEPT !.phase = phase]),
         UNCHANGED <<fence, browser, sent>>, SessionsTyped,
         \A p \in Sessions : session'[p] = session[p] \/ Fits(p)',
         phase = "rolled_back" => fence.namespace = "legacy",
         phase = "committed" => fence.namespace = "target"
  PROVE  IInv'
<1> DEFINE next == [journal EXCEPT !.phase = phase]
<1>1. TypeOK /\ OwnerKept
  BY DEF IInv
<1>2. /\ next \in Journals /\ next.phase = phase /\ next.epoch = journal.epoch
      /\ next.digests = journal.digests /\ next.stores = journal.stores /\ next.acks = journal.acks
  BY <1>1, JournalType DEF Journals
<1>3. Write(next)
  OBVIOUS
<1> HIDE DEF next
<1>4. /\ journal' \in Journals /\ journal' # None /\ journal'.revision = journal.revision + 1
      /\ journal'.phase = phase /\ journal'.epoch = journal.epoch
      /\ journal'.digests = journal.digests /\ journal'.stores = journal.stores
      /\ journal'.acks = journal.acks
  BY <1>1, <1>2, <1>3, WriteFacts
<1>5. journal.stores \in Stores
  BY <1>1, JournalType
<1>6. journal.acks # {} => ownerAck # None /\ ownerAck.epoch = journal.epoch
  BY <1>1 DEF OwnerKept
<1>7. Writes
  <2>1. \A u \in Units : journal'.stores[u] = journal.stores[u]
    BY <1>4
  <2>2. journal'.acks # {} => ownerAck # None /\ ownerAck.epoch = journal'.epoch
    BY <1>4, <1>6
  <2>3. /\ journal'.phase = "rolled_back" => fence.namespace = "legacy"
        /\ journal'.phase = "committed" /\ journal'.acks # {} => fence.namespace = "target"
    BY <1>4
  <2>4. journal'.stores \in Stores
    BY <1>4, <1>5
  <2> QED BY <1>4, <2>1, <2>2, <2>3, <2>4 DEF Writes
<1> QED BY <1>1, <1>4, <1>7, WriteType, Written DEF browser

LEMMA AcksWritten ==
  ASSUME IInv, journal # None, NEW acks \in SUBSET Owners, Write([journal EXCEPT !.acks = acks]),
         UNCHANGED <<fence, browser, sent>>, SessionsTyped,
         \A p \in Sessions : session'[p] = session[p] \/ Fits(p)',
         ownerAck # None, ownerAck.epoch = journal.epoch, journal.phase = "validated"
  PROVE  IInv'
<1> DEFINE next == [journal EXCEPT !.acks = acks]
<1>1. TypeOK
  BY DEF IInv
<1>2. /\ next \in Journals /\ next.phase = journal.phase /\ next.epoch = journal.epoch
      /\ next.digests = journal.digests /\ next.stores = journal.stores
  BY <1>1, JournalType DEF Journals
<1>3. Write(next)
  OBVIOUS
<1> HIDE DEF next
<1>4. /\ journal' \in Journals /\ journal' # None /\ journal'.revision = journal.revision + 1
      /\ journal'.phase = "validated" /\ journal'.epoch = journal.epoch
      /\ journal'.digests = journal.digests /\ journal'.stores = journal.stores
  BY <1>1, <1>2, <1>3, WriteFacts
<1>5. journal.stores \in Stores
  BY <1>1, JournalType
<1>6. Writes
  <2>1. \A u \in Units : journal'.stores[u] = journal.stores[u]
    BY <1>4
  <2>2. journal'.phase # "rolled_back" /\ journal'.phase # "committed"
    BY <1>4
  <2>3. ownerAck.epoch = journal'.epoch /\ journal'.stores \in Stores
    BY <1>4, <1>5
  <2> QED BY <1>4, <2>1, <2>2, <2>3 DEF Writes
<1> QED BY <1>1, <1>4, <1>6, WriteType, Written DEF browser

\* Where a session is tells whether the journal exists.
LEMMA JournalThere ==
  ASSUME IInv, NEW p \in Sessions, session[p].at \notin {"idle", "freeze", "digest", "write"}
  PROVE  journal # None
BY DEF IInv, Fits, BeforeJournal, Idle

\* A session that is idle fits, and so does one that begins.
LEMMA IdleFits ==
  ASSUME TypeOK', NEW p \in Sessions, session'[p] = Idle
  PROVE  Fits(p)'
<1>1. session'[p].at = "idle" /\ session'[p].revision = 0
  BY DEF Idle
<1>2. journal' # None => journal'.revision \in Nat
  BY BoundsAreNat DEF TypeOK, Journals
<1>3. journal' # None => 0 <= journal'.revision
  BY <1>2
<1> QED BY <1>1, <1>3 DEF Fits, BeforeJournal, KnowsOwner, Knows

-----------------------------------------------------------------------------
(* The quiet steps.                                                        *)

LEMMA AbortStep == ASSUME IInv, NEW p \in Sessions, Abort(p) PROVE IInv'
<1>1. TypeOK /\ Finish(p) /\ UNCHANGED <<journal, fence, browser, sent>>
  BY DEF IInv, Abort
<1>2. Others(p) /\ SessionsTyped /\ session'[p] = Idle
  BY <1>1, Finished
<1>3. TypeOK'
  BY <1>1, <1>2, QuietType
<1> QED BY <1>1, <1>2, <1>3, IdleFits, Quiet DEF Others, browser

LEMMA FenceStep ==
  ASSUME IInv, NEW p \in Sessions, NEW op \in {"prepare", "rollback"}, Fence(p, op) PROVE IInv'
<1>1. /\ TypeOK /\ fence.epoch < MaxEpoch /\ (op = "prepare") = (journal = None)
      /\ fence' = [fence EXCEPT !.epoch = fence.epoch + 1]
      /\ Start(p, op, "freeze", fence.epoch + 1) /\ UNCHANGED <<journal, browser, sent>>
  BY DEF IInv, Fence
<1>2. fence.epoch + 1 \in 0 .. MaxEpoch /\ fence.epoch + 1 > 0
      /\ fence \in [epoch : 0 .. MaxEpoch, namespace : {"legacy", "target"}]
  BY <1>1, BoundsAreNat DEF TypeOK
<1>3. /\ Others(p) /\ SessionsTyped
      /\ session'[p].at = "freeze" /\ session'[p].epoch = fence.epoch + 1 /\ session'[p].op = op
      /\ session'[p].revision = IF journal = None THEN 0 ELSE journal.revision
  BY <1>1, <1>2, Started DEF Places
<1>4. fence' \in [epoch : 0 .. MaxEpoch, namespace : {"legacy", "target"}]
      /\ fence'.namespace = fence.namespace
  BY <1>1, <1>2
<1>5. TypeOK'
  BY <1>1, <1>3, <1>4 DEF TypeOK, SessionsTyped, Working, browser
<1>6. journal # None => journal.revision \in Nat
  BY <1>1, JournalType
<1>7. Fits(p)'
  BY <1>1, <1>2, <1>3, <1>6 DEF Fits, BeforeJournal, KnowsOwner, Knows
<1> QED BY <1>1, <1>3, <1>4, <1>5, <1>7, Quiet DEF Others, browser

LEMMA FreezeStep == ASSUME IInv, NEW p \in Sessions, Freeze(p) PROVE IInv'
<1> DEFINE place == IF session[p].op = "prepare" THEN "digest" ELSE "fenced"
<1>1. /\ TypeOK /\ Fits(p) /\ session[p].at = "freeze" /\ frozen' = session[p].epoch
      /\ Goto(p, place) /\ UNCHANGED <<journal, fence, source, rows, ownerAck, sent>>
  BY DEF IInv, Freeze, At
<1>2. place \in Places
  BY DEF Places
<1>3. /\ Others(p) /\ SessionsTyped /\ session'[p].at = place
      /\ session'[p].revision = session[p].revision
      /\ session'[p].epoch = session[p].epoch /\ session'[p].op = session[p].op
  BY <1>1, <1>2, Placed
<1>4. frozen' \in 0 .. MaxEpoch
  BY <1>1, SessionType DEF Working
<1>5. TypeOK'
  BY <1>1, <1>3, <1>4 DEF TypeOK, SessionsTyped, Working
<1>6. Fits(p)'
  BY <1>1, <1>3 DEF Fits, BeforeJournal, KnowsOwner, Knows, Idle
<1> QED BY <1>1, <1>3, <1>5, <1>6, Quiet DEF Others

LEMMA DigestsStep == ASSUME IInv, NEW p \in Sessions, Digests(p) PROVE IInv'
<1>1. /\ TypeOK /\ Fits(p) /\ session[p].at = "digest"
      /\ session' = [session EXCEPT ![p].at = "write", ![p].seen = source]
      /\ UNCHANGED <<journal, fence, browser, sent>>
  BY DEF IInv, Digests, At
<1>2. /\ Others(p) /\ SessionsTyped /\ session'[p].at = "write"
      /\ session'[p].revision = session[p].revision
      /\ session'[p].epoch = session[p].epoch /\ session'[p].op = session[p].op
  <2>1. session[p] \in Working /\ source \in [Units -> Versions] /\ "write" \in Places
    BY <1>1, SessionType DEF TypeOK, Places
  <2>2. session' = [session EXCEPT ![p] = [session[p] EXCEPT !.at = "write", !.seen = source]]
    BY <1>1
  <2>3. [session[p] EXCEPT !.at = "write", !.seen = source] \in Working
    BY <2>1 DEF Working
  <2>4. session \in [Sessions -> Working \cup {Idle}]
    BY <1>1 DEF TypeOK, Working
  <2> QED BY <2>1, <2>2, <2>3, <2>4 DEF Others, SessionsTyped, Working
<1>3. TypeOK'
  BY <1>1, <1>2, QuietType
<1>4. Fits(p)'
  BY <1>1, <1>2 DEF Fits, BeforeJournal, KnowsOwner, Knows, Idle
<1> QED BY <1>1, <1>2, <1>3, <1>4, Quiet DEF Others, browser

LEMMA RereadStep ==
  ASSUME IInv, NEW p \in Sessions, NEW op \in {"copy", "commit"}, Reread(p, op) PROVE IInv'
<1> DEFINE place == IF journal.phase = "validated" THEN "unit" ELSE "mark"
           s == [Idle EXCEPT !.op = op, !.left = Units, !.revision = journal.revision,
                             !.epoch = journal.epoch, !.at = place]
<1>1. /\ TypeOK /\ journal # None /\ journal.phase \in {"prepared", "copying", "validated"}
      /\ session' = [session EXCEPT ![p] = s]
      /\ UNCHANGED <<journal, fence, browser, sent>>
  BY DEF IInv, Reread
<1>2. /\ journal.revision \in 0 .. MaxRevision /\ journal.revision \in Nat
      /\ journal.epoch \in 0 .. MaxEpoch /\ journal.epoch > 0
  BY <1>1, JournalType, BoundsAreNat
<1>3. /\ s \in Working /\ s.at = place /\ s.revision = journal.revision /\ s.epoch = journal.epoch
  <2> DEFINE zero == [u \in Units |-> 0]
  <2>1. zero \in [Units -> Versions]
    BY DEF Versions
  <2>2. Idle \in [op : {"none"}, at : {"idle"}, revision : {0}, epoch : {0}, left : SUBSET Units,
                   seen : [Units -> Versions]]
    BY <2>1 DEF Idle, zero
  <2>3. place \in Places
    BY DEF Places
  <2> HIDE DEF zero, place
  <2> QED BY <1>2, <2>2, <2>3 DEF Working
<1>4. session \in [Sessions -> Working \cup {Idle}]
  BY <1>1 DEF TypeOK, Working
<1> HIDE DEF s
<1>5. Others(p) /\ SessionsTyped /\ session'[p] = s
  BY <1>1, <1>3, <1>4 DEF Others, SessionsTyped
<1>6. TypeOK'
  BY <1>1, <1>5, QuietType
<1>7. Fits(p)'
  BY <1>1, <1>2, <1>3, <1>5 DEF Fits, BeforeJournal, KnowsOwner, Knows
<1> QED BY <1>1, <1>5, <1>6, <1>7, Quiet DEF Others, browser

\* A session that moves on to a place at which nothing new is known.
LEMMA Moves ==
  ASSUME IInv, NEW p \in Sessions, session[p].at \notin {"idle", "freeze", "digest", "write"},
         NEW place \in {"activate", "back"}, Goto(p, place),
         UNCHANGED <<journal, fence, browser, sent>>,
         place = "back" => KnowsOwner(p) /\ session[p].at = "verify"
  PROVE  IInv'
<1>1. TypeOK /\ Fits(p) /\ place \in Places /\ journal # None
  BY JournalThere DEF IInv, Places
<1>2. /\ Others(p) /\ SessionsTyped /\ session'[p].at = place
      /\ session'[p].revision = session[p].revision /\ session'[p].epoch = session[p].epoch
  BY <1>1, Placed
<1>3. TypeOK'
  BY <1>1, <1>2, QuietType
<1>4. UNCHANGED <<journal, rows, ownerAck>>
  BY DEF browser
<1>5. Fits(p)'
  BY <1>1, <1>2, <1>4 DEF Fits, BeforeJournal, KnowsOwner, Knows
<1> QED BY <1>2, <1>3, <1>4, <1>5, Quiet DEF Others, browser

LEMMA AckVerifiesStep == ASSUME IInv, NEW p \in Sessions, AckVerifies(p) PROVE IInv'
BY Moves DEF AckVerifies, At, IInv, Fits

LEMMA BeginStep ==
  ASSUME IInv, NEW p \in Sessions, Acknowledge(p) \/ Commit(p) PROVE IInv'
<1>1. PICK op \in {"acknowledge", "commit"}, place \in {"owner", "reread"} :
        Start(p, op, place, journal.epoch)
  BY DEF Acknowledge, Commit
<1>2. TypeOK /\ journal # None /\ UNCHANGED <<journal, fence, browser, sent>>
  BY DEF IInv, Acknowledge, Commit
<1>3. /\ journal.revision \in Nat /\ journal.epoch \in 0 .. MaxEpoch /\ journal.epoch > 0
  BY <1>2, JournalType, BoundsAreNat
<1>4. /\ Others(p) /\ SessionsTyped /\ session'[p].at = place
      /\ session'[p].epoch = journal.epoch /\ session'[p].revision = journal.revision
  BY <1>1, <1>2, <1>3, Started DEF Places
<1>5. TypeOK'
  BY <1>2, <1>4, QuietType
<1>6. Fits(p)'
  BY <1>2, <1>3, <1>4 DEF Fits, BeforeJournal, KnowsOwner, Knows
<1> QED BY <1>2, <1>4, <1>5, <1>6, Quiet DEF Others, browser

LEMMA VerifyStep == ASSUME IInv, NEW p \in Sessions, Verify(p) PROVE IInv'
<1>1. /\ TypeOK /\ Fits(p) /\ session[p].at = "activate" /\ Current(p) /\ Verified
      /\ session' = [session EXCEPT ![p].at = "pointer", ![p].seen = source]
      /\ UNCHANGED <<journal, fence, browser, sent>>
  BY DEF IInv, Verify, At
<1>2. /\ Others(p) /\ SessionsTyped /\ session'[p].at = "pointer"
      /\ session'[p].revision = session[p].revision
      /\ session'[p].epoch = session[p].epoch /\ session'[p].seen = source
  <2>1. session[p] \in Working /\ source \in [Units -> Versions] /\ "pointer" \in Places
    BY <1>1, SessionType DEF TypeOK, Places
  <2>2. session' = [session EXCEPT ![p] = [session[p] EXCEPT !.at = "pointer", !.seen = source]]
    BY <1>1
  <2>3. [session[p] EXCEPT !.at = "pointer", !.seen = source] \in Working
    BY <2>1 DEF Working
  <2>4. session \in [Sessions -> Working \cup {Idle}]
    BY <1>1 DEF TypeOK, Working
  <2> QED BY <2>1, <2>2, <2>3, <2>4 DEF Others, SessionsTyped, Working
<1>3. TypeOK'
  BY <1>1, <1>2, QuietType
<1>4. journal # None /\ \A u \in Units : rows[u] = [epoch |-> journal.epoch, version |-> source[u]]
  BY <1>1 DEF Current, Verified, Validates, Staged
<1>5. Fits(p)'
  BY <1>1, <1>2, <1>4 DEF Fits, BeforeJournal, KnowsOwner, Knows, browser
<1> QED BY <1>1, <1>2, <1>3, <1>5, Quiet DEF Others, browser

\* Steps of the environment.
LEMMA EnvironmentStep ==
  ASSUME IInv, Thaw \/ (\E u \in Units : Change(u)) \/ UNCHANGED vars PROVE IInv'
<1>1. TypeOK /\ UNCHANGED <<journal, fence, rows, ownerAck, session, sent>>
  BY DEF IInv, Thaw, Change, vars
<1>2. frozen' \in 0 .. MaxEpoch /\ source' \in [Units -> Versions]
  BY <1>1, BoundsAreNat DEF TypeOK, Thaw, Change, vars, Versions
<1>3. TypeOK'
  BY <1>1, <1>2 DEF TypeOK
<1> QED BY <1>1, <1>3, Quiet

-----------------------------------------------------------------------------
(* The writes of the journal.                                              *)

\* A session that ends its step with the write.
LEMMA AdvancedFacts ==
  ASSUME TypeOK, NEW p \in Sessions, session[p].at # "idle", NEW place \in Places,
         Advanced(p, place), journal.revision + 1 \in 0 .. MaxRevision
  PROVE  /\ Others(p) /\ SessionsTyped /\ session'[p].at = place
         /\ session'[p].revision = journal.revision + 1
         /\ session'[p].epoch = session[p].epoch
<1> DEFINE s == [session[p] EXCEPT !.at = place, !.revision = journal.revision + 1]
<1>1. session[p] \in Working
  BY SessionType
<1>2. session' = [session EXCEPT ![p] = s]
  BY DEF Advanced
<1>3. /\ s \in Working /\ s.at = place /\ s.revision = journal.revision + 1
      /\ s.epoch = session[p].epoch
  BY <1>1 DEF Working
<1>4. session \in [Sessions -> Working \cup {Idle}]
  BY DEF TypeOK, Working
<1> HIDE DEF s
<1>5. Others(p) /\ session'[p] = s
  BY <1>2, <1>4 DEF Others
<1>6. SessionsTyped
  BY <1>2, <1>3, <1>4 DEF SessionsTyped
<1> QED BY <1>3, <1>5, <1>6

LEMMA MarkStep == ASSUME IInv, NEW p \in Sessions, Mark(p) PROVE IInv'
<1>1. /\ TypeOK /\ Fits(p) /\ session[p].at = "mark" /\ journal # None
      /\ Write([journal EXCEPT !.phase = "copying"]) /\ Advanced(p, "unit")
      /\ UNCHANGED <<fence, browser, sent>>
  BY DEF IInv, Mark, At, Current
<1>2. /\ journal' # None /\ journal'.revision = journal.revision + 1
      /\ journal.revision + 1 \in 0 .. MaxRevision /\ journal'.phase = "copying"
  <2> DEFINE next == [journal EXCEPT !.phase = "copying"]
  <2>1. next \in Journals /\ next.phase = "copying"
    BY <1>1, JournalType DEF Journals, Phases
  <2>2. Write(next)
    BY <1>1
  <2> HIDE DEF next
  <2> QED BY <1>1, <2>1, <2>2, WriteFacts
<1>3. /\ Others(p) /\ SessionsTyped /\ session'[p].at = "unit"
      /\ session'[p].revision = journal.revision + 1 /\ session'[p].epoch = session[p].epoch
  BY <1>1, <1>2, AdvancedFacts DEF Places
<1>4. Fits(p)'
  BY <1>1, <1>2, <1>3 DEF Fits, BeforeJournal, KnowsOwner, Knows
<1> QED BY <1>1, <1>3, <1>4, PhaseWritten DEF Others, Phases

LEMMA CopiedStep == ASSUME IInv, NEW p \in Sessions, Copied(p) PROVE IInv'
<1>1. /\ TypeOK /\ Fits(p) /\ session[p].at = "unit" /\ Current(p)
      /\ UNCHANGED <<fence, browser, sent>>
  BY DEF IInv, Copied, At
<1>2. CASE journal.phase = "validated" /\ session[p].op = "commit"
  <2>1. Goto(p, "activate") /\ journal' = journal
    BY <1>2 DEF Copied
  <2> QED BY <1>1, <2>1, Moves
<1>3. CASE journal.phase = "validated" /\ session[p].op # "commit"
  <2>1. Finish(p) /\ journal' = journal
    BY <1>3 DEF Copied
  <2>2. Abort(p)
    BY <1>1, <2>1 DEF Abort, Idle
  <2> QED BY <2>2, AbortStep
<1>4. CASE journal.phase # "validated"
  <2>1. Write([journal EXCEPT !.phase = "validated"]) /\ Finish(p)
    BY <1>4 DEF Copied
  <2>2. Others(p) /\ SessionsTyped /\ session'[p] = Idle
    BY <1>1, <2>1, Finished
  <2>3. journal # None /\ "validated" \in Phases
    BY <1>1 DEF Current, Phases
  <2>4. journal' \in Journals
    <3> DEFINE next == [journal EXCEPT !.phase = "validated"]
    <3>1. next \in Journals
      BY <1>1, <2>3, JournalType DEF Journals
    <3>2. Write(next)
      BY <2>1
    <3> HIDE DEF next
    <3> QED BY <1>1, <2>3, <3>1, <3>2, WriteFacts
  <2>5. TypeOK'
    BY <1>1, <2>2, <2>4, WriteType
  <2> QED BY <1>1, <2>1, <2>2, <2>3, <2>5, IdleFits, PhaseWritten DEF Others
<1> QED BY <1>2, <1>3, <1>4

LEMMA SaveUnitStep == ASSUME IInv, NEW p \in Sessions, NEW u \in Units, SaveUnit(p, u) PROVE IInv'
<1> DEFINE stores == [journal.stores EXCEPT ![u] = source[u]]
           next == [journal EXCEPT !.stores = stores]
<1>1. /\ TypeOK /\ Fits(p) /\ session[p].at = "unit" /\ Current(p)
      /\ journal.stores[u] = None /\ rows[u] = [epoch |-> journal.epoch, version |-> source[u]]
      /\ source[u] = journal.digests[u] /\ OwnerKept /\ PointerAgrees
      /\ UNCHANGED <<fence, browser, sent>>
  BY DEF IInv, SaveUnit, At, Unchanged
<1>2. journal # None /\ session[p].revision = journal.revision
  BY <1>1 DEF Current
<1>3. /\ journal \in Journals /\ journal.stores \in Stores /\ journal.epoch \in 1 .. MaxEpoch
      /\ source[u] \in Versions
  BY <1>1, <1>2, JournalType DEF TypeOK
<1>4. stores \in Stores /\ stores[u] = source[u] /\ \A v \in Units : v # u => stores[v] = journal.stores[v]
  BY <1>3 DEF Stores
<1>5. Write(next)
  BY DEF SaveUnit
<1> HIDE DEF stores
<1>6. /\ next \in Journals /\ next.phase = journal.phase /\ next.epoch = journal.epoch
      /\ next.digests = journal.digests /\ next.stores = stores /\ next.acks = journal.acks
  BY <1>3, <1>4 DEF Journals
<1> HIDE DEF next
<1>7. /\ journal' \in Journals /\ journal' # None /\ journal'.revision = journal.revision + 1
      /\ journal.revision + 1 \in 0 .. MaxRevision
      /\ journal'.phase = journal.phase /\ journal'.epoch = journal.epoch
      /\ journal'.digests = journal.digests /\ journal'.stores = stores
      /\ journal'.acks = journal.acks
  BY <1>1, <1>2, <1>5, <1>6, WriteFacts
<1>8. StagedAs(source[u], u)
  BY <1>1, <1>3, NoneIsFresh DEF StagedAs, Rows
<1>9. Writes
  <2>1. ASSUME NEW v \in Units
        PROVE  \/ journal'.stores[v] = journal.stores[v]
               \/ journal.stores[v] = None /\ StagedAs(journal'.stores[v], v)
    BY <1>1, <1>4, <1>7, <1>8
  <2>2. journal'.acks # {} => ownerAck # None /\ ownerAck.epoch = journal'.epoch
    BY <1>1, <1>2, <1>7 DEF OwnerKept
  <2>3. /\ journal'.phase = "rolled_back" => fence.namespace = "legacy"
        /\ journal'.phase = "committed" /\ journal'.acks # {} => fence.namespace = "target"
    BY <1>1, <1>2, <1>7 DEF PointerAgrees
  <2> QED BY <1>2, <1>4, <1>7, <2>1, <2>2, <2>3 DEF Writes
<1>10. /\ Others(p) /\ SessionsTyped /\ session'[p].at = "unit"
       /\ session'[p].revision = journal.revision + 1 /\ session'[p].epoch = session[p].epoch
  <2> DEFINE left == session[p].left \ {u}
             s == [session[p] EXCEPT !.left = left, !.revision = journal.revision + 1]
  <2>1. session[p] \in Working /\ session \in [Sessions -> Working \cup {Idle}]
    BY <1>1, SessionType DEF TypeOK, Working
  <2>2. session' = [session EXCEPT ![p] = s]
    BY DEF SaveUnit
  <2>3. left \in SUBSET Units
    BY <2>1 DEF Working
  <2> HIDE DEF left
  <2>4. s \in Working /\ s.at = "unit" /\ s.revision = journal.revision + 1
        /\ s.epoch = session[p].epoch
    BY <1>1, <1>7, <2>1, <2>3 DEF Working
  <2> HIDE DEF s
  <2>5. Others(p) /\ session'[p] = s
    BY <2>1, <2>2 DEF Others
  <2>6. SessionsTyped
    BY <2>1, <2>2, <2>4 DEF SessionsTyped
  <2> QED BY <2>4, <2>5, <2>6
<1>11. TypeOK'
  BY <1>1, <1>7, <1>10, WriteType
<1>12. Fits(p)'
  <2>1. journal.phase \in {"copying", "validated"}
    BY <1>1, <1>2 DEF Fits, Knows
  <2> QED BY <1>1, <1>7, <1>10, <2>1 DEF Fits, BeforeJournal, KnowsOwner, Knows
<1> QED BY <1>1, <1>9, <1>10, <1>11, <1>12, Written DEF Others, browser

LEMMA AckExtensionStep == ASSUME IInv, NEW p \in Sessions, AckExtension(p) PROVE IInv'
<1> DEFINE acks == journal.acks \cup {"extension"}
           next == [journal EXCEPT !.acks = acks]
<1>1. /\ TypeOK /\ Fits(p) /\ session[p].at = "ext" /\ journal # None
      /\ journal.phase = "validated" /\ journal.epoch = session[p].epoch
      /\ Write(next) /\ Goto(p, "verify") /\ UNCHANGED <<fence, browser, sent>>
  BY JournalThere DEF IInv, AckExtension, At, Ack
<1>2. ownerAck # None /\ ownerAck.epoch = journal.epoch
  BY <1>1 DEF Fits, KnowsOwner
<1>3. acks \in SUBSET Owners /\ journal \in Journals
  BY <1>1, JournalType DEF Owners
<1>4. /\ Others(p) /\ SessionsTyped /\ session'[p].at = "verify"
      /\ session'[p].revision = session[p].revision /\ session'[p].epoch = session[p].epoch
  BY <1>1, Placed DEF Places
<1> HIDE DEF acks
<1>5. journal' # None /\ journal'.revision = journal.revision + 1
  <2>1. next \in Journals
    BY <1>3 DEF Journals
  <2> HIDE DEF next
  <2> QED BY <1>1, <2>1, WriteFacts
<1>6. Fits(p)'
  <2>1. journal.revision \in Nat /\ session[p].revision \in Nat /\ session[p].revision <= journal.revision
    BY <1>1, JournalType, SessionType DEF Fits
  <2>2. session'[p].revision <= journal'.revision /\ session'[p].revision # journal'.revision
    BY <1>4, <1>5, <2>1
  <2> QED BY <1>1, <1>4, <1>5, <2>2 DEF Fits, BeforeJournal, KnowsOwner, browser
<1> QED BY <1>1, <1>2, <1>3, <1>4, <1>6, AcksWritten DEF Others

LEMMA AckBackendStep == ASSUME IInv, NEW p \in Sessions, AckBackend(p) PROVE IInv'
<1> DEFINE acks == journal.acks \cup {"backend"}
           next == [journal EXCEPT !.acks = acks]
<1>1. /\ TypeOK /\ Fits(p) /\ session[p].at = "back" /\ journal # None
      /\ journal.phase = "validated" /\ journal.epoch = session[p].epoch
      /\ Write(next) /\ Finish(p) /\ UNCHANGED <<fence, browser, sent>>
  BY JournalThere DEF IInv, AckBackend, At, Ack
<1>2. ownerAck # None /\ ownerAck.epoch = journal.epoch
  BY <1>1 DEF Fits, KnowsOwner
<1>3. acks \in SUBSET Owners /\ journal \in Journals
  BY <1>1, JournalType DEF Owners
<1>4. Others(p) /\ SessionsTyped /\ session'[p] = Idle
  BY <1>1, Finished
<1> HIDE DEF acks
<1>5. journal' \in Journals
  <2>1. next \in Journals
    BY <1>3 DEF Journals
  <2> HIDE DEF next
  <2> QED BY <1>1, <2>1, WriteFacts
<1>6. TypeOK'
  BY <1>1, <1>4, <1>5, WriteType
<1> QED BY <1>1, <1>2, <1>3, <1>4, <1>6, IdleFits, AcksWritten DEF Others

LEMMA EndsWrite ==
  ASSUME IInv, NEW p \in Sessions, journal # None, NEW phase \in {"committed", "rolled_back"},
         Write([journal EXCEPT !.phase = phase]), Finish(p), UNCHANGED <<fence, browser, sent>>,
         phase = "rolled_back" => fence.namespace = "legacy",
         phase = "committed" => fence.namespace = "target"
  PROVE  IInv'
<1> DEFINE next == [journal EXCEPT !.phase = phase]
<1>1. TypeOK /\ phase \in Phases
  BY DEF IInv, Phases
<1>2. Others(p) /\ SessionsTyped /\ session'[p] = Idle
  BY <1>1, Finished
<1>3. journal' \in Journals
  <2>1. next \in Journals
    BY <1>1, JournalType DEF Journals
  <2>2. Write(next)
    OBVIOUS
  <2> HIDE DEF next
  <2> QED BY <1>1, <2>1, <2>2, WriteFacts
<1>4. TypeOK'
  BY <1>1, <1>2, <1>3, WriteType
<1> QED BY <1>1, <1>2, <1>4, IdleFits, PhaseWritten DEF Others

LEMMA CommittedStep == ASSUME IInv, NEW p \in Sessions, Committed(p) PROVE IInv'
<1>1. /\ journal # None /\ Write([journal EXCEPT !.phase = "committed"]) /\ Finish(p)
      /\ UNCHANGED <<fence, browser, sent>> /\ fence.namespace = "target"
  BY DEF Committed, At, Current, IInv, Fits, Knows
<1> QED BY <1>1, EndsWrite

LEMMA RolledBackStep == ASSUME IInv, NEW p \in Sessions, RolledBack(p) PROVE IInv'
<1>1. /\ journal # None /\ Write([journal EXCEPT !.phase = "rolled_back"]) /\ Finish(p)
      /\ UNCHANGED <<fence, browser, sent>> /\ fence.namespace = "legacy"
  BY DEF RolledBack, At, Current, IInv, Fits, Knows
<1> QED BY <1>1, EndsWrite

LEMMA FencedStep == ASSUME IInv, NEW p \in Sessions, Fenced(p) PROVE IInv'
<1> DEFINE next == Unacked([journal EXCEPT !.epoch = session[p].epoch])
<1>1. /\ TypeOK /\ Fits(p) /\ session[p].at = "fenced" /\ journal # None
      /\ Write(next) /\ Advanced(p, "legacy") /\ UNCHANGED <<fence, browser, sent>>
      /\ PointerAgrees
  BY JournalThere DEF IInv, Fenced, At
<1>2. session[p].epoch \in 1 .. MaxEpoch /\ journal \in Journals
  BY <1>1, SessionType, JournalType, BoundsAreNat DEF Fits, Working
<1>3. /\ next \in Journals /\ next.phase = journal.phase /\ next.epoch = session[p].epoch
      /\ next.digests = journal.digests /\ next.stores = journal.stores /\ next.acks = {}
  BY <1>2 DEF Unacked, Journals
<1> HIDE DEF next
<1>4. /\ journal' \in Journals /\ journal' # None /\ journal'.revision = journal.revision + 1
      /\ journal.revision + 1 \in 0 .. MaxRevision
      /\ journal'.phase = journal.phase /\ journal'.digests = journal.digests
      /\ journal'.stores = journal.stores /\ journal'.acks = {}
  BY <1>1, <1>3, WriteFacts
<1>5. /\ Others(p) /\ SessionsTyped /\ session'[p].at = "legacy"
      /\ session'[p].revision = journal.revision + 1 /\ session'[p].epoch = session[p].epoch
  BY <1>1, <1>4, AdvancedFacts DEF Places
<1>6. TypeOK'
  BY <1>1, <1>4, <1>5, WriteType
<1>7. Fits(p)'
  BY <1>1, <1>4, <1>5 DEF Fits, BeforeJournal, KnowsOwner, Knows
<1>8. Writes
  <2>1. journal'.stores \in Stores /\ \A u \in Units : journal'.stores[u] = journal.stores[u]
    BY <1>1, <1>4, JournalType
  <2>2. journal'.phase = "rolled_back" => fence.namespace = "legacy"
    BY <1>1, <1>4 DEF PointerAgrees
  <2> QED BY <1>1, <1>4, <2>1, <2>2 DEF Writes
<1> QED BY <1>1, <1>5, <1>6, <1>7, <1>8, Written DEF Others, browser


-----------------------------------------------------------------------------
(* The journal appears, and the pointer moves.                             *)

LEMMA PrepareStep == ASSUME IInv, NEW p \in Sessions, Prepare(p) PROVE IInv'
<1> DEFINE empty == [u \in Units |-> None]
<1>1. /\ TypeOK /\ Fits(p) /\ session[p].at = "write" /\ journal = None
      /\ journal' = [phase |-> "prepared", revision |-> 0, epoch |-> session[p].epoch,
                     digests |-> session[p].seen, stores |-> empty, acks |-> {}]
      /\ Finish(p) /\ UNCHANGED <<fence, browser, sent>>
  BY DEF IInv, Prepare, At
<1>2. sent = {} /\ ownerAck = None /\ fence.namespace # "target"
  BY <1>1 DEF IInv, OwnerKept, CheckpointsStaged, TargetComplete
<1>3. session[p] \in Working /\ session[p].epoch \in 1 .. MaxEpoch
  BY <1>1, SessionType, BoundsAreNat DEF Fits, Working
<1>4. empty \in Stores /\ \A u \in Units : empty[u] = None
  BY DEF Stores
<1> HIDE DEF empty
<1>5. /\ journal' \in Journals /\ journal'.revision = 0 /\ journal'.stores = empty
      /\ journal'.acks = {} /\ journal'.phase = "prepared"
  BY <1>1, <1>3, <1>4, BoundsAreNat DEF Journals, Phases, Working
<1>6. journal' # None
  BY <1>5, NoneIsFresh
<1>7. Others(p) /\ SessionsTyped /\ session'[p] = Idle
  BY <1>1, Finished
<1>8. TypeOK'
  BY <1>1, <1>5, <1>7, WriteType
<1>9. ASSUME NEW q \in Sessions PROVE Fits(q)'
  <2>1. CASE q = p
    BY <1>7, <1>8, <2>1, IdleFits
  <2>2. CASE q # p
    <3>1. Fits(q) /\ BeforeJournal(q) /\ session'[q] = session[q]
      BY <1>7, <2>2 DEF IInv, Fits, Others
    <3>2. Idle.revision = 0 /\ Idle.at = "idle"
      BY DEF Idle
    <3>3. session[q].revision = 0 /\ session[q].at \in {"idle", "freeze", "digest", "write"}
      BY <1>1, <3>1, <3>2 DEF BeforeJournal
    <3> QED BY <1>5, <1>6, <3>1, <3>3 DEF Fits, BeforeJournal, KnowsOwner, Knows
  <2> QED BY <2>1, <2>2
<1>10. sent' = {} /\ ownerAck' = None /\ fence' = fence
  BY <1>1, <1>2 DEF browser
<1>11. OwnerKept' /\ CheckpointsStaged' /\ TargetComplete' /\ PointerAgrees'
  BY <1>2, <1>4, <1>5, <1>10 DEF OwnerKept, CheckpointsStaged, TargetComplete, PointerAgrees
<1> QED BY <1>8, <1>9, <1>11 DEF IInv

LEMMA ActivateStep == ASSUME IInv, NEW p \in Sessions, Activate(p) PROVE IInv'
<1>1. /\ TypeOK /\ session[p].at = "pointer" /\ journal # None /\ journal.phase = "validated"
      /\ journal.acks = Owners /\ Complete(journal.stores)
      /\ fence' = [fence EXCEPT !.namespace = "target"] /\ Goto(p, "commit")
      /\ UNCHANGED <<journal, browser, sent>>
  BY DEF IInv, Activate, At, Current
<1>2. /\ Others(p) /\ SessionsTyped /\ session'[p].at = "commit"
      /\ session'[p].revision = session[p].revision /\ session'[p].epoch = session[p].epoch
  BY <1>1, Placed DEF Places
<1>3. fence' \in [epoch : 0 .. MaxEpoch, namespace : {"legacy", "target"}]
      /\ fence'.namespace = "target"
  BY <1>1 DEF TypeOK
<1>4. TypeOK'
  BY <1>1, <1>2, <1>3 DEF TypeOK, SessionsTyped, Working, browser
<1>5. UNCHANGED <<journal, rows, ownerAck, sent>>
  BY <1>1 DEF browser
<1>6. Owners # {}
  BY DEF Owners
<1>7. ASSUME NEW q \in Sessions PROVE Fits(q)'
  <2>1. Fits(q)
    BY DEF IInv
  <2>2. CASE q = p
    BY <1>1, <1>2, <1>3, <1>5, <2>1, <2>2 DEF Fits, BeforeJournal, KnowsOwner, Knows
  <2>3. CASE q # p
    <3>1. session'[q] = session[q]
      BY <1>2, <2>3 DEF Others
    <3>2. session[q].revision = journal.revision => session[q].at # "rolled"
      BY <1>1, <1>6, <2>1 DEF Fits, Knows
    <3> QED BY <1>1, <1>3, <1>5, <2>1, <3>1, <3>2 DEF Fits, BeforeJournal, KnowsOwner, Knows
  <2> QED BY <2>2, <2>3
<1>8. OwnerKept' /\ CheckpointsStaged'
  BY <1>5 DEF IInv, OwnerKept, CheckpointsStaged, StagedAs, Complete
<1>9. TargetComplete' /\ PointerAgrees'
  BY <1>1, <1>3, <1>5 DEF TargetComplete, PointerAgrees, Complete
<1> QED BY <1>4, <1>7, <1>8, <1>9 DEF IInv

LEMMA LegacyStep == ASSUME IInv, NEW p \in Sessions, Legacy(p) PROVE IInv'
<1>1. /\ TypeOK /\ session[p].at = "legacy" /\ journal # None
      /\ journal.revision = session[p].revision
      /\ fence' = [fence EXCEPT !.namespace = "legacy"] /\ Goto(p, "rolled")
      /\ UNCHANGED <<journal, browser, sent>>
  BY DEF IInv, Legacy, At, Current
<1>2. /\ Others(p) /\ SessionsTyped /\ session'[p].at = "rolled"
      /\ session'[p].revision = session[p].revision /\ session'[p].epoch = session[p].epoch
  BY <1>1, Placed DEF Places
<1>3. fence' \in [epoch : 0 .. MaxEpoch, namespace : {"legacy", "target"}]
      /\ fence'.namespace = "legacy"
  BY <1>1 DEF TypeOK
<1>4. TypeOK'
  BY <1>1, <1>2, <1>3 DEF TypeOK, SessionsTyped, Working, browser
<1>5. UNCHANGED <<journal, rows, ownerAck, sent>>
  BY <1>1 DEF browser
<1>6. journal.acks = {} /\ Owners # {}
  BY <1>1 DEF IInv, Fits, Knows, Owners
<1>7. ASSUME NEW q \in Sessions PROVE Fits(q)'
  <2>1. Fits(q)
    BY DEF IInv
  <2>2. CASE q = p
    BY <1>1, <1>2, <1>3, <1>5, <1>6, <2>1, <2>2 DEF Fits, BeforeJournal, KnowsOwner, Knows
  <2>3. CASE q # p
    <3>1. session'[q] = session[q]
      BY <1>2, <2>3 DEF Others
    <3>2. session[q].revision = journal.revision => session[q].at # "commit"
      BY <1>1, <1>6, <2>1 DEF Fits, Knows
    <3> QED BY <1>1, <1>3, <1>5, <2>1, <3>1, <3>2 DEF Fits, BeforeJournal, KnowsOwner, Knows
  <2> QED BY <2>2, <2>3
<1>8. OwnerKept' /\ CheckpointsStaged'
  BY <1>5 DEF IInv, OwnerKept, CheckpointsStaged, StagedAs, Complete
<1>9. TargetComplete' /\ PointerAgrees'
  BY <1>3, <1>5, <1>6 DEF TargetComplete, PointerAgrees
<1> QED BY <1>4, <1>7, <1>8, <1>9 DEF IInv

-----------------------------------------------------------------------------
(* The stagings, the browser's acknowledgment and its commands.            *)

LEMMA StageStep ==
  ASSUME IInv, NEW u \in Units, journal # None, StageRow(u, journal.epoch),
         UNCHANGED <<journal, fence, frozen, source, ownerAck, session, sent>>
  PROVE  IInv'
<1> DEFINE row == [epoch |-> journal.epoch, version |-> source[u]]
<1>1. TypeOK /\ rows[u] \in {None, row} /\ rows' = [rows EXCEPT ![u] = row]
  BY DEF IInv, StageRow
<1>2. row \in Rows
  BY <1>1, JournalType DEF TypeOK, Rows
<1> HIDE DEF row
<1>3. rows' \in [Units -> Rows \cup {None}] /\ \A v \in Units : rows[v] # None => rows'[v] = rows[v]
  BY <1>1, <1>2 DEF TypeOK
<1>4. TypeOK'
  BY <1>1, <1>3 DEF TypeOK
<1> QED BY <1>3, <1>4, StagedMore

LEMMA BrowserStagesStep ==
  ASSUME IInv, NEW u \in Units, BrowserStages(u) PROVE IInv'
BY StageStep DEF BrowserStages

LEMMA UnitStep == ASSUME IInv, NEW p \in Sessions, NEW u \in Units, Unit(p, u) PROVE IInv'
<1>1. /\ TypeOK /\ Fits(p) /\ session[p].at = "unit" /\ journal # None
      /\ UNCHANGED <<journal, fence, frozen, source, ownerAck, sent>>
  BY DEF IInv, Unit, At, Current
<1>2. CASE journal.stores[u] = None
  BY <1>1, <1>2, StageStep DEF Unit
<1>3. CASE journal.stores[u] # None
  <2> DEFINE left == session[p].left \ {u}
             s == [session[p] EXCEPT !.left = left]
  <2>1. session' = [session EXCEPT ![p] = s] /\ rows' = rows
    BY <1>3 DEF Unit
  <2>2. session[p] \in Working /\ session \in [Sessions -> Working \cup {Idle}]
    BY <1>1, SessionType DEF TypeOK, Working
  <2>3. left \in SUBSET Units
    BY <2>2 DEF Working
  <2> HIDE DEF left
  <2>4. /\ s \in Working /\ s.at = "unit" /\ s.revision = session[p].revision
        /\ s.epoch = session[p].epoch /\ s.op = session[p].op
    BY <1>1, <2>2, <2>3 DEF Working
  <2> HIDE DEF s
  <2>5. Others(p) /\ SessionsTyped /\ session'[p] = s
    BY <2>1, <2>2, <2>4 DEF Others, SessionsTyped
  <2>6. TypeOK'
    BY <1>1, <2>1, <2>5, QuietType DEF browser
  <2>7. Fits(p)'
    BY <1>1, <2>1, <2>4, <2>5 DEF Fits, BeforeJournal, KnowsOwner, Knows
  <2> QED BY <1>1, <2>1, <2>5, <2>6, <2>7, Quiet DEF Others
<1> QED BY <1>2, <1>3

\* The browser keeps its acknowledgment of the journal, the first time or again.
LEMMA Acked ==
  ASSUME IInv, TypeOK', journal # None, SaveAck(journal.epoch, journal.stores),
         UNCHANGED <<journal, fence, rows>>, CheckpointsStaged',
         \A m \in sent' : m.kind = "acknowledge" => m \in sent \/ m.epoch = journal.epoch,
         \A p \in Sessions : session'[p] = session[p] \/ Fits(p)'
  PROVE  IInv'
<1> DEFINE ack == [epoch |-> journal.epoch, stores |-> journal.stores]
<1>1. /\ TypeOK /\ OwnerKept /\ Complete(journal.stores) /\ ownerAck \in {None, ack}
      /\ ownerAck' = ack
  BY DEF IInv, SaveAck
<1>2. ack \in Acknowledgments
  BY <1>1, JournalType DEF Acknowledgments
<1>3. ack # None /\ ack.epoch = journal.epoch /\ ack.stores = journal.stores
  BY <1>2, NoneIsFresh
<1> HIDE DEF ack
<1>4. ASSUME NEW p \in Sessions PROVE Fits(p)'
  <2>1. Fits(p)
    BY DEF IInv
  <2>2. CASE session'[p] = session[p]
    <3>1. KnowsOwner(p)'
      BY <1>1, <2>1, <2>2 DEF Fits, KnowsOwner
    <3> QED BY <2>1, <2>2, <3>1 DEF Fits, BeforeJournal, Knows
  <2> QED BY <2>2
<1>5. OwnerKept'
  BY <1>1, <1>3 DEF OwnerKept, Complete
<1>6. TargetComplete' /\ PointerAgrees'
  BY DEF IInv, TargetComplete, PointerAgrees, Complete
<1> QED BY <1>4, <1>5, <1>6 DEF IInv

LEMMA OwnerAcksStep == ASSUME IInv, NEW p \in Sessions, OwnerAcks(p) PROVE IInv'
<1>1. /\ TypeOK /\ Fits(p) /\ session[p].at = "owner" /\ journal # None
      /\ journal.epoch = session[p].epoch /\ SaveAck(journal.epoch, journal.stores)
      /\ Goto(p, "ext") /\ UNCHANGED <<journal, fence, frozen, source, rows, sent>>
  BY JournalThere DEF IInv, OwnerAcks, At
<1>2. /\ Others(p) /\ SessionsTyped /\ session'[p].at = "ext"
      /\ session'[p].revision = session[p].revision /\ session'[p].epoch = session[p].epoch
  BY <1>1, Placed DEF Places
<1>3. /\ ownerAck' = [epoch |-> journal.epoch, stores |-> journal.stores]
      /\ ownerAck' \in Acknowledgments
  BY <1>1, JournalType DEF SaveAck, Acknowledgments
<1>4. TypeOK'
  BY <1>1, <1>2, <1>3 DEF TypeOK, SessionsTyped, Working
<1>5. ownerAck' # None /\ ownerAck'.epoch = journal.epoch
  BY <1>3, NoneIsFresh
<1>6. Fits(p)'
  BY <1>1, <1>2, <1>5 DEF Fits, BeforeJournal, KnowsOwner, Knows
<1>7. CheckpointsStaged'
  BY <1>1 DEF IInv, CheckpointsStaged, StagedAs, Complete
<1> QED BY <1>1, <1>2, <1>4, <1>6, <1>7, Acked DEF Others

LEMMA SendStep == ASSUME IInv, NEW kind \in Kinds, Send(kind) PROVE IInv'
<1> DEFINE stores == Stores0(kind)
           m == [kind |-> kind, revision |-> journal.revision, epoch |-> journal.epoch,
                 stores |-> stores]
<1>1. /\ TypeOK /\ journal # None /\ Complete(stores) /\ Staged(stores, journal.epoch)
      /\ stores = journal.digests /\ sent' = sent \cup {m}
      /\ UNCHANGED <<journal, fence, frozen, source, rows, session>>
  BY DEF IInv, Send
<1>2. kind = "acknowledge" => stores = journal.stores /\ SaveAck(journal.epoch, journal.stores)
  BY DEF Send, Stores0
<1>3. kind # "acknowledge" => ownerAck' = ownerAck
  BY DEF Send
<1> HIDE DEF stores
<1>4. /\ journal.epoch \in 1 .. MaxEpoch /\ journal.revision \in 0 .. MaxRevision
      /\ journal.digests \in [Units -> Versions] /\ journal.stores \in Stores
  BY <1>1, JournalType
<1>5. stores \in Stores
  BY <1>1, <1>4 DEF Stores
<1>6. /\ m \in [kind : Kinds, revision : 0 .. MaxRevision, epoch : 1 .. MaxEpoch, stores : Stores]
      /\ m.kind = kind /\ m.epoch = journal.epoch /\ m.stores = stores
  BY <1>4, <1>5
<1> HIDE DEF m
<1>7. ownerAck' \in Acknowledgments \cup {None}
  <2>1. kind = "acknowledge" => ownerAck' \in Acknowledgments
    BY <1>2, <1>4 DEF SaveAck, Acknowledgments
  <2> QED BY <1>1, <1>3, <2>1 DEF TypeOK
<1>8. TypeOK'
  BY <1>1, <1>6, <1>7 DEF TypeOK
<1>9. \A u \in Units : StagedAs(stores[u], u)
  <2>1. ASSUME NEW u \in Units PROVE StagedAs(stores[u], u)
    <3>1. rows[u] = [epoch |-> journal.epoch, version |-> stores[u]] /\ stores[u] \in Versions
      BY <1>1, <1>4 DEF Staged
    <3>2. rows[u] \in Rows /\ rows[u].version = stores[u]
      BY <1>4, <3>1 DEF Rows
    <3> QED BY <1>1, <3>2, NoneIsFresh DEF StagedAs
  <2> QED BY <2>1
<1>10. CheckpointsStaged'
  <2>1. ASSUME NEW n \in sent'
        PROVE  Complete(n.stores) /\ \A u \in Units : StagedAs(n.stores[u], u)
    BY <1>1, <1>6, <1>9 DEF IInv, CheckpointsStaged
  <2> QED BY <1>1, <2>1 DEF IInv, CheckpointsStaged, StagedAs, Complete
<1>11. CASE kind = "acknowledge"
  BY <1>1, <1>2, <1>6, <1>8, <1>10, <1>11, Acked
<1>12. CASE kind # "acknowledge"
  <2>1. ownerAck' = ownerAck
    BY <1>3, <1>12
  <2>2. ASSUME NEW p \in Sessions PROVE Fits(p)'
    BY <1>1, <2>1, Unmoved DEF IInv
  <2>3. OwnerKept' /\ TargetComplete' /\ PointerAgrees'
    BY <1>1, <1>6, <1>12, <2>1 DEF IInv, OwnerKept, TargetComplete, PointerAgrees, Complete
  <2> QED BY <1>8, <1>10, <2>2, <2>3 DEF IInv
<1> QED BY <1>11, <1>12

\* A command that is applied has its checkpoints staged, and its acknowledgment is the browser's.
LEMMA ApplyStep == ASSUME IInv, NEW m \in sent, Apply(m) PROVE IInv'
<1>1. /\ TypeOK /\ journal # None /\ journal.epoch = m.epoch /\ fence.namespace = "legacy"
      /\ UNCHANGED <<fence, browser, session, sent>>
  BY DEF IInv, Apply, InScope
<1>2. SessionsTyped /\ \A p \in Sessions : session'[p] = session[p]
  BY <1>1 DEF TypeOK, SessionsTyped, Working
<1>3. CASE m.kind = "publish"
  <2> DEFINE next == [journal EXCEPT !.phase = "copying", !.stores = m.stores]
  <2>1. /\ Write(next) /\ journal.acks = {}
        /\ \A u \in Units : journal.stores[u] \in {None, m.stores[u]}
    BY <1>3 DEF Apply
  <2>2. journal \in Journals /\ m.stores \in Stores
    BY <1>1, JournalType DEF TypeOK
  <2>3. /\ next \in Journals /\ next.phase = "copying" /\ next.stores = m.stores
        /\ next.digests = journal.digests /\ next.acks = journal.acks
    BY <2>2 DEF Journals, Phases
  <2> HIDE DEF next
  <2>4. /\ journal' \in Journals /\ journal' # None /\ journal'.revision = journal.revision + 1
        /\ journal'.phase = "copying" /\ journal'.stores = m.stores
        /\ journal'.digests = journal.digests /\ journal'.acks = {}
    BY <1>1, <2>1, <2>3, WriteFacts
  <2>5. \A u \in Units : StagedAs(m.stores[u], u)
    BY DEF IInv, CheckpointsStaged
  <2>6. Writes
    <3>1. ASSUME NEW u \in Units
          PROVE  \/ journal'.stores[u] = journal.stores[u]
                 \/ journal.stores[u] = None /\ StagedAs(journal'.stores[u], u)
      BY <2>1, <2>4, <2>5
    <3>2. journal'.phase # "rolled_back" /\ journal'.phase # "committed"
      BY <2>4
    <3> QED BY <1>1, <2>2, <2>4, <3>1, <3>2 DEF Writes
  <2>7. TypeOK'
    BY <1>1, <1>2, <2>4, WriteType
  <2> QED BY <1>1, <1>2, <2>6, <2>7, Written DEF browser
<1>4. CASE m.kind = "validate"
  <2>1. Write([journal EXCEPT !.phase = "validated"])
    BY <1>4 DEF Apply
  <2> QED BY <1>1, <1>2, <2>1, PhaseWritten DEF Phases
<1>5. CASE m.kind = "acknowledge"
  <2>1. Write([journal EXCEPT !.acks = Owners]) /\ journal.phase = "validated"
    BY <1>5 DEF Apply
  <2>2. ownerAck # None /\ ownerAck.epoch = journal.epoch
    BY <1>1, <1>5 DEF IInv, OwnerKept
  <2> QED BY <1>1, <1>2, <2>1, <2>2, AcksWritten
<1> QED BY <1>3, <1>4, <1>5 DEF Apply

-----------------------------------------------------------------------------
(* The invariant holds, and what follows from it.                          *)

LEMMA InitInv == Init => IInv
<1> SUFFICES ASSUME Init PROVE IInv
  OBVIOUS
<1>1. TypeOK
  BY BoundsAreNat DEF Init, TypeOK, Versions
<1>2. \A p \in Sessions : Fits(p)
  BY DEF Init, Fits, BeforeJournal, KnowsOwner, Idle
<1> QED BY <1>1, <1>2
        DEF Init, IInv, OwnerKept, CheckpointsStaged, TargetComplete, PointerAgrees

LEMMA StepInv == ASSUME IInv, [Next]_vars PROVE IInv'
<1>1. ASSUME NEW p \in Sessions, Step(p) PROVE IInv'
  <2>1. CASE Abort(p) \/ Freeze(p) \/ Digests(p) \/ Prepare(p) \/ Mark(p) \/ Copied(p)
    BY <2>1, AbortStep, FreezeStep, DigestsStep, PrepareStep, MarkStep, CopiedStep
  <2>2. CASE \E op \in {"prepare", "rollback"} : Fence(p, op)
    BY <2>2, FenceStep
  <2>3. CASE \E op \in {"copy", "commit"} : Reread(p, op)
    BY <2>3, RereadStep
  <2>4. CASE \E u \in Units : Unit(p, u) \/ SaveUnit(p, u)
    BY <2>4, UnitStep, SaveUnitStep
  <2>5. CASE Acknowledge(p) \/ Commit(p)
    BY <2>5, BeginStep
  <2>6. CASE OwnerAcks(p) \/ AckExtension(p) \/ AckVerifies(p) \/ AckBackend(p)
    BY <2>6, OwnerAcksStep, AckExtensionStep, AckVerifiesStep, AckBackendStep
  <2>7. CASE Verify(p) \/ Activate(p) \/ Committed(p)
    BY <2>7, VerifyStep, ActivateStep, CommittedStep
  <2>8. CASE Fenced(p) \/ Legacy(p) \/ RolledBack(p)
    BY <2>8, FencedStep, LegacyStep, RolledBackStep
  <2> QED BY <1>1, <2>1, <2>2, <2>3, <2>4, <2>5, <2>6, <2>7, <2>8 DEF Step
<1>2. CASE Thaw \/ (\E u \in Units : Change(u)) \/ UNCHANGED vars
  BY <1>2, EnvironmentStep
<1>3. ASSUME NEW u \in Units, BrowserStages(u) PROVE IInv'
  BY <1>3, BrowserStagesStep
<1>4. ASSUME NEW kind \in Kinds, Send(kind) PROVE IInv'
  BY <1>4, SendStep
<1>5. ASSUME NEW m \in sent, Apply(m) PROVE IInv'
  BY <1>5, ApplyStep
<1> QED BY <1>1, <1>2, <1>3, <1>4, <1>5 DEF Next

\* The inductive invariant of the migration.
THEOREM Invariance == Spec => []IInv
<1>1. IInv /\ [Next]_vars => IInv'
  BY StepInv
<1> QED BY <1>1, InitInv, PTL DEF Spec

LEMMA Safe == IInv => MigrationSafety
<1> SUFFICES ASSUME IInv PROVE MigrationSafety
  OBVIOUS
<1>1. TypeOK /\ PointerAgrees /\ OwnerKept /\ CheckpointsStaged /\ TargetComplete
  BY DEF IInv
<1>2. AckedByOwner
  <2> SUFFICES ASSUME journal # None, journal.acks # {}
               PROVE  Complete(journal.stores) /\ OwnerAcked
    BY DEF AckedByOwner
  <2>1. /\ ownerAck # None /\ ownerAck.epoch = journal.epoch
        /\ ownerAck.stores = journal.stores /\ Complete(ownerAck.stores)
    BY <1>1 DEF OwnerKept
  <2>2. ownerAck \in Acknowledgments
    BY <1>1, <2>1 DEF TypeOK
  <2>3. ownerAck = [epoch |-> journal.epoch, stores |-> journal.stores]
    BY <2>1, <2>2 DEF Acknowledgments
  <2> QED BY <2>1, <2>3 DEF OwnerAcked
<1>3. TargetIsStaged
  <2> SUFFICES ASSUME fence.namespace = "target"
               PROVE  journal # None /\ \A u \in Units :
                        /\ rows[u] # None /\ rows[u].version = journal.stores[u]
                        /\ journal.stores[u] = journal.digests[u]
    BY DEF TargetIsStaged
  <2>1. journal # None /\ Complete(journal.stores)
    BY <1>1 DEF TargetComplete
  <2>2. \A u \in Units : StagedAs(journal.stores[u], u)
    BY <1>1, <2>1 DEF CheckpointsStaged, Complete
  <2> QED BY <2>1, <2>2 DEF StagedAs
<1> QED BY <1>1, <1>2, <1>3 DEF MigrationSafety

\* At every crash point of a migration the journal, the acknowledgment the browser keeps
\* and the pointer of the active namespace agree, and the active target is completely staged.
THEOREM MigrationIsSafe == Spec => []MigrationSafety
BY Invariance, Safe, PTL

-----------------------------------------------------------------------------
(* What a step may do to the pointer and to the phase.                     *)

\* A step of a session leaves the others where they are.
LEMMA StepOfOne ==
  ASSUME TypeOK, NEW q \in Sessions, Step(q), NEW p \in Sessions, p # q
  PROVE  session'[p] = session[p]
<1>1. session \in [Sessions -> Working \cup {Idle}]
  BY DEF TypeOK, Working
<1>2. CASE Abort(q) \/ Freeze(q) \/ Digests(q) \/ Prepare(q) \/ Mark(q) \/ Copied(q)
  BY <1>1, <1>2 DEF Abort, Freeze, Digests, Prepare, Mark, Copied, Finish, Goto, Advanced
<1>3. CASE \E op \in {"prepare", "rollback"} : Fence(q, op)
  BY <1>1, <1>3 DEF Fence, Start
<1>4. CASE \E op \in {"copy", "commit"} : Reread(q, op)
  BY <1>1, <1>4 DEF Reread
<1>5. CASE \E u \in Units : Unit(q, u) \/ SaveUnit(q, u)
  BY <1>1, <1>5 DEF Unit, SaveUnit
<1>6. CASE Acknowledge(q) \/ Commit(q)
  BY <1>1, <1>6 DEF Acknowledge, Commit, Start
<1>7. CASE OwnerAcks(q) \/ AckExtension(q) \/ AckVerifies(q) \/ AckBackend(q)
  BY <1>1, <1>7 DEF OwnerAcks, AckExtension, AckVerifies, AckBackend, Ack, Finish, Goto
<1>8. CASE Verify(q) \/ Activate(q) \/ Committed(q)
  BY <1>1, <1>8 DEF Verify, Activate, Committed, Finish, Goto
<1>9. CASE Fenced(q) \/ Legacy(q) \/ RolledBack(q)
  BY <1>1, <1>9 DEF Fenced, Legacy, RolledBack, Finish, Goto, Advanced
<1> QED BY <1>2, <1>3, <1>4, <1>5, <1>6, <1>7, <1>8, <1>9 DEF Step

\* A session at the pointer has two ways on: it is aborted, or it moves the pointer.
LEMMA AtPointer ==
  ASSUME NEW p \in Sessions, session[p].at = "pointer", Step(p)
  PROVE  Abort(p) \/ Activate(p)
<1>1. session[p] # Idle
  BY DEF Idle
<1> QED BY <1>1 DEF Step, Freeze, Digests, Prepare, Mark, Copied, Fence, Reread, Unit, SaveUnit,
                    Acknowledge, OwnerAcks, AckExtension, AckVerifies, AckBackend, Commit,
                    Verify, Committed, Fenced, Legacy, RolledBack, At

\* The pointer is moved by a session that compares the revision under which it saw the sources.
LEMMA PointerStep ==
  ASSUME IInv, [Next]_vars, NEW p \in Sessions, session[p].at = "pointer",
         session'[p].at = "commit"
  PROVE  \A u \in Units : rows[u] = [epoch |-> fence.epoch, version |-> session[p].seen[u]]
<1>1. Activate(p)
  <2>1. session'[p] # session[p]
    OBVIOUS
  <2>2. CASE \E q \in Sessions : Step(q)
    <3>1. PICK q \in Sessions : Step(q)
      BY <2>2
    <3>2. q = p
      BY <2>1, <3>1, StepOfOne DEF IInv
    <3>3. ~Abort(p)
      BY Finished DEF IInv, Abort
    <3> QED BY <3>1, <3>2, <3>3, AtPointer
  <2>3. CASE ~\E q \in Sessions : Step(q)
    <3>1. session' = session
      BY <2>3 DEF Next, Thaw, Change, BrowserStages, Send, Apply, vars
    <3> QED BY <2>1, <3>1
  <2> QED BY <2>2, <2>3
<1>2. journal.revision = session[p].revision /\ fence.epoch = journal.epoch /\ journal # None
  BY <1>1 DEF Activate, Current
<1> QED BY <1>2 DEF IInv, Fits, Knows

\* The phase becomes committed in the last step of commit() alone.
LEMMA WriteKeepsPhase ==
  ASSUME TypeOK, journal # None, NEW next \in Journals, Write(next)
  PROVE  journal'.phase = next.phase
BY WriteFacts

LEMMA CommittedAlone ==
  ASSUME IInv, [Next]_vars, journal # None, journal'.phase = "committed",
         journal.phase # "committed"
  PROVE  \E p \in Sessions : Committed(p)
<1>1. TypeOK /\ journal \in Journals /\ journal' # journal
  BY JournalType DEF IInv
<1>2. ASSUME NEW next, Write(next), next \in Journals PROVE next.phase = "committed"
  BY <1>1, <1>2, WriteKeepsPhase
<1>3. ASSUME NEW p \in Sessions, Step(p) PROVE Committed(p)
  <2>1. CASE Abort(p) \/ Freeze(p) \/ Digests(p) \/ Prepare(p)
    BY <1>1, <2>1 DEF Abort, Freeze, Digests, Prepare
  <2>2. CASE Mark(p)
    <3>1. [journal EXCEPT !.phase = "copying"] \in Journals
      BY <1>1 DEF Journals, Phases
    <3> QED BY <1>1, <1>2, <2>2, <3>1 DEF Mark, Journals
  <2>3. CASE Copied(p)
    <3>1. [journal EXCEPT !.phase = "validated"] \in Journals
      BY <1>1 DEF Journals, Phases
    <3> QED BY <1>1, <1>2, <2>3, <3>1 DEF Copied, Journals
  <2>4. CASE \E op \in {"prepare", "rollback"} : Fence(p, op)
    BY <1>1, <2>4 DEF Fence
  <2>5. CASE \E op \in {"copy", "commit"} : Reread(p, op)
    BY <1>1, <2>5 DEF Reread
  <2>6. ASSUME NEW u \in Units, Unit(p, u) \/ SaveUnit(p, u) PROVE FALSE
    <3>1. SaveUnit(p, u)
      BY <1>1, <2>6 DEF Unit
    <3>2. [journal EXCEPT !.stores[u] = source[u]] \in Journals
      <4>1. journal.stores \in Stores /\ source[u] \in Versions
        BY <1>1, JournalType DEF TypeOK
      <4>2. [journal.stores EXCEPT ![u] = source[u]] \in Stores
        BY <4>1 DEF Stores
      <4> QED BY <1>1, <4>2 DEF Journals
    <3>3. [journal EXCEPT !.stores[u] = source[u]].phase = journal.phase
      BY <1>1 DEF Journals
    <3> QED BY <1>2, <3>1, <3>2, <3>3 DEF SaveUnit
  <2>7. CASE Acknowledge(p) \/ OwnerAcks(p) \/ AckVerifies(p) \/ Commit(p) \/ Verify(p) \/ Activate(p)
    BY <1>1, <2>7 DEF Acknowledge, OwnerAcks, AckVerifies, Commit, Verify, Activate
  <2>8. CASE AckExtension(p) \/ AckBackend(p)
    <3>1. PICK owner \in Owners : Write([journal EXCEPT !.acks = journal.acks \cup {owner}])
      BY <2>8 DEF AckExtension, AckBackend, Ack, Owners
    <3>2. [journal EXCEPT !.acks = journal.acks \cup {owner}] \in Journals
      BY <1>1 DEF Journals
    <3>3. [journal EXCEPT !.acks = journal.acks \cup {owner}].phase = journal.phase
      BY <1>1 DEF Journals
    <3> QED BY <1>2, <3>1, <3>2, <3>3
  <2>9. CASE Fenced(p)
    <3> DEFINE next == Unacked([journal EXCEPT !.epoch = session[p].epoch])
    <3>1. session[p].epoch \in 1 .. MaxEpoch
      <4>1. session[p].at = "fenced"
        BY <2>9 DEF Fenced, At
      <4> QED BY <1>1, <4>1, SessionType, BoundsAreNat DEF IInv, Fits, Working
    <3>2. next \in Journals /\ next.phase = journal.phase
      BY <1>1, <3>1 DEF Unacked, Journals
    <3>3. Write(next)
      BY <2>9 DEF Fenced
    <3> HIDE DEF next
    <3> QED BY <1>2, <3>2, <3>3
  <2>10. CASE Legacy(p)
    BY <1>1, <2>10 DEF Legacy
  <2>11. CASE RolledBack(p)
    <3>1. [journal EXCEPT !.phase = "rolled_back"] \in Journals
      BY <1>1 DEF Journals, Phases
    <3> QED BY <1>1, <1>2, <2>11, <3>1 DEF RolledBack, Journals
  <2> QED BY <1>3, <2>1, <2>2, <2>3, <2>4, <2>5, <2>6, <2>7, <2>8, <2>9, <2>10, <2>11 DEF Step
<1>4. ASSUME NEW m \in sent, Apply(m) PROVE FALSE
  <2>1. m.stores \in Stores
    BY <1>1 DEF TypeOK
  <2>2. PICK next : /\ next \in {[journal EXCEPT !.phase = "copying", !.stores = m.stores],
                                [journal EXCEPT !.phase = "validated"],
                                [journal EXCEPT !.acks = Owners]}
                    /\ Write(next)
    BY <1>4 DEF Apply
  <2>3. next \in Journals /\ next.phase # "committed"
    BY <1>1, <2>1, <2>2 DEF Journals, Phases, Owners
  <2> QED BY <1>2, <2>2, <2>3
<1>5. ~(Thaw \/ (\E u \in Units : Change(u) \/ BrowserStages(u)) \/ (\E kind \in Kinds : Send(kind)))
  BY <1>1 DEF Thaw, Change, BrowserStages, Send
<1> QED BY <1>1, <1>3, <1>4, <1>5 DEF Next, vars

\* What is activated is of the sources that were last seen frozen and of the epoch that
\* was acknowledged last: a rollback's fence leaves no earlier commit its effect.
THEOREM CommitsCurrent == Spec => CommitsAreCurrent
<1>1. ASSUME IInv, [Next]_vars, NEW p \in Sessions
      PROVE  At(p, "pointer") /\ session'[p].at = "commit" =>
               \A u \in Units : rows[u] = [epoch |-> fence.epoch, version |-> session[p].seen[u]]
  BY <1>1, PointerStep DEF At
<1>2. ASSUME IInv, [Next]_vars, journal # None, journal'.phase = "committed",
             journal.phase # "committed"
      PROVE  journal.acks = Owners /\ fence.namespace = "target" /\ fence.epoch = ownerAck.epoch
  <2>1. PICK p \in Sessions : Committed(p)
    BY <1>2, CommittedAlone
  <2>2. session[p].at = "commit" /\ journal.revision = session[p].revision
        /\ fence.epoch = journal.epoch
    BY <2>1 DEF Committed, At, Current
  <2>3. journal.acks = Owners /\ fence.namespace = "target" /\ OwnerKept
    BY <1>2, <2>2 DEF IInv, Fits, Knows
  <2> QED BY <1>2, <2>2, <2>3 DEF OwnerKept, Owners
<1>3. IInv /\ [Next]_vars =>
        \A p \in Sessions : At(p, "pointer") /\ session'[p].at = "commit" =>
          \A u \in Units : rows[u] = [epoch |-> fence.epoch, version |-> session[p].seen[u]]
  BY <1>1
<1>4. IInv /\ [Next]_vars =>
        (journal # None /\ journal'.phase = "committed" /\ journal.phase # "committed" =>
           journal.acks = Owners /\ fence.namespace = "target" /\ fence.epoch = ownerAck.epoch)
  BY <1>2
<1>5. Spec => ActivatesWhatWasSeen
  BY <1>3, Invariance, PTL DEF Spec, ActivatesWhatWasSeen
<1>6. Spec => NoCommitAfterFence
  BY <1>4, Invariance, PTL DEF Spec, NoCommitAfterFence
<1> QED BY <1>5, <1>6 DEF CommitsAreCurrent
=============================================================================
