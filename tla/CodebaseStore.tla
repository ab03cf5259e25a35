--------------------------- MODULE CodebaseStore ---------------------------
(* The repository of the page graph (packages/codebase-repository): graph   *)
(* commits with their receipts, datasets, advisory recipes with their       *)
(* import receipts and deletion marks, pins, and the eviction that every    *)
(* write runs to stay under the capacity. Each operation is one IndexedDB   *)
(* transaction over all the stores, so each is one action here; a call that *)
(* throws aborts its transaction and is no step. The rows of all stores are *)
(* one set; every row counts as one unit of the capacity. The entities,     *)
(* edges and evidence of a graph live and go with its page row.             *)
EXTENDS Integers, FiniteSets

CONSTANTS Pages, Batches, Recipes, Managers, Sets,
          Nobody,        \* the id of a row that needs none
          NoDelta,       \* the delta of a row that is not a graph's
          Capacity,      \* units; the 100 MiB of the profile
          TTL,           \* the 30 days of a row
          Forever,       \* Number.MAX_SAFE_INTEGER
          MaxTime, MaxRevision, MaxSource, MaxCatalog

ASSUME NumbersAreNatural ==
  {Capacity, TTL, Forever, MaxTime, MaxRevision, MaxSource, MaxCatalog} \subseteq Nat

VARIABLES rows,     \* the database
          catalog,  \* the row of catalogKey: [revision, enabled]
          now,      \* Date.now()
          view,     \* what each manager last listed
          \* histories
          applied, twice,  \* the deltas written; whether one was written twice
          pinned,          \* [Pages -> when the last pin of the stored page ends]
          deleted,         \* [Pages -> [Recipes -> highest revision deleted]]
          blind            \* a manager deleted a revision it had not listed

vars == <<rows, catalog, now, view, applied, twice, pinned, deleted, blind>>
stored == <<rows, catalog>>
histories == <<applied, twice, pinned, deleted, blind>>

Sources == 1 .. MaxSource
Revisions == 0 .. MaxRevision
Delta == [page : Pages, batch : Batches, expected : 0 .. MaxRevision - 1, source : Sources]
Kinds == {"page", "version", "dataset", "recipe", "receipt", "import", "deletedImport", "deleted", "control"}
Journal == {"receipt", "import", "deletedImport", "deleted", "control"}
Graph == {"page", "version", "dataset"}

(* A row: page, kind, id and n make its key; rev is the revision it holds   *)
(* (of the graph, of the source of a recipe; of a control, 1 when it is     *)
(* off), of the delta it comes from.                                        *)
Row == [page : Pages, kind : Kinds, id : Batches \cup Recipes \cup Sets \cup {Nobody},
        n : 0 .. MaxRevision + MaxSource, rev : 0 .. MaxRevision + MaxSource, of : Delta \cup {NoDelta},
        time : 0 .. MaxTime, pin : 0 .. MaxTime, ends : Nat]

Make(p, kind, id, n, rev, of) ==
  [page |-> p, kind |-> kind, id |-> id, n |-> n, rev |-> rev, of |-> of,
   time |-> now, pin |-> 0, ends |-> now + (IF kind = "control" THEN Forever ELSE TTL)]

SameKey(r, w) == r.page = w.page /\ r.id = w.id /\ r.n = w.n
                 /\ (r.kind = w.kind \/ {r.kind, w.kind} = {"import", "deletedImport"})
Of(p) == {r \in rows : r.page = p}
Current(p) == {r \in Of(p) : r.kind = "page"}
RevisionOf(p) == IF Current(p) = {} THEN 0 ELSE (CHOOSE r \in Current(p) : TRUE).rev

---------------------------------------------------------------------------
(* enforceCapacity. The groups are those of the rows a write retains.       *)
Retained(all, writes) == {r \in all : \A w \in writes : ~SameKey(r, w)}
GroupOf(kept, p) == {r \in kept : r.page = p}
Oldest(group) == CHOOSE t \in {r.time : r \in group} : \A r \in group : t <= r.time
Expired(group) == \A r \in group : r.ends <= now
Candidate(kept, p, active) ==
  /\ p # active
  /\ GroupOf(kept, p) # {}
  /\ \A r \in GroupOf(kept, p) : r.pin <= now
Before(g, h) ==
  \/ Expired(g) /\ ~Expired(h)
  \/ Expired(g) = Expired(h) /\ Oldest(g) < Oldest(h)
\* Mutants of Evicted: receipts go too; datasets stay.
EvictedWhole(group) == group
EvictedNotSets(group) == {r \in group : r.kind \notin Journal \cup {"dataset"}}
Evicted(group) == {r \in group : r.kind \notin Journal}

(* The sets of rows a write leaves beside its own: candidates go in their   *)
(* order while the size is over the capacity, then old unpinned versions of *)
(* the active page; the empty set of outcomes is the capacity error.        *)
Goes(kept, active, size, chosen) ==
  LET candidates == {p \in Pages : Candidate(kept, p, active)}
      freed(ps) == Cardinality(UNION {Evicted(GroupOf(kept, p)) : p \in ps})
  IN  /\ chosen \subseteq candidates
      /\ \A p \in chosen, q \in candidates \ chosen : ~Before(GroupOf(kept, q), GroupOf(kept, p))
      /\ size - freed(chosen) <= Capacity \/ chosen = candidates
      /\ chosen = {} \/ \E p \in chosen :
           /\ \A q \in chosen : ~Before(GroupOf(kept, p), GroupOf(kept, q))
           /\ size - freed(chosen \ {p}) > Capacity

Spared(kept, active) ==
  {r \in kept : r.kind = "version" /\ r.page = active /\ r.pin <= now}
Pruned(kept, active, size, gone) ==
  /\ gone \subseteq Spared(kept, active)
  /\ \A r \in gone, q \in Spared(kept, active) \ gone : r.time <= q.time
  /\ size - Cardinality(gone) <= Capacity
  /\ size <= Capacity => gone = {}
  /\ gone # {} => size - Cardinality(gone) = Capacity

After(kept, chosen) == kept \ UNION {Evicted(GroupOf(kept, p)) : p \in chosen}

(* The last step of a writing transaction: what goes and what is written.   *)
Write(all, writes, active) ==
  LET kept == Retained(all, writes)
      size(left) == Cardinality(left) + Cardinality(writes)
  IN  \E chosen \in {ps \in SUBSET Pages : Goes(kept, active, size(kept), ps)} :
        LET after == After(kept, chosen)
        IN  \E gone \in {vs \in SUBSET Spared(kept, active) : Pruned(kept, active, size(after), vs)} :
              rows' = (after \ gone) \cup writes

---------------------------------------------------------------------------
(* commitGraph. A retry of a batch that has its receipt writes nothing.     *)
Receipts(d) == {r \in Of(d.page) : r.kind = "receipt" /\ r.id = d.batch}
Newer(d) == \A r \in Current(d.page) : d.source > r.of.source

Commit(d) ==
  /\ Receipts(d) = {}
  /\ RevisionOf(d.page) = d.expected
  /\ Newer(d)
  /\ LET next == d.expected + 1
     IN  Write(rows, {Make(d.page, "page", Nobody, 0, next, d),
                      Make(d.page, "version", Nobody, next, next, d),
                      Make(d.page, "receipt", d.batch, 0, next, d)}, d.page)
  /\ twice' = (twice \/ d \in applied)
  /\ applied' = applied \cup {d}
  /\ UNCHANGED <<catalog, now, view, pinned, deleted, blind>>

(* writeDataset: rows bound to the current revision of the graph.           *)
WriteDataset(p, s) ==
  /\ Current(p) # {}
  /\ \A r \in Of(p) : ~(r.kind = "dataset" /\ r.id = s)
  /\ Write(rows, {Make(p, "dataset", s, 0, RevisionOf(p), r.of) : r \in Current(p)}, p)
  /\ UNCHANGED <<catalog, now, view, histories>>

Pin(p, until) ==
  /\ until > now
  /\ rows' = {IF r.page = p THEN [r EXCEPT !.pin = until] ELSE r : r \in rows}
  /\ pinned' = IF Current(p) = {} THEN pinned ELSE [pinned EXCEPT ![p] = until]
  /\ UNCHANGED <<catalog, now, view, applied, twice, deleted, blind>>

Unpin(p) ==
  /\ rows' = {IF r.page = p THEN [r EXCEPT !.pin = 0] ELSE r : r \in rows}
  /\ pinned' = [pinned EXCEPT ![p] = 0]
  /\ UNCHANGED <<catalog, now, view, applied, twice, deleted, blind>>

(* invalidatePartition; every page is a partition of its own here.          *)
Invalidate(p) ==
  /\ rows' = rows \ Of(p)
  /\ pinned' = [pinned EXCEPT ![p] = 0]
  /\ applied' = {d \in applied : d.page # p}
  /\ deleted' = [deleted EXCEPT ![p] = [r \in Recipes |-> 0]]
  /\ UNCHANGED <<catalog, now, view, twice, blind>>

---------------------------------------------------------------------------
(* Advisory recipes.                                                        *)
RecipeRows(p, r) == {w \in Of(p) : w.kind = "recipe" /\ w.id = r}
Held(p, r) == IF RecipeRows(p, r) = {} THEN 0 ELSE (CHOOSE w \in RecipeRows(p, r) : TRUE).rev
Imports(p, r) == {w \in Of(p) : w.kind \in {"import", "deletedImport"} /\ w.id = r}
Off(p, r) == \E w \in Of(p) : w.kind = "control" /\ w.id = r /\ w.rev = 1
DeletedAt(p, r, s) == \E w \in Of(p) : w.kind = "deleted" /\ w.id = r /\ s <= w.rev
NextCatalog == [catalog EXCEPT !.revision = @ + 1]
ImportAllowed(p, r) == catalog.enabled /\ ~Off(p, r)

(* writeAdvisory of a learned recipe at a revision of its source.           *)
Import(p, r, s) ==
  /\ catalog.revision < MaxCatalog
  /\ \E page \in Current(p) : page.ends > now
  /\ \A w \in Imports(p, r) : w.n # s
  /\ ImportAllowed(p, r)
  /\ ~DeletedAt(p, r, s)
  /\ Held(p, r) <= s
  /\ Write(rows, {Make(p, "recipe", r, 0, s, NoDelta), Make(p, "import", r, s, s, NoDelta)}, p)
  /\ catalog' = NextCatalog
  /\ UNCHANGED <<now, view, histories>>

(* The revision, the profile and its recipes as a manager lists them.       *)
Listed(p) == [r \in Recipes |-> Held(p, r)]
Look(m) ==
  /\ view' = [view EXCEPT ![m] = [revision |-> catalog.revision, seen |-> [p \in Pages |-> Listed(p)]]]
  /\ UNCHANGED <<stored, now, histories>>

Fenced(m) == catalog.revision = view[m].revision /\ catalog.revision < MaxCatalog

(* advisoryItem: a row whose import receipt is there.                       *)
Managed(p, r) == \E w \in RecipeRows(p, r), i \in Imports(p, r) : i.kind = "import" /\ i.n = w.rev

(* deleteAdvisory: what goes and what is written for each deleted recipe.   *)
Dropped(ids) == {w \in rows : <<w.page, w.id>> \in ids /\ w.kind \in {"recipe", "control"}}
Marks(ids) ==
  {Make(w.page, "deletedImport", w.id, w.n, 0, NoDelta) :
     w \in {i \in rows : i.kind = "import" /\ <<i.page, i.id>> \in ids}}
  \cup {Make(c[1], "deleted", c[2], 0, Held(c[1], c[2]), NoDelta) : c \in ids}

Delete(m, ids, active) ==
  /\ Write(rows \ Dropped(ids), Marks(ids), active)
  /\ deleted' = [p \in Pages |-> [r \in Recipes |->
                   IF <<p, r>> \in ids /\ Held(p, r) > deleted[p][r] THEN Held(p, r) ELSE deleted[p][r]]]
  /\ blind' = (blind \/ \E c \in ids : Held(c[1], c[2]) # view[m].seen[c[1]][c[2]])

ManageFeature(m, on) ==
  /\ Fenced(m)
  /\ Write(rows, {}, Nobody)
  /\ catalog' = [NextCatalog EXCEPT !.enabled = on]
  /\ UNCHANGED <<now, view, histories>>

ManageUpdate(m, p, r, off) ==
  /\ Fenced(m)
  /\ Managed(p, r)
  /\ Write(rows, {Make(p, "control", r, 0, off, NoDelta)}, p)
  /\ catalog' = NextCatalog
  /\ UNCHANGED <<now, view, histories>>

ManageDelete(m, p, r) ==
  /\ Fenced(m)
  /\ Managed(p, r)
  /\ Delete(m, {<<p, r>>}, p)
  /\ catalog' = NextCatalog
  /\ UNCHANGED <<now, view, applied, twice, pinned>>

ManageClear(m) ==
  /\ Fenced(m)
  /\ Delete(m, {c \in Pages \X Recipes : Managed(c[1], c[2])}, Nobody)
  /\ catalog' = NextCatalog
  /\ UNCHANGED <<now, view, applied, twice, pinned>>

Tick ==
  /\ now < MaxTime
  /\ now' = now + 1
  /\ UNCHANGED <<stored, view, histories>>

---------------------------------------------------------------------------
Init ==
  /\ rows = {}
  /\ catalog = [revision |-> 0, enabled |-> TRUE]
  /\ now = 0
  /\ view = [m \in Managers |-> [revision |-> 0, seen |-> [p \in Pages |-> [r \in Recipes |-> 0]]]]
  /\ applied = {}
  /\ twice = FALSE
  /\ pinned = [p \in Pages |-> 0]
  /\ deleted = [p \in Pages |-> [r \in Recipes |-> 0]]
  /\ blind = FALSE

Next ==
  \/ \E d \in Delta : Commit(d)
  \/ \E p \in Pages, s \in Sets : WriteDataset(p, s)
  \/ \E p \in Pages, until \in 0 .. MaxTime : Pin(p, until)
  \/ \E p \in Pages : Unpin(p) \/ Invalidate(p)
  \/ \E p \in Pages, r \in Recipes, s \in Sources : Import(p, r, s)
  \/ \E m \in Managers : Look(m) \/ ManageClear(m)
  \/ \E m \in Managers, on \in BOOLEAN : ManageFeature(m, on)
  \/ \E m \in Managers, p \in Pages, r \in Recipes, off \in {0, 1} : ManageUpdate(m, p, r, off)
  \/ \E m \in Managers, p \in Pages, r \in Recipes : ManageDelete(m, p, r)
  \/ Tick

Spec == Init /\ [][Next]_vars

---------------------------------------------------------------------------
(* Every key names one row, and the store never exceeds its capacity.       *)
TypeOK ==
  /\ rows \subseteq Row
  /\ \A r, w \in rows : SameKey(r, w) => r = w
  /\ Cardinality(rows) <= Capacity
  /\ catalog \in [revision : 0 .. MaxCatalog, enabled : BOOLEAN]
  /\ now \in 0 .. MaxTime
  /\ view \in [Managers -> [revision : 0 .. MaxCatalog, seen : [Pages -> [Recipes -> 0 .. MaxSource]]]]
  /\ applied \subseteq Delta
  /\ pinned \in [Pages -> 0 .. MaxTime]
  /\ deleted \in [Pages -> [Recipes -> 0 .. MaxSource]]
  /\ {twice, blind} \subseteq BOOLEAN

(* A batch is applied at most once, however often it is retried and though  *)
(* its page was evicted in between, which takes the revision back to zero   *)
(* and the delta valid again.                                               *)
AppliedOnce == ~twice

(* A dataset that can be read is of the very graph it was collected from:   *)
(* the revision alone does not say so, for an evicted page starts again at  *)
(* revision one.                                                            *)
DatasetOfItsGraph ==
  \A d, g \in rows : d.kind = "dataset" /\ g.kind = "page" /\ d.page = g.page /\ d.rev = g.rev
                       => d.of = g.of

(* Until the pin of a page ends nothing that was pinned is evicted, nor is  *)
(* the page row, which a commit under the pin writes without a pin.         *)
PinHeld ==
  [][\A r \in rows : r.kind \in Graph /\ pinned'[r.page] > now' /\ (r.pin > now' \/ r.kind = "page")
       => \E w \in rows' : SameKey(w, r)]_vars

(* What the user deleted does not come back from a source that is not       *)
(* newer, by a replay, by a late import of an older revision, or after the  *)
(* eviction of its page.                                                    *)
NoResurrection == \A p \in Pages, r \in Recipes : Held(p, r) = 0 \/ Held(p, r) > deleted[p][r]

(* The revision of the catalog fences a manager: it never deletes a         *)
(* revision of a recipe other than the one it listed.                       *)
DeletesSeen == ~blind

(* "prune expired then LRU unpinned records"                                *)
(* (docs/architecture/web-codebase-construction.md:151): of two pages that  *)
(* could go, equally expired, the one written last is not the one that goes.*)
LastWrite(p) == CHOOSE t \in {r.time : r \in Of(p)} : \A r \in Of(p) : r.time <= t
LeastRecentGoes ==
  [][\A p, q \in Pages :
       Current(p) # {} /\ Current(q) # {} /\ ~(\E r \in Of(p) \cup Of(q) : r.ends <= now \/ r.pin > now)
       /\ LastWrite(q) < LastWrite(p)
       /\ {r \in rows' : r.page = p /\ r.kind = "page"} = {} /\ {r \in rows' : r.page = p} # {}
         => \A r \in Current(q) : r \notin rows' \/ \E d \in applied' \ applied : d.page = q]_vars

=============================================================================
