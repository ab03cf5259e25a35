-------------------------- MODULE Codebase_proofs --------------------------
(***************************************************************************)
(* Proofs about the codebase: CodebaseStore for every set of pages,        *)
(* batches, recipes and managers and every capacity; ProjectionRead for    *)
(* every set of leases and reads and every limit of the bridge; and what   *)
(* the two say of the behaviours that MCCodebase checks.                   *)
(***************************************************************************)
EXTENDS MCCodebase, Sequences, SequenceTheorems, FiniteSetTheorems,
        WellFoundedInduction, TLAPS

-----------------------------------------------------------------------------
(* The store: the inductive invariant.                                     *)

\* Only versions and imports are numbered; every other key is its page, kind and id.
KeysAreShort ==
  \A r \in rows : r.kind \notin {"version", "import", "deletedImport"} =>
    r.n = 0 /\ (r.kind = "page" => r.id = Nobody)

\* What was applied has its receipt.
ReceiptsKept == \A d \in applied : Receipts(d) # {}

\* A dataset lives with its page: of an older revision, or of the graph that is stored.
DatasetsFollow ==
  \A d \in rows : d.kind = "dataset" =>
    \E g \in rows : g.kind = "page" /\ g.page = d.page /\ d.rev <= g.rev
                    /\ (d.rev = g.rev => d.of = g.of)

\* What was deleted is marked with the highest revision that went.
MarksKept ==
  \A p \in Pages, r \in Recipes : deleted[p][r] > 0 =>
    \E w \in rows : w.page = p /\ w.kind = "deleted" /\ w.id = r /\ deleted[p][r] <= w.rev

RecipesHaveSources == \A w \in rows : w.kind = "recipe" => w.rev \in Sources

\* While no write changed the catalog, what a manager listed is there, or was evicted.
ListedOrGone ==
  \A m \in Managers :
    /\ view[m].revision <= catalog.revision
    /\ view[m].revision = catalog.revision =>
         \A p \in Pages, r \in Recipes : Held(p, r) = 0 \/ Held(p, r) = view[m].seen[p][r]

StoreInv ==
  /\ TypeOK /\ IsFiniteSet(rows) /\ KeysAreShort
  /\ ReceiptsKept /\ AppliedOnce
  /\ DatasetsFollow
  /\ MarksKept /\ RecipesHaveSources /\ NoResurrection
  /\ ListedOrGone /\ DeletesSeen

-----------------------------------------------------------------------------
(* What a write leaves in the store.                                       *)

\* A row of a key is a written one, or an old one whose key was not written.
LEMMA WrittenOrOld ==
  ASSUME NEW present, NEW writes, NEW active, Write(present, writes, active)
  PROVE  /\ writes \subseteq rows'
         /\ \A r \in rows' : r \in writes \/ (r \in present /\ \A w \in writes : ~SameKey(r, w))
<1>1. \E left : left \subseteq Retained(present, writes) /\ rows' = left \cup writes
  BY DEF Write, After
<1> QED BY <1>1 DEF Retained

\* An old row whose key was not written stays when it is of the journal, when it is of the
\* active page and no version, and whenever a row of its group stays that is not of the
\* journal, unless it is a version.
LEMMA Stays ==
  ASSUME NEW present, NEW writes, NEW active, Write(present, writes, active),
         NEW r \in present, \A w \in writes : ~SameKey(r, w)
  PROVE  /\ r.kind \in Journal => r \in rows'
         /\ r.page = active /\ r.kind # "version" => r \in rows'
         /\ \A d \in rows' \ writes :
              d.page = r.page /\ d.kind \notin Journal /\ r.kind # "version" => r \in rows'
<1> DEFINE kept == Retained(present, writes)
           size == Cardinality(kept) + Cardinality(writes)
<1>1. PICK chosen \in SUBSET Pages, gone \in SUBSET Spared(kept, active) :
        /\ Goes(kept, active, size, chosen)
        /\ rows' = (After(kept, chosen) \ gone) \cup writes
  BY DEF Write
<1>2. active \notin chosen
  BY <1>1 DEF Goes, Candidate
<1>3. \A w \in gone : w.kind = "version"
  BY <1>1 DEF Spared
<1>4. r \in kept
  BY DEF Retained
<1>5. r \in After(kept, chosen) /\ r.kind # "version" => r \in rows'
  BY <1>1, <1>3
<1>6. r.page \notin chosen => r \in After(kept, chosen)
  BY <1>4 DEF Evicted, GroupOf, After
<1>7. r.kind \in Journal => r \in After(kept, chosen) /\ r.kind # "version"
  BY <1>4 DEF Evicted, GroupOf, After, Journal
<1>8. ASSUME NEW d \in rows' \ writes, d.page = r.page, d.kind \notin Journal
      PROVE  r.page \notin chosen
  <2>1. d \in After(kept, chosen) /\ d \in kept
    BY <1>1, <1>8 DEF After
  <2> QED BY <2>1, <1>8 DEF Evicted, GroupOf, After
<1> QED BY <1>2, <1>5, <1>6, <1>7, <1>8

\* A write that is finite leaves no more than the capacity.
LEMMA WithinCapacity ==
  ASSUME NEW present, NEW writes, NEW active, Write(present, writes, active),
         IsFiniteSet(present), IsFiniteSet(writes)
  PROVE  IsFiniteSet(rows') /\ Cardinality(rows') <= Capacity
<1> DEFINE kept == Retained(present, writes)
           size == Cardinality(kept) + Cardinality(writes)
<1>1. PICK chosen \in SUBSET Pages, gone \in SUBSET Spared(kept, active) :
        /\ Goes(kept, active, size, chosen)
        /\ Pruned(kept, active, Cardinality(After(kept, chosen)) + Cardinality(writes), gone)
        /\ rows' = (After(kept, chosen) \ gone) \cup writes
  BY DEF Write
<1>2. After(kept, chosen) \subseteq present
  BY DEF Retained, After
<1>3. gone \subseteq After(kept, chosen)
  <2>1. active \notin chosen
    BY <1>1 DEF Goes, Candidate
  <2>2. \A w \in gone : w.page = active /\ w \in kept
    BY <1>1 DEF Spared
  <2> QED BY <2>1, <2>2 DEF Evicted, GroupOf, After
<1>4. IsFiniteSet(After(kept, chosen))
  BY <1>2, FS_Subset
<1>5. /\ IsFiniteSet(After(kept, chosen) \ gone)
      /\ Cardinality(After(kept, chosen) \ gone) = Cardinality(After(kept, chosen)) - Cardinality(gone)
  <2>1. After(kept, chosen) \cap gone = gone
    BY <1>3
  <2> QED BY <1>4, <2>1, FS_Difference
<1>7. /\ IsFiniteSet(rows')
      /\ Cardinality(rows') = Cardinality(After(kept, chosen) \ gone) + Cardinality(writes)
                                - Cardinality((After(kept, chosen) \ gone) \cap writes)
  BY <1>1, <1>5, FS_Union
<1>8. IsFiniteSet((After(kept, chosen) \ gone) \cap writes)
  BY <1>5, FS_Intersection
<1>9. /\ Cardinality(After(kept, chosen)) \in Nat /\ Cardinality(writes) \in Nat
      /\ Cardinality((After(kept, chosen) \ gone) \cap writes) \in Nat
  BY <1>4, <1>8, FS_CardinalityType
<1>10. Cardinality(gone) \in Nat
  BY <1>3, <1>4, FS_Subset, FS_CardinalityType
<1>11. Cardinality(After(kept, chosen)) + Cardinality(writes) - Cardinality(gone) <= Capacity
  BY <1>1, <1>9, <1>10, NumbersAreNatural DEF Pruned
<1> HIDE DEF kept, size
<1> QED BY <1>5, <1>7, <1>9, <1>10, <1>11, NumbersAreNatural

-----------------------------------------------------------------------------
(* Lemmas about rows.                                                      *)

KeysUnique(R) == \A r, w \in R : SameKey(r, w) => r = w
Short(R) ==
  \A r \in R : r.kind \notin {"version", "import", "deletedImport"} =>
    r.n = 0 /\ (r.kind = "page" => r.id = Nobody)

LEMMA MakeIsRow ==
  ASSUME now \in 0 .. MaxTime, NEW p \in Pages, NEW kind \in Kinds,
         NEW id \in Batches \cup Recipes \cup Sets \cup {Nobody},
         NEW n \in 0 .. MaxRevision + MaxSource, NEW rev \in 0 .. MaxRevision + MaxSource,
         NEW of \in Delta \cup {NoDelta}
  PROVE  Make(p, kind, id, n, rev, of) \in Row
<1>1. now + TTL \in Nat /\ now + Forever \in Nat /\ 0 \in 0 .. MaxTime
  BY NumbersAreNatural
<1> HIDE DEF Kinds
<1> QED BY <1>1 DEF Make, Row

LEMMA FewAreFinite ==
  ASSUME NEW a, NEW b, NEW c
  PROVE  IsFiniteSet({}) /\ IsFiniteSet({a}) /\ IsFiniteSet({a, b}) /\ IsFiniteSet({a, b, c})
<1>1. IsFiniteSet({a})
  BY FS_Singleton
<1>2. IsFiniteSet({a} \cup {b})
  BY <1>1, FS_AddElement
<1>3. IsFiniteSet(({a} \cup {b}) \cup {c})
  BY <1>2, FS_AddElement
<1>4. {a} \cup {b} = {a, b} /\ ({a} \cup {b}) \cup {c} = {a, b, c}
  OBVIOUS
<1> QED BY <1>1, <1>2, <1>3, <1>4, FS_EmptySet

\* The page row and the recipe row of an id are single.
LEMMA HeldIs ==
  ASSUME KeysUnique(rows), KeysAreShort, NEW p, NEW r, NEW w \in RecipeRows(p, r)
  PROVE  Held(p, r) = w.rev
<1>1. RecipeRows(p, r) = {w}
  BY DEF RecipeRows, Of, KeysUnique, SameKey, KeysAreShort
<1> QED BY <1>1 DEF Held

LEMMA HeldIsNext ==
  ASSUME KeysUnique(rows)', KeysAreShort', NEW p, NEW r, NEW w \in RecipeRows(p, r)'
  PROVE  Held(p, r)' = w.rev
<1>1. RecipeRows(p, r)' = {w}
  BY DEF RecipeRows, Of, KeysUnique, SameKey, KeysAreShort
<1> QED BY <1>1 DEF Held

LEMMA CurrentIs ==
  ASSUME KeysUnique(rows), KeysAreShort, NEW p, NEW g \in Current(p)
  PROVE  Current(p) = {g} /\ RevisionOf(p) = g.rev
<1>1. Current(p) = {g}
  BY DEF Current, Of, KeysUnique, SameKey, KeysAreShort
<1> QED BY <1>1 DEF RevisionOf

LEMMA StoreFacts ==
  ASSUME StoreInv
  PROVE  /\ rows \subseteq Row /\ KeysUnique(rows) /\ KeysAreShort /\ IsFiniteSet(rows)
         /\ now \in 0 .. MaxTime
  BY DEF StoreInv, TypeOK, KeysUnique

\* A write of rows with keys of their own leaves the store well formed.
LEMMA WriteKeeps ==
  ASSUME StoreInv, NEW present \in SUBSET rows, NEW writes \in SUBSET Row, NEW active,
         Write(present, writes, active), IsFiniteSet(writes), KeysUnique(writes), Short(writes)
  PROVE  /\ rows' \subseteq Row /\ KeysUnique(rows)' /\ KeysAreShort'
         /\ IsFiniteSet(rows') /\ Cardinality(rows') <= Capacity
<1>1. \A r \in rows' : r \in writes \/ (r \in present /\ \A w \in writes : ~SameKey(r, w))
  BY WrittenOrOld
<1>2. IsFiniteSet(present)
  BY StoreFacts, FS_Subset
<1>3. IsFiniteSet(rows') /\ Cardinality(rows') <= Capacity
  BY <1>2, WithinCapacity
<1>4. ASSUME NEW r \in rows', NEW w \in rows', SameKey(r, w) PROVE r = w
  <2>1. SameKey(w, r)
    BY <1>4 DEF SameKey
  <2> QED BY <1>1, <1>4, <2>1, StoreFacts DEF KeysUnique
<1>5. rows' \subseteq Row
  BY <1>1, StoreFacts
<1>6. KeysAreShort'
  BY <1>1, StoreFacts DEF KeysAreShort, Short
<1> QED BY <1>3, <1>4, <1>5, <1>6 DEF KeysUnique

LEMMA ReceiptsStay ==
  ASSUME StoreInv, NEW present \in SUBSET rows, NEW writes, NEW active, Write(present, writes, active),
         \A r \in rows : r.kind = "receipt" => r \in present
  PROVE  \A d \in applied : Receipts(d)' # {}
<1> SUFFICES ASSUME NEW d \in applied PROVE Receipts(d)' # {}
  OBVIOUS
<1>1. PICK r \in rows : r.page = d.page /\ r.kind = "receipt" /\ r.id = d.batch
  BY DEF StoreInv, ReceiptsKept, Receipts, Of
<1>2. CASE \E w \in writes : SameKey(r, w)
  BY <1>1, <1>2, WrittenOrOld DEF SameKey, Receipts, Of
<1>3. CASE \A w \in writes : ~SameKey(r, w)
  <2>1. r \in rows'
    BY <1>1, <1>3, Stays DEF Journal
  <2> QED BY <1>1, <2>1 DEF Receipts, Of
<1> QED BY <1>2, <1>3

LEMMA DatasetsStay ==
  ASSUME StoreInv, NEW present \in SUBSET rows, NEW writes, NEW active, Write(present, writes, active),
         \A r \in rows : r.kind = "page" => r \in present,
         \A w \in writes : w.kind \notin {"page", "dataset"}
  PROVE  DatasetsFollow'
<1> SUFFICES ASSUME NEW d \in rows', d.kind = "dataset"
             PROVE  \E g \in rows' : g.kind = "page" /\ g.page = d.page /\ d.rev <= g.rev
                                     /\ (d.rev = g.rev => d.of = g.of)
  BY DEF DatasetsFollow
<1>1. d \in rows /\ d \notin writes
  BY WrittenOrOld
<1>2. PICK g \in rows : g.kind = "page" /\ g.page = d.page /\ d.rev <= g.rev
                        /\ (d.rev = g.rev => d.of = g.of)
  BY <1>1 DEF StoreInv, DatasetsFollow
<1>3. g \in present /\ \A w \in writes : ~SameKey(g, w)
  BY <1>2 DEF SameKey
<1>4. g \in rows'
  BY <1>1, <1>2, <1>3, Stays DEF Journal
<1> QED BY <1>2, <1>4

\* A recipe of which no row is new keeps its revision, or is gone.
LEMMA KeptOrGone ==
  ASSUME StoreInv, KeysUnique(rows)', KeysAreShort', NEW p, NEW r,
         \A w \in rows' : w.kind = "recipe" /\ w.page = p /\ w.id = r => w \in rows
  PROVE  Held(p, r)' = 0 \/ Held(p, r)' = Held(p, r)
<1>1. CASE RecipeRows(p, r)' = {}
  BY <1>1 DEF Held
<1>2. CASE RecipeRows(p, r)' # {}
  <2>1. PICK w : w \in RecipeRows(p, r)'
    BY <1>2
  <2>2. w \in RecipeRows(p, r)
    BY <2>1 DEF RecipeRows, Of
  <2> QED BY <2>1, <2>2, HeldIs, HeldIsNext, StoreFacts
<1> QED BY <1>1, <1>2

LEMMA RecipesStay ==
  ASSUME StoreInv, NEW present \in SUBSET rows, NEW writes, NEW active, Write(present, writes, active),
         KeysUnique(rows)', KeysAreShort', NEW p, NEW r,
         \A w \in writes : ~(w.kind = "recipe" /\ w.page = p /\ w.id = r)
  PROVE  Held(p, r)' = 0 \/ Held(p, r)' = Held(p, r)
BY WrittenOrOld, KeptOrGone

\* A recipe that is held has a row, of a revision of its source.
LEMMA HeldType ==
  ASSUME StoreInv, NEW p, NEW r
  PROVE  /\ Held(p, r) \in 0 .. MaxSource
         /\ Held(p, r) = 0 <=> RecipeRows(p, r) = {}
<1>1. CASE RecipeRows(p, r) = {}
  BY <1>1, NumbersAreNatural DEF Held
<1>2. CASE RecipeRows(p, r) # {}
  <2>1. PICK w : w \in RecipeRows(p, r)
    BY <1>2
  <2>2. w.rev \in Sources
    BY <2>1 DEF StoreInv, RecipesHaveSources, RecipeRows, Of
  <2> QED BY <1>2, <2>1, <2>2, HeldIs, StoreFacts, NumbersAreNatural DEF Sources
<1> QED BY <1>1, <1>2

LEMMA MarksStay ==
  ASSUME StoreInv, NEW present \in SUBSET rows, NEW writes, NEW active, Write(present, writes, active),
         NEW w \in present, w.kind = "deleted"
  PROVE  \/ w \in rows'
         \/ \E v \in writes : v \in rows' /\ v.kind = "deleted" /\ v.page = w.page /\ v.id = w.id
<1>1. CASE \E v \in writes : SameKey(w, v)
  BY <1>1, WrittenOrOld DEF SameKey
<1>2. CASE \A v \in writes : ~SameKey(w, v)
  BY <1>2, Stays DEF Journal
<1> QED BY <1>1, <1>2

\* What a write of other kinds than pages, datasets, recipes and marks keeps, when it
\* deletes none of them and no receipt.
LEMMA PlainWrite ==
  ASSUME StoreInv, NEW writes \in SUBSET Row, NEW active, Write(rows, writes, active),
         KeysUnique(rows)', KeysAreShort',
         \A w \in writes : w.kind \notin {"recipe", "deleted"},
         catalog'.revision \in {catalog.revision, catalog.revision + 1},
         UNCHANGED <<view, deleted>>
  PROVE  MarksKept' /\ RecipesHaveSources' /\ NoResurrection' /\ ListedOrGone'
<1>1. \A p, r : Held(p, r)' = 0 \/ Held(p, r)' = Held(p, r)
  BY RecipesStay
<1>2. MarksKept'
  BY MarksStay DEF StoreInv, MarksKept
<1>3. RecipesHaveSources'
  BY WrittenOrOld DEF StoreInv, RecipesHaveSources
<1>4. NoResurrection'
  BY <1>1 DEF StoreInv, NoResurrection
<1>5. ListedOrGone'
  <2>1. \A m \in Managers : view[m].revision \in Nat /\ catalog.revision \in Nat
    BY NumbersAreNatural DEF StoreInv, TypeOK
  <2> QED BY <1>1, <2>1 DEF StoreInv, ListedOrGone
<1> QED BY <1>2, <1>3, <1>4, <1>5

-----------------------------------------------------------------------------
(* The steps of the store keep the invariant.                              *)

LEMMA InitKeeps == Init => StoreInv
<1> SUFFICES ASSUME Init PROVE StoreInv
  OBVIOUS
<1>1. IsFiniteSet(rows) /\ Cardinality(rows) <= Capacity
  BY FS_EmptySet, NumbersAreNatural DEF Init
<1>2. \A p \in Pages, r \in Recipes : Held(p, r) = 0
  BY DEF Init, Held, RecipeRows, Of
<1>3. TypeOK
  <2>1. 0 \in 0 .. MaxTime /\ 0 \in 0 .. MaxCatalog /\ 0 \in 0 .. MaxSource
    BY NumbersAreNatural
  <2>2. view \in [Managers -> [revision : 0 .. MaxCatalog, seen : [Pages -> [Recipes -> 0 .. MaxSource]]]]
    BY <2>1 DEF Init
  <2>3. catalog \in [revision : 0 .. MaxCatalog, enabled : BOOLEAN]
    BY <2>1 DEF Init
  <2> QED BY <1>1, <2>1, <2>2, <2>3 DEF Init, TypeOK
<1>4. ListedOrGone /\ NoResurrection
  BY <1>2 DEF Init, ListedOrGone, NoResurrection
<1> QED BY <1>1, <1>3, <1>4
     DEF Init, StoreInv, KeysAreShort, ReceiptsKept, AppliedOnce, DatasetsFollow, MarksKept,
         RecipesHaveSources, DeletesSeen

LEMMA CommitKeeps ==
  ASSUME StoreInv, NEW d \in Delta, Commit(d)
  PROVE  StoreInv'
<1> DEFINE next == d.expected + 1
           page == Make(d.page, "page", Nobody, 0, next, d)
           version == Make(d.page, "version", Nobody, next, next, d)
           receipt == Make(d.page, "receipt", d.batch, 0, next, d)
           writes == {page, version, receipt}
<1>1. Write(rows, writes, d.page) /\ UNCHANGED <<catalog, now, view, pinned, deleted, blind>>
  BY DEF Commit
<1>2. next \in 0 .. MaxRevision /\ next \in 0 .. MaxRevision + MaxSource /\ 0 \in 0 .. MaxRevision + MaxSource
  BY NumbersAreNatural DEF Delta
<1>3. writes \subseteq Row
  <2>1. d.page \in Pages /\ d.batch \in Batches /\ {"page", "version", "receipt"} \subseteq Kinds
    BY DEF Delta, Kinds
  <2>2. page \in Row
    BY <1>2, <2>1, MakeIsRow, StoreFacts
  <2>3. version \in Row
    BY <1>2, <2>1, MakeIsRow, StoreFacts
  <2>4. receipt \in Row
    BY <1>2, <2>1, MakeIsRow, StoreFacts
  <2> QED BY <2>2, <2>3, <2>4
<1>4. IsFiniteSet(writes) /\ KeysUnique(writes) /\ Short(writes)
  <2>1. IsFiniteSet(writes)
    BY FewAreFinite
  <2>2. KeysUnique(writes) /\ Short(writes)
    BY DEF KeysUnique, Short, SameKey, Make
  <2> QED BY <2>1, <2>2
<1>5. /\ rows' \subseteq Row /\ KeysUnique(rows)' /\ KeysAreShort'
      /\ IsFiniteSet(rows') /\ Cardinality(rows') <= Capacity
  BY <1>1, <1>3, <1>4, WriteKeeps
<1>6. \A w \in writes : w.kind \in {"page", "version", "receipt"} /\ w.page = d.page
  BY DEF Make
<1>7. MarksKept' /\ RecipesHaveSources' /\ NoResurrection' /\ ListedOrGone'
  BY <1>1, <1>3, <1>5, <1>6, PlainWrite
<1>8. d \notin applied /\ ~twice'
  BY DEF Commit, StoreInv, ReceiptsKept, AppliedOnce
<1>9. ReceiptsKept'
  <2>1. \A e \in applied : Receipts(e)' # {}
    BY <1>1, ReceiptsStay
  <2>2. receipt \in rows'
    BY <1>1, WrittenOrOld
  <2>3. receipt \in Receipts(d)'
    BY <2>2 DEF Receipts, Of, Make
  <2> QED BY <2>1, <2>3 DEF ReceiptsKept, Commit
<1>10. DatasetsFollow'
  <2> SUFFICES ASSUME NEW s \in rows', s.kind = "dataset"
               PROVE  \E g \in rows' : g.kind = "page" /\ g.page = s.page /\ s.rev <= g.rev
                                       /\ (s.rev = g.rev => s.of = g.of)
    BY DEF DatasetsFollow
  <2>1. s \in rows /\ s \notin writes
    BY <1>1, <1>6, WrittenOrOld
  <2>2. PICK g \in rows : g.kind = "page" /\ g.page = s.page /\ s.rev <= g.rev
                          /\ (s.rev = g.rev => s.of = g.of)
    BY <2>1 DEF StoreInv, DatasetsFollow
  <2>3. CASE g.page # d.page
    <3>1. \A w \in writes : ~SameKey(g, w)
      BY <1>6, <2>3 DEF SameKey
    <3>2. g \in rows'
      BY <1>1, <2>1, <2>2, <3>1, Stays DEF Journal
    <3> QED BY <2>2, <3>2
  <2>4. CASE g.page = d.page
    <3>1. g.rev = d.expected
      <4>1. g \in Current(d.page)
        BY <2>2, <2>4 DEF Current, Of
      <4> QED BY <4>1, CurrentIs, StoreFacts DEF Commit
    <3>2. page \in rows'
      BY <1>1, WrittenOrOld
    <3>3. s.rev \in Nat /\ g.rev \in Nat
      BY <2>1, StoreFacts, NumbersAreNatural DEF Row
    <3> QED BY <2>2, <2>4, <3>1, <3>2, <3>3 DEF Make
  <2> QED BY <2>3, <2>4
<1>11. TypeOK'
  <2>1. applied' \subseteq Delta /\ {twice', blind'} \subseteq BOOLEAN
    BY <1>1, <1>8 DEF Commit, StoreInv, TypeOK
  <2> QED BY <1>1, <1>5, <2>1 DEF StoreInv, TypeOK, KeysUnique
<1> QED BY <1>1, <1>5, <1>7, <1>8, <1>9, <1>10, <1>11 DEF StoreInv, AppliedOnce, DeletesSeen

LEMMA WriteDatasetKeeps ==
  ASSUME StoreInv, NEW p \in Pages, NEW s \in Sets, WriteDataset(p, s)
  PROVE  StoreInv'
<1>1. PICK g : g \in Current(p)
  BY DEF WriteDataset
<1>2. Current(p) = {g} /\ RevisionOf(p) = g.rev /\ g \in Row /\ g.page = p /\ g \in rows /\ g.kind = "page"
  BY <1>1, CurrentIs, StoreFacts DEF Current, Of
<1> DEFINE set == Make(p, "dataset", s, 0, g.rev, g.of)
           writes == {set}
<1>3. Write(rows, writes, p) /\ UNCHANGED <<catalog, now, view, histories>>
  <2>1. {Make(p, "dataset", s, 0, RevisionOf(p), r.of) : r \in Current(p)} = writes
    BY <1>2
  <2> QED BY <2>1 DEF WriteDataset
<1>4. writes \subseteq Row
  <2>1. 0 \in 0 .. MaxRevision + MaxSource
    BY NumbersAreNatural
  <2> QED BY <1>2, <2>1, MakeIsRow, StoreFacts DEF Row, Kinds
<1>5. IsFiniteSet(writes) /\ KeysUnique(writes) /\ Short(writes)
  <2>1. IsFiniteSet(writes)
    BY FewAreFinite
  <2>2. KeysUnique(writes) /\ Short(writes)
    BY DEF KeysUnique, Short, Make
  <2> QED BY <2>1, <2>2
<1>6. /\ rows' \subseteq Row /\ KeysUnique(rows)' /\ KeysAreShort'
      /\ IsFiniteSet(rows') /\ Cardinality(rows') <= Capacity
  BY <1>3, <1>4, <1>5, WriteKeeps
<1>7. \A w \in writes : w.kind = "dataset" /\ w.page = p /\ w.rev = g.rev /\ w.of = g.of
  BY DEF Make
<1>8. MarksKept' /\ RecipesHaveSources' /\ NoResurrection' /\ ListedOrGone'
  BY <1>3, <1>4, <1>6, <1>7, PlainWrite DEF histories
<1>9. ReceiptsKept'
  BY <1>3, ReceiptsStay DEF histories, ReceiptsKept
<1>10. DatasetsFollow'
  <2> SUFFICES ASSUME NEW d \in rows', d.kind = "dataset"
               PROVE  \E h \in rows' : h.kind = "page" /\ h.page = d.page /\ d.rev <= h.rev
                                       /\ (d.rev = h.rev => d.of = h.of)
    BY DEF DatasetsFollow
  <2>1. \A h \in rows : h.kind = "page" => \A w \in writes : ~SameKey(h, w)
    BY <1>7 DEF SameKey
  <2>2. CASE d \in writes
    <3>1. g \in rows'
      BY <1>2, <1>3, <2>1, Stays
    <3>2. g.rev <= g.rev
      BY <1>2, NumbersAreNatural DEF Row
    <3> QED BY <1>2, <1>7, <2>2, <3>1, <3>2
  <2>3. CASE d \notin writes
    <3>1. d \in rows
      BY <1>3, <2>3, WrittenOrOld
    <3>2. PICK h \in rows : h.kind = "page" /\ h.page = d.page /\ d.rev <= h.rev
                            /\ (d.rev = h.rev => d.of = h.of)
      BY <3>1 DEF StoreInv, DatasetsFollow
    <3>3. h \in rows'
      BY <1>3, <2>1, <2>3, <3>2, Stays DEF Journal
    <3> QED BY <3>2, <3>3
  <2> QED BY <2>2, <2>3
<1>11. TypeOK'
  BY <1>3, <1>6 DEF StoreInv, TypeOK, KeysUnique, histories
<1> QED BY <1>3, <1>6, <1>8, <1>9, <1>10, <1>11 DEF StoreInv, AppliedOnce, DeletesSeen, histories

\* Pins change nothing but the pins of rows.
LEMMA Repinned ==
  ASSUME StoreInv, NEW p \in Pages, NEW until \in 0 .. MaxTime,
         rows' = {IF r.page = p THEN [r EXCEPT !.pin = until] ELSE r : r \in rows},
         UNCHANGED <<catalog, now, view, applied, twice, deleted, blind>>,
         pinned' \in [Pages -> 0 .. MaxTime]
  PROVE  StoreInv'
<1> DEFINE New(r) == IF r.page = p THEN [r EXCEPT !.pin = until] ELSE r
<1>1. \A r \in rows : /\ New(r) \in rows' /\ New(r) \in Row
                      /\ New(r).page = r.page /\ New(r).kind = r.kind /\ New(r).id = r.id
                      /\ New(r).n = r.n /\ New(r).rev = r.rev /\ New(r).of = r.of
  BY StoreFacts DEF Row
<1>2. \A w \in rows' : \E r \in rows : w = New(r)
  OBVIOUS
<1> HIDE DEF New
<1>3. IsFiniteSet(rows') /\ Cardinality(rows') <= Capacity
  <2> DEFINE f == [r \in rows |-> New(r)]
  <2>1. f \in Surjection(rows, rows')
    BY <1>1, <1>2 DEF Surjection
  <2>2. IsFiniteSet(rows') /\ Cardinality(rows') <= Cardinality(rows)
    BY <2>1, StoreFacts, FS_Surjection
  <2>3. Cardinality(rows') \in Nat /\ Cardinality(rows) \in Nat /\ Cardinality(rows) <= Capacity
    BY <2>2, StoreFacts, FS_CardinalityType DEF StoreInv, TypeOK
  <2> QED BY <2>2, <2>3, NumbersAreNatural
<1>4. rows' \subseteq Row /\ KeysUnique(rows)' /\ KeysAreShort'
  <2>1. KeysUnique(rows)'
    <3> SUFFICES ASSUME NEW v \in rows', NEW w \in rows', SameKey(v, w) PROVE v = w
      BY DEF KeysUnique
    <3>1. PICK a \in rows, b \in rows : v = New(a) /\ w = New(b)
      BY <1>2
    <3>2. SameKey(a, b)
      BY <1>1, <3>1 DEF SameKey
    <3> QED BY <3>1, <3>2, StoreFacts DEF KeysUnique
  <2>2. rows' \subseteq Row
    <3> SUFFICES ASSUME NEW w \in rows' PROVE w \in Row
      OBVIOUS
    <3> QED BY <1>1, <1>2
  <2>3. KeysAreShort'
    <3> SUFFICES ASSUME NEW w \in rows', w.kind \notin {"version", "import", "deletedImport"}
                 PROVE  w.n = 0 /\ (w.kind = "page" => w.id = Nobody)
      BY DEF KeysAreShort
    <3>1. PICK r \in rows : w = New(r)
      BY <1>2
    <3> QED BY <1>1, <3>1, StoreFacts DEF KeysAreShort
  <2> QED BY <2>1, <2>2, <2>3
<1>5. \A q, r : Held(q, r)' = Held(q, r)
  <2> SUFFICES ASSUME NEW q, NEW r PROVE Held(q, r)' = Held(q, r)
    OBVIOUS
  <2>1. CASE RecipeRows(q, r) = {}
    <3>1. ASSUME NEW w \in RecipeRows(q, r)' PROVE FALSE
      <4>1. PICK v \in rows : w = New(v)
        BY <1>2, <3>1 DEF RecipeRows, Of
      <4> QED BY <1>1, <2>1, <3>1, <4>1 DEF RecipeRows, Of
    <3>2. RecipeRows(q, r)' = {}
      BY <3>1
    <3> QED BY <2>1, <3>2 DEF Held
  <2>2. CASE RecipeRows(q, r) # {}
    <3>1. PICK w : w \in RecipeRows(q, r)
      BY <2>2
    <3>2. New(w) \in RecipeRows(q, r)' /\ New(w).rev = w.rev
      BY <1>1, <3>1 DEF RecipeRows, Of
    <3> QED BY <1>4, <3>1, <3>2, HeldIs, HeldIsNext, StoreFacts
  <2> QED BY <2>1, <2>2
<1>6. ReceiptsKept'
  BY <1>1 DEF StoreInv, ReceiptsKept, Receipts, Of
<1>7. DatasetsFollow'
  <2> SUFFICES ASSUME NEW d \in rows', d.kind = "dataset"
               PROVE  \E h \in rows' : h.kind = "page" /\ h.page = d.page /\ d.rev <= h.rev
                                       /\ (d.rev = h.rev => d.of = h.of)
    BY DEF DatasetsFollow
  <2>1. PICK e \in rows : d = New(e)
    BY <1>2
  <2>2. e.kind = "dataset" /\ e.page = d.page /\ e.rev = d.rev /\ e.of = d.of
    BY <1>1, <2>1
  <2>3. PICK g \in rows : g.kind = "page" /\ g.page = e.page /\ e.rev <= g.rev
                          /\ (e.rev = g.rev => e.of = g.of)
    BY <2>2 DEF StoreInv, DatasetsFollow
  <2>4. /\ New(g) \in rows' /\ New(g).kind = "page" /\ New(g).page = d.page
        /\ New(g).rev = g.rev /\ New(g).of = g.of
    BY <1>1, <2>2, <2>3
  <2> QED BY <2>2, <2>3, <2>4
<1>8. MarksKept'
  <2> SUFFICES ASSUME NEW q \in Pages, NEW r \in Recipes, deleted[q][r] > 0
               PROVE  \E w \in rows' : w.page = q /\ w.kind = "deleted" /\ w.id = r /\ deleted[q][r] <= w.rev
    BY DEF MarksKept
  <2>1. PICK w \in rows : w.page = q /\ w.kind = "deleted" /\ w.id = r /\ deleted[q][r] <= w.rev
    BY DEF StoreInv, MarksKept
  <2> QED BY <1>1, <2>1
<1>9. RecipesHaveSources'
  <2> SUFFICES ASSUME NEW w \in rows', w.kind = "recipe" PROVE w.rev \in Sources
    BY DEF RecipesHaveSources
  <2>1. PICK r \in rows : w = New(r)
    BY <1>2
  <2> QED BY <1>1, <2>1 DEF StoreInv, RecipesHaveSources
<1>10. NoResurrection' /\ ListedOrGone'
  BY <1>5 DEF StoreInv, NoResurrection, ListedOrGone
<1>11. TypeOK'
  BY <1>3, <1>4 DEF StoreInv, TypeOK, KeysUnique
<1> QED BY <1>3, <1>4, <1>6, <1>7, <1>8, <1>9, <1>10, <1>11 DEF StoreInv, AppliedOnce, DeletesSeen

LEMMA PinKeeps ==
  ASSUME StoreInv, NEW p \in Pages, NEW until \in 0 .. MaxTime, Pin(p, until) \/ Unpin(p)
  PROVE  StoreInv'
<1>1. 0 \in 0 .. MaxTime /\ pinned \in [Pages -> 0 .. MaxTime]
  BY NumbersAreNatural DEF StoreInv, TypeOK
<1>2. CASE Pin(p, until)
  <2>1. pinned' \in [Pages -> 0 .. MaxTime]
    BY <1>1, <1>2 DEF Pin
  <2> QED BY <1>2, <2>1, Repinned DEF Pin
<1>3. CASE Unpin(p)
  <2>1. pinned' \in [Pages -> 0 .. MaxTime]
    BY <1>1, <1>3 DEF Unpin
  <2> QED BY <1>1, <1>3, <2>1, Repinned DEF Unpin
<1> QED BY <1>2, <1>3

LEMMA InvalidateKeeps ==
  ASSUME StoreInv, NEW p \in Pages, Invalidate(p)
  PROVE  StoreInv'
<1>1. rows' \subseteq rows /\ \A r \in rows : r \in rows' <=> r.page # p
  BY DEF Invalidate, Of
<1>2. UNCHANGED <<catalog, now, view, twice, blind>>
  BY DEF Invalidate
<1>3. rows' \subseteq Row /\ KeysUnique(rows)' /\ KeysAreShort'
  BY <1>1, StoreFacts DEF KeysUnique, KeysAreShort
<1>4. IsFiniteSet(rows') /\ Cardinality(rows') <= Capacity
  <2>1. IsFiniteSet(rows') /\ Cardinality(rows') <= Cardinality(rows)
    BY <1>1, StoreFacts, FS_Subset
  <2>2. Cardinality(rows') \in Nat /\ Cardinality(rows) \in Nat /\ Cardinality(rows) <= Capacity
    BY <2>1, StoreFacts, FS_CardinalityType DEF StoreInv, TypeOK
  <2> QED BY <2>1, <2>2, NumbersAreNatural
<1>5. \A q, r : Held(q, r)' = 0 \/ Held(q, r)' = Held(q, r)
  BY <1>1, <1>3, KeptOrGone
<1>6. \A r : Held(p, r)' = 0
  BY <1>1 DEF Held, RecipeRows, Of
<1>7. ReceiptsKept'
  <2> SUFFICES ASSUME NEW d \in applied, d.page # p PROVE Receipts(d)' # {}
    BY DEF Invalidate, ReceiptsKept
  <2> QED BY <1>1 DEF StoreInv, ReceiptsKept, Receipts, Of
<1>8. DatasetsFollow'
  BY <1>1 DEF StoreInv, DatasetsFollow
<1>9. deleted' \in [Pages -> [Recipes -> 0 .. MaxSource]]
      /\ \A q \in Pages, r \in Recipes : deleted'[q][r] = IF q = p THEN 0 ELSE deleted[q][r]
  BY NumbersAreNatural DEF Invalidate, StoreInv, TypeOK
<1>10. MarksKept'
  BY <1>1, <1>9 DEF StoreInv, MarksKept
<1>11. RecipesHaveSources' /\ ListedOrGone'
  BY <1>1, <1>2, <1>5 DEF StoreInv, RecipesHaveSources, ListedOrGone
<1>12. NoResurrection'
  BY <1>5, <1>6, <1>9 DEF StoreInv, NoResurrection
<1>13. TypeOK'
  <2>1. applied' \subseteq Delta /\ pinned' \in [Pages -> 0 .. MaxTime]
    BY NumbersAreNatural DEF Invalidate, StoreInv, TypeOK
  <2> QED BY <1>2, <1>3, <1>4, <1>9, <2>1 DEF StoreInv, TypeOK, KeysUnique
<1> QED BY <1>2, <1>3, <1>4, <1>7, <1>8, <1>10, <1>11, <1>12, <1>13 DEF StoreInv, AppliedOnce, DeletesSeen

LEMMA ImportKeeps ==
  ASSUME StoreInv, NEW p \in Pages, NEW r \in Recipes, NEW s \in Sources, Import(p, r, s)
  PROVE  StoreInv'
<1> DEFINE recipe == Make(p, "recipe", r, 0, s, NoDelta)
           receipt == Make(p, "import", r, s, s, NoDelta)
           writes == {recipe, receipt}
<1>1. Write(rows, writes, p) /\ UNCHANGED <<now, view, histories>> /\ catalog' = NextCatalog
      /\ catalog.revision < MaxCatalog
  BY DEF Import
<1>2. s \in Nat /\ s >= 1 /\ s \in 0 .. MaxRevision + MaxSource /\ 0 \in 0 .. MaxRevision + MaxSource
  BY NumbersAreNatural DEF Sources
<1>3. writes \subseteq Row
  <2>1. {"recipe", "import"} \subseteq Kinds
    BY DEF Kinds
  <2>2. recipe \in Row
    BY <1>2, <2>1, MakeIsRow, StoreFacts
  <2>3. receipt \in Row
    BY <1>2, <2>1, MakeIsRow, StoreFacts
  <2> QED BY <2>2, <2>3
<1>4. IsFiniteSet(writes) /\ KeysUnique(writes) /\ Short(writes)
  <2>1. IsFiniteSet(writes)
    BY FewAreFinite
  <2>2. KeysUnique(writes) /\ Short(writes)
    BY DEF KeysUnique, Short, SameKey, Make
  <2> QED BY <2>1, <2>2
<1>5. /\ rows' \subseteq Row /\ KeysUnique(rows)' /\ KeysAreShort'
      /\ IsFiniteSet(rows') /\ Cardinality(rows') <= Capacity
  BY <1>1, <1>3, <1>4, WriteKeeps
<1>6. \A w \in writes : w.kind \in {"recipe", "import"} /\ w.page = p /\ w.id = r /\ w.rev = s
  BY DEF Make
<1>7. \A q, t : <<q, t>> # <<p, r>> => Held(q, t)' = 0 \/ Held(q, t)' = Held(q, t)
  BY <1>1, <1>5, <1>6, RecipesStay
<1>8. Held(p, r)' = s
  <2>1. recipe \in rows'
    BY <1>1, WrittenOrOld
  <2>2. recipe \in RecipeRows(p, r)' /\ recipe.rev = s
    BY <2>1 DEF RecipeRows, Of, Make
  <2> QED BY <1>5, <2>2, HeldIsNext
<1>9. deleted[p][r] < s
  <2>1. deleted[p][r] \in 0 .. MaxSource
    BY DEF StoreInv, TypeOK
  <2>2. CASE deleted[p][r] > 0
    <3>1. PICK w \in rows : w.page = p /\ w.kind = "deleted" /\ w.id = r /\ deleted[p][r] <= w.rev
      BY <2>2 DEF StoreInv, MarksKept
    <3>2. ~(s <= w.rev)
      BY <3>1 DEF Import, DeletedAt, Of
    <3>3. w.rev \in Nat
      BY <3>1, StoreFacts, NumbersAreNatural DEF Row
    <3> QED BY <1>2, <2>1, <3>1, <3>2, <3>3, NumbersAreNatural
  <2> QED BY <1>2, <2>1, <2>2, NumbersAreNatural
<1>10. NoResurrection'
  BY <1>1, <1>7, <1>8, <1>9, <1>2 DEF StoreInv, NoResurrection, histories
<1>11. ReceiptsKept' /\ DatasetsFollow'
  BY <1>1, <1>6, ReceiptsStay, DatasetsStay DEF ReceiptsKept, histories
<1>12. MarksKept'
  BY <1>1, <1>6, MarksStay DEF StoreInv, MarksKept, histories
<1>13. RecipesHaveSources'
  BY <1>1, <1>6, WrittenOrOld DEF StoreInv, RecipesHaveSources
<1>14. ListedOrGone'
  <2>1. \A m \in Managers : view[m].revision \in Nat
    BY NumbersAreNatural DEF StoreInv, TypeOK
  <2>2. catalog'.revision = catalog.revision + 1 /\ catalog.revision \in Nat
    BY <1>1, NumbersAreNatural DEF NextCatalog, StoreInv, TypeOK
  <2> QED BY <1>1, <2>1, <2>2 DEF StoreInv, ListedOrGone
<1>15. TypeOK'
  <2>1. catalog' \in [revision : 0 .. MaxCatalog, enabled : BOOLEAN]
    BY <1>1, NumbersAreNatural DEF NextCatalog, StoreInv, TypeOK
  <2> QED BY <1>1, <1>5, <2>1 DEF StoreInv, TypeOK, KeysUnique, histories
<1> QED BY <1>1, <1>5, <1>10, <1>11, <1>12, <1>13, <1>14, <1>15
     DEF StoreInv, AppliedOnce, DeletesSeen, histories

LEMMA LookKeeps ==
  ASSUME StoreInv, NEW m \in Managers, Look(m)
  PROVE  StoreInv'
<1> DEFINE seen == [p \in Pages |-> Listed(p)]
<1>1. seen \in [Pages -> [Recipes -> 0 .. MaxSource]] /\ \A p \in Pages, r \in Recipes : seen[p][r] = Held(p, r)
  <2>1. \A p \in Pages, r \in Recipes : Held(p, r) \in 0 .. MaxSource
    BY HeldType
  <2> QED BY <2>1 DEF Listed
<1> HIDE DEF seen
<1>2. /\ view' = [view EXCEPT ![m] = [revision |-> catalog.revision, seen |-> seen]]
      /\ UNCHANGED <<rows, catalog, now, histories>>
  BY DEF Look, stored, seen
<1>3. view' \in [Managers -> [revision : 0 .. MaxCatalog, seen : [Pages -> [Recipes -> 0 .. MaxSource]]]]
  BY <1>1, <1>2 DEF StoreInv, TypeOK
<1>4. \A p, r : Held(p, r)' = Held(p, r)
  BY <1>2 DEF Held, RecipeRows, Of
<1>5. ListedOrGone'
  <2>1. view'[m].revision = catalog.revision /\ view'[m].seen = seen
        /\ \A k \in Managers \ {m} : view'[k] = view[k]
    BY <1>2 DEF StoreInv, TypeOK
  <2>2. catalog.revision <= catalog.revision
    BY NumbersAreNatural DEF StoreInv, TypeOK
  <2> QED BY <1>1, <1>2, <1>4, <2>1, <2>2 DEF StoreInv, ListedOrGone
<1>6. NoResurrection'
  BY <1>2, <1>4 DEF StoreInv, NoResurrection, histories
<1>7. ReceiptsKept' /\ DatasetsFollow' /\ MarksKept' /\ RecipesHaveSources' /\ KeysAreShort'
  BY <1>2 DEF StoreInv, ReceiptsKept, Receipts, Of, DatasetsFollow, MarksKept, RecipesHaveSources,
              KeysAreShort, histories
<1>8. TypeOK'
  BY <1>2, <1>3 DEF StoreInv, TypeOK, histories, SameKey
<1> QED BY <1>2, <1>5, <1>6, <1>7, <1>8 DEF StoreInv, AppliedOnce, DeletesSeen, histories

LEMMA TickKeeps ==
  ASSUME StoreInv, Tick
  PROVE  StoreInv'
<1>1. UNCHANGED <<rows, catalog, view, histories>> /\ now' \in 0 .. MaxTime
  BY NumbersAreNatural DEF Tick, StoreInv, TypeOK, stored
<1>2. \A p, r : Held(p, r)' = Held(p, r)
  BY <1>1 DEF Held, RecipeRows, Of
<1>3. NoResurrection' /\ ListedOrGone'
  BY <1>1, <1>2 DEF StoreInv, NoResurrection, ListedOrGone, histories
<1>4. ReceiptsKept' /\ DatasetsFollow' /\ MarksKept' /\ RecipesHaveSources' /\ KeysAreShort'
  BY <1>1 DEF StoreInv, ReceiptsKept, Receipts, Of, DatasetsFollow, MarksKept, RecipesHaveSources,
              KeysAreShort, histories
<1>5. TypeOK'
  BY <1>1 DEF StoreInv, TypeOK, histories, SameKey
<1> QED BY <1>1, <1>3, <1>4, <1>5 DEF StoreInv, AppliedOnce, DeletesSeen, histories

\* A step that writes no graph, recipe or mark, and counts the catalog at most.
LEMMA PlainStep ==
  ASSUME StoreInv, NEW writes \in SUBSET Row, NEW active, Write(rows, writes, active),
         IsFiniteSet(writes), KeysUnique(writes), Short(writes),
         \A w \in writes : w.kind \notin {"page", "dataset", "recipe", "deleted"},
         catalog' \in [revision : 0 .. MaxCatalog, enabled : BOOLEAN],
         catalog'.revision \in {catalog.revision, catalog.revision + 1},
         UNCHANGED <<now, view, histories>>
  PROVE  StoreInv'
<1>1. /\ rows' \subseteq Row /\ KeysUnique(rows)' /\ KeysAreShort'
      /\ IsFiniteSet(rows') /\ Cardinality(rows') <= Capacity
  BY WriteKeeps
<1>2. MarksKept' /\ RecipesHaveSources' /\ NoResurrection' /\ ListedOrGone'
  BY <1>1, PlainWrite DEF histories
<1>3. ReceiptsKept' /\ DatasetsFollow'
  BY ReceiptsStay, DatasetsStay DEF ReceiptsKept, histories
<1>4. TypeOK'
  BY <1>1 DEF StoreInv, TypeOK, KeysUnique, histories
<1> QED BY <1>1, <1>2, <1>3, <1>4 DEF StoreInv, AppliedOnce, DeletesSeen, histories

LEMMA Counted ==
  ASSUME StoreInv, NEW m \in Managers, Fenced(m)
  PROVE  /\ NextCatalog \in [revision : 0 .. MaxCatalog, enabled : BOOLEAN]
         /\ NextCatalog.revision = catalog.revision + 1 /\ catalog.revision \in Nat
BY NumbersAreNatural DEF Fenced, NextCatalog, StoreInv, TypeOK

LEMMA FeatureKeeps ==
  ASSUME StoreInv, NEW m \in Managers, NEW on \in BOOLEAN, ManageFeature(m, on)
  PROVE  StoreInv'
<1>1. /\ Write(rows, {}, Nobody) /\ UNCHANGED <<now, view, histories>>
      /\ catalog' = [NextCatalog EXCEPT !.enabled = on] /\ Fenced(m)
  BY DEF ManageFeature
<1>2. IsFiniteSet({}) /\ KeysUnique({}) /\ Short({})
  BY FewAreFinite DEF KeysUnique, Short
<1>3. /\ catalog' \in [revision : 0 .. MaxCatalog, enabled : BOOLEAN]
      /\ catalog'.revision = catalog.revision + 1
  BY <1>1, Counted
<1> QED BY <1>1, <1>2, <1>3, PlainStep

LEMMA UpdateKeeps ==
  ASSUME StoreInv, NEW m \in Managers, NEW p \in Pages, NEW r \in Recipes, NEW off \in {0, 1},
         ManageUpdate(m, p, r, off)
  PROVE  StoreInv'
<1> DEFINE control == Make(p, "control", r, 0, off, NoDelta)
<1>1. /\ Write(rows, {control}, p) /\ UNCHANGED <<now, view, histories>>
      /\ catalog' = NextCatalog /\ Fenced(m) /\ Managed(p, r)
  BY DEF ManageUpdate
<1>2. off \in 0 .. MaxRevision + MaxSource /\ 0 \in 0 .. MaxRevision + MaxSource
  <2>1. PICK w : w \in RecipeRows(p, r)
    BY <1>1 DEF Managed
  <2>2. w.rev \in Sources
    BY <2>1 DEF StoreInv, RecipesHaveSources, RecipeRows, Of
  <2> QED BY <2>2, NumbersAreNatural DEF Sources
<1>3. control \in Row
  <2>1. "control" \in Kinds
    BY DEF Kinds
  <2> QED BY <1>2, <2>1, MakeIsRow, StoreFacts
<1>4. IsFiniteSet({control})
  BY FewAreFinite
<1>5. KeysUnique({control}) /\ Short({control}) /\ \A w \in {control} : w.kind = "control"
  BY DEF KeysUnique, Short, Make
<1>6. /\ catalog' \in [revision : 0 .. MaxCatalog, enabled : BOOLEAN]
      /\ catalog'.revision = catalog.revision + 1
  BY <1>1, Counted
<1> HIDE DEF control
<1> QED BY <1>1, <1>3, <1>4, <1>5, <1>6, PlainStep

\* The marks of what a manager deletes: rows of keys of their own.
LEMMA MarksAreRows ==
  ASSUME StoreInv, NEW ids \in SUBSET (Pages \X Recipes), \A c \in ids : Managed(c[1], c[2])
  PROVE  /\ Marks(ids) \subseteq Row /\ IsFiniteSet(Marks(ids))
         /\ KeysUnique(Marks(ids)) /\ Short(Marks(ids))
         /\ \A w \in Marks(ids) :
              \/ w.kind = "deletedImport"
              \/ w.kind = "deleted" /\ <<w.page, w.id>> \in ids
         /\ \A c \in ids : \E w \in Marks(ids) :
              w.kind = "deleted" /\ w.page = c[1] /\ w.id = c[2] /\ w.rev = Held(c[1], c[2])
<1> DEFINE Told == {i \in rows : i.kind = "import" /\ <<i.page, i.id>> \in ids}
           Replaced(w) == Make(w.page, "deletedImport", w.id, w.n, 0, NoDelta)
           Mark(c) == Make(c[1], "deleted", c[2], 0, Held(c[1], c[2]), NoDelta)
<1>1. Marks(ids) = {Replaced(w) : w \in Told} \cup {Mark(c) : c \in ids}
  BY DEF Marks
<1>2. \A w \in Told : /\ Replaced(w).page = w.page /\ Replaced(w).kind = "deletedImport"
                      /\ Replaced(w).id = w.id /\ Replaced(w).n = w.n
  BY DEF Make
<1>3. \A c \in ids : /\ Mark(c).page = c[1] /\ Mark(c).kind = "deleted" /\ Mark(c).id = c[2]
                     /\ Mark(c).n = 0 /\ Mark(c).rev = Held(c[1], c[2])
  BY DEF Make
<1>4. 0 \in 0 .. MaxRevision + MaxSource
  BY NumbersAreNatural
<1>5. ASSUME NEW w \in Told PROVE Replaced(w) \in Row
  <2>1. w \in Row /\ "deletedImport" \in Kinds
    BY <1>5, StoreFacts DEF Kinds
  <2>2. /\ w.page \in Pages /\ w.id \in Batches \cup Recipes \cup Sets \cup {Nobody}
        /\ w.n \in 0 .. MaxRevision + MaxSource
    BY <2>1 DEF Row
  <2> QED BY <1>4, <2>1, <2>2, MakeIsRow, StoreFacts
<1>6. ASSUME NEW c \in ids PROVE Mark(c) \in Row
  <2>1. c[1] \in Pages /\ c[2] \in Recipes /\ "deleted" \in Kinds
    BY <1>6 DEF Kinds
  <2>2. Held(c[1], c[2]) \in 0 .. MaxRevision + MaxSource
    BY HeldType, NumbersAreNatural
  <2> QED BY <1>4, <2>1, <2>2, MakeIsRow, StoreFacts
<1> HIDE DEF Replaced, Mark
<1>7. IsFiniteSet({Replaced(w) : w \in Told})
  <2> DEFINE f == [w \in Told |-> Replaced(w)]
  <2>1. IsFiniteSet(Told)
    BY StoreFacts, FS_Subset
  <2>2. f \in Surjection(Told, {Replaced(w) : w \in Told})
    BY DEF Surjection
  <2> QED BY <2>1, <2>2, FS_Surjection
<1>8. IsFiniteSet({Mark(c) : c \in ids})
  <2> DEFINE pairs == {<<w.page, w.id>> : w \in rows}
             f == [w \in rows |-> <<w.page, w.id>>]
             g == [c \in ids |-> Mark(c)]
  <2>1. IsFiniteSet(pairs)
    <3>1. f \in Surjection(rows, pairs)
      BY DEF Surjection
    <3> QED BY <3>1, StoreFacts, FS_Surjection
  <2>2. ids \subseteq pairs
    <3> SUFFICES ASSUME NEW c \in ids PROVE c \in pairs
      OBVIOUS
    <3>1. PICK w : w \in RecipeRows(c[1], c[2])
      BY DEF Managed
    <3>2. c = <<c[1], c[2]>>
      OBVIOUS
    <3> QED BY <3>1, <3>2 DEF RecipeRows, Of
  <2>3. IsFiniteSet(ids)
    BY <2>1, <2>2, FS_Subset
  <2>4. g \in Surjection(ids, {Mark(c) : c \in ids})
    BY DEF Surjection
  <2> QED BY <2>3, <2>4, FS_Surjection
<1>9. Marks(ids) \subseteq Row /\ IsFiniteSet(Marks(ids))
  BY <1>1, <1>5, <1>6, <1>7, <1>8, FS_Union
<1>10. \A v \in Marks(ids) : (\E w \in Told : v = Replaced(w)) \/ (\E c \in ids : v = Mark(c))
  BY <1>1
<1>11. KeysUnique(Marks(ids))
  <2> SUFFICES ASSUME NEW u \in Marks(ids), NEW v \in Marks(ids), SameKey(u, v) PROVE u = v
    BY DEF KeysUnique
  <2>1. u.kind = v.kind /\ u.page = v.page /\ u.id = v.id /\ u.n = v.n
    BY <1>2, <1>3, <1>10 DEF SameKey
  <2>2. CASE \E w \in Told : u = Replaced(w)
    <3>1. PICK w \in Told : u = Replaced(w)
      BY <2>2
    <3>2. PICK x \in Told : v = Replaced(x)
      BY <1>2, <1>3, <1>10, <2>1, <3>1
    <3>3. SameKey(w, x)
      BY <1>2, <2>1, <3>1, <3>2 DEF SameKey
    <3> QED BY <3>1, <3>2, <3>3, StoreFacts DEF KeysUnique
  <2>3. CASE \E c \in ids : u = Mark(c)
    <3>1. PICK c \in ids : u = Mark(c)
      BY <2>3
    <3>2. v.kind = "deleted"
      BY <1>3, <2>1, <3>1
    <3>3. ~\E w \in Told : v = Replaced(w)
      BY <1>2, <3>2
    <3>4. PICK d \in ids : v = Mark(d)
      BY <1>10, <3>3
    <3>5. c[1] = d[1] /\ c[2] = d[2]
      BY <1>3, <2>1, <3>1, <3>4
    <3> QED BY <3>1, <3>4, <3>5
  <2> QED BY <1>10, <2>2, <2>3
<1>12. \A v \in Marks(ids) : v.kind # "deletedImport" =>
                            v.kind = "deleted" /\ <<v.page, v.id>> \in ids /\ v.n = 0
  <2> SUFFICES ASSUME NEW v \in Marks(ids), v.kind # "deletedImport"
               PROVE  v.kind = "deleted" /\ <<v.page, v.id>> \in ids /\ v.n = 0
    OBVIOUS
  <2>1. PICK c \in ids : v = Mark(c)
    BY <1>2, <1>10
  <2>2. c = <<c[1], c[2]>>
    OBVIOUS
  <2> QED BY <1>3, <2>1, <2>2
<1>13. \A c \in ids : Mark(c) \in Marks(ids)
  BY <1>1
<1> HIDE DEF Told
<1> QED BY <1>3, <1>9, <1>11, <1>12, <1>13 DEF Short

LEMMA DeleteKeeps ==
  ASSUME StoreInv, NEW m \in Managers, Fenced(m), NEW active,
         NEW ids \in SUBSET (Pages \X Recipes), \A c \in ids : Managed(c[1], c[2]),
         Delete(m, ids, active), catalog' = NextCatalog,
         UNCHANGED <<now, view, applied, twice, pinned>>
  PROVE  StoreInv'
<1> DEFINE left == rows \ Dropped(ids)
           writes == Marks(ids)
<1>1. Write(left, writes, active) /\ left \in SUBSET rows /\ writes \in SUBSET Row
  BY MarksAreRows DEF Delete
<1>2. \A w \in rows : w \in left <=> ~(<<w.page, w.id>> \in ids /\ w.kind \in {"recipe", "control"})
  BY DEF Dropped
<1>3. \A w \in writes : \/ w.kind = "deletedImport"
                        \/ w.kind = "deleted" /\ <<w.page, w.id>> \in ids
  BY MarksAreRows
<1>4. \A c \in ids : \E w \in writes :
        w.kind = "deleted" /\ w.page = c[1] /\ w.id = c[2] /\ w.rev = Held(c[1], c[2])
  BY MarksAreRows
<1>5. IsFiniteSet(writes) /\ KeysUnique(writes) /\ Short(writes)
  BY MarksAreRows
<1> HIDE DEF left, writes
<1>6. /\ rows' \subseteq Row /\ KeysUnique(rows)' /\ KeysAreShort'
      /\ IsFiniteSet(rows') /\ Cardinality(rows') <= Capacity
  BY <1>1, <1>5, WriteKeeps
<1>7. \A p, r : <<p, r>> \in ids => Held(p, r)' = 0
  <2> SUFFICES ASSUME NEW p, NEW r, <<p, r>> \in ids PROVE RecipeRows(p, r)' = {}
    BY DEF Held
  <2> QED BY <1>1, <1>2, <1>3, WrittenOrOld DEF RecipeRows, Of
<1>8. \A p, r : Held(p, r)' = 0 \/ Held(p, r)' = Held(p, r)
  BY <1>1, <1>3, <1>6, RecipesStay
<1>9. \A p \in Pages, r \in Recipes : <<p, r>> \in ids =>
        Held(p, r) # 0 /\ Held(p, r) > deleted[p][r]
  <2> SUFFICES ASSUME NEW p \in Pages, NEW r \in Recipes, <<p, r>> \in ids
               PROVE  Held(p, r) # 0 /\ Held(p, r) > deleted[p][r]
    OBVIOUS
  <2>1. Managed(p, r)
    <3>1. <<p, r>>[1] = p /\ <<p, r>>[2] = r
      OBVIOUS
    <3> QED BY <3>1
  <2>2. RecipeRows(p, r) # {}
    BY <2>1 DEF Managed
  <2> QED BY <2>2, HeldType DEF StoreInv, NoResurrection
<1>10. \A p \in Pages, r \in Recipes :
         deleted'[p][r] = IF <<p, r>> \in ids THEN Held(p, r) ELSE deleted[p][r]
  BY <1>9 DEF Delete
<1>11. deleted' \in [Pages -> [Recipes -> 0 .. MaxSource]]
  <2>1. \A p \in Pages, r \in Recipes : Held(p, r) \in 0 .. MaxSource /\ deleted[p][r] \in 0 .. MaxSource
    BY HeldType DEF StoreInv, TypeOK
  <2> QED BY <2>1 DEF Delete
<1>12. blind' = FALSE
  <2>1. ASSUME NEW c \in ids PROVE Held(c[1], c[2]) = view[m].seen[c[1]][c[2]]
    <3>1. c[1] \in Pages /\ c[2] \in Recipes /\ <<c[1], c[2]>> \in ids
      BY <2>1
    <3>2. Held(c[1], c[2]) # 0
      BY <1>9, <3>1
    <3> QED BY <3>1, <3>2 DEF StoreInv, ListedOrGone, Fenced
  <2>2. blind = FALSE
    BY DEF StoreInv, DeletesSeen, TypeOK
  <2> QED BY <2>1, <2>2 DEF Delete
<1>13. ReceiptsKept' /\ DatasetsFollow'
  BY <1>1, <1>2, <1>3, ReceiptsStay, DatasetsStay DEF ReceiptsKept
<1>14. MarksKept'
  <2> SUFFICES ASSUME NEW p \in Pages, NEW r \in Recipes, deleted'[p][r] > 0
               PROVE  \E w \in rows' : w.page = p /\ w.kind = "deleted" /\ w.id = r /\ deleted'[p][r] <= w.rev
    BY DEF MarksKept
  <2>1. CASE <<p, r>> \in ids
    <3>1. <<p, r>>[1] = p /\ <<p, r>>[2] = r
      OBVIOUS
    <3>2. PICK w \in writes : w.kind = "deleted" /\ w.page = p /\ w.id = r /\ w.rev = Held(p, r)
      BY <1>4, <2>1, <3>1
    <3>3. w \in rows' /\ Held(p, r) <= Held(p, r)
      BY <1>1, <3>2, WrittenOrOld, HeldType, NumbersAreNatural
    <3> QED BY <1>10, <2>1, <3>2, <3>3
  <2>2. CASE <<p, r>> \notin ids
    <3>1. deleted'[p][r] = deleted[p][r]
      BY <1>10, <2>2
    <3>2. PICK w \in rows : w.page = p /\ w.kind = "deleted" /\ w.id = r /\ deleted[p][r] <= w.rev
      BY <3>1 DEF StoreInv, MarksKept
    <3>3. w \in left
      BY <1>2, <3>2
    <3>4. w \in rows'
      BY <1>1, <1>3, <2>2, <3>2, <3>3, MarksStay
    <3> QED BY <3>1, <3>2, <3>4
  <2> QED BY <2>1, <2>2
<1>15. RecipesHaveSources'
  BY <1>1, <1>3, WrittenOrOld DEF StoreInv, RecipesHaveSources
<1>16. NoResurrection'
  BY <1>7, <1>8, <1>10 DEF StoreInv, NoResurrection
<1>17. NextCatalog \in [revision : 0 .. MaxCatalog, enabled : BOOLEAN]
       /\ NextCatalog.revision = catalog.revision + 1 /\ catalog.revision \in Nat
  BY Counted
<1>18. ListedOrGone'
  <2>1. \A k \in Managers : view[k].revision \in Nat
    BY NumbersAreNatural DEF StoreInv, TypeOK
  <2> QED BY <1>17, <2>1 DEF StoreInv, ListedOrGone
<1>19. TypeOK'
  BY <1>6, <1>11, <1>12, <1>17 DEF StoreInv, TypeOK, KeysUnique
<1> QED BY <1>6, <1>12, <1>13, <1>14, <1>15, <1>16, <1>18, <1>19
     DEF StoreInv, AppliedOnce, DeletesSeen

\* No step of the store breaks its invariant.
LEMMA StepKeeps == StoreInv /\ [Next]_vars => StoreInv'
<1> SUFFICES ASSUME StoreInv, [Next]_vars PROVE StoreInv'
  OBVIOUS
<1>1. ASSUME NEW d \in Delta, Commit(d) PROVE StoreInv'
  BY <1>1, CommitKeeps
<1>2. ASSUME NEW p \in Pages, NEW s \in Sets, WriteDataset(p, s) PROVE StoreInv'
  BY <1>2, WriteDatasetKeeps
<1>3. ASSUME NEW p \in Pages, NEW until \in 0 .. MaxTime, Pin(p, until) PROVE StoreInv'
  BY <1>3, PinKeeps
<1>4. ASSUME NEW p \in Pages, Unpin(p) \/ Invalidate(p) PROVE StoreInv'
  <2>1. 0 \in 0 .. MaxTime
    BY NumbersAreNatural
  <2> QED BY <1>4, <2>1, PinKeeps, InvalidateKeeps
<1>5. ASSUME NEW p \in Pages, NEW r \in Recipes, NEW s \in Sources, Import(p, r, s) PROVE StoreInv'
  BY <1>5, ImportKeeps
<1>6. ASSUME NEW m \in Managers, Look(m) PROVE StoreInv'
  BY <1>6, LookKeeps
<1>7. ASSUME NEW m \in Managers, ManageClear(m) PROVE StoreInv'
  <2> DEFINE ids == {c \in Pages \X Recipes : Managed(c[1], c[2])}
  <2>1. ids \in SUBSET (Pages \X Recipes) /\ \A c \in ids : Managed(c[1], c[2])
    OBVIOUS
  <2>2. /\ Fenced(m) /\ Delete(m, ids, Nobody) /\ catalog' = NextCatalog
        /\ UNCHANGED <<now, view, applied, twice, pinned>>
    BY <1>7 DEF ManageClear
  <2> HIDE DEF ids
  <2> QED BY <2>1, <2>2, DeleteKeeps
<1>8. ASSUME NEW m \in Managers, NEW on \in BOOLEAN, ManageFeature(m, on) PROVE StoreInv'
  BY <1>8, FeatureKeeps
<1>9. ASSUME NEW m \in Managers, NEW p \in Pages, NEW r \in Recipes, NEW off \in {0, 1},
             ManageUpdate(m, p, r, off)
      PROVE  StoreInv'
  BY <1>9, UpdateKeeps
<1>10. ASSUME NEW m \in Managers, NEW p \in Pages, NEW r \in Recipes, ManageDelete(m, p, r)
       PROVE  StoreInv'
  <2> DEFINE ids == {<<p, r>>}
  <2>1. ids \in SUBSET (Pages \X Recipes)
    OBVIOUS
  <2>2. \A c \in ids : Managed(c[1], c[2])
    BY <1>10 DEF ManageDelete
  <2>3. /\ Fenced(m) /\ Delete(m, ids, p) /\ catalog' = NextCatalog
        /\ UNCHANGED <<now, view, applied, twice, pinned>>
    BY <1>10 DEF ManageDelete
  <2> HIDE DEF ids
  <2> QED BY <2>1, <2>2, <2>3, DeleteKeeps
<1>11. CASE Tick
  BY <1>11, TickKeeps
<1>12. CASE UNCHANGED vars
  <2>1. UNCHANGED <<rows, catalog, now, view, applied, twice, pinned, deleted, blind>>
    BY <1>12 DEF vars
  <2>2. \A p, r : Held(p, r)' = Held(p, r)
    BY <2>1 DEF Held, RecipeRows, Of
  <2>3. NoResurrection' /\ ListedOrGone'
    BY <2>1, <2>2 DEF StoreInv, NoResurrection, ListedOrGone
  <2>4. ReceiptsKept' /\ DatasetsFollow' /\ MarksKept' /\ RecipesHaveSources' /\ KeysAreShort'
    BY <2>1 DEF StoreInv, ReceiptsKept, Receipts, Of, DatasetsFollow, MarksKept, RecipesHaveSources,
                KeysAreShort
  <2>5. TypeOK'
    BY <2>1 DEF StoreInv, TypeOK, SameKey
  <2> QED BY <2>1, <2>3, <2>4, <2>5 DEF StoreInv, AppliedOnce, DeletesSeen
<1> QED BY <1>1, <1>2, <1>3, <1>4, <1>5, <1>6, <1>7, <1>8, <1>9, <1>10, <1>11, <1>12 DEF Next

LEMMA InvImpliesSafety ==
  StoreInv => TypeOK /\ AppliedOnce /\ NoResurrection /\ DatasetOfItsGraph /\ DeletesSeen
<1> SUFFICES ASSUME StoreInv PROVE DatasetOfItsGraph
  BY DEF StoreInv
<1> SUFFICES ASSUME NEW d \in rows, NEW g \in rows, d.kind = "dataset", g.kind = "page",
                    d.page = g.page, d.rev = g.rev
             PROVE  d.of = g.of
  BY DEF DatasetOfItsGraph
<1>1. PICK h \in rows : h.kind = "page" /\ h.page = d.page /\ d.rev <= h.rev
                        /\ (d.rev = h.rev => d.of = h.of)
  BY DEF StoreInv, DatasetsFollow
<1>2. h = g
  BY <1>1, StoreFacts DEF KeysUnique, SameKey, KeysAreShort
<1> QED BY <1>1, <1>2

\* The inductive invariant of the store.
THEOREM StoreInvariance == Spec => []StoreInv
<1> QED BY InitKeeps, StepKeeps, PTL DEF Spec

\* The store of the codebase, beside reads that it does not know: a batch is applied once
\* although its page was evicted, nothing that was deleted comes back, a dataset is of its
\* graph and a manager deletes what it listed.
THEOREM StoreIsSafe == FairBoth => []StoreSafety
<1>1. BothInit => StoreInv
  BY InitKeeps DEF BothInit
<1>2. StoreInv /\ [BothNext]_all => StoreInv'
  <2>1. [BothNext]_all => [Next]_vars
    BY DEF BothNext, all, vars
  <2> QED BY <2>1, StepKeeps
<1>3. StoreInv => StoreSafety
  BY InvImpliesSafety DEF StoreSafety
<1> QED BY <1>1, <1>2, <1>3, PTL DEF FairBoth

-----------------------------------------------------------------------------
(* The reads: the inductive invariant.                                     *)

\* The calls of a read, and the place of the endpoint while one is under way.
ForRead == {"open", "chunk", "ack", "complete", "cancelTransfer", "reject"}
StepOf == [open |-> "opening", chunk |-> "sending", ack |-> "sending", complete |-> "completing",
           cancelTransfer |-> "cancelling", reject |-> "rejecting"]
Looking == {"validating", "checking", "rechecking"}
NoCall == {"idle", "reading", "read"} \cup Looking
Transfers == [kind : ForRead, lease : Leases, read : Reads, full : BOOLEAN]
Replies == [kind : {"answer"}, read : Reads \cup {Nil}, call : Transfers]

Known == {q \in Reads : reads[q].state # "idle"}

\* An offer is of a lease that was published, a transfer of a read that was asked; it sends
\* a packet only of a lease that held when the packet had been read and hashed, and ends
\* only when the lease held with all of it at the agent.
GoodCalls ==
  {c \in Projection!Calls :
     /\ c.kind = "offer" => entry[c.lease].state # "new"
     /\ c.kind \in ForRead => c.read \in Known
     /\ c.kind \in {"open", "chunk"} => <<c.read, "read">> \in held
     /\ c.kind = "complete" => <<c.read, "sent">> \in held}
Answer(calls) == [kind : {"answer"}, read : Reads \cup {Nil}, call : calls]
Notes(known) == [kind : {"request", "cancel"}, read : known, call : {Nil}]
GoodFrames == Answer(GoodCalls) \cup Notes(Known)
MessagesGood ==
  /\ posting \subseteq GoodCalls /\ toAgent \in Seq(GoodCalls) /\ toExt \in Seq(GoodFrames)
  /\ queue \in Seq(Known)

\* The endpoint makes one call for a read at a time, for the first of its queue.
AtMostOne(s, S) == \A i, j \in DOMAIN s : s[i] \in S /\ s[j] \in S => i = j
NoneOf(s, S) == Projection!ToSet(s) \cap S = {}
Alone(S) == \A c, d \in S \cap Transfers : c = d
Clear(S) == S \cap Transfers = {}
OneTransfer ==
  /\ Alone(posting) /\ AtMostOne(toAgent, Transfers) /\ AtMostOne(toExt, Replies)
  /\ Clear(posting) \/ NoneOf(toAgent, Transfers)
  /\ Clear(posting) \/ NoneOf(toExt, Replies)
  /\ NoneOf(toAgent, Transfers) \/ NoneOf(toExt, Replies)
Served(c) == pc = StepOf[c.kind] /\ c.read = Projection!Head1
CallsMade == (posting \cup Projection!ToSet(toAgent)) \cap Transfers
AnswersMade == Projection!ToSet(toExt) \cap Replies
TransferServed ==
  /\ \A c \in CallsMade : Served(c)
  /\ \A f \in AnswersMade : Served(f.call)

\* A lease that the agent knows was published, at a revision that is not of the future.
LeasesPublished ==
  /\ \A l \in offers : entry[l].state # "new"
  /\ \A q \in Known : reads[q].lease \in Leases /\ entry[reads[q].lease].state # "new"
  /\ \A l \in Leases : entry[l].at <= graph

\* While a read waits for one of the last two validations: a lease that holds and fits the
\* graph, or was seen to fit it, held when the stage before was over. The last validation
\* begins with the answer to the last chunk.
StageOf == [checking |-> "read", rechecking |-> "sent"]
Looked ==
  /\ pc \in DOMAIN StageOf /\ Projection!EntryActive(Projection!LeaseOf(Projection!Head1))
       /\ (look = "fits" \/ Projection!Matches(Projection!LeaseOf(Projection!Head1)))
       => <<Projection!Head1, StageOf[pc]>> \in held
  /\ pc = "rechecking" => look # "due"
TransferRead == transfer # Nil => <<transfer, "read">> \in held

ReadInv ==
  /\ Projection!TypeOK /\ IsFiniteSet(Projection!Active)
  /\ MessagesGood /\ OneTransfer /\ TransferServed
  /\ LeasesPublished /\ Looked /\ TransferRead /\ Projection!AnsweredFresh

\* Where the transfer of the agent stands beside the read in service.
Under(q) == transfer = q \/ (transfer = Nil /\ q \in late)
TransferFollows ==
  /\ pc \in (NoCall \ {"rechecking"}) \cup {"rejecting"} => transfer = Nil
  /\ pc = "rechecking" => Under(Projection!Head1)
  /\ \A c \in CallsMade : IF c.kind \in {"open", "reject"} THEN transfer = Nil ELSE Under(c.read)
  /\ \A f \in AnswersMade :
       IF f.call.kind \in {"open", "chunk", "ack"} THEN Under(f.call.read) ELSE transfer = Nil
Follows == TransferFollows /\ closed # "order"

\* The transfer that stays open at the agent: the bridge had no room for the call that
\* cancels it.
LeftOpen == \E q \in Reads : <<q, "dropped">> \in held

-----------------------------------------------------------------------------
(* Lemmas about sequences.                                                 *)

LEMMA Appended ==
  ASSUME NEW A, NEW s \in Seq(A), NEW x \in A
  PROVE  /\ Append(s, x) \in Seq(A) /\ Len(Append(s, x)) = Len(s) + 1
         /\ Projection!ToSet(Append(s, x)) = Projection!ToSet(s) \cup {x}
         /\ \A S : x \notin S =>
              /\ AtMostOne(s, S) => AtMostOne(Append(s, x), S)
              /\ NoneOf(s, S) => NoneOf(Append(s, x), S)
         /\ \A S : NoneOf(s, S) => AtMostOne(Append(s, x), S)
<1> DEFINE t == Append(s, x)
<1>1. t \in Seq(A) /\ Len(t) = Len(s) + 1 /\ Len(s) \in Nat
      /\ DOMAIN s = 1 .. Len(s) /\ DOMAIN t = 1 .. Len(s) + 1
      /\ t[Len(s) + 1] = x /\ \A i \in DOMAIN s : t[i] = s[i]
  BY AppendProperties, LenProperties
<1>2. \A i \in DOMAIN t : i \in DOMAIN s \/ i = Len(s) + 1
  BY <1>1
<1> HIDE DEF t
<1>3. Projection!ToSet(t) = Projection!ToSet(s) \cup {x}
  BY <1>1, <1>2 DEF Projection!ToSet
<1>4. \A S : x \notin S => (AtMostOne(s, S) => AtMostOne(t, S)) /\ (NoneOf(s, S) => NoneOf(t, S))
  BY <1>1, <1>2, <1>3 DEF AtMostOne, NoneOf
<1>5. \A S : NoneOf(s, S) => AtMostOne(t, S)
  BY <1>1, <1>2 DEF AtMostOne, NoneOf, Projection!ToSet
<1> QED BY <1>1, <1>3, <1>4, <1>5 DEF t

\* The elements of t are those of s at the places h, each of which is taken once.
From(t, s, h) ==
  /\ h \in [DOMAIN t -> DOMAIN s]
  /\ \A i, j \in DOMAIN t : h[i] = h[j] => i = j
  /\ \A i \in DOMAIN t : t[i] = s[h[i]]
AnswersIn(s) == {i \in DOMAIN s : s[i].kind = "answer"}

LEMMA AnswersFinite ==
  ASSUME NEW A, NEW s \in Seq(A)
  PROVE  IsFiniteSet(AnswersIn(s)) /\ Cardinality(AnswersIn(s)) \in Nat
<1>1. Len(s) \in Nat /\ DOMAIN s = 1 .. Len(s)
  BY LenProperties
<1>2. AnswersIn(s) \subseteq 1 .. Len(s)
  BY <1>1 DEF AnswersIn
<1>3. IsFiniteSet(1 .. Len(s))
  BY <1>1, FS_Interval
<1> QED BY <1>2, <1>3, FS_Subset, FS_CardinalityType

LEMMA Taken ==
  ASSUME NEW A, NEW s \in Seq(A), NEW t \in Seq(A), NEW h, From(t, s, h)
  PROVE  /\ Projection!ToSet(t) \subseteq Projection!ToSet(s)
         /\ \A S : (AtMostOne(s, S) => AtMostOne(t, S)) /\ (NoneOf(s, S) => NoneOf(t, S))
         /\ \A S : AtMostOne(s, S) =>
              \A k \in DOMAIN s : s[k] \in S /\ (\A i \in DOMAIN t : h[i] # k) => NoneOf(t, S)
         /\ Cardinality(AnswersIn(t)) <= Cardinality(AnswersIn(s))
<1>1. Projection!ToSet(t) \subseteq Projection!ToSet(s)
  BY DEF From, Projection!ToSet
<1>2. \A S : (AtMostOne(s, S) => AtMostOne(t, S)) /\ (NoneOf(s, S) => NoneOf(t, S))
  BY <1>1 DEF From, AtMostOne, NoneOf
<1>3. \A S : AtMostOne(s, S) =>
        \A k \in DOMAIN s : s[k] \in S /\ (\A i \in DOMAIN t : h[i] # k) => NoneOf(t, S)
  BY DEF From, AtMostOne, NoneOf, Projection!ToSet
<1>4. Cardinality(AnswersIn(t)) <= Cardinality(AnswersIn(s))
  <2> DEFINE g == [i \in AnswersIn(t) |-> h[i]]
  <2>1. g \in Injection(AnswersIn(t), AnswersIn(s))
    BY DEF From, AnswersIn, Injection, IsInjective
  <2> HIDE DEF g
  <2> QED BY <2>1, AnswersFinite, FS_Injection
<1> QED BY <1>1, <1>2, <1>3, <1>4

LEMMA TailIsTaken ==
  ASSUME NEW A, NEW s \in Seq(A), s # <<>>
  PROVE  /\ Head(s) \in A /\ Head(s) \in Projection!ToSet(s) /\ Head(s) = s[1]
         /\ Tail(s) \in Seq(A) /\ Len(Tail(s)) = Len(s) - 1 /\ Len(s) \in Nat
         /\ Projection!ToSet(s) = {Head(s)} \cup Projection!ToSet(Tail(s))
         /\ \A S : (AtMostOne(s, S) => AtMostOne(Tail(s), S)) /\ (NoneOf(s, S) => NoneOf(Tail(s), S))
         /\ \A S : AtMostOne(s, S) /\ Head(s) \in S => NoneOf(Tail(s), S)
         /\ Cardinality(AnswersIn(Tail(s))) <= Cardinality(AnswersIn(s))
<1> DEFINE t == Tail(s)
           h == [i \in DOMAIN t |-> i + 1]
<1>1. /\ Head(s) \in A /\ Head(s) = s[1] /\ t \in Seq(A) /\ Len(t) = Len(s) - 1
      /\ Len(s) \in Nat \ {0} /\ DOMAIN s = 1 .. Len(s) /\ DOMAIN t = 1 .. Len(s) - 1
      /\ \A i \in DOMAIN t : t[i] = s[i + 1]
  BY HeadTailProperties, LenProperties, EmptySeq
<1> HIDE DEF t
<1>2. From(t, s, h)
  BY <1>1 DEF From
<1>3. 1 \in DOMAIN s /\ \A i \in DOMAIN t : h[i] # 1
  BY <1>1
<1>4. Projection!ToSet(s) = {Head(s)} \cup Projection!ToSet(t)
  <2>1. \A i \in DOMAIN s : i = 1 \/ (i - 1 \in DOMAIN t /\ t[i - 1] = s[i])
    BY <1>1
  <2>2. \A i \in DOMAIN t : i + 1 \in DOMAIN s
    BY <1>1
  <2> QED BY <1>1, <1>3, <2>1, <2>2 DEF Projection!ToSet
<1> HIDE DEF h
<1>5. \A S : AtMostOne(s, S) /\ Head(s) \in S => NoneOf(t, S)
  BY <1>1, <1>2, <1>3, Taken
<1> QED BY <1>1, <1>2, <1>4, <1>5, Taken DEF t

LEMMA RemovedIsTaken ==
  ASSUME NEW A, NEW s \in Seq(A), NEW k \in DOMAIN s
  PROVE  /\ Projection!RemoveAt(s, k) \in Seq(A)
         /\ Projection!ToSet(Projection!RemoveAt(s, k)) \subseteq Projection!ToSet(s)
         /\ \A S : /\ AtMostOne(s, S) => AtMostOne(Projection!RemoveAt(s, k), S)
                   /\ NoneOf(s, S) => NoneOf(Projection!RemoveAt(s, k), S)
         /\ \A S : AtMostOne(s, S) /\ s[k] \in S => NoneOf(Projection!RemoveAt(s, k), S)
         /\ Cardinality(AnswersIn(Projection!RemoveAt(s, k))) <= Cardinality(AnswersIn(s))
<1> DEFINE a == SubSeq(s, 1, k - 1)
           b == SubSeq(s, k + 1, Len(s))
           t == Projection!RemoveAt(s, k)
           h == [i \in DOMAIN t |-> IF i < k THEN i ELSE i + 1]
<1>1. Len(s) \in Nat /\ DOMAIN s = 1 .. Len(s) /\ k \in 1 .. Len(s) /\ \A i \in 1 .. Len(s) : s[i] \in A
  BY LenProperties, ElementOfSeq
<1>2. a \in Seq(A) /\ Len(a) = k - 1 /\ \A i \in 1 .. k - 1 : a[i] = s[i]
  BY <1>1, SubSeqProperties
<1>3. b \in Seq(A) /\ Len(b) = Len(s) - k /\ \A i \in 1 .. Len(s) - k : b[i] = s[k + i]
  BY <1>1, SubSeqProperties
<1>4. t = a \o b
  BY DEF Projection!RemoveAt
<1> HIDE DEF a, b
<1>5. /\ t \in Seq(A) /\ Len(t) = Len(s) - 1
      /\ \A i \in 1 .. Len(s) - 1 : t[i] = IF i <= k - 1 THEN a[i] ELSE b[i - (k - 1)]
  <2>1. Len(a) + Len(b) = Len(s) - 1
    BY <1>1, <1>2, <1>3
  <2>2. /\ t \in Seq(A) /\ Len(t) = Len(a) + Len(b)
        /\ \A i \in 1 .. Len(a) + Len(b) : t[i] = IF i <= Len(a) THEN a[i] ELSE b[i - Len(a)]
    BY <1>2, <1>3, <1>4, ConcatProperties
  <2> HIDE DEF t
  <2>3. \A i \in 1 .. Len(s) - 1 : t[i] = IF i <= Len(a) THEN a[i] ELSE b[i - Len(a)]
    BY <2>1, <2>2
  <2> QED BY <1>2, <2>1, <2>2, <2>3
<1>6. DOMAIN t = 1 .. Len(s) - 1
  BY <1>5, LenProperties
<1> HIDE DEF t
<1>7. ASSUME NEW i \in DOMAIN t PROVE t[i] = s[IF i < k THEN i ELSE i + 1]
  <2>1. CASE i < k
    BY <1>1, <1>2, <1>5, <1>6, <2>1
  <2>2. CASE ~(i < k)
    <3>1. i - (k - 1) \in 1 .. Len(s) - k /\ ~(i <= k - 1) /\ k + (i - (k - 1)) = i + 1
      BY <1>1, <1>6, <2>2
    <3>2. t[i] = b[i - (k - 1)]
      BY <1>5, <1>6, <3>1
    <3> QED BY <1>3, <2>2, <3>1, <3>2
  <2> QED BY <2>1, <2>2
<1>8. From(t, s, h) /\ \A i \in DOMAIN t : h[i] # k
  BY <1>1, <1>6, <1>7 DEF From
<1> HIDE DEF h
<1>9. \A S : AtMostOne(s, S) /\ s[k] \in S => NoneOf(t, S)
  BY <1>5, <1>8, Taken
<1> QED BY <1>5, <1>8, <1>9, Taken DEF t

-----------------------------------------------------------------------------
(* The reads: what steps have in common.                                   *)

\* What the instance counts.
LEMMA Counts == \A S : Projection!Cardinality(S) = Cardinality(S)
  BY DEF Projection!Cardinality, Cardinality

Entries == [Leases -> [state : {"new", "installed", "revoked"}, at : 0 .. MaxGraph]]

\* From the entries e the entries f come by revocations.
Ending(e, f) ==
  /\ f \in Entries
  /\ \A k \in Leases : /\ f[k].at = e[k].at
                       /\ f[k].state = "new" => e[k].state = "new"
                       /\ f[k].state = "installed" => e[k].state = "installed"

LEMMA Shape ==
  ASSUME ReadInv
  PROVE  /\ entry \in Entries /\ alive \subseteq Leases /\ offers \subseteq Leases /\ graph \in Nat
         /\ reads \in [Reads -> [state : {"idle", "active", "answered", "refused"}, lease : Leases \cup {Nil}]]
         /\ posting \subseteq GoodCalls /\ toAgent \in Seq(GoodCalls) /\ toExt \in Seq(GoodFrames)
         /\ queue \in Seq(Known) /\ Known \subseteq Reads
         /\ held \subseteq Reads \X {"read", "sent", "dropped"}
         /\ \A q \in Known : Projection!LeaseOf(q) \in Leases /\ entry[Projection!LeaseOf(q)].state # "new"
         /\ pc # "idle" => queue # <<>>
         /\ Projection!Outstanding <= CallLimit /\ OneTransfer /\ TransferServed
BY LimitsAreNatural
   DEF ReadInv, Projection!TypeOK, Entries, MessagesGood, Known, LeasesPublished, Projection!LeaseOf

LEMMA GoodStays ==
  ASSUME Known \subseteq Known', held \subseteq held',
         \A l \in Leases : entry'[l].state = "new" => entry[l].state = "new"
  PROVE  /\ GoodCalls \subseteq GoodCalls' /\ GoodFrames \subseteq GoodFrames'
         /\ \A s \in Seq(GoodCalls) : s \in Seq(GoodCalls')
         /\ \A s \in Seq(GoodFrames) : s \in Seq(GoodFrames')
         /\ \A s \in Seq(Known) : s \in Seq(Known')
<1>1. GoodCalls \subseteq GoodCalls'
  BY DEF GoodCalls, Projection!Calls
<1>2. GoodFrames \subseteq GoodFrames'
  BY <1>1 DEF GoodFrames, Answer, Notes
<1> QED BY <1>1, <1>2, SeqMonotonic

\* Which calls are transfers.
LEMMA TransferIs ==
  ASSUME NEW c \in GoodCalls
  PROVE  c \in Transfers <=> c.kind \in ForRead
BY DEF GoodCalls, Projection!Calls, Transfers, Known, ForRead

LEMMA CallIsGood ==
  ASSUME NEW kind \in Projection!Kinds, NEW l \in Leases, NEW q \in Reads \cup {Nil},
         kind = "offer" => entry[l].state # "new",
         kind \in ForRead => q \in Known,
         kind \in {"open", "chunk"} => <<q, "read">> \in held,
         kind = "complete" => <<q, "sent">> \in held,
         NEW c \in {Projection!Call(kind, l, q), Projection!Following(kind, l, q)}
  PROVE  c \in GoodCalls /\ c.kind = kind /\ c.lease = l /\ c.read = q
<1>1. (Projection!Outstanding >= CallLimit) \in BOOLEAN
  OBVIOUS
<1>2. PICK b \in BOOLEAN : c = [kind |-> kind, lease |-> l, read |-> q, full |-> b]
  BY <1>1, Zenon DEF Projection!Call, Projection!Following
<1>3. c \in Projection!Calls /\ c.kind = kind /\ c.lease = l /\ c.read = q
  BY <1>2 DEF Projection!Calls
<1> QED BY <1>3 DEF GoodCalls

\* A revocation ends an entry at most, and says so in a call that is no transfer.
LEMMA RetractIs ==
  ASSUME ReadInv, NEW c \in Projection!Calls
  PROVE  /\ Ending(entry, Projection!Revoked(c.lease)) /\ Ending(entry, entry)
         /\ Projection!Retracts(c) \subseteq GoodCalls /\ Clear(Projection!Retracts(c))
<1>1. entry \in Entries /\ c.lease \in Leases
  BY Shape DEF Projection!Calls
<1>2. Ending(entry, entry) /\ Ending(entry, Projection!Revoked(c.lease))
  BY <1>1 DEF Ending, Entries, Projection!Revoked
<1> DEFINE d == [c EXCEPT !.kind = "revoke", !.read = Nil]
<1>3. d \in Projection!Calls /\ d.kind = "revoke"
  BY DEF Projection!Calls, Projection!Kinds
<1> HIDE DEF d
<1>4. d \in GoodCalls /\ d \notin Transfers
  BY <1>3 DEF GoodCalls, Transfers, ForRead
<1>5. Projection!Retracts(c) \subseteq {d}
  BY DEF Projection!Retracts, d
<1> QED BY <1>2, <1>4, <1>5 DEF Clear

LEMMA RevokeIs ==
  ASSUME ReadInv, NEW l \in Leases
  PROVE  /\ Ending(entry, Projection!Revoked(l)) /\ Ending(entry, entry)
         /\ Projection!Revocation(l) \subseteq GoodCalls /\ Clear(Projection!Revocation(l))
         /\ Projection!Retracts(Projection!Following("revoke", l, Nil)) \subseteq GoodCalls
         /\ Clear(Projection!Retracts(Projection!Following("revoke", l, Nil)))
<1> DEFINE c == Projection!Call("revoke", l, Nil)
           d == Projection!Following("revoke", l, Nil)
<1>1. c \in GoodCalls /\ c.lease = l /\ d \in GoodCalls /\ d.lease = l
  BY CallIsGood DEF Projection!Kinds, ForRead
<1> HIDE DEF c, d
<1>2. c \in Projection!Calls /\ d \in Projection!Calls
  BY <1>1 DEF GoodCalls
<1> QED BY <1>1, <1>2, RetractIs DEF Projection!Revocation, c, d

\* The lease of the read in service is looked at as it was.
LEMMA LookedStays ==
  ASSUME ReadInv, pc' = pc, look' = look, queue # <<>> => Projection!Head1' = Projection!Head1,
         UNCHANGED graph, \A q \in Known : reads'[q].lease = reads[q].lease,
         Ending(entry, entry'), alive' \subseteq alive, held \subseteq held'
  PROVE  Looked'
<1> SUFFICES ASSUME pc \in DOMAIN StageOf,
                    Projection!EntryActive(Projection!LeaseOf(Projection!Head1))',
                    look = "fits" \/ Projection!Matches(Projection!LeaseOf(Projection!Head1))'
             PROVE  <<Projection!Head1, StageOf[pc]>> \in held /\ Projection!Head1' = Projection!Head1
  BY DEF Looked, ReadInv
<1>1. queue # <<>>
  BY Shape DEF StageOf
<1>2. Projection!Head1' = Projection!Head1 /\ Projection!Head1 \in Known
  <2>1. 1 \in 1 .. Len(queue)
    BY <1>1, Shape, EmptySeq
  <2> QED BY <1>1, <2>1, Shape, ElementOfSeq DEF Projection!Head1
<1> DEFINE l == reads[Projection!Head1].lease
<1>3. l \in Leases /\ Projection!LeaseOf(Projection!Head1)' = l /\ Projection!LeaseOf(Projection!Head1) = l
  BY <1>2, Shape DEF Projection!LeaseOf
<1> HIDE DEF l
<1>4. Projection!EntryActive(l)
  BY <1>3 DEF Projection!EntryActive, Ending
<1>5. look = "fits" \/ Projection!Matches(l)
  BY <1>3 DEF Projection!Matches, Ending
<1> QED BY <1>2, <1>3, <1>4, <1>5 DEF ReadInv, Looked

LEMMA LookedNot ==
  ASSUME pc' \notin {"checking", "rechecking"}
  PROVE  Looked'
BY DEF Looked, StageOf

\* A step of the endpoint: the agent and the graph rest.
LEMMA EndpointKeeps ==
  ASSUME ReadInv, UNCHANGED <<graph, offers, reads, transfer, closed>>,
         held \subseteq held', held' \subseteq Reads \X {"read", "sent", "dropped"},
         late' \subseteq Reads, alive' \subseteq alive, Ending(entry, entry'),
         queue' \in Seq(Known), Len(queue') <= ReadLimit, aborted' \subseteq Projection!ToSet(queue'),
         pc' \in NoCall \cup {"opening", "sending", "completing", "cancelling", "rejecting"},
         look' \in {"no", "due", "asked", "fits", "differs"}, look' # "no" <=> pc' \in Looking,
         queue' = <<>> => pc' = "idle", checking' \subseteq Leases,
         posting' \subseteq GoodCalls, toAgent' \in Seq(GoodCalls), toExt' \in Seq(GoodFrames),
         Projection!Outstanding' <= CallLimit, OneTransfer', TransferServed', Looked'
  PROVE  ReadInv'
<1>1. Known' = Known /\ Projection!Active' = Projection!Active
  BY DEF Known, Projection!Active
<1>2. MessagesGood'
  <2>1. \A l \in Leases : entry'[l].state = "new" => entry[l].state = "new"
    BY DEF Ending
  <2> QED BY <1>1, <2>1, GoodStays DEF MessagesGood
<1>3. LeasesPublished'
  BY <1>1, Shape DEF ReadInv, LeasesPublished, Ending
<1>4. Projection!TypeOK'
  <2>1. posting' \subseteq Projection!Calls /\ toAgent' \in Seq(Projection!Calls)
    <3>1. GoodCalls \subseteq Projection!Calls
      BY DEF GoodCalls
    <3> QED BY <3>1, SeqMonotonic
  <2>2. queue' \in Seq(Reads)
    BY SeqMonotonic DEF Known
  <2> QED BY <1>1, <2>1, <2>2 DEF ReadInv, Projection!TypeOK, Ending, Entries, NoCall, Looking
<1>5. Projection!AnsweredFresh' /\ TransferRead'
  BY DEF ReadInv, Projection!AnsweredFresh, TransferRead
<1> QED BY <1>1, <1>2, <1>3, <1>4, <1>5 DEF ReadInv

\* While the endpoint waits for no answer no transfer is under way.
LEMMA NoneNow ==
  ASSUME ReadInv, pc \in NoCall
  PROVE  Clear(posting) /\ NoneOf(toAgent, Transfers) /\ NoneOf(toExt, Replies)
<1>1. \A c \in Transfers : ~Served(c)
  BY DEF Served, StepOf, Transfers, ForRead, NoCall, Looking
<1>2. \A f \in Replies : f.call \in Transfers
  BY DEF Replies
<1> QED BY <1>1, <1>2, Shape DEF TransferServed, CallsMade, AnswersMade, NoneOf, Clear

\* The endpoint makes a call for the first read of its queue while no other is under way.
LEMMA OneIsNew ==
  ASSUME ReadInv, UNCHANGED <<queue, toAgent>>,
         NEW s \in SUBSET GoodCalls, Clear(s),
         NoneOf(toAgent, Transfers), NoneOf(toExt', Replies),
         NEW c \in GoodCalls, c.kind \in ForRead, c.read = Projection!Head1,
         posting' = s \cup {c}, pc' = StepOf[c.kind]
  PROVE  /\ posting' \subseteq GoodCalls /\ OneTransfer' /\ TransferServed'
         /\ CallsMade' = {c} /\ AnswersMade' = {}
<1>1. c \in Transfers
  BY TransferIs
<1>2. posting' \subseteq GoodCalls /\ posting' \cap Transfers = {c}
  BY <1>1 DEF Clear
<1>3. CallsMade' = {c} /\ AnswersMade' = {}
  BY <1>2 DEF CallsMade, AnswersMade, NoneOf
<1>4. TransferServed'
  BY <1>3 DEF TransferServed, Served, Projection!Head1
<1>5. OneTransfer'
  BY <1>2 DEF OneTransfer, NoneOf, AtMostOne, Projection!ToSet, Alone
<1> QED BY <1>2, <1>3, <1>4, <1>5

LEMMA FirstIsKnown ==
  ASSUME ReadInv, queue # <<>>
  PROVE  Projection!Head1 \in Known /\ Projection!LeaseOf(Projection!Head1) \in Leases
<1>1. 1 \in 1 .. Len(queue)
  BY Shape, EmptySeq
<1>2. Projection!Head1 \in Known
  BY <1>1, Shape, ElementOfSeq DEF Projection!Head1
<1> QED BY <1>2, Shape

LEMMA SaysOne ==
  ASSUME ReadInv, NEW kind \in ForRead, queue # <<>>, UNCHANGED <<queue, toAgent>>,
         NEW c \in {Projection!Call(kind, Projection!LeaseOf(Projection!Head1), Projection!Head1),
                    Projection!Following(kind, Projection!LeaseOf(Projection!Head1), Projection!Head1)},
         kind \in {"open", "chunk"} => <<Projection!Head1, "read">> \in held,
         kind = "complete" => <<Projection!Head1, "sent">> \in held,
         Projection!Goes(StepOf[kind], c) \/ Projection!Drops(StepOf[kind], c),
         Clear(posting), NoneOf(toAgent, Transfers), NoneOf(toExt', Replies)
  PROVE  /\ posting' \subseteq GoodCalls /\ Ending(entry, entry') /\ pc' = StepOf[kind] /\ look' = "no"
         /\ OneTransfer' /\ TransferServed'
         /\ AnswersMade' = {} /\ \A d \in CallsMade' : d.kind = kind /\ d.read = Projection!Head1
<1> DEFINE q == Projection!Head1
<1>1. q \in Known /\ Projection!LeaseOf(q) \in Leases /\ q \in Reads
  BY FirstIsKnown, Shape
<1>2. c \in GoodCalls /\ c.kind = kind /\ c.read = q
  BY <1>1, CallIsGood DEF ForRead, Projection!Kinds
<1>3. c \in Projection!Calls
  BY <1>2 DEF GoodCalls
<1>4. /\ pc' = StepOf[kind] /\ look' = "no"
      /\ \E s \in SUBSET GoodCalls : Clear(s) /\ posting' = s \cup {c}
      /\ Ending(entry, entry')
  <2>1. CASE Projection!Goes(StepOf[kind], c)
    BY <1>3, <2>1, RetractIs, Shape DEF Projection!Goes
  <2>2. CASE Projection!Drops(StepOf[kind], c)
    <3> DEFINE s == posting \cup Projection!Retracts(c)
    <3>1. s \in SUBSET GoodCalls /\ Clear(s)
      BY <1>3, RetractIs, Shape DEF Clear
    <3>2. posting' = s \cup {c} /\ pc' = StepOf[kind] /\ look' = "no" /\ entry' = Projection!Revoked(c.lease)
      BY <2>2 DEF Projection!Drops
    <3> HIDE DEF s
    <3> QED BY <1>3, <3>1, <3>2, RetractIs
  <2> QED BY <2>1, <2>2
<1>5. PICK s \in SUBSET GoodCalls : Clear(s) /\ posting' = s \cup {c}
  BY <1>4
<1> QED BY <1>2, <1>4, <1>5, OneIsNew

LEMMA AnswersAppended ==
  ASSUME NEW A, NEW s \in Seq(A), NEW x \in A
  PROVE  /\ Cardinality(AnswersIn(Append(s, x))) <= Cardinality(AnswersIn(s)) + 1
         /\ x.kind # "answer" => Cardinality(AnswersIn(Append(s, x))) = Cardinality(AnswersIn(s))
<1>1. AnswersIn(Append(s, x)) =
        IF x.kind = "answer" THEN AnswersIn(s) \cup {Len(s) + 1} ELSE AnswersIn(s)
  BY AppendProperties, LenProperties DEF AnswersIn
<1>2. Cardinality(AnswersIn(s)) \in Nat /\ IsFiniteSet(AnswersIn(s))
  BY AnswersFinite
<1>3. Cardinality(AnswersIn(s) \cup {Len(s) + 1}) <= Cardinality(AnswersIn(s)) + 1
  <2> DEFINE k == Len(s) + 1
             old == AnswersIn(s)
  <2> HIDE DEF k, old
  <2>1. IsFiniteSet(old) /\ Cardinality(old) \in Nat
    BY <1>2 DEF old
  <2>2. Cardinality(old \cup {k}) = IF k \in old THEN Cardinality(old) ELSE Cardinality(old) + 1
    BY <2>1, FS_AddElement
  <2> QED BY <2>1, <2>2 DEF k, old
<1> QED BY <1>1, <1>2, <1>3

LEMMA OutstandingIs ==
  ASSUME ReadInv
  PROVE  /\ Projection!Outstanding = Len(toAgent) + Cardinality(AnswersIn(toExt))
         /\ Projection!Outstanding' = Len(toAgent') + Cardinality(AnswersIn(toExt'))
         /\ Len(toAgent) \in Nat /\ Cardinality(AnswersIn(toExt)) \in Nat /\ CallLimit \in Nat
         /\ Len(toAgent) + Cardinality(AnswersIn(toExt)) <= CallLimit
<1>1. Projection!Answers = AnswersIn(toExt) /\ Projection!Answers' = AnswersIn(toExt')
  BY DEF Projection!Answers, AnswersIn
<1>2. Len(toAgent) \in Nat /\ Cardinality(AnswersIn(toExt)) \in Nat /\ CallLimit \in Nat
  <2>1. toAgent \in Seq(GoodCalls) /\ toExt \in Seq(GoodFrames)
    BY Shape
  <2> QED BY <2>1, LenProperties, AnswersFinite, LimitsAreNatural
<1> QED BY <1>1, <1>2, Shape, Counts DEF Projection!Outstanding

\* A step that neither posts nor moves a transfer leaves it served.
LEMMA QuietKeepsOne ==
  ASSUME ReadInv, UNCHANGED toAgent, pc' = pc,
         queue # <<>> => Projection!Head1' = Projection!Head1,
         posting' \cap Transfers \subseteq posting \cap Transfers,
         Projection!ToSet(toExt') \cap Replies \subseteq Projection!ToSet(toExt) \cap Replies,
         AtMostOne(toExt, Replies) => AtMostOne(toExt', Replies)
  PROVE  /\ OneTransfer' /\ TransferServed'
         /\ CallsMade' \subseteq CallsMade /\ AnswersMade' \subseteq AnswersMade
<1>1. OneTransfer'
  BY Shape DEF OneTransfer, NoneOf, Alone, Clear
<1>2. CallsMade' \subseteq CallsMade /\ AnswersMade' \subseteq AnswersMade
  BY DEF CallsMade, AnswersMade
<1>3. ASSUME NEW c \in Transfers, Served(c) PROVE Served(c)'
  <2>1. pc # "idle"
    BY <1>3 DEF Served, StepOf, Transfers, ForRead
  <2> QED BY <1>3, <2>1, Shape DEF Served
<1>4. \A f \in Replies : f.call \in Transfers
  BY DEF Replies
<1> QED BY <1>1, <1>2, <1>3, <1>4, Shape DEF TransferServed, CallsMade, AnswersMade

\* Nor does such a step part the transfer of the agent from it.
LEMMA QuietFollows ==
  ASSUME ReadInv, UNCHANGED <<pc, closed>>, late \subseteq late',
         queue # <<>> => Projection!Head1' = Projection!Head1,
         transfer' = transfer \/ (transfer \in late /\ transfer' = Nil),
         CallsMade' \subseteq CallsMade, AnswersMade' \subseteq AnswersMade
  PROVE  Follows => Follows'
<1> SUFFICES ASSUME Follows PROVE Follows'
  OBVIOUS
<1>1. transfer = Nil => transfer' = Nil
  OBVIOUS
<1>2. \A q : Under(q) => Under(q)'
  BY DEF Under
<1>3. pc = "rechecking" => Under(Projection!Head1)'
  BY <1>2, Shape DEF Follows, TransferFollows, Under
<1> QED BY <1>1, <1>2, <1>3 DEF Follows, TransferFollows

-----------------------------------------------------------------------------
(* The reads: the steps of the extension.                                  *)

LEMMA ReadInitKeeps == Projection!Init => ReadInv /\ Follows
<1> SUFFICES ASSUME Projection!Init PROVE ReadInv /\ Follows
  OBVIOUS
<1>1. Known = {} /\ Projection!Active = {} /\ Projection!Answers = {}
  BY DEF Projection!Init, Known, Projection!Active, Projection!Answers
<1>2. IsFiniteSet({}) /\ Cardinality({}) = 0
  BY FS_EmptySet
<1>3. /\ Projection!ToSet(<<>>) = {} /\ posting = {}
      /\ Projection!ToSet(toAgent) = {} /\ Projection!ToSet(toExt) = {} /\ Len(toAgent) = 0
  BY DEF Projection!ToSet, Projection!Init
<1>4. Projection!TypeOK
  <2>1. Projection!Outstanding = 0
    BY <1>1, <1>2, <1>3, Counts DEF Projection!Outstanding
  <2>2. 0 \in 0 .. MaxGraph /\ 0 <= ReadLimit /\ 0 <= CallLimit
    BY LimitsAreNatural
  <2>3. Len(<<>>) = 0
    OBVIOUS
  <2>4. Projection!Cardinality(Projection!Active) <= ReadLimit /\ Projection!Outstanding <= CallLimit
    BY <1>1, <1>2, <2>1, <2>2, Counts
  <2> QED BY <2>2, <2>3, <2>4 DEF Projection!Init, Projection!TypeOK
<1>5. MessagesGood
  BY DEF Projection!Init, MessagesGood
<1>6. OneTransfer /\ TransferServed
  BY <1>3
     DEF OneTransfer, Alone, Clear, NoneOf, AtMostOne, Projection!ToSet, Projection!Init, TransferServed,
         CallsMade, AnswersMade
<1>7. LeasesPublished
  BY <1>1 DEF Projection!Init, LeasesPublished
<1>8. Follows
  BY <1>3 DEF Follows, TransferFollows, CallsMade, AnswersMade, NoCall, Projection!Init
<1> QED BY <1>1, <1>2, <1>4, <1>5, <1>6, <1>7, <1>8 
     DEF ReadInv, Looked, StageOf, TransferRead, Projection!AnsweredFresh, Projection!Init

LEMMA CloseKeeps ==
  ASSUME ReadInv, NEW why \in {"late", "queue", "calls", "order"}, Projection!Close(why)
  PROVE  ReadInv' /\ (why # "order" => Follows')
<1>1. /\ closed' = why /\ offers' = {} /\ transfer' = Nil /\ aborted' = {}
      /\ queue' = <<>> /\ pc' = "idle" /\ look' = "no" /\ checking' = {}
      /\ posting' = {} /\ toAgent' = <<>> /\ toExt' = <<>>
      /\ UNCHANGED <<graph, alive, late, held>>
  BY DEF Projection!Close
<1>2. entry' \in Entries /\ \A l \in Leases : entry'[l].state = "revoked" /\ entry'[l].at = entry[l].at
  BY Shape DEF Projection!Close, Entries
<1>3. /\ reads' \in [Reads -> [state : {"idle", "active", "answered", "refused"}, lease : Leases \cup {Nil}]]
      /\ \A q \in Reads : /\ reads'[q].lease = reads[q].lease
                          /\ reads'[q].state = "idle" <=> reads[q].state = "idle"
                          /\ reads'[q].state = "answered" => reads[q].state = "answered"
                          /\ reads'[q].state # "active"
  BY Shape DEF Projection!Close
<1>4. Known' = Known /\ Projection!Active' = {}
  BY <1>3 DEF Known, Projection!Active
<1>5. Projection!ToSet(<<>>) = {} /\ IsFiniteSet({}) /\ Cardinality({}) = 0 /\ Len(<<>>) = 0
  BY FS_EmptySet DEF Projection!ToSet
<1>6. Projection!TypeOK'
  <2>1. Projection!Outstanding' = 0
    <3>1. Projection!Answers' = {}
      BY <1>1 DEF Projection!Answers
    <3> QED BY <1>1, <1>5, <3>1, Counts DEF Projection!Outstanding
  <2>2. 0 <= ReadLimit /\ 0 <= CallLimit
    BY LimitsAreNatural
  <2>3. Projection!Cardinality(Projection!Active)' <= ReadLimit /\ Projection!Outstanding' <= CallLimit
    BY <1>4, <1>5, <2>1, <2>2, Counts
  <2> QED BY <1>1, <1>2, <1>3, <1>5, <2>2, <2>3 DEF ReadInv, Projection!TypeOK, Entries
<1>7. MessagesGood'
  BY <1>1 DEF MessagesGood
<1>8. OneTransfer' /\ TransferServed'
  BY <1>1, <1>5
     DEF OneTransfer, Alone, Clear, NoneOf, AtMostOne, Projection!ToSet, TransferServed, CallsMade, AnswersMade
<1>9. LeasesPublished'
  BY <1>1, <1>2, <1>3, <1>4 DEF ReadInv, LeasesPublished, Known
<1>10. Looked' /\ TransferRead'
  BY <1>1 DEF Looked, StageOf, TransferRead
<1>11. Projection!AnsweredFresh'
  BY <1>1, <1>3 DEF ReadInv, Projection!AnsweredFresh
<1>12. why # "order" => Follows'
  BY <1>1, <1>5 DEF Follows, TransferFollows, CallsMade, AnswersMade, NoCall
<1> QED BY <1>4, <1>5, <1>6, <1>7, <1>8, <1>9, <1>10, <1>11, <1>12 DEF ReadInv

LEMMA PublishKeeps ==
  ASSUME ReadInv, NEW l \in Leases, Projection!Publish(l)
  PROVE  ReadInv' /\ (Follows => Follows')
<1> DEFINE c == Projection!Call("offer", l, Nil)
<1>1. /\ entry[l].state = "new" /\ entry' = [entry EXCEPT ![l] = [state |-> "installed", at |-> graph]]
      /\ posting' = posting \cup {c}
      /\ UNCHANGED <<graph, alive, late, aborted, queue, pc, look, checking, offers, reads, transfer,
                     toAgent, toExt, closed, held>>
  BY DEF Projection!Publish, Projection!agent, Projection!endpoint
<1>2. /\ entry' \in Entries /\ entry'[l].state = "installed" /\ entry'[l].at = graph
      /\ \A k \in Leases \ {l} : entry'[k] = entry[k]
  BY <1>1, Shape DEF Entries, ReadInv, Projection!TypeOK
<1>3. Known' = Known /\ Projection!Active' = Projection!Active
  BY <1>1 DEF Known, Projection!Active
<1>4. /\ GoodCalls \subseteq GoodCalls' /\ toAgent' \in Seq(GoodCalls') /\ toExt' \in Seq(GoodFrames')
      /\ queue' \in Seq(Known')
  <2>1. \A k \in Leases : entry'[k].state = "new" => entry[k].state = "new"
    BY <1>2
  <2> QED BY <1>1, <1>3, <2>1, GoodStays, Shape
<1>5. c \in GoodCalls' /\ c \notin Transfers
  <2>1. (Projection!Outstanding >= CallLimit) \in BOOLEAN
    OBVIOUS
  <2> QED BY <1>2, <2>1 DEF GoodCalls, Projection!Calls, Projection!Call, Projection!Kinds, ForRead, Transfers
<1> HIDE DEF c
<1>6. posting' \subseteq GoodCalls' /\ posting' \cap Transfers = posting \cap Transfers
  BY <1>1, <1>4, <1>5, Shape
<1>7. OneTransfer' /\ TransferServed' /\ (Follows => Follows')
  BY <1>1, <1>6, QuietKeepsOne, QuietFollows DEF Projection!Head1
<1>8. LeasesPublished'
  <2>1. graph <= graph
    BY Shape
  <2> QED BY <1>1, <1>2, <1>3, <2>1 DEF ReadInv, LeasesPublished
<1>9. Looked' /\ TransferRead'
  <2> SUFFICES ASSUME pc \in DOMAIN StageOf PROVE Looked'
    BY <1>1 DEF ReadInv, TransferRead, Looked
  <2> DEFINE k == Projection!LeaseOf(Projection!Head1)
  <2>1. Projection!Head1 \in Known /\ k \in Leases
    BY Shape, FirstIsKnown DEF StageOf
  <2>2. entry'[k] = entry[k]
    BY <1>1, <1>2, <2>1, Shape
  <2>3. Projection!Head1' = Projection!Head1 /\ k' = k
    BY <1>1 DEF Projection!Head1, Projection!LeaseOf
  <2>4. Projection!EntryActive(k)' => Projection!EntryActive(k)
    BY <1>1, <2>2, <2>3 DEF Projection!EntryActive
  <2>5. Projection!Matches(k)' => Projection!Matches(k)
    BY <1>1, <2>2, <2>3 DEF Projection!Matches
  <2> HIDE DEF k
  <2> QED BY <1>1, <2>3, <2>4, <2>5 DEF ReadInv, Looked, k
<1>10. Projection!TypeOK'
  <2>1. posting' \subseteq Projection!Calls
    BY <1>6 DEF GoodCalls
  <2>2. Projection!Outstanding' = Projection!Outstanding
    BY <1>1 DEF Projection!Outstanding, Projection!Answers
  <2> QED BY <1>1, <1>2, <1>3, <2>1, <2>2 DEF ReadInv, Projection!TypeOK, Entries
<1> QED BY <1>1, <1>3, <1>4, <1>6, <1>7, <1>8, <1>9, <1>10 DEF ReadInv, MessagesGood, Projection!AnsweredFresh

LEMMA GraphMoves ==
  ASSUME ReadInv, Projection!Commit
  PROVE  ReadInv' /\ (Follows => Follows')
<1>1. graph' = graph + 1 /\ graph' \in 0 .. MaxGraph
      /\ UNCHANGED <<alive, entry, aborted, queue, pc, look, checking, posting, offers, reads, transfer, late,
                     toAgent, toExt, closed, held>>
  BY LimitsAreNatural
     DEF Projection!Commit, Projection!ext, Projection!endpoint, Projection!agent, ReadInv, Projection!TypeOK
<1>2. /\ Known' = Known /\ Projection!Active' = Projection!Active /\ GoodCalls' = GoodCalls
      /\ Projection!Outstanding' = Projection!Outstanding
  BY <1>1 DEF Known, Projection!Active, Projection!Outstanding, Projection!Answers, GoodCalls
<1>3. Projection!TypeOK'
  BY <1>1, <1>2 DEF ReadInv, Projection!TypeOK
<1>4. GoodFrames' = GoodFrames
  BY <1>2 DEF GoodFrames, Answer, Notes
<1>5. MessagesGood' /\ OneTransfer' /\ TransferServed'
  BY <1>1, <1>2, <1>4
     DEF ReadInv, MessagesGood, OneTransfer, TransferServed, CallsMade, AnswersMade, Served, Projection!Head1
<1>6. LeasesPublished'
  <2>1. \A l \in Leases : entry[l].at \in Nat /\ graph \in Nat
    BY Shape, LimitsAreNatural DEF Entries
  <2> QED BY <1>1, <1>2, <2>1 DEF ReadInv, LeasesPublished
<1>7. Looked' /\ TransferRead'
  <2> SUFFICES ASSUME pc \in DOMAIN StageOf PROVE Looked'
    BY <1>1 DEF ReadInv, TransferRead, Looked
  <2> DEFINE k == Projection!LeaseOf(Projection!Head1)
  <2>1. k \in Leases
    BY Shape, FirstIsKnown DEF StageOf
  <2>2. Projection!Head1' = Projection!Head1 /\ k' = k
    BY <1>1 DEF Projection!Head1, Projection!LeaseOf
  <2>3. ~Projection!Matches(k)'
    <3>1. entry[k].at <= graph /\ entry[k].at \in Nat /\ graph \in Nat
      BY <2>1, Shape, LimitsAreNatural DEF ReadInv, LeasesPublished, Entries
    <3> QED BY <1>1, <2>2, <3>1 DEF Projection!Matches
  <2>4. Projection!EntryActive(k)' => Projection!EntryActive(k)
    BY <1>1, <2>2 DEF Projection!EntryActive
  <2> HIDE DEF k
  <2> QED BY <1>1, <2>2, <2>3, <2>4 DEF ReadInv, Looked, k
<1>8. Follows => Follows'
  <2>1. CallsMade' = CallsMade /\ AnswersMade' = AnswersMade
    BY <1>1 DEF CallsMade, AnswersMade
  <2> QED BY <1>1, <2>1, QuietFollows DEF Projection!Head1
<1> QED BY <1>1, <1>2, <1>3, <1>5, <1>6, <1>7, <1>8 DEF ReadInv, Projection!AnsweredFresh

\* A step of the extension beside the read in service: it may end an entry.
LEMMA BesideKeeps ==
  ASSUME ReadInv, UNCHANGED <<graph, late, aborted, queue, pc, look, offers, reads, transfer, toAgent,
                              toExt, closed, held>>,
         alive' \subseteq alive, checking' \subseteq Leases,
         Ending(entry, entry'), posting' \subseteq GoodCalls,
         posting' \cap Transfers \subseteq posting \cap Transfers
  PROVE  ReadInv' /\ (Follows => Follows')
<1>1. OneTransfer' /\ TransferServed' /\ (Follows => Follows')
  BY QuietKeepsOne, QuietFollows DEF Projection!Head1
<1>2. Projection!Outstanding' <= CallLimit
  BY OutstandingIs
<1>3. Looked'
  BY LookedStays DEF Projection!Head1
<1> QED BY <1>1, <1>2, <1>3, EndpointKeeps, Shape DEF ReadInv, Projection!TypeOK, NoCall, Looking

\* The signal of a lease, and a navigation.
LEMMA LeaseEnds ==
  ASSUME ReadInv, NEW l \in Leases, Projection!Abort(l) \/ Projection!Navigate(l)
  PROVE  ReadInv' /\ (Follows => Follows')
<1>1. /\ alive' \subseteq alive
      /\ UNCHANGED <<graph, late, aborted, queue, pc, look, checking, offers, reads, transfer, toAgent,
                     toExt, closed, held>>
  BY DEF Projection!Abort, Projection!Navigate, Projection!agent, Projection!endpoint
<1>2. /\ Ending(entry, entry') /\ posting' \subseteq GoodCalls
      /\ posting' \cap Transfers \subseteq posting \cap Transfers
  BY RevokeIs, Shape DEF Projection!Abort, Projection!Navigate, Clear
<1> QED BY <1>1, <1>2, BesideKeeps DEF ReadInv, Projection!TypeOK

\* The validation that follows the publication.
LEMMA PublishChecks ==
  ASSUME ReadInv, NEW l \in Leases, Projection!PublishChecked(l)
  PROVE  ReadInv' /\ (Follows => Follows')
<1>1. /\ checking' = checking \ {l}
      /\ UNCHANGED <<graph, alive, late, aborted, queue, pc, look, offers, reads, transfer, toAgent,
                     toExt, closed, held>>
  BY DEF Projection!PublishChecked, Projection!agent
<1>2. /\ Ending(entry, entry') /\ posting' \subseteq GoodCalls
      /\ posting' \cap Transfers \subseteq posting \cap Transfers
  BY RevokeIs, Shape DEF Projection!PublishChecked, Clear
<1> QED BY <1>1, <1>2, BesideKeeps DEF ReadInv, Projection!TypeOK

LEMMA PostKeeps ==
  ASSUME ReadInv, NEW c \in posting, Projection!Post(c)
  PROVE  ReadInv' /\ (Follows => Follows')
<1>1. /\ Projection!Outstanding < CallLimit
      /\ toAgent' = Append(toAgent, c) /\ posting' = posting \ {c}
      /\ UNCHANGED <<graph, alive, entry, late, aborted, queue, pc, look, checking, offers, reads, transfer,
                     toExt, closed, held>>
  BY DEF Projection!Post, Projection!agent, Projection!endpoint
<1>2. c \in GoodCalls /\ posting' \subseteq GoodCalls
  BY <1>1, Shape
<1>3. /\ toAgent' \in Seq(GoodCalls) /\ Len(toAgent') = Len(toAgent) + 1
      /\ Projection!ToSet(toAgent') = Projection!ToSet(toAgent) \cup {c}
      /\ c \notin Transfers => /\ AtMostOne(toAgent, Transfers) => AtMostOne(toAgent', Transfers)
                               /\ NoneOf(toAgent, Transfers) => NoneOf(toAgent', Transfers)
      /\ NoneOf(toAgent, Transfers) => AtMostOne(toAgent', Transfers)
  BY <1>1, <1>2, Shape, Appended
<1>4. Projection!Outstanding' <= CallLimit
  BY <1>1, <1>3, OutstandingIs
<1>5. OneTransfer'
  <2>1. CASE c \in Transfers
    <3>1. ~Clear(posting) /\ Alone(posting)
      BY <2>1, Shape DEF Clear, OneTransfer
    <3>2. Clear(posting') /\ Alone(posting')
      BY <1>1, <2>1, <3>1 DEF Clear, Alone
    <3> QED BY <1>1, <1>3, <3>1, <3>2, Shape DEF OneTransfer
  <2>2. CASE c \notin Transfers
    <3>1. (Clear(posting) => Clear(posting')) /\ (Alone(posting) => Alone(posting'))
      BY <1>1 DEF Clear, Alone
    <3> QED BY <1>1, <1>3, <2>2, <3>1, Shape DEF OneTransfer
  <2> QED BY <2>1, <2>2
<1>6. TransferServed' /\ (Follows => Follows')
  <2>1. CallsMade' = CallsMade /\ AnswersMade' = AnswersMade
    BY <1>1, <1>3 DEF CallsMade, AnswersMade
  <2>2. Follows => Follows'
    BY <1>1, <2>1, QuietFollows DEF Projection!Head1
  <2> QED BY <1>1, <2>1, <2>2, Shape DEF TransferServed, Served, Projection!Head1
<1>7. Looked' /\ Ending(entry, entry')
  <2>1. Ending(entry, entry')
    BY <1>1, Shape DEF Ending, Entries
  <2> QED BY <1>1, <2>1, LookedStays DEF Projection!Head1
<1> QED BY <1>1, <1>2, <1>3, <1>4, <1>5, <1>6, <1>7, EndpointKeeps, Shape
     DEF ReadInv, Projection!TypeOK, NoCall, Looking

\* An answer is taken from among the frames: the first one on its way.
LEMMA AnswerTaken ==
  ASSUME ReadInv, Projection!Answers # {}, toExt' = Projection!RemoveAt(toExt, Projection!FirstAnswer), UNCHANGED toAgent
  PROVE  LET f == toExt[Projection!FirstAnswer]
         IN  /\ f \in Answer(GoodCalls) /\ f \in Projection!ToSet(toExt)
             /\ toExt' \in Seq(GoodFrames) /\ Projection!Outstanding' <= CallLimit
             /\ Projection!ToSet(toExt') \subseteq Projection!ToSet(toExt)
             /\ AtMostOne(toExt, Replies) => AtMostOne(toExt', Replies)
             /\ AtMostOne(toExt, Replies) /\ f \in Replies => NoneOf(toExt', Replies)
<1> DEFINE k == Projection!FirstAnswer
           f == toExt[k]
<1>1. k \in Projection!Answers
  <2> DEFINE less == OpToRel(<, Nat)
  <2>1. Projection!Answers \subseteq Nat /\ Projection!Answers # {}
    BY Shape, LenProperties DEF Projection!Answers
  <2>2. \A i, j \in Nat : <<j, i>> \in less <=> j < i
    BY DEF OpToRel
  <2> HIDE DEF Projection!Answers, less
  <2>3. \E i \in Projection!Answers : \A j \in Projection!Answers : <<j, i>> \notin less
    BY <2>1, NatLessThanWellFounded, WFMin DEF less
  <2>4. \E i \in Projection!Answers : \A j \in Projection!Answers : i <= j
    <3>1. PICK i \in Projection!Answers : \A j \in Projection!Answers : <<j, i>> \notin less
      BY <2>3
    <3>2. \A j \in Projection!Answers : i <= j
      <4> SUFFICES ASSUME NEW j \in Projection!Answers PROVE i <= j
        OBVIOUS
      <4>1. i \in Nat /\ j \in Nat
        BY <2>1
      <4>2. ~(j < i)
        BY <2>2, <3>1, <4>1, Zenon
      <4> QED BY <4>1, <4>2
    <3> QED BY <3>2
  <2> QED BY <2>4 DEF Projection!FirstAnswer
<1>2. k \in DOMAIN toExt /\ f.kind = "answer" /\ f \in Projection!ToSet(toExt)
  BY <1>1 DEF Projection!Answers, Projection!ToSet
<1>3. f \in GoodFrames
  BY <1>2, Shape, LenProperties, ElementOfSeq
<1>4. f \in Answer(GoodCalls)
  BY <1>2, <1>3 DEF GoodFrames, Notes
<1>5. toExt \in Seq(GoodFrames) /\ toExt' = Projection!RemoveAt(toExt, k)
  BY Shape
<1> HIDE DEF k
<1>6. /\ toExt' \in Seq(GoodFrames) /\ Projection!ToSet(toExt') \subseteq Projection!ToSet(toExt)
      /\ AtMostOne(toExt, Replies) => AtMostOne(toExt', Replies)
      /\ AtMostOne(toExt, Replies) /\ f \in Replies => NoneOf(toExt', Replies)
      /\ Cardinality(AnswersIn(toExt')) <= Cardinality(AnswersIn(toExt))
  BY <1>2, <1>5, RemovedIsTaken
<1>7. Projection!Outstanding' <= CallLimit
  <2>1. Cardinality(AnswersIn(toExt')) \in Nat
    BY <1>6, AnswersFinite
  <2> QED BY <1>6, <2>1, OutstandingIs
<1> QED BY <1>2, <1>4, <1>6, <1>7 DEF k

\* The endpoint waits for no answer, and then makes a call for the read in service.
LEMMA ServedSays ==
  ASSUME ReadInv, queue # <<>>, pc \in NoCall, NEW kind \in ForRead \ {"ack", "chunk"},
         LET q == Projection!Head1
             c == Projection!Call(kind, Projection!LeaseOf(q), q)
         IN  Projection!Goes(StepOf[kind], c) \/ Projection!Drops(StepOf[kind], c),
         kind = "open" => <<Projection!Head1, "read">> \in held,
         kind = "complete" => <<Projection!Head1, "sent">> \in held,
         IF pc = "rechecking" THEN kind \in {"complete", "cancelTransfer"} ELSE kind \in {"open", "reject"},
         UNCHANGED <<Projection!still, held>>
  PROVE  ReadInv' /\ (Follows => Follows')
<1>1. UNCHANGED <<graph, alive, late, aborted, queue, checking, offers, reads, transfer, toAgent, toExt,
                  closed, held>>
  BY DEF Projection!still, Projection!agent
<1>2. Clear(posting) /\ NoneOf(toAgent, Transfers) /\ NoneOf(toExt', Replies)
  BY <1>1, NoneNow
<1>3. /\ posting' \subseteq GoodCalls /\ Ending(entry, entry') /\ pc' = StepOf[kind] /\ look' = "no"
      /\ OneTransfer' /\ TransferServed'
      /\ AnswersMade' = {} /\ \A c \in CallsMade' : c.kind = kind /\ c.read = Projection!Head1
  BY <1>1, <1>2, SaysOne
<1>4. Projection!Outstanding' <= CallLimit /\ pc' \in {"opening", "completing", "cancelling", "rejecting"}
  BY <1>1, <1>3, OutstandingIs DEF StepOf, ForRead
<1>5. Looked'
  BY <1>4, LookedNot
<1>6. ASSUME Follows PROVE Follows'
  <2>1. CASE pc = "rechecking"
    <3>1. Under(Projection!Head1) /\ kind \notin {"open", "reject"}
      BY <1>6, <2>1 DEF Follows, TransferFollows
    <3>2. \A c \in CallsMade' : c.kind \notin {"open", "reject"} /\ Under(c.read)'
      BY <1>1, <1>3, <3>1 DEF Under
    <3>3. pc' \notin NoCall \cup {"rejecting"}
      BY <1>3, <2>1 DEF StepOf, NoCall, Looking
    <3> QED BY <1>1, <1>3, <1>6, <3>2, <3>3 DEF Follows, TransferFollows, NoCall, Looking
  <2>2. CASE pc # "rechecking"
    <3>1. transfer' = Nil /\ kind \in {"open", "reject"}
      BY <1>1, <1>6, <2>2 DEF Follows, TransferFollows
    <3>2. pc' # "rechecking"
      BY <1>4
    <3> QED BY <1>1, <1>3, <1>6, <3>1, <3>2 DEF Follows, TransferFollows
  <2> QED BY <2>1, <2>2
<1> QED BY <1>1, <1>3, <1>4, <1>5, <1>6, EndpointKeeps, Shape
     DEF ReadInv, Projection!TypeOK, NoCall, Looking

\* Or it goes on reading.
LEMMA ServedWaits ==
  ASSUME ReadInv, queue # <<>>, pc \in NoCall, pc' \in NoCall \ {"idle"},
         pc' = "rechecking" <=> pc = "rechecking",
         look' \in {"no", "due", "asked", "fits", "differs"}, look' # "no" <=> pc' \in Looking,
         held \subseteq held', held' \subseteq Reads \X {"read", "sent", "dropped"}, Looked',
         UNCHANGED <<Projection!still, entry, posting>>
  PROVE  ReadInv' /\ (Follows => Follows')
<1>1. UNCHANGED <<graph, alive, entry, posting, late, aborted, queue, checking, offers, reads, transfer,
                  toAgent, toExt, closed>>
  BY DEF Projection!still, Projection!agent
<1>2. CallsMade' = {} /\ AnswersMade' = {}
  BY <1>1, NoneNow DEF CallsMade, AnswersMade, NoneOf, Clear
<1>3. OneTransfer' /\ TransferServed'
  BY <1>1, <1>2, Shape DEF OneTransfer, TransferServed
<1>4. Projection!Outstanding' <= CallLimit /\ Ending(entry, entry')
  BY <1>1, OutstandingIs, Shape DEF Ending, Entries
<1>5. Follows => Follows'
  BY <1>1, <1>2 DEF Follows, TransferFollows, Under, Projection!Head1, NoCall, Looking
<1> QED BY <1>1, <1>3, <1>4, <1>5, EndpointKeeps, Shape DEF ReadInv, Projection!TypeOK, NoCall, Looking

LEMMA ServeKeeps ==
  ASSUME ReadInv, Projection!Start \/ Projection!ReadBefore \/ Projection!ReadAfter \/ Projection!Race
  PROVE  ReadInv' /\ (Follows => Follows')
<1> DEFINE q == Projection!Head1
           l == Projection!LeaseOf(q)
<1>1. /\ queue # <<>> /\ pc \in {"idle", "reading", "read", "validating"}
      /\ UNCHANGED <<Projection!still, held>>
  BY DEF Projection!Start, Projection!ReadBefore, Projection!ReadAfter, Projection!Race, Projection!Serving
<1>2. StepOf["reject"] = "rejecting"
  BY DEF StepOf
<1>3. \/ /\ pc' \in {"reading", "read", "validating"} /\ UNCHANGED <<entry, posting>>
         /\ \/ pc' = "validating" /\ look' = "due"
            \/ pc' # "validating" /\ pc # "validating" /\ look' = look
      \/ Projection!Goes(StepOf["reject"], Projection!Call("reject", l, q))
      \/ Projection!Drops(StepOf["reject"], Projection!Call("reject", l, q))
  <2>1. CASE Projection!Start
    BY <1>2, <2>1 DEF Projection!Start, Projection!Serving, Projection!Reject, Projection!Fails
  <2>2. CASE Projection!ReadBefore
    BY <1>2, <2>2 DEF Projection!ReadBefore, Projection!Serving, Projection!Reject
  <2>3. CASE Projection!ReadAfter
    BY <1>2, <2>3 DEF Projection!ReadAfter, Projection!Reject
  <2>4. CASE Projection!Race
    BY <1>2, <2>4 DEF Projection!Race, Projection!Reject
  <2> QED BY <2>1, <2>2, <2>3, <2>4
<1>4. CASE /\ pc' \in {"reading", "read", "validating"} /\ UNCHANGED <<entry, posting>>
           /\ \/ pc' = "validating" /\ look' = "due"
              \/ pc' # "validating" /\ pc # "validating" /\ look' = look
  <2>1. look' \in {"no", "due", "asked", "fits", "differs"} /\ (look' # "no" <=> pc' \in Looking)
    BY <1>1, <1>4 DEF ReadInv, Projection!TypeOK, Looking
  <2>2. Looked'
    BY <1>4, LookedNot
  <2> QED BY <1>1, <1>4, <2>1, <2>2, ServedWaits, Shape DEF NoCall, Looking
<1>5. CASE \/ Projection!Goes(StepOf["reject"], Projection!Call("reject", l, q))
           \/ Projection!Drops(StepOf["reject"], Projection!Call("reject", l, q))
  <2>1. "reject" \in ForRead \ {"ack", "chunk"} /\ pc \in NoCall
    BY <1>1 DEF ForRead, NoCall, Looking
  <2> QED BY <1>1, <1>5, <2>1, ServedSays
<1> QED BY <1>3, <1>4, <1>5

\* The three validations of a read, step by step.
LEMMA ValidateKeeps ==
  ASSUME ReadInv, Projection!ValidateBegins \/ Projection!CatalogRead
  PROVE  ReadInv' /\ (Follows => Follows')
<1> DEFINE q == Projection!Head1
           l == Projection!LeaseOf(q)
<1>1. UNCHANGED <<Projection!still, held>>
  BY DEF Projection!ValidateBegins, Projection!CatalogRead
<1>2. pc \in Looking /\ queue # <<>> /\ pc \in NoCall
  <2>1. look # "no"
    BY DEF Projection!ValidateBegins, Projection!CatalogRead
  <2>2. pc \in Looking
    BY <2>1 DEF ReadInv, Projection!TypeOK, Looking
  <2> QED BY <2>2, Shape DEF Looking, NoCall
<1>3. CASE Projection!Drops("rejecting", Projection!Reject(q)) /\ pc # "rechecking"
  <2>1. "reject" \in ForRead \ {"ack", "chunk"} /\ StepOf["reject"] = "rejecting"
    BY DEF ForRead, StepOf
  <2> QED BY <1>1, <1>2, <1>3, <2>1, ServedSays DEF Projection!Reject
<1>4. CASE pc' = pc /\ UNCHANGED <<entry, posting>> /\ (look' = "asked" \/ (look' = "fits" => Projection!Matches(l)))
           /\ look' \in {"asked", "fits", "differs"}
  <2>1. UNCHANGED <<graph, alive, queue, reads>>
    BY <1>1 DEF Projection!still, Projection!agent
  <2>2. Looked'
    <3> SUFFICES ASSUME pc \in DOMAIN StageOf,
                        Projection!EntryActive(l)', look' = "fits" \/ Projection!Matches(l)'
                 PROVE  <<q, StageOf[pc]>> \in held /\ q' = q
      BY <1>1, <1>4 DEF Looked, StageOf
    <3>1. q' = q /\ l' = l
      BY <2>1 DEF Projection!Head1, Projection!LeaseOf
    <3>2. Projection!EntryActive(l) /\ Projection!Matches(l)
      BY <1>4, <2>1, <3>1 DEF Projection!EntryActive, Projection!Matches
    <3> QED BY <3>1, <3>2 DEF ReadInv, Looked
  <2> QED BY <1>1, <1>2, <1>4, <2>2, ServedWaits, Shape DEF NoCall, Looking
<1>5. pc = "rechecking" => look # "due"
  BY DEF ReadInv, Looked
<1> QED BY <1>3, <1>4, <1>5 DEF Projection!ValidateBegins, Projection!CatalogRead

\* What a validation that is passed shows: the lease held when the stage before was over.
LEMMA PassedHeld ==
  ASSUME ReadInv, pc \in DOMAIN StageOf, Projection!Passes(Projection!Head1)
  PROVE  <<Projection!Head1, StageOf[pc]>> \in held
BY DEF ReadInv, Looked, Projection!Passes

LEMMA HeldMore ==
  ASSUME ReadInv, NEW q \in Known, NEW stage \in {"read", "sent", "dropped"}
  PROVE  /\ held \subseteq Projection!Holds(q, stage)
         /\ Projection!Holds(q, stage) \subseteq Reads \X {"read", "sent", "dropped"}
         /\ Projection!Valid(Projection!LeaseOf(q)) => <<q, stage>> \in Projection!Holds(q, stage)
<1>1. <<q, stage>> \in Reads \X {"read", "sent", "dropped"}
  BY Shape
<1> QED BY <1>1, Shape DEF Projection!Holds

LEMMA ValidatedKeeps ==
  ASSUME ReadInv, Projection!Projected \/ Projection!Checked \/ Projection!Rechecked
  PROVE  ReadInv' /\ (Follows => Follows')
<1> DEFINE q == Projection!Head1
           l == Projection!LeaseOf(q)
<1>1. queue # <<>> /\ pc \in Looking /\ pc \in NoCall /\ UNCHANGED Projection!still
  BY DEF Projection!Projected, Projection!Checked, Projection!Rechecked, Projection!Seen, Projection!Serving,
         Looking, NoCall
<1>2. /\ StepOf["reject"] = "rejecting" /\ StepOf["open"] = "opening" /\ StepOf["complete"] = "completing"
      /\ StepOf["cancelTransfer"] = "cancelling"
      /\ {"reject", "open", "complete", "cancelTransfer"} \subseteq ForRead \ {"ack", "chunk"}
  BY DEF StepOf, ForRead
<1>3. CASE pc = "validating" /\ pc' = "checking" /\ look' = "due" /\ held' = Projection!Holds(q, "read")
           /\ UNCHANGED <<entry, posting>>
  <2>1. q \in Known
    BY <1>1, FirstIsKnown
  <2>2. /\ held \subseteq held' /\ held' \subseteq Reads \X {"read", "sent", "dropped"}
        /\ Projection!Valid(l) => <<q, "read">> \in held'
    BY <1>3, <2>1, HeldMore
  <2>3. Looked'
    <3>1. UNCHANGED <<graph, alive, entry, reads, queue>>
      BY <1>1, <1>3 DEF Projection!still, Projection!agent
    <3>2. q' = q /\ l' = l
      BY <3>1 DEF Projection!Head1, Projection!LeaseOf
    <3>3. Projection!EntryActive(l)' /\ Projection!Matches(l)' => Projection!Valid(l)
      BY <3>1, <3>2 DEF Projection!EntryActive, Projection!Matches, Projection!Valid
    <3> HIDE DEF q, l
    <3> QED BY <1>3, <2>2, <3>2, <3>3 DEF Looked, StageOf, q, l
  <2> QED BY <1>1, <1>3, <2>2, <2>3, ServedWaits DEF Looking, NoCall
<1>4. ASSUME UNCHANGED held, NEW kind \in {"reject", "open", "complete", "cancelTransfer"},
             \/ Projection!Goes(StepOf[kind], Projection!Call(kind, l, q))
             \/ Projection!Drops(StepOf[kind], Projection!Call(kind, l, q)),
             kind = "open" => pc = "checking" /\ Projection!Passes(q),
             kind = "complete" => pc = "rechecking" /\ Projection!Passes(q),
             IF pc = "rechecking" THEN kind \in {"complete", "cancelTransfer"} ELSE kind \in {"open", "reject"}
      PROVE  ReadInv' /\ (Follows => Follows')
  <2>1. kind \in ForRead \ {"ack", "chunk"}
    BY <1>2
  <2>2. (kind = "open" => <<q, "read">> \in held) /\ (kind = "complete" => <<q, "sent">> \in held)
    BY <1>4, PassedHeld DEF StageOf
  <2> QED BY <1>1, <1>4, <2>1, <2>2, ServedSays
<1>5. \/ pc = "validating" /\ pc' = "checking" /\ look' = "due" /\ held' = Projection!Holds(q, "read")
         /\ UNCHANGED <<entry, posting>>
      \/ /\ UNCHANGED held
         /\ \E kind \in {"reject", "open", "complete", "cancelTransfer"} :
              /\ \/ Projection!Goes(StepOf[kind], Projection!Call(kind, l, q))
                 \/ Projection!Drops(StepOf[kind], Projection!Call(kind, l, q))
              /\ kind = "open" => pc = "checking" /\ Projection!Passes(q)
              /\ kind = "complete" => pc = "rechecking" /\ Projection!Passes(q)
              /\ IF pc = "rechecking" THEN kind \in {"complete", "cancelTransfer"}
                                      ELSE kind \in {"open", "reject"}
  <2>1. CASE Projection!Projected
    BY <1>2, <2>1 DEF Projection!Projected, Projection!Seen, Projection!Serving, Projection!Reject
  <2>2. CASE Projection!Checked
    BY <1>2, <2>2 DEF Projection!Checked, Projection!Seen, Projection!Serving, Projection!Reject
  <2>3. CASE Projection!Rechecked
    BY <1>2, <2>3 DEF Projection!Rechecked, Projection!Seen, Projection!Serving
  <2> QED BY <2>1, <2>2, <2>3
<1> QED BY <1>3, <1>4, <1>5

LEMMA TakeAnswerKeeps ==
  ASSUME ReadInv, Projection!TakeAnswer
  PROVE  ReadInv' /\ (Follows => Follows')
<1> DEFINE f == toExt[Projection!FirstAnswer]
           c == f.call
           q == Projection!Head1
           l == Projection!LeaseOf(q)
<1>1. /\ Projection!Answers # {} /\ toExt' = Projection!RemoveAt(toExt, Projection!FirstAnswer)
      /\ UNCHANGED <<graph, alive, late, offers, reads, transfer, toAgent, closed>>
  BY DEF Projection!TakeAnswer, Projection!agent
<1>2. /\ f \in Answer(GoodCalls) /\ f \in Projection!ToSet(toExt)
      /\ toExt' \in Seq(GoodFrames) /\ Projection!Outstanding' <= CallLimit
      /\ Projection!ToSet(toExt') \subseteq Projection!ToSet(toExt)
      /\ AtMostOne(toExt, Replies) => AtMostOne(toExt', Replies)
      /\ AtMostOne(toExt, Replies) /\ f \in Replies => NoneOf(toExt', Replies)
  BY <1>1, AnswerTaken
<1>3. CASE
        \/ c.kind = "open" /\ Projection!AfterOpen(c.read)
        \/ c.kind = "chunk" /\ Projection!AfterChunk(c.read)
        \/ c.kind = "ack" /\ Projection!AfterAck(c.read)
        \/ c.kind = "cancelTransfer" /\ Projection!AfterCancel(c.read)
        \/ c.kind \in {"complete", "reject"} /\ Projection!Finished
           /\ UNCHANGED <<entry, look, checking, posting, held>>
  <2>1. c \in GoodCalls /\ c.kind \in ForRead /\ f \in Replies
    <3>1. c \in GoodCalls /\ c.kind \in ForRead
      BY <1>2, <1>3 DEF Answer, ForRead
    <3> HIDE DEF f
    <3>2. c \in Transfers
      BY <3>1, TransferIs
    <3> QED BY <1>2, <3>1, <3>2 DEF Answer, Replies
  <2>2. Served(c)
    BY <1>2, <2>1, Shape DEF TransferServed, AnswersMade
  <2>3. Clear(posting) /\ NoneOf(toAgent, Transfers) /\ NoneOf(toExt', Replies)
    <3>1. ~NoneOf(toExt, Replies)
      BY <1>2, <2>1 DEF NoneOf
    <3> QED BY <1>2, <2>1, <3>1, Shape DEF OneTransfer
  <2>4. queue # <<>> /\ c.read = q /\ q \in Known
    <3>1. queue # <<>> /\ c.read = q
      BY <2>1, <2>2, Shape DEF Served, StepOf, ForRead
    <3> QED BY <3>1, FirstIsKnown
  <2>5. Follows => IF c.kind \in {"open", "chunk", "ack"} THEN Under(q) ELSE transfer = Nil
    BY <1>2, <2>1, <2>4 DEF Follows, TransferFollows, AnswersMade
  <2>6. c.kind \in {"open", "chunk"} => <<q, "read">> \in held
    BY <2>1, <2>4 DEF GoodCalls
  <2> HIDE DEF f, q
  <2>7. CASE c.kind \in {"complete", "reject"} /\ Projection!Finished
             /\ UNCHANGED <<entry, look, checking, posting, held>>
    <3>1. /\ queue' = Tail(queue) /\ pc' = "idle" /\ aborted' = aborted \ {Projection!Head1}
          /\ UNCHANGED <<entry, look, checking, posting, held>>
      BY <2>7 DEF Projection!Finished
    <3>2. OneTransfer' /\ TransferServed' /\ CallsMade' = {} /\ AnswersMade' = {}
      <4>1. CallsMade' = {} /\ AnswersMade' = {}
        BY <1>1, <2>3, <3>1 DEF CallsMade, AnswersMade, NoneOf, Clear
      <4> QED BY <1>1, <1>2, <2>3, <3>1, <4>1, Shape DEF OneTransfer, TransferServed
    <3>3. /\ queue' \in Seq(Known) /\ Len(queue') = Len(queue) - 1 /\ Len(queue) \in Nat
          /\ Projection!ToSet(queue) = {Projection!Head1} \cup Projection!ToSet(queue')
      BY <2>4, <3>1, Shape, TailIsTaken DEF Projection!Head1
    <3>4. Len(queue') <= ReadLimit /\ aborted' \subseteq Projection!ToSet(queue') /\ Ending(entry, entry')
      BY <3>1, <3>3, LimitsAreNatural, Shape DEF ReadInv, Projection!TypeOK, Ending, Entries
    <3>5. Follows => Follows'
      BY <1>1, <2>5, <2>7, <3>1, <3>2 DEF Follows, TransferFollows
    <3>6. look' = "no"
      <4>1. pc \in {"completing", "rejecting"}
        BY <2>2, <2>7 DEF Served, StepOf
      <4> QED BY <3>1, <4>1 DEF ReadInv, Projection!TypeOK
    <3>7. Looked'
      BY <3>1, LookedNot
    <3> QED BY <1>1, <1>2, <3>1, <3>2, <3>3, <3>4, <3>5, <3>6, <3>7, EndpointKeeps, Shape
         DEF ReadInv, Projection!TypeOK, NoCall, Looking
  <2>8. ASSUME NEW kind \in {"chunk", "ack", "cancelTransfer", "reject"},
               kind = "chunk" => <<q, "read">> \in held,
               \/ Projection!Goes(StepOf[kind], Projection!Following(kind, l, q))
               \/ Projection!Drops(StepOf[kind], Projection!Following(kind, l, q)),
               kind # "reject" <=> c.kind \in {"open", "chunk", "ack"},
               held \subseteq held', held' \subseteq Reads \X {"read", "sent", "dropped"},
               UNCHANGED <<queue, aborted, checking>>
        PROVE  ReadInv' /\ (Follows => Follows')
    <3>1. kind \in ForRead
      BY DEF ForRead
    <3>2. /\ posting' \subseteq GoodCalls /\ Ending(entry, entry') /\ pc' = StepOf[kind] /\ look' = "no"
          /\ OneTransfer' /\ TransferServed'
          /\ AnswersMade' = {} /\ \A d \in CallsMade' : d.kind = kind /\ d.read = q
      BY <1>1, <2>3, <2>4, <2>8, <3>1, SaysOne DEF q
    <3>3. pc' \in {"sending", "cancelling", "rejecting"} /\ Looked'
      <4>1. pc' \in {"sending", "cancelling", "rejecting"}
        BY <3>2 DEF StepOf
      <4> QED BY <4>1, LookedNot
    <3>4. Follows => Follows'
      <4> SUFFICES ASSUME Follows PROVE Follows'
        OBVIOUS
      <4>1. CASE kind = "reject"
        <5>1. transfer' = Nil
          BY <1>1, <2>1, <2>5, <2>8, <4>1
        <5> QED BY <1>1, <3>2, <3>3, <4>1, <5>1 DEF Follows, TransferFollows
      <4>2. CASE kind # "reject"
        <5>1. \A d \in CallsMade' : Under(d.read)'
          BY <1>1, <2>5, <2>8, <3>2, <4>2 DEF Under
        <5>2. pc' \in {"sending", "cancelling"}
          BY <3>2, <4>2 DEF StepOf
        <5> QED BY <1>1, <3>2, <4>2, <5>1, <5>2 DEF Follows, TransferFollows, NoCall, Looking
      <4> QED BY <4>1, <4>2
    <3> QED BY <1>1, <1>2, <2>4, <2>8, <3>2, <3>3, <3>4, EndpointKeeps, Shape
         DEF ReadInv, Projection!TypeOK, NoCall, Looking
  <2>9. StepOf["chunk"] = "sending" /\ StepOf["ack"] = "sending"
        /\ StepOf["cancelTransfer"] = "cancelling" /\ StepOf["reject"] = "rejecting"
    BY DEF StepOf
  <2>10. held \subseteq Reads \X {"read", "sent", "dropped"}
    BY Shape
  <2>11. CASE c.kind = "open" /\ Projection!AfterOpen(c.read)
    BY <2>4, <2>6, <2>8, <2>9, <2>10, <2>11 DEF Projection!AfterOpen, Projection!Undo, Projection!Fails
  <2>12. CASE c.kind = "chunk" /\ Projection!AfterChunk(c.read)
    BY <2>4, <2>8, <2>9, <2>10, <2>12 DEF Projection!AfterChunk, Projection!Undo, Projection!Fails
  <2>13. CASE c.kind = "cancelTransfer" /\ Projection!AfterCancel(c.read)
    BY <2>4, <2>8, <2>9, <2>10, <2>13 DEF Projection!AfterCancel
  <2>14. CASE c.kind = "ack" /\ Projection!AfterAck(c.read)
    <3>1. /\ held \subseteq held' /\ held' \subseteq Reads \X {"read", "sent", "dropped"}
          /\ Projection!Valid(l) => <<q, "sent">> \in held'
      BY <2>4, <2>14, HeldMore DEF Projection!AfterAck
    <3>2. CASE Projection!Drops("cancelling", Projection!Following("cancelTransfer", l, q))
      BY <2>4, <2>8, <2>9, <2>14, <3>1, <3>2 DEF Projection!AfterAck
    <3>3. CASE pc' = "rechecking" /\ look' = "asked" /\ UNCHANGED <<entry, posting>>
      <4>1. UNCHANGED <<queue, aborted, checking>>
        BY <2>14 DEF Projection!AfterAck
      <4>2. CallsMade' = {} /\ AnswersMade' = {}
        BY <1>1, <2>3, <3>3 DEF CallsMade, AnswersMade, NoneOf, Clear
      <4>3. OneTransfer' /\ TransferServed' /\ Ending(entry, entry')
        BY <1>1, <1>2, <2>3, <3>3, <4>2, Shape DEF OneTransfer, TransferServed, Ending, Entries
      <4>4. q' = q /\ l' = l
        BY <1>1, <4>1 DEF q, Projection!Head1, Projection!LeaseOf
      <4>5. Looked'
        <5>1. Projection!EntryActive(l)' /\ Projection!Matches(l)' => Projection!Valid(l)
          BY <1>1, <3>3, <4>4 DEF Projection!EntryActive, Projection!Matches, Projection!Valid
        <5> HIDE DEF l
        <5> QED BY <3>1, <3>3, <4>4, <5>1 DEF Looked, StageOf, q, l
      <4>6. Follows => Follows'
        BY <1>1, <2>5, <2>14, <3>3, <4>1, <4>2
           DEF Follows, TransferFollows, Under, q, Projection!Head1, NoCall, Looking
      <4> QED BY <1>1, <1>2, <2>4, <3>1, <3>3, <4>1, <4>3, <4>5, <4>6, EndpointKeeps, Shape
           DEF ReadInv, Projection!TypeOK, NoCall, Looking
    <3> QED BY <2>4, <2>14, <3>2, <3>3 DEF Projection!AfterAck
  <2> QED BY <1>3, <2>7, <2>11, <2>12, <2>13, <2>14
<1>4. CASE \/ c.kind = "offer" /\ Projection!AfterOffer(c.lease)
           \/ UNCHANGED <<entry, posting, queue, aborted, pc, look, checking, held>>
  <2>1. UNCHANGED <<queue, aborted, pc, look, held>>
    BY <1>4 DEF Projection!AfterOffer
  <2>2. /\ Ending(entry, entry') /\ posting' \subseteq GoodCalls /\ checking' \subseteq Leases
        /\ posting' \cap Transfers \subseteq posting \cap Transfers
    <3>1. c.lease \in Leases
      BY <1>2 DEF Answer, GoodCalls, Projection!Calls
    <3>2. checking \subseteq Leases
      BY DEF ReadInv, Projection!TypeOK
    <3> HIDE DEF f
    <3> QED BY <1>4, <3>1, <3>2, RevokeIs, Shape DEF Projection!AfterOffer, Clear
  <2> HIDE DEF f
  <2>3. OneTransfer' /\ TransferServed' /\ (Follows => Follows')
    <3>1. Projection!ToSet(toExt') \cap Replies \subseteq Projection!ToSet(toExt) \cap Replies
      BY <1>2
    <3> QED BY <1>1, <1>2, <2>1, <2>2, <3>1, QuietKeepsOne, QuietFollows DEF Projection!Head1
  <2>4. Looked'
    BY <1>1, <2>1, <2>2, LookedStays DEF Projection!Head1
  <2> QED BY <1>1, <1>2, <2>1, <2>2, <2>3, <2>4, EndpointKeeps, Shape
       DEF ReadInv, Projection!TypeOK, NoCall, Looking
<1>5. \/ c.kind = "open" /\ Projection!AfterOpen(c.read)
      \/ c.kind = "chunk" /\ Projection!AfterChunk(c.read)
      \/ c.kind = "ack" /\ Projection!AfterAck(c.read)
      \/ c.kind = "cancelTransfer" /\ Projection!AfterCancel(c.read)
      \/ c.kind \in {"complete", "reject"} /\ Projection!Finished
         /\ UNCHANGED <<entry, look, checking, posting, held>>
      \/ c.kind = "offer" /\ Projection!AfterOffer(c.lease)
      \/ UNCHANGED <<entry, posting, queue, aborted, pc, look, checking, held>>
  <2>1. CASE c.kind = "open"
    BY <2>1 DEF Projection!TakeAnswer
  <2>2. CASE c.kind = "chunk"
    BY <2>2 DEF Projection!TakeAnswer
  <2>3. CASE c.kind = "ack"
    BY <2>3 DEF Projection!TakeAnswer
  <2>4. CASE c.kind = "cancelTransfer"
    BY <2>4 DEF Projection!TakeAnswer
  <2>5. CASE c.kind \in {"complete", "reject"}
    BY <2>5 DEF Projection!TakeAnswer
  <2>6. CASE c.kind = "offer"
    BY <2>6 DEF Projection!TakeAnswer
  <2>7. CASE c.kind \notin {"open", "chunk", "ack", "cancelTransfer", "complete", "reject", "offer"}
    BY <2>7 DEF Projection!TakeAnswer
  <2> QED BY <2>1, <2>2, <2>3, <2>4, <2>5, <2>6, <2>7
<1> HIDE DEF f
<1> QED BY <1>3, <1>4, <1>5

\* The frames that are no answers are of reads that were asked.
LEMMA FirstFrame ==
  ASSUME ReadInv, toExt # <<>>, Head(toExt).kind # "answer"
  PROVE  /\ Head(toExt).read \in Known /\ Tail(toExt) \in Seq(GoodFrames)
         /\ Projection!ToSet(Tail(toExt)) \subseteq Projection!ToSet(toExt)
         /\ AtMostOne(toExt, Replies) => AtMostOne(Tail(toExt), Replies)
         /\ Len(toAgent) + Cardinality(AnswersIn(Tail(toExt))) <= CallLimit
<1>1. /\ Head(toExt) \in GoodFrames /\ Tail(toExt) \in Seq(GoodFrames)
      /\ Projection!ToSet(Tail(toExt)) \subseteq Projection!ToSet(toExt)
      /\ AtMostOne(toExt, Replies) => AtMostOne(Tail(toExt), Replies)
      /\ Cardinality(AnswersIn(Tail(toExt))) <= Cardinality(AnswersIn(toExt))
  BY Shape, TailIsTaken
<1>2. Head(toExt).read \in Known
  BY <1>1 DEF GoodFrames, Answer, Notes
<1>3. Cardinality(AnswersIn(Tail(toExt))) \in Nat
  BY <1>1, AnswersFinite
<1> QED BY <1>1, <1>2, <1>3, OutstandingIs

LEMMA TakeRequestKeeps ==
  ASSUME ReadInv, Projection!TakeRequest
  PROVE  ReadInv' /\ (Follows => Follows')
<1> DEFINE q == Head(toExt).read
<1>1. toExt # <<>> /\ Head(toExt).kind = "request"
  BY DEF Projection!TakeRequest
<1>2. CASE Projection!Close("late") \/ Projection!Close("queue")
  BY <1>2, CloseKeeps
<1>3. CASE /\ Len(queue) < ReadLimit /\ queue' = Append(queue, q) /\ toExt' = Tail(toExt)
           /\ UNCHANGED <<graph, alive, entry, late, aborted, pc, look, checking, posting, Projection!agent,
                          toAgent, closed, held>>
  <2>1. UNCHANGED <<graph, alive, entry, late, aborted, pc, look, checking, posting, offers, reads, transfer,
                    toAgent, closed, held>>
    BY <1>3 DEF Projection!agent
  <2>2. /\ q \in Known /\ toExt' \in Seq(GoodFrames)
        /\ Projection!ToSet(toExt') \subseteq Projection!ToSet(toExt)
        /\ AtMostOne(toExt, Replies) => AtMostOne(toExt', Replies)
        /\ Projection!Outstanding' <= CallLimit
    <3>1. Projection!Outstanding' = Len(toAgent') + Cardinality(AnswersIn(toExt'))
      BY OutstandingIs
    <3> QED BY <1>1, <1>3, <2>1, <3>1, FirstFrame
  <2> HIDE DEF q
  <2>3. /\ queue' \in Seq(Known) /\ Len(queue') = Len(queue) + 1 /\ Len(queue) \in Nat /\ queue' # <<>>
        /\ Projection!ToSet(queue') = Projection!ToSet(queue) \cup {q}
        /\ queue # <<>> => Projection!Head1' = Projection!Head1
    <3>1. queue \in Seq(Known) /\ queue' = Append(queue, q)
      BY <1>3, Shape
    <3>2. /\ queue' \in Seq(Known) /\ Len(queue') = Len(queue) + 1
          /\ Projection!ToSet(queue') = Projection!ToSet(queue) \cup {q}
      BY <2>2, <3>1, Appended
    <3>3. Len(queue) \in Nat /\ queue' # <<>>
      BY <3>1, <3>2, LenProperties, EmptySeq
    <3>4. queue # <<>> => queue'[1] = queue[1]
      BY <3>1, EmptySeq, AppendProperties
    <3> QED BY <3>2, <3>3, <3>4 DEF Projection!Head1
  <2>4. OneTransfer' /\ TransferServed' /\ (Follows => Follows')
    BY <2>1, <2>2, <2>3, QuietKeepsOne, QuietFollows
  <2>5. Len(queue') <= ReadLimit
    BY <1>3, <2>3, LimitsAreNatural
  <2>6. Ending(entry, entry') /\ Looked'
    <3>1. Ending(entry, entry')
      BY <2>1, Shape DEF Ending, Entries
    <3> QED BY <2>1, <2>3, <3>1, LookedStays
  <2> QED BY <2>1, <2>2, <2>3, <2>4, <2>5, <2>6, EndpointKeeps, Shape
       DEF ReadInv, Projection!TypeOK, NoCall, Looking
<1> QED BY <1>2, <1>3 DEF Projection!TakeRequest

LEMMA TakeCancelKeeps ==
  ASSUME ReadInv, Projection!TakeCancel
  PROVE  ReadInv' /\ (Follows => Follows')
<1> DEFINE q == Head(toExt).read
           l == Projection!LeaseOf(q)
<1>1. /\ toExt # <<>> /\ Head(toExt).kind = "cancel" /\ toExt' = Tail(toExt)
      /\ aborted' = aborted \cup ({q} \cap Projection!ToSet(queue))
      /\ entry' = Projection!Revoked(l) /\ posting' = posting \cup Projection!Revocation(l)
      /\ UNCHANGED <<graph, alive, late, queue, pc, look, checking, offers, reads, transfer, toAgent, closed, held>>
  BY DEF Projection!TakeCancel, Projection!agent
<1>2. /\ q \in Known /\ toExt' \in Seq(GoodFrames)
      /\ Projection!ToSet(toExt') \subseteq Projection!ToSet(toExt)
      /\ AtMostOne(toExt, Replies) => AtMostOne(toExt', Replies)
      /\ Projection!Outstanding' <= CallLimit
  <2>1. Projection!Outstanding' = Len(toAgent') + Cardinality(AnswersIn(toExt'))
    BY OutstandingIs
  <2> QED BY <1>1, <2>1, FirstFrame
<1> HIDE DEF q
<1>3. /\ Ending(entry, entry') /\ posting' \subseteq GoodCalls
      /\ posting' \cap Transfers \subseteq posting \cap Transfers
  BY <1>1, <1>2, RevokeIs, Shape DEF Clear
<1>4. OneTransfer' /\ TransferServed' /\ (Follows => Follows')
  <2>1. Projection!ToSet(toExt') \cap Replies \subseteq Projection!ToSet(toExt) \cap Replies
    BY <1>2
  <2> QED BY <1>1, <1>2, <1>3, <2>1, QuietKeepsOne, QuietFollows DEF Projection!Head1
<1>5. aborted' \subseteq Projection!ToSet(queue') /\ Looked'
  BY <1>1, <1>3, LookedStays DEF ReadInv, Projection!TypeOK, Projection!Head1
<1> QED BY <1>1, <1>2, <1>3, <1>4, <1>5, EndpointKeeps, Shape
     DEF ReadInv, Projection!TypeOK, NoCall, Looking

\* A call finds four without an answer. Only when it would have cancelled a transfer does
\* that stay open.
LEMMA PostFailsKeeps ==
  ASSUME ReadInv, NEW c \in posting, Projection!PostFails(c)
  PROVE  ReadInv' /\ (Follows => Follows' \/ LeftOpen')
<1> DEFINE rest == posting \ {c}
<1>1. c \in GoodCalls /\ c.lease \in Leases /\ rest \subseteq GoodCalls
  BY Shape DEF GoodCalls, Projection!Calls
<1>2. CASE Projection!Close("calls")
  BY <1>2, CloseKeeps
<1>3. CASE /\ c.kind = "offer"
           /\ posting' = rest \cup Projection!Revocation(c.lease) /\ entry' = Projection!Revoked(c.lease)
           /\ UNCHANGED <<graph, alive, late, Projection!endpoint, Projection!agent, toAgent, toExt, closed, held>>
  <2>1. UNCHANGED <<graph, alive, late, aborted, queue, pc, look, checking, offers, reads, transfer, toAgent,
                    toExt, closed, held>>
    BY <1>3 DEF Projection!agent, Projection!endpoint
  <2>2. /\ Ending(entry, entry') /\ posting' \subseteq GoodCalls
        /\ posting' \cap Transfers \subseteq posting \cap Transfers
    BY <1>1, <1>3, RevokeIs DEF Clear
  <2> QED BY <2>1, <2>2, BesideKeeps DEF ReadInv, Projection!TypeOK
<1>4. ASSUME NEW kind \in {"reject", "cancelTransfer"}, c.kind \in ForRead,
             kind = "reject" => c.kind \in {"open", "cancelTransfer"},
             kind = "cancelTransfer" => c.kind \in {"chunk", "ack", "complete"},
             pc' = StepOf[kind], posting' = rest \cup {Projection!Call(kind, c.lease, c.read)},
             held' = IF c.kind = "cancelTransfer" THEN held \cup {<<c.read, "dropped">>} ELSE held,
             UNCHANGED <<graph, alive, entry, late, aborted, queue, look, checking, Projection!agent, toAgent,
                         toExt, closed>>
      PROVE  ReadInv' /\ (Follows => Follows' \/ LeftOpen')
  <2>1. UNCHANGED <<graph, alive, entry, late, aborted, queue, look, checking, offers, reads, transfer, toAgent,
                    toExt, closed>>
    BY <1>4 DEF Projection!agent
  <2>2. c \in Transfers
    BY <1>1, <1>4, TransferIs
  <2> DEFINE d == Projection!Call(kind, c.lease, c.read)
  <2>3. Served(c) /\ queue # <<>> /\ c.read = Projection!Head1 /\ c \in CallsMade
    <3>1. Served(c) /\ c \in CallsMade
      BY <2>2, Shape DEF TransferServed, CallsMade
    <3> QED BY <2>2, <3>1, Shape DEF Served, StepOf, Transfers, ForRead
  <2>4. Clear(rest) /\ NoneOf(toAgent, Transfers) /\ NoneOf(toExt', Replies)
    <3>1. ~Clear(posting) /\ Alone(posting)
      BY <2>2, Shape DEF Clear, OneTransfer
    <3>2. Clear(rest)
      BY <2>2, <3>1 DEF Alone, Clear
    <3> QED BY <2>1, <3>1, <3>2, Shape DEF OneTransfer
  <2>5. c.read \in Known /\ c.read \in Reads
    BY <2>3, FirstIsKnown, Shape
  <2>6. d \in GoodCalls /\ d.kind = kind /\ d.read = Projection!Head1 /\ d.kind \in ForRead
    BY <1>1, <2>3, <2>5, CallIsGood DEF ForRead, Projection!Kinds
  <2> HIDE DEF d, rest
  <2>7. /\ posting' \subseteq GoodCalls /\ OneTransfer' /\ TransferServed'
        /\ CallsMade' = {d} /\ AnswersMade' = {}
    <3>1. posting' = rest \cup {d}
      BY <1>4 DEF d
    <3> QED BY <1>1, <1>4, <2>1, <2>4, <2>6, <3>1, OneIsNew
  <2>8. pc' \in {"rejecting", "cancelling"} /\ Projection!Outstanding' <= CallLimit /\ Ending(entry, entry')
    BY <1>4, <2>1, OutstandingIs, Shape DEF StepOf, Ending, Entries
  <2>9. held \subseteq held' /\ held' \subseteq Reads \X {"read", "sent", "dropped"}
    BY <1>4, <2>5, Shape
  <2>10. look' = "no" /\ Looked'
    <3>1. pc \notin Looking
      BY <2>2, <2>3 DEF Served, StepOf, Transfers, ForRead, Looking
    <3> QED BY <2>1, <2>8, <3>1, LookedNot DEF ReadInv, Projection!TypeOK, Looking
  <2>11. ASSUME Follows PROVE Follows' \/ LeftOpen'
    <3>1. CASE c.kind = "cancelTransfer"
      BY <1>4, <2>5, <3>1 DEF LeftOpen
    <3>2. CASE c.kind # "cancelTransfer"
      <4>1. IF kind = "reject" THEN transfer = Nil ELSE Under(Projection!Head1)
        BY <1>4, <2>3, <2>11, <3>2 DEF Follows, TransferFollows, ForRead
      <4>2. \A e \in CallsMade' : e.kind = kind /\ e.read = Projection!Head1
        BY <2>6, <2>7
      <4>3. pc' = IF kind = "reject" THEN "rejecting" ELSE "cancelling"
        BY <1>4 DEF StepOf
      <4>4. CASE kind = "reject"
        BY <2>1, <2>7, <2>11, <4>1, <4>2, <4>3, <4>4 DEF Follows, TransferFollows
      <4>5. CASE kind = "cancelTransfer"
        <5>1. \A e \in CallsMade' : Under(e.read)'
          BY <2>1, <4>1, <4>2, <4>5 DEF Under
        <5> QED BY <2>1, <2>7, <2>11, <4>2, <4>3, <4>5, <5>1 DEF Follows, TransferFollows, NoCall, Looking
      <4> QED BY <4>4, <4>5
    <3> QED BY <3>1, <3>2
  <2> QED BY <2>1, <2>3, <2>7, <2>8, <2>9, <2>10, <2>11, EndpointKeeps, Shape
       DEF ReadInv, Projection!TypeOK, Looking
<1>5. StepOf["reject"] = "rejecting" /\ StepOf["cancelTransfer"] = "cancelling"
      /\ {"open", "cancelTransfer", "chunk", "ack", "complete"} \subseteq ForRead
  BY DEF StepOf, ForRead
<1>6. \/ Projection!Close("calls")
      \/ /\ c.kind = "offer"
         /\ posting' = rest \cup Projection!Revocation(c.lease) /\ entry' = Projection!Revoked(c.lease)
         /\ UNCHANGED <<graph, alive, late, Projection!endpoint, Projection!agent, toAgent, toExt, closed, held>>
      \/ \E kind \in {"reject", "cancelTransfer"} :
           /\ c.kind \in ForRead
           /\ kind = "reject" => c.kind \in {"open", "cancelTransfer"}
           /\ kind = "cancelTransfer" => c.kind \in {"chunk", "ack", "complete"}
           /\ pc' = StepOf[kind] /\ posting' = rest \cup {Projection!Call(kind, c.lease, c.read)}
           /\ held' = IF c.kind = "cancelTransfer" THEN held \cup {<<c.read, "dropped">>} ELSE held
           /\ UNCHANGED <<graph, alive, entry, late, aborted, queue, look, checking, Projection!agent, toAgent,
                          toExt, closed>>
  <2>1. CASE c.kind \in {"open", "cancelTransfer"}
    BY <1>5, <2>1 DEF Projection!PostFails
  <2>2. CASE c.kind \in {"chunk", "ack", "complete"}
    BY <1>5, <2>2 DEF Projection!PostFails
  <2> QED BY <2>1, <2>2 DEF Projection!PostFails
<1> HIDE DEF rest
<1> QED BY <1>2, <1>3, <1>4, <1>6

-----------------------------------------------------------------------------
(* The reads: the steps of the agent.                                      *)

LEMMA AgentKeeps ==
  ASSUME ReadInv, UNCHANGED <<graph, alive, entry, aborted, queue, pc, look, checking, posting, closed, held>>,
         late' \subseteq Reads,
         offers' \subseteq Leases, \A l \in offers' : entry[l].state # "new",
         reads' \in [Reads -> [state : {"idle", "active", "answered", "refused"}, lease : Leases \cup {Nil}]],
         Known \subseteq Known', \A q \in Known : reads'[q].lease = reads[q].lease,
         \A q \in Known' \ Known : reads'[q].lease \in Leases /\ entry[reads'[q].lease].state # "new",
         transfer' \in Reads \cup {Nil}, TransferRead',
         IsFiniteSet(Projection!Active'), Cardinality(Projection!Active') <= ReadLimit,
         toAgent' \in Seq(GoodCalls'), toExt' \in Seq(GoodFrames'), Projection!Outstanding' <= CallLimit,
         OneTransfer', TransferServed', Projection!AnsweredFresh'
  PROVE  ReadInv'
<1>1. MessagesGood'
  BY GoodStays, Shape DEF MessagesGood
<1>2. LeasesPublished'
  BY DEF ReadInv, LeasesPublished
<1>3. Looked'
  <2>1. Ending(entry, entry')
    BY Shape DEF Ending, Entries
  <2> QED BY <2>1, LookedStays DEF Projection!Head1
<1>4. Projection!TypeOK'
  <2>1. posting' \subseteq Projection!Calls /\ toAgent' \in Seq(Projection!Calls)
    <3>1. GoodCalls' \subseteq Projection!Calls
      BY DEF GoodCalls
    <3> QED BY <1>1, <3>1, SeqMonotonic DEF MessagesGood
  <2>2. Projection!Cardinality(Projection!Active)' <= ReadLimit
    BY Counts
  <2> QED BY <2>1, <2>2 DEF ReadInv, Projection!TypeOK
<1> QED BY <1>1, <1>2, <1>3, <1>4 DEF ReadInv

LEMMA FewerActive ==
  ASSUME ReadInv, NEW S \in SUBSET Projection!Active
  PROVE  IsFiniteSet(S) /\ Cardinality(S) <= ReadLimit
<1>1. IsFiniteSet(Projection!Active) /\ Cardinality(Projection!Active) <= ReadLimit
  BY Counts DEF ReadInv, Projection!TypeOK
<1>2. IsFiniteSet(S) /\ Cardinality(S) <= Cardinality(Projection!Active)
  BY <1>1, FS_Subset
<1>3. Cardinality(S) \in Nat /\ Cardinality(Projection!Active) \in Nat
  BY <1>1, <1>2, FS_CardinalityType
<1> QED BY <1>1, <1>2, <1>3, LimitsAreNatural

\* What settling reads does to them.
LEMMA SettledIs ==
  ASSUME ReadInv, NEW qs \in SUBSET Projection!Active, NEW state \in {"refused", "answered"},
         reads' = Projection!Settled(qs, state)
  PROVE  /\ reads' \in [Reads -> [state : {"idle", "active", "answered", "refused"}, lease : Leases \cup {Nil}]]
         /\ Known' = Known /\ \A q \in Known : reads'[q].lease = reads[q].lease
         /\ IsFiniteSet(Projection!Active') /\ Cardinality(Projection!Active') <= ReadLimit
         /\ \A q \in Reads : reads'[q].state = "answered" =>
              reads[q].state = "answered" \/ (q \in qs /\ state = "answered")
<1>1. /\ reads' \in [Reads -> [state : {"idle", "active", "answered", "refused"}, lease : Leases \cup {Nil}]]
      /\ \A q \in Reads : reads'[q] = IF q \in qs THEN [reads[q] EXCEPT !.state = state] ELSE reads[q]
  BY Shape DEF Projection!Settled
<1>2. \A q \in Reads : /\ reads'[q].lease = reads[q].lease
                       /\ reads'[q].state = IF q \in qs THEN state ELSE reads[q].state
  BY <1>1, Shape
<1>3. Projection!Active' \subseteq Projection!Active /\ Known' = Known
  BY <1>2 DEF Projection!Active, Known
<1>4. IsFiniteSet(Projection!Active') /\ Cardinality(Projection!Active') <= ReadLimit
  BY <1>3, FewerActive
<1> QED BY <1>1, <1>2, <1>3, <1>4 DEF Known

\* The agent sends a request or a cancel.
LEMMA NoteSent ==
  ASSUME ReadInv, NEW kind \in {"request", "cancel"}, NEW q \in Known', Known \subseteq Known',
         toExt' = Append(toExt, Projection!Frame(kind, q)),
         UNCHANGED <<entry, queue, pc, posting, toAgent, held>>
  PROVE  /\ toAgent' \in Seq(GoodCalls') /\ toExt' \in Seq(GoodFrames') /\ Projection!Outstanding' <= CallLimit
         /\ OneTransfer' /\ TransferServed'
         /\ CallsMade' \subseteq CallsMade /\ AnswersMade' \subseteq AnswersMade
<1> DEFINE f == Projection!Frame(kind, q)
<1>1. toExt \in Seq(GoodFrames') /\ toAgent' \in Seq(GoodCalls')
  BY GoodStays, Shape
<1>2. f \in GoodFrames' /\ f.kind # "answer" /\ f \notin Replies
  BY DEF Projection!Frame, GoodFrames, Notes, Answer, Replies, Known
<1> HIDE DEF f
<1>3. toExt' = Append(toExt, f)
  BY DEF f
<1>4. /\ toExt' \in Seq(GoodFrames')
      /\ Projection!ToSet(toExt') = Projection!ToSet(toExt) \cup {f}
      /\ AtMostOne(toExt, Replies) => AtMostOne(toExt', Replies)
  BY <1>1, <1>2, <1>3, Appended
<1>5. Projection!Outstanding' <= CallLimit
  <2>1. Cardinality(AnswersIn(toExt')) = Cardinality(AnswersIn(toExt))
    BY <1>1, <1>2, <1>3, AnswersAppended
  <2> QED BY <2>1, OutstandingIs
<1>6. /\ OneTransfer' /\ TransferServed'
      /\ CallsMade' \subseteq CallsMade /\ AnswersMade' \subseteq AnswersMade
  <2>1. Projection!ToSet(toExt') \cap Replies \subseteq Projection!ToSet(toExt) \cap Replies
    BY <1>2, <1>4
  <2> QED BY <1>4, <2>1, QuietKeepsOne DEF Projection!Head1
<1> QED BY <1>1, <1>4, <1>5, <1>6

LEMMA AskKeeps ==
  ASSUME ReadInv, NEW q \in Reads, NEW l \in Leases, Projection!Ask(q, l)
  PROVE  ReadInv' /\ (Follows => Follows')
<1>1. /\ reads[q].state = "idle" /\ l \in offers /\ Projection!Cardinality(Projection!Active) < ReadLimit
      /\ reads' = [reads EXCEPT ![q] = [state |-> "active", lease |-> l]]
      /\ toExt' = Append(toExt, Projection!Frame("request", q))
      /\ UNCHANGED <<graph, alive, entry, aborted, queue, pc, look, checking, posting, offers, transfer, late,
                     toAgent, closed, held>>
  BY DEF Projection!Ask, Projection!ext, Projection!endpoint
<1>2. /\ reads' \in [Reads -> [state : {"idle", "active", "answered", "refused"}, lease : Leases \cup {Nil}]]
      /\ reads'[q] = [state |-> "active", lease |-> l] /\ \A r \in Reads \ {q} : reads'[r] = reads[r]
  BY <1>1, Shape
<1>3. Known' = Known \cup {q} /\ q \notin Known /\ Projection!Active' = Projection!Active \cup {q}
  BY <1>1, <1>2 DEF Known, Projection!Active
<1>4. IsFiniteSet(Projection!Active') /\ Cardinality(Projection!Active') <= ReadLimit
  <2> DEFINE old == Projection!Active
  <2>1. IsFiniteSet(old) /\ Cardinality(old) < ReadLimit
    BY <1>1, Counts DEF ReadInv
  <2> HIDE DEF old
  <2>2. Cardinality(old) \in Nat
    BY <2>1, FS_CardinalityType
  <2>3. /\ IsFiniteSet(old \cup {q})
        /\ Cardinality(old \cup {q}) = IF q \in old THEN Cardinality(old) ELSE Cardinality(old) + 1
    BY <2>1, FS_AddElement
  <2>4. Cardinality(old \cup {q}) <= ReadLimit
    BY <2>1, <2>2, <2>3, LimitsAreNatural
  <2> QED BY <1>3, <2>3, <2>4 DEF old
<1>5. /\ toAgent' \in Seq(GoodCalls') /\ toExt' \in Seq(GoodFrames') /\ Projection!Outstanding' <= CallLimit
      /\ OneTransfer' /\ TransferServed' /\ (Follows => Follows')
  BY <1>1, <1>3, NoteSent, QuietFollows DEF Projection!Head1
<1>6. Projection!AnsweredFresh' /\ TransferRead'
  BY <1>1, <1>2 DEF ReadInv, Projection!AnsweredFresh, TransferRead
<1>7. entry[l].state # "new"
  BY <1>1 DEF ReadInv, LeasesPublished
<1>8. \A r \in Known' \ Known : reads'[r].lease \in Leases /\ entry[reads'[r].lease].state # "new"
  BY <1>1, <1>2, <1>3, <1>7
<1>9. /\ late' \subseteq Reads /\ offers' \subseteq Leases /\ \A k \in offers' : entry[k].state # "new"
      /\ transfer' \in Reads \cup {Nil} /\ Known \subseteq Known'
      /\ \A r \in Known : reads'[r].lease = reads[r].lease
  BY <1>1, <1>2, <1>3 DEF ReadInv, LeasesPublished, Projection!TypeOK, Known
<1> QED BY <1>1, <1>2, <1>4, <1>5, <1>6, <1>8, <1>9, AgentKeeps

LEMMA StopKeeps ==
  ASSUME ReadInv, NEW q \in Reads, Projection!Stop(q)
  PROVE  ReadInv' /\ (Follows => Follows')
<1>1. /\ q \in Projection!Active /\ reads' = Projection!Settled({q}, "refused")
      /\ toExt' = Append(toExt, Projection!Frame("cancel", q))
      /\ UNCHANGED <<graph, alive, entry, aborted, queue, pc, look, checking, posting, offers, transfer, late,
                     toAgent, closed, held>>
  BY DEF Projection!Stop, Projection!ext, Projection!endpoint
<1>2. /\ reads' \in [Reads -> [state : {"idle", "active", "answered", "refused"}, lease : Leases \cup {Nil}]]
      /\ Known' = Known /\ \A r \in Known : reads'[r].lease = reads[r].lease
      /\ IsFiniteSet(Projection!Active') /\ Cardinality(Projection!Active') <= ReadLimit
      /\ \A r \in Reads : reads'[r].state = "answered" => reads[r].state = "answered"
  BY <1>1, SettledIs
<1>3. q \in Known'
  BY <1>1, <1>2 DEF Projection!Active, Known
<1>4. /\ toAgent' \in Seq(GoodCalls') /\ toExt' \in Seq(GoodFrames') /\ Projection!Outstanding' <= CallLimit
      /\ OneTransfer' /\ TransferServed' /\ (Follows => Follows')
  BY <1>1, <1>2, <1>3, NoteSent, QuietFollows DEF Projection!Head1
<1>5. Projection!AnsweredFresh' /\ TransferRead'
  BY <1>1, <1>2 DEF ReadInv, Projection!AnsweredFresh, TransferRead
<1>6. /\ late' \subseteq Reads /\ offers' \subseteq Leases /\ \A k \in offers' : entry[k].state # "new"
      /\ transfer' \in Reads \cup {Nil}
  BY <1>1 DEF ReadInv, LeasesPublished, Projection!TypeOK
<1> QED BY <1>1, <1>2, <1>4, <1>5, <1>6, AgentKeeps

\* A deadline passes, or the timer of the transfer fires.
LEMMA DeadlineKeeps ==
  ASSUME ReadInv, (\E q \in Reads : Projection!Expire(q)) \/ Projection!TransferTimer
  PROVE  ReadInv' /\ (Follows => Follows')
<1>1. /\ late' \subseteq Reads /\ transfer' \in Reads \cup {Nil}
      /\ late \subseteq late' /\ (transfer' = transfer \/ (transfer \in late /\ transfer' = Nil))
      /\ UNCHANGED <<graph, alive, entry, aborted, queue, pc, look, checking, posting, offers, reads, toAgent,
                     toExt, closed, held>>
  BY DEF Projection!Expire, Projection!TransferTimer, Projection!ext, Projection!endpoint, Projection!agent,
         ReadInv, Projection!TypeOK
<1>2. Known' = Known /\ Projection!Active' = Projection!Active /\ GoodCalls' = GoodCalls
  BY <1>1 DEF Known, Projection!Active, GoodCalls
<1>3. GoodFrames' = GoodFrames
  BY <1>2 DEF GoodFrames, Answer, Notes
<1>4. IsFiniteSet(Projection!Active') /\ Cardinality(Projection!Active') <= ReadLimit
  BY <1>2, FewerActive
<1>5. OneTransfer' /\ TransferServed' /\ Projection!AnsweredFresh' /\ TransferRead'
      /\ Projection!Outstanding' <= CallLimit
      /\ (Follows => Follows')
  <2>1. CallsMade' = CallsMade /\ AnswersMade' = AnswersMade
    BY <1>1 DEF CallsMade, AnswersMade
  <2>2. Follows => Follows'
    BY <1>1, <2>1, QuietFollows DEF Projection!Head1
  <2>3. TransferRead'
    BY <1>1 DEF ReadInv, TransferRead
  <2> QED BY <1>1, <2>1, <2>2, <2>3, OutstandingIs, Shape
       DEF OneTransfer, TransferServed, Served, Projection!Head1, ReadInv, Projection!AnsweredFresh
<1>6. offers' \subseteq Leases /\ \A k \in offers' : entry[k].state # "new"
  BY <1>1 DEF ReadInv, LeasesPublished, Projection!TypeOK
<1> QED BY <1>1, <1>2, <1>3, <1>4, <1>5, <1>6, AgentKeeps, Shape

\* The agent answers a call: the transfer that was a call is an answer.
LEMMA HandledIs ==
  ASSUME ReadInv, toAgent # <<>>, Projection!Handled(Head(toAgent)), Known' = Known
  PROVE  /\ Head(toAgent) \in GoodCalls
         /\ UNCHANGED <<graph, alive, entry, aborted, queue, pc, look, checking, posting, late, closed, held>>
         /\ toAgent' \in Seq(GoodCalls') /\ toExt' \in Seq(GoodFrames') /\ Projection!Outstanding' <= CallLimit
         /\ OneTransfer' /\ TransferServed'
         /\ Head(toAgent) \notin Transfers => CallsMade' \subseteq CallsMade /\ AnswersMade' \subseteq AnswersMade
         /\ Head(toAgent) \in Transfers =>
              Head(toAgent) \in CallsMade /\ CallsMade' = {} /\ \A g \in AnswersMade' : g.call = Head(toAgent)
<1> DEFINE c == Head(toAgent)
           f == Projection!Answered(c)
<1>1. /\ toAgent' = Tail(toAgent) /\ toExt' = Append(toExt, f)
      /\ UNCHANGED <<graph, alive, entry, aborted, queue, pc, look, checking, posting, late, closed, held>>
  BY DEF Projection!Handled, Projection!ext, Projection!endpoint
<1>2. /\ c \in GoodCalls /\ toAgent' \in Seq(GoodCalls) /\ Len(toAgent') = Len(toAgent) - 1
      /\ Projection!ToSet(toAgent) = {c} \cup Projection!ToSet(toAgent')
      /\ AtMostOne(toAgent, Transfers) => AtMostOne(toAgent', Transfers)
      /\ NoneOf(toAgent, Transfers) => NoneOf(toAgent', Transfers)
      /\ AtMostOne(toAgent, Transfers) /\ c \in Transfers => NoneOf(toAgent', Transfers)
  BY <1>1, Shape, TailIsTaken
<1>3. /\ f \in GoodFrames /\ f.call = c /\ (f \in Replies <=> c \in Transfers)
  BY <1>2 DEF Projection!Answered, GoodFrames, Answer, Replies, GoodCalls, Projection!Calls
<1> HIDE DEF f, c
<1>4. /\ toExt' \in Seq(GoodFrames)
      /\ Projection!ToSet(toExt') = Projection!ToSet(toExt) \cup {f}
      /\ f \notin Replies => /\ AtMostOne(toExt, Replies) => AtMostOne(toExt', Replies)
                             /\ NoneOf(toExt, Replies) => NoneOf(toExt', Replies)
      /\ NoneOf(toExt, Replies) => AtMostOne(toExt', Replies)
  BY <1>1, <1>3, Shape, Appended
<1>5. Projection!Outstanding' <= CallLimit
  <2>1. Cardinality(AnswersIn(toExt')) <= Cardinality(AnswersIn(toExt)) + 1
    BY <1>1, <1>3, Shape, AnswersAppended
  <2>2. Cardinality(AnswersIn(toExt')) \in Nat
    BY <1>4, AnswersFinite
  <2> QED BY <1>2, <2>1, <2>2, OutstandingIs
<1>6. OneTransfer'
  <2>1. CASE c \in Transfers
    <3>1. ~NoneOf(toAgent, Transfers)
      BY <1>2, <2>1 DEF NoneOf
    <3> QED BY <1>1, <1>2, <1>4, <2>1, <3>1, Shape DEF OneTransfer
  <2>2. CASE c \notin Transfers
    BY <1>1, <1>2, <1>3, <1>4, <2>2, Shape DEF OneTransfer
  <2> QED BY <2>1, <2>2
<1>7. TransferServed'
  <2>1. CallsMade' \subseteq CallsMade
    BY <1>1, <1>2 DEF CallsMade
  <2>2. \A g \in AnswersMade' : g \in AnswersMade \/ (g = f /\ c \in CallsMade)
    BY <1>2, <1>3, <1>4 DEF CallsMade, AnswersMade
  <2>3. \A d : Served(d)' = Served(d)
    BY <1>1 DEF Served, Projection!Head1
  <2> QED BY <1>3, <2>1, <2>2, <2>3, Shape DEF TransferServed
<1>8. GoodCalls' = GoodCalls /\ GoodFrames' = GoodFrames
  BY <1>1 DEF GoodCalls, GoodFrames, Answer, Notes
<1>9. c \notin Transfers => CallsMade' \subseteq CallsMade /\ AnswersMade' \subseteq AnswersMade
  BY <1>1, <1>2, <1>3, <1>4 DEF CallsMade, AnswersMade
<1>10. ASSUME c \in Transfers
       PROVE  c \in CallsMade /\ CallsMade' = {} /\ \A g \in AnswersMade' : g.call = c
  <2>1. c \in CallsMade
    BY <1>2, <1>10 DEF CallsMade
  <2>2. Clear(posting) /\ NoneOf(toExt, Replies) /\ NoneOf(toAgent', Transfers)
    <3>1. ~NoneOf(toAgent, Transfers)
      BY <1>2, <1>10 DEF NoneOf
    <3> QED BY <1>2, <1>10, <3>1, Shape DEF OneTransfer
  <2>3. CallsMade' = {} /\ AnswersMade' \subseteq {f}
    BY <1>1, <1>4, <2>2 DEF CallsMade, AnswersMade, NoneOf, Clear
  <2> QED BY <1>3, <2>1, <2>3
<1> QED BY <1>1, <1>2, <1>4, <1>5, <1>6, <1>7, <1>8, <1>9, <1>10 DEF c

LEMMA HandleKeeps ==
  ASSUME ReadInv, Projection!Handle
  PROVE  ReadInv' /\ (Follows => Follows')
<1> DEFINE c == Head(toAgent)
<1>1. toAgent # <<>>
  BY DEF Projection!Handle
<1>2. /\ Projection!Close("late") => ReadInv' /\ Follows'
      /\ Projection!Close("order") => ReadInv'
  BY CloseKeeps
<1>3. ASSUME Projection!Handled(c), transfer' \in Reads \cup {Nil},
             offers' \subseteq offers \cup {c.lease}, c.kind # "offer" => offers' \subseteq offers,
             NEW qs \in SUBSET Projection!Active, NEW state \in {"refused", "answered"},
             reads' = Projection!Settled(qs, state) \/ reads' = reads,
             state = "answered" => \A r \in qs : <<r, "sent">> \in held,
             c.kind = "open" => transfer' = c.read, c.kind \in {"chunk", "ack"} => transfer' = c.read /\ transfer = c.read,
             c.kind \in {"complete", "cancelTransfer"} => transfer' = Nil,
             c.kind \in {"offer", "revoke", "reject"} => transfer' = transfer
      PROVE  ReadInv' /\ (Follows => Follows')
  <2>1. /\ reads' \in [Reads -> [state : {"idle", "active", "answered", "refused"}, lease : Leases \cup {Nil}]]
        /\ Known' = Known /\ \A r \in Known : reads'[r].lease = reads[r].lease
        /\ IsFiniteSet(Projection!Active') /\ Cardinality(Projection!Active') <= ReadLimit
        /\ \A r \in Reads : reads'[r].state = "answered" =>
             reads[r].state = "answered" \/ (r \in qs /\ state = "answered")
    <3>1. CASE reads' = Projection!Settled(qs, state)
      BY <3>1, SettledIs
    <3>2. CASE reads' = reads
      <4>1. Known' = Known /\ Projection!Active' = Projection!Active
        BY <3>2 DEF Known, Projection!Active
      <4> QED BY <3>2, <4>1, FewerActive, Shape
    <3> QED BY <1>3, <3>1, <3>2
  <2>2. /\ c \in GoodCalls
        /\ UNCHANGED <<graph, alive, entry, aborted, queue, pc, look, checking, posting, late, closed, held>>
        /\ toAgent' \in Seq(GoodCalls') /\ toExt' \in Seq(GoodFrames') /\ Projection!Outstanding' <= CallLimit
        /\ OneTransfer' /\ TransferServed'
        /\ c \notin Transfers => CallsMade' \subseteq CallsMade /\ AnswersMade' \subseteq AnswersMade
        /\ c \in Transfers => c \in CallsMade /\ CallsMade' = {} /\ \A g \in AnswersMade' : g.call = c
    BY <1>1, <1>3, <2>1, HandledIs
  <2> HIDE DEF c
  <2>3. offers' \subseteq Leases /\ \A l \in offers' : entry[l].state # "new"
    BY <1>3, <2>2 DEF ReadInv, LeasesPublished, Projection!TypeOK, GoodCalls, Projection!Calls
  <2>4. Projection!AnsweredFresh' /\ TransferRead'
    <3>1. Projection!AnsweredFresh'
      BY <1>3, <2>1, <2>2 DEF ReadInv, Projection!AnsweredFresh
    <3>2. c.kind = "open" => <<c.read, "read">> \in held
      BY <2>2 DEF GoodCalls
    <3>3. c.kind \in Projection!Kinds
      BY <2>2 DEF GoodCalls, Projection!Calls
    <3>4. transfer' # Nil => transfer' = transfer \/ (c.kind = "open" /\ transfer' = c.read)
      BY <1>3, <3>3 DEF Projection!Kinds
    <3> QED BY <2>2, <3>1, <3>2, <3>4 DEF ReadInv, TransferRead
  <2>5. late' \subseteq Reads
    BY <2>2 DEF ReadInv, Projection!TypeOK
  <2>6. Follows => Follows'
    <3> SUFFICES ASSUME Follows PROVE Follows'
      OBVIOUS
    <3>1. CASE c \in Transfers
      <4>1. Served(c) /\ (c.kind = "reject" => transfer = Nil) /\ c.kind \in ForRead
        BY <2>2, <3>1, Shape DEF Follows, TransferFollows, TransferServed, Transfers
      <4>2. c.kind \notin {"open", "chunk", "ack"} => transfer' = Nil
        BY <1>3, <4>1 DEF ForRead
      <4>3. \A g \in AnswersMade' :
              IF g.call.kind \in {"open", "chunk", "ack"} THEN Under(g.call.read)' ELSE transfer' = Nil
        BY <1>3, <2>2, <3>1, <4>2 DEF Under
      <4>4. pc' \in NoCall \cup {"rejecting"} => c.kind = "reject"
        <5>1. pc' = StepOf[c.kind] /\ c.kind \in ForRead
          BY <2>2, <4>1 DEF Served
        <5> QED BY <5>1 DEF StepOf, ForRead, NoCall, Looking
      <4>5. pc' # "rechecking"
        <5>1. pc' = StepOf[c.kind] /\ c.kind \in ForRead
          BY <2>2, <4>1 DEF Served
        <5> QED BY <5>1 DEF StepOf, ForRead
      <4> QED BY <2>2, <3>1, <4>2, <4>3, <4>4, <4>5 DEF Follows, TransferFollows
    <3>2. CASE c \notin Transfers
      <4>1. transfer' = transfer
        BY <1>3, <2>2, <3>2, TransferIs DEF GoodCalls, Projection!Calls, Projection!Kinds, ForRead
      <4> QED BY <2>2, <3>2, <4>1, QuietFollows DEF Projection!Head1
    <3> QED BY <3>1, <3>2
  <2> QED BY <1>3, <2>1, <2>2, <2>3, <2>4, <2>5, <2>6, AgentKeeps
<1>4. c \in GoodCalls /\ c.read \in Reads \cup {Nil} /\ transfer \in Reads \cup {Nil}
      /\ {} \in SUBSET Projection!Active /\ (c.kind = "complete" => <<c.read, "sent">> \in held)
  <2>1. c \in GoodCalls
    BY <1>1, Shape, TailIsTaken
  <2> HIDE DEF c
  <2> QED BY <2>1 DEF GoodCalls, Projection!Calls, ReadInv, Projection!TypeOK
<1>5. Nil \in Reads \cup {Nil}
  OBVIOUS
<1>6. CASE Projection!HandleLease(c)
  <2>1. CASE c.kind = "offer"
    <3>1. Projection!Handled(c) /\ offers' = offers \cup {c.lease} /\ UNCHANGED <<reads, transfer>>
      BY <1>6, <2>1 DEF Projection!HandleLease
    <3> QED BY <1>3, <1>4, <2>1, <3>1
  <2>2. CASE c.kind = "revoke"
    <3>1. /\ Projection!Handled(c) /\ offers' = offers \ {c.lease} /\ UNCHANGED transfer
          /\ reads' = Projection!Settled({q \in Projection!Active : Projection!LeaseOf(q) = c.lease}, "refused")
      BY <1>6, <2>2 DEF Projection!HandleLease
    <3> DEFINE qs == {q \in Projection!Active : Projection!LeaseOf(q) = c.lease}
    <3>2. qs \in SUBSET Projection!Active /\ offers' \subseteq offers
      BY <3>1
    <3> HIDE DEF qs
    <3>3. reads' = Projection!Settled(qs, "refused")
      BY <3>1 DEF qs
    <3> QED BY <1>3, <1>4, <2>2, <3>1, <3>2, <3>3
  <2>3. CASE c.kind = "reject"
    <3>1. /\ Projection!Handled(c) /\ UNCHANGED <<offers, transfer>>
          /\ reads' = Projection!Settled(Projection!Active \cap {c.read}, "refused")
      BY <1>6, <2>3 DEF Projection!HandleLease
    <3> DEFINE qs == Projection!Active \cap {c.read}
    <3>2. qs \in SUBSET Projection!Active
      OBVIOUS
    <3> HIDE DEF qs
    <3>3. reads' = Projection!Settled(qs, "refused")
      BY <3>1 DEF qs
    <3> QED BY <1>3, <1>4, <2>3, <3>1, <3>2, <3>3
  <2> QED BY <1>6, <2>1, <2>2, <2>3 DEF Projection!HandleLease
<1>7. CASE Projection!HandleTransfer(c)
  <2>1. \/ /\ Projection!Handled(c) /\ UNCHANGED <<offers, reads>>
           /\ \/ c.kind = "open" /\ transfer' = c.read
              \/ c.kind \in {"chunk", "ack"} /\ transfer' = c.read /\ transfer = c.read
              \/ c.kind = "cancelTransfer" /\ transfer' = Nil
        \/ /\ Projection!Handled(c) /\ UNCHANGED offers /\ transfer' = Nil /\ reads' = Projection!Complete(c.read)
           /\ c.kind = "complete"
        \/ Projection!Close("late")
        \/ /\ Projection!Close("order") /\ c.read \notin late
           /\ c.kind \in {"open", "chunk", "ack", "complete", "cancelTransfer"}
           /\ IF c.kind = "open" THEN transfer # Nil ELSE transfer # c.read
    BY <1>7 DEF Projection!HandleTransfer, Projection!Refuse, Projection!agent
  <2>2. CASE /\ Projection!Handled(c) /\ UNCHANGED <<offers, reads>>
             /\ \/ c.kind = "open" /\ transfer' = c.read
                \/ c.kind \in {"chunk", "ack"} /\ transfer' = c.read /\ transfer = c.read
                \/ c.kind = "cancelTransfer" /\ transfer' = Nil
    BY <1>3, <1>4, <2>2
  <2>3. CASE /\ Projection!Handled(c) /\ UNCHANGED offers /\ transfer' = Nil /\ reads' = Projection!Complete(c.read)
             /\ c.kind = "complete"
    <3> DEFINE qs == Projection!Active \cap {c.read}
    <3>1. reads' = reads \/ reads' = Projection!Settled(qs, "refused") \/ reads' = Projection!Settled(qs, "answered")
      <4>1. c.read \in Projection!Active => qs = {c.read}
        OBVIOUS
      <4> QED BY <2>3, <4>1 DEF Projection!Complete
    <3>2. qs \in SUBSET Projection!Active /\ \A r \in qs : <<r, "sent">> \in held
      BY <1>4, <2>3
    <3> HIDE DEF qs
    <3> QED BY <1>3, <1>4, <1>5, <2>3, <3>1, <3>2
  <2>4. CASE /\ Projection!Close("order") /\ c.read \notin late
             /\ c.kind \in {"open", "chunk", "ack", "complete", "cancelTransfer"}
             /\ IF c.kind = "open" THEN transfer # Nil ELSE transfer # c.read
    <3>1. c \in CallsMade
      <4>1. c \in Projection!ToSet(toAgent)
        BY <1>1, Shape, TailIsTaken
      <4> HIDE DEF c
      <4> QED BY <1>4, <2>4, <4>1, TransferIs DEF CallsMade, ForRead
    <3> HIDE DEF c
    <3>2. ~Follows
      BY <2>4, <3>1 DEF Follows, TransferFollows, Under
    <3> QED BY <1>2, <2>4, <3>2
  <2> QED BY <1>2, <2>1, <2>2, <2>3, <2>4
<1> HIDE DEF c
<1> QED BY <1>6, <1>7 DEF Projection!Handle, c

LEMMA ReadStutters ==
  ASSUME ReadInv, UNCHANGED Projection!vars
  PROVE  ReadInv' /\ (Follows => Follows')
<1>1. UNCHANGED <<graph, alive, entry, offers, reads, late, aborted, queue, pc, look, checking, posting, toAgent,
                  toExt, transfer, closed, held>>
  BY DEF Projection!vars
<1>2. IsFiniteSet(Projection!Active') /\ Cardinality(Projection!Active') <= ReadLimit
  <2>1. Projection!Active' = Projection!Active
    BY <1>1 DEF Projection!Active
  <2> QED BY <2>1, FewerActive
<1>3. Known' = Known /\ GoodCalls' = GoodCalls /\ Projection!Outstanding' <= CallLimit
  BY <1>1, OutstandingIs DEF Known, GoodCalls
<1>4. GoodFrames' = GoodFrames /\ CallsMade' = CallsMade /\ AnswersMade' = AnswersMade
  BY <1>1, <1>3 DEF GoodFrames, Answer, Notes, CallsMade, AnswersMade
<1>5. OneTransfer' /\ TransferServed' /\ Projection!AnsweredFresh' /\ TransferRead' /\ (Follows => Follows')
  <2>1. Follows => Follows'
    BY <1>1, <1>4, QuietFollows DEF Projection!Head1
  <2> QED BY <1>1, <1>4, <2>1, Shape
       DEF OneTransfer, TransferServed, Served, Projection!Head1, ReadInv, Projection!AnsweredFresh, TransferRead
<1>6. /\ offers' \subseteq Leases /\ \A k \in offers' : entry[k].state # "new"
      /\ late' \subseteq Reads /\ transfer' \in Reads \cup {Nil}
  BY <1>1 DEF ReadInv, LeasesPublished, Projection!TypeOK
<1> QED BY <1>1, <1>2, <1>3, <1>4, <1>5, <1>6, AgentKeeps, Shape

\* No step of the extension or of the agent breaks the invariant of the reads, and only a
\* cancel that finds no room parts the transfer of the agent from the calls of the endpoint.
LEMMA ReadStepKeeps ==
  ASSUME ReadInv, Projection!Next
  PROVE  ReadInv' /\ (Follows => Follows' \/ LeftOpen')
<1>1. ASSUME NEW l \in Leases,
             Projection!Publish(l) \/ Projection!PublishChecked(l) \/ Projection!Abort(l) \/ Projection!Navigate(l)
      PROVE  ReadInv' /\ (Follows => Follows')
  BY <1>1, PublishKeeps, PublishChecks, LeaseEnds
<1>2. CASE Projection!Commit
  BY <1>2, GraphMoves
<1>3. ASSUME NEW c \in posting, Projection!Post(c) \/ Projection!PostFails(c)
      PROVE  ReadInv' /\ (Follows => Follows' \/ LeftOpen')
  BY <1>3, PostKeeps, PostFailsKeeps
<1>4. CASE Projection!TakeRequest \/ Projection!TakeCancel \/ Projection!TakeAnswer
  BY <1>4, TakeRequestKeeps, TakeCancelKeeps, TakeAnswerKeeps
<1>5. CASE Projection!Start \/ Projection!ReadBefore \/ Projection!ReadAfter \/ Projection!Race
  BY <1>5, ServeKeeps
<1>6. CASE Projection!ValidateBegins \/ Projection!CatalogRead
  BY <1>6, ValidateKeeps
<1>7. CASE Projection!Projected \/ Projection!Checked \/ Projection!Rechecked
  BY <1>7, ValidatedKeeps
<1>8. ASSUME NEW q \in Reads, NEW l \in Leases, Projection!Ask(q, l)
      PROVE  ReadInv' /\ (Follows => Follows')
  BY <1>8, AskKeeps
<1>9. ASSUME NEW q \in Reads, Projection!Cancel(q) \/ Projection!Timer(q) \/ Projection!Expire(q)
      PROVE  ReadInv' /\ (Follows => Follows')
  BY <1>9, StopKeeps, DeadlineKeeps DEF Projection!Cancel, Projection!Timer
<1>10. CASE Projection!TransferTimer \/ Projection!Handle
  BY <1>10, DeadlineKeeps, HandleKeeps
<1> QED BY <1>1, <1>2, <1>3, <1>4, <1>5, <1>6, <1>7, <1>8, <1>9, <1>10 DEF Projection!Next

\* The stages that a read has passed are never forgotten.
LEMMA HeldGrows == ReadInv /\ Projection!Next => held \subseteq held'
<1> SUFFICES ASSUME ReadInv, Projection!Next PROVE held \subseteq held'
  OBVIOUS
<1>1. \A q, stage : held \subseteq Projection!Holds(q, stage)
  BY DEF Projection!Holds
<1>2. CASE Projection!TakeAnswer
  <2>1. CASE UNCHANGED held
    BY <2>1
  <2>2. CASE \E q : Projection!AfterAck(q)
    BY <1>1, <2>2 DEF Projection!AfterAck
  <2> QED BY <1>2, <2>1, <2>2
       DEF Projection!TakeAnswer, Projection!AfterOpen, Projection!AfterChunk, Projection!AfterCancel,
           Projection!AfterOffer
<1>3. ASSUME NEW c \in posting, Projection!PostFails(c) PROVE held \subseteq held'
  BY <1>3 DEF Projection!PostFails, Projection!Close
<1>4. CASE Projection!Handle
  BY <1>4 DEF Projection!Handle, Projection!HandleLease, Projection!HandleTransfer, Projection!Handled,
              Projection!Refuse, Projection!Close
<1>5. CASE Projection!TakeRequest
  BY <1>5 DEF Projection!TakeRequest, Projection!Close
<1>6. CASE Projection!Projected
  BY <1>1, <1>6 DEF Projection!Projected
<1>7. CASE \/ \E l \in Leases : Projection!Publish(l) \/ Projection!PublishChecked(l) \/ Projection!Abort(l)
                                  \/ Projection!Navigate(l)
           \/ Projection!Commit \/ (\E c \in posting : Projection!Post(c))
           \/ Projection!TakeCancel \/ Projection!Start \/ Projection!ReadBefore \/ Projection!ReadAfter
           \/ Projection!Race \/ Projection!ValidateBegins \/ Projection!CatalogRead
           \/ Projection!Checked \/ Projection!Rechecked \/ Projection!TransferTimer
           \/ (\E q \in Reads, l \in Leases : Projection!Ask(q, l))
           \/ (\E q \in Reads : Projection!Cancel(q) \/ Projection!Timer(q) \/ Projection!Expire(q))
  BY <1>7
     DEF Projection!Publish, Projection!PublishChecked, Projection!Abort, Projection!Navigate, Projection!Commit,
         Projection!Post, Projection!TakeCancel, Projection!Start, Projection!ReadBefore, Projection!ReadAfter,
         Projection!Race, Projection!ValidateBegins, Projection!CatalogRead, Projection!Checked,
         Projection!Rechecked, Projection!TransferTimer, Projection!Ask, Projection!Cancel, Projection!Timer,
         Projection!Stop, Projection!Expire
<1> QED BY <1>2, <1>3, <1>4, <1>5, <1>6, <1>7 DEF Projection!Next

\* The inductive invariant of the reads.
InOrder == ReadInv /\ (Follows \/ LeftOpen)

LEMMA InOrderKeeps ==
  ASSUME InOrder, [Projection!Next]_(Projection!vars)
  PROVE  InOrder'
<1>1. CASE UNCHANGED Projection!vars
  <2>1. LeftOpen' = LeftOpen
    BY <1>1 DEF LeftOpen, Projection!vars
  <2> QED BY <1>1, <2>1, ReadStutters DEF InOrder
<1>2. CASE Projection!Next
  <2>1. LeftOpen => LeftOpen'
    BY <1>2, HeldGrows DEF InOrder, LeftOpen
  <2> QED BY <1>2, <2>1, ReadStepKeeps DEF InOrder
<1> QED BY <1>1, <1>2

\* Two transfers never overlap at the agent, unless the call that would have cancelled the
\* first one found no room on the bridge (codebase-transfer.ts ignores that it failed).
THEOREM TransfersStayInOrder == Projection!Spec => [](Projection!TypeOK /\ Projection!TransfersInOrder)
<1>1. Projection!Init => InOrder
  BY ReadInitKeeps DEF InOrder
<1>2. InOrder /\ [Projection!Next]_(Projection!vars) => InOrder'
  BY InOrderKeeps
<1>3. InOrder => Projection!TypeOK /\ Projection!TransfersInOrder
  BY DEF InOrder, ReadInv, Follows, LeftOpen, Projection!TransfersInOrder
<1> QED BY <1>1, <1>2, <1>3, PTL DEF Projection!Spec

\* No read is answered whose lease had ended, whose document had left or whose graph had
\* changed before its last chunk was acknowledged, and nothing is sent of one that had
\* changed when its projection was hashed (the validations of projection-registry.ts and
\* codebase-transfer.ts), in any order of calls, answers, digests, deadlines and catalogs.
THEOREM AnswersAreFresh == Projection!Spec => []AnsweredFresh
<1>1. Projection!Init => InOrder
  BY ReadInitKeeps DEF InOrder
<1>2. InOrder /\ [Projection!Next]_(Projection!vars) => InOrder'
  BY InOrderKeeps
<1>3. InOrder => Projection!TypeOK /\ Projection!AnsweredFresh /\ Projection!TransfersInOrder
  BY DEF InOrder, ReadInv, Follows, LeftOpen, Projection!TransfersInOrder
<1>4. InOrder => Projection!OpenedFresh
  <2> SUFFICES ASSUME ReadInv PROVE Projection!OpenedFresh
    BY DEF InOrder
  <2>1. ASSUME NEW c \in posting \cup Projection!ToSet(toAgent), c.kind \in {"open", "chunk"}
        PROVE  <<c.read, "read">> \in held
    <3>1. Projection!ToSet(toAgent) \subseteq GoodCalls
      BY Shape, LenProperties, ElementOfSeq DEF Projection!ToSet
    <3>2. c \in GoodCalls
      BY <3>1, Shape
    <3> QED BY <2>1, <3>2 DEF GoodCalls
  <2> QED BY <2>1 DEF Projection!OpenedFresh, ReadInv, TransferRead
<1>5. InOrder => AnsweredFresh
  BY <1>3, <1>4 DEF AnsweredFresh
<1> QED BY <1>1, <1>2, <1>5, PTL DEF Projection!Spec

\* What the run checks are such behaviours, of which it takes those in its bounds.
THEOREM RunReads == FairBoth => Projection!Spec
<1>1. BothInit => Projection!Init
  BY DEF BothInit
<1>2. [BothNext]_all => [Projection!Next]_(Projection!vars)
  BY DEF BothNext, all, readVars, Projection!vars
<1> QED BY <1>1, <1>2, PTL DEF FairBoth, Projection!Spec
=============================================================================
