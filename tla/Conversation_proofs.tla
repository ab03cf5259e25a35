------------------------- MODULE Conversation_proofs -------------------------
(***************************************************************************)
(* Theorems about the conversation of a tab, composed in MCConversation:   *)
(* the thread of events (ChatThread), the panel's request client           *)
(* (PanelRequest) and the proposed actions (MutationRun), for any number   *)
(* of runs, requests, proposals and messages and every bound.              *)
(*                                                                         *)
(* The thread: all the events there are, in the store, in session storage  *)
(* and on the wire, are of one thread and born in the order they are       *)
(* numbered (AroundOK, Lineage), the panel would take only what was born   *)
(* after all it has taken (OfferedOK), and while the worker lives, what a  *)
(* message reads again has no hole above what the panel has seen           *)
(* (PassedOK, WireWhole). A conversation is thrown away by one erasing     *)
(* write and one message, and nothing of it follows them (ClearOK).        *)
(***************************************************************************)
EXTENDS MCConversation, SequenceTheorems, WellFoundedInduction, NaturalsInduction,
        FiniteSetTheorems, TLAPS

-----------------------------------------------------------------------------
(* The invariant of the thread, its store and its panel.                   *)

\* What there is: events, the store, writes, messages, the panel, the history.
Events == [thread : Nat, seq : Nat, run : Runs \cup {None}, type : Types, n : Nat]
Chats == [thread : Nat, next : Nat, events : Seq(Events), bound : SUBSET Runs, finished : SUBSET Runs]
Jobs == [job : {"snapshot"}] \cup [job : {"clear"}, upto : Nat]
Messages == [kind : {"live"}, event : Events] \cup [kind : {"recovered", "resynced"}, events : Seq(Events)]
            \cup [kind : {"cleared"}]
Calls == [run : Runs \cup {None}, after : Nat]
Panels == [port : {"none", "binding", "bound"}, seen : [Threads -> Nat], active : Runs \cup {None},
           ended : SUBSET (Runs \cup {None}), offered : Seq(Nat), hidden : SUBSET (Runs \cup {None}),
           recovery : {"idle", "asked", "answered"}, resync : Calls \cup {None},
           waiting : Runs \cup {None}, busy : BOOLEAN, clearing : BOOLEAN]
Pasts == [born : Nat, given : [Threads -> Seq(Nat)], threads : Nat, cleared : Nat, clears : Nat,
          restarts : Nat, panels : Nat]

Increasing(s) == \A i, j \in DOMAIN s : i < j => s[i].seq < s[j].seq
Rising(s) == \A i, j \in DOMAIN s : i < j => s[i] < s[j]

\* The events of a message, of the stored chat, and all there are.
Carried(m) == IF m.kind = "live" THEN {m.event}
              ELSE IF m.kind \in {"recovered", "resynced"} THEN ToSet(m.events) ELSE {}
OnWire(w) == UNION {Carried(w[i]) : i \in DOMAIN w}
Stored(s) == IF s = None THEN {} ELSE ToSet(s.events)
Around(c, s, w) == ToSet(c.events) \cup Stored(s) \cup OnWire(w)

\* The store: its events are of its thread, numbered below the next, and its approval
\* events of runs it knows.
ChatOK(c, born, threads) ==
  /\ c \in Chats /\ c.finished \subseteq c.bound
  /\ Increasing(c.events)
  /\ \A e \in ToSet(c.events) : /\ e.thread = c.thread /\ e.seq < c.next
                                /\ e.type = "ask" => e.run \in c.bound
  /\ c.thread = 0 => c.events = <<>> /\ c.bound = {}
  /\ c.next >= 1 /\ c.next <= born + 1 /\ c.thread <= threads

\* The events that exist anywhere are of one thread, and born in the order they are numbered.
AroundOK(A, born, threads) ==
  /\ \A a \in A : /\ a \in Events /\ a.thread >= 1 /\ a.thread <= threads
                  /\ a.seq >= 1 /\ a.seq <= a.n /\ a.n <= born
  /\ \A a, b \in A : /\ a.thread = b.thread
                     /\ a.seq < b.seq => a.n < b.n
                     /\ a.seq = b.seq => a = b

\* They are of the thread of the store, unless a conversation is being thrown away.
Lineage(c, A, p) ==
  /\ c.thread # 0 => \A a \in A : a.thread = c.thread /\ a.seq < c.next
  /\ c.thread = 0 /\ ~p.clearing => A = {} /\ p.resync = None

\* What the panel took rises, and all that it would still take was born later.
OfferedOK(p, A, born) ==
  /\ Rising(p.offered) /\ \A i \in DOMAIN p.offered : p.offered[i] <= born
  /\ \A a \in A : a.seq > p.seen[a.thread] => \A i \in DOMAIN p.offered : p.offered[i] < a.n

\* While the worker lives, the panel is not ahead of it, and took what it has passed.
PassedOK(c, p, h) ==
  /\ c.thread # 0 => p.seen[c.thread] < c.next
  /\ \A t \in Threads : t > h.threads => p.seen[t] = 0
  /\ \A e \in ToSet(c.events) :
       Persistent(e) /\ e.seq <= p.seen[e.thread] => e.n \in ToSet(p.offered)

\* A message that reads the thread has no hole above what the panel has seen.
Holeless(c, s, p) ==
  \A f \in ToSet(s), e \in ToSet(c.events) :
    Persistent(e) /\ e.seq < f.seq => e \in ToSet(s) \/ e.seq <= p.seen[e.thread]

Reads(m) == m.kind \in {"recovered", "resynced"}
WireOK(w) == w \in Seq(Messages) /\ \A i \in DOMAIN w : Reads(w[i]) => Increasing(w[i].events)
WireWhole(c, w, p) ==
  /\ \A i \in DOMAIN w : Reads(w[i]) => Holeless(c, w[i].events, p)
  /\ p.resync # None /\ c.thread # 0 => p.resync.after <= p.seen[c.thread]

\* The stored chat.
StoredOK(s, threads) ==
  s # None =>
    /\ s \in [thread : Nat, events : Seq(Events)] /\ s.thread <= threads
    /\ Increasing(s.events)
    /\ \A e \in ToSet(s.events) : e.thread = s.thread /\ Persistent(e) /\ s.thread # 0

DiskOK(d) == /\ DOMAIN d = {"saved", "timer", "queue"} /\ d.timer \in BOOLEAN /\ d.queue \in Seq(Jobs)

\* A conversation is thrown away by one erasing write, then one message; what follows the
\* message carries no event, and what is kept was born after it.
Erases(q) == {i \in DOMAIN q : q[i].job = "clear"}
Tells(w) == {i \in DOMAIN w : w[i].kind = "cleared"}
ClearOK(c, g, d, w, p, h) ==
  /\ p.clearing => c = Fresh /\ \A r \in Runs : g[r] \in {"new", "over"}
  /\ \A i, j \in Erases(d.queue) : i = j
  /\ Erases(d.queue) # {} => p.clearing /\ Tells(w) = {}
  /\ \A i \in Tells(w) : /\ p.clearing /\ Stored(d.saved) = {}
                         /\ \A j \in DOMAIN w : j > i => Carried(w[j]) = {} /\ j \notin Tells(w)
  /\ \A i \in Erases(d.queue) : d.queue[i].upto <= h.born
  /\ h.cleared <= h.born
  /\ \A e \in ToSet(c.events) \cup Stored(d.saved) : e.n > h.cleared

Over(g) == {r \in Runs : g[r] = "over"}
PastOK(c, g, h) ==
  /\ h \in Pasts
  /\ h.clears <= MaxClears /\ h.restarts <= MaxRestarts
  /\ h.threads + (IF c.thread = 0 THEN 1 ELSE 0) <= h.clears + h.restarts + 1
  /\ h.born <= MaxEvents + Cardinality(Over(g))

Inv(c, g, d, w, p, h) ==
  /\ ChatOK(c, h.born, h.threads) /\ g \in [Runs -> {"new", "asked", "live", "over"}]
  /\ AroundOK(Around(c, d.saved, w), h.born, h.threads)
  /\ Lineage(c, Around(c, d.saved, w), p)
  /\ p \in Panels /\ OfferedOK(p, Around(c, d.saved, w), h.born)
  /\ h.restarts = 0 => PassedOK(c, p, h) /\ WireWhole(c, w, p)
  /\ WireOK(w) /\ StoredOK(d.saved, h.threads) /\ DiskOK(d)
  /\ ClearOK(c, g, d, w, p, h) /\ PastOK(c, g, h)

ThreadInv == Inv(chat, run, disk, wire, panel, past)

-----------------------------------------------------------------------------
(* Sequences.                                                              *)

LEMMA Least ==
  ASSUME NEW S, S \subseteq Nat, S # {} PROVE \E n \in S : \A m \in S : n <= m
<1> DEFINE less == OpToRel(<, Nat)
<1>1. \A i, j \in Nat : <<j, i>> \in less <=> j < i
  BY DEF OpToRel
<1> HIDE DEF less
<1>2. \E i \in S : \A j \in S : <<j, i>> \notin less
  BY NatLessThanWellFounded, WFMin DEF less
<1>3. PICK n \in S : \A j \in S : <<j, n>> \notin less
  BY <1>2
<1>4. ASSUME NEW m \in S PROVE n <= m
  <2>1. n \in Nat /\ m \in Nat /\ ~(m < n)
    BY <1>1, <1>3, Zenon
  <2> QED BY <2>1
<1> QED BY <1>4

IsKept(f, s, S, k) ==
  f = [i \in 0 .. k |-> IF i = 0 THEN <<>>
                        ELSE IF s[i] \in S THEN Append(f[i - 1], s[i]) ELSE f[i - 1]]

\* The recursion of Within is defined for every sequence.
LEMMA KeptExists ==
  ASSUME NEW s, NEW S, NEW n \in Nat PROVE \E f : IsKept(f, s, S, n)
<1> DEFINE bad == {k \in Nat : ~\E f : IsKept(f, s, S, k)}
<1> SUFFICES ASSUME bad # {} PROVE FALSE
  OBVIOUS
<1>1. PICK k \in bad : \A m \in bad : k <= m
  <2>1. bad \subseteq Nat
    OBVIOUS
  <2> HIDE DEF bad
  <2> QED BY <2>1, Least
<1>2. k # 0
  <2> DEFINE f == [i \in 0 .. 0 |-> <<>>]
  <2>1. IsKept(f, s, S, 0)
    BY DEF IsKept
  <2> QED BY <2>1
<1>3. PICK f : IsKept(f, s, S, k - 1)
  BY <1>1, <1>2
<1> DEFINE g == [i \in 0 .. k |->
                  IF i = k THEN IF s[k] \in S THEN Append(f[k - 1], s[k]) ELSE f[k - 1]
                  ELSE f[i]]
<1>4. IsKept(g, s, S, k)
  <2>1. k \in Nat \ {0} /\ k - 1 \in 0 .. k - 1 /\ k - 1 # k
    BY <1>2
  <2>2. g[k - 1] = f[k - 1]
    BY <2>1
  <2>3. ASSUME NEW i \in 0 .. k
        PROVE  g[i] = IF i = 0 THEN <<>>
                      ELSE IF s[i] \in S THEN Append(g[i - 1], s[i]) ELSE g[i - 1]
    <3>1. CASE i = k
      BY <2>1, <2>2, <3>1
    <3>2. CASE i # k
      <4>1. i \in 0 .. k - 1 /\ g[i] = f[i]
        BY <2>1, <3>2
      <4>2. i # 0 => g[i - 1] = f[i - 1]
        BY <2>1, <3>2
      <4>3. f[i] = IF i = 0 THEN <<>>
                   ELSE IF s[i] \in S THEN Append(f[i - 1], s[i]) ELSE f[i - 1]
        BY <1>3, <4>1 DEF IsKept
      <4> QED BY <4>1, <4>2, <4>3
    <3> QED BY <3>1, <3>2
  <2> HIDE DEF g
  <2>4. g = [i \in 0 .. k |-> g[i]]
    BY DEF g
  <2> QED BY <2>3, <2>4 DEF IsKept
<1> QED BY <1>1, <1>4

LEMMA WithinIsKept ==
  ASSUME NEW s, NEW S, Len(s) \in Nat
  PROVE  \E f : IsKept(f, s, S, Len(s)) /\ Within(s, S) = f[Len(s)]
<1> DEFINE f == CHOOSE f : IsKept(f, s, S, Len(s))
<1>1. IsKept(f, s, S, Len(s))
  BY KeptExists
<1>2. Within(s, S) = f[Len(s)]
  BY DEF Within, IsKept
<1> QED BY <1>1, <1>2

\* The first k elements of s that are in S are q, by the places m.
Picks(m, q, s, S, k) ==
  /\ m \in [1 .. Len(q) -> 1 .. k]
  /\ \A i \in 1 .. Len(q) : q[i] = s[m[i]] /\ q[i] \in S
  /\ \A i, j \in 1 .. Len(q) : i < j => m[i] < m[j]
  /\ \A j \in 1 .. k : s[j] \in S => \E i \in 1 .. Len(q) : m[i] = j

LEMMA KeptPicks ==
  ASSUME NEW T, NEW s \in Seq(T), NEW S, NEW f, IsKept(f, s, S, Len(s)), NEW n \in 0 .. Len(s)
  PROVE  f[n] \in Seq(T) /\ \E m : Picks(m, f[n], s, S, n)
<1> DEFINE good(k) == f[k] \in Seq(T) /\ \E m : Picks(m, f[k], s, S, k)
           bad == {k \in 0 .. Len(s) : ~good(k)}
<1>0. Len(s) \in Nat /\ \A i \in 1 .. Len(s) : s[i] \in T
  OBVIOUS
<1> SUFFICES ASSUME bad # {} PROVE FALSE
  OBVIOUS
<1>1. PICK k \in bad : \A m \in bad : k <= m
  <2>1. bad \subseteq Nat
    BY <1>0
  <2> HIDE DEF bad
  <2> QED BY <2>1, Least
<1>2. k # 0
  <2>1. f[0] = <<>> /\ Len(f[0]) = 0 /\ f[0] \in Seq(T)
    BY <1>0 DEF IsKept
  <2>2. Picks([i \in 1 .. 0 |-> 0], f[0], s, S, 0)
    BY <2>1 DEF Picks
  <2> QED BY <2>1, <2>2
<1>3. k \in 1 .. Len(s) /\ k - 1 \in 0 .. Len(s) /\ s[k] \in T
  BY <1>0, <1>2
<1>4. good(k - 1)
  <2>1. k - 1 \notin bad
    BY <1>1, <1>3
  <2> QED BY <1>3, <2>1
<1>5. f[k] = IF s[k] \in S THEN Append(f[k - 1], s[k]) ELSE f[k - 1]
  <2>1. \A i \in 0 .. Len(s) : f[i] = IF i = 0 THEN <<>>
                                      ELSE IF s[i] \in S THEN Append(f[i - 1], s[i]) ELSE f[i - 1]
    BY DEF IsKept
  <2>2. k \in 0 .. Len(s)
    OBVIOUS
  <2> HIDE DEF bad
  <2> QED BY <1>2, <2>1, <2>2
<1>6. PICK m : Picks(m, f[k - 1], s, S, k - 1)
  BY <1>4
<1> DEFINE q == f[k - 1]
           l == Len(q)
<1>7. q \in Seq(T) /\ l \in Nat
  BY <1>4
<1>8. CASE s[k] \in S
  <2> DEFINE p == f[k]
             o == [i \in 1 .. l + 1 |-> IF i = l + 1 THEN k ELSE m[i]]
  <2>1. p = Append(q, s[k]) /\ p \in Seq(T) /\ Len(p) = l + 1 /\ p[l + 1] = s[k]
        /\ \A i \in 1 .. l : p[i] = q[i]
    BY <1>3, <1>5, <1>7, <1>8
  <2>2. o \in [1 .. l + 1 -> 1 .. k]
    BY <1>3, <1>6, <1>7 DEF Picks
  <2>3. ASSUME NEW i \in 1 .. l + 1 PROVE p[i] = s[o[i]] /\ p[i] \in S
    BY <1>6, <1>7, <1>8, <2>1 DEF Picks
  <2>4. ASSUME NEW i \in 1 .. l + 1, NEW j \in 1 .. l + 1, i < j PROVE o[i] < o[j]
    BY <1>3, <1>6, <1>7, <2>4 DEF Picks
  <2>5. ASSUME NEW j \in 1 .. k, s[j] \in S PROVE \E i \in 1 .. l + 1 : o[i] = j
    <3>1. CASE j = k
      <4>1. l + 1 \in 1 .. l + 1 /\ o[l + 1] = k
        BY <1>7
      <4> QED BY <3>1, <4>1
    <3>2. CASE j # k
      <4>1. PICK i \in 1 .. l : m[i] = j
        BY <1>3, <1>6, <2>5, <3>2 DEF Picks
      <4> QED BY <1>7, <4>1
    <3> QED BY <3>1, <3>2
  <2> HIDE DEF o, q, l
  <2>6. Picks(o, p, s, S, k)
    BY <2>1, <2>2, <2>3, <2>4, <2>5 DEF Picks
  <2> QED BY <2>1, <2>6
<1>9. CASE s[k] \notin S
  <2>1. f[k] = q
    BY <1>5, <1>9
  <2> HIDE DEF q, l
  <2>2. Picks(m, q, s, S, k)
    <3>1. m \in [1 .. l -> 1 .. k - 1] /\ k \in Nat
      BY <1>3, <1>6 DEF Picks, l, q
    <3>2. m \in [1 .. l -> 1 .. k]
      BY <3>1
    <3>3. \A j \in 1 .. k : s[j] \in S => j \in 1 .. k - 1
      BY <1>9, <3>1
    <3> HIDE DEF bad
    <3> QED BY <1>6, <3>2, <3>3 DEF Picks, q
  <2> QED BY <1>7, <2>1, <2>2 DEF q
<1> QED BY <1>8, <1>9

\* What Within returns: the elements of s that are in S, in their order.
LEMMA WithinKeeps ==
  ASSUME NEW T, NEW s \in Seq(T), NEW S
  PROVE  /\ Within(s, S) \in Seq(T)
         /\ ToSet(Within(s, S)) = ToSet(s) \cap S
         /\ \A i, j \in DOMAIN Within(s, S) : i < j =>
              \E k, l \in DOMAIN s : k < l /\ s[k] = Within(s, S)[i] /\ s[l] = Within(s, S)[j]
<1> DEFINE q == Within(s, S)
<1>1. Len(s) \in Nat /\ DOMAIN s = 1 .. Len(s)
  OBVIOUS
<1>2. PICK f : IsKept(f, s, S, Len(s)) /\ q = f[Len(s)]
  BY <1>1, WithinIsKept
<1> HIDE DEF q
<1>3. q \in Seq(T) /\ \E m : Picks(m, q, s, S, Len(s))
  BY <1>1, <1>2, KeptPicks
<1>4. PICK m : Picks(m, q, s, S, Len(s))
  BY <1>3
<1>5. DOMAIN q = 1 .. Len(q)
  BY <1>3
<1>6. ToSet(q) = ToSet(s) \cap S
  <2>1. ASSUME NEW x \in ToSet(q) PROVE x \in ToSet(s) /\ x \in S
    <3>1. PICK i \in 1 .. Len(q) : x = q[i]
      BY <1>5 DEF ToSet
    <3>2. q[i] = s[m[i]] /\ q[i] \in S /\ m[i] \in 1 .. Len(s)
      BY <1>4 DEF Picks
    <3> QED BY <1>1, <3>1, <3>2 DEF ToSet
  <2>2. ASSUME NEW x \in ToSet(s), x \in S PROVE x \in ToSet(q)
    <3>1. PICK j \in 1 .. Len(s) : x = s[j]
      BY <1>1 DEF ToSet
    <3>2. PICK i \in 1 .. Len(q) : m[i] = j
      BY <1>4, <2>2, <3>1 DEF Picks
    <3>3. q[i] = x
      BY <1>4, <3>1, <3>2 DEF Picks
    <3> QED BY <1>5, <3>3 DEF ToSet
  <2> QED BY <2>1, <2>2
<1>7. ASSUME NEW i \in DOMAIN q, NEW j \in DOMAIN q, i < j
      PROVE  \E k, l \in DOMAIN s : k < l /\ s[k] = q[i] /\ s[l] = q[j]
  BY <1>1, <1>4, <1>5, <1>7 DEF Picks
<1> QED BY <1>3, <1>6, <1>7 DEF q

-----------------------------------------------------------------------------
(* What the panel does with an event.                                      *)

\* The panel takes the event, or leaves what it has seen.
Took(q, e, r) ==
  /\ e.seq > q.seen[e.thread]
  /\ r.seen = [q.seen EXCEPT ![e.thread] = e.seq]
  /\ r.offered = Append(q.offered, e.n)
Left(q, r) == r.seen = q.seen /\ r.offered = q.offered

Calm(q, r) ==
  /\ r.port = q.port /\ r.recovery = q.recovery /\ r.waiting = q.waiting
  /\ r.clearing = q.clearing

LEMMA ShownTakes ==
  ASSUME NEW p \in Panels, NEW e \in Events, e.thread \in Threads, e.seq > p.seen[e.thread]
  PROVE  /\ Shown(p, e) \in Panels /\ Took(p, e, Shown(p, e)) /\ Calm(p, Shown(p, e))
         /\ Shown(p, e).resync = p.resync
<1> DEFINE h == IF GatedByOther(p, e) THEN p.hidden \cup {e.run} ELSE p.hidden
           q == [p EXCEPT !.seen[e.thread] = e.seq, !.offered = Append(@, e.n), !.hidden = h]
<1>1. e.seq \in Nat /\ e.n \in Nat /\ e.run \in Runs \cup {None} /\ h \in SUBSET (Runs \cup {None})
  BY DEF Events, Panels
<1>2. [p.seen EXCEPT ![e.thread] = e.seq] \in [Threads -> Nat] /\ Append(p.offered, e.n) \in Seq(Nat)
  BY <1>1 DEF Panels
<1>3. q = [p EXCEPT !.seen = [p.seen EXCEPT ![e.thread] = e.seq], !.offered = Append(p.offered, e.n),
                    !.hidden = h]
  BY DEF Panels
<1>4. q \in Panels /\ Took(p, e, q) /\ Calm(p, q) /\ q.resync = p.resync
  <2> HIDE DEF h
  <2>1. /\ q.seen = [p.seen EXCEPT ![e.thread] = e.seq] /\ q.offered = Append(p.offered, e.n)
        /\ Calm(p, q) /\ q.resync = p.resync
    BY <1>3 DEF Panels, Calm
  <2>2. q \in Panels
    BY <1>1, <1>2, <1>3 DEF Panels
  <2> QED BY <2>1, <2>2 DEF Took
<1>5. Shown(p, e) = IF ~Renders(p, e) THEN q
                    ELSE CASE e.type = "open" -> [q EXCEPT !.active = e.run, !.busy = TRUE]
                           [] e.type = "end"  -> [q EXCEPT !.ended = @ \cup {e.run}, !.active = None,
                                                           !.busy = FALSE]
                           [] OTHER -> q
  BY DEF Shown
<1> HIDE DEF q, h
<1>6. ASSUME NEW r, \/ r = q
                    \/ r = [q EXCEPT !.active = e.run, !.busy = TRUE]
                    \/ r = [q EXCEPT !.ended = @ \cup {e.run}, !.active = None, !.busy = FALSE]
      PROVE  r \in Panels /\ r.seen = q.seen /\ r.offered = q.offered /\ Calm(q, r) /\ r.resync = q.resync
  <2>1. CASE r = q
    BY <1>4, <2>1 DEF Calm
  <2>2. CASE r = [q EXCEPT !.active = e.run, !.busy = TRUE]
    BY <1>1, <1>4, <2>2 DEF Panels, Calm
  <2>3. CASE r = [q EXCEPT !.ended = @ \cup {e.run}, !.active = None, !.busy = FALSE]
    <3>1. q.ended \cup {e.run} \in SUBSET (Runs \cup {None})
      BY <1>1, <1>4 DEF Panels
    <3>2. r = [q EXCEPT !.ended = q.ended \cup {e.run}, !.active = None, !.busy = FALSE]
      BY <2>3
    <3>3. r \in Panels
      BY <1>4, <3>1, <3>2 DEF Panels
    <3> QED BY <1>4, <3>2, <3>3 DEF Panels, Calm
  <2> QED BY <1>6, <2>1, <2>2, <2>3
<1>7. \/ Shown(p, e) = q
      \/ Shown(p, e) = [q EXCEPT !.active = e.run, !.busy = TRUE]
      \/ Shown(p, e) = [q EXCEPT !.ended = @ \cup {e.run}, !.active = None, !.busy = FALSE]
  BY <1>5
<1> HIDE DEF Shown
<1> QED BY <1>4, <1>6, <1>7 DEF Took, Calm

\* An event is taken, or ignored, or (live events only) found to be ahead.
LEMMA ApplyEffect ==
  ASSUME NEW p \in Panels, NEW e \in Events, e.thread \in Threads, NEW recovered \in BOOLEAN,
         NEW r, r = Apply(p, e, recovered)
  PROVE  /\ r \in Panels /\ Calm(p, r)
         /\ \/ Took(p, e, r) /\ r.resync = p.resync /\ (~recovered => e.seq = p.seen[e.thread] + 1)
            \/ Left(p, r) /\ r.resync = p.resync /\ e.seq <= p.seen[e.thread]
            \/ /\ Left(p, r) /\ ~recovered /\ e.seq > p.seen[e.thread] + 1
               /\ r.resync = p.resync \/ r.resync = [run |-> e.run, after |-> p.seen[e.thread]]
<1>1. e.seq \in Nat /\ p.seen[e.thread] \in Nat /\ e.run \in Runs \cup {None}
  BY DEF Events, Panels
<1> DEFINE d == Decision(p.seen[e.thread], e.seq, recovered)
<1>2. CASE d = "ignore"
  <2>1. e.seq <= p.seen[e.thread] /\ r = p
    BY <1>1, <1>2 DEF Decision, Apply
  <2> QED BY <2>1 DEF Left, Calm
<1>3. CASE d = "resync"
  <2>1. ~recovered /\ e.seq > p.seen[e.thread] + 1
    BY <1>1, <1>3 DEF Decision
  <2>2. r = p \/ r = [p EXCEPT !.resync = [run |-> e.run, after |-> p.seen[e.thread]]]
    BY <1>3 DEF Apply
  <2>3. [run |-> e.run, after |-> p.seen[e.thread]] \in Calls
    BY <1>1 DEF Calls
  <2>4. ASSUME r = [p EXCEPT !.resync = [run |-> e.run, after |-> p.seen[e.thread]]]
        PROVE  /\ r \in Panels /\ Calm(p, r) /\ Left(p, r)
               /\ r.resync = [run |-> e.run, after |-> p.seen[e.thread]]
    BY <2>3, <2>4 DEF Panels, Calm, Left
  <2> QED BY <2>1, <2>2, <2>4 DEF Left, Calm
<1>4. CASE d = "apply"
  <2>1. e.seq > p.seen[e.thread] /\ (~recovered => e.seq = p.seen[e.thread] + 1)
    BY <1>1, <1>4 DEF Decision
  <2>2. r = Shown(p, e)
    BY <1>4 DEF Apply
  <2> QED BY <2>1, <2>2, ShownTakes
<1>5. d \in {"ignore", "resync", "apply"}
  BY DEF Decision
<1> QED BY <1>2, <1>3, <1>4, <1>5

\* What is taken is born after all that was taken before.
LEMMA TookRises ==
  ASSUME NEW A, NEW born \in Nat, NEW threads \in Nat, AroundOK(A, born, threads),
         \A a \in A : a.thread \in Threads,
         NEW q \in Panels, NEW r \in Panels, NEW e \in A, Took(q, e, r), OfferedOK(q, A, born)
  PROVE  OfferedOK(r, A, born)
<1>1. e \in Events /\ e.n \in Nat /\ e.n <= born /\ e.seq \in Nat /\ e.thread \in Threads
  BY DEF AroundOK, Events
<1>2. q.offered \in Seq(Nat) /\ Len(q.offered) \in Nat /\ DOMAIN q.offered = 1 .. Len(q.offered)
  BY DEF Panels
<1>3. /\ r.offered = Append(q.offered, e.n) /\ DOMAIN r.offered = 1 .. Len(q.offered) + 1
      /\ r.offered[Len(q.offered) + 1] = e.n
      /\ \A i \in DOMAIN q.offered : r.offered[i] = q.offered[i]
  BY <1>1, <1>2 DEF Took
<1>4. \A i \in DOMAIN q.offered : q.offered[i] < e.n /\ q.offered[i] \in Nat
  BY <1>2 DEF OfferedOK, Took
<1>5. Rising(r.offered)
  BY <1>2, <1>3, <1>4 DEF OfferedOK, Rising
<1>6. \A i \in DOMAIN r.offered : r.offered[i] <= born
  BY <1>1, <1>2, <1>3 DEF OfferedOK
<1>7. ASSUME NEW a \in A, a.seq > r.seen[a.thread], NEW i \in DOMAIN r.offered
      PROVE  r.offered[i] < a.n
  <2>1. a.thread = e.thread /\ a.seq \in Nat /\ a.n \in Nat
    BY DEF AroundOK, Events
  <2>2. r.seen[a.thread] = e.seq
    BY <1>1, <2>1 DEF Took, Panels
  <2>3. e.n < a.n
    BY <1>7, <2>1, <2>2 DEF AroundOK
  <2>4. i \in DOMAIN q.offered => r.offered[i] < e.n
    BY <1>3, <1>4
  <2>5. i \in DOMAIN q.offered \/ r.offered[i] = e.n
    BY <1>2, <1>3
  <2> QED BY <1>1, <1>2, <1>3, <1>4, <2>1, <2>3, <2>4, <2>5,
               SMTT(20)
<1> QED BY <1>5, <1>6, <1>7 DEF OfferedOK

LEMMA LeftRises ==
  ASSUME NEW A, NEW born, NEW q, NEW r, Left(q, r), OfferedOK(q, A, born)
  PROVE  OfferedOK(r, A, born)
  BY DEF OfferedOK, Left

\* Every transcript event of C up to what the panel has seen was taken.
Passed(C, p) ==
  \A e \in C : Persistent(e) /\ e.seq <= p.seen[e.thread] => e.n \in ToSet(p.offered)

LEMMA TookPasses ==
  ASSUME NEW A, NEW born \in Nat, NEW threads \in Nat, AroundOK(A, born, threads),
         \A a \in A : a.thread \in Threads, NEW C, C \subseteq A,
         NEW q \in Panels, NEW r \in Panels, NEW e \in A, Took(q, e, r), Passed(C, q),
         \A c \in C : Persistent(c) /\ c.seq < e.seq => c.n \in ToSet(q.offered)
  PROVE  Passed(C, r)
<1>1. e.seq \in Nat /\ e.n \in Nat /\ e.thread \in Threads
  BY DEF AroundOK, Events
<1>2. ToSet(r.offered) = ToSet(q.offered) \cup {e.n}
  <2>1. q.offered \in Seq(Nat)
    BY DEF Panels
  <2>2. /\ DOMAIN q.offered = 1 .. Len(q.offered) /\ Len(q.offered) \in Nat
        /\ DOMAIN r.offered = 1 .. Len(q.offered) + 1
        /\ r.offered[Len(q.offered) + 1] = e.n
        /\ \A i \in DOMAIN q.offered : r.offered[i] = q.offered[i]
    BY <1>1, <2>1 DEF Took
  <2>3. 1 .. Len(q.offered) + 1 = (1 .. Len(q.offered)) \cup {Len(q.offered) + 1}
    BY <2>2
  <2> QED BY <2>2, <2>3 DEF ToSet
<1> SUFFICES ASSUME NEW c \in C, Persistent(c), c.seq <= r.seen[c.thread]
             PROVE  c.n \in ToSet(r.offered)
  BY DEF Passed
<1>3. c \in A /\ c.seq \in Nat /\ c.thread = e.thread /\ (c.seq = e.seq => c = e)
  BY DEF AroundOK, Events
<1>4. r.seen[c.thread] = e.seq
  BY <1>1, <1>3 DEF Took, Panels
<1> QED BY <1>1, <1>2, <1>3, <1>4

-----------------------------------------------------------------------------
(* What the panel does with a thread that it reads.                        *)

IsApplied(f, p, s, k) ==
  f = [i \in 0 .. k |-> IF i = 0 THEN p ELSE Apply(f[i - 1], s[i], TRUE)]

LEMMA AppliedExists ==
  ASSUME NEW p, NEW s, NEW n \in Nat PROVE \E f : IsApplied(f, p, s, n)
<1> DEFINE bad == {k \in Nat : ~\E f : IsApplied(f, p, s, k)}
<1> SUFFICES ASSUME bad # {} PROVE FALSE
  OBVIOUS
<1>1. PICK k \in bad : \A m \in bad : k <= m
  <2>1. bad \subseteq Nat
    OBVIOUS
  <2> HIDE DEF bad
  <2> QED BY <2>1, Least
<1>2. k # 0
  <2> DEFINE f == [i \in 0 .. 0 |-> p]
  <2>1. IsApplied(f, p, s, 0)
    BY DEF IsApplied
  <2> QED BY <2>1
<1>3. PICK f : IsApplied(f, p, s, k - 1)
  BY <1>1, <1>2
<1> DEFINE g == [i \in 0 .. k |-> IF i = k THEN Apply(f[k - 1], s[k], TRUE) ELSE f[i]]
<1>4. IsApplied(g, p, s, k)
  <2>1. k \in Nat \ {0} /\ k - 1 \in 0 .. k - 1 /\ k - 1 # k
    BY <1>2
  <2>2. g[k - 1] = f[k - 1]
    BY <2>1
  <2>3. ASSUME NEW i \in 0 .. k
        PROVE  g[i] = IF i = 0 THEN p ELSE Apply(g[i - 1], s[i], TRUE)
    <3>1. CASE i = k
      BY <2>1, <2>2, <3>1
    <3>2. CASE i # k
      <4>1. i \in 0 .. k - 1 /\ g[i] = f[i]
        BY <2>1, <3>2
      <4>2. i # 0 => g[i - 1] = f[i - 1]
        <5>1. i # 0 => i - 1 \in 0 .. k /\ i - 1 # k
          BY <2>1, <3>2
        <5> QED BY <5>1
      <4>3. f[i] = IF i = 0 THEN p ELSE Apply(f[i - 1], s[i], TRUE)
        BY <1>3, <4>1 DEF IsApplied
      <4> QED BY <4>1, <4>2, <4>3
    <3> QED BY <3>1, <3>2
  <2> HIDE DEF g
  <2>4. g = [i \in 0 .. k |-> g[i]]
    BY DEF g
  <2> QED BY <2>3, <2>4 DEF IsApplied
<1> QED BY <1>1, <1>4

LEMMA ApplyAllIsApplied ==
  ASSUME NEW p, NEW s, Len(s) \in Nat
  PROVE  \E f : IsApplied(f, p, s, Len(s)) /\ ApplyAll(p, s) = f[Len(s)]
<1> DEFINE f == CHOOSE f : IsApplied(f, p, s, Len(s))
<1>1. IsApplied(f, p, s, Len(s))
  BY AppliedExists
<1>2. ApplyAll(p, s) = f[Len(s)]
  BY DEF ApplyAll, IsApplied
<1> QED BY <1>1, <1>2

\* What holds of the panel q when it has come to the i-th event of s from p.
ReadTo(q, p, s, i, A, born) ==
  /\ q \in Panels /\ OfferedOK(q, A, born) /\ Calm(p, q) /\ q.resync = p.resync
  /\ \A t \in Threads : /\ p.seen[t] <= q.seen[t]
                        /\ q.seen[t] = p.seen[t] \/ \E j \in 1 .. i : s[j].thread = t /\ q.seen[t] = s[j].seq
  /\ \A j \in 1 .. i : s[j].seq <= q.seen[s[j].thread]

LEMMA ReadStep ==
  ASSUME NEW A, NEW born \in Nat, NEW threads \in Nat, AroundOK(A, born, threads),
         \A a \in A : a.thread \in Threads,
         NEW p \in Panels, NEW s, NEW i \in Nat, \A j \in 1 .. i + 1 : s[j] \in A,
         NEW q, ReadTo(q, p, s, i, A, born)
  PROVE  ReadTo(Apply(q, s[i + 1], TRUE), p, s, i + 1, A, born)
<1> DEFINE e == s[i + 1]
           r == Apply(q, e, TRUE)
<1>1. e \in A /\ e \in Events /\ e.thread \in Threads /\ e.seq \in Nat
  BY DEF AroundOK, Events
<1>2. q \in Panels /\ q.seen \in [Threads -> Nat] /\ p.seen \in [Threads -> Nat]
  BY DEF ReadTo, Panels
<1>3. /\ r \in Panels /\ Calm(q, r) /\ r.resync = q.resync
      /\ Took(q, e, r) \/ (Left(q, r) /\ e.seq <= q.seen[e.thread])
  BY <1>1, <1>2, ApplyEffect, ZenonT(30)
<1> HIDE DEF r
<1>4. OfferedOK(r, A, born)
  BY <1>1, <1>2, <1>3, TookRises, LeftRises DEF ReadTo
<1>5. Calm(p, r) /\ r.resync = p.resync
  BY <1>3 DEF ReadTo, Calm
<1>6. \A j \in 1 .. i + 1 : s[j].thread = e.thread /\ s[j].seq \in Nat
  BY <1>1 DEF AroundOK, Events
<1>7. e.seq <= r.seen[e.thread] /\ r.seen \in [Threads -> Nat]
      /\ \A t \in Threads : q.seen[t] <= r.seen[t]
                            /\ (r.seen[t] = q.seen[t] \/ (t = e.thread /\ r.seen[t] = e.seq))
  <2>1. r.seen \in [Threads -> Nat]
    BY <1>3 DEF Panels
  <2>2. CASE Took(q, e, r)
    BY <1>1, <1>2, <2>1, <2>2 DEF Took
  <2>3. CASE Left(q, r) /\ e.seq <= q.seen[e.thread]
    BY <1>1, <1>2, <2>1, <2>3 DEF Left
  <2> QED BY <1>3, <2>2, <2>3
<1>8. ASSUME NEW t \in Threads
      PROVE  /\ p.seen[t] <= r.seen[t]
             /\ r.seen[t] = p.seen[t] \/ \E j \in 1 .. i + 1 : s[j].thread = t /\ r.seen[t] = s[j].seq
  <2>1. p.seen[t] <= r.seen[t]
    BY <1>2, <1>7 DEF ReadTo
  <2>2. CASE r.seen[t] = q.seen[t]
    BY <2>1, <2>2 DEF ReadTo
  <2>3. CASE t = e.thread /\ r.seen[t] = e.seq
    BY <2>1, <2>3
  <2> QED BY <1>7, <2>2, <2>3
<1>9. ASSUME NEW j \in 1 .. i + 1 PROVE s[j].seq <= r.seen[s[j].thread]
  <2>1. CASE j = i + 1
    BY <1>7, <2>1
  <2>2. CASE j # i + 1
    BY <1>1, <1>2, <1>6, <1>7, <2>2 DEF ReadTo
  <2> QED BY <2>1, <2>2
<1> QED BY <1>3, <1>4, <1>5, <1>8, <1>9 DEF ReadTo, r

\* The transcript stays whole when a sequence without holes is read.
LEMMA ReadWhole ==
  ASSUME NEW A, NEW born \in Nat, NEW threads \in Nat, AroundOK(A, born, threads),
         \A a \in A : a.thread \in Threads, NEW C, C \subseteq A,
         NEW p \in Panels, NEW s, Increasing(s), NEW i \in Nat, 1 .. i + 1 \subseteq DOMAIN s,
         DOMAIN s \subseteq Nat \ {0}, \A j \in DOMAIN s : s[j] \in A,
         \A f \in ToSet(s), e \in C :
           Persistent(e) /\ e.seq < f.seq => e \in ToSet(s) \/ e.seq <= p.seen[e.thread],
         NEW q, ReadTo(q, p, s, i, A, born), Passed(C, q)
  PROVE  Passed(C, Apply(q, s[i + 1], TRUE))
<1> DEFINE f == s[i + 1]
           r == Apply(q, f, TRUE)
<1>1. f \in A /\ f \in Events /\ f.thread \in Threads /\ f.seq \in Nat /\ f \in ToSet(s)
      /\ i + 1 \in DOMAIN s
  BY DEF AroundOK, Events, ToSet
<1>2. q \in Panels /\ q.seen \in [Threads -> Nat] /\ p.seen \in [Threads -> Nat]
  BY DEF ReadTo, Panels
<1>3. r \in Panels /\ (Took(q, f, r) \/ Left(q, r))
  BY <1>1, <1>2, ApplyEffect
<1> HIDE DEF r
<1>4. ASSUME NEW e \in C, Persistent(e), e.seq < f.seq PROVE e.n \in ToSet(q.offered)
  <2>1. e.thread \in Threads /\ e.seq \in Nat
    BY DEF AroundOK, Events
  <2>2. e.seq <= q.seen[e.thread]
    <3>1. CASE e.seq <= p.seen[e.thread]
      BY <1>2, <2>1, <3>1 DEF ReadTo
    <3>2. CASE e \in ToSet(s)
      <4>1. PICK j \in DOMAIN s : e = s[j]
        BY <3>2 DEF ToSet
      <4>2. ~(i + 1 < j) /\ j # i + 1 /\ j \in Nat
        <5>1. i + 1 < j => f.seq < e.seq
          BY <1>1, <4>1 DEF Increasing
        <5> QED BY <1>1, <1>4, <2>1, <4>1, <5>1
      <4>3. j \in 1 .. i \/ j = 0
        BY <4>2
      <4>4. j # 0
        OBVIOUS
      <4> QED BY <4>1, <4>3, <4>4 DEF ReadTo
    <3> QED BY <1>1, <1>4, <3>1, <3>2
  <2> QED BY <1>4, <2>2 DEF Passed
<1>5. CASE Took(q, f, r)
  <2>1. \A c \in C : Persistent(c) /\ c.seq < f.seq => c.n \in ToSet(q.offered)
    BY <1>4
  <2>2. Passed(C, r)
    BY <1>1, <1>2, <1>3, <1>5, <2>1, TookPasses
  <2> QED BY <2>2 DEF r
<1>6. CASE Left(q, r)
  BY <1>6 DEF Left, Passed, r
<1> QED BY <1>3, <1>5, <1>6

\* Reading a thread from p: what the panel has seen grows, what it takes rises, and what was
\* whole stays whole.
LEMMA ReadAll ==
  ASSUME NEW A, NEW born \in Nat, NEW threads \in Nat, AroundOK(A, born, threads),
         \A a \in A : a.thread \in Threads, NEW C, C \subseteq A,
         NEW p \in Panels, OfferedOK(p, A, born),
         NEW s \in Seq(Events), ToSet(s) \subseteq A, Increasing(s)
  PROVE  /\ ReadTo(ApplyAll(p, s), p, s, Len(s), A, born)
         /\ Passed(C, p) /\ (\A f \in ToSet(s), e \in C :
              Persistent(e) /\ e.seq < f.seq => e \in ToSet(s) \/ e.seq <= p.seen[e.thread])
            => Passed(C, ApplyAll(p, s))
<1> DEFINE whole == Passed(C, p) /\ (\A f \in ToSet(s), e \in C :
              Persistent(e) /\ e.seq < f.seq => e \in ToSet(s) \/ e.seq <= p.seen[e.thread])
<1>1. Len(s) \in Nat /\ DOMAIN s = 1 .. Len(s) /\ \A j \in 1 .. Len(s) : s[j] \in A
  BY DEF ToSet
<1>2. PICK f : IsApplied(f, p, s, Len(s)) /\ ApplyAll(p, s) = f[Len(s)]
  BY <1>1, ApplyAllIsApplied
<1> DEFINE good(k) == ReadTo(f[k], p, s, k, A, born) /\ (whole => Passed(C, f[k]))
           bad == {k \in 0 .. Len(s) : ~good(k)}
<1>3. bad = {}
  <2> SUFFICES ASSUME bad # {} PROVE FALSE
    OBVIOUS
  <2>1. PICK k \in bad : \A m \in bad : k <= m
    <3>1. bad \subseteq Nat
      BY <1>1
    <3> HIDE DEF bad
    <3> QED BY <3>1, Least
  <2>2. \A i \in 0 .. Len(s) : f[i] = IF i = 0 THEN p ELSE Apply(f[i - 1], s[i], TRUE)
    BY <1>2 DEF IsApplied
  <2>3. k \in 0 .. Len(s) /\ ~good(k)
    OBVIOUS
  <2> HIDE DEF good
  <2>4. good(0)
    <3>1. f[0] = p
      <4>1. 0 \in 0 .. Len(s)
        BY <1>1
      <4> HIDE DEF bad
      <4> QED BY <2>2, <4>1
    <3>2. ReadTo(p, p, s, 0, A, born)
      BY DEF ReadTo, Calm, Panels
    <3> HIDE DEF whole
    <3> QED BY <3>1, <3>2 DEF good, whole
  <2>5. k # 0
    BY <2>3, <2>4
  <2> DEFINE i == k - 1
  <2>6. i \in Nat /\ i + 1 = k /\ k \in 1 .. Len(s) /\ i \in 0 .. Len(s)
    BY <1>1, <2>3, <2>5
  <2>7. good(i)
    <3>1. i \notin bad
      BY <2>1, <2>6
    <3> QED BY <2>6, <3>1
  <2>8. f[k] = Apply(f[i], s[i + 1], TRUE)
    BY <2>2, <2>5, <2>6
  <2> HIDE DEF i
  <2>9. 1 .. i + 1 \subseteq DOMAIN s /\ DOMAIN s \subseteq Nat \ {0} /\ (\A j \in 1 .. i + 1 : s[j] \in A)
    BY <1>1, <2>6
  <2>10. ReadTo(f[i], p, s, i, A, born)
    BY <2>7 DEF good
  <2>11. ReadTo(f[k], p, s, k, A, born)
    <3>1. ReadTo(Apply(f[i], s[i + 1], TRUE), p, s, i + 1, A, born)
      BY <2>6, <2>9, <2>10, ReadStep
    <3> QED BY <2>6, <2>8, <3>1
  <2>12. whole => Passed(C, f[k])
    <3> SUFFICES ASSUME whole PROVE Passed(C, Apply(f[i], s[i + 1], TRUE))
      BY <2>8
    <3>1. Passed(C, f[i])
      BY <2>7 DEF good
    <3>2. \A j \in DOMAIN s : s[j] \in A
      BY <1>1
    <3> QED BY <2>6, <2>9, <2>10, <3>1, <3>2, ReadWhole
  <2> QED BY <2>3, <2>11, <2>12 DEF good
<1>4. good(Len(s))
  BY <1>1, <1>3
<1> HIDE DEF whole
<1> QED BY <1>2, <1>4 DEF whole

-----------------------------------------------------------------------------
(* Facts about sequences of messages and events.                           *)

LEMMA Appended ==
  ASSUME NEW T, NEW s \in Seq(T), NEW x \in T
  PROVE  /\ Append(s, x) \in Seq(T) /\ ToSet(Append(s, x)) = ToSet(s) \cup {x}
         /\ DOMAIN Append(s, x) = DOMAIN s \cup {Len(s) + 1}
         /\ DOMAIN s = 1 .. Len(s) /\ Len(s) \in Nat
         /\ Append(s, x)[Len(s) + 1] = x
         /\ \A i \in DOMAIN s : Append(s, x)[i] = s[i] /\ i # Len(s) + 1 /\ i < Len(s) + 1
<1>1. Append(s, x) \in Seq(T) /\ Len(Append(s, x)) = Len(s) + 1 /\ DOMAIN s = 1 .. Len(s)
      /\ Len(s) \in Nat /\ DOMAIN Append(s, x) = 1 .. Len(s) + 1
      /\ Append(s, x)[Len(s) + 1] = x /\ \A i \in 1 .. Len(s) : Append(s, x)[i] = s[i]
  OBVIOUS
<1>2. 1 .. Len(s) + 1 = (1 .. Len(s)) \cup {Len(s) + 1}
  BY <1>1
<1> QED BY <1>1, <1>2 DEF ToSet

LEMMA Tailed ==
  ASSUME NEW T, NEW s \in Seq(T), s # <<>>
  PROVE  /\ Tail(s) \in Seq(T) /\ Head(s) = s[1] /\ 1 \in DOMAIN s
         /\ \A i \in DOMAIN Tail(s) : i + 1 \in DOMAIN s /\ Tail(s)[i] = s[i + 1] /\ i \in Nat /\ i >= 1
  OBVIOUS

LEMMA NoElements == ToSet(<<>>) = {} /\ DOMAIN <<>> = {}
<1>1. \A i \in DOMAIN <<>> : FALSE
  OBVIOUS
<1>2. DOMAIN <<>> = {}
  BY <1>1
<1> QED BY <1>2 DEF ToSet

\* w2 is made of messages of w, in their order.
Sub(w2, w) ==
  /\ \A i \in DOMAIN w2 : \E k \in DOMAIN w : w2[i] = w[k]
  /\ \A i, j \in DOMAIN w2 : i < j => \E k, l \in DOMAIN w : k < l /\ w[k] = w2[i] /\ w[l] = w2[j]

LEMMA NoRecoverySub ==
  ASSUME NEW w \in Seq(Messages)
  PROVE  NoRecovery(w) \in Seq(Messages) /\ Sub(NoRecovery(w), w)
<1> DEFINE S == {m \in ToSet(w) : m.kind # "recovered"}
           v == Within(w, S)
<1>1. /\ v \in Seq(Messages) /\ ToSet(v) = ToSet(w) \cap S
      /\ \A i, j \in DOMAIN v : i < j => \E k, l \in DOMAIN w : k < l /\ w[k] = v[i] /\ w[l] = v[j]
  <2> HIDE DEF S
  <2> QED BY WithinKeeps
<1>2. v = NoRecovery(w)
  BY DEF NoRecovery
<1> HIDE DEF v
<1>3. \A i \in DOMAIN v : v[i] \in ToSet(w)
  BY <1>1 DEF ToSet
<1> QED BY <1>1, <1>2, <1>3 DEF Sub, ToSet

LEMMA TailSub ==
  ASSUME NEW w \in Seq(Messages), w # <<>> PROVE Tail(w) \in Seq(Messages) /\ Sub(Tail(w), w)
<1>1. /\ Tail(w) \in Seq(Messages)
      /\ \A i \in DOMAIN Tail(w) : i + 1 \in DOMAIN w /\ Tail(w)[i] = w[i + 1] /\ i \in Nat
  BY Tailed
<1>2. ASSUME NEW i \in DOMAIN Tail(w), NEW j \in DOMAIN Tail(w), i < j
      PROVE  \E k, l \in DOMAIN w : k < l /\ w[k] = Tail(w)[i] /\ w[l] = Tail(w)[j]
  <2>1. i + 1 < j + 1
    BY <1>1, <1>2
  <2> QED BY <1>1, <2>1
<1> QED BY <1>1, <1>2 DEF Sub

LEMMA EmptySub == ASSUME NEW w PROVE <<>> \in Seq(Messages) /\ Sub(<<>>, w)
  BY NoElements DEF Sub

LEMMA SubTrans == ASSUME NEW u, NEW v, NEW w, Sub(u, v), Sub(v, w) PROVE Sub(u, w)
<1>1. ASSUME NEW i \in DOMAIN u PROVE \E k \in DOMAIN w : u[i] = w[k]
  <2>1. PICK k \in DOMAIN v : u[i] = v[k]
    BY DEF Sub
  <2> QED BY <2>1 DEF Sub
<1>2. ASSUME NEW i \in DOMAIN u, NEW j \in DOMAIN u, i < j
      PROVE  \E k, l \in DOMAIN w : k < l /\ w[k] = u[i] /\ w[l] = u[j]
  <2>1. PICK k \in DOMAIN v, l \in DOMAIN v : k < l /\ v[k] = u[i] /\ v[l] = u[j]
    BY <1>2 DEF Sub
  <2>2. PICK a \in DOMAIN w, b \in DOMAIN w : a < b /\ w[a] = v[k] /\ w[b] = v[l]
    BY <2>1 DEF Sub
  <2> QED BY <2>1, <2>2
<1> QED BY <1>1, <1>2 DEF Sub

-----------------------------------------------------------------------------
(* The parts of the invariant.                                             *)

LEMMA Narrow ==
  ASSUME NEW A, NEW B, B \subseteq A, NEW c, NEW p, NEW born, NEW threads
  PROVE  /\ AroundOK(A, born, threads) => AroundOK(B, born, threads)
         /\ Lineage(c, A, p) => Lineage(c, B, p)
         /\ OfferedOK(p, A, born) => OfferedOK(p, B, born)
<1>1. AroundOK(A, born, threads) => AroundOK(B, born, threads)
  BY DEF AroundOK
<1>2. Lineage(c, A, p) => Lineage(c, B, p)
  BY DEF Lineage
<1>3. OfferedOK(p, A, born) => OfferedOK(p, B, born)
  BY DEF OfferedOK
<1> QED BY <1>1, <1>2, <1>3

LEMMA Nats == MaxEvents \in Nat /\ MaxRestarts \in Nat /\ MaxClears \in Nat /\ MaxPanels \in Nat
              /\ Quota \in Nat /\ IsFiniteSet(Runs) /\ None \notin Runs
  BY ChatAssumption

\* Every thread that was ever made is one of Threads.
LEMMA ThreadsFit ==
  ASSUME NEW c, NEW g, NEW h, PastOK(c, g, h), c \in Chats, NEW t \in Nat, t <= h.threads
  PROVE  t \in Threads /\ (c.thread = 0 => h.threads + 1 \in Threads) /\ h.threads \in Nat /\ h.born \in Nat
<1>1. h.threads \in Nat /\ h.clears \in Nat /\ h.restarts \in Nat /\ h.born \in Nat
  BY DEF PastOK, Pasts
<1>2. c.thread = 0 => h.threads + 1 <= h.clears + h.restarts + 1
  BY DEF PastOK
<1>3. h.threads <= h.clears + h.restarts + 1
  BY <1>1 DEF PastOK
<1>4. h.clears <= MaxClears /\ h.restarts <= MaxRestarts
  BY DEF PastOK
<1> QED BY <1>1, <1>2, <1>3, <1>4, Nats DEF Threads

\* The wire loses messages.
LEMMA WireShrinks ==
  ASSUME NEW c, NEW g, NEW d, NEW w, NEW p, NEW h, Inv(c, g, d, w, p, h),
         NEW w2 \in Seq(Messages), Sub(w2, w)
  PROVE  Inv(c, g, d, w2, p, h)
<1>1. \A i \in DOMAIN w2 : \E k \in DOMAIN w : w2[i] = w[k]
  BY DEF Sub
<1>2. OnWire(w2) \subseteq OnWire(w)
  BY <1>1 DEF OnWire
<1>3. Around(c, d.saved, w2) \subseteq Around(c, d.saved, w)
  BY <1>2 DEF Around
<1>4. /\ AroundOK(Around(c, d.saved, w2), h.born, h.threads)
      /\ Lineage(c, Around(c, d.saved, w2), p)
      /\ OfferedOK(p, Around(c, d.saved, w2), h.born)
  BY <1>3, Narrow DEF Inv
<1>5. WireOK(w2)
  BY <1>1 DEF Inv, WireOK
<1>6. WireWhole(c, w, p) => WireWhole(c, w2, p)
  BY <1>1 DEF WireWhole
<1>7. ClearOK(c, g, d, w2, p, h)
  <2>1. ClearOK(c, g, d, w, p, h)
    BY DEF Inv
  <2>2. Tells(w) = {} => Tells(w2) = {}
    BY <1>1 DEF Tells
  <2>3. ASSUME NEW i \in Tells(w2) PROVE p.clearing /\ Stored(d.saved) = {}
    BY <1>1, <2>1 DEF Tells, ClearOK
  <2>4. ASSUME NEW i \in Tells(w2), NEW j \in DOMAIN w2, j > i
        PROVE  Carried(w2[j]) = {} /\ j \notin Tells(w2)
    <3>1. i \in DOMAIN w2 /\ i < j
      BY <2>4 DEF Tells
    <3>2. PICK k \in DOMAIN w, l \in DOMAIN w : k < l /\ w[k] = w2[i] /\ w[l] = w2[j]
      BY <3>1 DEF Sub
    <3>3. k \in Tells(w) /\ l > k
      BY <3>2 DEF Tells
    <3> QED BY <2>1, <3>2, <3>3 DEF Tells, ClearOK
  <2> QED BY <2>1, <2>2, <2>3, <2>4 DEF ClearOK
<1> QED BY <1>4, <1>5, <1>6, <1>7 DEF Inv

\* A message joins it that carries events of the store, or the answer of a clear.
LEMMA WireGrows ==
  ASSUME NEW c, NEW g, NEW d, NEW w, NEW p, NEW h, Inv(c, g, d, w, p, h),
         NEW m \in Messages, m.kind # "cleared", Carried(m) \subseteq ToSet(c.events),
         Reads(m) => Increasing(m.events) /\ (h.restarts = 0 => Holeless(c, m.events, p))
  PROVE  Inv(c, g, d, Append(w, m), p, h)
<1> DEFINE w2 == Append(w, m)
<1>1. w \in Seq(Messages)
  BY DEF Inv, WireOK
<1>2. /\ w2 \in Seq(Messages) /\ DOMAIN w2 = DOMAIN w \cup {Len(w) + 1} /\ w2[Len(w) + 1] = m
      /\ DOMAIN w = 1 .. Len(w) /\ Len(w) \in Nat
      /\ \A i \in DOMAIN w : w2[i] = w[i] /\ i # Len(w) + 1 /\ i < Len(w) + 1
  BY <1>1, Appended
<1> HIDE DEF w2
<1>3. OnWire(w2) = OnWire(w) \cup Carried(m)
  BY <1>2 DEF OnWire
<1>4. Around(c, d.saved, w2) = Around(c, d.saved, w)
  BY <1>3 DEF Around
<1>5. WireOK(w2)
  BY <1>2 DEF WireOK, Inv
<1>6. h.restarts = 0 => WireWhole(c, w2, p)
  BY <1>2 DEF WireWhole, Inv
<1>7. Tells(w2) = Tells(w)
  BY <1>2 DEF Tells
<1>8. ClearOK(c, g, d, w2, p, h)
  <2>1. ClearOK(c, g, d, w, p, h)
    BY DEF Inv
  <2>2. ASSUME NEW i \in Tells(w2), NEW j \in DOMAIN w2, j > i
        PROVE  Carried(w2[j]) = {} /\ j \notin Tells(w2)
    <3>1. i \in Tells(w) /\ i \in DOMAIN w /\ i < Len(w) + 1
      BY <1>2, <1>7 DEF Tells
    <3>2. CASE j \in DOMAIN w
      BY <1>2, <1>7, <2>1, <2>2, <3>1, <3>2 DEF ClearOK
    <3>3. CASE j = Len(w) + 1
      <4>1. c = Fresh
        BY <2>1, <3>1 DEF ClearOK
      <4>2. ToSet(c.events) = {}
        BY <4>1, NoElements DEF Fresh
      <4> QED BY <1>2, <3>3, <4>2 DEF Tells
    <3> QED BY <1>2, <3>2, <3>3
  <2> QED BY <1>7, <2>1, <2>2 DEF ClearOK
<1> QED BY <1>4, <1>5, <1>6, <1>8 DEF Inv, w2

\* The panel changes and takes nothing.
LEMMA PanelRests ==
  ASSUME NEW c, NEW g, NEW d, NEW w, NEW p, NEW h, Inv(c, g, d, w, p, h),
         NEW q \in Panels, Left(p, q), q.clearing = p.clearing, q.resync \in {p.resync, None}
  PROVE  Inv(c, g, d, w, q, h)
<1>1. Lineage(c, Around(c, d.saved, w), q)
  BY DEF Inv, Lineage
<1>2. OfferedOK(q, Around(c, d.saved, w), h.born)
  BY LeftRises DEF Inv
<1>3. h.restarts = 0 => PassedOK(c, q, h) /\ WireWhole(c, w, q)
  BY DEF Inv, PassedOK, WireWhole, Holeless, Left
<1>4. ClearOK(c, g, d, w, q, h)
  BY DEF Inv, ClearOK
<1> QED BY <1>1, <1>2, <1>3, <1>4 DEF Inv

\* The runs change: none that is over comes back.
LEMMA RunsChange ==
  ASSUME NEW c, NEW g, NEW d, NEW w, NEW p, NEW h, Inv(c, g, d, w, p, h),
         NEW g2 \in [Runs -> {"new", "asked", "live", "over"}], Over(g) \subseteq Over(g2),
         p.clearing => \A r \in Runs : g2[r] \in {"new", "over"}
  PROVE  Inv(c, g2, d, w, p, h)
<1>1. IsFiniteSet(Over(g2)) /\ Cardinality(Over(g)) <= Cardinality(Over(g2))
      /\ Cardinality(Over(g2)) \in Nat /\ Cardinality(Over(g)) \in Nat
  <2>1. Over(g2) \subseteq Runs
    BY DEF Over
  <2>2. IsFiniteSet(Over(g2))
    BY <2>1, Nats, FS_Subset
  <2> QED BY <2>2, FS_Subset, FS_CardinalityType
<1>2. PastOK(c, g2, h)
  <2>1. PastOK(c, g, h) /\ h.born \in Nat
    BY DEF Inv, PastOK, Pasts
  <2>2. h.born <= MaxEvents + Cardinality(Over(g2))
    BY <1>1, <2>1, Nats DEF PastOK
  <2> QED BY <2>1, <2>2 DEF PastOK
<1>3. ClearOK(c, g2, d, w, p, h)
  BY DEF Inv, ClearOK
<1> QED BY <1>2, <1>3 DEF Inv

\* The debounce timer and the queue of writes: a snapshot may join it, or it is given up.
LEMMA DiskRests ==
  ASSUME NEW c, NEW g, NEW d, NEW w, NEW p, NEW h, Inv(c, g, d, w, p, h),
         NEW e, DiskOK(e), e.saved = d.saved,
         \/ e.queue = d.queue
         \/ e.queue = Append(d.queue, [job |-> "snapshot"])
  PROVE  Inv(c, g, e, w, p, h)
<1>1. d.queue \in Seq(Jobs)
  BY DEF Inv, DiskOK
<1>2. Erases(e.queue) = Erases(d.queue) /\ \A i \in Erases(d.queue) : e.queue[i] = d.queue[i]
  <2>1. CASE e.queue = d.queue
    BY <2>1
  <2>2. CASE e.queue = Append(d.queue, [job |-> "snapshot"])
    <3>1. [job |-> "snapshot"] \in Jobs /\ [job |-> "snapshot"].job # "clear"
      BY DEF Jobs
    <3> QED BY <1>1, <2>2, <3>1, Appended DEF Erases
  <2> QED BY <2>1, <2>2
<1>3. ClearOK(c, g, e, w, p, h)
  BY <1>2 DEF Inv, ClearOK
<1> QED BY <1>3 DEF Inv

-----------------------------------------------------------------------------
(* The store grows.                                                        *)

\* The history of another kind changes.
LEMMA PastRests ==
  ASSUME NEW c, NEW g, NEW d, NEW w, NEW p, NEW h, Inv(c, g, d, w, p, h),
         NEW h2 \in Pasts, h2.born = h.born, h2.threads = h.threads, h2.cleared = h.cleared,
         h2.clears = h.clears, h2.restarts = h.restarts
  PROVE  Inv(c, g, d, w, p, h2)
<1>1. PassedOK(c, p, h) => PassedOK(c, p, h2)
  BY DEF PassedOK
<1>2. ClearOK(c, g, d, w, p, h2) /\ PastOK(c, g, h2)
  BY DEF Inv, ClearOK, PastOK
<1> QED BY <1>1, <1>2 DEF Inv

\* A thread that is being thrown away is empty.
LEMMA NotClearing ==
  ASSUME NEW c, NEW g, NEW d, NEW w, NEW p, NEW h, Inv(c, g, d, w, p, h),
         c.thread # 0 \/ \E r \in Runs : g[r] \in {"asked", "live"}
  PROVE  ~p.clearing /\ Tells(w) = {} /\ Erases(d.queue) = {}
<1>1. ClearOK(c, g, d, w, p, h)
  BY DEF Inv
<1>2. ~p.clearing
  BY <1>1 DEF ClearOK, Fresh
<1> QED BY <1>1, <1>2 DEF ClearOK

LEMMA EventFields ==
  ASSUME NEW c \in Chats, NEW n \in Nat, NEW r \in Runs \cup {None}, NEW type \in Types,
         NEW e, e = Event(c, n, r, type)
  PROVE  e \in Events /\ e.thread = c.thread /\ e.seq = c.next /\ e.n = n /\ e.run = r /\ e.type = type
  BY DEF Event, Events, Chats

\* An event is appended to the store.
LEMMA ChatFields ==
  ASSUME NEW c \in Chats, NEW n \in Nat, NEW r \in Runs \cup {None}, NEW type \in Types,
         type = "end" => r \in Runs, NEW c2, c2 = Append1(c, n, r, type)
  PROVE  /\ c2 \in Chats /\ c2.events = Append(c.events, Event(c, n, r, type))
         /\ c2.thread = c.thread /\ c2.bound = c.bound
         /\ c2.finished = c.finished \/ (type = "end" /\ c2.finished = c.finished \cup {r})
<1> DEFINE e == Event(c, n, r, type)
           f == IF type = "end" THEN c.finished \cup {r} ELSE c.finished
           next == c.next + 1
<1>1. e \in Events
  BY EventFields
<1>2. c2 = [c EXCEPT !.events = Append(c.events, e), !.next = next, !.finished = f]
  BY DEF Append1, Chats
<1>3. c.events \in Seq(Events) /\ c.next \in Nat /\ c.finished \in SUBSET Runs
  BY DEF Chats
<1>4. f \in SUBSET Runs /\ (f = c.finished \/ (type = "end" /\ f = c.finished \cup {r}))
  BY <1>3
<1>5. next \in Nat
  BY <1>3
<1> HIDE DEF e, f, next
<1>6. Append(c.events, e) \in Seq(Events)
  BY <1>1, <1>3
<1>7. c2 \in Chats
  BY <1>2, <1>4, <1>5, <1>6 DEF Chats
<1>8. c2.events = Append(c.events, e) /\ c2.thread = c.thread /\ c2.bound = c.bound /\ c2.finished = f
  BY <1>2 DEF Chats
<1> QED BY <1>4, <1>7, <1>8 DEF e

\* An event is appended: it is numbered above all events there are, and born after them.
LEMMA EventJoins ==
  ASSUME NEW c, NEW g, NEW d, NEW w, NEW p, NEW h, Inv(c, g, d, w, p, h), c.thread # 0,
         NEW r \in Runs \cup {None}, NEW type \in Types, type \in {"ask", "end"} => r \in c.bound,
         NEW h2 \in Pasts, h2.born = h.born + 1, h2.threads = h.threads, h2.cleared = h.cleared,
         h2.clears = h.clears, h2.restarts = h.restarts,
         h2.born <= MaxEvents + Cardinality(Over(g))
  PROVE  Inv(Append1(c, h.born + 1, r, type), g, d, w, p, h2)
<1> DEFINE n == h.born + 1
           e == Event(c, n, r, type)
           c2 == Append1(c, n, r, type)
           A == Around(c, d.saved, w)
           B == Around(c2, d.saved, w)
<1>1. c \in Chats /\ ChatOK(c, h.born, h.threads) /\ h.born \in Nat /\ h.threads \in Nat /\ n \in Nat
      /\ c.thread \in Nat /\ c.next \in Nat /\ c.events \in Seq(Events) /\ h.cleared \in Nat
      /\ c.next >= 1 /\ c.next <= n /\ c.thread <= h.threads /\ c.bound \subseteq Runs
  <2>1. ChatOK(c, h.born, h.threads) /\ h \in Pasts
    BY DEF Inv, PastOK
  <2> QED BY <2>1 DEF ChatOK, Chats, Pasts
<1>2. ~p.clearing /\ Tells(w) = {} /\ Erases(d.queue) = {}
  BY NotClearing
<1> HIDE DEF n
<1>3. /\ e \in Events /\ e.thread = c.thread /\ e.seq = c.next /\ e.n = n /\ e.run = r /\ e.type = type
      /\ c2 \in Chats /\ c2.events = Append(c.events, e) /\ c2.next = c.next + 1
      /\ c2.thread = c.thread /\ c2.bound = c.bound
      /\ c2.finished = c.finished \/ (type = "end" /\ c2.finished = c.finished \cup {r})
  <2>1. type = "end" => r \in Runs
    BY <1>1
  <2>2. c \in Chats /\ n \in Nat
    BY <1>1
  <2> HIDE DEF e, c2
  <2>3. e = Event(c, n, r, type) /\ c2 = Append1(c, n, r, type)
    BY DEF e, c2
  <2>4. /\ e \in Events /\ e.thread = c.thread /\ e.seq = c.next /\ e.n = n /\ e.run = r
        /\ e.type = type
    BY <2>2, <2>3, EventFields
  <2>5. /\ c2 \in Chats /\ c2.events = Append(c.events, Event(c, n, r, type))
        /\ c2.thread = c.thread /\ c2.bound = c.bound
        /\ c2.finished = c.finished \/ (type = "end" /\ c2.finished = c.finished \cup {r})
    <3>1. c2 = Append1(c, n, r, type)
      BY <2>3
    <3> HIDE DEF A, B
    <3>2. c2 \in Chats
      BY <2>1, <2>2, <3>1, ChatFields
    <3>3. c2.events = Append(c.events, Event(c, n, r, type))
      BY <2>2, <3>1 DEF Append1, Chats
    <3>4. c2.thread = c.thread /\ c2.bound = c.bound
      BY <2>1, <2>2, <3>1, ChatFields
    <3>5. c2.finished = c.finished \/ (type = "end" /\ c2.finished = c.finished \cup {r})
      BY <2>2, <3>1 DEF Append1, Chats
    <3> QED BY <3>2, <3>3, <3>4, <3>5
  <2>7. c2.events = Append(c.events, e)
    BY <2>3, <2>5
  <2>6. c2.next = c.next + 1
    BY <2>2, <2>3 DEF Append1, Chats
  <2> QED BY <2>4, <2>5, <2>6, <2>7
<1> HIDE DEF e, c2
<1>4. /\ ToSet(c2.events) = ToSet(c.events) \cup {e}
      /\ DOMAIN c2.events = DOMAIN c.events \cup {Len(c.events) + 1}
      /\ c2.events[Len(c.events) + 1] = e
      /\ \A i \in DOMAIN c.events : c2.events[i] = c.events[i] /\ i # Len(c.events) + 1 /\ i < Len(c.events) + 1
      /\ DOMAIN c.events = 1 .. Len(c.events) /\ Len(c.events) \in Nat
  BY <1>1, <1>3, Appended
<1>5. B = A \cup {e}
  BY <1>4 DEF Around
<1>6. AroundOK(A, h.born, h.threads) /\ Lineage(c, A, p) /\ OfferedOK(p, A, h.born)
  BY DEF Inv
<1>7. \A a \in A : /\ a.thread = c.thread /\ a.seq < e.seq /\ a.n < e.n /\ a.seq \in Nat /\ a.n \in Nat
                   /\ a.n <= h.born
  BY <1>1, <1>3, <1>6 DEF Lineage, AroundOK, Events, n
<1>8. ChatOK(c2, h2.born, h2.threads)
  <2>1. Increasing(c2.events)
    <3>1. \A i \in DOMAIN c.events : c.events[i].seq < e.seq
      BY <1>7 DEF Around, ToSet
    <3>2. Increasing(c.events)
      BY <1>1 DEF ChatOK
    <3> QED BY <1>4, <3>1, <3>2 DEF Increasing
  <2>2. \A x \in ToSet(c2.events) : /\ x.thread = c2.thread /\ x.seq < c2.next
                                    /\ x.type = "ask" => x.run \in c2.bound
    <3>1. \A x \in ToSet(c.events) : x.thread = c.thread /\ x.seq < c.next + 1
      BY <1>1, <1>3, <1>7 DEF Around
    <3> QED BY <1>1, <1>3, <1>4, <3>1 DEF ChatOK
  <2> QED BY <1>1, <1>3, <2>1, <2>2 DEF ChatOK, n
<1>9. AroundOK(B, h2.born, h2.threads)
  <2>1. ASSUME NEW a \in B
        PROVE  /\ a \in Events /\ a.thread >= 1 /\ a.thread <= h2.threads
               /\ a.seq >= 1 /\ a.seq <= a.n /\ a.n <= h2.born
    <3>1. CASE a = e
      BY <1>1, <1>3, <3>1 DEF n
    <3>2. CASE a \in A
      BY <1>1, <1>6, <1>7, <3>2 DEF AroundOK
    <3> QED BY <1>5, <3>1, <3>2
  <2>2. ASSUME NEW a \in B, NEW b \in B
        PROVE  /\ a.thread = b.thread
               /\ a.seq < b.seq => a.n < b.n
               /\ a.seq = b.seq => a = b
    <3>1. CASE a \in A /\ b \in A
      BY <1>6, <3>1 DEF AroundOK
    <3>2. CASE a = e /\ b \in A
      BY <1>1, <1>3, <1>7, <3>2
    <3>3. CASE a \in A /\ b = e
      BY <1>1, <1>3, <1>7, <3>3
    <3> QED BY <1>1, <1>3, <1>5, <3>1, <3>2, <3>3
  <2> QED BY <2>1, <2>2 DEF AroundOK
<1>10. Lineage(c2, B, p)
  <2>1. \A a \in B : a.thread = c2.thread /\ a.seq < c2.next
    BY <1>1, <1>3, <1>5, <1>7
  <2> QED BY <1>3, <2>1 DEF Lineage
<1>11. OfferedOK(p, B, h2.born)
  <2>1. p.offered \in Seq(Nat) /\ \A i \in DOMAIN p.offered : p.offered[i] \in Nat /\ p.offered[i] <= h.born
    BY <1>6 DEF Inv, Panels, OfferedOK
  <2>2. \A i \in DOMAIN p.offered : p.offered[i] <= h2.born /\ p.offered[i] < e.n
    BY <1>1, <1>3, <2>1 DEF n
  <2> QED BY <1>5, <1>6, <2>2 DEF OfferedOK
<1>12. ASSUME h2.restarts = 0 PROVE PassedOK(c2, p, h2) /\ WireWhole(c2, w, p)
  <2>1. PassedOK(c, p, h) /\ WireWhole(c, w, p)
    BY <1>12 DEF Inv
  <2>2. c.thread \in Threads /\ p.seen[c.thread] \in Nat
    <3>1. c.thread \in Threads
      BY <1>1, ThreadsFit DEF Inv
    <3> QED BY <3>1 DEF Inv, Panels
  <2>3. p.seen[c.thread] < c.next
    BY <2>1 DEF PassedOK
  <2>4. PassedOK(c2, p, h2)
    BY <1>1, <1>3, <1>4, <2>1, <2>2, <2>3 DEF PassedOK
  <2>5. ASSUME NEW i \in DOMAIN w, Reads(w[i]) PROVE Holeless(c2, w[i].events, p)
    <3>1. Holeless(c, w[i].events, p)
      BY <2>1, <2>5 DEF WireWhole
    <3>2. \A f \in ToSet(w[i].events) : f \in A
      BY <2>5 DEF Around, OnWire, Carried, Reads
    <3>3. \A f \in ToSet(w[i].events) : ~(e.seq < f.seq)
      BY <1>1, <1>3, <1>7, <3>2
    <3> QED BY <1>4, <3>1, <3>3 DEF Holeless
  <2>6. WireWhole(c2, w, p)
    BY <1>3, <2>1, <2>5 DEF WireWhole
  <2> QED BY <2>4, <2>6
<1>13. ClearOK(c2, g, d, w, p, h2)
  <2>1. ClearOK(c, g, d, w, p, h) /\ h.cleared <= h.born
    BY DEF Inv, ClearOK
  <2>2. e.n > h2.cleared /\ h2.cleared <= h2.born
    BY <1>1, <1>3, <2>1 DEF n
  <2> QED BY <1>2, <1>4, <2>1, <2>2 DEF ClearOK
<1>14. PastOK(c2, g, h2)
  BY <1>3 DEF Inv, PastOK
<1> QED BY <1>3, <1>8, <1>9, <1>10, <1>11, <1>12, <1>13, <1>14 DEF Inv, c2, n

\* The first event of a conversation makes its thread.
LEMMA ThreadBegins ==
  ASSUME NEW c, NEW g, NEW d, NEW w, NEW p, NEW h, Inv(c, g, d, w, p, h), c.thread = 0, ~p.clearing,
         NEW h2 \in Pasts, h2.born = h.born, h2.threads = h.threads + 1, h2.cleared = h.cleared,
         h2.clears = h.clears, h2.restarts = h.restarts
  PROVE  Inv([c EXCEPT !.thread = h.threads + 1], g, d, w, p, h2)
<1> DEFINE c2 == [c EXCEPT !.thread = h.threads + 1]
           A == Around(c, d.saved, w)
<1>1. c \in Chats /\ ChatOK(c, h.born, h.threads) /\ h.threads \in Nat /\ PastOK(c, g, h) /\ h.clears \in Nat
      /\ h.restarts \in Nat
  BY DEF Inv, ChatOK, PastOK, Pasts
<1>2. c2 \in Chats /\ c2.thread = h.threads + 1 /\ c2.events = c.events /\ c2.next = c.next
      /\ c2.bound = c.bound /\ c2.finished = c.finished
  BY <1>1 DEF Chats
<1> HIDE DEF c2
<1>3. A = {} /\ p.resync = None /\ Around(c2, d.saved, w) = A
  BY <1>2 DEF Inv, Lineage, Around
<1>4. c.events = <<>> /\ ToSet(c.events) = {} /\ DOMAIN c.events = {}
  BY <1>1, NoElements DEF ChatOK
<1>5. ChatOK(c2, h2.born, h2.threads)
  BY <1>1, <1>2, <1>4 DEF ChatOK, Increasing
<1>6. AroundOK({}, h2.born, h2.threads) /\ Lineage(c2, {}, p) /\ OfferedOK(p, {}, h2.born)
  BY <1>3 DEF AroundOK, Lineage, OfferedOK, Inv
<1>7. ASSUME h2.restarts = 0 PROVE PassedOK(c2, p, h2) /\ WireWhole(c2, w, p)
  <2>1. PassedOK(c, p, h)
    BY <1>7 DEF Inv
  <2>2. h.threads + 1 \in Threads
    BY <1>1, ThreadsFit
  <2>3. p.seen[h.threads + 1] = 0 /\ c.next >= 1
    BY <1>1, <2>1, <2>2 DEF PassedOK, ChatOK
  <2>4. \A t \in Threads : t > h2.threads => p.seen[t] = 0
    BY <1>1, <2>1 DEF PassedOK, Threads
  <2>5. PassedOK(c2, p, h2)
    BY <1>1, <1>2, <1>4, <2>3, <2>4 DEF PassedOK, Chats
  <2>6. WireWhole(c2, w, p)
    BY <1>2, <1>3, <1>4 DEF WireWhole, Holeless
  <2> QED BY <2>5, <2>6
<1>8. ClearOK(c2, g, d, w, p, h2)
  BY <1>2 DEF Inv, ClearOK
<1>9. PastOK(c2, g, h2)
  BY <1>1, <1>2 DEF PastOK
<1>10. StoredOK(d.saved, h2.threads)
  <2>1. StoredOK(d.saved, h.threads)
    BY DEF Inv
  <2> QED BY <1>1, <2>1 DEF StoredOK
<1> QED BY <1>3, <1>5, <1>6, <1>7, <1>8, <1>9, <1>10 DEF Inv, c2

\* A run is bound to the thread.
LEMMA RunBinds ==
  ASSUME NEW c, NEW g, NEW d, NEW w, NEW p, NEW h, Inv(c, g, d, w, p, h), c.thread # 0, NEW r \in Runs
  PROVE  Inv([c EXCEPT !.bound = @ \cup {r}, !.finished = @ \ {r}], g, d, w, p, h)
<1> DEFINE c2 == [c EXCEPT !.bound = @ \cup {r}, !.finished = @ \ {r}]
<1>1. c \in Chats /\ ChatOK(c, h.born, h.threads)
  BY DEF Inv, ChatOK
<1>2. ~p.clearing
  BY NotClearing
<1>3. c2 = [c EXCEPT !.bound = c.bound \cup {r}, !.finished = c.finished \ {r}]
  BY <1>1 DEF Chats
<1>4. c.bound \cup {r} \in SUBSET Runs /\ c.finished \ {r} \in SUBSET Runs
  BY <1>1 DEF Chats
<1>5. c2 \in Chats /\ c2.thread = c.thread /\ c2.events = c.events /\ c2.next = c.next
      /\ c2.bound = c.bound \cup {r} /\ c2.finished = c.finished \ {r}
  <2> HIDE DEF c2
  <2> QED BY <1>1, <1>3, <1>4 DEF Chats
<1> HIDE DEF c2
<1>6. ChatOK(c2, h.born, h.threads)
  BY <1>1, <1>5 DEF ChatOK
<1>7. Around(c2, d.saved, w) = Around(c, d.saved, w)
  BY <1>5 DEF Around
<1>8. Lineage(c2, Around(c, d.saved, w), p) /\ PastOK(c2, g, h)
  BY <1>5 DEF Inv, Lineage, PastOK
<1>9. h.restarts = 0 => PassedOK(c2, p, h) /\ WireWhole(c2, w, p)
  BY <1>5 DEF Inv, PassedOK, WireWhole, Holeless
<1>10. ClearOK(c2, g, d, w, p, h)
  BY <1>2, <1>5 DEF Inv, ClearOK
<1> QED BY <1>6, <1>7, <1>8, <1>9, <1>10 DEF Inv, c2

-----------------------------------------------------------------------------
(* publish(): the event joins the store, then the disk and the wire.       *)

LEMMA ScheduledRests ==
  ASSUME NEW c, NEW g, NEW d, NEW w, NEW p, NEW h, Inv(c, g, disk, w, p, h), NEW immediate \in BOOLEAN,
         d = Scheduled(immediate)
  PROVE  Inv(c, g, d, w, p, h)
<1>1. DiskOK(disk) /\ disk.queue \in Seq(Jobs)
  BY DEF Inv, DiskOK
<1>2. [job |-> "snapshot"] \in Jobs
  BY DEF Jobs
<1>3. CASE immediate
  <2>1. d = [disk EXCEPT !.timer = FALSE, !.queue = Append(disk.queue, [job |-> "snapshot"])]
    BY <1>3 DEF Scheduled
  <2>2. Append(disk.queue, [job |-> "snapshot"]) \in Seq(Jobs)
    BY <1>1, <1>2
  <2>3. /\ DOMAIN d = {"saved", "timer", "queue"} /\ d.saved = disk.saved /\ d.timer = FALSE
        /\ d.queue = Append(disk.queue, [job |-> "snapshot"])
    BY <1>1, <2>1 DEF DiskOK
  <2>4. DiskOK(d)
    BY <2>2, <2>3 DEF DiskOK
  <2> QED BY <2>3, <2>4, DiskRests
<1>4. CASE ~immediate
  <2>1. d = [disk EXCEPT !.timer = TRUE]
    BY <1>4 DEF Scheduled
  <2>2. DOMAIN d = {"saved", "timer", "queue"} /\ d.saved = disk.saved /\ d.timer = TRUE
        /\ d.queue = disk.queue
    BY <1>1, <2>1 DEF DiskOK
  <2>3. DiskOK(d)
    BY <1>1, <2>2 DEF DiskOK
  <2> QED BY <2>2, <2>3, DiskRests
<1> QED BY <1>3, <1>4

LEMMA PostGrows ==
  ASSUME NEW c, NEW g, NEW d, NEW p, NEW h, Inv(c, g, d, wire, p, h), NEW e \in ToSet(c.events)
  PROVE  Inv(c, g, d, Post(e), p, h)
<1> DEFINE m == [kind |-> "live", event |-> e]
<1>1. e \in Events
  BY DEF Inv, AroundOK, Around
<1>2. m \in Messages /\ m.kind = "live" /\ m.event = e
  BY <1>1 DEF Messages
<1> HIDE DEF m
<1>3. Carried(m) \subseteq ToSet(c.events) /\ ~Reads(m)
  BY <1>2 DEF Carried, Reads
<1>4. Inv(c, g, d, Append(wire, m), p, h)
  BY <1>2, <1>3, WireGrows
<1> QED BY <1>4 DEF Post, m

LEMMA OversCounted ==
  ASSUME NEW g
  PROVE  /\ Over(g) \subseteq Runs /\ IsFiniteSet(Over(g)) /\ Cardinality(Over(g)) \in Nat
         /\ MaxEvents + Cardinality(Over(g)) \in Nat /\ Cardinality(Over(g)) <= Cardinality(Runs)
         /\ Cardinality(Runs) \in Nat
<1>1. Over(g) \subseteq Runs
  BY DEF Over
<1>2. IsFiniteSet(Over(g)) /\ Cardinality(Over(g)) <= Cardinality(Runs)
  BY <1>1, Nats, FS_Subset
<1>3. Cardinality(Over(g)) \in Nat /\ Cardinality(Runs) \in Nat
  BY <1>2, Nats, FS_CardinalityType
<1> QED BY <1>1, <1>2, <1>3, Nats

\* The greater of two threads.
Latest(a, b) == IF a > b THEN a ELSE b

\* The history of an event that is published.
LEMMA GivenGrows ==
  ASSUME past \in Pasts, NEW c \in Chats, chat \in Chats, NEW d \in Chats,
         d.thread \in Threads, Len(d.events) >= Len(chat.events), NEW h, h = Given(chat, d)
  PROVE  /\ h \in Pasts /\ h.born = past.born + Len(d.events) - Len(chat.events)
         /\ h.threads = Latest(d.thread, past.threads)
         /\ h.cleared = past.cleared /\ h.clears = past.clears /\ h.restarts = past.restarts
<1> DEFINE K == Len(d.events) - Len(chat.events)
           more == [i \in 1 .. Len(d.events) - Len(chat.events) |-> d.events[Len(chat.events) + i].seq]
           t == d.thread
           tops == Latest(d.thread, past.threads)
           given == [past.given EXCEPT ![t] = past.given[t] \o more]
<1>1. /\ past.born \in Nat /\ past.threads \in Nat /\ past.given \in [Threads -> Seq(Nat)] /\ t \in Nat
      /\ chat.events \in Seq(Events) /\ d.events \in Seq(Events)
      /\ Len(chat.events) \in Nat /\ Len(d.events) \in Nat /\ K \in Nat
  BY DEF Pasts, Chats
<1>2. more \in Seq(Nat)
  <2>1. \A i \in 1 .. K : d.events[Len(chat.events) + i] \in Events
    BY <1>1
  <2>2. \A i \in 1 .. K : d.events[Len(chat.events) + i].seq \in Nat
    BY <2>1 DEF Events
  <2> QED BY <1>1, <2>2
<1>3. given \in [Threads -> Seq(Nat)]
  <2> HIDE DEF more
  <2>1. past.given[t] \o more \in Seq(Nat)
    BY <1>1, <1>2
  <2> QED BY <1>1, <2>1
<1>4. tops \in Nat /\ past.born + Len(d.events) - Len(chat.events) \in Nat
  <2>1. tops \in Nat
    BY <1>1 DEF Latest
  <2>2. past.born + Len(d.events) - Len(chat.events) = past.born + K
    BY <1>1
  <2> HIDE DEF K, tops
  <2>3. past.born + K \in Nat
    BY <1>1
  <2> QED BY <2>1, <2>2, <2>3
<1>5. h = [past EXCEPT !.born = past.born + Len(d.events) - Len(chat.events), !.threads = tops,
                       !.given = given]
  BY DEF Given, Pasts, Latest
<1> HIDE DEF given, tops
<1>6. h \in Pasts
  BY <1>3, <1>4, <1>5 DEF Pasts
<1>7. /\ h.born = past.born + Len(d.events) - Len(chat.events) /\ h.threads = tops
      /\ h.cleared = past.cleared /\ h.clears = past.clears /\ h.restarts = past.restarts
  BY <1>5 DEF Pasts
<1> QED BY <1>6, <1>7 DEF tops

LEMMA NextSum == ASSUME NEW a \in Nat, NEW b \in Nat, NEW k \in Nat
                 PROVE  a + (b + 1) - k = (a + b - k) + 1
  OBVIOUS

\* h1 is the history when the store has come to c.
Since(c, h1) ==
  /\ h1.born = past.born + Len(c.events) - Len(chat.events)
  /\ h1.threads = Latest(c.thread, past.threads)
  /\ h1.cleared = past.cleared /\ h1.clears = past.clears /\ h1.restarts = past.restarts
  /\ Len(c.events) >= Len(chat.events)

LEMMA PublishKeeps ==
  ASSUME NEW c, NEW g, NEW h1, h1 \in Pasts, Inv(c, g, disk, wire, panel, h1), c.thread # 0,
         NEW r \in Runs, r \in c.bound, NEW type \in Types, past \in Pasts, chat \in Chats,
         Since(c, h1), h1.born < MaxEvents + Cardinality(Over(g)), Publish(c, r, type)
  PROVE  Inv(chat', g, disk', wire', panel, past')
<1> DEFINE d == Append1(c, past.born + Len(c.events) - Len(chat.events) + 1, r, type)
           e == Event(c, h1.born + 1, r, type)
<1>1. /\ chat' = d /\ past' = Given(chat, d)
      /\ IF OverQuota(d) THEN UNCHANGED <<disk, wire>>
         ELSE /\ disk' = Scheduled(type = "end")
              /\ wire' = Post(Last(d.events))
  BY DEF Publish
<1>2. d = Append1(c, h1.born + 1, r, type)
  BY DEF Since
<1>3. c \in Chats /\ h1.born \in Nat /\ c.events \in Seq(Events) /\ Len(c.events) \in Nat
      /\ Len(chat.events) \in Nat /\ past.born \in Nat /\ past.threads \in Nat /\ c.thread \in Nat
      /\ c.thread \in Threads
  <2>1. c \in Chats /\ PastOK(c, g, h1) /\ c.thread <= h1.threads
    BY DEF Inv, ChatOK
  <2>2. c.thread \in Nat
    BY <2>1 DEF Chats
  <2>3. c.thread \in Threads
    BY <2>1, <2>2, ThreadsFit
  <2> QED BY <2>1, <2>3, SMTT(20) DEF Chats, Pasts
<1> HIDE DEF d
<1>4. d \in Chats /\ d.thread = c.thread /\ Len(d.events) = Len(c.events) + 1
      /\ Last(d.events) \in ToSet(d.events)
  <2> DEFINE n == h1.born + 1
  <2>1. n \in Nat /\ r \in Runs \cup {None}
    BY <1>3
  <2>2. d = Append1(c, n, r, type)
    BY <1>2
  <2> HIDE DEF n
  <2>3. c \in Chats /\ (type = "end" => r \in Runs)
    BY <1>3
  <2>5. Event(c, n, r, type) \in Events
    BY <2>1, <2>3, EventFields
  <2>6. d \in Chats /\ d.thread = c.thread /\ d.events = Append(c.events, Event(c, n, r, type))
    BY <2>1, <2>2, <2>3, ChatFields
  <2>4. Len(d.events) = Len(c.events) + 1 /\ Len(d.events) \in DOMAIN d.events
    BY <1>3, <2>5, <2>6
  <2> QED BY <2>4, <2>6 DEF Last, ToSet
<1>5. /\ past' \in Pasts /\ past'.born = h1.born + 1 /\ past'.threads = h1.threads
      /\ past'.cleared = h1.cleared /\ past'.clears = h1.clears /\ past'.restarts = h1.restarts
  <2>1. Len(d.events) >= Len(chat.events) /\ d.thread \in Threads
    BY <1>3, <1>4 DEF Since
  <2> DEFINE h == Given(chat, d)
  <2>2. /\ h \in Pasts /\ h.born = past.born + Len(d.events) - Len(chat.events)
        /\ h.threads = Latest(d.thread, past.threads)
        /\ h.cleared = past.cleared /\ h.clears = past.clears /\ h.restarts = past.restarts
    BY <1>4, <2>1, GivenGrows
  <2> HIDE DEF h
  <2>3. past' = h
    BY <1>1 DEF h
  <2>4. h.born = h1.born + 1
    <3>1. h.born = past.born + Len(d.events) - Len(chat.events)
      BY <2>2
    <3>2. h1.born = past.born + Len(c.events) - Len(chat.events)
      BY DEF Since
    <3>3. Len(d.events) = Len(c.events) + 1 /\ Len(c.events) \in Nat /\ Len(chat.events) \in Nat
          /\ past.born \in Nat
      BY <1>3, <1>4
    <3>4. h.born = past.born + (Len(c.events) + 1) - Len(chat.events)
      BY <3>1, <3>3
    <3>5. past.born + (Len(c.events) + 1) - Len(chat.events)
            = (past.born + Len(c.events) - Len(chat.events)) + 1
      BY <3>3, NextSum, Zenon
    <3> QED BY <3>2, <3>4, <3>5, Zenon
  <2>5. h.threads = h1.threads /\ h.cleared = h1.cleared /\ h.clears = h1.clears
        /\ h.restarts = h1.restarts
    BY <1>4, <2>2 DEF Since
  <2> QED BY <2>2, <2>3, <2>4, <2>5
<1>6. Inv(d, g, disk, wire, panel, past')
  <2> DEFINE h2 == past'
  <2>1. /\ h2 \in Pasts /\ h2.born = h1.born + 1 /\ h2.threads = h1.threads
        /\ h2.cleared = h1.cleared /\ h2.clears = h1.clears /\ h2.restarts = h1.restarts
    BY <1>5
  <2> HIDE DEF h2
  <2>2. h2.born <= MaxEvents + Cardinality(Over(g))
    <3>1. MaxEvents + Cardinality(Over(g)) \in Nat
      BY OversCounted
    <3> QED BY <1>3, <2>1, <3>1
  <2>3. Inv(Append1(c, h1.born + 1, r, type), g, disk, wire, panel, h2)
    BY <2>1, <2>2, EventJoins
  <2> QED BY <1>2, <2>3 DEF h2
<1>7. CASE OverQuota(d)
  BY <1>1, <1>6, <1>7
<1>8. CASE ~OverQuota(d)
  <2> DEFINE dd == Scheduled(type = "end")
             h2 == past'
  <2>1. Inv(d, g, dd, wire, panel, h2)
    <3>1. (type = "end") \in BOOLEAN /\ Inv(d, g, disk, wire, panel, h2)
      BY <1>6
    <3> HIDE DEF h2
    <3> QED BY <3>1, ScheduledRests
  <2>2. Inv(d, g, dd, Post(Last(d.events)), panel, h2)
    <3> HIDE DEF dd, h2
    <3> QED BY <1>4, <2>1, PostGrows
  <2> QED BY <1>1, <1>8, <2>2
<1> QED BY <1>7, <1>8

-----------------------------------------------------------------------------
(* The steps of the worker.                                                *)

LEMMA Parts ==
  ASSUME ThreadInv
  PROVE  /\ Inv(chat, run, disk, wire, panel, past) /\ chat \in Chats /\ past \in Pasts
         /\ panel \in Panels /\ run \in [Runs -> {"new", "asked", "live", "over"}]
         /\ wire \in Seq(Messages) /\ DiskOK(disk)
<1>1. Inv(chat, run, disk, wire, panel, past)
  BY DEF ThreadInv
<1> QED BY <1>1 DEF Inv, ChatOK, PastOK, WireOK

\* The thread that the store makes or marks for a run.
Made(moved) ==
  IF chat.thread = 0 THEN [chat EXCEPT !.thread = past.threads + 1]
  ELSE IF moved THEN Append1(chat, past.born + 1, None, "scope") ELSE chat

LEMMA MadeKeeps ==
  ASSUME NEW g, Inv(chat, g, disk, wire, panel, past), ~panel.clearing, NEW moved \in BOOLEAN,
         past.born + 1 < MaxEvents, NEW made, made = Made(moved)
  PROVE  \E h1 \in Pasts : /\ Inv(made, g, disk, wire, panel, h1) /\ Since(made, h1)
                           /\ made.thread # 0 /\ h1.born <= past.born + 1
<1>1. /\ chat \in Chats /\ past \in Pasts /\ past.born \in Nat /\ past.threads \in Nat
      /\ chat.thread \in Nat /\ chat.thread <= past.threads
      /\ Len(chat.events) \in Nat /\ chat.events \in Seq(Events)
  <2>1. chat \in Chats /\ past \in Pasts /\ chat.thread <= past.threads
    BY DEF Inv, ChatOK, PastOK
  <2> QED BY <2>1 DEF Chats, Pasts
<1>2. past.born + Len(chat.events) - Len(chat.events) = past.born
  BY <1>1
<1>3. CASE chat.thread = 0
  <2> DEFINE h1 == [past EXCEPT !.threads = past.threads + 1]
  <2>1. /\ h1 \in Pasts /\ h1.born = past.born /\ h1.threads = past.threads + 1
        /\ h1.cleared = past.cleared /\ h1.clears = past.clears /\ h1.restarts = past.restarts
    BY <1>1, SMTT(20) DEF Pasts
  <2> HIDE DEF h1
  <2>2. made = [chat EXCEPT !.thread = past.threads + 1]
    BY <1>3 DEF Made
  <2>3. Inv(made, g, disk, wire, panel, h1)
    BY <1>3, <2>1, <2>2, ThreadBegins
  <2>4. made.events = chat.events /\ made.thread = past.threads + 1
    BY <1>1, <2>2 DEF Chats
  <2>5. Since(made, h1)
    <3>1. Latest(made.thread, past.threads) = past.threads + 1
      BY <1>1, <2>4 DEF Latest
    <3> QED BY <1>1, <1>2, <2>1, <2>4, <3>1 DEF Since
  <2>6. made.thread # 0 /\ h1.born <= past.born + 1
    BY <1>1, <2>1, <2>4
  <2> QED BY <2>1, <2>3, <2>5, <2>6
<1>4. CASE chat.thread # 0
  <2>1. Latest(chat.thread, past.threads) = past.threads
    BY <1>1 DEF Latest
  <2>2. CASE moved
    <3> DEFINE n == past.born + 1
               h1 == [past EXCEPT !.born = n]
    <3>1. n \in Nat
      BY <1>1
    <3>2. /\ h1 \in Pasts /\ h1.born = past.born + 1 /\ h1.threads = past.threads
          /\ h1.cleared = past.cleared /\ h1.clears = past.clears /\ h1.restarts = past.restarts
      BY <3>1 DEF Inv, PastOK, Pasts
    <3> HIDE DEF h1
    <3>3. h1.born <= MaxEvents + Cardinality(Over(g))
      BY <1>1, <3>2, OversCounted, Nats
    <3>4. made = Append1(chat, past.born + 1, None, "scope")
      BY <1>4, <2>2 DEF Made
    <3>5. Inv(made, g, disk, wire, panel, h1)
      <4>1. None \in Runs \cup {None} /\ "scope" \in Types /\ "scope" \notin {"ask", "end"}
        BY DEF Types
      <4>2. Inv(Append1(chat, past.born + 1, None, "scope"), g, disk, wire, panel, h1)
        BY <1>4, <3>2, <3>3, <4>1, EventJoins
      <4> QED BY <3>4, <4>2
    <3>6. made.thread = chat.thread /\ Len(made.events) = Len(chat.events) + 1
      <4> HIDE DEF n
      <4>1. made = Append1(chat, n, None, "scope")
        BY <3>4 DEF n
      <4>2. /\ made.thread = chat.thread
            /\ made.events = Append(chat.events, Event(chat, n, None, "scope"))
        BY <1>1, <4>1 DEF Append1, Chats
      <4>3. Event(chat, n, None, "scope") \in Events
        BY <1>1, <3>1 DEF Event, Events, Chats, Types
      <4> QED BY <1>1, <4>2, <4>3
    <3>7. Since(made, h1)
      <4>1. past.born + Len(made.events) - Len(chat.events) = past.born + 1
        <5>1. past.born + (Len(chat.events) + 1) - Len(chat.events)
                = (past.born + Len(chat.events) - Len(chat.events)) + 1
          BY <1>1, NextSum, Zenon
        <5> QED BY <1>2, <3>6, <5>1, Zenon
      <4>2. Len(made.events) >= Len(chat.events)
        BY <1>1, <3>6
      <4> QED BY <2>1, <3>2, <3>6, <4>1, <4>2 DEF Since
    <3>8. h1.born <= past.born + 1
      BY <1>1, <3>2
    <3> QED BY <1>4, <3>2, <3>5, <3>6, <3>7, <3>8
  <2>3. CASE ~moved
    <3>1. made = chat
      BY <1>4, <2>3 DEF Made
    <3>2. Since(chat, past)
      BY <1>1, <1>2, <2>1 DEF Since
    <3>3. past.born <= past.born + 1
      BY <1>1
    <3> QED BY <1>1, <1>4, <3>1, <3>2, <3>3
  <2> QED BY <2>2, <2>3
<1> QED BY <1>3, <1>4

LEMMA StartKeeps == ASSUME ThreadInv, NEW r \in Runs, Start(r) PROVE ThreadInv'
<1> DEFINE g == run'
<1>1. /\ Inv(chat, run, disk, wire, panel, past) /\ chat \in Chats /\ past \in Pasts
      /\ run \in [Runs -> {"new", "asked", "live", "over"}]
  BY Parts
<1>2. run[r] = "asked" /\ past.born + 1 < MaxEvents /\ g = [run EXCEPT ![r] = "live"] /\ panel' = panel
  BY DEF Start
<1>3. PICK moved \in BOOLEAN : Publish(Bind(chat, r, moved), r, "open")
  BY DEF Start
<1>4. ~panel.clearing
  BY <1>1, <1>2, NotClearing
<1>5. g \in [Runs -> {"new", "asked", "live", "over"}] /\ Over(run) \subseteq Over(g)
  BY <1>1, <1>2 DEF Over
<1> HIDE DEF g
<1>6. Inv(chat, g, disk, wire, panel, past)
  BY <1>1, <1>4, <1>5, RunsChange
<1> DEFINE made == Made(moved)
           c == Bind(chat, r, moved)
<1>7. PICK h1 \in Pasts : /\ Inv(made, g, disk, wire, panel, h1) /\ Since(made, h1)
                          /\ made.thread # 0 /\ h1.born <= past.born + 1
  BY <1>2, <1>4, <1>6, MadeKeeps
<1>8. c = [made EXCEPT !.bound = @ \cup {r}, !.finished = @ \ {r}]
  BY DEF Bind, Made
<1> HIDE DEF made, c
<1>9. Inv(c, g, disk, wire, panel, h1)
  BY <1>7, <1>8, RunBinds
<1>10. made \in Chats
  BY <1>7 DEF Inv, ChatOK
<1>11. c.thread = made.thread /\ c.events = made.events /\ r \in c.bound
  BY <1>8, <1>10 DEF Chats
<1>12. Since(c, h1)
  BY <1>7, <1>11 DEF Since
<1>13. h1.born < MaxEvents + Cardinality(Over(g))
  <2>1. h1.born \in Nat /\ past.born \in Nat
    BY <1>1 DEF Pasts
  <2> QED BY <1>2, <1>7, <2>1, OversCounted, Nats
<1>14. Publish(c, r, "open") /\ "open" \in Types
  BY <1>3 DEF c, Types
<1>15. Inv(chat', g, disk', wire', panel, past')
  BY <1>1, <1>7, <1>9, <1>11, <1>12, <1>13, <1>14, PublishKeeps
<1> QED BY <1>2, <1>15 DEF ThreadInv, g

LEMMA SinceChat ==
  ASSUME ThreadInv PROVE Since(chat, past)
<1>1. /\ past.born \in Nat /\ past.threads \in Nat /\ chat.thread \in Nat /\ chat.thread <= past.threads
      /\ Len(chat.events) \in Nat
  <2>1. chat \in Chats /\ past \in Pasts /\ chat.thread <= past.threads
    BY DEF ThreadInv, Inv, ChatOK, PastOK
  <2> QED BY <2>1 DEF Chats, Pasts
<1>2. past.born + Len(chat.events) - Len(chat.events) = past.born
  BY <1>1
<1>3. Latest(chat.thread, past.threads) = past.threads
  BY <1>1 DEF Latest
<1> QED BY <1>1, <1>2, <1>3 DEF Since

\* A run that is bound is bound to a thread.
LEMMA BoundThread == ASSUME ThreadInv, NEW r \in chat.bound PROVE chat.thread # 0
  BY DEF ThreadInv, Inv, ChatOK

LEMMA SayKeeps == ASSUME ThreadInv, NEW r \in Runs, Say(r) PROVE ThreadInv'
<1>1. Inv(chat, run, disk, wire, panel, past) /\ chat \in Chats /\ past \in Pasts
  BY Parts
<1>2. PICK type \in {"text", "ask"} : Publish(chat, r, type)
  BY DEF Say
<1>3. r \in chat.bound /\ past.born < MaxEvents /\ UNCHANGED <<run, panel>>
  BY DEF Say
<1>4. past.born < MaxEvents + Cardinality(Over(run))
  <2>1. past.born \in Nat
    BY <1>1 DEF Pasts
  <2> QED BY <1>3, <2>1, OversCounted, Nats
<1>5. type \in Types
  BY DEF Types
<1>6. Inv(chat', run, disk', wire', panel, past')
  BY <1>1, <1>2, <1>3, <1>4, <1>5, SinceChat, BoundThread, PublishKeeps
<1> QED BY <1>3, <1>6 DEF ThreadInv

LEMMA EndKeeps == ASSUME ThreadInv, NEW r \in Runs, End(r) PROVE ThreadInv'
<1> DEFINE g == run'
<1>1. /\ Inv(chat, run, disk, wire, panel, past) /\ chat \in Chats /\ past \in Pasts
      /\ run \in [Runs -> {"new", "asked", "live", "over"}]
  BY Parts
<1>2. /\ run[r] = "live" /\ r \in chat.bound /\ Publish(chat, r, "end")
      /\ g = [run EXCEPT ![r] = "over"] /\ panel' = panel
  BY DEF End
<1>3. ~panel.clearing
  BY <1>1, <1>2, NotClearing
<1>4. g \in [Runs -> {"new", "asked", "live", "over"}] /\ Over(g) = Over(run) \cup {r} /\ r \notin Over(run)
  BY <1>1, <1>2 DEF Over
<1> HIDE DEF g
<1>5. Inv(chat, g, disk, wire, panel, past)
  BY <1>1, <1>3, <1>4, RunsChange
<1>6. past.born < MaxEvents + Cardinality(Over(g))
  <2>1. past.born \in Nat /\ past.born <= MaxEvents + Cardinality(Over(run))
    BY <1>1 DEF Pasts, Inv, PastOK
  <2>2. Cardinality(Over(g)) = Cardinality(Over(run)) + 1
    BY <1>4, OversCounted, FS_AddElement
  <2>3. Cardinality(Over(run)) \in Nat
    BY OversCounted
  <2> QED BY <2>1, <2>2, <2>3, Nats
<1>7. "end" \in Types
  BY DEF Types
<1>8. Inv(chat', g, disk', wire', panel, past')
  BY <1>1, <1>2, <1>5, <1>6, <1>7, SinceChat, BoundThread, PublishKeeps
<1> QED BY <1>2, <1>8 DEF ThreadInv, g

LEMMA RefuseKeeps == ASSUME ThreadInv, NEW r \in Runs, Refuse(r) PROVE ThreadInv'
<1> DEFINE g == run'
           q == panel'
<1>1. /\ Inv(chat, run, disk, wire, panel, past) /\ panel \in Panels
      /\ run \in [Runs -> {"new", "asked", "live", "over"}]
  BY Parts
<1>2. /\ run[r] = "asked" /\ g = [run EXCEPT ![r] = "over"] /\ UNCHANGED <<chat, disk, wire, past>>
      /\ q = IF panel.waiting = r THEN [panel EXCEPT !.waiting = None, !.busy = FALSE] ELSE panel
  BY DEF Refuse
<1>3. ~panel.clearing
  BY <1>1, <1>2, NotClearing
<1>4. g \in [Runs -> {"new", "asked", "live", "over"}] /\ Over(run) \subseteq Over(g)
  BY <1>1, <1>2 DEF Over
<1>5. q \in Panels /\ Left(panel, q) /\ q.clearing = panel.clearing /\ q.resync = panel.resync
  <2>1. CASE q = panel
    BY <1>1, <2>1 DEF Left
  <2>2. CASE q = [panel EXCEPT !.waiting = None, !.busy = FALSE]
    BY <1>1, <2>2 DEF Left, Panels
  <2> QED BY <1>2, <2>1, <2>2
<1> HIDE DEF g, q
<1>6. Inv(chat, g, disk, wire, panel, past)
  BY <1>1, <1>3, <1>4, RunsChange
<1>7. Inv(chat, g, disk, wire, q, past)
  BY <1>5, <1>6, PanelRests
<1> QED BY <1>2, <1>7 DEF ThreadInv, g, q

LEMMA TimerKeeps == ASSUME ThreadInv, Timer PROVE ThreadInv'
<1> DEFINE d == Scheduled(TRUE)
<1>1. Inv(chat, run, disk, wire, panel, past) /\ TRUE \in BOOLEAN
  BY Parts
<1>2. Inv(chat, run, d, wire, panel, past)
  <2> HIDE DEF d
  <2>1. d = Scheduled(TRUE)
    BY DEF d
  <2> QED BY <1>1, <2>1, ScheduledRests
<1>3. disk' = d /\ UNCHANGED <<chat, run, wire, panel, past>>
  BY DEF Timer
<1> QED BY <1>2, <1>3 DEF ThreadInv

\* What a filter keeps is in the order it was in.
LEMMA WithinRises ==
  ASSUME NEW s \in Seq(Events), Increasing(s), NEW S
  PROVE  /\ Within(s, S) \in Seq(Events) /\ Increasing(Within(s, S))
         /\ ToSet(Within(s, S)) = ToSet(s) \cap S
<1> DEFINE q == Within(s, S)
<1>1. /\ q \in Seq(Events) /\ ToSet(q) = ToSet(s) \cap S
      /\ \A i, j \in DOMAIN q : i < j => \E k, l \in DOMAIN s : k < l /\ s[k] = q[i] /\ s[l] = q[j]
  BY WithinKeeps
<1> HIDE DEF q
<1>2. Increasing(q)
  BY <1>1 DEF Increasing
<1> QED BY <1>1, <1>2 DEF q

LEMMA SnapshotStored ==
  ASSUME NEW c, NEW born, NEW threads, ChatOK(c, born, threads), NEW s, s = Snapshot(c)
  PROVE  /\ StoredOK(s, threads) /\ Stored(s) \subseteq ToSet(c.events)
<1>1. c \in Chats /\ c.thread \in Nat /\ c.thread <= threads /\ c.events \in Seq(Events)
      /\ Increasing(c.events)
  BY DEF ChatOK, Chats
<1> DEFINE kept == Transcript(c.events)
<1>2. kept \in Seq(Events) /\ Increasing(kept)
      /\ ToSet(kept) = ToSet(c.events) \cap {e \in ToSet(c.events) : Persistent(e)}
  BY <1>1, WithinRises DEF Transcript
<1> HIDE DEF kept
<1>3. s = [thread |-> c.thread, events |-> kept]
  BY DEF Snapshot, kept
<1>4. s \in [thread : Nat, events : Seq(Events)] /\ s.thread = c.thread /\ s.events = kept
  BY <1>1, <1>2, <1>3
<1>5. \A e \in ToSet(kept) : e \in ToSet(c.events) /\ Persistent(e)
  BY <1>2
<1>6. c.thread = 0 => ToSet(c.events) = {}
  BY NoElements DEF ChatOK
<1>7. \A e \in ToSet(c.events) : e.thread = c.thread /\ c.thread # 0
  BY <1>6 DEF ChatOK
<1>8. StoredOK(s, threads)
  BY <1>1, <1>2, <1>4, <1>5, <1>7 DEF StoredOK
<1>9. Stored(s) \subseteq ToSet(c.events)
  BY <1>4, <1>5 DEF Stored
<1> QED BY <1>8, <1>9

LEMMA WriteKeeps == ASSUME ThreadInv, Write PROVE ThreadInv'
<1> DEFINE head == Head(disk.queue)
           d == disk'
           A == Around(chat, disk.saved, wire)
<1>1. /\ Inv(chat, run, disk, wire, panel, past) /\ chat \in Chats /\ past \in Pasts
      /\ wire \in Seq(Messages) /\ DiskOK(disk) /\ disk.queue \in Seq(Jobs) /\ disk.timer \in BOOLEAN
  BY Parts DEF DiskOK
<1>2. /\ disk.queue # <<>> /\ d = [disk EXCEPT !.saved = Written(head.job), !.queue = Tail(disk.queue)]
      /\ IF head.job = "clear"
         THEN /\ wire' = Append(wire, [kind |-> "cleared"])
              /\ past' = [past EXCEPT !.cleared = head.upto]
         ELSE UNCHANGED <<wire, past>>
      /\ UNCHANGED <<chat, run, panel>>
  BY DEF Write
<1>3. /\ Tail(disk.queue) \in Seq(Jobs) /\ head = disk.queue[1] /\ 1 \in DOMAIN disk.queue
      /\ \A i \in DOMAIN Tail(disk.queue) :
           i + 1 \in DOMAIN disk.queue /\ Tail(disk.queue)[i] = disk.queue[i + 1] /\ i \in Nat /\ i >= 1
  BY <1>1, <1>2, Tailed
<1>4. /\ DOMAIN d = {"saved", "timer", "queue"} /\ d.saved = Written(head.job) /\ d.queue = Tail(disk.queue)
      /\ d.timer = disk.timer
  BY <1>1, <1>2 DEF DiskOK
<1>5. head \in Jobs /\ DiskOK(d)
  BY <1>1, <1>3, <1>4 DEF DiskOK
<1>6. \A i \in Erases(d.queue) : i + 1 \in Erases(disk.queue) /\ d.queue[i] = disk.queue[i + 1]
                                 /\ i \in Nat /\ i >= 1
  BY <1>3, <1>4 DEF Erases
<1>7. \A i, j \in Erases(d.queue) : i = j
  <2>1. ASSUME NEW i \in Erases(d.queue), NEW j \in Erases(d.queue) PROVE i = j
    <3>1. i + 1 = j + 1
      BY <1>1, <1>6 DEF Inv, ClearOK
    <3> QED BY <1>6, <3>1
  <2> QED BY <2>1
<1>8. ClearOK(chat, run, disk, wire, panel, past) /\ AroundOK(A, past.born, past.threads)
      /\ Lineage(chat, A, panel) /\ OfferedOK(panel, A, past.born)
  BY <1>1 DEF Inv
<1>9. CASE head.job = "snapshot"
  <2>1. d.saved = Snapshot(chat) /\ UNCHANGED <<wire, past>>
    BY <1>2, <1>4, <1>9 DEF Written
  <2>2. StoredOK(d.saved, past.threads) /\ Stored(d.saved) \subseteq ToSet(chat.events)
    BY <1>1, <2>1, SnapshotStored DEF Inv
  <2> HIDE DEF d
  <2>3. Around(chat, d.saved, wire) \subseteq A
    BY <2>2 DEF Around
  <2>4. /\ AroundOK(Around(chat, d.saved, wire), past.born, past.threads)
        /\ Lineage(chat, Around(chat, d.saved, wire), panel)
        /\ OfferedOK(panel, Around(chat, d.saved, wire), past.born)
    BY <1>8, <2>3, Narrow
  <2>5. ClearOK(chat, run, d, wire, panel, past)
    <3>1. Erases(d.queue) # {} => Erases(disk.queue) # {}
      BY <1>6
    <3>2. ASSUME NEW i \in Tells(wire) PROVE Stored(d.saved) = {}
      <4>1. chat = Fresh
        BY <1>8, <3>2 DEF ClearOK
      <4> QED BY <2>2, <4>1, NoElements DEF Fresh
    <3>3. \A i \in Erases(d.queue) : d.queue[i].upto <= past.born
      BY <1>6, <1>8 DEF ClearOK
    <3>4. \A e \in ToSet(chat.events) \cup Stored(d.saved) : e.n > past.cleared
      BY <1>8, <2>2 DEF ClearOK
    <3> QED BY <1>7, <1>8, <3>1, <3>2, <3>3, <3>4 DEF ClearOK
  <2>6. Inv(chat, run, d, wire, panel, past)
    BY <1>1, <1>5, <2>2, <2>4, <2>5 DEF Inv
  <2> QED BY <1>2, <2>1, <2>6 DEF ThreadInv, d
<1>10. CASE head.job = "clear"
  <2> DEFINE w2 == wire'
             h2 == past'
             m == [kind |-> "cleared"]
  <2>1. d.saved = None /\ w2 = Append(wire, m) /\ h2 = [past EXCEPT !.cleared = head.upto]
    BY <1>2, <1>4, <1>10 DEF Written
  <2>2. 1 \in Erases(disk.queue)
    BY <1>3, <1>10 DEF Erases
  <2>3. panel.clearing /\ Tells(wire) = {} /\ head.upto <= past.born /\ chat = Fresh
    BY <1>3, <1>8, <2>2 DEF ClearOK
  <2>4. Erases(d.queue) = {}
    <3>1. ASSUME NEW i \in Erases(d.queue) PROVE FALSE
      <4>1. i + 1 = 1
        BY <1>6, <1>8, <2>2 DEF ClearOK
      <4> QED BY <1>6, <4>1
    <3> QED BY <3>1
  <2>5. head.upto \in Nat
    BY <1>5, <1>10 DEF Jobs
  <2>6. m \in Messages /\ m.kind = "cleared" /\ Carried(m) = {} /\ ~Reads(m)
    BY DEF Messages, Carried, Reads
  <2> HIDE DEF m
  <2>7. /\ w2 \in Seq(Messages) /\ DOMAIN w2 = DOMAIN wire \cup {Len(wire) + 1} /\ w2[Len(wire) + 1] = m
        /\ DOMAIN wire = 1 .. Len(wire) /\ Len(wire) \in Nat
        /\ \A i \in DOMAIN wire : w2[i] = wire[i] /\ i # Len(wire) + 1 /\ i < Len(wire) + 1
    BY <1>1, <2>1, <2>6, Appended
  <2> HIDE DEF w2, d
  <2>8. OnWire(w2) = OnWire(wire)
    BY <2>6, <2>7 DEF OnWire
  <2>9. Stored(d.saved) = {} /\ Around(chat, d.saved, w2) \subseteq A
    BY <2>1, <2>8 DEF Around, Stored
  <2>10. /\ h2 \in Pasts /\ h2.cleared = head.upto /\ h2.born = past.born /\ h2.threads = past.threads
         /\ h2.clears = past.clears /\ h2.restarts = past.restarts
    BY <1>1, <2>1, <2>5 DEF Pasts
  <2> HIDE DEF h2
  <2>11. /\ AroundOK(Around(chat, d.saved, w2), h2.born, h2.threads)
         /\ Lineage(chat, Around(chat, d.saved, w2), panel)
         /\ OfferedOK(panel, Around(chat, d.saved, w2), h2.born)
    BY <1>8, <2>9, <2>10, Narrow
  <2>12. WireOK(w2) /\ (h2.restarts = 0 => PassedOK(chat, panel, h2) /\ WireWhole(chat, w2, panel))
    BY <1>1, <2>6, <2>7, <2>10 DEF Inv, WireOK, WireWhole, PassedOK
  <2>13. Tells(w2) = {Len(wire) + 1}
    BY <2>3, <2>6, <2>7 DEF Tells
  <2>14. ClearOK(chat, run, d, w2, panel, h2)
    <3>1. \A j \in DOMAIN w2 : ~(j > Len(wire) + 1)
      BY <2>7
    <3>2. ToSet(chat.events) = {}
      BY <2>3, NoElements DEF Fresh
    <3> QED BY <1>8, <2>3, <2>4, <2>9, <2>10, <2>13, <3>1, <3>2 DEF ClearOK
  <2>15. PastOK(chat, run, h2) /\ ChatOK(chat, h2.born, h2.threads) /\ StoredOK(d.saved, h2.threads)
    BY <1>1, <2>1, <2>10 DEF Inv, PastOK, StoredOK
  <2>16. Inv(chat, run, d, w2, panel, h2)
    BY <1>1, <1>5, <2>11, <2>12, <2>14, <2>15 DEF Inv, d
  <2> QED BY <1>2, <2>16 DEF ThreadInv, d, w2, h2
<1>11. head.job \in {"snapshot", "clear"}
  BY <1>5 DEF Jobs
<1> QED BY <1>9, <1>10, <1>11

LEMMA FreshOK ==
  ASSUME NEW born \in Nat, NEW threads \in Nat
  PROVE  /\ ChatOK(Fresh, born, threads) /\ Fresh \in Chats /\ Fresh.thread = 0
         /\ ToSet(Fresh.events) = {}
<1>1. /\ Fresh \in Chats /\ Fresh.thread = 0 /\ Fresh.events = <<>> /\ Fresh.bound = {}
      /\ Fresh.finished = {} /\ Fresh.next = 1
  BY DEF Fresh, Chats
<1>2. ToSet(Fresh.events) = {} /\ DOMAIN Fresh.events = {}
  BY <1>1, NoElements
<1> QED BY <1>1, <1>2 DEF ChatOK, Increasing

\* The runs of a tab whose store is emptied.
LEMMA RunsEnd ==
  ASSUME run \in [Runs -> {"new", "asked", "live", "over"}],
         NEW g, g = [r \in Runs |-> IF run[r] = "new" THEN "new" ELSE "over"]
  PROVE  /\ g \in [Runs -> {"new", "asked", "live", "over"}] /\ Over(run) \subseteq Over(g)
         /\ \A r \in Runs : g[r] \in {"new", "over"}
  BY DEF Over

LEMMA ClearKeeps == ASSUME ThreadInv, Clear PROVE ThreadInv'
<1> DEFINE g == run'
           d == disk'
           q == panel'
           h == past'
           m == [job |-> "clear", upto |-> past.born]
           A == Around(chat, disk.saved, wire)
<1>1. /\ Inv(chat, run, disk, wire, panel, past) /\ chat \in Chats /\ past \in Pasts /\ panel \in Panels
      /\ DiskOK(disk) /\ disk.queue \in Seq(Jobs)
      /\ run \in [Runs -> {"new", "asked", "live", "over"}]
  BY Parts DEF DiskOK
<1>2. /\ past.clears < MaxClears /\ ~panel.clearing /\ chat' = Fresh /\ wire' = wire
      /\ d = [disk EXCEPT !.timer = FALSE, !.queue = Append(disk.queue, m)]
      /\ h = [past EXCEPT !.clears = past.clears + 1] /\ q = [panel EXCEPT !.clearing = TRUE]
      /\ g = [r \in Runs |-> IF run[r] = "new" THEN "new" ELSE "over"]
  BY DEF Clear, Emptied
<1>3. past.born \in Nat /\ past.threads \in Nat /\ past.clears \in Nat /\ past.restarts \in Nat
  BY <1>1 DEF Pasts
<1>4. m \in Jobs /\ m.job = "clear" /\ m.upto = past.born
  BY <1>3 DEF Jobs
<1> HIDE DEF m
<1>5. /\ DOMAIN d = {"saved", "timer", "queue"} /\ d.saved = disk.saved /\ d.timer = FALSE
      /\ d.queue = Append(disk.queue, m)
  BY <1>1, <1>2 DEF DiskOK
<1>6. g \in [Runs -> {"new", "asked", "live", "over"}] /\ Over(run) \subseteq Over(g)
      /\ \A r \in Runs : g[r] \in {"new", "over"}
  <2> HIDE DEF g
  <2> QED BY <1>1, <1>2, RunsEnd
<1>7. q \in Panels /\ Left(panel, q) /\ q.clearing = TRUE /\ q.resync = panel.resync
  BY <1>1, <1>2 DEF Panels, Left
<1>8. /\ h \in Pasts /\ h.clears = past.clears + 1 /\ h.born = past.born /\ h.threads = past.threads
      /\ h.cleared = past.cleared /\ h.restarts = past.restarts
  BY <1>1, <1>2, <1>3, SMTT(20) DEF Pasts
<1> HIDE DEF g, d, q, h
<1>9. Inv(chat, g, disk, wire, panel, past)
  BY <1>1, <1>2, <1>6, RunsChange
<1>10. /\ ClearOK(chat, g, disk, wire, panel, past) /\ AroundOK(A, past.born, past.threads)
       /\ OfferedOK(panel, A, past.born) /\ PastOK(chat, g, past)
  BY <1>9 DEF Inv
<1>11. Tells(wire) = {} /\ Erases(disk.queue) = {}
  BY <1>2, <1>10 DEF ClearOK
<1>12. /\ ChatOK(Fresh, past.born, past.threads) /\ Fresh \in Chats /\ Fresh.thread = 0
       /\ ToSet(Fresh.events) = {}
  BY <1>3, FreshOK
<1>13. Around(Fresh, d.saved, wire) \subseteq A
  BY <1>5, <1>12 DEF Around
<1>14. /\ AroundOK(Around(Fresh, d.saved, wire), h.born, h.threads)
       /\ OfferedOK(q, Around(Fresh, d.saved, wire), h.born)
  <2>1. /\ AroundOK(Around(Fresh, d.saved, wire), past.born, past.threads)
        /\ OfferedOK(panel, Around(Fresh, d.saved, wire), past.born)
    BY <1>10, <1>13, Narrow
  <2> QED BY <1>7, <1>8, <2>1, LeftRises
<1>15. Lineage(Fresh, Around(Fresh, d.saved, wire), q)
  BY <1>7, <1>12 DEF Lineage
<1>16. h.restarts = 0 => PassedOK(Fresh, q, h) /\ WireWhole(Fresh, wire, q)
  <2> SUFFICES ASSUME h.restarts = 0 PROVE PassedOK(Fresh, q, h) /\ WireWhole(Fresh, wire, q)
    OBVIOUS
  <2>1. PassedOK(chat, panel, past)
    BY <1>1, <1>8 DEF Inv
  <2>2. PassedOK(Fresh, q, h)
    BY <1>7, <1>8, <1>12, <2>1 DEF PassedOK, Left
  <2>3. WireWhole(Fresh, wire, q)
    BY <1>12 DEF WireWhole, Holeless
  <2> QED BY <2>2, <2>3
<1>17. Erases(d.queue) = {Len(disk.queue) + 1} /\ d.queue[Len(disk.queue) + 1] = m /\ d.queue \in Seq(Jobs)
  BY <1>1, <1>4, <1>5, <1>11, Appended DEF Erases
<1>18. ClearOK(Fresh, g, d, wire, q, h)
  <2>1. h.cleared <= h.born /\ \A i \in Erases(d.queue) : d.queue[i].upto <= h.born
    BY <1>3, <1>4, <1>8, <1>10, <1>17 DEF ClearOK
  <2>2. \A e \in ToSet(Fresh.events) \cup Stored(d.saved) : e.n > h.cleared
    BY <1>5, <1>8, <1>10, <1>12 DEF ClearOK
  <2> QED BY <1>6, <1>7, <1>11, <1>17, <2>1, <2>2 DEF ClearOK
<1>19. PastOK(Fresh, g, h)
  <2>1. h.clears <= MaxClears
    BY <1>2, <1>3, <1>8, Nats
  <2>2. h.threads + 1 <= h.clears + h.restarts + 1
    <3>1. past.threads <= past.clears + past.restarts + 1
      BY <1>3, <1>10 DEF PastOK
    <3> QED BY <1>3, <1>8, <3>1
  <2> QED BY <1>8, <1>10, <1>12, <2>1, <2>2 DEF PastOK
<1>20. DiskOK(d) /\ StoredOK(d.saved, h.threads) /\ WireOK(wire)
  BY <1>1, <1>5, <1>8, <1>17 DEF DiskOK, Inv
<1>21. Inv(Fresh, g, d, wire, q, h)
  BY <1>6, <1>7, <1>8, <1>12, <1>14, <1>15, <1>16, <1>18, <1>19, <1>20 DEF Inv
<1> QED BY <1>2, <1>21 DEF ThreadInv, g, d, q, h

\* The numbering goes on above the written events.
LEMMA MaxAbove ==
  ASSUME NEW s \in Seq(Events), Increasing(s), NEW S, S = {0} \cup {s[i].seq : i \in DOMAIN s}
  PROVE  /\ Max(S) \in Nat /\ \A i \in DOMAIN s : s[i].seq <= Max(S)
         /\ Max(S) = 0 \/ \E i \in DOMAIN s : Max(S) = s[i].seq
<1>1. Len(s) \in Nat /\ DOMAIN s = 1 .. Len(s) /\ \A i \in DOMAIN s : s[i].seq \in Nat
  <2>1. Len(s) \in Nat /\ DOMAIN s = 1 .. Len(s) /\ \A i \in DOMAIN s : s[i] \in Events
    OBVIOUS
  <2> QED BY <2>1 DEF Events
<1>2. S \subseteq Nat
  BY <1>1
<1>3. \E x \in S : \A y \in S : x >= y
  <2>1. CASE Len(s) = 0
    <3>0. DOMAIN s = {}
      BY <1>1, <2>1
    <3>1. S = {0}
      BY <3>0
    <3>2. 0 \in S /\ \A y \in S : y = 0
      BY <3>1
    <3>3. 0 >= 0
      OBVIOUS
    <3>4. \A y \in S : 0 >= y
      BY <3>2, <3>3
    <3> QED BY <3>2, <3>4
  <2>2. CASE Len(s) # 0
    <3> DEFINE l == Len(s)
    <3>1. l \in DOMAIN s /\ s[l].seq \in Nat
      BY <1>1, <2>2
    <3>2. ASSUME NEW i \in DOMAIN s PROVE s[l].seq >= s[i].seq
      <4>1. i < l \/ i = l
        BY <1>1
      <4> HIDE DEF l
      <4> QED BY <1>1, <3>1, <4>1 DEF Increasing
    <3> HIDE DEF l
    <3>3. s[l].seq \in S /\ \A y \in S : s[l].seq >= y
      BY <3>1, <3>2
    <3> QED BY <3>3
  <2> QED BY <2>1, <2>2
<1>4. Max(S) \in S /\ \A y \in S : Max(S) >= y
  BY <1>3 DEF Max
<1>5. \A i \in DOMAIN s : s[i].seq <= Max(S)
  BY <1>1, <1>2, <1>4
<1> QED BY <1>2, <1>4, <1>5

LEMMA RestoredOK ==
  ASSUME NEW born \in Nat, NEW threads \in Nat, NEW s, StoredOK(s, threads),
         AroundOK(Stored(s), born, threads), NEW c, c = Restored(s)
  PROVE  /\ ChatOK(c, born, threads) /\ c \in Chats /\ ToSet(c.events) = Stored(s)
         /\ c.thread # 0 => \A a \in Stored(s) : a.thread = c.thread /\ a.seq < c.next
         /\ c.thread = 0 => Stored(s) = {}
<1>1. CASE s = None
  <2>1. c = Fresh /\ Stored(s) = {}
    BY <1>1 DEF Restored, Stored
  <2> QED BY <2>1, FreshOK
<1>2. CASE s # None
  <2> DEFINE top == Max({0} \cup {s.events[i].seq : i \in DOMAIN s.events})
  <2>1. s.thread \in Nat /\ s.events \in Seq(Events) /\ s.thread <= threads /\ Increasing(s.events)
        /\ \A e \in ToSet(s.events) : e.thread = s.thread /\ Persistent(e) /\ s.thread # 0
    BY <1>2 DEF StoredOK
  <2>2. /\ top \in Nat /\ \A i \in DOMAIN s.events : s.events[i].seq <= top
        /\ top = 0 \/ \E i \in DOMAIN s.events : top = s.events[i].seq
    BY <2>1, MaxAbove
  <2>3. c = [Fresh EXCEPT !.thread = s.thread, !.events = s.events, !.next = top + 1]
    BY <1>2 DEF Restored
  <2> HIDE DEF top
  <2>4. /\ c \in Chats /\ c.thread = s.thread /\ c.events = s.events /\ c.next = top + 1
        /\ c.bound = {} /\ c.finished = {}
    <3>1. c = [thread |-> s.thread, next |-> top + 1, events |-> s.events, bound |-> {}, finished |-> {}]
      BY <2>3 DEF Fresh
    <3>2. top + 1 \in Nat
      BY <2>2
    <3> QED BY <2>1, <3>1, <3>2 DEF Chats
  <2>5. Stored(s) = ToSet(s.events)
    BY <1>2 DEF Stored
  <2>6. \A e \in ToSet(s.events) : e \in Events /\ e.seq \in Nat /\ e.seq <= top /\ e.seq <= born
    <3>1. \A e \in ToSet(s.events) : e \in Events /\ e.seq <= e.n /\ e.n <= born
      BY <2>5 DEF AroundOK
    <3>2. \A e \in ToSet(s.events) : e.seq \in Nat /\ e.n \in Nat /\ e.seq <= top
      BY <2>2, <3>1 DEF Events, ToSet
    <3> QED BY <3>1, <3>2
  <2>7. top <= born
    BY <2>2, <2>6 DEF ToSet
  <2>8. \A e \in ToSet(s.events) : e.type # "ask" /\ e.seq < top + 1
    BY <2>1, <2>2, <2>6 DEF Persistent
  <2>9. s.thread = 0 => ToSet(s.events) = {} /\ s.events = <<>>
    <3>1. s.thread = 0 => ToSet(s.events) = {}
      BY <2>1
    <3>2. ToSet(s.events) = {} => s.events = <<>>
      <4>1. s.events # <<>> => s.events[1] \in ToSet(s.events)
        <5>1. s.events # <<>> => 1 \in DOMAIN s.events
          BY <2>1, Tailed
        <5> QED BY <5>1 DEF ToSet
      <4> QED BY <4>1
    <3> QED BY <3>1, <3>2
  <2>10. ChatOK(c, born, threads)
    BY <2>1, <2>2, <2>4, <2>7, <2>8, <2>9 DEF ChatOK
  <2> QED BY <2>1, <2>4, <2>5, <2>8, <2>9, <2>10
<1> QED BY <1>1, <1>2

LEMMA RestartKeeps == ASSUME ThreadInv, Restart PROVE ThreadInv'
<1> DEFINE c == chat'
           g == run'
           d == disk'
           q == panel'
           h == past'
           A == Around(chat, disk.saved, wire)
<1>1. /\ Inv(chat, run, disk, wire, panel, past) /\ chat \in Chats /\ past \in Pasts /\ panel \in Panels
      /\ DiskOK(disk) /\ run \in [Runs -> {"new", "asked", "live", "over"}]
  BY Parts
<1>2. /\ past.restarts < MaxRestarts /\ c = Restored(disk.saved) /\ wire' = <<>>
      /\ d = [disk EXCEPT !.timer = FALSE, !.queue = <<>>]
      /\ h = [past EXCEPT !.restarts = past.restarts + 1]
      /\ q = [panel EXCEPT !.port = "none", !.resync = None, !.clearing = FALSE,
                !.recovery = IF panel.recovery # "idle" \/ panel.resync # None THEN "asked" ELSE "idle"]
      /\ g = [r \in Runs |-> IF run[r] = "new" THEN "new" ELSE "over"]
  BY DEF Restart
<1>3. past.born \in Nat /\ past.threads \in Nat /\ past.clears \in Nat /\ past.restarts \in Nat
  BY <1>1 DEF Pasts
<1>4. DOMAIN d = {"saved", "timer", "queue"} /\ d.saved = disk.saved /\ d.timer = FALSE /\ d.queue = <<>>
  BY <1>1, <1>2 DEF DiskOK
<1>5. g \in [Runs -> {"new", "asked", "live", "over"}] /\ Over(run) \subseteq Over(g)
  <2> HIDE DEF g
  <2> QED BY <1>1, <1>2, RunsEnd
<1>6. q \in Panels /\ Left(panel, q) /\ q.clearing = FALSE /\ q.resync = None
  <2> DEFINE rec == IF panel.recovery # "idle" \/ panel.resync # None THEN "asked" ELSE "idle"
  <2>1. rec \in {"idle", "asked", "answered"}
    OBVIOUS
  <2> HIDE DEF rec
  <2>2. q = [panel EXCEPT !.port = "none", !.resync = None, !.clearing = FALSE, !.recovery = rec]
    BY <1>2 DEF rec
  <2> QED BY <1>1, <2>1, <2>2 DEF Panels, Left
<1>7. /\ h \in Pasts /\ h.clears = past.clears /\ h.born = past.born /\ h.threads = past.threads
      /\ h.cleared = past.cleared /\ h.restarts = past.restarts + 1
  <2> DEFINE n == past.restarts + 1
  <2>1. n \in Nat
    BY <1>3
  <2>2. h = [past EXCEPT !.restarts = n]
    BY <1>2
  <2> HIDE DEF n, h
  <2>3. /\ h \in Pasts /\ h.clears = past.clears /\ h.born = past.born /\ h.threads = past.threads
        /\ h.cleared = past.cleared /\ h.restarts = n
    BY <1>1, <2>1, <2>2 DEF Pasts
  <2> QED BY <2>3 DEF n
<1> HIDE DEF c, g, d, q, h
<1>8. /\ ClearOK(chat, run, disk, wire, panel, past) /\ AroundOK(A, past.born, past.threads)
      /\ OfferedOK(panel, A, past.born) /\ PastOK(chat, run, past) /\ StoredOK(disk.saved, past.threads)
  BY <1>1 DEF Inv
<1>9. Stored(disk.saved) \subseteq A
  BY DEF Around
<1>10. /\ AroundOK(Stored(disk.saved), past.born, past.threads)
       /\ OfferedOK(panel, Stored(disk.saved), past.born)
  BY <1>8, <1>9, Narrow
<1>11. /\ ChatOK(c, past.born, past.threads) /\ c \in Chats /\ ToSet(c.events) = Stored(disk.saved)
       /\ c.thread # 0 => \A a \in Stored(disk.saved) : a.thread = c.thread /\ a.seq < c.next
       /\ c.thread = 0 => Stored(disk.saved) = {}
  BY <1>2, <1>3, <1>8, <1>10, RestoredOK
<1>12. OnWire(<<>>) = {} /\ DOMAIN <<>> = {} /\ <<>> \in Seq(Messages) /\ <<>> \in Seq(Jobs)
  BY NoElements DEF OnWire
<1>13. Around(c, d.saved, <<>>) = Stored(disk.saved)
  BY <1>4, <1>11, <1>12 DEF Around
<1>14. /\ AroundOK(Around(c, d.saved, <<>>), h.born, h.threads)
       /\ OfferedOK(q, Around(c, d.saved, <<>>), h.born)
  BY <1>6, <1>7, <1>10, <1>13, LeftRises
<1>15. Lineage(c, Around(c, d.saved, <<>>), q)
  BY <1>6, <1>11, <1>13 DEF Lineage
<1>16. h.restarts # 0
  BY <1>3, <1>7
<1>17. WireOK(<<>>) /\ DiskOK(d) /\ StoredOK(d.saved, h.threads)
  BY <1>4, <1>7, <1>8, <1>12 DEF WireOK, DiskOK
<1>18. ClearOK(c, g, d, <<>>, q, h)
  <2>1. Tells(<<>>) = {} /\ Erases(d.queue) = {}
    BY <1>4, <1>12 DEF Tells, Erases
  <2> QED BY <1>4, <1>6, <1>7, <1>8, <1>11, <2>1 DEF ClearOK
<1>19. PastOK(c, g, h)
  <2>1. h.restarts <= MaxRestarts
    BY <1>2, <1>3, <1>7, Nats
  <2>2. h.threads + (IF c.thread = 0 THEN 1 ELSE 0) <= h.clears + h.restarts + 1
    <3>1. past.threads <= past.clears + past.restarts + 1
      BY <1>3, <1>8 DEF PastOK
    <3> QED BY <1>3, <1>7, <3>1
  <2>3. h.born <= MaxEvents + Cardinality(Over(g))
    <3>1. Cardinality(Over(run)) <= Cardinality(Over(g))
      BY <1>5, OversCounted, FS_Subset
    <3>2. past.born <= MaxEvents + Cardinality(Over(run))
      BY <1>8 DEF PastOK
    <3> QED BY <1>3, <1>7, <3>1, <3>2, OversCounted, Nats
  <2> QED BY <1>7, <1>8, <2>1, <2>2, <2>3 DEF PastOK
<1>20. Inv(c, g, d, <<>>, q, h)
  BY <1>5, <1>6, <1>7, <1>11, <1>14, <1>15, <1>16, <1>17, <1>18, <1>19 DEF Inv
<1> QED BY <1>2, <1>20 DEF ThreadInv, c, g, d, q, h

-----------------------------------------------------------------------------
(* The steps of the panel.                                                 *)

\* What the lemmas about reading need of the invariant.
LEMMA Sources ==
  ASSUME NEW c, NEW g, NEW d, NEW w, NEW p, NEW h, Inv(c, g, d, w, p, h), NEW A, A = Around(c, d.saved, w)
  PROVE  /\ h.born \in Nat /\ h.threads \in Nat /\ c \in Chats /\ c.next \in Nat /\ c.thread \in Nat
         /\ c.thread <= h.threads /\ c.thread \in Threads /\ h.threads \in Threads
         /\ AroundOK(A, h.born, h.threads) /\ ToSet(c.events) \subseteq A
         /\ \A a \in A : a.thread \in Threads /\ a \in Events /\ a.thread <= h.threads
         /\ p \in Panels /\ OfferedOK(p, A, h.born) /\ Lineage(c, A, p)
<1>1. /\ c \in Chats /\ c.thread <= h.threads /\ PastOK(c, g, h) /\ AroundOK(A, h.born, h.threads)
      /\ p \in Panels /\ OfferedOK(p, A, h.born) /\ Lineage(c, A, p)
  BY DEF Inv, ChatOK
<1>2. c.thread \in Nat /\ c.next \in Nat /\ h.born \in Nat /\ h.threads \in Nat
  BY <1>1 DEF Chats, PastOK, Pasts
<1>3. c.thread \in Threads /\ h.threads \in Threads
  <2>1. h.threads <= h.threads
    BY <1>2
  <2> QED BY <1>1, <1>2, <2>1, ThreadsFit
<1>4. \A a \in A : a.thread \in Threads /\ a \in Events /\ a.thread <= h.threads
  <2> SUFFICES ASSUME NEW a \in A PROVE a.thread \in Threads /\ a \in Events /\ a.thread <= h.threads
    OBVIOUS
  <2>1. a \in Events /\ a.thread <= h.threads
    BY <1>1 DEF AroundOK
  <2>2. a.thread \in Nat
    BY <2>1 DEF Events
  <2> QED BY <1>1, <2>1, <2>2, ThreadsFit
<1>5. ToSet(c.events) \subseteq A
  BY DEF Around
<1> QED BY <1>1, <1>2, <1>3, <1>4, <1>5

LEMMA NewPanelOK ==
  /\ NewPanel \in Panels /\ NewPanel.offered = <<>> /\ NewPanel.resync = None
  /\ NewPanel.clearing = FALSE /\ \A t \in Threads : NewPanel.seen[t] = 0
<1> DEFINE zero == [t \in Threads |-> 0]
<1>1. zero \in [Threads -> Nat] /\ <<>> \in Seq(Nat) /\ {} \in SUBSET (Runs \cup {None})
  OBVIOUS
<1>2. \A t \in Threads : zero[t] = 0
  OBVIOUS
<1>3. NewPanel.seen = zero
  BY DEF NewPanel
<1> HIDE DEF zero
<1>4. NewPanel = [port |-> "none", seen |-> zero, active |-> None,
             ended |-> {}, offered |-> <<>>, hidden |-> {},
             recovery |-> "idle", resync |-> None, waiting |-> None, busy |-> FALSE,
             clearing |-> FALSE]
  BY DEF NewPanel, zero
<1>5. NewPanel \in Panels
  BY <1>1, <1>4 DEF Panels
<1> QED BY <1>2, <1>3, <1>4, <1>5

\* The panel takes events: it sees more, and has taken what it has passed.
LEMMA PanelTakes ==
  ASSUME NEW c, NEW g, NEW d, NEW w, NEW p, NEW h, Inv(c, g, d, w, p, h),
         NEW q \in Panels, OfferedOK(q, Around(c, d.saved, w), h.born), q.clearing = p.clearing,
         \A t \in Threads : /\ p.seen[t] <= q.seen[t]
                            /\ \/ q.seen[t] = p.seen[t]
                               \/ \E a \in Around(c, d.saved, w) : a.thread = t /\ q.seen[t] = a.seq,
         \/ q.resync = p.resync
         \/ \E e \in Around(c, d.saved, w) : q.resync.after = p.seen[e.thread],
         h.restarts = 0 => Passed(ToSet(c.events), q)
  PROVE  Inv(c, g, d, w, q, h)
<1> DEFINE A == Around(c, d.saved, w)
<1>1. /\ h.born \in Nat /\ h.threads \in Nat /\ c \in Chats /\ c.next \in Nat /\ c.thread \in Nat
      /\ c.thread <= h.threads /\ c.thread \in Threads
      /\ ToSet(c.events) \subseteq A
      /\ \A a \in A : a.thread \in Threads /\ a \in Events /\ a.thread <= h.threads
      /\ p \in Panels /\ Lineage(c, A, p)
  <2> HIDE DEF A
  <2>1. A = Around(c, d.saved, w)
    BY DEF A
  <2> QED BY <2>1, Sources
<1>2. p.seen \in [Threads -> Nat] /\ q.seen \in [Threads -> Nat]
  BY <1>1 DEF Panels
<1> HIDE DEF A
<1>3. Lineage(c, A, q)
  BY <1>1 DEF Lineage, A
<1>4. ASSUME h.restarts = 0 PROVE PassedOK(c, q, h) /\ WireWhole(c, w, q)
  <2>1. PassedOK(c, p, h) /\ WireWhole(c, w, p)
    BY <1>4 DEF Inv
  <2>2. c.thread # 0 => q.seen[c.thread] < c.next
    <3>1. c.thread # 0 => p.seen[c.thread] < c.next
      BY <2>1 DEF PassedOK
    <3>2. c.thread # 0 => \A a \in A : a.seq < c.next
      BY <1>1 DEF Lineage
    <3> QED BY <1>1, <3>1, <3>2 DEF A
  <2>3. \A t \in Threads : t > h.threads => q.seen[t] = 0
    <3> SUFFICES ASSUME NEW t \in Threads, t > h.threads PROVE q.seen[t] = 0
      OBVIOUS
    <3>1. p.seen[t] = 0
      BY <2>1 DEF PassedOK
    <3>2. \A a \in A : a.thread # t
      <4>1. t \in Nat
        BY Nats DEF Threads
      <4> QED BY <1>1, <4>1
    <3> QED BY <3>1, <3>2 DEF A
  <2>4. PassedOK(c, q, h)
    BY <1>4, <2>2, <2>3 DEF PassedOK, Passed
  <2>5. ASSUME NEW i \in DOMAIN w, Reads(w[i]) PROVE Holeless(c, w[i].events, q)
    <3>1. Holeless(c, w[i].events, p)
      BY <2>1, <2>5 DEF WireWhole
    <3>2. \A e \in ToSet(c.events) : e.seq <= p.seen[e.thread] => e.seq <= q.seen[e.thread]
      <4> SUFFICES ASSUME NEW e \in ToSet(c.events), e.seq <= p.seen[e.thread]
                   PROVE  e.seq <= q.seen[e.thread]
        OBVIOUS
      <4>1. e.thread \in Threads /\ e \in Events
        BY <1>1
      <4>2. e.seq \in Nat
        BY <4>1 DEF Events
      <4>3. p.seen[e.thread] \in Nat /\ q.seen[e.thread] \in Nat /\ p.seen[e.thread] <= q.seen[e.thread]
        BY <1>2, <4>1
      <4> QED BY <4>2, <4>3
    <3> QED BY <3>1, <3>2 DEF Holeless
  <2>6. q.resync # None /\ c.thread # 0 => q.resync.after <= q.seen[c.thread]
    <3> SUFFICES ASSUME q.resync # None, c.thread # 0 PROVE q.resync.after <= q.seen[c.thread]
      OBVIOUS
    <3>1. p.seen[c.thread] \in Nat /\ q.seen[c.thread] \in Nat /\ p.seen[c.thread] <= q.seen[c.thread]
      BY <1>1, <1>2
    <3>2. CASE q.resync = p.resync
      <4>1. q.resync.after \in Nat
        BY <3>2 DEF Panels, Calls
      <4>2. q.resync.after <= p.seen[c.thread]
        BY <2>1, <3>2 DEF WireWhole
      <4> QED BY <3>1, <4>1, <4>2
    <3>3. CASE \E e \in A : q.resync.after = p.seen[e.thread]
      <4>1. PICK e \in A : q.resync.after = p.seen[e.thread]
        BY <3>3
      <4>2. e.thread = c.thread
        BY <1>1 DEF Lineage
      <4> QED BY <3>1, <4>1, <4>2
    <3> QED BY <3>2, <3>3 DEF A
  <2>7. WireWhole(c, w, q)
    BY <2>5, <2>6 DEF WireWhole
  <2> QED BY <2>4, <2>7
<1>5. ClearOK(c, g, d, w, q, h)
  BY DEF Inv, ClearOK
<1> QED BY <1>3, <1>4, <1>5 DEF Inv, A

\* A thread is read.
LEMMA ReadKeeps ==
  ASSUME NEW c, NEW g, NEW d, NEW w, NEW p, NEW h, Inv(c, g, d, w, p, h),
         NEW s \in Seq(Events), ToSet(s) \subseteq Around(c, d.saved, w), Increasing(s),
         h.restarts = 0 => Holeless(c, s, p)
  PROVE  /\ Inv(c, g, d, w, ApplyAll(p, s), h) /\ ApplyAll(p, s) \in Panels
<1> DEFINE A == Around(c, d.saved, w)
           C == ToSet(c.events)
           q == ApplyAll(p, s)
<1>1. /\ h.born \in Nat /\ h.threads \in Nat /\ AroundOK(A, h.born, h.threads) /\ C \subseteq A
      /\ \A a \in A : a.thread \in Threads
      /\ p \in Panels /\ OfferedOK(p, A, h.born)
  <2> HIDE DEF A
  <2>1. A = Around(c, d.saved, w)
    BY DEF A
  <2> QED BY <2>1, Sources
<1>2. ToSet(s) \subseteq A
  OBVIOUS
<1>3. /\ ReadTo(q, p, s, Len(s), A, h.born)
      /\ Passed(C, p) /\ (\A f \in ToSet(s), e \in C :
              Persistent(e) /\ e.seq < f.seq => e \in ToSet(s) \/ e.seq <= p.seen[e.thread])
            => Passed(C, q)
  <2> DEFINE n == h.born
             m == h.threads
  <2>1. n \in Nat /\ m \in Nat /\ AroundOK(A, n, m) /\ OfferedOK(p, A, n)
    BY <1>1
  <2> HIDE DEF A, C, n, m
  <2>2. /\ ReadTo(ApplyAll(p, s), p, s, Len(s), A, n)
        /\ Passed(C, p) /\ (\A f \in ToSet(s), e \in C :
              Persistent(e) /\ e.seq < f.seq => e \in ToSet(s) \/ e.seq <= p.seen[e.thread])
            => Passed(C, ApplyAll(p, s))
    BY <1>1, <1>2, <2>1, ReadAll
  <2> QED BY <2>2 DEF n
<1> HIDE DEF q
<1>4. h.restarts = 0 => Passed(C, q)
  <2>1. h.restarts = 0 => Passed(C, p)
    BY DEF Inv, PassedOK, Passed
  <2> QED BY <1>3, <2>1 DEF Holeless
<1>5. \A j \in 1 .. Len(s) : s[j] \in A
  BY <1>2 DEF ToSet
<1> HIDE DEF A, C
<1>6. \A t \in Threads : /\ p.seen[t] <= q.seen[t]
                         /\ q.seen[t] = p.seen[t] \/ \E a \in A : a.thread = t /\ q.seen[t] = a.seq
  BY <1>3, <1>5 DEF ReadTo
<1>7. q \in Panels /\ OfferedOK(q, A, h.born) /\ q.clearing = p.clearing /\ q.resync = p.resync
  BY <1>3 DEF ReadTo, Calm
<1>8. Inv(c, g, d, w, q, h)
  BY <1>4, <1>6, <1>7, PanelTakes DEF A, C
<1> QED BY <1>7, <1>8 DEF q

\* An event is posted.
LEMMA LiveKeeps ==
  ASSUME NEW c, NEW g, NEW d, NEW w, NEW p, NEW h, Inv(c, g, d, w, p, h),
         NEW e \in Around(c, d.saved, w)
  PROVE  Inv(c, g, d, w, Apply(p, e, FALSE), h)
<1> DEFINE A == Around(c, d.saved, w)
           C == ToSet(c.events)
           q == Apply(p, e, FALSE)
           n == h.born
           m == h.threads
<1>1. /\ n \in Nat /\ m \in Nat /\ AroundOK(A, n, m) /\ C \subseteq A
      /\ \A a \in A : a.thread \in Threads /\ a \in Events
      /\ p \in Panels /\ OfferedOK(p, A, n)
  <2> HIDE DEF A
  <2>1. A = Around(c, d.saved, w)
    BY DEF A
  <2> QED BY <2>1, Sources
<1>2. e \in A /\ e \in Events /\ e.thread \in Threads /\ e.seq \in Nat
  BY <1>1 DEF Events
<1>3. p.seen \in [Threads -> Nat]
  BY <1>1 DEF Panels
<1>4. FALSE \in BOOLEAN
  OBVIOUS
<1>5. /\ q \in Panels /\ Calm(p, q)
      /\ \/ Took(p, e, q) /\ q.resync = p.resync /\ e.seq = p.seen[e.thread] + 1
         \/ /\ Left(p, q)
            /\ q.resync = p.resync \/ q.resync = [run |-> e.run, after |-> p.seen[e.thread]]
  <2> HIDE DEF q
  <2>1. q = Apply(p, e, FALSE)
    BY DEF q
  <2> QED BY <1>1, <1>2, <1>4, <2>1, ApplyEffect
<1> HIDE DEF A, C, q, n, m
<1>6. OfferedOK(q, A, n) /\ q.clearing = p.clearing
  BY <1>1, <1>2, <1>5, TookRises, LeftRises DEF Calm
<1>7. q.seen \in [Threads -> Nat]
  BY <1>5 DEF Panels
<1>8. \A t \in Threads : /\ p.seen[t] <= q.seen[t]
                         /\ q.seen[t] = p.seen[t] \/ \E a \in A : a.thread = t /\ q.seen[t] = a.seq
  <2>1. CASE Took(p, e, q)
    BY <1>2, <1>3, <1>7, <2>1 DEF Took
  <2>2. CASE Left(p, q)
    BY <1>3, <2>2 DEF Left
  <2> QED BY <1>5, <2>1, <2>2
<1>9. q.resync = p.resync \/ \E a \in A : q.resync.after = p.seen[a.thread]
  BY <1>2, <1>5
<1>10. ASSUME h.restarts = 0 PROVE Passed(C, q)
  <2>1. Passed(C, p)
    BY <1>10 DEF Inv, PassedOK, Passed, C
  <2>2. CASE Took(p, e, q) /\ e.seq = p.seen[e.thread] + 1
    <3>1. ASSUME NEW x \in C, Persistent(x), x.seq < e.seq PROVE x.n \in ToSet(p.offered)
      <4>1. x \in A /\ x \in Events /\ x.thread = e.thread
        BY <1>1, <1>2 DEF AroundOK
      <4>2. x.seq \in Nat /\ p.seen[e.thread] \in Nat
        BY <1>2, <1>3, <4>1 DEF Events
      <4>3. x.seq <= p.seen[x.thread]
        BY <2>2, <3>1, <4>1, <4>2
      <4> QED BY <2>1, <3>1, <4>3 DEF Passed
    <3> QED BY <1>1, <1>2, <1>5, <2>1, <2>2, <3>1, TookPasses
  <2>3. CASE Left(p, q)
    BY <2>1, <2>3 DEF Left, Passed
  <2> QED BY <1>5, <2>2, <2>3
<1>11. Inv(c, g, d, w, q, h)
  BY <1>5, <1>6, <1>8, <1>9, <1>10, PanelTakes DEF A, C, n
<1> QED BY <1>11 DEF q

\* The first message of the wire.
LEMMA FirstMessage ==
  ASSUME NEW c, NEW g, NEW d, NEW w, NEW p, NEW h, Inv(c, g, d, w, p, h), w # <<>>, NEW m, m = Head(w)
  PROVE  /\ m \in Messages /\ 1 \in DOMAIN w /\ m = w[1] /\ Carried(m) \subseteq Around(c, d.saved, w)
         /\ Reads(m) => Increasing(m.events) /\ (h.restarts = 0 => Holeless(c, m.events, p))
         /\ w \in Seq(Messages)
<1>1. w \in Seq(Messages) /\ WireOK(w) /\ (h.restarts = 0 => WireWhole(c, w, p))
  BY DEF Inv, WireOK
<1>2. 1 \in DOMAIN w /\ m = w[1] /\ m \in Messages
  BY <1>1, Tailed
<1>3. Carried(m) \subseteq Around(c, d.saved, w)
  BY <1>2 DEF Around, OnWire
<1>4. Reads(m) => Increasing(m.events) /\ (h.restarts = 0 => Holeless(c, m.events, p))
  BY <1>1, <1>2 DEF WireOK, WireWhole
<1> QED BY <1>1, <1>2, <1>3, <1>4

\* The answer of a clear: nothing is left but what was recovered of nothing.
LEMMA ClearedKeeps ==
  ASSUME NEW c, NEW g, NEW d, NEW w, NEW p, NEW h, Inv(c, g, d, w, p, h), w # <<>>,
         Head(w).kind = "cleared"
  PROVE  Inv(c, g, d, NoRecovery(Tail(w)), Cleared(p), h)
<1> DEFINE w1 == Tail(w)
           w2 == NoRecovery(w1)
           q == Cleared(p)
<1>1. w \in Seq(Messages) /\ 1 \in DOMAIN w /\ Head(w) = w[1]
  BY FirstMessage
<1>2. /\ w1 \in Seq(Messages)
      /\ \A i \in DOMAIN w1 : i + 1 \in DOMAIN w /\ w1[i] = w[i + 1] /\ i \in Nat /\ i >= 1
  BY <1>1, Tailed
<1> HIDE DEF w1
<1>3. w2 \in Seq(Messages) /\ Sub(w2, w1)
  BY <1>2, NoRecoverySub
<1>4. ClearOK(c, g, d, w, p, h) /\ 1 \in Tells(w)
  BY <1>1 DEF Inv, Tells
<1>5. /\ p.clearing /\ c = Fresh /\ Stored(d.saved) = {} /\ Erases(d.queue) = {}
      /\ \A j \in DOMAIN w : j > 1 => Carried(w[j]) = {} /\ w[j].kind # "cleared"
  BY <1>4 DEF ClearOK, Tells
<1> HIDE DEF w2
<1>6. \A i \in DOMAIN w2 : Carried(w2[i]) = {} /\ w2[i].kind # "cleared"
  <2>1. \A i \in DOMAIN w1 : Carried(w1[i]) = {} /\ w1[i].kind # "cleared"
    <3> SUFFICES ASSUME NEW i \in DOMAIN w1 PROVE Carried(w1[i]) = {} /\ w1[i].kind # "cleared"
      OBVIOUS
    <3>1. i + 1 \in DOMAIN w /\ w1[i] = w[i + 1] /\ i + 1 > 1
      BY <1>2
    <3> QED BY <1>5, <3>1
  <2> QED BY <1>3, <2>1 DEF Sub
<1>7. OnWire(w2) = {} /\ Tells(w2) = {}
  BY <1>6 DEF OnWire, Tells
<1>8. h.born \in Nat /\ h.threads \in Nat /\ p \in Panels /\ c.thread \in Threads
  <2> DEFINE A == Around(c, d.saved, w)
  <2>1. A = Around(c, d.saved, w)
    OBVIOUS
  <2> HIDE DEF A
  <2> QED BY <2>1, Sources
<1>9. /\ ChatOK(Fresh, h.born, h.threads) /\ Fresh.thread = 0 /\ ToSet(Fresh.events) = {}
  BY <1>8, FreshOK
<1>10. Around(c, d.saved, w2) = {}
  BY <1>5, <1>7, <1>9 DEF Around
<1>11. /\ q \in Panels /\ q.offered = <<>> /\ q.resync = None /\ q.clearing = FALSE
       /\ \A t \in Threads : q.seen[t] = 0
  <2>1. NewPanel \in Panels /\ NewPanel.offered = <<>> /\ NewPanel.resync = None
        /\ NewPanel.clearing = FALSE /\ \A t \in Threads : NewPanel.seen[t] = 0
    BY NewPanelOK
  <2>2. q = [NewPanel EXCEPT !.port = p.port] /\ p.port \in {"none", "binding", "bound"}
    BY <1>8 DEF Cleared, Panels
  <2> HIDE DEF q
  <2> QED BY <2>1, <2>2 DEF Panels
<1> HIDE DEF q
<1>12. AroundOK({}, h.born, h.threads) /\ Lineage(c, {}, q) /\ OfferedOK(q, {}, h.born)
  BY <1>11, NoElements DEF AroundOK, Lineage, OfferedOK, Rising
<1>13. WireOK(w2)
  <2>1. Sub(w2, w)
    <3>1. Sub(w1, w)
      <4>1. w # <<>>
        OBVIOUS
      <4> QED BY <1>1, <4>1, TailSub DEF w1
    <3> QED BY <1>3, <3>1, SubTrans
  <2>2. Inv(c, g, d, w2, p, h)
    BY <1>3, <2>1, WireShrinks
  <2> QED BY <2>2 DEF Inv
<1>14. h.restarts = 0 => PassedOK(c, q, h) /\ WireWhole(c, w2, q)
  BY <1>5, <1>9, <1>11 DEF PassedOK, WireWhole, Holeless
<1>15. ClearOK(c, g, d, w2, q, h)
  BY <1>4, <1>5, <1>7, <1>11 DEF ClearOK
<1>16. Inv(c, g, d, w2, q, h)
  BY <1>10, <1>11, <1>12, <1>13, <1>14, <1>15 DEF Inv
<1> QED BY <1>16 DEF q, w2, w1

LEMMA ReceiveKeeps == ASSUME ThreadInv, Receive PROVE ThreadInv'
<1> DEFINE m == Head(wire)
           q == panel'
           t == Tail(wire)
<1>1. /\ Inv(chat, run, disk, wire, panel, past) /\ panel \in Panels /\ wire \in Seq(Messages)
  BY Parts
<1>2. /\ wire # <<>> /\ q = Received(panel, m) /\ UNCHANGED <<chat, run, disk, past>>
      /\ (m.kind = "cleared" => wire' = NoRecovery(t)) /\ (m.kind # "cleared" => wire' = t)
  BY DEF Receive
<1>3. /\ m \in Messages /\ Carried(m) \subseteq Around(chat, disk.saved, wire)
      /\ Reads(m) => Increasing(m.events) /\ (past.restarts = 0 => Holeless(chat, m.events, panel))
  <2> HIDE DEF m
  <2>1. m = Head(wire)
    BY DEF m
  <2> QED BY <1>1, <1>2, <2>1, FirstMessage
<1>4. t \in Seq(Messages) /\ Sub(t, wire)
  BY <1>1, <1>2, TailSub
<1>5. CASE m.kind = "cleared"
  <2>1. q = Cleared(panel)
    BY <1>2, <1>5 DEF Received
  <2>2. Inv(chat, run, disk, NoRecovery(Tail(wire)), Cleared(panel), past)
    BY <1>1, <1>2, <1>5, ClearedKeeps
  <2> QED BY <1>2, <1>5, <2>1, <2>2 DEF ThreadInv
<1>6. CASE m.kind # "cleared"
  <2>1. SUFFICES Inv(chat, run, disk, wire, q, past)
    <3> HIDE DEF t, q
    <3>1. Inv(chat, run, disk, t, q, past)
      BY <1>4, <2>1, WireShrinks
    <3> QED BY <1>2, <1>6, <3>1 DEF ThreadInv, t, q
  <2> HIDE DEF m
  <2>2. CASE m.kind = "live"
    <3>1. q = Apply(panel, m.event, FALSE)
      BY <1>2, <2>2 DEF Received
    <3>2. m.event \in Around(chat, disk.saved, wire)
      BY <1>3, <2>2 DEF Carried
    <3> QED BY <1>1, <3>1, <3>2, LiveKeeps
  <2>3. CASE m.kind \in {"recovered", "resynced"}
    <3> DEFINE s == m.events
    <3>1. s \in Seq(Events) /\ ToSet(s) \subseteq Around(chat, disk.saved, wire) /\ Reads(m)
      BY <1>3, <2>3 DEF Messages, Carried, Reads
    <3>2. Increasing(s) /\ (past.restarts = 0 => Holeless(chat, s, panel))
      BY <1>3, <3>1
    <3> HIDE DEF s
    <3>3. CASE m.kind = "recovered"
      <4> DEFINE p == [panel EXCEPT !.recovery = "idle"]
      <4>1. /\ p \in Panels /\ Left(panel, p) /\ p.clearing = panel.clearing
            /\ p.resync = panel.resync
        BY <1>1 DEF Panels, Left
      <4> HIDE DEF p
      <4>2. Inv(chat, run, disk, wire, p, past)
        BY <1>1, <4>1, PanelRests
      <4>3. past.restarts = 0 => Holeless(chat, s, p)
        BY <3>2, <4>1 DEF Holeless, Left
      <4>4. Inv(chat, run, disk, wire, ApplyAll(p, s), past)
        BY <3>1, <3>2, <4>2, <4>3, ReadKeeps
      <4>5. q = ApplyAll(p, s)
        BY <1>2, <3>3 DEF Received, p, s
      <4> QED BY <4>4, <4>5
    <3>4. CASE m.kind = "resynced"
      <4> DEFINE p == ApplyAll(panel, s)
      <4>1. Inv(chat, run, disk, wire, p, past) /\ p \in Panels
        BY <1>1, <3>1, <3>2, ReadKeeps
      <4>2. q = [p EXCEPT !.resync = None]
        BY <1>2, <3>4 DEF Received, s
      <4> HIDE DEF p, q
      <4>3. q \in Panels /\ Left(p, q) /\ q.clearing = p.clearing /\ q.resync = None
        BY <4>1, <4>2 DEF Panels, Left
      <4> QED BY <4>1, <4>3, PanelRests
    <3> QED BY <2>3, <3>3, <3>4
  <2> QED BY <1>3, <1>6, <2>2, <2>3 DEF Messages
<1> QED BY <1>5, <1>6

\* The events a panel is answered with.
LEMMA RecoverableOK ==
  ASSUME NEW c, NEW born, NEW threads, ChatOK(c, born, threads), NEW s, s = Recoverable(c)
  PROVE  /\ s \in Seq(Events) /\ Increasing(s) /\ ToSet(s) \subseteq ToSet(c.events)
         /\ \A e \in ToSet(c.events) : Persistent(e) => e \in ToSet(s)
<1> DEFINE S == {e \in ToSet(c.events) : Persistent(e) \/ e.run \notin c.finished}
<1>1. c.events \in Seq(Events) /\ Increasing(c.events)
  BY DEF ChatOK, Chats
<1>2. s = Within(c.events, S)
  BY DEF Recoverable
<1> HIDE DEF S
<1>3. s \in Seq(Events) /\ Increasing(s) /\ ToSet(s) = ToSet(c.events) \cap S
  BY <1>1, <1>2, WithinRises
<1> QED BY <1>3 DEF S

LEMMA AnswerRecoveryKeeps == ASSUME ThreadInv, AnswerRecovery PROVE ThreadInv'
<1> DEFINE q == panel'
           s == Recoverable(chat)
           m == [kind |-> "recovered", events |-> s]
<1>1. Inv(chat, run, disk, wire, panel, past) /\ panel \in Panels
      /\ ChatOK(chat, past.born, past.threads)
  BY Parts DEF Inv
<1>2. /\ q = [panel EXCEPT !.recovery = "answered"] /\ wire' = Append(wire, m)
      /\ UNCHANGED <<chat, run, disk, past>>
  BY DEF AnswerRecovery
<1> HIDE DEF q
<1>3. q \in Panels /\ Left(panel, q) /\ q.clearing = panel.clearing /\ q.resync = panel.resync
  BY <1>1, <1>2 DEF Panels, Left
<1>4. Inv(chat, run, disk, wire, q, past)
  BY <1>1, <1>3, PanelRests
<1>5. /\ s \in Seq(Events) /\ Increasing(s) /\ ToSet(s) \subseteq ToSet(chat.events)
      /\ \A e \in ToSet(chat.events) : Persistent(e) => e \in ToSet(s)
  <2> HIDE DEF s
  <2>1. s = Recoverable(chat)
    BY DEF s
  <2> QED BY <1>1, <2>1, RecoverableOK
<1> HIDE DEF s
<1>6. Holeless(chat, s, q)
  BY <1>5 DEF Holeless
<1>7. m \in Messages /\ m.kind # "cleared" /\ Carried(m) \subseteq ToSet(chat.events) /\ m.events = s
  BY <1>5 DEF Messages, Carried
<1> HIDE DEF m
<1>8. Inv(chat, run, disk, Append(wire, m), q, past)
  BY <1>4, <1>5, <1>6, <1>7, WireGrows
<1> QED BY <1>2, <1>8 DEF ThreadInv, q

LEMMA MissingOK ==
  ASSUME ThreadInv, panel.resync # None, NEW s, s = Missing(panel.resync.run, panel.resync.after)
  PROVE  /\ s \in Seq(Events) /\ Increasing(s) /\ ToSet(s) \subseteq ToSet(chat.events)
         /\ past.restarts = 0 => Holeless(chat, s, panel)
<1> DEFINE after == panel.resync.after
<1>1. ChatOK(chat, past.born, past.threads) /\ panel \in Panels /\ chat \in Chats
  BY Parts DEF Inv
<1>2. CASE panel.resync.run \in chat.bound
  <2> DEFINE all == Recoverable(chat)
             S == {e \in ToSet(chat.events) : e.seq > after}
  <2>1. s = Within(all, S)
    BY <1>2 DEF Missing
  <2> HIDE DEF all, S
  <2>2. all = Recoverable(chat)
    BY DEF all
  <2>3. /\ all \in Seq(Events) /\ Increasing(all) /\ ToSet(all) \subseteq ToSet(chat.events)
        /\ \A e \in ToSet(chat.events) : Persistent(e) => e \in ToSet(all)
    BY <1>1, <2>2, RecoverableOK
  <2>4. s \in Seq(Events) /\ Increasing(s) /\ ToSet(s) = ToSet(all) \cap S
    BY <2>1, <2>3, WithinRises
  <2>5. ASSUME past.restarts = 0 PROVE Holeless(chat, s, panel)
    <3> SUFFICES ASSUME NEW e \in ToSet(chat.events), Persistent(e), e \notin ToSet(s)
                 PROVE  e.seq <= panel.seen[e.thread]
      BY DEF Holeless
    <3>1. e \notin S /\ e.thread = chat.thread /\ e \in Events /\ chat.thread # 0
      <4>1. chat.thread = 0 => ToSet(chat.events) = {}
        BY <1>1, NoElements DEF ChatOK
      <4>2. e \in Events
        BY <1>1 DEF Chats, ToSet
      <4> QED BY <1>1, <2>3, <2>4, <4>1, <4>2 DEF ChatOK
    <3>2. ~(e.seq > after)
      BY <3>1 DEF S
    <3>3. after <= panel.seen[chat.thread]
      BY <2>5, <3>1 DEF ThreadInv, Inv, WireWhole
    <3>4. e.seq \in Nat /\ after \in Nat /\ panel.seen[chat.thread] \in Nat
      <4>1. chat.thread \in Threads
        <5> DEFINE A == Around(chat, disk.saved, wire)
        <5>1. A = Around(chat, disk.saved, wire) /\ Inv(chat, run, disk, wire, panel, past)
          BY DEF ThreadInv
        <5> HIDE DEF A
        <5> QED BY <5>1, Sources
      <4>2. panel.resync \in Calls
        BY <1>1 DEF Panels
      <4> QED BY <1>1, <3>1, <4>1, <4>2 DEF Events, Panels, Calls
    <3> QED BY <3>1, <3>2, <3>3, <3>4
  <2> QED BY <2>3, <2>4, <2>5
<1>3. CASE panel.resync.run \notin chat.bound
  <2>1. s = <<>>
    BY <1>3 DEF Missing
  <2>2. ToSet(s) = {} /\ DOMAIN s = {} /\ s \in Seq(Events)
    BY <2>1, NoElements
  <2> QED BY <2>2 DEF Increasing, Holeless
<1> QED BY <1>2, <1>3

LEMMA AnswerResyncKeeps == ASSUME ThreadInv, AnswerResync PROVE ThreadInv'
<1> DEFINE s == Missing(panel.resync.run, panel.resync.after)
           m == [kind |-> "resynced", events |-> s]
<1>1. Inv(chat, run, disk, wire, panel, past) /\ panel.resync # None
  BY Parts DEF AnswerResync
<1>2. wire' = Append(wire, m) /\ UNCHANGED <<chat, run, disk, panel, past>>
  BY DEF AnswerResync
<1> HIDE DEF s
<1>3. /\ s \in Seq(Events) /\ Increasing(s) /\ ToSet(s) \subseteq ToSet(chat.events)
      /\ past.restarts = 0 => Holeless(chat, s, panel)
  <2>1. s = Missing(panel.resync.run, panel.resync.after)
    BY DEF s
  <2> QED BY <1>1, <2>1, MissingOK
<1>4. m \in Messages /\ m.kind # "cleared" /\ Carried(m) \subseteq ToSet(chat.events) /\ m.events = s
  BY <1>3 DEF Messages, Carried
<1> HIDE DEF m
<1>5. Inv(chat, run, disk, Append(wire, m), panel, past)
  BY <1>1, <1>3, <1>4, WireGrows
<1> QED BY <1>2, <1>5 DEF ThreadInv

\* The panel changes, takes nothing and the wire may lose messages.
LEMMA PanelMoves ==
  ASSUME ThreadInv, NEW q \in Panels, Left(panel, q), q.clearing = panel.clearing,
         q.resync = panel.resync, NEW w \in Seq(Messages), Sub(w, wire)
  PROVE  Inv(chat, run, disk, w, q, past)
<1>1. Inv(chat, run, disk, w, panel, past)
  BY WireShrinks DEF ThreadInv
<1> QED BY <1>1, PanelRests

LEMMA SubSelf == Sub(wire, wire)
  BY DEF Sub

LEMMA ConnectKeeps == ASSUME ThreadInv, Connect PROVE ThreadInv'
<1> DEFINE q == panel'
           w == wire'
<1>1. panel \in Panels /\ wire \in Seq(Messages)
  BY Parts
<1>2. /\ q = [panel EXCEPT !.port = "binding", !.recovery = "asked"] /\ w = NoRecovery(wire)
      /\ UNCHANGED <<chat, run, disk, past>>
  <2> DEFINE p == [panel EXCEPT !.port = "binding"]
  <2>1. q = [p EXCEPT !.recovery = "asked"] /\ w = NoRecovery(wire) /\ UNCHANGED <<chat, run, disk, past>>
    BY DEF Connect, Recovering
  <2>2. [p EXCEPT !.recovery = "asked"] = [panel EXCEPT !.port = "binding", !.recovery = "asked"]
    BY <1>1 DEF Panels
  <2> QED BY <2>1, <2>2
<1> HIDE DEF q, w
<1>3. q \in Panels /\ Left(panel, q) /\ q.clearing = panel.clearing /\ q.resync = panel.resync
  BY <1>1, <1>2 DEF Panels, Left
<1>4. w \in Seq(Messages) /\ Sub(w, wire)
  BY <1>1, <1>2, NoRecoverySub
<1>5. Inv(chat, run, disk, w, q, past)
  BY <1>3, <1>4, PanelMoves
<1> QED BY <1>2, <1>5 DEF ThreadInv, q, w

LEMMA BindPortKeeps == ASSUME ThreadInv, BindPort PROVE ThreadInv'
<1> DEFINE q == panel'
<1>1. panel \in Panels /\ wire \in Seq(Messages)
  BY Parts
<1>2. q = [panel EXCEPT !.port = "bound"] /\ UNCHANGED <<chat, run, disk, wire, past>>
  BY DEF BindPort
<1> HIDE DEF q
<1>3. q \in Panels /\ Left(panel, q) /\ q.clearing = panel.clearing /\ q.resync = panel.resync
  BY <1>1, <1>2 DEF Panels, Left
<1>4. Inv(chat, run, disk, wire, q, past)
  BY <1>1, <1>3, SubSelf, PanelMoves
<1> QED BY <1>2, <1>4 DEF ThreadInv, q

LEMMA SubmitKeeps == ASSUME ThreadInv, NEW r \in Runs, Submit(r) PROVE ThreadInv'
<1> DEFINE q == panel'
           g == run'
           ended == panel.ended \cup ({panel.active} \ {None})
<1>1. panel \in Panels /\ wire \in Seq(Messages) /\ run \in [Runs -> {"new", "asked", "live", "over"}]
  BY Parts
<1>2. /\ run[r] = "new" /\ ~panel.clearing /\ g = [run EXCEPT ![r] = "asked"]
      /\ UNCHANGED <<chat, disk, wire, past>>
      /\ q = [panel EXCEPT !.waiting = r, !.busy = TRUE, !.active = None, !.ended = ended]
  BY DEF Submit
<1>3. ended \in SUBSET (Runs \cup {None})
  BY <1>1 DEF Panels
<1> HIDE DEF q, g, ended
<1>4. q \in Panels /\ Left(panel, q) /\ q.clearing = panel.clearing /\ q.resync = panel.resync
  BY <1>1, <1>2, <1>3 DEF Panels, Left
<1>5. Inv(chat, run, disk, wire, q, past)
  BY <1>1, <1>4, SubSelf, PanelMoves
<1>6. g \in [Runs -> {"new", "asked", "live", "over"}] /\ Over(run) \subseteq Over(g)
  BY <1>1, <1>2 DEF Over
<1>7. Inv(chat, g, disk, wire, q, past)
  BY <1>2, <1>4, <1>5, <1>6, RunsChange
<1> QED BY <1>2, <1>7 DEF ThreadInv, q, g

LEMMA PollTerminalKeeps == ASSUME ThreadInv, PollTerminal PROVE ThreadInv'
<1> DEFINE q == panel'
           w == wire'
<1>1. panel \in Panels /\ wire \in Seq(Messages)
  BY Parts
<1>2. /\ UNCHANGED <<chat, run, disk, past>>
      /\ \/ q = Settled(panel) /\ w = NoRecovery(wire)
         \/ q = [panel EXCEPT !.waiting = None] /\ w = wire
  BY DEF PollTerminal
<1> HIDE DEF q, w
<1>3. Settled(panel) = [panel EXCEPT !.waiting = None, !.busy = FALSE, !.recovery = "asked"]
  BY <1>1 DEF Settled, Recovering, Panels
<1>4. q \in Panels /\ Left(panel, q) /\ q.clearing = panel.clearing /\ q.resync = panel.resync
  <2>1. CASE q = Settled(panel)
    BY <1>1, <1>3, <2>1 DEF Panels, Left
  <2>2. CASE q = [panel EXCEPT !.waiting = None]
    BY <1>1, <2>2 DEF Panels, Left
  <2> QED BY <1>2, <2>1, <2>2
<1>5. w \in Seq(Messages) /\ Sub(w, wire)
  BY <1>1, <1>2, NoRecoverySub, SubSelf
<1>6. Inv(chat, run, disk, w, q, past)
  BY <1>4, <1>5, PanelMoves
<1> QED BY <1>2, <1>6 DEF ThreadInv, q, w

LEMMA ReopenKeeps == ASSUME ThreadInv, Reopen PROVE ThreadInv'
<1> DEFINE A == Around(chat, disk.saved, <<>>)
           h == past'
<1>1. Inv(chat, run, disk, wire, panel, past) /\ past \in Pasts
  BY Parts
<1>2. /\ ~panel.clearing /\ panel' = NewPanel /\ wire' = <<>> /\ UNCHANGED <<chat, run, disk>>
      /\ h = [past EXCEPT !.panels = past.panels + 1]
  BY DEF Reopen
<1>3. Inv(chat, run, disk, <<>>, panel, past)
  <2>1. <<>> \in Seq(Messages) /\ Sub(<<>>, wire)
    BY EmptySub
  <2> QED BY <1>1, <2>1, WireShrinks
<1>4. /\ past.born \in Nat /\ past.threads \in Nat /\ chat.thread \in Threads /\ chat \in Chats
      /\ chat.next \in Nat /\ chat.next >= 1
      /\ AroundOK(A, past.born, past.threads) /\ ToSet(chat.events) \subseteq A
      /\ \A a \in A : a.thread \in Threads /\ a \in Events
      /\ Lineage(chat, A, panel)
  <2> HIDE DEF A
  <2>1. A = Around(chat, disk.saved, <<>>)
    BY DEF A
  <2>2. chat.next >= 1
    BY <1>1 DEF Inv, ChatOK
  <2> QED BY <1>3, <2>1, <2>2, Sources
<1>5. /\ NewPanel \in Panels /\ NewPanel.offered = <<>> /\ NewPanel.resync = None
      /\ NewPanel.clearing = FALSE /\ \A t \in Threads : NewPanel.seen[t] = 0
  BY NewPanelOK
<1> HIDE DEF A, h
<1>6. Lineage(chat, A, NewPanel) /\ OfferedOK(NewPanel, A, past.born)
  BY <1>2, <1>4, <1>5, NoElements DEF Lineage, OfferedOK, Rising
<1>7. past.restarts = 0 => PassedOK(chat, NewPanel, past) /\ WireWhole(chat, <<>>, NewPanel)
  <2>1. ASSUME NEW e \in ToSet(chat.events) PROVE ~(e.seq <= NewPanel.seen[e.thread])
    <3>1. e \in A /\ e \in Events /\ e.thread \in Threads /\ e.seq >= 1
      BY <1>4 DEF AroundOK
    <3>2. e.seq \in Nat /\ NewPanel.seen[e.thread] = 0
      BY <1>5, <3>1 DEF Events
    <3> QED BY <3>1, <3>2
  <2>2. chat.thread # 0 => NewPanel.seen[chat.thread] < chat.next
    BY <1>4, <1>5
  <2>3. PassedOK(chat, NewPanel, past)
    BY <1>5, <2>1, <2>2 DEF PassedOK
  <2> QED BY <1>5, <2>3, NoElements DEF WireWhole
<1>8. ClearOK(chat, run, disk, <<>>, NewPanel, past)
  <2>1. ClearOK(chat, run, disk, wire, panel, past)
    BY <1>1 DEF Inv
  <2>2. Tells(<<>>) = {}
    BY NoElements DEF Tells
  <2> QED BY <1>2, <1>5, <2>1, <2>2 DEF ClearOK
<1>9. Inv(chat, run, disk, <<>>, NewPanel, past)
  BY <1>3, <1>5, <1>6, <1>7, <1>8 DEF Inv, A
<1>10. /\ h \in Pasts /\ h.born = past.born /\ h.threads = past.threads /\ h.cleared = past.cleared
       /\ h.clears = past.clears /\ h.restarts = past.restarts
  <2>1. past.panels + 1 \in Nat
    BY <1>1 DEF Pasts
  <2> QED BY <1>1, <1>2, <2>1 DEF Pasts
<1>11. Inv(chat, run, disk, <<>>, NewPanel, h)
  BY <1>9, <1>10, PastRests
<1> QED BY <1>2, <1>11 DEF ThreadInv, h

-----------------------------------------------------------------------------
(* The invariant.                                                          *)

LEMMA ThreadStarts == ASSUME Init PROVE ThreadInv
<1> DEFINE given == [t \in Threads |-> <<>>]
<1>1. /\ chat = Fresh /\ run = [r \in Runs |-> "new"] /\ wire = <<>> /\ panel = NewPanel
      /\ disk = [saved |-> None, timer |-> FALSE, queue |-> <<>>]
      /\ past = [born |-> 0, given |-> given, threads |-> 0,
                 cleared |-> 0, clears |-> 0, restarts |-> 0, panels |-> 0]
  BY DEF Init
<1>2. given \in [Threads -> Seq(Nat)]
  OBVIOUS
<1> HIDE DEF given
<1>3. /\ past \in Pasts /\ past.born = 0 /\ past.threads = 0 /\ past.cleared = 0 /\ past.clears = 0
      /\ past.restarts = 0
  BY <1>1, <1>2 DEF Pasts
<1>4. /\ ChatOK(Fresh, past.born, past.threads) /\ Fresh \in Chats /\ Fresh.thread = 0
      /\ ToSet(Fresh.events) = {}
  BY <1>3, FreshOK
<1>5. /\ NewPanel \in Panels /\ NewPanel.offered = <<>> /\ NewPanel.resync = None
      /\ NewPanel.clearing = FALSE /\ \A t \in Threads : NewPanel.seen[t] = 0
  BY NewPanelOK
<1>6. OnWire(<<>>) = {} /\ DOMAIN <<>> = {} /\ Tells(<<>>) = {} /\ Erases(<<>>) = {}
      /\ <<>> \in Seq(Jobs) /\ <<>> \in Seq(Messages)
  BY NoElements DEF OnWire, Tells, Erases
<1>7. disk.saved = None /\ disk.queue = <<>> /\ DiskOK(disk) /\ Stored(disk.saved) = {}
      /\ StoredOK(disk.saved, past.threads)
  BY <1>1, <1>6 DEF DiskOK, Stored, StoredOK
<1>8. Around(Fresh, disk.saved, <<>>) = {}
  BY <1>4, <1>6, <1>7 DEF Around
<1>9. /\ AroundOK({}, past.born, past.threads) /\ Lineage(Fresh, {}, NewPanel)
      /\ OfferedOK(NewPanel, {}, past.born)
  BY <1>4, <1>5, NoElements DEF AroundOK, Lineage, OfferedOK, Rising
<1>10. PassedOK(Fresh, NewPanel, past) /\ WireWhole(Fresh, <<>>, NewPanel) /\ WireOK(<<>>)
  BY <1>4, <1>5, <1>6 DEF PassedOK, WireWhole, WireOK
<1>11. ClearOK(Fresh, run, disk, <<>>, NewPanel, past)
  BY <1>3, <1>4, <1>5, <1>6, <1>7 DEF ClearOK
<1>12. PastOK(Fresh, run, past)
  <2>1. past.born <= MaxEvents + Cardinality(Over(run))
    BY <1>3, OversCounted
  <2>2. past.clears <= MaxClears /\ past.restarts <= MaxRestarts
    BY <1>3, Nats
  <2>3. past.threads + (IF Fresh.thread = 0 THEN 1 ELSE 0) <= past.clears + past.restarts + 1
    BY <1>3, <1>4
  <2> QED BY <1>3, <2>1, <2>2, <2>3 DEF PastOK
<1>13. run \in [Runs -> {"new", "asked", "live", "over"}]
  BY <1>1
<1> QED BY <1>1, <1>4, <1>5, <1>7, <1>8, <1>9, <1>10, <1>11, <1>12, <1>13 DEF ThreadInv, Inv

LEMMA ThreadSteps == ASSUME ThreadInv, [Next]_vars PROVE ThreadInv'
<1>1. CASE \E r \in Runs : Submit(r) \/ Start(r) \/ Refuse(r) \/ Say(r) \/ End(r)
  BY <1>1, SubmitKeeps, StartKeeps, RefuseKeeps, SayKeeps, EndKeeps
<1>2. CASE Worker
  BY <1>2, TimerKeeps, WriteKeeps, AnswerRecoveryKeeps, AnswerResyncKeeps, BindPortKeeps DEF Worker
<1>3. CASE Receive \/ Connect \/ PollTerminal
  BY <1>3, ReceiveKeeps, ConnectKeeps, PollTerminalKeeps
<1>4. CASE Clear \/ Reopen \/ Restart
  BY <1>4, ClearKeeps, ReopenKeeps, RestartKeeps
<1>5. CASE UNCHANGED vars
  BY <1>5 DEF ThreadInv, vars
<1> QED BY <1>1, <1>2, <1>3, <1>4, <1>5 DEF Next

\* The inductive invariant: events are born in the order they are numbered, the panel takes
\* only what was born after all it took, no message that reads the thread has a hole above
\* what the panel has seen, and a conversation is erased before its answer is sent.
THEOREM ThreadInvariance == Spec => []ThreadInv
<1>1. Init => ThreadInv
  BY ThreadStarts
<1>2. ThreadInv /\ [Next]_vars => ThreadInv'
  BY ThreadSteps
<1> QED BY <1>1, <1>2, PTL DEF Spec

LEMMA EventTyped ==
  ASSUME ThreadInv, NEW e \in Around(chat, disk.saved, wire)
  PROVE  e \in EventType /\ e.n \in Nat
<1> DEFINE A == Around(chat, disk.saved, wire)
           top == MaxEvents + Cardinality(Runs) + 1
<1>1. e \in Events /\ e.thread \in Threads /\ AroundOK(A, past.born, past.threads) /\ past.born \in Nat
  <2> HIDE DEF A
  <2>1. A = Around(chat, disk.saved, wire) /\ Inv(chat, run, disk, wire, panel, past)
    BY DEF A, ThreadInv
  <2>2. e \in A
    BY DEF A
  <2> QED BY <2>1, <2>2, Sources
<1>2. e.seq >= 1 /\ e.seq <= e.n /\ e.n <= past.born
  BY <1>1 DEF AroundOK
<1>3. past.born <= MaxEvents + Cardinality(Runs)
  <2>1. past.born <= MaxEvents + Cardinality(Over(run))
    BY DEF ThreadInv, Inv, PastOK
  <2> QED BY <1>1, <2>1, OversCounted, Nats
<1>4. e.seq \in Nat /\ e.n \in Nat /\ e.run \in Runs \cup {None} /\ e.type \in Types
  BY <1>1 DEF Events
<1>5. e.seq \in 1 .. top /\ e.n \in 1 .. top
  BY <1>1, <1>2, <1>3, <1>4, OversCounted, Nats
<1>6. e = [thread |-> e.thread, seq |-> e.seq, run |-> e.run, type |-> e.type, n |-> e.n]
  BY <1>1 DEF Events
<1> HIDE DEF top
<1>7. e \in [thread : Threads, seq : 1 .. top, run : Runs \cup {None}, type : Types, n : 1 .. top]
  BY <1>1, <1>4, <1>5, <1>6
<1> QED BY <1>4, <1>7 DEF EventType, top

LEMMA InvIsSafe == ASSUME ThreadInv PROVE ThreadSafety
<1> DEFINE A == Around(chat, disk.saved, wire)
<1>1. /\ Inv(chat, run, disk, wire, panel, past) /\ chat \in Chats /\ panel \in Panels
      /\ ChatOK(chat, past.born, past.threads) /\ past \in Pasts
      /\ run \in [Runs -> {"new", "asked", "live", "over"}]
  BY Parts DEF Inv
<1>2. ToSet(chat.events) \subseteq A /\ Stored(disk.saved) \subseteq A
  BY DEF Around
<1>3. \A i \in DOMAIN chat.events : chat.events[i] \in ToSet(chat.events)
  BY DEF ToSet
<1>4. TypeOK
  <2>1. ToSet(chat.events) \subseteq EventType
    BY <1>2, EventTyped
  <2>2. chat.bound \subseteq Runs /\ chat.finished \subseteq chat.bound
    BY <1>1 DEF ChatOK, Chats
  <2>3. \A i, j \in DOMAIN chat.events : i < j => chat.events[i].seq < chat.events[j].seq
    BY <1>1 DEF ChatOK, Increasing
  <2>4. \A i \in DOMAIN chat.events : chat.events[i].thread = chat.thread /\ chat.events[i].seq < chat.next
    BY <1>1, <1>3 DEF ChatOK
  <2>5. disk.saved = None \/ ToSet(disk.saved.events) \subseteq {e \in EventType : Persistent(e)}
    <3> SUFFICES ASSUME disk.saved # None, NEW e \in ToSet(disk.saved.events)
                 PROVE  e \in EventType /\ Persistent(e)
      OBVIOUS
    <3>1. e \in Stored(disk.saved)
      BY DEF Stored
    <3>2. e \in EventType
      BY <1>2, <3>1, EventTyped
    <3>3. Persistent(e)
      BY <1>1 DEF Inv, StoredOK
    <3> QED BY <3>2, <3>3
  <2>6. /\ panel.active \in Runs \cup {None} /\ panel.waiting \in Runs \cup {None}
        /\ panel.port \in {"none", "binding", "bound"} /\ panel.recovery \in {"idle", "asked", "answered"}
    BY <1>1 DEF Panels
  <2> QED BY <1>1, <2>1, <2>2, <2>3, <2>4, <2>5, <2>6 DEF TypeOK
<1>5. ShownInOrder
  BY <1>1 DEF Inv, OfferedOK, Rising, ShownInOrder
<1>6. NothingSkipped
  <2> SUFFICES ASSUME past.restarts = 0, NEW i \in DOMAIN chat.events, NEW e, e = chat.events[i],
                      Persistent(e), e.seq <= panel.seen[e.thread]
               PROVE  e.n \in ToSet(panel.offered)
    BY DEF NothingSkipped
  <2> QED BY <1>1, <1>3 DEF Inv, PassedOK
<1>7. ClearedStaysCleared
  <2>1. \A e \in ToSet(chat.events) \cup Stored(disk.saved) : e.n > past.cleared
    BY <1>1 DEF Inv, ClearOK
  <2>2. disk.saved # None => \A i \in DOMAIN disk.saved.events : disk.saved.events[i] \in Stored(disk.saved)
    BY DEF Stored, ToSet
  <2> QED BY <1>3, <2>1, <2>2 DEF ClearedStaysCleared
<1>8. AsksAreLive
  BY <1>1, <1>3 DEF ChatOK, AsksAreLive
<1> QED BY <1>4, <1>5, <1>6, <1>7, <1>8 DEF ThreadSafety

\* The panel shows the events of the thread in their order and without holes, whatever is
\* posted, recovered, resynchronised, cleared and restarted (ChatThreadStore, the chat port
\* of the service worker and applyChatEvent of the panel).
THEOREM ThreadIsSafe == Spec => []ThreadSafety
<1>1. ThreadInv => ThreadSafety
  BY InvIsSafe
<1> QED BY <1>1, ThreadInvariance, PTL

-----------------------------------------------------------------------------
(* The panel's request client: a client that asks, asks about the request  *)
(* submitted last, what is shown is of it, and one row at most is live.    *)

\* What the runs assume of the constants.
LEMMA ClientConstants ==
  /\ None \notin Requests
  /\ {MaxRevision, MaxIncidents, MaxTimeouts} \subseteq Nat
  /\ MaxRevision > 0
  BY ClientFits DEF Client!ConstantsFit

\* What is on its way, and the state of the panel.
ClientCalls == [kind : Client!Kinds, id : Requests, heard : BOOLEAN]
Answers == [kind : Client!Kinds, id : Requests, ok : BOOLEAN, broken : BOOLEAN, row : Client!Entry]
Composers == [of : Requests \cup {None}, busy : BOOLEAN, stop : BOOLEAN,
           view : Requests \cup {None}, results : SUBSET Client!Results, untold : BOOLEAN]
Clients == [id : Requests \cup {None}, revision : 0 .. MaxRevision + 2,
            delivered : BOOLEAN, polling : BOOLEAN]

\* A row that is not at its end has a revision to spare, for the one that ends it.
Rows(m) ==
  /\ m \in [Requests -> Client!Entry]
  /\ \A r \in Requests : m[r].state \in Client!Unfinished => m[r].revision <= MaxRevision + 1

Alone(m) ==
  \A q, r \in Requests : m[q].state \in Client!Unfinished /\ m[r].state \in Client!Unfinished => q = r

\* A client that asks, asks about the request submitted last, and what is shown is of it.
Asks(c, p) ==
  /\ c.id # None => c.id = p.of
  /\ c.polling => c.id # None
  /\ p.view # None => p.view = p.of

Travel == mail \in Seq(ClientCalls) /\ replies \subseteq Answers

PanelInv ==
  /\ client \in Clients /\ composer \in Composers /\ Asks(client, composer)
  /\ Rows(requests) /\ Rows(rows) /\ Alone(requests)
  /\ ends \subseteq Requests /\ Travel
  /\ tally \in [restarts : Nat, timeouts : Nat, events : Nat]

-----------------------------------------------------------------------------
(* Rows.                                                                   *)

LEMMA AbsentIsEntry == Client!Absent \in Client!Entry
  BY ClientConstants DEF Client!Absent, Client!Entry, Client!States, Client!Results

LEMMA IdleIsClient == Client!Idle \in Clients
  BY ClientConstants DEF Client!Idle, Clients

\* One row is replaced by one that keeps its revision to spare and is not live anew.
LEMMA RowReplaced ==
  ASSUME NEW m, Rows(m), NEW r \in Requests, NEW e \in Client!Entry,
         e.state \in Client!Unfinished => e.revision <= MaxRevision + 1
  PROVE  /\ Rows([m EXCEPT ![r] = e])
         /\ Alone(m) /\ (e.state \in Client!Unfinished =>
              \A q \in Requests : m[q].state \in Client!Unfinished => q = r)
              => Alone([m EXCEPT ![r] = e])
  BY DEF Rows, Alone

\* What the worker writes keeps state and revision.
LEMMA SavedRows ==
  ASSUME NEW m, Rows(m) PROVE Rows(Client!Saved(m))
<1>1. ASSUME NEW r \in Requests
      PROVE  /\ Client!Row(m[r]) \in Client!Entry
             /\ Client!Row(m[r]).state = m[r].state /\ Client!Row(m[r]).revision = m[r].revision
  BY DEF Rows, Client!Row, Client!Entry, Client!Results
<1> QED BY <1>1 DEF Rows, Client!Saved

\* The fields of an entry.
LEMMA EntryFields ==
  ASSUME NEW e \in Client!Entry
  PROVE  /\ e.state \in Client!States /\ e.revision \in 0 .. MaxRevision + 2 /\ e.revision \in Nat
         /\ e.result \in Client!Results /\ e.run \in {"none", "live", "over", "cut"}
  BY ClientConstants DEF Client!Entry

\* A row with other fields.
Changed(e, state, n, result, how) ==
  [e EXCEPT !.state = state, !.revision = n, !.result = result, !.run = how]

LEMMA ChangedIsEntry ==
  ASSUME NEW e \in Client!Entry, NEW state \in Client!States, NEW n \in 0 .. MaxRevision + 2,
         NEW result \in Client!Results, NEW how \in {"none", "live", "over", "cut"}
  PROVE  /\ Changed(e, state, n, result, how) \in Client!Entry
         /\ Changed(e, state, n, result, how).state = state
         /\ Changed(e, state, n, result, how).revision = n
  BY DEF Client!Entry, Changed

-----------------------------------------------------------------------------
(* Calls.                                                                  *)

LEMMA CallKeeps ==
  ASSUME Travel, NEW kind \in Client!Kinds, NEW r \in Requests, Client!Send(kind, r)
  PROVE  mail' \in Seq(ClientCalls)
<1>1. Client!Call(kind, r) \in ClientCalls
  BY DEF Client!Call, ClientCalls
<1> QED BY <1>1 DEF Travel, Client!Send

\* A poll asks about the request of the client.
LEMMA PollKeeps ==
  ASSUME Travel, NEW c \in Clients, NEW p, Asks(c, p), Client!PollAfter(c)
  PROVE  client' \in Clients /\ Asks(client', p) /\ mail' \in Seq(ClientCalls)
<1>1. CASE c.id = None \/ c.polling
  BY <1>1 DEF Client!PollAfter, Travel
<1>2. CASE ~(c.id = None \/ c.polling)
  <2>1. client' = Client!Polled(c) /\ Client!Send("status", c.id) /\ c.id \in Requests
    BY <1>2 DEF Client!PollAfter, Clients
  <2>2. mail' \in Seq(ClientCalls)
    BY <2>1, CallKeeps DEF Client!Kinds
  <2> QED BY <1>2, <2>1, <2>2 DEF Client!Polled, Clients, Asks
<1> QED BY <1>1, <1>2

-----------------------------------------------------------------------------
(* The client.                                                             *)

LEMMA RequestSubmitKeeps ==
  ASSUME PanelInv, NEW r \in Requests, Client!Submit(r) PROVE PanelInv'
<1>1. mail' \in Seq(ClientCalls)
  BY CallKeeps DEF Client!Submit, PanelInv, Client!Kinds
<1>2. client' = [id |-> r, revision |-> 0, delivered |-> FALSE, polling |-> FALSE]
  BY DEF Client!Submit, Client!Idle
<1>3. client' \in Clients
  BY <1>2, IdleIsClient DEF Clients, Client!Idle
<1>4. composer' \in Composers /\ composer'.of = r /\ composer'.view = None
  BY DEF Client!Submit, PanelInv, Composers
<1>5. Asks(client, composer)'
  BY <1>2, <1>4 DEF Asks
<1> QED BY <1>1, <1>3, <1>4, <1>5 DEF Client!Submit, PanelInv, Travel

LEMMA PollingKeeps == ASSUME PanelInv, Client!Poll PROVE PanelInv'
<1>1. client' \in Clients /\ Asks(client', composer) /\ mail' \in Seq(ClientCalls)
  BY PollKeeps DEF Client!Poll, PanelInv
<1> QED BY <1>1 DEF Client!Poll, PanelInv, Travel

LEMMA StopKeeps == ASSUME PanelInv, Client!Stop PROVE PanelInv'
<1>1. client.id \in Requests
  BY DEF Client!Stop, PanelInv, Clients
<1>2. mail' \in Seq(ClientCalls)
  BY <1>1, CallKeeps DEF Client!Stop, PanelInv, Client!Kinds
<1>3. composer' \in Composers /\ Asks(client, composer)'
  BY DEF Client!Stop, PanelInv, Composers, Asks
<1> QED BY <1>2, <1>3 DEF Client!Stop, PanelInv, Travel

LEMMA ChooseKeeps == ASSUME PanelInv, Client!Choose PROVE PanelInv'
<1>1. client.id \in Requests
  BY DEF Client!Choose, PanelInv, Clients
<1>2. mail' \in Seq(ClientCalls)
  BY <1>1, CallKeeps DEF Client!Choose, PanelInv, Client!Kinds
<1>3. client' \in Clients /\ Asks(client, composer)'
  BY DEF Client!Choose, PanelInv, Clients, Asks
<1> QED BY <1>2, <1>3 DEF Client!Choose, PanelInv, Travel

\* Ending the runs of the tab changes no state and no revision.
LEMMA NewChatKeeps == ASSUME PanelInv, Client!NewChat PROVE PanelInv'
<1>1. client' \in Clients /\ composer' \in Composers /\ Asks(client, composer)'
  BY IdleIsClient DEF Client!NewChat, PanelInv, Composers, Asks, Client!Idle
<1>2. ASSUME NEW r \in Requests
      PROVE  /\ requests'[r] \in Client!Entry /\ requests'[r].state = requests[r].state
             /\ requests'[r].revision = requests[r].revision
  BY DEF Client!NewChat, PanelInv, Rows, Client!Entry
<1>3. Rows(requests') /\ Alone(requests')
  <2>1. DOMAIN requests' = Requests /\ requests' = [r \in Requests |-> requests'[r]]
    BY DEF Client!NewChat
  <2> QED BY <1>2, <2>1 DEF PanelInv, Rows, Alone
<1> QED BY <1>1, <1>3 DEF Client!NewChat, PanelInv, Travel

LEMMA SeeEndKeeps == ASSUME PanelInv, Client!SeeEnd PROVE PanelInv'
<1>1. composer' \in Composers /\ Asks(client, composer')
  BY DEF Client!SeeEnd, PanelInv, Composers, Asks
<1> QED BY <1>1 DEF Client!SeeEnd, PanelInv, Travel

-----------------------------------------------------------------------------
(* Answers.                                                                *)

\* A snapshot of the present request is shown.
LEMMA StatusKeeps ==
  ASSUME PanelInv, NEW a \in Answers, Client!Mine(a), Client!TakeStatus(a)
  PROVE  client' \in Clients /\ composer' \in Composers /\ Asks(client', composer') /\ mail' = mail
<1>1. client.id = a.id /\ a.id \in Requests /\ a.id # None /\ a.row \in Client!Entry /\ composer.of = a.id
  BY ClientConstants DEF Client!Mine, Answers, PanelInv, Asks
<1>2. a.row.revision \in 0 .. MaxRevision + 2 /\ a.row.result \in Client!Results
  BY <1>1, EntryFields
<1> DEFINE shown == Client!Updated(composer, a)
           given == Client!Delivered(shown, a)
<1>3. shown \in Composers /\ shown.of = a.id /\ (shown.view # None => shown.view = a.id)
  BY <1>1 DEF Client!Updated, Composers, PanelInv, Asks
<1> HIDE DEF shown
<1>4. given \in Composers /\ given.of = a.id /\ (given.view # None => given.view = a.id)
  BY <1>2, <1>3 DEF Client!Delivered, Composers
<1> HIDE DEF given
<1>5. composer' = [given EXCEPT !.untold = @ \/ (a.row.state = "TERMINAL" /\ ~Client!Newer(a))]
  BY DEF Client!TakeStatus, shown, given
<1>6. composer' \in Composers /\ composer'.of = a.id /\ (composer'.view # None => composer'.view = a.id)
  BY <1>4, <1>5 DEF Composers
<1>7. client' \in Clients /\ (client'.id # None => client'.id = a.id)
      /\ (client'.polling => client'.id # None)
  BY <1>1, <1>2, IdleIsClient DEF Client!TakeStatus, Client!LetGo, Client!Idle, PanelInv, Clients
<1> QED BY <1>6, <1>7 DEF Client!TakeStatus, Asks

LEMMA NoStatusKeeps ==
  ASSUME PanelInv, NEW a \in Answers, Client!TakeNoStatus(a)
  PROVE  client' \in Clients /\ composer' \in Composers /\ Asks(client', composer') /\ mail' = mail
<1>1. CASE a.broken
  BY <1>1 DEF Client!TakeNoStatus, Client!PollFailed, PanelInv, Clients, Asks
<1>2. CASE ~a.broken
  <2>1. client' = Client!Idle /\ composer' = [composer EXCEPT !.busy = FALSE] /\ mail' = mail
    BY <1>2 DEF Client!TakeNoStatus, Client!LetGo
  <2>2. composer' \in Composers /\ composer'.view = composer.view /\ composer'.of = composer.of
    BY <2>1 DEF PanelInv, Composers
  <2> QED BY <2>1, <2>2, IdleIsClient DEF PanelInv, Asks, Client!Idle
<1> QED BY <1>1, <1>2

LEMMA RefusedKeeps ==
  ASSUME PanelInv, NEW a \in Answers, Client!TakeRefused(a)
  PROVE  client' \in Clients /\ composer' \in Composers /\ Asks(client', composer') /\ mail' = mail
  BY IdleIsClient DEF Client!TakeRefused, Client!Idle, PanelInv, Clients, Composers, Asks

LEMMA ForeignKeeps ==
  ASSUME PanelInv, NEW a \in Answers, Client!TakeForeign(a)
  PROVE  client' \in Clients /\ composer' \in Composers /\ Asks(client', composer') /\ mail' = mail
  BY DEF Client!TakeForeign, PanelInv, Composers, Asks

LEMMA TakeKeeps == ASSUME PanelInv, NEW kind \in Client!Kinds, Client!Take(kind) PROVE PanelInv'
<1>1. PICK a \in replies :
        /\ replies' = replies \ {a}
        /\ IF Client!Mine(a) THEN Client!TakeStatus(a) \/ Client!TakeNoStatus(a)
                               \/ Client!TakeAccepted(a) \/ Client!TakeRefused(a)
           ELSE Client!TakeForeign(a)
  BY DEF Client!Take
<1>2. a \in Answers
  BY DEF PanelInv, Travel
<1>3. ASSUME Client!TakeAccepted(a)
      PROVE  client' \in Clients /\ composer' \in Composers
             /\ Asks(client', composer') /\ mail' \in Seq(ClientCalls)
  BY <1>3, PollKeeps DEF Client!TakeAccepted, PanelInv
<1>4. client' \in Clients /\ composer' \in Composers /\ Asks(client', composer') /\ mail' \in Seq(ClientCalls)
  BY <1>1, <1>2, <1>3, StatusKeeps, NoStatusKeeps, RefusedKeeps, ForeignKeeps DEF PanelInv, Travel
<1> QED BY <1>1, <1>4 DEF Client!Take, PanelInv, Travel

\* A call that is given up is only not heard any more.
LEMMA TimeoutKeeps == ASSUME PanelInv, NEW kind \in Client!Kinds, Client!Timeout(kind) PROVE PanelInv'
<1>1. client.id \in Requests
  BY DEF Client!Timeout, PanelInv, Clients
<1> DEFINE unheard == [i \in DOMAIN mail |-> IF mail[i] = Client!Call(kind, client.id)
                                             THEN [mail[i] EXCEPT !.heard = FALSE] ELSE mail[i]]
<1>2. unheard \in Seq(ClientCalls)
  <2>1. Len(mail) \in Nat /\ DOMAIN mail = 1 .. Len(mail) /\ \A i \in DOMAIN mail : mail[i] \in ClientCalls
    BY DEF PanelInv, Travel
  <2>2. \A i \in 1 .. Len(mail) : unheard[i] \in ClientCalls
    BY <2>1 DEF ClientCalls
  <2>3. unheard \in [1 .. Len(mail) -> ClientCalls]
    BY <2>1, <2>2
  <2> QED BY <2>1, <2>3
<1>3. Client!Call("status", client.id) \in ClientCalls
  BY <1>1 DEF Client!Call, ClientCalls, Client!Kinds
<1>4. mail' \in Seq(ClientCalls)
  <2>1. mail' = unheard \/ mail' = Append(unheard, Client!Call("status", client.id))
    BY DEF Client!Timeout
  <2> HIDE DEF unheard
  <2> QED BY <1>2, <1>3, <2>1
<1>5. replies' \subseteq Answers
  BY DEF Client!Timeout, PanelInv, Travel
<1>6. client' \in Clients /\ composer' \in Composers /\ Asks(client', composer')
  BY <1>1, ClientConstants DEF Client!Timeout, Client!PollFailed, Client!Polled, PanelInv, Clients,
     Composers, Asks
<1>7. tally' \in [restarts : Nat, timeouts : Nat, events : Nat]
  BY DEF Client!Timeout, PanelInv
<1> QED BY <1>4, <1>5, <1>6, <1>7 DEF Client!Timeout, PanelInv, Travel

-----------------------------------------------------------------------------
(* The worker.                                                             *)

\* An entry is changed in place, or ends: what Set and Finish do.
LEMMA SetKeeps ==
  ASSUME PanelInv, NEW r \in Requests, NEW e \in Client!Entry, Client!Set(r, e),
         e.state \in Client!Unfinished => e.revision <= MaxRevision + 1 /\ Client!Live(r)
  PROVE  Rows(requests') /\ Alone(requests')
<1>1. Rows(requests) /\ Alone(requests) /\ requests' = [requests EXCEPT ![r] = e]
  BY DEF PanelInv, Client!Set
<1>2. e.state \in Client!Unfinished => \A q \in Requests : requests[q].state \in Client!Unfinished => q = r
  BY <1>1 DEF Alone, Client!Live
<1> QED BY <1>1, <1>2, RowReplaced

LEMMA FinishKeeps ==
  ASSUME PanelInv, NEW r \in Requests, NEW how \in {"over", "cut"}, Client!Live(r), Client!Finish(r, how)
  PROVE  Rows(requests') /\ Alone(requests') /\ ends' \subseteq Requests
<1>1. requests[r] \in Client!Entry /\ requests[r].revision <= MaxRevision + 1
  BY DEF PanelInv, Rows, Client!Live
<1> DEFINE e == [requests[r] EXCEPT !.state = "TERMINAL", !.revision = @ + 1,
                                    !.run = IF requests[r].run = "cut" THEN @ ELSE how]
<1>2. e \in Client!Entry /\ e.state \notin Client!Unfinished
  <2> DEFINE end == IF requests[r].run = "cut" THEN "cut" ELSE how
  <2>1. end \in {"none", "live", "over", "cut"} /\ requests[r].result \in Client!Results
        /\ requests[r].revision + 1 \in 0 .. MaxRevision + 2
    BY <1>1, EntryFields, ClientConstants
  <2>2. "TERMINAL" \in Client!States /\ "TERMINAL" \notin Client!Unfinished
    BY DEF Client!States, Client!Unfinished
  <2>3. e = Changed(requests[r], "TERMINAL", requests[r].revision + 1, requests[r].result, end)
    BY <1>1 DEF Client!Entry, Changed
  <2> HIDE DEF e, end
  <2> QED BY <1>1, <2>1, <2>2, <2>3, ChangedIsEntry
<1>3. Client!Set(r, e)
  BY DEF Client!Finish
<1> HIDE DEF e
<1>4. Rows(requests') /\ Alone(requests')
  BY <1>2, <1>3, SetKeeps
<1> QED BY <1>4 DEF Client!Finish, PanelInv

LEMMA ReplyKeeps ==
  ASSUME Travel, NEW c \in ClientCalls, NEW ok \in BOOLEAN, NEW row \in Client!Entry, Client!Reply(c, ok, row)
  PROVE  replies' \subseteq Answers
<1>1. Client!Answer(c.kind, c.id, ok, row) \in Answers
  BY DEF Client!Answer, ClientCalls, Answers
<1> QED BY <1>1 DEF Travel, Client!Reply

LEMMA HandleStartKeeps ==
  ASSUME PanelInv, NEW c \in ClientCalls, Client!HandleStart(c)
  PROVE  /\ Rows(requests') /\ Rows(rows') /\ Alone(requests')
         /\ ends' \subseteq Requests /\ replies' \subseteq Answers
<1>1. Travel /\ Rows(requests) /\ Rows(rows) /\ Alone(requests) /\ ends' \subseteq Requests
      /\ c.id \in Requests
  BY DEF PanelInv, Client!HandleStart, ClientCalls
<1>2. replies' \subseteq Answers
  BY <1>1, AbsentIsEntry, ReplyKeeps DEF Client!HandleStart
<1>3. CASE Client!TabBusy
  BY <1>1, <1>2, <1>3 DEF Client!HandleStart
<1>4. CASE ~Client!TabBusy
  <2>1. ASSUME NEW state \in {"RUNNING", "ACCEPTED"}, NEW n \in {1, 2}
        PROVE  /\ Client!Entered(state, n) \in Client!Entry
               /\ Client!Entered(state, n).revision <= MaxRevision + 1
    <3>1. n \in 0 .. MaxRevision + 2 /\ n <= MaxRevision + 1 /\ state \in Client!States
      BY ClientConstants DEF Client!States
    <3>2. Client!Absent.result = "none" /\ Client!Absent.run = "none" /\ "none" \in Client!Results
      BY DEF Client!Absent, Client!Results
    <3>3. Client!Entered(state, n) = Changed(Client!Absent, state, n, "none", "none")
      BY <3>2, AbsentIsEntry DEF Client!Entered, Changed, Client!Entry
    <3> QED BY <3>1, <3>2, <3>3, AbsentIsEntry, ChangedIsEntry
  <2>2. \A q \in Requests : requests[q].state \notin Client!Unfinished
    BY <1>4 DEF Client!TabBusy, Client!Live
  <2>3. Rows([requests EXCEPT ![c.id] = Client!Entered("RUNNING", 2)])
        /\ Alone([requests EXCEPT ![c.id] = Client!Entered("RUNNING", 2)])
        /\ Rows([requests EXCEPT ![c.id] = Client!Entered("ACCEPTED", 1)])
    BY <1>1, <2>1, <2>2, RowReplaced
  <2> QED BY <1>1, <1>2, <1>4, <2>3, SavedRows DEF Client!HandleStart
<1> QED BY <1>3, <1>4

LEMMA HandleOthersKeep ==
  ASSUME PanelInv, NEW c \in ClientCalls,
         Client!HandleStatus(c) \/ Client!HandleCancel(c) \/ Client!HandleResume(c)
  PROVE  /\ Rows(requests') /\ Alone(requests') /\ rows' = rows
         /\ ends' \subseteq Requests /\ replies' \subseteq Answers
<1>1. Travel /\ Rows(requests) /\ Alone(requests) /\ ends \subseteq Requests
      /\ c.id \in Requests /\ requests[c.id] \in Client!Entry
  BY DEF PanelInv, ClientCalls, Rows
<1>2. CASE Client!HandleStatus(c)
  <2>1. replies' \subseteq Answers
    BY <1>1, <1>2, ReplyKeeps DEF Client!HandleStatus
  <2> QED BY <1>1, <1>2, <2>1 DEF Client!HandleStatus
<1>3. CASE Client!HandleCancel(c)
  <2>1. replies' \subseteq Answers
    BY <1>1, <1>3, AbsentIsEntry, ReplyKeeps DEF Client!HandleCancel
  <2>2. Rows(requests') /\ Alone(requests') /\ ends' \subseteq Requests
    BY <1>1, <1>3, FinishKeeps DEF Client!HandleCancel
  <2> QED BY <1>3, <2>1, <2>2 DEF Client!HandleCancel
<1>4. CASE Client!HandleResume(c)
  <2> DEFINE e == requests[c.id]
             waits == e.state = "WAITING_USER" /\ e.result = "select"
             f == [e EXCEPT !.state = "RUNNING", !.result = "none", !.revision = Client!Bump(@)]
  <2>1. replies' \subseteq Answers
    BY <1>1, <1>4, AbsentIsEntry, ReplyKeeps DEF Client!HandleResume
  <2>2. CASE waits
    <3>1. Client!Live(c.id) /\ e.revision <= MaxRevision + 1
      BY <1>1, <2>2 DEF Client!Live, Client!Unfinished, Rows
    <3>2. Client!Bump(e.revision) \in Nat /\ Client!Bump(e.revision) <= MaxRevision + 1
      BY <1>1, <3>1, EntryFields, ClientConstants DEF Client!Bump
    <3>3. f \in Client!Entry /\ f.revision <= MaxRevision + 1
      <4>1. Client!Bump(e.revision) \in 0 .. MaxRevision + 2 /\ "RUNNING" \in Client!States
            /\ "none" \in Client!Results
            /\ e.run \in {"none", "live", "over", "cut"}
        BY <1>1, <3>2, EntryFields, ClientConstants DEF Client!States, Client!Results
      <4>2. f = Changed(e, "RUNNING", Client!Bump(e.revision), "none", e.run)
        BY <1>1 DEF Client!Entry, Changed
      <4>3. e \in Client!Entry
        BY <1>1
      <4> HIDE DEF e, f
      <4> QED BY <3>2, <4>1, <4>2, <4>3, ChangedIsEntry
    <3>4. Client!Set(c.id, f)
      BY <1>4, <2>2 DEF Client!HandleResume
    <3> HIDE DEF f
    <3>5. Rows(requests') /\ Alone(requests')
      BY <1>1, <3>1, <3>3, <3>4, SetKeeps
    <3> QED BY <1>1, <1>4, <2>1, <3>5 DEF Client!HandleResume
  <2>3. CASE ~waits
    BY <1>1, <1>4, <2>1, <2>3 DEF Client!HandleResume
  <2> QED BY <2>2, <2>3
<1> QED BY <1>2, <1>3, <1>4

LEMMA HandleKeeps == ASSUME PanelInv, Client!Handle PROVE PanelInv'
<1>1. mail # <<>> /\ mail \in Seq(ClientCalls) /\ Head(mail) \in ClientCalls /\ Tail(mail) \in Seq(ClientCalls)
  BY DEF Client!Handle, PanelInv, Travel
<1>2. Client!HandleStart(Head(mail)) \/ Client!HandleStatus(Head(mail)) \/ Client!HandleCancel(Head(mail))
      \/ Client!HandleResume(Head(mail))
  BY DEF Client!Handle
<1>3. /\ Rows(requests') /\ Rows(rows') /\ Alone(requests')
      /\ ends' \subseteq Requests /\ replies' \subseteq Answers
  BY <1>1, <1>2, HandleStartKeeps, HandleOthersKeep DEF PanelInv
<1> QED BY <1>1, <1>3 DEF Client!Handle, PanelInv, Travel

-----------------------------------------------------------------------------
(* The run of a request.                                                   *)

\* A step of the worker that changes its rows only.
LEMMA RowsChange ==
  ASSUME PanelInv, UNCHANGED <<client, composer, mail, replies>>, Rows(requests'), Alone(requests'),
         Rows(rows'), ends' \subseteq Requests, tally' \in [restarts : Nat, timeouts : Nat,
         events : Nat]
  PROVE  PanelInv'
  BY DEF PanelInv, Travel

LEMMA RunKeeps ==
  ASSUME PanelInv, NEW r \in Requests, Client!BeginRun(r) \/ Client!Progress(r) \/ Client!Select(r)
  PROVE  PanelInv'
<1>1. requests[r] \in Client!Entry /\ requests[r].state = "RUNNING" /\ Client!Live(r)
      /\ requests[r].revision <= MaxRevision + 1 /\ requests[r].revision \in Nat
  BY EntryFields DEF PanelInv, Rows, Client!Live, Client!Unfinished, Client!BeginRun,
     Client!Progress, Client!Select
<1>2. ends' \subseteq Requests /\ Rows(rows') /\ UNCHANGED <<client, composer, mail, replies>>
      /\ tally' \in [restarts : Nat, timeouts : Nat, events : Nat]
  BY DEF PanelInv, Client!BeginRun, Client!Progress, Client!Select, Client!Step, Client!Others
<1>3. CASE Client!BeginRun(r)
  <2> DEFINE e == [requests[r] EXCEPT !.run = "live"]
  <2>1. e \in Client!Entry /\ e.revision <= MaxRevision + 1 /\ Client!Set(r, e)
    BY <1>1, <1>3 DEF Client!Entry, Client!BeginRun, Client!Step
  <2> HIDE DEF e
  <2> QED BY <1>1, <1>2, <2>1, SetKeeps, RowsChange
<1>4. CASE Client!Progress(r)
  <2> DEFINE e == [requests[r] EXCEPT !.revision = @ + 1]
  <2>1. e \in Client!Entry /\ e.revision <= MaxRevision + 1 /\ Client!Set(r, e)
    BY <1>1, <1>4, ClientConstants DEF Client!Entry, Client!Progress
  <2> HIDE DEF e
  <2> QED BY <1>1, <1>2, <2>1, SetKeeps, RowsChange
<1>5. CASE Client!Select(r)
  <2> DEFINE e == [requests[r] EXCEPT !.state = "WAITING_USER", !.result = "select",
                                  !.revision = Client!Bump(@)]
  <2>1. Client!Bump(requests[r].revision) \in 0 .. MaxRevision + 1
    BY <1>1, ClientConstants DEF Client!Bump
  <2>2. e \in Client!Entry /\ e.revision <= MaxRevision + 1 /\ Client!Set(r, e)
    <3>1. Client!Bump(requests[r].revision) \in 0 .. MaxRevision + 2 /\ "WAITING_USER" \in Client!States
          /\ "select" \in Client!Results /\ requests[r].run \in {"none", "live", "over", "cut"}
      BY <1>1, <2>1, EntryFields, ClientConstants DEF Client!States, Client!Results
    <3>2. e = Changed(requests[r], "WAITING_USER", Client!Bump(requests[r].revision), "select", requests[r].run)
      BY <1>1 DEF Client!Entry, Changed
    <3>3. Client!Set(r, e)
      BY <1>5 DEF Client!Select
    <3> HIDE DEF e
    <3> QED BY <1>1, <2>1, <3>1, <3>2, <3>3, ChangedIsEntry
  <2> HIDE DEF e
  <2> QED BY <1>1, <1>2, <2>2, SetKeeps, RowsChange
<1> QED BY <1>3, <1>4, <1>5

LEMMA RequestEndKeeps ==
  ASSUME PanelInv, NEW r \in Requests, Client!EndRun(r) \/ Client!Fail(r) PROVE PanelInv'
<1>1. Client!Live(r) /\ (Client!Finish(r, "over") \/ Client!Finish(r, "cut")) /\ Client!Others
  BY DEF Client!EndRun, Client!Fail
<1>2. Rows(requests') /\ Alone(requests') /\ ends' \subseteq Requests
  BY <1>1, FinishKeeps
<1> QED BY <1>1, <1>2, RowsChange DEF Client!Others, PanelInv

LEMMA ReviewKeeps == ASSUME PanelInv, NEW r \in Requests, Client!Review(r) PROVE PanelInv'
<1>1. requests[r] \in Client!Entry /\ (Client!Live(r) => requests[r].revision <= MaxRevision + 1)
      /\ requests[r].revision \in 0 .. MaxRevision + 2
  BY EntryFields DEF PanelInv, Rows, Client!Live
<1> DEFINE n == IF Client!Live(r) THEN requests[r].revision + 1 ELSE requests[r].revision
           e == [requests[r] EXCEPT !.state = "TERMINAL", !.result = "review", !.run = "cut",
                                    !.revision = IF Client!Live(r) THEN @ + 1 ELSE @]
<1>2. e \in Client!Entry /\ e.state \notin Client!Unfinished
  <2>1. n \in 0 .. MaxRevision + 2 /\ "TERMINAL" \in Client!States /\ "TERMINAL" \notin Client!Unfinished
        /\ "review" \in Client!Results
    BY <1>1, ClientConstants DEF Client!States, Client!Unfinished, Client!Results
  <2>2. e = Changed(requests[r], "TERMINAL", n, "review", "cut")
    BY <1>1 DEF Client!Entry, Changed
  <2> HIDE DEF e, n
  <2> QED BY <1>1, <2>1, <2>2, ChangedIsEntry
<1>3. Client!Set(r, e) /\ Client!Others
  BY DEF Client!Review
<1> HIDE DEF e
<1>4. Rows(requests') /\ Alone(requests')
  BY <1>2, <1>3, SetKeeps
<1>5. ends' \subseteq Requests
  BY DEF Client!Review, PanelInv
<1> QED BY <1>3, <1>4, <1>5, RowsChange DEF Client!Others, PanelInv

-----------------------------------------------------------------------------
(* Session storage.                                                        *)

LEMMA SaveKeeps == ASSUME PanelInv, Client!Save PROVE PanelInv'
<1>1. Rows(rows')
  BY SavedRows DEF Client!Save, PanelInv
<1> QED BY <1>1, RowsChange DEF Client!Save, PanelInv

\* Every row that is read back is at its end.
LEMMA WorkerRestartKeeps == ASSUME PanelInv, Client!Restart PROVE PanelInv'
<1> DEFINE back(r) == IF rows[r].state = "ABSENT" THEN Client!Absent ELSE Client!Restored(rows[r])
<1>1. ASSUME NEW r \in Requests PROVE back(r) \in Client!Entry /\ back(r).state \notin Client!Unfinished
  <2>1. rows[r] \in Client!Entry /\ (rows[r].state \in Client!Unfinished => rows[r].revision <= MaxRevision + 1)
    BY DEF PanelInv, Rows
  <2>2. CASE rows[r].state = "ABSENT"
    BY <2>2, AbsentIsEntry DEF Client!Absent, Client!Unfinished
  <2>3. CASE rows[r].state \in Client!Unfinished
    <3>1. Client!Restored(rows[r]) = Changed(rows[r], "TERMINAL", rows[r].revision + 1, rows[r].result, "cut")
      BY <2>1, <2>3 DEF Client!Restored, Client!Entry, Changed
    <3>2. rows[r].revision + 1 \in 0 .. MaxRevision + 2 /\ "TERMINAL" \in Client!States
          /\ "TERMINAL" \notin Client!Unfinished /\ rows[r].result \in Client!Results
      BY <2>1, <2>3, EntryFields, ClientConstants DEF Client!States, Client!Unfinished
    <3> QED BY <2>1, <2>3, <3>1, <3>2, ChangedIsEntry DEF Client!Unfinished
  <2>4. CASE rows[r].state = "TERMINAL"
    <3>1. Client!Restored(rows[r]) = [rows[r] EXCEPT !.state = "TERMINAL", !.revision = rows[r].revision,
                                                !.run = "cut"]
      BY <2>1, <2>4 DEF Client!Restored, Client!Unfinished
    <3> QED BY <2>1, <2>4, <3>1, ClientConstants DEF Client!Entry, Client!States, Client!Unfinished
  <2>5. rows[r].state \in Client!States
    BY <2>1, EntryFields
  <2> QED BY <2>2, <2>3, <2>4, <2>5 DEF Client!States, Client!Unfinished
<1>2. Rows(requests') /\ Alone(requests')
  <2>1. requests' = [r \in Requests |-> back(r)]
    BY DEF Client!Restart
  <2> HIDE DEF back
  <2> QED BY <1>1, <2>1 DEF Rows, Alone
<1>3. replies' \subseteq Answers
  <2>1. ASSUME NEW i \in DOMAIN mail
        PROVE  [Client!Answer(mail[i].kind, mail[i].id, FALSE, Client!Absent) EXCEPT !.broken = TRUE]
               \in Answers
    <3>1. mail[i] \in ClientCalls
      BY <2>1 DEF PanelInv, Travel
    <3> QED BY <3>1, AbsentIsEntry DEF ClientCalls, Client!Answer, Answers
  <2> QED BY <2>1 DEF Client!Restart, PanelInv, Travel
<1>4. mail' \in Seq(ClientCalls) /\ tally' \in [restarts : Nat, timeouts : Nat, events : Nat]
  BY DEF Client!Restart, PanelInv
<1> QED BY <1>2, <1>3, <1>4 DEF Client!Restart, PanelInv, Travel

-----------------------------------------------------------------------------

LEMMA PanelStarts == Client!Init => PanelInv
<1> SUFFICES ASSUME Client!Init PROVE PanelInv
  OBVIOUS
<1>1. client \in Clients /\ composer \in Composers /\ Asks(client, composer)
  BY IdleIsClient, ClientConstants DEF Client!Init, Composers, Asks, Client!Idle
<1>2. Rows(requests) /\ Rows(rows) /\ Alone(requests)
  BY AbsentIsEntry DEF Client!Init, Rows, Alone, Client!Absent, Client!Unfinished
<1> QED BY <1>1, <1>2 DEF Client!Init, PanelInv, Travel

LEMMA PanelSteps == PanelInv /\ [Client!Next]_clientVars => PanelInv'
<1> SUFFICES ASSUME PanelInv, [Client!Next]_clientVars PROVE PanelInv'
  OBVIOUS
<1>1. CASE UNCHANGED clientVars
  BY <1>1 DEF clientVars, PanelInv, Travel
<1>2. CASE \E r \in Requests : Client!Submit(r) \/ Client!BeginRun(r) \/ Client!Progress(r)
                               \/ Client!Select(r) \/ Client!EndRun(r)
                               \/ Client!Fail(r) \/ Client!Review(r)
  BY <1>2, RequestSubmitKeeps, RunKeeps, RequestEndKeeps, ReviewKeeps
<1>3. CASE \E kind \in Client!Kinds : Client!Take(kind) \/ Client!Timeout(kind)
  BY <1>3, TakeKeeps, TimeoutKeeps
<1>4. CASE Client!Poll \/ Client!Stop \/ Client!Choose \/ Client!NewChat \/ Client!SeeEnd
           \/ Client!Handle \/ Client!Save \/ Client!Restart
  BY <1>4, PollingKeeps, StopKeeps, ChooseKeeps, NewChatKeeps, SeeEndKeeps, HandleKeeps, SaveKeeps,
     WorkerRestartKeeps
<1> QED BY <1>1, <1>2, <1>3, <1>4 DEF Client!Next

\* The inductive invariant of the panel's request client and the worker's request map.
THEOREM PanelInvariance == PanelSpec => []PanelInv
<1>1. AllInit => PanelInv
  BY PanelStarts DEF AllInit
<1>2. PanelInv /\ [PanelNext]_everything => PanelInv'
  <2>1. [PanelNext]_everything => [Client!Next]_clientVars
    BY DEF PanelNext, everything
  <2> QED BY <2>1, PanelSteps
<1> QED BY <1>1, <1>2, PTL DEF PanelSpec

\* The client's module counts as this one does.
LEMMA SameCount == ASSUME NEW S PROVE Client!Cardinality(S) = Cardinality(S)
  BY DEF Client!Cardinality, Cardinality

\* At most one request of the tab is live: two would be the same.
LEMMA AloneIsOne == ASSUME Alone(requests) PROVE Client!OneRequest
<1> DEFINE live == {r \in Requests : Client!Live(r)}
<1>1. CASE live = {}
  <2>1. Cardinality({}) = 0
    BY FS_EmptySet
  <2> QED BY <1>1, <2>1, SameCount DEF Client!OneRequest
<1>2. CASE live # {}
  <2>1. PICK r \in live : TRUE
    BY <1>2
  <2>2. live = {r}
    BY <2>1 DEF Alone, Client!Live
  <2> HIDE DEF live
  <2>3. Cardinality(live) = 1
    BY <2>2, FS_Singleton
  <2> QED BY <2>3, SameCount DEF Client!OneRequest, live
<1> QED BY <1>1, <1>2

\* One request at a time runs in the tab, and the panel shows no other than the one
\* submitted last, however late answers about earlier ones come.
THEOREM PanelIsSafe == PanelSpec => []PanelSafety
<1>1. PanelInv => PanelSafety
  BY AloneIsOne DEF PanelInv, PanelSafety, Client!PanelSafety, Client!TypeOK, Client!ShowsPresent,
     Rows, Asks, Clients, Composers
<1> QED BY <1>1, PanelInvariance, PTL

-----------------------------------------------------------------------------
(* The proposed actions. An intent of an element is kept single by its      *)
(* reserved digest, then by its slot or token, then by the one message     *)
(* that executes it; a page API by its key in flight, then consumed; a     *)
(* page method by its consumed key.                                        *)

LEMMA MutationConstants ==
  /\ Kind \in [Proposals -> Mutations!Kinds] /\ DOMAIN Tab = Proposals
  /\ None \notin Proposals /\ None \notin Readings
  BY MutationsFit DEF Mutations!ConstantsFit

\* The intent of a page call, and of a message that has not read the page.
LEMMA UnreadParts ==
  \A r \in Proposals : /\ Mutations!Unread(r) \in Mutations!Intents
                       /\ Mutations!Unread(r)[1] = r /\ Mutations!Unread(r)[2] = None
  BY DEF Mutations!Unread, Mutations!Intents, Mutations!Seen

\* The intent of a reading.
LEMMA ReadParts ==
  \A r \in Proposals, s \in Readings : /\ <<r, s>> \in Mutations!Intents /\ <<r, s>>[1] = r
                                       /\ <<r, s>>[2] = s /\ s # None
  BY MutationConstants DEF Mutations!Intents, Mutations!Seen

\* A request that has ended has no run that is not over.
AbortedIsOver == \A r \in aborted : phase[r] = "TERMINAL"

\* A slot or token is of a run that is not over, and of an intent that was reserved and
\* not sent; values are asked of one kind of proposals, confirmations of another.
HeldIsOpen ==
  /\ \A d \in slots \cup tokens : /\ d \in reserved /\ d[2] # None /\ reached[d] = 0
                                  /\ phase[d[1]] # "TERMINAL"
  /\ \A d \in slots : Kind[d[1]] = "text"
  /\ \A d \in tokens : Kind[d[1]] = "r2"

\* Until its digest is reserved the intent of a reading is not sent.
ReservedFirst == \A d \in Mutations!Intents \ reserved : d[2] # None => reached[d] = 0

\* A message on its way to the page is the only one of its intent, which is reserved, not
\* sent, and waits for no answer.
OnItsWay(h, d) == Mutations!On(h, d, "prepare") \/ Mutations!On(h, d, "send")
SendsOnce ==
  \A h \in Handlers, d \in Mutations!Intents : OnItsWay(h, d) =>
    /\ d \in reserved /\ d[2] # None /\ reached[d] = 0 /\ d \notin slots \cup tokens
    /\ \A g \in Handlers : OnItsWay(g, d) => g = h

\* What is in flight was sent.
FlightIsSent ==
  \A h \in Handlers, d \in Mutations!Intents : Mutations!On(h, d, "flight") => reached[d] # 0

Calling(h, r) ==
  \/ Mutations!On(h, Mutations!Unread(r), "probe") \/ Mutations!On(h, Mutations!Unread(r), "before")
  \/ Mutations!On(h, Mutations!Unread(r), "flight")

\* One call of a page API is under way; it or its consumed key tells of its dispatch.
CallsOnce ==
  /\ \A h \in Handlers, r \in Proposals : Calling(h, r) => Mutations!PageCall(r)
  /\ \A h \in Handlers, r \in Proposals : Kind[r] = "api" /\ Calling(h, r) =>
       r \in inFlight /\ \A g \in Handlers : Calling(g, r) => g = h
  /\ \A r \in Proposals : Kind[r] = "api" /\ reached[Mutations!Unread(r)] # 0 =>
       r \in consumed \/ \E h \in Handlers : Mutations!On(h, Mutations!Unread(r), "flight")
  /\ \A r \in Proposals : Kind[r] = "method" /\ reached[Mutations!Unread(r)] # 0 => r \in consumed
  /\ \A r \in Proposals : reached[Mutations!Unread(r)] # 0 => Mutations!PageCall(r)

MutationInv ==
  /\ Mutations!TypeOK /\ Mutations!DispatchedOnce /\ AbortedIsOver /\ HeldIsOpen
  /\ ReservedFirst /\ SendsOnce /\ FlightIsSent /\ CallsOnce

-----------------------------------------------------------------------------

\* The invariant speaks of the state only.
LEMMA MutationStutter == MutationInv /\ UNCHANGED mutationVars => MutationInv'
  BY DEF MutationInv, Mutations!TypeOK, Mutations!DispatchedOnce, AbortedIsOver, HeldIsOpen,
     ReservedFirst, SendsOnce, OnItsWay, FlightIsSent, CallsOnce, Calling, Mutations!On, mutationVars

\* No run is known, nothing is in flight.
LEMMA MutationStarts == Mutations!Init => MutationInv
<1> SUFFICES ASSUME Mutations!Init PROVE MutationInv
  OBVIOUS
<1>1. Mutations!TypeOK
  BY DEF Mutations!Init, Mutations!TypeOK, Mutations!Phases, Mutations!Outcomes, Mutations!Seen
<1>2. \A h \in Handlers, d \in Mutations!Intents, p \in Mutations!Places : ~Mutations!On(h, d, p)
  <2>1. ASSUME NEW h \in Handlers, NEW p \in Mutations!Places, NEW d PROVE ~Mutations!On(h, d, p)
    <3>1. handler[h].at = "idle" /\ p # "idle"
      BY <2>1 DEF Mutations!Init, Mutations!Idle, Mutations!Places
    <3> QED BY <3>1 DEF Mutations!On
  <2> QED BY <2>1
<1>3. SendsOnce /\ FlightIsSent /\ \A h \in Handlers, r \in Proposals : ~Calling(h, r)
  BY <1>2, UnreadParts DEF SendsOnce, OnItsWay, FlightIsSent, Calling, Mutations!Places
<1>4. QED
  BY <1>1, <1>3, UnreadParts DEF Mutations!Init, MutationInv, Mutations!DispatchedOnce, AbortedIsOver,
     HeldIsOpen, ReservedFirst, CallsOnce

\* A run that is replaced ends, and all slots and tokens go.
LEMMA RunStartKeeps ==
  ASSUME MutationInv, NEW r \in Proposals, Mutations!Start(r)
  PROVE  MutationInv'
<1> USE MutationConstants, UnreadParts, ReadParts DEF Mutations!On, Mutations!Idle,
   Mutations!Terminal, Mutations!Phase, Mutations!stores, Mutations!runners
<1>0. /\ Mutations!TypeOK /\ Mutations!DispatchedOnce /\ AbortedIsOver /\ HeldIsOpen
      /\ ReservedFirst /\ SendsOnce /\ FlightIsSent /\ CallsOnce
  BY DEF MutationInv
<1>1. Mutations!TypeOK'
  <2>1. active' \in [Mutations!Tabs -> Proposals \cup {None}] /\ phase' \in [Proposals -> Mutations!Phases]
    BY <1>0 DEF Mutations!TypeOK, Mutations!Start, Mutations!Phases, Mutations!Tabs
  <2>2. outcome' \in [Proposals -> Mutations!Outcomes]
    BY <1>0 DEF Mutations!TypeOK, Mutations!Start, Mutations!Outcomes
  <2>3. pending' \in [Proposals -> Mutations!Seen] /\ awaiting' \in [Proposals -> Mutations!Seen]
    BY <1>0 DEF Mutations!TypeOK, Mutations!Start, Mutations!Seen
  <2>4. {aborted', inFlight', consumed'} \subseteq SUBSET Proposals
    BY <1>0 DEF Mutations!TypeOK, Mutations!Start
  <2>5. {reserved', slots', tokens'} \subseteq SUBSET Mutations!Intents
    BY <1>0 DEF Mutations!TypeOK, Mutations!Start
  <2>6. handler' \in [Handlers -> [of : Mutations!Intents, at : Mutations!Places] \cup {Mutations!Idle}]
    BY <1>0 DEF Mutations!TypeOK, Mutations!Start, Mutations!Places, Mutations!Seen
  <2>7. reached' \in [Mutations!Intents -> 0 .. 2]
    BY <1>0 DEF Mutations!TypeOK, Mutations!Start, Mutations!DispatchedOnce
  <2> QED BY <2>1, <2>2, <2>3, <2>4, <2>5, <2>6, <2>7 DEF Mutations!TypeOK
<1>2. AbortedIsOver'
  BY <1>0 DEF Mutations!TypeOK, Mutations!Start, AbortedIsOver, Mutations!Tabs
<1>3. Mutations!DispatchedOnce'
  BY <1>0 DEF Mutations!TypeOK, Mutations!Start, Mutations!DispatchedOnce
<1>4. HeldIsOpen'
  <2>1. \/ slots' = {} /\ tokens' = {}
        \/ slots' = slots /\ tokens' = tokens /\ phase' = [phase EXCEPT ![r] = "PROPOSING"]
    BY DEF Mutations!Start
  <2>2. UNCHANGED <<reserved, reached>>
    BY DEF Mutations!Start
  <2>3. \A d \in slots \cup tokens : d[1] \in Proposals
    BY <1>0 DEF Mutations!TypeOK, Mutations!Intents
  <2> QED BY <1>0, <2>1, <2>2, <2>3 DEF Mutations!TypeOK, HeldIsOpen
<1>5. ReservedFirst'
  BY <1>0 DEF Mutations!TypeOK, Mutations!Start, ReservedFirst
<1>6. SendsOnce' /\ FlightIsSent'
  BY <1>0, SMTT(30) DEF Mutations!TypeOK, Mutations!Start, SendsOnce, OnItsWay, FlightIsSent
<1>7. CallsOnce'
  BY <1>0, SMTT(30) DEF Mutations!TypeOK, Mutations!Start, CallsOnce, Calling
<1> QED BY <1>1, <1>2, <1>3, <1>4, <1>5, <1>6, <1>7 DEF MutationInv

\* A run that ends has no slot or token left.
LEMMA CancelKeeps ==
  ASSUME MutationInv, NEW r \in Proposals, Mutations!Cancel(r)
  PROVE  MutationInv'
<1> USE MutationConstants, UnreadParts, ReadParts DEF Mutations!On, Mutations!Idle,
   Mutations!Terminal, Mutations!Live, Mutations!Known, Mutations!stores, Mutations!runners
<1>0. /\ Mutations!TypeOK /\ Mutations!DispatchedOnce /\ AbortedIsOver /\ HeldIsOpen
      /\ ReservedFirst /\ SendsOnce /\ FlightIsSent /\ CallsOnce
  BY DEF MutationInv
<1>1. Mutations!TypeOK'
  <2>1. active' \in [Mutations!Tabs -> Proposals \cup {None}] /\ phase' \in [Proposals -> Mutations!Phases]
    BY <1>0 DEF Mutations!TypeOK, Mutations!Cancel, Mutations!Phases
  <2>2. outcome' \in [Proposals -> Mutations!Outcomes]
    BY <1>0 DEF Mutations!TypeOK, Mutations!Cancel, Mutations!Outcomes
  <2>3. pending' \in [Proposals -> Mutations!Seen] /\ awaiting' \in [Proposals -> Mutations!Seen]
    BY <1>0 DEF Mutations!TypeOK, Mutations!Cancel, Mutations!Seen
  <2>4. {aborted', inFlight', consumed'} \subseteq SUBSET Proposals
    BY <1>0 DEF Mutations!TypeOK, Mutations!Cancel
  <2>5. {reserved', slots', tokens'} \subseteq SUBSET Mutations!Intents
    BY <1>0 DEF Mutations!TypeOK, Mutations!Cancel
  <2>6. handler' \in [Handlers -> [of : Mutations!Intents, at : Mutations!Places] \cup {Mutations!Idle}]
    BY <1>0 DEF Mutations!TypeOK, Mutations!Cancel, Mutations!Places, Mutations!Seen
  <2>7. reached' \in [Mutations!Intents -> 0 .. 2]
    BY <1>0 DEF Mutations!TypeOK, Mutations!Cancel, Mutations!DispatchedOnce
  <2> QED BY <2>1, <2>2, <2>3, <2>4, <2>5, <2>6, <2>7 DEF Mutations!TypeOK
<1>2. AbortedIsOver'
  BY <1>0 DEF Mutations!TypeOK, Mutations!Cancel, AbortedIsOver, Mutations!Tabs
<1>3. Mutations!DispatchedOnce'
  BY <1>0 DEF Mutations!TypeOK, Mutations!Cancel, Mutations!DispatchedOnce
<1>4. HeldIsOpen'
  BY <1>0 DEF Mutations!TypeOK, Mutations!Cancel, HeldIsOpen
<1>5. ReservedFirst'
  BY <1>0 DEF Mutations!TypeOK, Mutations!Cancel, ReservedFirst
<1>6. SendsOnce' /\ FlightIsSent'
  BY <1>0, SMTT(30) DEF Mutations!TypeOK, Mutations!Cancel, SendsOnce, OnItsWay, FlightIsSent
<1>7. CallsOnce'
  BY <1>0, SMTT(30) DEF Mutations!TypeOK, Mutations!Cancel, CallsOnce, Calling
<1> QED BY <1>1, <1>2, <1>3, <1>4, <1>5, <1>6, <1>7 DEF MutationInv

LEMMA ExpireKeeps ==
  ASSUME MutationInv, NEW d \in Mutations!Intents, Mutations!Expire(d)
  PROVE  MutationInv'
<1> USE MutationConstants, UnreadParts, ReadParts DEF Mutations!On, Mutations!Idle,
   Mutations!stores, Mutations!runners
<1>0. /\ Mutations!TypeOK /\ Mutations!DispatchedOnce /\ AbortedIsOver /\ HeldIsOpen
      /\ ReservedFirst /\ SendsOnce /\ FlightIsSent /\ CallsOnce
  BY DEF MutationInv
<1>1. Mutations!TypeOK'
  <2>1. active' \in [Mutations!Tabs -> Proposals \cup {None}] /\ phase' \in [Proposals -> Mutations!Phases]
    BY <1>0 DEF Mutations!TypeOK, Mutations!Expire, Mutations!Phases
  <2>2. outcome' \in [Proposals -> Mutations!Outcomes]
    BY <1>0 DEF Mutations!TypeOK, Mutations!Expire, Mutations!Outcomes
  <2>3. pending' \in [Proposals -> Mutations!Seen] /\ awaiting' \in [Proposals -> Mutations!Seen]
    BY <1>0 DEF Mutations!TypeOK, Mutations!Expire, Mutations!Seen
  <2>4. {aborted', inFlight', consumed'} \subseteq SUBSET Proposals
    BY <1>0 DEF Mutations!TypeOK, Mutations!Expire
  <2>5. {reserved', slots', tokens'} \subseteq SUBSET Mutations!Intents
    BY <1>0 DEF Mutations!TypeOK, Mutations!Expire
  <2>6. handler' \in [Handlers -> [of : Mutations!Intents, at : Mutations!Places] \cup {Mutations!Idle}]
    BY <1>0 DEF Mutations!TypeOK, Mutations!Expire, Mutations!Places, Mutations!Seen
  <2>7. reached' \in [Mutations!Intents -> 0 .. 2]
    BY <1>0 DEF Mutations!TypeOK, Mutations!Expire, Mutations!DispatchedOnce
  <2> QED BY <2>1, <2>2, <2>3, <2>4, <2>5, <2>6, <2>7 DEF Mutations!TypeOK
<1>2. AbortedIsOver'
  BY <1>0 DEF Mutations!TypeOK, Mutations!Expire, AbortedIsOver
<1>3. Mutations!DispatchedOnce'
  BY <1>0 DEF Mutations!TypeOK, Mutations!Expire, Mutations!DispatchedOnce
<1>4. HeldIsOpen'
  BY <1>0 DEF Mutations!TypeOK, Mutations!Expire, HeldIsOpen
<1>5. ReservedFirst'
  BY <1>0 DEF Mutations!TypeOK, Mutations!Expire, ReservedFirst
<1>6. SendsOnce' /\ FlightIsSent'
  BY <1>0, SMTT(30) DEF Mutations!TypeOK, Mutations!Expire, SendsOnce, OnItsWay, FlightIsSent
<1>7. CallsOnce'
  BY <1>0, SMTT(30) DEF Mutations!TypeOK, Mutations!Expire, CallsOnce, Calling
<1> QED BY <1>1, <1>2, <1>3, <1>4, <1>5, <1>6, <1>7 DEF MutationInv

LEMMA ApproveKeeps ==
  ASSUME MutationInv, NEW h \in Handlers, NEW r \in Proposals, Mutations!Approve(h, r)
  PROVE  MutationInv'
<1> USE MutationConstants, UnreadParts, ReadParts DEF Mutations!On, Mutations!Idle,
   Mutations!Live, Mutations!Known, Mutations!Goto, Mutations!stores, Mutations!runners
<1>0. /\ Mutations!TypeOK /\ Mutations!DispatchedOnce /\ AbortedIsOver /\ HeldIsOpen
      /\ ReservedFirst /\ SendsOnce /\ FlightIsSent /\ CallsOnce
  BY DEF MutationInv
<1>1. Mutations!TypeOK'
  <2>1. active' \in [Mutations!Tabs -> Proposals \cup {None}] /\ phase' \in [Proposals -> Mutations!Phases]
    BY <1>0 DEF Mutations!TypeOK, Mutations!Approve, Mutations!Phases
  <2>2. outcome' \in [Proposals -> Mutations!Outcomes]
    BY <1>0 DEF Mutations!TypeOK, Mutations!Approve, Mutations!Outcomes
  <2>3. pending' \in [Proposals -> Mutations!Seen] /\ awaiting' \in [Proposals -> Mutations!Seen]
    BY <1>0 DEF Mutations!TypeOK, Mutations!Approve, Mutations!Seen
  <2>4. {aborted', inFlight', consumed'} \subseteq SUBSET Proposals
    BY <1>0 DEF Mutations!TypeOK, Mutations!Approve
  <2>5. {reserved', slots', tokens'} \subseteq SUBSET Mutations!Intents
    BY <1>0 DEF Mutations!TypeOK, Mutations!Approve
  <2>6. handler' \in [Handlers -> [of : Mutations!Intents, at : Mutations!Places] \cup {Mutations!Idle}]
    BY <1>0 DEF Mutations!TypeOK, Mutations!Approve, Mutations!Places, Mutations!Seen
  <2>7. reached' \in [Mutations!Intents -> 0 .. 2]
    BY <1>0 DEF Mutations!TypeOK, Mutations!Approve, Mutations!DispatchedOnce
  <2> QED BY <2>1, <2>2, <2>3, <2>4, <2>5, <2>6, <2>7 DEF Mutations!TypeOK
<1>2. AbortedIsOver'
  BY <1>0 DEF Mutations!TypeOK, Mutations!Approve, AbortedIsOver
<1>3. Mutations!DispatchedOnce'
  BY <1>0 DEF Mutations!TypeOK, Mutations!Approve, Mutations!DispatchedOnce
<1>4. HeldIsOpen'
  BY <1>0 DEF Mutations!TypeOK, Mutations!Approve, HeldIsOpen
<1>5. ReservedFirst'
  BY <1>0 DEF Mutations!TypeOK, Mutations!Approve, ReservedFirst
<1>6. SendsOnce' /\ FlightIsSent'
  BY <1>0, SMTT(30) DEF Mutations!TypeOK, Mutations!Approve, SendsOnce, OnItsWay, FlightIsSent
<1>7. CallsOnce'
  BY <1>0, SMTT(30) DEF Mutations!TypeOK, Mutations!Approve, CallsOnce, Calling
<1> QED BY <1>1, <1>2, <1>3, <1>4, <1>5, <1>6, <1>7 DEF MutationInv

LEMMA FailKeeps == ASSUME MutationInv, NEW h \in Handlers, Mutations!Fail(h) PROVE MutationInv'
<1> USE MutationConstants, UnreadParts, ReadParts DEF Mutations!On, Mutations!Idle,
   Mutations!Done, Mutations!stores, Mutations!runners
<1>0. /\ Mutations!TypeOK /\ Mutations!DispatchedOnce /\ AbortedIsOver /\ HeldIsOpen
      /\ ReservedFirst /\ SendsOnce /\ FlightIsSent /\ CallsOnce
  BY DEF MutationInv
<1>1. Mutations!TypeOK'
  <2>1. active' \in [Mutations!Tabs -> Proposals \cup {None}] /\ phase' \in [Proposals -> Mutations!Phases]
    BY <1>0 DEF Mutations!TypeOK, Mutations!Fail, Mutations!Phases
  <2>2. outcome' \in [Proposals -> Mutations!Outcomes]
    BY <1>0 DEF Mutations!TypeOK, Mutations!Fail, Mutations!Outcomes
  <2>3. pending' \in [Proposals -> Mutations!Seen] /\ awaiting' \in [Proposals -> Mutations!Seen]
    BY <1>0 DEF Mutations!TypeOK, Mutations!Fail, Mutations!Seen
  <2>4. {aborted', inFlight', consumed'} \subseteq SUBSET Proposals
    BY <1>0 DEF Mutations!TypeOK, Mutations!Fail
  <2>5. {reserved', slots', tokens'} \subseteq SUBSET Mutations!Intents
    BY <1>0 DEF Mutations!TypeOK, Mutations!Fail
  <2>6. handler' \in [Handlers -> [of : Mutations!Intents, at : Mutations!Places] \cup {Mutations!Idle}]
    BY <1>0 DEF Mutations!TypeOK, Mutations!Fail, Mutations!Places, Mutations!Seen
  <2>7. reached' \in [Mutations!Intents -> 0 .. 2]
    BY <1>0 DEF Mutations!TypeOK, Mutations!Fail, Mutations!DispatchedOnce
  <2> QED BY <2>1, <2>2, <2>3, <2>4, <2>5, <2>6, <2>7 DEF Mutations!TypeOK
<1>2. AbortedIsOver'
  BY <1>0 DEF Mutations!TypeOK, Mutations!Fail, AbortedIsOver
<1>3. Mutations!DispatchedOnce'
  BY <1>0 DEF Mutations!TypeOK, Mutations!Fail, Mutations!DispatchedOnce
<1>4. HeldIsOpen'
  BY <1>0 DEF Mutations!TypeOK, Mutations!Fail, HeldIsOpen
<1>5. ReservedFirst'
  BY <1>0 DEF Mutations!TypeOK, Mutations!Fail, ReservedFirst
<1>6. SendsOnce' /\ FlightIsSent'
  BY <1>0, SMTT(30) DEF Mutations!TypeOK, Mutations!Fail, SendsOnce, OnItsWay, FlightIsSent
<1>7. CallsOnce'
  BY <1>0, SMTT(30) DEF Mutations!TypeOK, Mutations!Fail, CallsOnce, Calling
<1> QED BY <1>1, <1>2, <1>3, <1>4, <1>5, <1>6, <1>7 DEF MutationInv

LEMMA AuthorizeKeeps ==
  ASSUME MutationInv, NEW h \in Handlers, NEW r \in Proposals, Mutations!Authorize(h, r)
  PROVE  MutationInv'
<1> USE MutationConstants, UnreadParts, ReadParts DEF Mutations!On, Mutations!Idle,
   Mutations!Goto, Mutations!Busy, Mutations!Refused, Mutations!Done, Mutations!Terminal,
   Mutations!Live, Mutations!Known, Mutations!stores, Mutations!runners
<1>0. /\ Mutations!TypeOK /\ Mutations!DispatchedOnce /\ AbortedIsOver /\ HeldIsOpen
      /\ ReservedFirst /\ SendsOnce /\ FlightIsSent /\ CallsOnce
  BY DEF MutationInv
<1>1. Mutations!TypeOK'
  <2>1. active' \in [Mutations!Tabs -> Proposals \cup {None}] /\ phase' \in [Proposals -> Mutations!Phases]
    BY <1>0 DEF Mutations!TypeOK, Mutations!Authorize, Mutations!Phases
  <2>2. outcome' \in [Proposals -> Mutations!Outcomes]
    BY <1>0 DEF Mutations!TypeOK, Mutations!Authorize, Mutations!Outcomes
  <2>3. pending' \in [Proposals -> Mutations!Seen] /\ awaiting' \in [Proposals -> Mutations!Seen]
    BY <1>0 DEF Mutations!TypeOK, Mutations!Authorize, Mutations!Seen
  <2>4. {aborted', inFlight', consumed'} \subseteq SUBSET Proposals
    BY <1>0 DEF Mutations!TypeOK, Mutations!Authorize
  <2>5. {reserved', slots', tokens'} \subseteq SUBSET Mutations!Intents
    BY <1>0 DEF Mutations!TypeOK, Mutations!Authorize
  <2>6. handler' \in [Handlers -> [of : Mutations!Intents, at : Mutations!Places] \cup {Mutations!Idle}]
    BY <1>0 DEF Mutations!TypeOK, Mutations!Authorize, Mutations!Places, Mutations!Seen
  <2>7. reached' \in [Mutations!Intents -> 0 .. 2]
    BY <1>0 DEF Mutations!TypeOK, Mutations!Authorize, Mutations!DispatchedOnce
  <2> QED BY <2>1, <2>2, <2>3, <2>4, <2>5, <2>6, <2>7 DEF Mutations!TypeOK
<1>2. AbortedIsOver'
  BY <1>0 DEF Mutations!TypeOK, Mutations!Authorize, AbortedIsOver
<1>3. Mutations!DispatchedOnce'
  BY <1>0 DEF Mutations!TypeOK, Mutations!Authorize, Mutations!DispatchedOnce
<1>4. HeldIsOpen'
  BY <1>0 DEF Mutations!TypeOK, Mutations!Authorize, HeldIsOpen
<1>5. ReservedFirst'
  BY <1>0 DEF Mutations!TypeOK, Mutations!Authorize, ReservedFirst
<1>6. SendsOnce' /\ FlightIsSent'
  BY <1>0, SMTT(30) DEF Mutations!TypeOK, Mutations!Authorize, SendsOnce, OnItsWay, FlightIsSent
<1>7. CallsOnce'
  BY <1>0, SMTT(30) DEF Mutations!TypeOK, Mutations!Authorize, CallsOnce, Calling
<1> QED BY <1>1, <1>2, <1>3, <1>4, <1>5, <1>6, <1>7 DEF MutationInv

LEMMA ProbeKeeps ==
  ASSUME MutationInv, NEW h \in Handlers, NEW r \in Proposals, Mutations!Probe(h, r)
  PROVE  MutationInv'
<1> USE MutationConstants, UnreadParts, ReadParts DEF Mutations!On, Mutations!Idle,
   Mutations!Goto, Mutations!Refused, Mutations!Done, Mutations!Terminal, Mutations!Live,
   Mutations!Known, Mutations!stores, Mutations!runners
<1>0. /\ Mutations!TypeOK /\ Mutations!DispatchedOnce /\ AbortedIsOver /\ HeldIsOpen
      /\ ReservedFirst /\ SendsOnce /\ FlightIsSent /\ CallsOnce
  BY DEF MutationInv
<1>1. Mutations!TypeOK'
  <2>1. active' \in [Mutations!Tabs -> Proposals \cup {None}] /\ phase' \in [Proposals -> Mutations!Phases]
    BY <1>0 DEF Mutations!TypeOK, Mutations!Probe, Mutations!Phases
  <2>2. outcome' \in [Proposals -> Mutations!Outcomes]
    BY <1>0 DEF Mutations!TypeOK, Mutations!Probe, Mutations!Outcomes
  <2>3. pending' \in [Proposals -> Mutations!Seen] /\ awaiting' \in [Proposals -> Mutations!Seen]
    BY <1>0 DEF Mutations!TypeOK, Mutations!Probe, Mutations!Seen
  <2>4. {aborted', inFlight', consumed'} \subseteq SUBSET Proposals
    BY <1>0 DEF Mutations!TypeOK, Mutations!Probe
  <2>5. {reserved', slots', tokens'} \subseteq SUBSET Mutations!Intents
    BY <1>0 DEF Mutations!TypeOK, Mutations!Probe
  <2>6. handler' \in [Handlers -> [of : Mutations!Intents, at : Mutations!Places] \cup {Mutations!Idle}]
    BY <1>0 DEF Mutations!TypeOK, Mutations!Probe, Mutations!Places, Mutations!Seen
  <2>7. reached' \in [Mutations!Intents -> 0 .. 2]
    BY <1>0 DEF Mutations!TypeOK, Mutations!Probe, Mutations!DispatchedOnce
  <2> QED BY <2>1, <2>2, <2>3, <2>4, <2>5, <2>6, <2>7 DEF Mutations!TypeOK
<1>2. AbortedIsOver'
  BY <1>0 DEF Mutations!TypeOK, Mutations!Probe, AbortedIsOver
<1>3. Mutations!DispatchedOnce'
  BY <1>0 DEF Mutations!TypeOK, Mutations!Probe, Mutations!DispatchedOnce
<1>4. HeldIsOpen'
  BY <1>0 DEF Mutations!TypeOK, Mutations!Probe, HeldIsOpen
<1>5. ReservedFirst'
  BY <1>0 DEF Mutations!TypeOK, Mutations!Probe, ReservedFirst
<1>6. SendsOnce' /\ FlightIsSent'
  BY <1>0, SMTT(30) DEF Mutations!TypeOK, Mutations!Probe, SendsOnce, OnItsWay, FlightIsSent
<1>7. CallsOnce'
  BY <1>0, SMTT(30) DEF Mutations!TypeOK, Mutations!Probe, CallsOnce, Calling
<1> QED BY <1>1, <1>2, <1>3, <1>4, <1>5, <1>6, <1>7 DEF MutationInv

LEMMA BeforeKeeps ==
  ASSUME MutationInv, NEW h \in Handlers, NEW r \in Proposals, Mutations!Before(h, r)
  PROVE  MutationInv'
<1> USE MutationConstants, UnreadParts, ReadParts DEF Mutations!On, Mutations!Idle,
   Mutations!Checked, Mutations!Goto, Mutations!Refused, Mutations!Done, Mutations!Terminal,
   Mutations!Live, Mutations!Known, Mutations!stores, Mutations!runners
<1>0. /\ Mutations!TypeOK /\ Mutations!DispatchedOnce /\ AbortedIsOver /\ HeldIsOpen
      /\ ReservedFirst /\ SendsOnce /\ FlightIsSent /\ CallsOnce
  BY DEF MutationInv
<1>1. Mutations!TypeOK'
  <2>1. active' \in [Mutations!Tabs -> Proposals \cup {None}] /\ phase' \in [Proposals -> Mutations!Phases]
    BY <1>0 DEF Mutations!TypeOK, Mutations!Before, Mutations!Phases
  <2>2. outcome' \in [Proposals -> Mutations!Outcomes]
    BY <1>0 DEF Mutations!TypeOK, Mutations!Before, Mutations!Outcomes
  <2>3. pending' \in [Proposals -> Mutations!Seen] /\ awaiting' \in [Proposals -> Mutations!Seen]
    BY <1>0 DEF Mutations!TypeOK, Mutations!Before, Mutations!Seen
  <2>4. {aborted', inFlight', consumed'} \subseteq SUBSET Proposals
    BY <1>0 DEF Mutations!TypeOK, Mutations!Before
  <2>5. {reserved', slots', tokens'} \subseteq SUBSET Mutations!Intents
    BY <1>0 DEF Mutations!TypeOK, Mutations!Before
  <2>6. handler' \in [Handlers -> [of : Mutations!Intents, at : Mutations!Places] \cup {Mutations!Idle}]
    BY <1>0 DEF Mutations!TypeOK, Mutations!Before, Mutations!Places, Mutations!Seen
  <2>7. reached' \in [Mutations!Intents -> 0 .. 2]
    BY <1>0 DEF Mutations!TypeOK, Mutations!Before, Mutations!DispatchedOnce
  <2> QED BY <2>1, <2>2, <2>3, <2>4, <2>5, <2>6, <2>7 DEF Mutations!TypeOK
<1>2. AbortedIsOver'
  BY <1>0 DEF Mutations!TypeOK, Mutations!Before, AbortedIsOver
<1>3. Mutations!DispatchedOnce'
  <2>1. Mutations!On(h, Mutations!Unread(r), "before") /\ Mutations!PageCall(r)
    BY <1>0 DEF Mutations!Before, CallsOnce, Calling
  <2>2. Kind[r] = "api" => \A g \in Handlers : ~Mutations!On(g, Mutations!Unread(r), "flight")
    <3> SUFFICES ASSUME Kind[r] = "api", NEW g \in Handlers, Mutations!On(g, Mutations!Unread(r), "flight")
                 PROVE FALSE
      OBVIOUS
    <3>1. Calling(h, r) /\ Calling(g, r)
      BY <2>1 DEF Calling
    <3>2. g = h
      <4> HIDE DEF Mutations!On
      <4> QED BY <1>0, <3>1 DEF CallsOnce
    <3>3. handler[h].at = "before" /\ handler[h].at = "flight"
      BY <2>1, <3>2
    <3> QED BY <3>3
  <2>3. r \notin consumed => reached[Mutations!Unread(r)] = 0
    BY <1>0, <2>1, <2>2 DEF CallsOnce, Mutations!PageCall
  <2> QED BY <1>0, <2>3 DEF Mutations!TypeOK, Mutations!Before, Mutations!DispatchedOnce
<1>4. HeldIsOpen'
  BY <1>0 DEF Mutations!TypeOK, Mutations!Before, HeldIsOpen
<1>5. ReservedFirst'
  BY <1>0 DEF Mutations!TypeOK, Mutations!Before, ReservedFirst
<1>6. SendsOnce' /\ FlightIsSent'
  BY <1>0, SMTT(30) DEF Mutations!TypeOK, Mutations!Before, SendsOnce, OnItsWay, FlightIsSent
<1>7. CallsOnce'
  BY <1>0, SMTT(30) DEF Mutations!TypeOK, Mutations!Before, CallsOnce, Calling
<1> QED BY <1>1, <1>2, <1>3, <1>4, <1>5, <1>6, <1>7 DEF MutationInv

LEMMA ReturnedKeeps ==
  ASSUME MutationInv, NEW h \in Handlers, NEW r \in Proposals, Mutations!Returned(h, r)
  PROVE  MutationInv'
<1> USE MutationConstants, UnreadParts, ReadParts DEF Mutations!On, Mutations!Idle,
   Mutations!Done, Mutations!Terminal, Mutations!Live, Mutations!Known, Mutations!stores,
   Mutations!runners
<1>0. /\ Mutations!TypeOK /\ Mutations!DispatchedOnce /\ AbortedIsOver /\ HeldIsOpen
      /\ ReservedFirst /\ SendsOnce /\ FlightIsSent /\ CallsOnce
  BY DEF MutationInv
<1>1. Mutations!TypeOK'
  <2>1. active' \in [Mutations!Tabs -> Proposals \cup {None}] /\ phase' \in [Proposals -> Mutations!Phases]
    BY <1>0 DEF Mutations!TypeOK, Mutations!Returned, Mutations!Phases
  <2>2. outcome' \in [Proposals -> Mutations!Outcomes]
    BY <1>0 DEF Mutations!TypeOK, Mutations!Returned, Mutations!Outcomes
  <2>3. pending' \in [Proposals -> Mutations!Seen] /\ awaiting' \in [Proposals -> Mutations!Seen]
    BY <1>0 DEF Mutations!TypeOK, Mutations!Returned, Mutations!Seen
  <2>4. {aborted', inFlight', consumed'} \subseteq SUBSET Proposals
    BY <1>0 DEF Mutations!TypeOK, Mutations!Returned
  <2>5. {reserved', slots', tokens'} \subseteq SUBSET Mutations!Intents
    BY <1>0 DEF Mutations!TypeOK, Mutations!Returned
  <2>6. handler' \in [Handlers -> [of : Mutations!Intents, at : Mutations!Places] \cup {Mutations!Idle}]
    BY <1>0 DEF Mutations!TypeOK, Mutations!Returned, Mutations!Places, Mutations!Seen
  <2>7. reached' \in [Mutations!Intents -> 0 .. 2]
    BY <1>0 DEF Mutations!TypeOK, Mutations!Returned, Mutations!DispatchedOnce
  <2> QED BY <2>1, <2>2, <2>3, <2>4, <2>5, <2>6, <2>7 DEF Mutations!TypeOK
<1>2. AbortedIsOver'
  BY <1>0 DEF Mutations!TypeOK, Mutations!Returned, AbortedIsOver
<1>3. Mutations!DispatchedOnce'
  BY <1>0 DEF Mutations!TypeOK, Mutations!Returned, Mutations!DispatchedOnce
<1>4. HeldIsOpen'
  BY <1>0 DEF Mutations!TypeOK, Mutations!Returned, HeldIsOpen
<1>5. ReservedFirst'
  BY <1>0 DEF Mutations!TypeOK, Mutations!Returned, ReservedFirst
<1>6. SendsOnce' /\ FlightIsSent'
  BY <1>0, SMTT(30) DEF Mutations!TypeOK, Mutations!Returned, SendsOnce, OnItsWay, FlightIsSent
<1>7. CallsOnce'
  BY <1>0, SMTT(30) DEF Mutations!TypeOK, Mutations!Returned, CallsOnce, Calling
<1> QED BY <1>1, <1>2, <1>3, <1>4, <1>5, <1>6, <1>7 DEF MutationInv

LEMMA ProposeKeeps ==
  ASSUME MutationInv, NEW h \in Handlers, NEW r \in Proposals, Mutations!Propose(h, r)
  PROVE  MutationInv'
<1> USE MutationConstants, UnreadParts, ReadParts DEF Mutations!On, Mutations!Idle,
   Mutations!Live, Mutations!Known, Mutations!Reserve, Mutations!Execute, Mutations!Phase,
   Mutations!Goto, Mutations!Done, Mutations!stores, Mutations!runners
<1>0. /\ Mutations!TypeOK /\ Mutations!DispatchedOnce /\ AbortedIsOver /\ HeldIsOpen
      /\ ReservedFirst /\ SendsOnce /\ FlightIsSent /\ CallsOnce
  BY DEF MutationInv
<1>1. Mutations!TypeOK'
  <2>1. active' \in [Mutations!Tabs -> Proposals \cup {None}] /\ phase' \in [Proposals -> Mutations!Phases]
    BY <1>0 DEF Mutations!TypeOK, Mutations!Propose, Mutations!Phases
  <2>2. outcome' \in [Proposals -> Mutations!Outcomes]
    BY <1>0 DEF Mutations!TypeOK, Mutations!Propose, Mutations!Outcomes
  <2>3. pending' \in [Proposals -> Mutations!Seen] /\ awaiting' \in [Proposals -> Mutations!Seen]
    BY <1>0 DEF Mutations!TypeOK, Mutations!Propose, Mutations!Seen
  <2>4. {aborted', inFlight', consumed'} \subseteq SUBSET Proposals
    BY <1>0 DEF Mutations!TypeOK, Mutations!Propose
  <2>5. {reserved', slots', tokens'} \subseteq SUBSET Mutations!Intents
    BY <1>0 DEF Mutations!TypeOK, Mutations!Propose
  <2>6. handler' \in [Handlers -> [of : Mutations!Intents, at : Mutations!Places] \cup {Mutations!Idle}]
    BY <1>0 DEF Mutations!TypeOK, Mutations!Propose, Mutations!Places, Mutations!Seen
  <2>7. reached' \in [Mutations!Intents -> 0 .. 2]
    BY <1>0 DEF Mutations!TypeOK, Mutations!Propose, Mutations!DispatchedOnce
  <2> QED BY <2>1, <2>2, <2>3, <2>4, <2>5, <2>6, <2>7 DEF Mutations!TypeOK
<1>2. AbortedIsOver'
  BY <1>0 DEF Mutations!TypeOK, Mutations!Propose, AbortedIsOver
<1>3. Mutations!DispatchedOnce'
  BY <1>0 DEF Mutations!TypeOK, Mutations!Propose, Mutations!DispatchedOnce
<1>4. HeldIsOpen'
  <2>1. PICK s \in Readings :
          /\ <<r, s>> \notin reserved /\ reserved' = reserved \cup {<<r, s>>}
          /\ \/ slots' = slots /\ tokens' = tokens
             \/ slots' = slots \cup {<<r, s>>} /\ tokens' = tokens /\ Kind[r] = "text"
             \/ tokens' = tokens \cup {<<r, s>>} /\ slots' = slots /\ Kind[r] = "r2"
    BY DEF Mutations!Propose
  <2>2. reached[<<r, s>>] = 0
    BY <1>0, <2>1 DEF ReservedFirst
  <2>3. UNCHANGED reached /\ \A q \in Proposals : phase[q] # "TERMINAL" => phase'[q] # "TERMINAL"
    BY <1>0 DEF Mutations!TypeOK, Mutations!Propose
  <2>4. phase'[r] # "TERMINAL"
    BY <1>0 DEF Mutations!TypeOK, Mutations!Propose
  <2>5. \A d \in slots \cup tokens : d[1] \in Proposals
    BY <1>0 DEF Mutations!TypeOK, Mutations!Intents
  <2> QED BY <1>0, <2>1, <2>2, <2>3, <2>4, <2>5 DEF HeldIsOpen
<1>5. ReservedFirst'
  BY <1>0 DEF Mutations!TypeOK, Mutations!Propose, ReservedFirst
<1>6. SendsOnce' /\ FlightIsSent'
  BY <1>0, SMTT(30) DEF Mutations!TypeOK, Mutations!Propose, SendsOnce, OnItsWay, FlightIsSent, HeldIsOpen,
     ReservedFirst
<1>7. CallsOnce'
  <2>1. UNCHANGED <<inFlight, consumed, reached>>
    BY DEF Mutations!Propose
  <2>2. \A g \in Handlers, q \in Proposals, p \in {"probe", "before", "flight"} :
          Mutations!On(g, Mutations!Unread(q), p)' <=> Mutations!On(g, Mutations!Unread(q), p)
    BY <1>0 DEF Mutations!TypeOK, Mutations!Propose
  <2> HIDE DEF Mutations!On
  <2> QED BY <1>0, <2>1, <2>2 DEF CallsOnce, Calling
<1> QED BY <1>1, <1>2, <1>3, <1>4, <1>5, <1>6, <1>7 DEF MutationInv

LEMMA AnswerKeeps ==
  ASSUME MutationInv, NEW h \in Handlers, NEW r \in Proposals, Mutations!Answer(h, r)
  PROVE  MutationInv'
<1> USE MutationConstants, UnreadParts, ReadParts DEF Mutations!On, Mutations!Idle,
   Mutations!Live, Mutations!Known, Mutations!Goto, Mutations!stores, Mutations!runners
<1>0. /\ Mutations!TypeOK /\ Mutations!DispatchedOnce /\ AbortedIsOver /\ HeldIsOpen
      /\ ReservedFirst /\ SendsOnce /\ FlightIsSent /\ CallsOnce
  BY DEF MutationInv
<1>1. Mutations!TypeOK'
  <2>1. active' \in [Mutations!Tabs -> Proposals \cup {None}] /\ phase' \in [Proposals -> Mutations!Phases]
    BY <1>0 DEF Mutations!TypeOK, Mutations!Answer, Mutations!Phases
  <2>2. outcome' \in [Proposals -> Mutations!Outcomes]
    BY <1>0 DEF Mutations!TypeOK, Mutations!Answer, Mutations!Outcomes
  <2>3. pending' \in [Proposals -> Mutations!Seen] /\ awaiting' \in [Proposals -> Mutations!Seen]
    BY <1>0 DEF Mutations!TypeOK, Mutations!Answer, Mutations!Seen
  <2>4. {aborted', inFlight', consumed'} \subseteq SUBSET Proposals
    BY <1>0 DEF Mutations!TypeOK, Mutations!Answer
  <2>5. {reserved', slots', tokens'} \subseteq SUBSET Mutations!Intents
    BY <1>0 DEF Mutations!TypeOK, Mutations!Answer
  <2>6. handler' \in [Handlers -> [of : Mutations!Intents, at : Mutations!Places] \cup {Mutations!Idle}]
    BY <1>0 DEF Mutations!TypeOK, Mutations!Answer, Mutations!Places, Mutations!Seen
  <2>7. reached' \in [Mutations!Intents -> 0 .. 2]
    BY <1>0 DEF Mutations!TypeOK, Mutations!Answer, Mutations!DispatchedOnce
  <2> QED BY <2>1, <2>2, <2>3, <2>4, <2>5, <2>6, <2>7 DEF Mutations!TypeOK
<1>2. AbortedIsOver'
  BY <1>0 DEF Mutations!TypeOK, Mutations!Answer, AbortedIsOver
<1>3. Mutations!DispatchedOnce'
  BY <1>0 DEF Mutations!TypeOK, Mutations!Answer, Mutations!DispatchedOnce
<1>4. HeldIsOpen'
  BY <1>0 DEF Mutations!TypeOK, Mutations!Answer, HeldIsOpen
<1>5. ReservedFirst'
  BY <1>0 DEF Mutations!TypeOK, Mutations!Answer, ReservedFirst
<1>6. SendsOnce' /\ FlightIsSent'
  BY <1>0, SMTT(30) DEF Mutations!TypeOK, Mutations!Answer, SendsOnce, OnItsWay, FlightIsSent
<1>7. CallsOnce'
  <2>1. UNCHANGED <<inFlight, consumed, reached>>
    BY DEF Mutations!Answer
  <2>2. \A g \in Handlers, q \in Proposals, p \in {"probe", "before", "flight"} :
          Mutations!On(g, Mutations!Unread(q), p)' <=> Mutations!On(g, Mutations!Unread(q), p)
    BY <1>0 DEF Mutations!TypeOK, Mutations!Answer
  <2> HIDE DEF Mutations!On
  <2> QED BY <1>0, <2>1, <2>2 DEF CallsOnce, Calling
<1> QED BY <1>1, <1>2, <1>3, <1>4, <1>5, <1>6, <1>7 DEF MutationInv

LEMMA SubmitValueKeeps ==
  ASSUME MutationInv, NEW h \in Handlers, NEW r \in Proposals, NEW s \in Readings, Mutations!SubmitValue(h, r, s)
  PROVE  MutationInv'
<1> USE MutationConstants, UnreadParts, ReadParts DEF Mutations!On, Mutations!Idle,
   Mutations!Live, Mutations!Known, Mutations!Fits, Mutations!Execute, Mutations!Phase,
   Mutations!Goto, Mutations!Done, Mutations!stores, Mutations!runners
<1>0. /\ Mutations!TypeOK /\ Mutations!DispatchedOnce /\ AbortedIsOver /\ HeldIsOpen
      /\ ReservedFirst /\ SendsOnce /\ FlightIsSent /\ CallsOnce
  BY DEF MutationInv
<1>1. Mutations!TypeOK'
  <2>1. active' \in [Mutations!Tabs -> Proposals \cup {None}] /\ phase' \in [Proposals -> Mutations!Phases]
    BY <1>0 DEF Mutations!TypeOK, Mutations!SubmitValue, Mutations!Phases
  <2>2. outcome' \in [Proposals -> Mutations!Outcomes]
    BY <1>0 DEF Mutations!TypeOK, Mutations!SubmitValue, Mutations!Outcomes
  <2>3. pending' \in [Proposals -> Mutations!Seen] /\ awaiting' \in [Proposals -> Mutations!Seen]
    BY <1>0 DEF Mutations!TypeOK, Mutations!SubmitValue, Mutations!Seen
  <2>4. {aborted', inFlight', consumed'} \subseteq SUBSET Proposals
    BY <1>0 DEF Mutations!TypeOK, Mutations!SubmitValue
  <2>5. {reserved', slots', tokens'} \subseteq SUBSET Mutations!Intents
    BY <1>0 DEF Mutations!TypeOK, Mutations!SubmitValue
  <2>6. handler' \in [Handlers -> [of : Mutations!Intents, at : Mutations!Places] \cup {Mutations!Idle}]
    BY <1>0 DEF Mutations!TypeOK, Mutations!SubmitValue, Mutations!Places, Mutations!Seen
  <2>7. reached' \in [Mutations!Intents -> 0 .. 2]
    BY <1>0 DEF Mutations!TypeOK, Mutations!SubmitValue, Mutations!DispatchedOnce
  <2> QED BY <2>1, <2>2, <2>3, <2>4, <2>5, <2>6, <2>7 DEF Mutations!TypeOK
<1>2. AbortedIsOver'
  BY <1>0 DEF Mutations!TypeOK, Mutations!SubmitValue, AbortedIsOver
<1>3. Mutations!DispatchedOnce'
  BY <1>0 DEF Mutations!TypeOK, Mutations!SubmitValue, Mutations!DispatchedOnce
<1>4. HeldIsOpen'
  <2>1. slots' \subseteq slots /\ tokens' \subseteq tokens /\ UNCHANGED <<reserved, reached>>
    BY DEF Mutations!SubmitValue
  <2>2. \A q \in Proposals : phase[q] # "TERMINAL" => phase'[q] # "TERMINAL"
    BY <1>0 DEF Mutations!TypeOK, Mutations!SubmitValue
  <2>3. \A d \in slots \cup tokens : d[1] \in Proposals
    BY <1>0 DEF Mutations!TypeOK, Mutations!Intents
  <2> QED BY <1>0, <2>1, <2>2, <2>3 DEF HeldIsOpen
<1>5. ReservedFirst'
  BY <1>0 DEF Mutations!TypeOK, Mutations!SubmitValue, ReservedFirst
<1>6. SendsOnce' /\ FlightIsSent'
  <2> DEFINE d == <<r, s>>
  <2>1. d \in Mutations!Intents /\ d[1] = r /\ d[2] # None
    OBVIOUS
  <2>2. UNCHANGED <<reserved, reached>> /\ slots' \subseteq slots /\ tokens' \subseteq tokens
    BY DEF Mutations!SubmitValue
  <2>3. \A g \in Handlers \ {h} : \A e, p : Mutations!On(g, e, p)' <=> Mutations!On(g, e, p)
    BY <1>0 DEF Mutations!TypeOK, Mutations!SubmitValue
  <2>4. \/ handler'[h] = Mutations!Idle
        \/ /\ handler'[h] = [of |-> d, at |-> "prepare"] /\ d \in slots
           /\ slots' = slots \ {d} /\ tokens' = tokens
    BY <1>0 DEF Mutations!TypeOK, Mutations!SubmitValue
  <2>5. \A e \in Mutations!Intents : OnItsWay(h, e)' => e = d /\ d \in slots /\ d \notin slots' \cup tokens'
    <3>1. d \in slots => d \notin tokens
      BY <1>0 DEF HeldIsOpen
    <3> HIDE DEF d
    <3> QED BY <2>4, <3>1 DEF OnItsWay
  <2>6. \A e \in Mutations!Intents : ~Mutations!On(h, e, "flight")'
    BY <2>4
  <2> HIDE DEF d, Mutations!On
  <2>7. \A e \in Mutations!Intents, g \in Handlers : OnItsWay(g, e)' => OnItsWay(g, e) \/ g = h
    BY <2>3 DEF OnItsWay
  <2>8. SendsOnce'
    <3>1. SUFFICES ASSUME NEW g \in Handlers, NEW e \in Mutations!Intents, OnItsWay(g, e)'
                   PROVE  /\ e \in reserved /\ e[2] # None /\ reached[e] = 0
                          /\ e \notin slots' \cup tokens'
                          /\ \A k \in Handlers : OnItsWay(k, e)' => k = g
      BY <2>2 DEF SendsOnce
    <3>2. CASE g = h
      BY <1>0, <2>1, <2>5, <2>7, <3>1, <3>2 DEF SendsOnce, HeldIsOpen
    <3>3. CASE g # h
      <4>1. OnItsWay(g, e)
        BY <2>7, <3>1, <3>3
      <4>2. ~OnItsWay(h, e)'
        BY <1>0, <2>5, <4>1 DEF SendsOnce
      <4> QED BY <1>0, <2>2, <2>7, <4>1, <4>2 DEF SendsOnce
    <3> QED BY <3>2, <3>3
  <2> QED BY <1>0, <2>2, <2>3, <2>6, <2>8 DEF FlightIsSent
<1>7. CallsOnce'
  <2>1. UNCHANGED <<inFlight, consumed, reached>>
    BY DEF Mutations!SubmitValue
  <2>2. \A g \in Handlers, q \in Proposals, p \in {"probe", "before", "flight"} :
          Mutations!On(g, Mutations!Unread(q), p)' <=> Mutations!On(g, Mutations!Unread(q), p)
    BY <1>0, SMTT(30) DEF Mutations!TypeOK, Mutations!SubmitValue
  <2> HIDE DEF Mutations!On
  <2> QED BY <1>0, <2>1, <2>2 DEF CallsOnce, Calling
<1> QED BY <1>1, <1>2, <1>3, <1>4, <1>5, <1>6, <1>7 DEF MutationInv

LEMMA ConfirmKeeps ==
  ASSUME MutationInv, NEW h \in Handlers, NEW r \in Proposals, NEW s \in Readings, Mutations!Confirm(h, r, s)
  PROVE  MutationInv'
<1> USE MutationConstants, UnreadParts, ReadParts DEF Mutations!On, Mutations!Idle,
   Mutations!Live, Mutations!Known, Mutations!Fits, Mutations!Execute, Mutations!Phase,
   Mutations!Goto, Mutations!Done, Mutations!stores, Mutations!runners
<1>0. /\ Mutations!TypeOK /\ Mutations!DispatchedOnce /\ AbortedIsOver /\ HeldIsOpen
      /\ ReservedFirst /\ SendsOnce /\ FlightIsSent /\ CallsOnce
  BY DEF MutationInv
<1>1. Mutations!TypeOK'
  <2>1. active' \in [Mutations!Tabs -> Proposals \cup {None}] /\ phase' \in [Proposals -> Mutations!Phases]
    BY <1>0 DEF Mutations!TypeOK, Mutations!Confirm, Mutations!Phases
  <2>2. outcome' \in [Proposals -> Mutations!Outcomes]
    BY <1>0 DEF Mutations!TypeOK, Mutations!Confirm, Mutations!Outcomes
  <2>3. pending' \in [Proposals -> Mutations!Seen] /\ awaiting' \in [Proposals -> Mutations!Seen]
    BY <1>0 DEF Mutations!TypeOK, Mutations!Confirm, Mutations!Seen
  <2>4. {aborted', inFlight', consumed'} \subseteq SUBSET Proposals
    BY <1>0 DEF Mutations!TypeOK, Mutations!Confirm
  <2>5. {reserved', slots', tokens'} \subseteq SUBSET Mutations!Intents
    BY <1>0 DEF Mutations!TypeOK, Mutations!Confirm
  <2>6. handler' \in [Handlers -> [of : Mutations!Intents, at : Mutations!Places] \cup {Mutations!Idle}]
    BY <1>0 DEF Mutations!TypeOK, Mutations!Confirm, Mutations!Places, Mutations!Seen
  <2>7. reached' \in [Mutations!Intents -> 0 .. 2]
    BY <1>0 DEF Mutations!TypeOK, Mutations!Confirm, Mutations!DispatchedOnce
  <2> QED BY <2>1, <2>2, <2>3, <2>4, <2>5, <2>6, <2>7 DEF Mutations!TypeOK
<1>2. AbortedIsOver'
  BY <1>0 DEF Mutations!TypeOK, Mutations!Confirm, AbortedIsOver
<1>3. Mutations!DispatchedOnce'
  BY <1>0 DEF Mutations!TypeOK, Mutations!Confirm, Mutations!DispatchedOnce
<1>4. HeldIsOpen'
  <2>1. slots' \subseteq slots /\ tokens' \subseteq tokens /\ UNCHANGED <<reserved, reached>>
    BY DEF Mutations!Confirm
  <2>2. \A q \in Proposals : phase[q] # "TERMINAL" => phase'[q] # "TERMINAL"
    BY <1>0 DEF Mutations!TypeOK, Mutations!Confirm
  <2>3. \A d \in slots \cup tokens : d[1] \in Proposals
    BY <1>0 DEF Mutations!TypeOK, Mutations!Intents
  <2> QED BY <1>0, <2>1, <2>2, <2>3 DEF HeldIsOpen
<1>5. ReservedFirst'
  BY <1>0 DEF Mutations!TypeOK, Mutations!Confirm, ReservedFirst
<1>6. SendsOnce' /\ FlightIsSent'
  <2> DEFINE d == <<r, s>>
  <2>1. d \in Mutations!Intents /\ d[1] = r /\ d[2] # None
    OBVIOUS
  <2>2. UNCHANGED <<reserved, reached>> /\ slots' \subseteq slots /\ tokens' \subseteq tokens
    BY DEF Mutations!Confirm
  <2>3. \A g \in Handlers \ {h} : \A e, p : Mutations!On(g, e, p)' <=> Mutations!On(g, e, p)
    BY <1>0 DEF Mutations!TypeOK, Mutations!Confirm
  <2>4. \/ handler'[h] = Mutations!Idle
        \/ /\ handler'[h] = [of |-> d, at |-> "prepare"] /\ d \in tokens
           /\ tokens' = tokens \ {d} /\ slots' = slots
    BY <1>0 DEF Mutations!TypeOK, Mutations!Confirm
  <2>5. \A e \in Mutations!Intents : OnItsWay(h, e)' => e = d /\ d \in tokens /\ d \notin slots' \cup tokens'
    <3>1. d \in tokens => d \notin slots
      BY <1>0 DEF HeldIsOpen
    <3> HIDE DEF d
    <3> QED BY <2>4, <3>1 DEF OnItsWay
  <2>6. \A e \in Mutations!Intents : ~Mutations!On(h, e, "flight")'
    BY <2>4
  <2> HIDE DEF d, Mutations!On
  <2>7. \A e \in Mutations!Intents, g \in Handlers : OnItsWay(g, e)' => OnItsWay(g, e) \/ g = h
    BY <2>3 DEF OnItsWay
  <2>8. SendsOnce'
    <3>1. SUFFICES ASSUME NEW g \in Handlers, NEW e \in Mutations!Intents, OnItsWay(g, e)'
                   PROVE  /\ e \in reserved /\ e[2] # None /\ reached[e] = 0
                          /\ e \notin slots' \cup tokens'
                          /\ \A k \in Handlers : OnItsWay(k, e)' => k = g
      BY <2>2 DEF SendsOnce
    <3>2. CASE g = h
      BY <1>0, <2>1, <2>5, <2>7, <3>1, <3>2 DEF SendsOnce, HeldIsOpen
    <3>3. CASE g # h
      <4>1. OnItsWay(g, e)
        BY <2>7, <3>1, <3>3
      <4>2. ~OnItsWay(h, e)'
        BY <1>0, <2>5, <4>1 DEF SendsOnce
      <4> QED BY <1>0, <2>2, <2>7, <4>1, <4>2 DEF SendsOnce
    <3> QED BY <3>2, <3>3
  <2> QED BY <1>0, <2>2, <2>3, <2>6, <2>8 DEF FlightIsSent
<1>7. CallsOnce'
  <2>1. UNCHANGED <<inFlight, consumed, reached>>
    BY DEF Mutations!Confirm
  <2>2. \A g \in Handlers, q \in Proposals, p \in {"probe", "before", "flight"} :
          Mutations!On(g, Mutations!Unread(q), p)' <=> Mutations!On(g, Mutations!Unread(q), p)
    BY <1>0 DEF Mutations!TypeOK, Mutations!Confirm
  <2> HIDE DEF Mutations!On
  <2> QED BY <1>0, <2>1, <2>2 DEF CallsOnce, Calling
<1> QED BY <1>1, <1>2, <1>3, <1>4, <1>5, <1>6, <1>7 DEF MutationInv

LEMMA PrepareKeeps ==
  ASSUME MutationInv, NEW h \in Handlers, NEW d \in Mutations!Intents, Mutations!Prepare(h, d)
  PROVE  MutationInv'
<1> USE MutationConstants, UnreadParts, ReadParts DEF Mutations!On, Mutations!Idle,
   Mutations!Live, Mutations!Known, Mutations!Phase, Mutations!Goto, Mutations!Done,
   Mutations!stores, Mutations!runners
<1>0. /\ Mutations!TypeOK /\ Mutations!DispatchedOnce /\ AbortedIsOver /\ HeldIsOpen
      /\ ReservedFirst /\ SendsOnce /\ FlightIsSent /\ CallsOnce
  BY DEF MutationInv
<1>1. Mutations!TypeOK'
  <2>1. active' \in [Mutations!Tabs -> Proposals \cup {None}] /\ phase' \in [Proposals -> Mutations!Phases]
    BY <1>0 DEF Mutations!TypeOK, Mutations!Prepare, Mutations!Phases
  <2>2. outcome' \in [Proposals -> Mutations!Outcomes]
    BY <1>0 DEF Mutations!TypeOK, Mutations!Prepare, Mutations!Outcomes
  <2>3. pending' \in [Proposals -> Mutations!Seen] /\ awaiting' \in [Proposals -> Mutations!Seen]
    BY <1>0 DEF Mutations!TypeOK, Mutations!Prepare, Mutations!Seen
  <2>4. {aborted', inFlight', consumed'} \subseteq SUBSET Proposals
    BY <1>0 DEF Mutations!TypeOK, Mutations!Prepare
  <2>5. {reserved', slots', tokens'} \subseteq SUBSET Mutations!Intents
    BY <1>0 DEF Mutations!TypeOK, Mutations!Prepare
  <2>6. handler' \in [Handlers -> [of : Mutations!Intents, at : Mutations!Places] \cup {Mutations!Idle}]
    BY <1>0 DEF Mutations!TypeOK, Mutations!Prepare, Mutations!Places, Mutations!Seen
  <2>7. reached' \in [Mutations!Intents -> 0 .. 2]
    BY <1>0 DEF Mutations!TypeOK, Mutations!Prepare, Mutations!DispatchedOnce
  <2> QED BY <2>1, <2>2, <2>3, <2>4, <2>5, <2>6, <2>7 DEF Mutations!TypeOK
<1>2. AbortedIsOver'
  BY <1>0 DEF Mutations!TypeOK, Mutations!Prepare, AbortedIsOver
<1>3. Mutations!DispatchedOnce'
  BY <1>0 DEF Mutations!TypeOK, Mutations!Prepare, Mutations!DispatchedOnce
<1>4. HeldIsOpen'
  <2>1. slots' \subseteq slots /\ tokens' \subseteq tokens /\ UNCHANGED <<reserved, reached>>
    BY DEF Mutations!Prepare
  <2>2. \A q \in Proposals : phase[q] # "TERMINAL" => phase'[q] # "TERMINAL"
    BY <1>0 DEF Mutations!TypeOK, Mutations!Prepare
  <2>3. \A e \in slots \cup tokens : e[1] \in Proposals
    BY <1>0 DEF Mutations!TypeOK, Mutations!Intents
  <2> QED BY <1>0, <2>1, <2>2, <2>3 DEF HeldIsOpen
<1>5. ReservedFirst'
  BY <1>0 DEF Mutations!TypeOK, Mutations!Prepare, ReservedFirst
<1>6. SendsOnce' /\ FlightIsSent'
  <2>1. UNCHANGED <<reserved, reached, slots, tokens>>
    BY DEF Mutations!Prepare
  <2>2. \A g \in Handlers \ {h} : \A e, p : Mutations!On(g, e, p)' <=> Mutations!On(g, e, p)
    BY <1>0 DEF Mutations!TypeOK, Mutations!Prepare
  <2>3. \A e : OnItsWay(h, e)' => OnItsWay(h, e)
    BY <1>0 DEF Mutations!TypeOK, Mutations!Prepare, OnItsWay
  <2>4. \A e : ~Mutations!On(h, e, "flight")'
    BY <1>0 DEF Mutations!TypeOK, Mutations!Prepare
  <2> HIDE DEF Mutations!On
  <2>5. \A g \in Handlers : \A e : OnItsWay(g, e)' => OnItsWay(g, e)
    BY <2>2, <2>3 DEF OnItsWay
  <2> QED BY <1>0, <2>1, <2>2, <2>4, <2>5 DEF SendsOnce, FlightIsSent
<1>7. CallsOnce'
  <2>1. UNCHANGED <<inFlight, consumed, reached>>
    BY DEF Mutations!Prepare
  <2>2. \A g \in Handlers, q \in Proposals, p \in {"probe", "before", "flight"} :
          Mutations!On(g, Mutations!Unread(q), p)' <=> Mutations!On(g, Mutations!Unread(q), p)
    BY <1>0 DEF Mutations!TypeOK, Mutations!Prepare
  <2> HIDE DEF Mutations!On
  <2> QED BY <1>0, <2>1, <2>2 DEF CallsOnce, Calling
<1> QED BY <1>1, <1>2, <1>3, <1>4, <1>5, <1>6, <1>7 DEF MutationInv

LEMMA SendActionKeeps ==
  ASSUME MutationInv, NEW h \in Handlers, NEW d \in Mutations!Intents, Mutations!Send(h, d)
  PROVE  MutationInv'
<1> USE MutationConstants, UnreadParts, ReadParts DEF Mutations!On, Mutations!Idle,
   Mutations!StillActive, Mutations!Live, Mutations!Known, Mutations!Goto, Mutations!Done,
   Mutations!Terminal, Mutations!stores, Mutations!runners
<1>0. /\ Mutations!TypeOK /\ Mutations!DispatchedOnce /\ AbortedIsOver /\ HeldIsOpen
      /\ ReservedFirst /\ SendsOnce /\ FlightIsSent /\ CallsOnce
  BY DEF MutationInv
<1>1. Mutations!TypeOK'
  <2>1. active' \in [Mutations!Tabs -> Proposals \cup {None}] /\ phase' \in [Proposals -> Mutations!Phases]
    BY <1>0 DEF Mutations!TypeOK, Mutations!Send, Mutations!Phases, Mutations!Intents
  <2>2. outcome' \in [Proposals -> Mutations!Outcomes]
    BY <1>0 DEF Mutations!TypeOK, Mutations!Send, Mutations!Outcomes
  <2>3. pending' \in [Proposals -> Mutations!Seen] /\ awaiting' \in [Proposals -> Mutations!Seen]
    BY <1>0 DEF Mutations!TypeOK, Mutations!Send, Mutations!Seen
  <2>4. {aborted', inFlight', consumed'} \subseteq SUBSET Proposals
    BY <1>0 DEF Mutations!TypeOK, Mutations!Send
  <2>5. {reserved', slots', tokens'} \subseteq SUBSET Mutations!Intents
    BY <1>0 DEF Mutations!TypeOK, Mutations!Send
  <2>6. handler' \in [Handlers -> [of : Mutations!Intents, at : Mutations!Places] \cup {Mutations!Idle}]
    BY <1>0 DEF Mutations!TypeOK, Mutations!Send, Mutations!Places, Mutations!Seen
  <2>7. reached' \in [Mutations!Intents -> 0 .. 2]
    BY <1>0 DEF Mutations!TypeOK, Mutations!Send, Mutations!DispatchedOnce
  <2> QED BY <2>1, <2>2, <2>3, <2>4, <2>5, <2>6, <2>7 DEF Mutations!TypeOK
<1>2. AbortedIsOver'
  BY <1>0 DEF Mutations!TypeOK, Mutations!Send, AbortedIsOver
<1>3. Mutations!DispatchedOnce'
  BY <1>0 DEF Mutations!TypeOK, Mutations!Send, Mutations!DispatchedOnce, SendsOnce, OnItsWay
<1>4. HeldIsOpen'
  <2>1. \/ slots' = {} /\ tokens' = {}
        \/ slots' = slots /\ tokens' = tokens /\ phase' = phase
    BY DEF Mutations!Send
  <2>2. \A e \in slots \cup tokens : e \in Mutations!Intents /\ e # d
    BY <1>0 DEF Mutations!TypeOK, Mutations!Send, SendsOnce, OnItsWay
  <2>3. UNCHANGED reserved /\ \A e \in Mutations!Intents : e # d => reached'[e] = reached[e]
    BY <1>0 DEF Mutations!TypeOK, Mutations!Send
  <2> QED BY <1>0, <2>1, <2>2, <2>3 DEF HeldIsOpen
<1>5. ReservedFirst'
  BY <1>0 DEF Mutations!TypeOK, Mutations!Send, ReservedFirst, SendsOnce, OnItsWay
<1>6. SendsOnce' /\ FlightIsSent'
  BY <1>0, SMTT(30) DEF Mutations!TypeOK, Mutations!Send, SendsOnce, OnItsWay, FlightIsSent
<1>7. CallsOnce'
  <2>0. d[2] # None
    <3>1. Mutations!On(h, d, "send")
      BY DEF Mutations!Send
    <3> HIDE DEF Mutations!On
    <3> QED BY <1>0, <3>1 DEF SendsOnce, OnItsWay
  <2>1. UNCHANGED <<inFlight, consumed>> /\ \A q \in Proposals : Mutations!Unread(q) # d
    BY <2>0, UnreadParts DEF Mutations!Send
  <2>2. \A q \in Proposals : reached'[Mutations!Unread(q)] = reached[Mutations!Unread(q)]
    BY <1>0, <2>1 DEF Mutations!TypeOK, Mutations!Send
  <2>3. \A g \in Handlers, q \in Proposals, p \in {"probe", "before", "flight"} :
          Mutations!On(g, Mutations!Unread(q), p)' <=> Mutations!On(g, Mutations!Unread(q), p)
    BY <1>0, <2>1 DEF Mutations!TypeOK, Mutations!Send
  <2> HIDE DEF Mutations!On
  <2> QED BY <1>0, <2>1, <2>2, <2>3 DEF CallsOnce, Calling
<1> QED BY <1>1, <1>2, <1>3, <1>4, <1>5, <1>6, <1>7 DEF MutationInv

LEMMA ExecutedKeeps ==
  ASSUME MutationInv, NEW h \in Handlers, NEW d \in Mutations!Intents, Mutations!Executed(h, d)
  PROVE  MutationInv'
<1> USE MutationConstants, UnreadParts, ReadParts DEF Mutations!On, Mutations!Idle,
   Mutations!Done, Mutations!Terminal, Mutations!Live, Mutations!Known, Mutations!stores,
   Mutations!runners
<1>0. /\ Mutations!TypeOK /\ Mutations!DispatchedOnce /\ AbortedIsOver /\ HeldIsOpen
      /\ ReservedFirst /\ SendsOnce /\ FlightIsSent /\ CallsOnce
  BY DEF MutationInv
<1>1. Mutations!TypeOK'
  <2>1. active' \in [Mutations!Tabs -> Proposals \cup {None}] /\ phase' \in [Proposals -> Mutations!Phases]
    BY <1>0 DEF Mutations!TypeOK, Mutations!Executed, Mutations!Phases, Mutations!Intents
  <2>2. outcome' \in [Proposals -> Mutations!Outcomes]
    BY <1>0 DEF Mutations!TypeOK, Mutations!Executed, Mutations!Outcomes
  <2>3. pending' \in [Proposals -> Mutations!Seen] /\ awaiting' \in [Proposals -> Mutations!Seen]
    BY <1>0 DEF Mutations!TypeOK, Mutations!Executed, Mutations!Seen
  <2>4. {aborted', inFlight', consumed'} \subseteq SUBSET Proposals
    BY <1>0 DEF Mutations!TypeOK, Mutations!Executed
  <2>5. {reserved', slots', tokens'} \subseteq SUBSET Mutations!Intents
    BY <1>0 DEF Mutations!TypeOK, Mutations!Executed
  <2>6. handler' \in [Handlers -> [of : Mutations!Intents, at : Mutations!Places] \cup {Mutations!Idle}]
    BY <1>0 DEF Mutations!TypeOK, Mutations!Executed, Mutations!Places, Mutations!Seen
  <2>7. reached' \in [Mutations!Intents -> 0 .. 2]
    BY <1>0 DEF Mutations!TypeOK, Mutations!Executed, Mutations!DispatchedOnce
  <2> QED BY <2>1, <2>2, <2>3, <2>4, <2>5, <2>6, <2>7 DEF Mutations!TypeOK
<1>2. AbortedIsOver'
  BY <1>0 DEF Mutations!TypeOK, Mutations!Executed, AbortedIsOver
<1>3. Mutations!DispatchedOnce'
  BY <1>0 DEF Mutations!TypeOK, Mutations!Executed, Mutations!DispatchedOnce
<1>4. HeldIsOpen'
  BY <1>0 DEF Mutations!TypeOK, Mutations!Executed, HeldIsOpen
<1>5. ReservedFirst'
  BY <1>0 DEF Mutations!TypeOK, Mutations!Executed, ReservedFirst
<1>6. SendsOnce' /\ FlightIsSent'
  BY <1>0, SMTT(30) DEF Mutations!TypeOK, Mutations!Executed, SendsOnce, OnItsWay, FlightIsSent
<1>7. CallsOnce'
  BY <1>0, SMTT(30) DEF Mutations!TypeOK, Mutations!Executed, CallsOnce, Calling
<1> QED BY <1>1, <1>2, <1>3, <1>4, <1>5, <1>6, <1>7 DEF MutationInv

-----------------------------------------------------------------------------

\* Every step keeps the invariant.
LEMMA MutationSteps == MutationInv /\ [Mutations!Next]_mutationVars => MutationInv'
<1> SUFFICES ASSUME MutationInv, Mutations!Next PROVE MutationInv'
  BY MutationStutter
<1>1. CASE \E r \in Proposals : Mutations!Start(r) \/ Mutations!Cancel(r)
  BY <1>1, RunStartKeeps, CancelKeeps
<1>2. CASE \E h \in Handlers, r \in Proposals : Mutations!Approval(h, r)
  BY <1>2, ApproveKeeps, AuthorizeKeeps, ProbeKeeps, BeforeKeeps, ReturnedKeeps, ProposeKeeps
  DEF Mutations!Approval
<1>3. CASE \E h \in Handlers, r \in Proposals : Mutations!Answered(h, r)
  BY <1>3, AnswerKeeps, SubmitValueKeeps, ConfirmKeeps DEF Mutations!Answered
<1>4. CASE \/ \E d \in Mutations!Intents : Mutations!Expire(d)
           \/ \E h \in Handlers : Mutations!Fail(h)
  BY <1>4, ExpireKeeps, FailKeeps
<1>5. CASE \E h \in Handlers, d \in Mutations!Intents :
             Mutations!Prepare(h, d) \/ Mutations!Send(h, d) \/ Mutations!Executed(h, d)
  BY <1>5, PrepareKeeps, SendActionKeeps, ExecutedKeeps
<1> QED
  BY <1>1, <1>2, <1>3, <1>4, <1>5 DEF Mutations!Next

\* The inductive invariant of the proposed actions: messages, awaits, readings of the page
\* and cancellations in any order keep it.
THEOREM MutationInvariance == MutationSpec => []MutationInv
<1>1. AllInit => MutationInv
  BY MutationStarts DEF AllInit
<1>2. MutationInv /\ [MutationNext]_everything => MutationInv'
  <2>1. [MutationNext]_everything => [Mutations!Next]_mutationVars
    BY DEF MutationNext, everything
  <2> QED BY <2>1, MutationSteps
<1> QED BY <1>1, <1>2, PTL DEF MutationSpec

\* What is executed waits for no answer, and a run that is over neither.
LEMMA NoneUnanswered == ASSUME MutationInv PROVE Mutations!AnsweredAsAsked
<1>1. slots \cup tokens \subseteq Mutations!Intents
  BY DEF MutationInv, Mutations!TypeOK
<1>2. ASSUME NEW h \in Handlers, NEW d \in slots \cup tokens
      PROVE  ~(OnItsWay(h, d) \/ Mutations!On(h, d, "flight"))
  BY <1>1, <1>2 DEF MutationInv, SendsOnce, FlightIsSent, HeldIsOpen
<1> QED BY <1>2 DEF MutationInv, HeldIsOpen, OnItsWay, Mutations!AnsweredAsAsked

\* The intent of one reading of the page, or a page call, is sent at most once, and it is
\* sent by the answer to that reading: neither a repeated message nor the answer to
\* another reading releases it. That a run has one such intent is not claimed: an
\* approval that reads another state of the page has an intent of its own.
THEOREM SentOnce == MutationSpec => []MutationSafety
<1>1. MutationInv => MutationSafety
  BY NoneUnanswered DEF MutationInv, MutationSafety, Mutations!MutationSafety
<1> QED BY <1>1, MutationInvariance, PTL

LEMMA AbortedIsSilent ==
  ASSUME MutationInv, Mutations!Next, NEW d \in Mutations!Intents, d[1] \in aborted
  PROVE  reached'[d] = reached[d]
<1>0. phase[d[1]] = "TERMINAL" /\ reached \in [Mutations!Intents -> 0 .. 2]
  BY DEF MutationInv, Mutations!TypeOK, AbortedIsOver
<1>1. ASSUME NEW h \in Handlers, NEW r \in Proposals, Mutations!Before(h, r)
      PROVE  reached'[d] = reached[d]
  <2>1. r \in aborted => UNCHANGED reached
    BY <1>1 DEF Mutations!Before, Mutations!Checked, Mutations!Refused
  <2>2. r \notin aborted => Mutations!Unread(r) # d
    BY UnreadParts
  <2> QED BY <1>0, <1>1, <2>1, <2>2 DEF Mutations!Before, Mutations!Refused
<1>2. ASSUME NEW h \in Handlers, NEW e \in Mutations!Intents, Mutations!Send(h, e)
      PROVE  reached'[d] = reached[d]
  BY <1>0, <1>2 DEF Mutations!Send, Mutations!StillActive, Mutations!Live
<1>3. CASE \E r \in Proposals : Mutations!Start(r) \/ Mutations!Cancel(r)
  BY <1>3 DEF Mutations!Start, Mutations!Cancel
<1>4. CASE \E h \in Handlers, r \in Proposals : Mutations!Approval(h, r)
  BY <1>1, <1>4 DEF Mutations!Approval, Mutations!Approve, Mutations!Authorize, Mutations!Refused,
     Mutations!Probe, Mutations!Returned, Mutations!Propose
<1>5. CASE \E h \in Handlers, r \in Proposals : Mutations!Answered(h, r)
  BY <1>5 DEF Mutations!Answered, Mutations!Answer, Mutations!SubmitValue, Mutations!Confirm
<1>6. CASE \/ \E e \in Mutations!Intents : Mutations!Expire(e)
           \/ \E h \in Handlers : Mutations!Fail(h)
  BY <1>6 DEF Mutations!Expire, Mutations!Fail
<1>7. CASE \E h \in Handlers, e \in Mutations!Intents :
             Mutations!Prepare(h, e) \/ Mutations!Send(h, e) \/ Mutations!Executed(h, e)
  BY <1>2, <1>7 DEF Mutations!Prepare, Mutations!Executed
<1> QED
  BY <1>3, <1>4, <1>5, <1>6, <1>7 DEF Mutations!Next

\* Nothing of a run is sent once its request has ended.
THEOREM EndedIsSilent == MutationSpec => NoDispatchAfterAbort
<1> DEFINE Silent == \A d \in Mutations!Intents : d[1] \in aborted => reached'[d] = reached[d]
<1>1. MutationInv /\ [MutationNext]_everything => [Silent]_(Mutations!vars)
  <2> SUFFICES ASSUME MutationInv, [MutationNext]_everything, Mutations!vars' # Mutations!vars
               PROVE Silent
    OBVIOUS
  <2>1. Mutations!Next
    BY DEF MutationNext, everything, mutationVars, Mutations!vars
  <2> QED BY <2>1, AbortedIsSilent
<1> QED
  BY <1>1, MutationInvariance, PTL DEF MutationSpec, NoDispatchAfterAbort,
     Mutations!NoDispatchAfterAbort
=============================================================================
