---------------------------- MODULE MCCodebase -----------------------------
(* The two ends of the codebase feature for TLC: the store of the graphs   *)
(* (CodebaseStore) and the reads of their projection by the agent server   *)
(* (ProjectionRead), which sees of the store only the revision of a graph. *)
(* A behaviour drives one of them, chosen at the start, and the other one  *)
(* rests. The store is driven with graphs and datasets, or with recipes    *)
(* and their managers.                                                     *)
EXTENDS CodebaseStore, TLC

CONSTANTS p1, p2, b1, b2, r1, d1, m1, l1, l2, q1, q2, q3,
          Leases, Reads, Nil, ReadLimit, CallLimit, Others, MaxGraph, MaxLate

VARIABLES driven, graph, alive, entry, offers, reads, late, aborted, queue, pc, look, checking,
          posting, toAgent, toExt, transfer, closed, held

ASSUME LimitsAreNatural == {ReadLimit, CallLimit, Others, MaxGraph, MaxLate} \subseteq Nat

Projection == INSTANCE ProjectionRead

readVars == <<graph, alive, entry, offers, reads, late, aborted, queue, pc, look, checking,
              posting, toAgent, toExt, transfer, closed, held>>
all == <<vars, readVars, driven>>

BothInit == driven \in {"graphs", "recipes", "reads"} /\ Init /\ Projection!Init

\* The graphs alone, with their datasets, of two sources each.
Graphs == catalog' = catalog /\ view' = view /\ (\A d \in applied' : d.source <= 2)
            /\ (\A r \in rows' : r.kind \in {"page", "version", "dataset", "receipt"})

\* The recipes and their managers, beside one revision of the graphs.
Advice == now' <= 1 /\ (\A d \in applied' : d.batch = b1 /\ d.expected = 0)
            /\ (\A r \in rows' : r.kind # "dataset" /\ r.pin = 0)

\* The reads, which are alike, are asked in one order, and a lease ends with the graph
\* or with its admission.
Ordered == (reads'[q2].state # "idle" => reads[q1].state # "idle") /\ (graph' # 0 => alive' = Leases)

BothNext ==
  \/ driven = "graphs" /\ Next /\ Graphs /\ UNCHANGED <<driven, readVars>>
  \/ driven = "recipes" /\ Next /\ Advice /\ UNCHANGED <<driven, readVars>>
  \/ driven = "reads" /\ Projection!Next /\ Ordered /\ UNCHANGED <<driven, vars>>

\* The fairness of ProjectionRead!LiveSpec (nothing is on its way while the reads rest);
\* nothing is assumed of the store.
FairBoth == BothInit /\ [][BothNext]_all /\ WF_readVars(Projection!Settles)

---------------------------------------------------------------------------
(* Properties.                                                              *)

(* The store: a batch is applied once though its page is evicted and starts *)
(* again at revision zero, a dataset that can be read is of the very graph  *)
(* it was collected from, and a manager deletes only what it listed.        *)
StoreSafety ==
  TypeOK /\ AppliedOnce /\ NoResurrection /\ DatasetOfItsGraph /\ DeletesSeen

(* The reads: none is answered whose lease was revoked, whose document left *)
(* or whose graph changed before its last chunk was acknowledged, none is   *)
(* sent that had changed before it was hashed, and transfers never overlap  *)
(* at the agent.                                                            *)
AnsweredFresh ==
  /\ Projection!TypeOK
  /\ Projection!AnsweredFresh /\ Projection!OpenedFresh /\ Projection!TransfersInOrder

(* A repository that never answers a projection does not stop the endpoint  *)
(* (one that never answers a validation of a transfer does), and the agent  *)
(* forgets a lease that is revoked while it has it.                         *)
ReadsSettle == Projection!QueueDrains /\ Projection!Retracted
===========================================================================
