------------------------------ MODULE Indexer ------------------------------
(***************************************************************************)
(* The normalization stage in its deployment (spec 5, 6; celery.py): a     *)
(* periodic beat task ingests classified blocks and queues each delivery *)
(* for a worker process; a worker runs block_to_action in one step and    *)
(* the consumer stores the action under its action_id, unless the process *)
(* dies first and the early-acked delivery is lost.                        *)
(*                                                                         *)
(* A block is rebuilt by the upstream classifier on every ingestion, so   *)
(* each delivery lists the block's event nodes in some order (the spec    *)
(* calls the collection "ordered/unordered"); a worker process has its own *)
(* string hash order (PYTHONHASHSEED), fixed until the process restarts.   *)
(***************************************************************************)
EXTENDS BlockTreeSerializer

CONSTANTS
    Blocks,         \* the classified blocks the ingestion task produces
    Workers,        \* worker processes
    Seeds,          \* string hash orders a process can start with
    TraceId,        \* trace id passed to block_to_action
    MaxDeliveries   \* bound on the deliveries of one block

ASSUME DeliveriesAssumption == MaxDeliveries \in Nat \ {0}

ASSUME BlocksAssumption == \A b \in Blocks : IsBlock(b)

ASSUME SeedsAssumption == \A s \in Seeds : IsHashOrder(s)

VARIABLES
    pending,    \* pending[b]: deliveries of b not yet converted
    delivered,  \* delivered[b]: deliveries of b made so far
    seed,       \* seed[w]: string hash order of process w
    written,    \* the actions the consumer received, with their block
    faults      \* blocks whose conversion raised

vars == <<pending, delivered, seed, written, faults>>

\* Every listing of the block's event nodes, each node once.
Listings(b) ==
    {s \in [DOMAIN b.nodes -> NodeSet(b)] : Range(s) = NodeSet(b) /\ IsInjective(s)}

Init ==
    /\ pending = [b \in Blocks |-> 0]
    /\ delivered = [b \in Blocks |-> 0]
    /\ seed \in [Workers -> Seeds]
    /\ written = {}
    /\ faults = {}

\* The beat task (every 60 s) ingests b once more and queues it.
Ingest(b) ==
    /\ delivered[b] < MaxDeliveries
    /\ delivered' = [delivered EXCEPT ![b] = @ + 1]
    /\ pending' = [pending EXCEPT ![b] = @ + 1]
    /\ UNCHANGED <<seed, written, faults>>

\* Worker w takes one queued delivery of b, listed as `order`, and runs
\* block_to_action; the action goes to the consumer, a raise is recorded.
Convert(w, b, order) ==
    LET r == BlockToAction([b EXCEPT !.nodes = order], TraceId, seed[w]) IN
    /\ pending[b] > 0
    /\ pending' = [pending EXCEPT ![b] = @ - 1]
    /\ IF r = Fault
       THEN /\ faults' = faults \cup {b}
            /\ UNCHANGED written
       ELSE /\ written' = written \cup {[block |-> b, action |-> r]}
            /\ UNCHANGED faults
    /\ UNCHANGED <<delivered, seed>>

\* Worker process w is replaced and starts with a new hash order.
Restart(w) ==
    /\ \E s \in Seeds \ {seed[w]} : seed' = [seed EXCEPT ![w] = s]
    /\ UNCHANGED <<pending, delivered, written, faults>>

\* celery.py leaves Celery's default early acknowledgement: the broker
\* forgets a delivery once a worker receives it.  If the process dies
\* before block_to_action returns, the delivery is lost and w comes back
\* as a new process with a hash order of its own.
LoseDelivery(w, b) ==
    /\ pending[b] > 0
    /\ pending' = [pending EXCEPT ![b] = @ - 1]
    /\ \E s \in Seeds : seed' = [seed EXCEPT ![w] = s]
    /\ UNCHANGED <<delivered, written, faults>>

Next ==
    \/ \E b \in Blocks : Ingest(b)
    \/ \E w \in Workers, b \in Blocks : \E order \in Listings(b) : Convert(w, b, order)
    \/ \E w \in Workers : Restart(w)
    \/ \E w \in Workers, b \in Blocks : LoseDelivery(w, b)

Spec == Init /\ [][Next]_vars

\* A live worker process keeps consuming the queue: a delivery that stays
\* queued is eventually taken and converted.  Ingestion and process death
\* are left unfair; the beat's re-fetching lives in indexer.tasks.
Fairness == \A b \in Blocks : WF_vars(\E w \in Workers : \E order \in Listings(b) : Convert(w, b, order))

LiveSpec == Spec /\ Fairness

\* Variable types: a conjunct of the inductive invariant of the proofs.
TypeOK ==
    /\ pending \in [Blocks -> 0..MaxDeliveries]
    /\ delivered \in [Blocks -> 0..MaxDeliveries]
    /\ seed \in [Workers -> Seeds]
    /\ \A r \in written : r.block \in Blocks
    /\ faults \subseteq Blocks

\* The node of least lt, when only one node has it (spec 4.2).
UniqueRoot(b) ==
    \E m \in NodeSet(b) : \A n \in NodeSet(b) : n # m => m.lt < n.lt
MinNode(b) ==
    CHOOSE m \in NodeSet(b) : \A n \in NodeSet(b) : n # m => m.lt < n.lt

\* The action_id spec 4.2 derives from the root node and the btype.
SpecActionId(b) == Sha256Base64(RootKey(MinNode(b)) \o <<b.btype>>)

(***************************************************************************)
(* Identity is content-derived (spec 3, 4.2): whenever a block has a      *)
(* single node of least lt, every action the workers produced for it, in  *)
(* any listing order and any process, carries the identifier derived from *)
(* that node's message hash (or transaction hash) and the btype.          *)
(***************************************************************************)
IdFromRoot ==
    \A r \in written : UniqueRoot(r.block) => r.action.action_id = SpecActionId(r.block)

(***************************************************************************)
(* Determinism (spec 5, 8): re-processing a block never yields a second  *)
(* action_id, so the consumer's dedup keyed on action_id sees one action. *)
(***************************************************************************)
IdStable ==
    \A r1, r2 \in written : r1.block = r2.block => r1.action.action_id = r2.action.action_id

\* An action with its lists read as sets.
Canon(a) ==
    [a EXCEPT !.tx_hashes = Range(@), !.extended_tx_hashes = Range(@),
              !.accounts = Range(@)]

(***************************************************************************)
(* Dedup is sound (spec 5): two actions the consumer receives under one   *)
(* action_id, from retries, other processes or other blocks, agree on     *)
(* every field once list order is ignored, so keeping either loses        *)
(* nothing.                                                                *)
(***************************************************************************)
DedupSound ==
    LET received == {Canon(r.action) : r \in written} IN
    \A c1, c2 \in received : c1.action_id = c2.action_id => c1 = c2

(***************************************************************************)
(* Re-delivery agrees (spec 5, 8): when a worker converts a block the     *)
(* consumer has already received an action for, in another listing or    *)
(* another process, and the block has a single node of least lt, the new *)
(* action equals the earlier one once list order is ignored.  Unlike     *)
(* DedupSound it says nothing of other blocks, whose ids may collide.    *)
(***************************************************************************)
RedeliveryAgrees ==
    [][\A r \in written' \ written, q \in written :
          q.block = r.block /\ UniqueRoot(r.block) => Canon(q.action) = Canon(r.action)]_vars

(***************************************************************************)
(* Byte-identical retries (spec 5, 8): converting the same block twice    *)
(* yields the identical action, lists included.                           *)
(***************************************************************************)
ByteIdentical ==
    LET received == {r.action : r \in written} IN
    \A a1, a2 \in received : a1.action_id = a2.action_id => a1 = a2

(***************************************************************************)
(* Raising is a property of the block (spec 7): whether block_to_action  *)
(* raises never depends on the listing of the nodes or on the process, so *)
(* no block is both received by the consumer and recorded as failed by    *)
(* another delivery.                                                       *)
(***************************************************************************)
FaultsConsistent == \A r \in written : r.block \notin faults

\* b has an outcome: the consumer received an action for it, or it raised.
Handled(b) == b \in faults \/ \E r \in written : r.block = b

(***************************************************************************)
(* At-least-once delivery (spec 6): a block the ingestion task has queued *)
(* is eventually converted, so the consumer receives its action or the   *)
(* failure is known, even when a worker process dies on the way.          *)
(***************************************************************************)
EventuallyHandled == \A b \in Blocks : delivered[b] > 0 ~> Handled(b)

=============================================================================
