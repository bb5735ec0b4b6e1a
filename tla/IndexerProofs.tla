--------------------------- MODULE IndexerProofs ---------------------------
(***************************************************************************)
(* Proofs about Indexer: the type invariant, and that every action a       *)
(* worker hands to the consumer carries the identifier spec 4.2 derives    *)
(* from the block's root node, whatever listing of the nodes the delivery  *)
(* had and whatever process converted it, whenever the root is unique.     *)
(***************************************************************************)
EXTENDS IndexerStore, SerializerProofs

(***************************************************************************)
(* Lemmas about the Identity Deriver.                                      *)
(***************************************************************************)

\* The unique node of least lt is the one MinNode names.
LEMMA MinNodeIsRoot ==
    ASSUME NEW b, NEW m \in NodeSet(b),
           \A n \in NodeSet(b) : n # m => m.lt < n.lt,
           \A n \in NodeSet(b) : n.lt \in Nat
    PROVE  MinNode(b) = m
<1>1. \A m2 \in NodeSet(b) :
         (\A n \in NodeSet(b) : n # m2 => m2.lt < n.lt) => m2 = m
  OBVIOUS
<1>. QED BY <1>1 DEF MinNode

\* In any listing of the nodes, min(..., key=lt) picks the unique root.
LEMMA RootOfListing ==
    ASSUME NEW b \in Blocks, NEW s \in Listings(b), UniqueRoot(b)
    PROVE  s[RootIndex(s)] = MinNode(b)
<1>1. PICK m \in NodeSet(b) : \A n \in NodeSet(b) : n # m => m.lt < n.lt
  BY DEF UniqueRoot
<1>0. b.nodes \in Seq(EventNode)
  BY BlocksAssumption DEF IsBlock
<1>2. \A n \in NodeSet(b) : n.lt \in Nat
  <2>. SUFFICES ASSUME NEW i \in DOMAIN b.nodes PROVE b.nodes[i].lt \in Nat
    BY DEF NodeSet
  <2>1. b.nodes[i] \in EventNode
    BY <1>0
  <2>. QED BY <2>1 DEF EventNode
<1>3. MinNode(b) = m
  BY <1>1, <1>2, MinNodeIsRoot
<1>4. /\ DOMAIN s = DOMAIN b.nodes
      /\ \A i \in DOMAIN s : s[i] \in NodeSet(b)
      /\ Range(s) = NodeSet(b)
      /\ IsInjective(s)
  BY DEF Listings
<1>5. DOMAIN s \subseteq Nat
  BY <1>0, <1>4
<1>6. PICK j0 \in DOMAIN s : s[j0] = m
  BY <1>4 DEF Range
<1>7. \A j \in DOMAIN s : j # j0 => m.lt < s[j].lt
  BY <1>1, <1>4, <1>6 DEF IsInjective
<1>8. \A j \in DOMAIN s : s[j0].lt < s[j].lt \/ (s[j0].lt = s[j].lt /\ j0 <= j)
  BY <1>5, <1>6, <1>7
<1>. DEFINE i == RootIndex(s)
<1>9. i \in DOMAIN s /\ \A j \in DOMAIN s : s[i].lt < s[j].lt \/ (s[i].lt = s[j].lt /\ i <= j)
  BY <1>8 DEF RootIndex
<1>10. s[i] = m
  BY <1>1, <1>2, <1>4, <1>5, <1>6, <1>7, <1>9
<1>. QED BY <1>3, <1>10

\* Whether a filler raises depends on the class and the payload only.
LEMMA ListedFails ==
    ASSUME NEW b \in Blocks, NEW s
    PROVE  FillFails([b EXCEPT !.nodes = s]) = FillFails(b)
<1>1. [b EXCEPT !.nodes = s].cls = b.cls /\ [b EXCEPT !.nodes = s].data = b.data
  BY BlocksAssumption
<1>. QED BY <1>1 DEF FillFails, TonTransferFails, JettonTransferFails

\* Relisting the nodes keeps the btype; min() then finds the unique root.
LEMMA ListedId ==
    ASSUME NEW b \in Blocks, NEW s \in Listings(b), UniqueRoot(b)
    PROVE  CalcActionId([b EXCEPT !.nodes = s]) = SpecActionId(b)
<1>1. [b EXCEPT !.nodes = s].nodes = s /\ [b EXCEPT !.nodes = s].btype = b.btype
  BY BlocksAssumption
<1>2. s[RootIndex(s)] = MinNode(b)
  BY RootOfListing
<1>. QED BY <1>1, <1>2 DEF CalcActionId, SpecActionId

\* A delivery's relisted block is a block that differs from b in the order
\* of its nodes only.
LEMMA ListedBlock ==
    ASSUME NEW b \in Blocks, NEW s \in Listings(b)
    PROVE  LET lb == [b EXCEPT !.nodes = s] IN IsBlock(lb) /\ Relisted(lb, b)
<1>. DEFINE lb == [b EXCEPT !.nodes = s]
<1>1. IsBlock(b)
  BY BlocksAssumption
<1>2. /\ s \in [DOMAIN b.nodes -> NodeSet(b)]
      /\ Range(s) = NodeSet(b)
  BY DEF Listings
<1>3. b.nodes \in Seq(EventNode) /\ b.initiating \in EventNode \cup {Null}
  BY <1>1 DEF IsBlock
<1>4. NodeSet(b) \subseteq EventNode
  BY <1>3 DEF NodeSet
<1>5. s \in Seq(EventNode)
  <2>1. PICK n \in Nat : DOMAIN b.nodes = 1..n
    BY <1>3
  <2>2. s \in [1..n -> EventNode]
    BY <1>2, <1>4, <2>1
  <2>. QED BY <2>2
<1>6. /\ DOMAIN lb = DOMAIN b
      /\ lb.nodes = s
      /\ lb.cls = b.cls /\ lb.btype = b.btype /\ lb.data = b.data
      /\ lb.failed = b.failed /\ lb.value = b.value /\ lb.initiating = b.initiating
  BY <1>1 DEF IsBlock, lb
<1>7. IsBlock(lb)
  BY <1>1, <1>3, <1>5, <1>6 DEF IsBlock
<1>8. NodeSet(lb) = NodeSet(b)
  BY <1>2, <1>6 DEF NodeSet, Range
<1>. QED BY <1>6, <1>7, <1>8 DEF Relisted

(***************************************************************************)
(* The inductive invariant.  TypeOK alone is not inductive: Ingest keeps   *)
(* pending[b] within MaxDeliveries only because pending[b] never exceeds   *)
(* delivered[b]; IdFromRoot needs every record's block to be in Blocks.    *)
(***************************************************************************)
\* Every received action is what block_to_action returns for some listing
\* of its block's nodes under some process's hash order.
WrittenFromListing ==
    \A q \in written : \E o \in Listings(q.block), sd \in Seeds :
        q.action = BlockToAction([q.block EXCEPT !.nodes = o], TraceId, sd)

IInv ==
    /\ TypeOK
    /\ \A b \in Blocks : pending[b] <= delivered[b]
    /\ IdFromRoot
    /\ \A b \in faults : FillFails(b)
    /\ \A r \in written : ~FillFails(r.block)
    /\ WrittenAdmissible
    /\ WrittenFromListing

LEMMA InitIInv == Init => IInv
  BY DeliveriesAssumption DEF Init, IInv, TypeOK, IdFromRoot, WrittenAdmissible, WrittenFromListing

LEMMA NextIInv == IInv /\ [Next]_vars => IInv'
<1> SUFFICES ASSUME IInv, [Next]_vars PROVE IInv'
  OBVIOUS
<1>. USE DeliveriesAssumption
<1>1. CASE \E b \in Blocks : Ingest(b)
  BY <1>1 DEF IInv, TypeOK, IdFromRoot, WrittenAdmissible, WrittenFromListing, Ingest
<1>2. CASE \E w \in Workers, b \in Blocks : \E order \in Listings(b) : Convert(w, b, order)
  <2>0. PICK w \in Workers, b \in Blocks : \E order \in Listings(b) : Convert(w, b, order)
    BY <1>2
  <2>1. PICK order \in Listings(b) : Convert(w, b, order)
    BY <2>0
  <2>. DEFINE r == BlockToAction([b EXCEPT !.nodes = order], TraceId, seed[w])
  <2>2. TypeOK' /\ (\A c \in Blocks : pending'[c] <= delivered'[c])
    BY <2>1 DEF IInv, TypeOK, Convert
  <2>3. CASE r = Fault
    <3>1. faults' = faults \cup {b} /\ written' = written
      BY <2>1, <2>3 DEF Convert
    <3>2. FillFails(b)
      BY <2>3, FaultIffFails, ListedFails
    <3>. QED BY <2>2, <3>1, <3>2 DEF IInv, IdFromRoot, WrittenAdmissible, WrittenFromListing
  <2>4. CASE r # Fault
    <3>1. written' = written \cup {[block |-> b, action |-> r]} /\ faults' = faults
      BY <2>1, <2>4 DEF Convert
    <3>2. UniqueRoot(b) => r.action_id = SpecActionId(b)
      BY <2>4, ConversionId, ListedId
    <3>3. ~FillFails(b)
      BY <2>4, FaultIffFails, ListedFails
    <3>4. SpecAdmissible(b, Canon(r))
      <4>. DEFINE lb == [b EXCEPT !.nodes = order]
      <4>1. IsBlock(lb) /\ Relisted(lb, b)
        BY ListedBlock
      <4>2. IsHashOrder(seed[w])
        BY SeedsAssumption DEF IInv, TypeOK
      <4>3. ~FillFails(lb)
        BY <2>4, FaultIffFails
      <4>4. ConvertedContent(lb, r)
        BY <4>1, <4>2, <4>3, ConvertedFields
      <4>5. IsAction(r)
        BY <4>3, ConvertedAction DEF IsActionWithId
      <4>6. /\ Canon(r).action_id = r.action_id
            /\ Canon(r).tx_hashes = Range(r.tx_hashes)
            /\ Canon(r).extended_tx_hashes = Range(r.extended_tx_hashes)
            /\ Canon(r).accounts = Range(r.accounts)
            /\ Canon(r).success = r.success
        BY <4>5 DEF Canon, IsAction, ActionFields
      <4>. QED BY <3>2, <4>1, <4>4, <4>6 DEF SpecAdmissible, ConvertedContent, Relisted
    <3>5. \E o \in Listings(b), sd \in Seeds :
            r = BlockToAction([b EXCEPT !.nodes = o], TraceId, sd)
      BY DEF IInv, TypeOK
    <3>. QED BY <2>2, <3>1, <3>2, <3>3, <3>4, <3>5 DEF IInv, IdFromRoot, WrittenAdmissible, WrittenFromListing
  <2>. QED BY <2>3, <2>4
<1>3. CASE \E w \in Workers : Restart(w)
  BY <1>3 DEF IInv, TypeOK, IdFromRoot, WrittenAdmissible, WrittenFromListing, Restart
<1>4. CASE UNCHANGED vars
  BY <1>4 DEF IInv, TypeOK, IdFromRoot, WrittenAdmissible, WrittenFromListing, vars
<1>5. CASE \E w \in Workers, b \in Blocks : LoseDelivery(w, b)
  BY <1>5 DEF IInv, TypeOK, IdFromRoot, WrittenAdmissible, WrittenFromListing, LoseDelivery
<1>. QED BY <1>1, <1>2, <1>3, <1>4, <1>5 DEF Next

(***************************************************************************)
(* Content-derived identity: in every reachable state, every action the    *)
(* consumer received for a block with a unique least-lt node carries the   *)
(* identifier derived from that node and the btype, whichever listing of  *)
(* the nodes and whichever worker process produced it.                    *)
(***************************************************************************)
THEOREM IdFromRootHolds == Spec => []IdFromRoot
<1>1. IInv => IdFromRoot
  BY DEF IInv
<1>. QED BY InitIInv, NextIInv, <1>1, PTL DEF Spec

(***************************************************************************)
(* Raising is a property of the block: no block is both received by the  *)
(* consumer and recorded as failed, whatever listings and processes its   *)
(* deliveries met, because block_to_action raises exactly when the        *)
(* filler of its class raises on its payload.                             *)
(***************************************************************************)
THEOREM FaultsConsistentHolds == Spec => []FaultsConsistent
<1>1. IInv => FaultsConsistent
  BY DEF IInv, FaultsConsistent
<1>. QED BY InitIInv, NextIInv, <1>1, PTL DEF Spec

(***************************************************************************)
(* Admissible content: in every reachable state, every action the         *)
(* consumer received is one the contract admits for its block (spec 4.2,  *)
(* 4.3, 4.4, 4.6), whatever listing and hash order the delivery met:     *)
(* base converter, fillers and the list(set(..)) of the assembler lose   *)
(* no node hash or node account and let no None through.                  *)
(***************************************************************************)
THEOREM WrittenAdmissibleHolds == Spec => []WrittenAdmissible
<1>1. IInv => WrittenAdmissible
  BY DEF IInv
<1>. QED BY InitIInv, NextIInv, <1>1, PTL DEF Spec


\* Two actions that differ at most in list order are the same action once
\* their lists are read as sets.
LEMMA CanonAgree ==
    ASSUME NEW r1, NEW r2, IsAction(r1), IsAction(r2), SameUpToOrder(r1, r2)
    PROVE  Canon(r1) = Canon(r2)
<1>1. DOMAIN Canon(r1) = ActionFields /\ DOMAIN Canon(r2) = ActionFields
  BY DEF Canon, IsAction
<1>2. \A f \in ActionFields \ ListFields : Canon(r1)[f] = r1[f] /\ Canon(r2)[f] = r2[f]
  BY DEF Canon, IsAction, ListFields
<1>3. /\ Canon(r1).tx_hashes = Canon(r2).tx_hashes
      /\ Canon(r1).extended_tx_hashes = Canon(r2).extended_tx_hashes
      /\ Canon(r1).accounts = Canon(r2).accounts
  BY DEF Canon, IsAction, ActionFields, SameUpToOrder
<1>4. \A f \in ActionFields : Canon(r1)[f] = Canon(r2)[f]
  BY <1>2, <1>3 DEF SameUpToOrder, SameBesideLists, ListFields
<1>. QED BY <1>1, <1>4, Zenon DEF Canon

(***************************************************************************)
(* Re-delivery agrees: every step in which a worker hands the consumer an *)
(* action for a block with a unique least-lt node, which it has already  *)
(* received an action for, hands it the same action once list order is   *)
(* ignored, whatever listings and hash orders the two deliveries met.     *)
(***************************************************************************)
THEOREM RedeliveryAgreesHolds == Spec => RedeliveryAgrees
<1>1. IInv /\ [Next]_vars =>
        [\A r \in written' \ written, q \in written :
            q.block = r.block /\ UniqueRoot(r.block) => Canon(q.action) = Canon(r.action)]_vars
  <2>. SUFFICES ASSUME IInv, [Next]_vars,
                       NEW r \in written' \ written, NEW q \in written,
                       q.block = r.block, UniqueRoot(r.block)
                PROVE  Canon(q.action) = Canon(r.action)
    OBVIOUS
  <2>0. PICK w \in Workers, b \in Blocks : \E order \in Listings(b) : Convert(w, b, order)
    <3>1. written' # written
      OBVIOUS
    <3>. QED BY <3>1 DEF Next, Ingest, Restart, LoseDelivery, vars
  <2>1. PICK order \in Listings(b) :
          /\ Convert(w, b, order)
          /\ r = [block |-> b, action |-> BlockToAction([b EXCEPT !.nodes = order], TraceId, seed[w])]
    <3>1. PICK order \in Listings(b) : Convert(w, b, order)
      BY <2>0
    <3>. QED BY <3>1 DEF Convert
  <2>. DEFINE lb == [b EXCEPT !.nodes = order]
  <2>2. PICK o \in Listings(b), sd \in Seeds :
          q.action = BlockToAction([b EXCEPT !.nodes = o], TraceId, sd)
    BY <2>1 DEF IInv, WrittenFromListing
  <2>. DEFINE lq == [b EXCEPT !.nodes = o]
  <2>3. IsBlock(lq) /\ Relisted(lq, b) /\ IsBlock(lb) /\ Relisted(lb, b)
    BY ListedBlock
  <2>4. Relisted(lq, lb)
    BY <2>3 DEF Relisted
  <2>5. UniqueRoot(b)
    BY <2>1
  <2>6. CalcActionId(lq) = CalcActionId(lb)
    BY <2>5, ListedId
  <2>7. ~FillFails(lq) /\ ~FillFails(lb)
    <3>1. ~FillFails(b)
      BY <2>1, <2>2 DEF IInv
    <3>. QED BY <3>1, ListedFails
  <2>8. IsHashOrder(sd) /\ IsHashOrder(seed[w])
    BY SeedsAssumption DEF IInv, TypeOK
  <2>9. SameUpToOrder(BlockToAction(lq, TraceId, sd), BlockToAction(lb, TraceId, seed[w]))
    BY <2>3, <2>4, <2>6, <2>7, <2>8, RelistedAgree
  <2>10. IsAction(BlockToAction(lq, TraceId, sd)) /\ IsAction(BlockToAction(lb, TraceId, seed[w]))
    BY <2>7, ConvertedAction DEF IsActionWithId
  <2>. QED BY <2>1, <2>2, <2>9, <2>10, CanonAgree
<1>. QED BY InitIInv, NextIInv, <1>1, PTL DEF Spec, RedeliveryAgrees

=============================================================================
