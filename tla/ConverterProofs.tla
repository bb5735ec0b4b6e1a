-------------------------- MODULE ConverterProofs --------------------------
(***************************************************************************)
(* Proofs about one call of block_to_action: the hash lists it returns,    *)
(* for every block, every string hash order and every trace id.           *)
(***************************************************************************)
EXTENDS Converter, SerializerProofs

(***************************************************************************)
(* The inductive invariant: the input and the process's hash order never   *)
(* change, and the output is either not there yet or the value of         *)
(* block_to_action on them.                                                *)
(***************************************************************************)
CInv ==
    /\ blk \in Blocks
    /\ seed \in Seeds
    /\ out \in {Null, BlockToAction(blk, TraceId, seed)}

LEMMA InitCInv == Init => CInv
  BY DEF Init, CInv

LEMMA NextCInv == CInv /\ [Next]_vars => CInv'
  BY DEF CInv, Next, Convert, vars

\* Converter's reference hashes are the ones SerializerProofs names.
LEMMA InitiatorHashesDef ==
    ASSUME NEW b
    PROVE  InitiatorHashes(b) = InitiatingHashes(b)
  BY DEF InitiatorHashes, InitiatingHashes

(***************************************************************************)
(* Hash superset: in every reachable state, a converted action lists each  *)
(* transaction hash of the block's event nodes once and nothing else, and  *)
(* its extended list holds those and the initiating node's hash (or "")   *)
(* once each, whatever order the process's string hashes put them in.      *)
(***************************************************************************)
THEOREM TxHashesExactHolds == Spec => []TxHashesExact
<1>1. CInv => TxHashesExact
  <2>. SUFFICES ASSUME CInv, Done PROVE TxHashesExact
    BY DEF TxHashesExact
  <2>1. out = BlockToAction(blk, TraceId, seed) /\ out # Fault
    BY DEF CInv, Done
  <2>2. IsBlock(blk) /\ IsHashOrder(seed)
    BY BlocksAssumption, SeedsAssumption DEF CInv
  <2>3. ~FillFails(blk)
    BY <2>1, FaultIffFails
  <2>4. ConvertedContent(blk, out)
    BY <2>1, <2>2, <2>3, ConvertedFields
  <2>. QED BY <2>4, InitiatorHashesDef DEF ConvertedContent, TxHashesExact, Done
<1>. QED BY InitCInv, NextCInv, <1>1, PTL DEF Spec

=============================================================================
