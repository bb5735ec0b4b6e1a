-------------------------- MODULE SerializerProofs --------------------------
(***************************************************************************)
(* Lemmas about the operators of BlockTreeSerializer: what list(set(..))  *)
(* returns under any string hash order, and what the fillers, the         *)
(* assembler and block_to_action keep of the base record.                 *)
(***************************************************************************)
EXTENDS BlockTreeSerializer, FiniteSetTheorems, TLAPS

(***************************************************************************)
(* Ranks of positions.  A set of seed positions is finite, and counting   *)
(* the positions before each one numbers them 0, 1, ... without gaps.     *)
(***************************************************************************)

\* The positions before i form a finite set no larger than P minus i.
LEMMA SeedRankBound ==
    ASSUME NEW P \in SUBSET Nat, IsFiniteSet(P), NEW i \in P
    PROVE  /\ SeedRank(P, i) \in Nat
           /\ SeedRank(P, i) < Cardinality(P)
<1>. DEFINE B == {j \in P : j < i}
<1>1. B \subseteq P \ {i}
  OBVIOUS
<1>2. IsFiniteSet(P \ {i}) /\ Cardinality(P \ {i}) = Cardinality(P) - 1
  BY FS_RemoveElement
<1>3. IsFiniteSet(B) /\ Cardinality(B) <= Cardinality(P \ {i})
  BY <1>1, <1>2, FS_Subset
<1>4. Cardinality(B) \in Nat /\ Cardinality(P) \in Nat
  BY <1>3, FS_CardinalityType
<1>. QED BY <1>2, <1>3, <1>4 DEF SeedRank

\* A later position has a strictly larger rank.
LEMMA SeedRankMonotone ==
    ASSUME NEW P \in SUBSET Nat, IsFiniteSet(P), NEW i \in P, NEW j \in P, i < j
    PROVE  SeedRank(P, i) < SeedRank(P, j)
<1>. DEFINE A == {k \in P : k < i}
            B == {k \in P : k < j}
<1>1. A \subseteq B \ {i} /\ i \in B /\ B \subseteq P
  <2>1. \A k \in P : k < i => k < j /\ k # i
    OBVIOUS
  <2>. QED BY <2>1 DEF A, B
<1>2. IsFiniteSet(B)
  BY <1>1, FS_Subset
<1>3. IsFiniteSet(B \ {i}) /\ Cardinality(B \ {i}) = Cardinality(B) - 1
  BY <1>1, <1>2, FS_RemoveElement
<1>4. Cardinality(A) <= Cardinality(B \ {i})
  BY <1>1, <1>3, FS_Subset
<1>5. Cardinality(A) \in Nat /\ Cardinality(B) \in Nat
  BY <1>1, <1>2, <1>3, FS_Subset, FS_CardinalityType
<1>. QED BY <1>3, <1>4, <1>5 DEF SeedRank

\* Every rank below the size of P is the rank of some position.
LEMMA SeedRankOnto ==
    ASSUME NEW P \in SUBSET Nat, IsFiniteSet(P),
           NEW k \in 0..Cardinality(P) - 1
    PROVE  \E i \in P : SeedRank(P, i) = k
<1>. DEFINE n == Cardinality(P)
            T == 0..n - 1
            f == [i \in P |-> SeedRank(P, i)]
<1>1. n \in Nat
  BY FS_CardinalityType
<1>2. IsFiniteSet(T) /\ Cardinality(T) = n
  BY <1>1, FS_Interval
<1>3. f \in [P -> T]
  <2>1. \A i \in P : SeedRank(P, i) \in T
    BY <1>1, SeedRankBound
  <2>. QED BY <2>1 DEF f
<1>4. \A i, j \in P : f[i] = f[j] => i = j
  <2>. SUFFICES ASSUME NEW i \in P, NEW j \in P, i # j PROVE f[i] # f[j]
    OBVIOUS
  <2>0. f[i] = SeedRank(P, i) /\ f[j] = SeedRank(P, j)
    BY DEF f
  <2>1. CASE i < j
    <3>1. SeedRank(P, i) < SeedRank(P, j)
      BY <2>1, SeedRankMonotone
    <3>. QED BY <3>1, <2>0, SeedRankBound
  <2>2. CASE j < i
    <3>1. SeedRank(P, j) < SeedRank(P, i)
      BY <2>2, SeedRankMonotone
    <3>. QED BY <3>1, <2>0, SeedRankBound
  <2>3. i < j \/ j < i
    OBVIOUS
  <2>. QED BY <2>1, <2>2, <2>3
<1>5. f \in Injection(P, T)
  BY <1>3, <1>4 DEF Injection, IsInjective
<1>6. f \in Surjection(P, T)
  BY <1>2, <1>5, FS_Injection
<1>. QED BY <1>6 DEF Surjection

(***************************************************************************)
(* list(set(S)) under a hash order: it lists exactly the members of S the *)
(* order enumerates, and lists each once when the order does.             *)
(***************************************************************************)
LEMMA ListOfSetProps ==
    ASSUME NEW U, NEW seed \in Seq(U), NEW S
    PROVE  /\ ListOfSet(S, seed) \in Seq(S \cap U)
           /\ Range(ListOfSet(S, seed)) = S \cap Range(seed)
           /\ IsInjective(seed) => IsInjective(ListOfSet(S, seed))
<1>. DEFINE P == SeedIndices(S, seed)
            n == Cardinality(P)
            pick(k) == CHOOSE i \in P : SeedRank(P, i) = k - 1
            l == ListOfSet(S, seed)
<1>1. P \subseteq 1..Len(seed) /\ P \subseteq Nat
  BY DEF SeedIndices
<1>2. IsFiniteSet(P) /\ n \in Nat
  <2>1. IsFiniteSet(1..Len(seed))
    BY FS_Interval
  <2>2. IsFiniteSet(P)
    BY <1>1, <2>1, FS_Subset
  <2>. QED BY <2>2, FS_CardinalityType DEF n
<1>3. l = [k \in 1..n |-> seed[pick(k)]]
  BY DEF ListOfSet
<1>4. \A k \in 1..n : pick(k) \in P /\ SeedRank(P, pick(k)) = k - 1
  <2>. SUFFICES ASSUME NEW k \in 1..n PROVE pick(k) \in P /\ SeedRank(P, pick(k)) = k - 1
    OBVIOUS
  <2>1. k - 1 \in 0..n - 1
    BY <1>2
  <2>2. \E i \in P : SeedRank(P, i) = k - 1
    BY <1>1, <1>2, <2>1, SeedRankOnto
  <2>. QED BY <2>2
<1>5. \A i \in P : SeedRank(P, i) + 1 \in 1..n /\ pick(SeedRank(P, i) + 1) = i
  <2>. SUFFICES ASSUME NEW i \in P
                PROVE  SeedRank(P, i) + 1 \in 1..n /\ pick(SeedRank(P, i) + 1) = i
    OBVIOUS
  <2>1. SeedRank(P, i) \in Nat /\ SeedRank(P, i) < n
    BY <1>1, <1>2, SeedRankBound
  <2>2. SeedRank(P, i) + 1 \in 1..n
    BY <2>1, <1>2
  <2>3. pick(SeedRank(P, i) + 1) \in P /\ SeedRank(P, pick(SeedRank(P, i) + 1)) = SeedRank(P, i)
    BY <2>1, <2>2, <1>4
  <2>4. \A j \in P : SeedRank(P, j) = SeedRank(P, i) => j = i
    <3>. SUFFICES ASSUME NEW j \in P, j # i PROVE SeedRank(P, j) # SeedRank(P, i)
      OBVIOUS
    <3>1. j < i \/ i < j
      BY <1>1
    <3>2. SeedRank(P, j) \in Nat
      BY <1>1, <1>2, SeedRankBound
    <3>. QED BY <1>1, <1>2, <2>1, <3>1, <3>2, SeedRankMonotone
  <2>. QED BY <2>2, <2>3, <2>4
<1>6. l \in Seq(S \cap U)
  <2>1. \A k \in 1..n : seed[pick(k)] \in S \cap U
    <3>. SUFFICES ASSUME NEW k \in 1..n PROVE seed[pick(k)] \in S \cap U
      OBVIOUS
    <3>1. pick(k) \in P
      BY <1>4
    <3>2. pick(k) \in DOMAIN seed /\ seed[pick(k)] \in S
      BY <3>1 DEF P, SeedIndices
    <3>. QED BY <3>2
  <2>2. l \in [1..n -> S \cap U]
    BY <1>3, <2>1
  <2>. QED BY <1>2, <2>2
<1>7. Range(l) = S \cap Range(seed)
  <2>1. Range(l) \subseteq S \cap Range(seed)
    <3>0. DOMAIN l = 1..n /\ \A k \in 1..n : l[k] = seed[pick(k)]
      BY <1>3
    <3>. SUFFICES ASSUME NEW k \in 1..n PROVE seed[pick(k)] \in S \cap Range(seed)
      BY <3>0, Zenon DEF Range
    <3>1. pick(k) \in P
      BY <1>4
    <3>2. pick(k) \in DOMAIN seed /\ seed[pick(k)] \in S
      BY <3>1 DEF P, SeedIndices
    <3>. QED BY <3>2 DEF Range
  <2>2. S \cap Range(seed) \subseteq Range(l)
    <3>. SUFFICES ASSUME NEW i \in DOMAIN seed, seed[i] \in S PROVE seed[i] \in Range(l)
      BY DEF Range
    <3>1. i \in P
      BY DEF SeedIndices, P
    <3>2. l[SeedRank(P, i) + 1] = seed[i] /\ SeedRank(P, i) + 1 \in DOMAIN l
      BY <1>3, <1>5, <3>1
    <3>. QED BY <3>2 DEF Range
  <2>. QED BY <2>1, <2>2
<1>8. IsInjective(seed) => IsInjective(l)
  <2>. SUFFICES ASSUME IsInjective(seed) PROVE IsInjective(l)
    OBVIOUS
  <2>0. DOMAIN l = 1..n /\ \A k \in 1..n : l[k] = seed[pick(k)]
    BY <1>3
  <2>1. SUFFICES ASSUME NEW k1 \in 1..n, NEW k2 \in 1..n, l[k1] = l[k2]
                 PROVE  k1 = k2
    BY <2>0, Zenon DEF IsInjective
  <2>2. seed[pick(k1)] = seed[pick(k2)]
    BY <2>0, <2>1
  <2>3. pick(k1) \in P /\ pick(k2) \in P
    BY <1>4
  <2>4. P \subseteq DOMAIN seed
    BY <1>1
  <2>5. pick(k1) = pick(k2)
    BY <2>2, <2>3, <2>4, Zenon DEF IsInjective
  <2>6. k1 - 1 = k2 - 1
    BY <1>4, <2>5
  <2>. QED BY <2>6
<1>. QED BY <1>6, <1>7, <1>8

(***************************************************************************)
(* The fillers.  Each one sets some generic fields and the payload of the *)
(* record it is given; none touches action_id, tx_hashes or accounts, and *)
(* only the multisig approval replaces success.                           *)
(***************************************************************************)

\* The fields of every action record.
ActionFields ==
    {"trace_id", "type", "action_id", "tx_hashes", "extended_tx_hashes", "success",
     "accounts", "source", "source_secondary", "destination", "destination_secondary",
     "asset", "asset2", "asset_secondary", "amount", "value", "payload"}

\* An action record.
IsAction(a) == a = [f \in ActionFields |-> a[f]]

\* An action record in which the identifier is id.
IsActionWithId(a, id) == IsAction(a) /\ a.action_id = id

\* x is a record of the same fields as a with a's identifier, hashes and
\* account list.
KeepsFrame(x, a) ==
    /\ IsAction(x)
    /\ x.action_id = a.action_id
    /\ x.tx_hashes = a.tx_hashes
    /\ x.accounts = a.accounts

\* The action after each filler but the multisig approval, and unchanged
\* for an unknown class.
FilledKeepingSuccess(b, a) ==
    {FillCallContractAction(b, a),
     FillTonTransferAction(b, a),
     FillNominatorPoolDepositAction(b, a),
     FillNominatorPoolWithdrawRequestAction(b, a),
     FillDedustDepositLiquidityAction(b, a),
     FillDedustDepositLiquidityPartialAction(b, a),
     FillJettonTransferAction(b, a),
     FillNftTransferAction(b, a),
     FillNftDiscoveryAction(b, a),
     FillNftMintAction(b, a),
     FillJettonBurnAction(b, a),
     FillJettonMintAction(b, a),
     FillJettonSwapAction(b, a),
     FillChangeDnsRecordAction(b, a),
     FillDeleteDnsRecordAction(b, a),
     FillDnsRenewAction(b, a),
     FillTonstakersDepositAction(b, a),
     FillTonstakersWithdrawRequestAction(b, a),
     FillTonstakersWithdrawAction(b, a),
     FillSubscribeAction(b, a),
     FillDexDepositLiquidity(b, a),
     FillDexWithdrawLiquidity(b, a),
     FillJVaultStake(b, a),
     FillJVaultUnstake(b, a),
     FillJVaultClaim(b, a),
     FillMultisigCreateOrder(b, a),
     FillVestingSendMessage(b, a),
     FillVestingAddWhitelist(b, a),
     FillUnsubscribeAction(b, a),
     FillElectionAction(b, a),
     FillAuctionBidAction(b, a),
     a}

\* The dispatcher applies the filler of the block's class, or none.
LEMMA FillIsAFiller ==
    ASSUME NEW b, NEW a
    PROVE  /\ b.cls = "MultisigApproveBlock" => Fill(b, a) = FillMultisigApprove(b, a)
           /\ b.cls # "MultisigApproveBlock" => Fill(b, a) \in FilledKeepingSuccess(b, a)
<1>1. b.cls = "MultisigApproveBlock" => Fill(b, a) = FillMultisigApprove(b, a)
  BY Zenon DEF Fill
<1>2. b.cls # "MultisigApproveBlock" => Fill(b, a) \in FilledKeepingSuccess(b, a)
  BY Zenon DEF Fill, FilledKeepingSuccess
<1>. QED BY <1>1, <1>2

\* Every filler but the approval keeps the frame and the success flag.
LEMMA FillersKeepFrame ==
    ASSUME NEW b, NEW a, IsAction(a)
    PROVE  \A x \in FilledKeepingSuccess(b, a) : KeepsFrame(x, a) /\ x.success = a.success
<1>1. KeepsFrame(FillCallContractAction(b, a), a) /\ FillCallContractAction(b, a).success = a.success
  BY DEF KeepsFrame, IsAction, ActionFields, FillCallContractAction
<1>2. KeepsFrame(FillTonTransferAction(b, a), a) /\ FillTonTransferAction(b, a).success = a.success
  BY DEF KeepsFrame, IsAction, ActionFields, SetPayload, FillTonTransferAction
<1>3. KeepsFrame(FillNominatorPoolDepositAction(b, a), a) /\ FillNominatorPoolDepositAction(b, a).success = a.success
  BY DEF KeepsFrame, IsAction, ActionFields, SetPayload, FillNominatorPoolDepositAction
<1>4. KeepsFrame(FillNominatorPoolWithdrawRequestAction(b, a), a) /\ FillNominatorPoolWithdrawRequestAction(b, a).success = a.success
  BY DEF KeepsFrame, IsAction, ActionFields, SetPayload, FillNominatorPoolWithdrawRequestAction
<1>5. KeepsFrame(FillDedustDepositLiquidityAction(b, a), a) /\ FillDedustDepositLiquidityAction(b, a).success = a.success
  BY DEF KeepsFrame, IsAction, ActionFields, SetPayload, FillDedustDepositLiquidityAction
<1>6. KeepsFrame(FillDedustDepositLiquidityPartialAction(b, a), a) /\ FillDedustDepositLiquidityPartialAction(b, a).success = a.success
  BY DEF KeepsFrame, IsAction, ActionFields, SetPayload, FillDedustDepositLiquidityPartialAction
<1>7. KeepsFrame(FillJettonTransferAction(b, a), a) /\ FillJettonTransferAction(b, a).success = a.success
  BY DEF KeepsFrame, IsAction, ActionFields, SetPayload, FillJettonTransferAction
<1>8. KeepsFrame(FillNftTransferAction(b, a), a) /\ FillNftTransferAction(b, a).success = a.success
  BY DEF KeepsFrame, IsAction, ActionFields, SetPayload, FillNftTransferAction
<1>9. KeepsFrame(FillNftDiscoveryAction(b, a), a) /\ FillNftDiscoveryAction(b, a).success = a.success
  BY DEF KeepsFrame, IsAction, ActionFields, SetPayload, FillNftDiscoveryAction
<1>10. KeepsFrame(FillNftMintAction(b, a), a) /\ FillNftMintAction(b, a).success = a.success
  BY DEF KeepsFrame, IsAction, ActionFields, SetPayload, FillNftMintAction
<1>11. KeepsFrame(FillJettonBurnAction(b, a), a) /\ FillJettonBurnAction(b, a).success = a.success
  BY DEF KeepsFrame, IsAction, ActionFields, FillJettonBurnAction
<1>12. KeepsFrame(FillJettonMintAction(b, a), a) /\ FillJettonMintAction(b, a).success = a.success
  BY DEF KeepsFrame, IsAction, ActionFields, FillJettonMintAction
<1>13. KeepsFrame(FillJettonSwapAction(b, a), a) /\ FillJettonSwapAction(b, a).success = a.success
  BY DEF KeepsFrame, IsAction, ActionFields, SetPayload, FillJettonSwapAction
<1>14. KeepsFrame(FillChangeDnsRecordAction(b, a), a) /\ FillChangeDnsRecordAction(b, a).success = a.success
  BY DEF KeepsFrame, IsAction, ActionFields, SetPayload, FillChangeDnsRecordAction
<1>15. KeepsFrame(FillDeleteDnsRecordAction(b, a), a) /\ FillDeleteDnsRecordAction(b, a).success = a.success
  BY DEF KeepsFrame, IsAction, ActionFields, SetPayload, FillDeleteDnsRecordAction
<1>16. KeepsFrame(FillDnsRenewAction(b, a), a) /\ FillDnsRenewAction(b, a).success = a.success
  BY DEF KeepsFrame, IsAction, ActionFields, FillDnsRenewAction
<1>17. KeepsFrame(FillTonstakersDepositAction(b, a), a) /\ FillTonstakersDepositAction(b, a).success = a.success
  BY DEF KeepsFrame, IsAction, ActionFields, SetPayload, FillTonstakersDepositAction
<1>18. KeepsFrame(FillTonstakersWithdrawRequestAction(b, a), a) /\ FillTonstakersWithdrawRequestAction(b, a).success = a.success
  BY DEF KeepsFrame, IsAction, ActionFields, SetPayload, FillTonstakersWithdrawRequestAction
<1>19. KeepsFrame(FillTonstakersWithdrawAction(b, a), a) /\ FillTonstakersWithdrawAction(b, a).success = a.success
  BY DEF KeepsFrame, IsAction, ActionFields, SetPayload, FillTonstakersWithdrawAction
<1>20. KeepsFrame(FillSubscribeAction(b, a), a) /\ FillSubscribeAction(b, a).success = a.success
  BY DEF KeepsFrame, IsAction, ActionFields, FillUnsubscribeAction, FillSubscribeAction
<1>21. KeepsFrame(FillDexDepositLiquidity(b, a), a) /\ FillDexDepositLiquidity(b, a).success = a.success
  BY DEF KeepsFrame, IsAction, ActionFields, SetPayload, FillDexDepositLiquidity
<1>22. KeepsFrame(FillDexWithdrawLiquidity(b, a), a) /\ FillDexWithdrawLiquidity(b, a).success = a.success
  BY DEF KeepsFrame, IsAction, ActionFields, SetPayload, FillDexWithdrawLiquidity
<1>23. KeepsFrame(FillJVaultStake(b, a), a) /\ FillJVaultStake(b, a).success = a.success
  BY DEF KeepsFrame, IsAction, ActionFields, SetPayload, JVaultAccounts, FillJVaultStake
<1>24. KeepsFrame(FillJVaultUnstake(b, a), a) /\ FillJVaultUnstake(b, a).success = a.success
  BY DEF KeepsFrame, IsAction, ActionFields, JVaultAccounts, FillJVaultUnstake
<1>25. KeepsFrame(FillJVaultClaim(b, a), a) /\ FillJVaultClaim(b, a).success = a.success
  BY DEF KeepsFrame, IsAction, ActionFields, SetPayload, JVaultAccounts, FillJVaultClaim
<1>26. KeepsFrame(FillMultisigCreateOrder(b, a), a) /\ FillMultisigCreateOrder(b, a).success = a.success
  BY DEF KeepsFrame, IsAction, ActionFields, SetPayload, FillMultisigCreateOrder
<1>27. KeepsFrame(FillVestingSendMessage(b, a), a) /\ FillVestingSendMessage(b, a).success = a.success
  BY DEF KeepsFrame, IsAction, ActionFields, SetPayload, FillVestingSendMessage
<1>28. KeepsFrame(FillVestingAddWhitelist(b, a), a) /\ FillVestingAddWhitelist(b, a).success = a.success
  BY DEF KeepsFrame, IsAction, ActionFields, SetPayload, FillVestingAddWhitelist
<1>29. KeepsFrame(FillUnsubscribeAction(b, a), a) /\ FillUnsubscribeAction(b, a).success = a.success
  BY DEF KeepsFrame, IsAction, ActionFields, FillUnsubscribeAction
<1>30. KeepsFrame(FillElectionAction(b, a), a) /\ FillElectionAction(b, a).success = a.success
  BY DEF KeepsFrame, IsAction, ActionFields, FillElectionAction
<1>31. KeepsFrame(FillAuctionBidAction(b, a), a) /\ FillAuctionBidAction(b, a).success = a.success
  BY DEF KeepsFrame, IsAction, ActionFields, SetPayload, FillAuctionBidAction
<1>32. KeepsFrame(a, a) /\ a.success = a.success
  BY DEF KeepsFrame
<1>. QED BY <1>1, <1>2, <1>3, <1>4, <1>5, <1>6, <1>7, <1>8, <1>9, <1>10, <1>11, <1>12, <1>13, <1>14, <1>15, <1>16, <1>17, <1>18, <1>19, <1>20, <1>21, <1>22, <1>23, <1>24, <1>25, <1>26, <1>27, <1>28, <1>29, <1>30, <1>31, <1>32, Zenon DEF FilledKeepingSuccess

\* The approval keeps the frame and takes its own success flag.
LEMMA ApproveKeepsFrame ==
    ASSUME NEW b, NEW a, IsAction(a)
    PROVE  /\ KeepsFrame(FillMultisigApprove(b, a), a)
           /\ FillMultisigApprove(b, a).success = b.data["success"]
  BY DEF KeepsFrame, IsAction, ActionFields, SetPayload, FillMultisigApprove

\* What the dispatcher keeps of the record, and the success flag it leaves.
LEMMA FillKeepsFrame ==
    ASSUME NEW b, NEW a, IsAction(a)
    PROVE  /\ KeepsFrame(Fill(b, a), a)
           /\ Fill(b, a).success =
                IF b.cls = "MultisigApproveBlock" THEN b.data["success"] ELSE a.success
<1>1. CASE b.cls = "MultisigApproveBlock"
  BY <1>1, FillIsAFiller, ApproveKeepsFrame
<1>2. CASE b.cls # "MultisigApproveBlock"
  BY <1>2, FillIsAFiller, FillersKeepFrame
<1>. QED BY <1>1, <1>2

(***************************************************************************)
(* What the fillers read.  A filler reads the block's class, payload and  *)
(* value, never its node list; and it writes the generic fields and the   *)
(* payload from those alone, never from the three lists of the record.    *)
(***************************************************************************)

\* The list fields, which the assembler rebuilds from sets.
ListFields == {"tx_hashes", "extended_tx_hashes", "accounts"}

\* Two records that agree on every field but the lists.
SameBesideLists(x1, x2) == \A f \in ActionFields \ ListFields : x1[f] = x2[f]

\* Two blocks of one class and payload get the same filler result.
LEMMA FillReadsPayload ==
    ASSUME NEW b1, NEW b2, NEW a,
           b1.cls = b2.cls, b1.data = b2.data, b1.value = b2.value
    PROVE  Fill(b1, a) = Fill(b2, a)
<1>1. FillCallContractAction(b1, a) = FillCallContractAction(b2, a)
  BY DEF FillCallContractAction
<1>2. FillTonTransferAction(b1, a) = FillTonTransferAction(b2, a)
  BY DEF SetPayload, FillTonTransferAction
<1>3. FillNominatorPoolDepositAction(b1, a) = FillNominatorPoolDepositAction(b2, a)
  BY DEF SetPayload, FillNominatorPoolDepositAction
<1>4. FillNominatorPoolWithdrawRequestAction(b1, a) = FillNominatorPoolWithdrawRequestAction(b2, a)
  BY DEF SetPayload, FillNominatorPoolWithdrawRequestAction
<1>5. FillDedustDepositLiquidityAction(b1, a) = FillDedustDepositLiquidityAction(b2, a)
  BY DEF SetPayload, FillDedustDepositLiquidityAction
<1>6. FillDedustDepositLiquidityPartialAction(b1, a) = FillDedustDepositLiquidityPartialAction(b2, a)
  BY DEF SetPayload, FillDedustDepositLiquidityPartialAction
<1>7. FillJettonTransferAction(b1, a) = FillJettonTransferAction(b2, a)
  BY DEF SetPayload, FillJettonTransferAction
<1>8. FillNftTransferAction(b1, a) = FillNftTransferAction(b2, a)
  BY DEF SetPayload, FillNftTransferAction
<1>9. FillNftDiscoveryAction(b1, a) = FillNftDiscoveryAction(b2, a)
  BY DEF SetPayload, FillNftDiscoveryAction
<1>10. FillNftMintAction(b1, a) = FillNftMintAction(b2, a)
  BY DEF SetPayload, FillNftMintAction
<1>11. FillJettonBurnAction(b1, a) = FillJettonBurnAction(b2, a)
  BY DEF FillJettonBurnAction
<1>12. FillJettonMintAction(b1, a) = FillJettonMintAction(b2, a)
  BY DEF FillJettonMintAction
<1>13. FillJettonSwapAction(b1, a) = FillJettonSwapAction(b2, a)
  BY DEF SetPayload, FillJettonSwapAction
<1>14. FillChangeDnsRecordAction(b1, a) = FillChangeDnsRecordAction(b2, a)
  BY DEF SetPayload, FillChangeDnsRecordAction
<1>15. FillDeleteDnsRecordAction(b1, a) = FillDeleteDnsRecordAction(b2, a)
  BY DEF SetPayload, FillDeleteDnsRecordAction
<1>16. FillDnsRenewAction(b1, a) = FillDnsRenewAction(b2, a)
  BY DEF FillDnsRenewAction
<1>17. FillTonstakersDepositAction(b1, a) = FillTonstakersDepositAction(b2, a)
  BY DEF SetPayload, FillTonstakersDepositAction
<1>18. FillTonstakersWithdrawRequestAction(b1, a) = FillTonstakersWithdrawRequestAction(b2, a)
  BY DEF SetPayload, FillTonstakersWithdrawRequestAction
<1>19. FillTonstakersWithdrawAction(b1, a) = FillTonstakersWithdrawAction(b2, a)
  BY DEF SetPayload, FillTonstakersWithdrawAction
<1>20. FillSubscribeAction(b1, a) = FillSubscribeAction(b2, a)
  BY DEF FillUnsubscribeAction, FillSubscribeAction
<1>21. FillDexDepositLiquidity(b1, a) = FillDexDepositLiquidity(b2, a)
  BY DEF SetPayload, FillDexDepositLiquidity
<1>22. FillDexWithdrawLiquidity(b1, a) = FillDexWithdrawLiquidity(b2, a)
  BY DEF SetPayload, FillDexWithdrawLiquidity
<1>23. FillJVaultStake(b1, a) = FillJVaultStake(b2, a)
  BY DEF SetPayload, JVaultAccounts, FillJVaultStake
<1>24. FillJVaultUnstake(b1, a) = FillJVaultUnstake(b2, a)
  BY DEF JVaultAccounts, FillJVaultUnstake
<1>25. FillJVaultClaim(b1, a) = FillJVaultClaim(b2, a)
  BY DEF SetPayload, JVaultAccounts, FillJVaultClaim
<1>26. FillMultisigCreateOrder(b1, a) = FillMultisigCreateOrder(b2, a)
  BY DEF SetPayload, FillMultisigCreateOrder
<1>27. FillVestingSendMessage(b1, a) = FillVestingSendMessage(b2, a)
  BY DEF SetPayload, FillVestingSendMessage
<1>28. FillVestingAddWhitelist(b1, a) = FillVestingAddWhitelist(b2, a)
  BY DEF SetPayload, FillVestingAddWhitelist
<1>29. FillUnsubscribeAction(b1, a) = FillUnsubscribeAction(b2, a)
  BY DEF FillUnsubscribeAction
<1>30. FillElectionAction(b1, a) = FillElectionAction(b2, a)
  BY DEF FillElectionAction
<1>31. FillAuctionBidAction(b1, a) = FillAuctionBidAction(b2, a)
  BY DEF SetPayload, FillAuctionBidAction
<1>32. FillMultisigApprove(b1, a) = FillMultisigApprove(b2, a)
  BY DEF SetPayload, FillMultisigApprove
<1>. QED BY <1>1, <1>2, <1>3, <1>4, <1>5, <1>6, <1>7, <1>8, <1>9, <1>10, <1>11, <1>12, <1>13, <1>14, <1>15, <1>16, <1>17, <1>18, <1>19, <1>20, <1>21, <1>22, <1>23, <1>24, <1>25, <1>26, <1>27, <1>28, <1>29, <1>30, <1>31, <1>32 DEF Fill

\* Records that agree beside the lists still agree after the filler.
LEMMA FillIgnoresLists ==
    ASSUME NEW b, NEW a1, NEW a2, IsAction(a1), IsAction(a2), SameBesideLists(a1, a2)
    PROVE  SameBesideLists(Fill(b, a1), Fill(b, a2))
<1>1. SameBesideLists(FillCallContractAction(b, a1), FillCallContractAction(b, a2))
  BY DEF SameBesideLists, ListFields, IsAction, ActionFields, FillCallContractAction
<1>2. SameBesideLists(FillTonTransferAction(b, a1), FillTonTransferAction(b, a2))
  BY DEF SameBesideLists, ListFields, IsAction, ActionFields, SetPayload, FillTonTransferAction
<1>3. SameBesideLists(FillNominatorPoolDepositAction(b, a1), FillNominatorPoolDepositAction(b, a2))
  BY DEF SameBesideLists, ListFields, IsAction, ActionFields, SetPayload, FillNominatorPoolDepositAction
<1>4. SameBesideLists(FillNominatorPoolWithdrawRequestAction(b, a1), FillNominatorPoolWithdrawRequestAction(b, a2))
  BY DEF SameBesideLists, ListFields, IsAction, ActionFields, SetPayload, FillNominatorPoolWithdrawRequestAction
<1>5. SameBesideLists(FillDedustDepositLiquidityAction(b, a1), FillDedustDepositLiquidityAction(b, a2))
  BY DEF SameBesideLists, ListFields, IsAction, ActionFields, SetPayload, FillDedustDepositLiquidityAction
<1>6. SameBesideLists(FillDedustDepositLiquidityPartialAction(b, a1), FillDedustDepositLiquidityPartialAction(b, a2))
  BY DEF SameBesideLists, ListFields, IsAction, ActionFields, SetPayload, FillDedustDepositLiquidityPartialAction
<1>7. SameBesideLists(FillJettonTransferAction(b, a1), FillJettonTransferAction(b, a2))
  BY DEF SameBesideLists, ListFields, IsAction, ActionFields, SetPayload, FillJettonTransferAction
<1>8. SameBesideLists(FillNftTransferAction(b, a1), FillNftTransferAction(b, a2))
  BY DEF SameBesideLists, ListFields, IsAction, ActionFields, SetPayload, FillNftTransferAction
<1>9. SameBesideLists(FillNftDiscoveryAction(b, a1), FillNftDiscoveryAction(b, a2))
  BY DEF SameBesideLists, ListFields, IsAction, ActionFields, SetPayload, FillNftDiscoveryAction
<1>10. SameBesideLists(FillNftMintAction(b, a1), FillNftMintAction(b, a2))
  BY DEF SameBesideLists, ListFields, IsAction, ActionFields, SetPayload, FillNftMintAction
<1>11. SameBesideLists(FillJettonBurnAction(b, a1), FillJettonBurnAction(b, a2))
  BY DEF SameBesideLists, ListFields, IsAction, ActionFields, FillJettonBurnAction
<1>12. SameBesideLists(FillJettonMintAction(b, a1), FillJettonMintAction(b, a2))
  BY DEF SameBesideLists, ListFields, IsAction, ActionFields, FillJettonMintAction
<1>13. SameBesideLists(FillJettonSwapAction(b, a1), FillJettonSwapAction(b, a2))
  BY DEF SameBesideLists, ListFields, IsAction, ActionFields, SetPayload, FillJettonSwapAction
<1>14. SameBesideLists(FillChangeDnsRecordAction(b, a1), FillChangeDnsRecordAction(b, a2))
  BY DEF SameBesideLists, ListFields, IsAction, ActionFields, SetPayload, FillChangeDnsRecordAction
<1>15. SameBesideLists(FillDeleteDnsRecordAction(b, a1), FillDeleteDnsRecordAction(b, a2))
  BY DEF SameBesideLists, ListFields, IsAction, ActionFields, SetPayload, FillDeleteDnsRecordAction
<1>16. SameBesideLists(FillDnsRenewAction(b, a1), FillDnsRenewAction(b, a2))
  BY DEF SameBesideLists, ListFields, IsAction, ActionFields, FillDnsRenewAction
<1>17. SameBesideLists(FillTonstakersDepositAction(b, a1), FillTonstakersDepositAction(b, a2))
  BY DEF SameBesideLists, ListFields, IsAction, ActionFields, SetPayload, FillTonstakersDepositAction
<1>18. SameBesideLists(FillTonstakersWithdrawRequestAction(b, a1), FillTonstakersWithdrawRequestAction(b, a2))
  BY DEF SameBesideLists, ListFields, IsAction, ActionFields, SetPayload, FillTonstakersWithdrawRequestAction
<1>19. SameBesideLists(FillTonstakersWithdrawAction(b, a1), FillTonstakersWithdrawAction(b, a2))
  BY DEF SameBesideLists, ListFields, IsAction, ActionFields, SetPayload, FillTonstakersWithdrawAction
<1>20. SameBesideLists(FillSubscribeAction(b, a1), FillSubscribeAction(b, a2))
  BY DEF SameBesideLists, ListFields, IsAction, ActionFields, FillUnsubscribeAction, FillSubscribeAction
<1>21. SameBesideLists(FillDexDepositLiquidity(b, a1), FillDexDepositLiquidity(b, a2))
  BY DEF SameBesideLists, ListFields, IsAction, ActionFields, SetPayload, FillDexDepositLiquidity
<1>22. SameBesideLists(FillDexWithdrawLiquidity(b, a1), FillDexWithdrawLiquidity(b, a2))
  BY DEF SameBesideLists, ListFields, IsAction, ActionFields, SetPayload, FillDexWithdrawLiquidity
<1>23. SameBesideLists(FillJVaultStake(b, a1), FillJVaultStake(b, a2))
  BY DEF SameBesideLists, ListFields, IsAction, ActionFields, SetPayload, JVaultAccounts, FillJVaultStake
<1>24. SameBesideLists(FillJVaultUnstake(b, a1), FillJVaultUnstake(b, a2))
  BY DEF SameBesideLists, ListFields, IsAction, ActionFields, JVaultAccounts, FillJVaultUnstake
<1>25. SameBesideLists(FillJVaultClaim(b, a1), FillJVaultClaim(b, a2))
  BY DEF SameBesideLists, ListFields, IsAction, ActionFields, SetPayload, JVaultAccounts, FillJVaultClaim
<1>26. SameBesideLists(FillMultisigCreateOrder(b, a1), FillMultisigCreateOrder(b, a2))
  BY DEF SameBesideLists, ListFields, IsAction, ActionFields, SetPayload, FillMultisigCreateOrder
<1>27. SameBesideLists(FillVestingSendMessage(b, a1), FillVestingSendMessage(b, a2))
  BY DEF SameBesideLists, ListFields, IsAction, ActionFields, SetPayload, FillVestingSendMessage
<1>28. SameBesideLists(FillVestingAddWhitelist(b, a1), FillVestingAddWhitelist(b, a2))
  BY DEF SameBesideLists, ListFields, IsAction, ActionFields, SetPayload, FillVestingAddWhitelist
<1>29. SameBesideLists(FillUnsubscribeAction(b, a1), FillUnsubscribeAction(b, a2))
  BY DEF SameBesideLists, ListFields, IsAction, ActionFields, FillUnsubscribeAction
<1>30. SameBesideLists(FillElectionAction(b, a1), FillElectionAction(b, a2))
  BY DEF SameBesideLists, ListFields, IsAction, ActionFields, FillElectionAction
<1>31. SameBesideLists(FillAuctionBidAction(b, a1), FillAuctionBidAction(b, a2))
  BY DEF SameBesideLists, ListFields, IsAction, ActionFields, SetPayload, FillAuctionBidAction
<1>32. SameBesideLists(FillMultisigApprove(b, a1), FillMultisigApprove(b, a2))
  BY DEF SameBesideLists, ListFields, IsAction, ActionFields, SetPayload, FillMultisigApprove
<1>. QED BY <1>1, <1>2, <1>3, <1>4, <1>5, <1>6, <1>7, <1>8, <1>9, <1>10, <1>11, <1>12, <1>13, <1>14, <1>15, <1>16, <1>17, <1>18, <1>19, <1>20, <1>21, <1>22, <1>23, <1>24, <1>25, <1>26, <1>27, <1>28, <1>29, <1>30, <1>31, <1>32 DEF Fill

(***************************************************************************)
(* block_to_action.                                                        *)
(***************************************************************************)

\* A block whose filler does not raise is converted to an action record
\* carrying the identifier _calc_action_id gives.
LEMMA ConvertedAction ==
    ASSUME NEW b, NEW t, NEW sd, ~FillFails(b)
    PROVE  IsActionWithId(BlockToAction(b, t, sd), CalcActionId(b))
<1>. DEFINE a0 == BaseBlockToAction(b, t, sd)
            a1 == Fill(b, a0)
<1>1. IsAction(a0) /\ a0.action_id = CalcActionId(b)
  BY DEF IsAction, ActionFields, BaseBlockToAction
<1>2. KeepsFrame(a1, a0)
  BY <1>1, FillKeepsFrame
<1>3. IsActionWithId(Assemble(b, a1, sd), CalcActionId(b))
  BY <1>1, <1>2 DEF Assemble, IsActionWithId, IsAction, KeepsFrame, ActionFields
<1>. QED BY <1>3 DEF BlockToAction

\* block_to_action raises exactly when a filler raises.
LEMMA FaultIffFails ==
    ASSUME NEW b, NEW t, NEW sd
    PROVE  BlockToAction(b, t, sd) = Fault <=> FillFails(b)
<1>1. CASE FillFails(b)
  BY <1>1 DEF BlockToAction
<1>2. CASE ~FillFails(b)
  <2>1. IsActionWithId(BlockToAction(b, t, sd), CalcActionId(b))
    BY <1>2, ConvertedAction
  <2>2. DOMAIN BlockToAction(b, t, sd) = ActionFields
    BY <2>1 DEF IsActionWithId, IsAction
  <2>3. DOMAIN Fault = {"raised"} /\ "raised" \notin ActionFields
    BY DEF Fault, ActionFields
  <2>. QED BY <1>2, <2>2, <2>3
<1>. QED BY <1>1, <1>2

\* The identifier of a converted action is the one _calc_action_id gives.
LEMMA ConversionId ==
    ASSUME NEW b, NEW t, NEW sd, BlockToAction(b, t, sd) # Fault
    PROVE  BlockToAction(b, t, sd).action_id = CalcActionId(b)
  BY FaultIffFails, ConvertedAction DEF IsActionWithId

\* The initiating node's hash, or "", when there is an initiating node.
InitiatingHashes(b) ==
    IF b.initiating # Null THEN {TxHashOrEmpty(b.initiating)} ELSE {}

\* What spec 4.3 and the assembler make of the lists and the flag of the
\* action a of block b, whatever the process's hash order.
ConvertedContent(b, a) ==
    /\ IsInjective(a.tx_hashes)
    /\ IsInjective(a.extended_tx_hashes)
    /\ IsInjective(a.accounts)
    /\ Range(a.tx_hashes) = {n.tx : n \in NodeSet(b)}
    /\ Range(a.extended_tx_hashes) = Range(a.tx_hashes) \cup InitiatingHashes(b)
    /\ {n.acc : n \in NodeSet(b)} \subseteq Range(a.accounts)
    /\ Null \notin Range(a.accounts)
    /\ a.success = IF b.cls = "MultisigApproveBlock" THEN b.data["success"] ELSE ~b.failed

\* Every action block_to_action returns has that content.
LEMMA ConvertedFields ==
    ASSUME NEW b, IsBlock(b), NEW t, NEW sd, IsHashOrder(sd), ~FillFails(b)
    PROVE  ConvertedContent(b, BlockToAction(b, t, sd))
<1>. DEFINE a0 == BaseBlockToAction(b, t, sd)
            a1 == Fill(b, a0)
            a  == BlockToAction(b, t, sd)
            TX == {n.tx : n \in NodeSet(b)}
            EXT == ExtendedTxHashes(b, a1)
            ACC == {x \in Range(FilledAccounts(b, a1)) : x # Null}
<1>1. sd \in Seq(Strings) /\ IsInjective(sd) /\ Range(sd) = Strings
  BY DEF IsHashOrder
<1>2. IsAction(a0)
  BY DEF IsAction, ActionFields, BaseBlockToAction
<1>3. /\ KeepsFrame(a1, a0)
      /\ a1.success = IF b.cls = "MultisigApproveBlock" THEN b.data["success"] ELSE a0.success
  BY <1>2, FillKeepsFrame
<1>4. /\ a.tx_hashes = ListOfSet(TX, sd)
      /\ a.extended_tx_hashes = ListOfSet(EXT, sd)
      /\ a.accounts = ListOfSet(ACC, sd)
      /\ a.success = IF b.cls = "MultisigApproveBlock" THEN b.data["success"] ELSE ~b.failed
  BY <1>2, <1>3, Zenon
     DEF BlockToAction, Assemble, KeepsFrame, IsAction, ActionFields, BaseBlockToAction
<1>5. b.nodes \in Seq(EventNode) /\ b.initiating \in EventNode \cup {Null}
  BY DEF IsBlock
<1>6. TX \subseteq Strings
  <2>. SUFFICES ASSUME NEW i \in DOMAIN b.nodes PROVE b.nodes[i].tx \in Strings
    BY DEF TX, NodeSet
  <2>1. b.nodes[i] \in EventNode
    BY <1>5
  <2>. QED BY <2>1 DEF EventNode, Strings
<1>7. EXT = TX \cup InitiatingHashes(b) /\ EXT \subseteq Strings
  <2>1. a1.tx_hashes = ListOfSet(TX, sd)
    BY <1>3 DEF KeepsFrame, BaseBlockToAction
  <2>2. Range(ListOfSet(TX, sd)) = TX
    <3>1. Range(ListOfSet(TX, sd)) = TX \cap Range(sd)
      BY <1>1, ListOfSetProps
    <3>. QED BY <3>1, <1>1, <1>6
  <2>3. InitiatingHashes(b) \subseteq Strings
    BY <1>5 DEF InitiatingHashes, TxHashOrEmpty, EventNode, Strings
  <2>. QED BY <2>1, <2>2, <2>3, <1>6 DEF EXT, ExtendedTxHashes, InitiatingHashes
<1>8. {n.acc : n \in NodeSet(b)} \subseteq ACC
  <2>. SUFFICES ASSUME NEW i \in DOMAIN b.nodes PROVE b.nodes[i].acc \in ACC
    BY DEF NodeSet
  <2>1. a1.accounts = [j \in DOMAIN b.nodes |-> b.nodes[j].acc]
    BY <1>3 DEF KeepsFrame, BaseBlockToAction
  <2>2. a1.accounts \in Seq(Accounts)
    <3>1. \A j \in DOMAIN b.nodes : b.nodes[j].acc \in Accounts
      <4>. SUFFICES ASSUME NEW j \in DOMAIN b.nodes PROVE b.nodes[j].acc \in Accounts
        OBVIOUS
      <4>1. b.nodes[j] \in EventNode
        BY <1>5
      <4>. QED BY <4>1 DEF EventNode
    <3>2. DOMAIN b.nodes = 1..Len(b.nodes) /\ Len(b.nodes) \in Nat
      BY <1>5
    <3>. QED BY <2>1, <3>1, <3>2
  <2>3. FilledAccounts(b, a1)[i] = b.nodes[i].acc /\ i \in DOMAIN FilledAccounts(b, a1)
    BY <1>5, <2>1, <2>2 DEF FilledAccounts
  <2>4. b.nodes[i].acc \in Accounts
    <3>1. b.nodes[i] \in EventNode
      BY <1>5
    <3>. QED BY <3>1 DEF EventNode
  <2>. QED BY <2>3, <2>4, NullAssumption DEF ACC, Range
<1>9. Accounts \subseteq Strings
  BY DEF Strings
<1>10. Range(a.tx_hashes) = TX /\ IsInjective(a.tx_hashes)
  <2>1. Range(ListOfSet(TX, sd)) = TX \cap Range(sd) /\ IsInjective(ListOfSet(TX, sd))
    BY <1>1, ListOfSetProps
  <2>. QED BY <2>1, <1>1, <1>4, <1>6
<1>11. Range(a.extended_tx_hashes) = TX \cup InitiatingHashes(b)
       /\ IsInjective(a.extended_tx_hashes)
  <2>1. Range(ListOfSet(EXT, sd)) = EXT \cap Range(sd) /\ IsInjective(ListOfSet(EXT, sd))
    BY <1>1, ListOfSetProps
  <2>. QED BY <2>1, <1>1, <1>4, <1>7
<1>12. {n.acc : n \in NodeSet(b)} \subseteq Range(a.accounts)
       /\ Null \notin Range(a.accounts) /\ IsInjective(a.accounts)
  <2>1. Range(ListOfSet(ACC, sd)) = ACC \cap Range(sd) /\ IsInjective(ListOfSet(ACC, sd))
    BY <1>1, ListOfSetProps
  <2>2. {n.acc : n \in NodeSet(b)} \subseteq Accounts
    <3>. SUFFICES ASSUME NEW i \in DOMAIN b.nodes PROVE b.nodes[i].acc \in Accounts
      BY DEF NodeSet
    <3>1. b.nodes[i] \in EventNode
      BY <1>5
    <3>. QED BY <3>1 DEF EventNode
  <2>3. Null \notin ACC
    BY DEF ACC
  <2>. QED BY <2>1, <2>2, <2>3, <1>1, <1>4, <1>8, <1>9
<1>. QED BY <1>4, <1>10, <1>11, <1>12 DEF ConvertedContent


(***************************************************************************)
(* Relisting.  Two listings of one block, converted by processes with     *)
(* different string hash orders, give actions that agree on every field   *)
(* but the order of their lists, when they get the same identifier.       *)
(***************************************************************************)

\* The elements of a concatenation are those of its parts.
LEMMA RangeConcat ==
    ASSUME NEW S, NEW s \in Seq(S), NEW u \in Seq(S)
    PROVE  Range(s \o u) = Range(s) \cup Range(u)
<1>. DEFINE c == s \o u
<1>1. /\ DOMAIN c = 1..(Len(s) + Len(u))
      /\ \A i \in 1..Len(s) : c[i] = s[i]
      /\ \A i \in 1..Len(u) : c[Len(s) + i] = u[i]
      /\ \A i \in DOMAIN c : i > Len(s) => i - Len(s) \in 1..Len(u) /\ c[i] = u[i - Len(s)]
  BY DEF c
<1>2. Range(c) \subseteq Range(s) \cup Range(u)
  <2>. SUFFICES ASSUME NEW i \in DOMAIN c PROVE c[i] \in Range(s) \cup Range(u)
    BY DEF Range
  <2>1. CASE i <= Len(s)
    BY <1>1, <2>1 DEF Range
  <2>2. CASE i > Len(s)
    BY <1>1, <2>2 DEF Range
  <2>. QED BY <1>1, <2>1, <2>2
<1>3. Range(s) \subseteq Range(c)
  BY <1>1 DEF Range
<1>4. Range(u) \subseteq Range(c)
  <2>. SUFFICES ASSUME NEW i \in 1..Len(u) PROVE u[i] \in Range(c)
    BY DEF Range
  <2>. QED BY <1>1 DEF Range
<1>. QED BY <1>2, <1>3, <1>4 DEF c

\* The addresses FilledAccounts lists: the record's own, the four generic
\* ones and the initiating node's.
LEMMA FilledAccountsRange ==
    ASSUME NEW b, NEW a, NEW A, a.accounts \in Seq(A)
    PROVE  Range(FilledAccounts(b, a)) =
             Range(a.accounts)
             \cup {a.source, a.source_secondary, a.destination, a.destination_secondary}
             \cup (IF b.initiating # Null /\ ~b.initiating.tick THEN {b.initiating.acc} ELSE {})
<1>. DEFINE U == A \cup {a.source, a.source_secondary, a.destination,
                         a.destination_secondary, b.initiating.acc}
            g == <<a.source, a.source_secondary, a.destination, a.destination_secondary>>
            h == IF b.initiating # Null /\ ~b.initiating.tick THEN <<b.initiating.acc>> ELSE <<>>
<1>1. a.accounts \in Seq(U)
  BY DEF U
<1>2. g \in Seq(U)
  BY DEF g, U
<1>3. h \in Seq(U)
  <2>1. <<b.initiating.acc>> \in Seq(U) /\ <<>> \in Seq(U)
    BY DEF U
  <2>. QED BY <2>1 DEF h
<1>0. \A s1, s2 \in Seq(U) : Range(s1 \o s2) = Range(s1) \cup Range(s2)
  BY RangeConcat
<1>4. a.accounts \o g \in Seq(U)
  BY <1>1, <1>2
<1>5. Range(a.accounts \o g) = Range(a.accounts) \cup Range(g)
  BY <1>0, <1>1, <1>2
<1>6. Range((a.accounts \o g) \o h) = Range(a.accounts \o g) \cup Range(h)
  BY <1>0, <1>3, <1>4
<1>7. /\ Range(g) = {a.source, a.source_secondary, a.destination, a.destination_secondary}
      /\ Range(h) = IF b.initiating # Null /\ ~b.initiating.tick THEN {b.initiating.acc} ELSE {}
  BY DEF g, h, Range
<1>8. FilledAccounts(b, a) = (a.accounts \o g) \o h
  BY DEF FilledAccounts, g, h
<1>. QED BY <1>5, <1>6, <1>7, <1>8

\* The addresses FilledAccounts lists, as a set.
FilledSet(b, a) ==
    {n.acc : n \in NodeSet(b)}
    \cup {a.source, a.source_secondary, a.destination, a.destination_secondary}
    \cup (IF b.initiating # Null /\ ~b.initiating.tick THEN {b.initiating.acc} ELSE {})

\* The accounts of a converted action are the filled addresses but None.
LEMMA AssembledAccounts ==
    ASSUME NEW b, IsBlock(b), NEW t, NEW sd, IsHashOrder(sd), ~FillFails(b)
    PROVE  LET a1 == Fill(b, BaseBlockToAction(b, t, sd)) IN
           Range(BlockToAction(b, t, sd).accounts) = {x \in FilledSet(b, a1) : x # Null} \cap Strings
<1>. DEFINE a0 == BaseBlockToAction(b, t, sd)
            a1 == Fill(b, a0)
            ACC == {x \in Range(FilledAccounts(b, a1)) : x # Null}
<1>1. IsAction(a0)
  BY DEF IsAction, ActionFields, BaseBlockToAction
<1>2. a1.accounts = [j \in DOMAIN b.nodes |-> b.nodes[j].acc]
  BY <1>1, FillKeepsFrame DEF KeepsFrame, BaseBlockToAction
<1>3. b.nodes \in Seq(EventNode)
  BY DEF IsBlock
<1>4. a1.accounts \in Seq(Accounts) /\ Range(a1.accounts) = {n.acc : n \in NodeSet(b)}
  <2>1. \A j \in DOMAIN b.nodes : b.nodes[j].acc \in Accounts
    <3>. SUFFICES ASSUME NEW j \in DOMAIN b.nodes PROVE b.nodes[j].acc \in Accounts
      OBVIOUS
    <3>1. b.nodes[j] \in EventNode
      BY <1>3
    <3>. QED BY <3>1 DEF EventNode
  <2>2. DOMAIN b.nodes = 1..Len(b.nodes)
    BY <1>3
  <2>3. a1.accounts \in Seq(Accounts)
    BY <1>2, <2>1, <2>2
  <2>4. Range(a1.accounts) = {n.acc : n \in NodeSet(b)}
    BY <1>2 DEF Range, NodeSet
  <2>. QED BY <2>3, <2>4
<1>5. Range(FilledAccounts(b, a1)) = FilledSet(b, a1)
  BY <1>4, FilledAccountsRange DEF FilledSet
<1>6. BlockToAction(b, t, sd).accounts = ListOfSet(ACC, sd)
  BY <1>1, FillKeepsFrame DEF BlockToAction, Assemble, KeepsFrame, IsAction, ActionFields, ACC
<1>7. Range(ListOfSet(ACC, sd)) = ACC \cap Strings
  <2>1. sd \in Seq(Strings) /\ Range(sd) = Strings
    BY DEF IsHashOrder
  <2>. QED BY <2>1, ListOfSetProps
<1>. QED BY <1>5, <1>6, <1>7 DEF ACC

\* Two blocks that differ at most in the listing of their nodes.
Relisted(b1, b2) ==
    /\ b1.cls = b2.cls /\ b1.btype = b2.btype /\ b1.data = b2.data
    /\ b1.failed = b2.failed /\ b1.value = b2.value /\ b1.initiating = b2.initiating
    /\ NodeSet(b1) = NodeSet(b2)

\* Two actions that differ at most in the order of their lists.
SameUpToOrder(r1, r2) ==
    /\ SameBesideLists(r1, r2)
    /\ Range(r1.tx_hashes) = Range(r2.tx_hashes)
    /\ Range(r1.extended_tx_hashes) = Range(r2.extended_tx_hashes)
    /\ Range(r1.accounts) = Range(r2.accounts)

\* Converting two listings of a block, under two hash orders, gives actions
\* that differ at most in list order once their identifiers agree.
LEMMA RelistedAgree ==
    ASSUME NEW b1, NEW b2, IsBlock(b1), IsBlock(b2), Relisted(b1, b2),
           CalcActionId(b1) = CalcActionId(b2), ~FillFails(b1),
           NEW t, NEW s1, NEW s2, IsHashOrder(s1), IsHashOrder(s2)
    PROVE  SameUpToOrder(BlockToAction(b1, t, s1), BlockToAction(b2, t, s2))
<1>. DEFINE A1 == BaseBlockToAction(b1, t, s1)
            A2 == BaseBlockToAction(b2, t, s2)
            F1 == Fill(b1, A1)
            F2 == Fill(b2, A2)
            r1 == BlockToAction(b1, t, s1)
            r2 == BlockToAction(b2, t, s2)
<1>1. ~FillFails(b2)
  BY DEF Relisted, FillFails, TonTransferFails, JettonTransferFails
<1>2. IsAction(A1) /\ IsAction(A2) /\ SameBesideLists(A1, A2)
  <2>1. IsAction(A1) /\ IsAction(A2)
    BY DEF A1, A2, BaseBlockToAction, IsAction, ActionFields
  <2>2. /\ A1.trace_id = A2.trace_id /\ A1.type = A2.type
        /\ A1.action_id = A2.action_id /\ A1.success = A2.success
    BY DEF A1, A2, BaseBlockToAction, Relisted
  <2>3. /\ A1.source = A2.source /\ A1.source_secondary = A2.source_secondary
        /\ A1.destination = A2.destination
        /\ A1.destination_secondary = A2.destination_secondary
        /\ A1.asset = A2.asset /\ A1.asset2 = A2.asset2
        /\ A1.asset_secondary = A2.asset_secondary /\ A1.amount = A2.amount
        /\ A1.value = A2.value /\ A1.payload = A2.payload
    BY DEF A1, A2, BaseBlockToAction
  <2>. QED BY <2>1, <2>2, <2>3, Zenon DEF SameBesideLists, ListFields, ActionFields
<1>3. SameBesideLists(F1, F2)
  <2>1. SameBesideLists(Fill(b1, A1), Fill(b1, A2))
    BY <1>2, FillIgnoresLists
  <2>2. Fill(b1, A2) = Fill(b2, A2)
    BY FillReadsPayload DEF Relisted
  <2>. QED BY <2>1, <2>2 DEF F1, F2
<1>4. KeepsFrame(F1, A1) /\ KeepsFrame(F2, A2)
  BY <1>2, FillKeepsFrame DEF F1, F2
<1>5. r1 = Assemble(b1, F1, s1) /\ r2 = Assemble(b2, F2, s2)
  BY <1>1 DEF r1, r2, F1, F2, A1, A2, BlockToAction
<1>6. SameBesideLists(r1, r2)
  <2>1. /\ \A f \in ActionFields \ ListFields : r1[f] = F1[f]
        /\ \A f \in ActionFields \ ListFields : r2[f] = F2[f]
    BY <1>4, <1>5 DEF Assemble, KeepsFrame, IsAction, ListFields
  <2>. QED BY <1>3, <2>1 DEF SameBesideLists
<1>7. ConvertedContent(b1, r1) /\ ConvertedContent(b2, r2)
  BY <1>1, ConvertedFields DEF r1, r2
<1>8. /\ Range(r1.tx_hashes) = Range(r2.tx_hashes)
      /\ Range(r1.extended_tx_hashes) = Range(r2.extended_tx_hashes)
  BY <1>7 DEF ConvertedContent, Relisted, InitiatingHashes
<1>9. Range(r1.accounts) = Range(r2.accounts)
  <2>1. Range(r1.accounts) = {x \in FilledSet(b1, F1) : x # Null} \cap Strings
    BY AssembledAccounts DEF r1, F1, A1
  <2>2. Range(r2.accounts) = {x \in FilledSet(b2, F2) : x # Null} \cap Strings
    BY <1>1, AssembledAccounts DEF r2, F2, A2
  <2>3. FilledSet(b1, F1) = FilledSet(b2, F2)
    BY <1>3 DEF FilledSet, SameBesideLists, ListFields, ActionFields, Relisted
  <2>. QED BY <2>1, <2>2, <2>3
<1>. QED BY <1>6, <1>8, <1>9 DEF SameUpToOrder

=============================================================================
