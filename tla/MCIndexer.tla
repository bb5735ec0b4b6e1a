----------------------------- MODULE MCIndexer -----------------------------
(***************************************************************************)
(* Four blocks of one trace: a TON transfer whose message node and        *)
(* tick-tock node share the least lt (lt is per account in TON, so ties    *)
(* occur); a contract call and a nominator-pool deposit classified from    *)
(* the same two nodes; and a TON transfer without destination.  Two       *)
(* worker processes, two string hash orders, at most two deliveries of    *)
(* each block.                                                             *)
(***************************************************************************)
EXTENDS IndexerStore, TLC

CONSTANTS a1, a2, a3, t1, t2, t3, m1, m2, m3, w1, w2

MCAccounts  == {a1, a2, a3}
MCTxHashes  == {t1, t2, t3}
MCMsgHashes == {m1, m2, m3}
MCWorkers   == {w1, w2}
MCTraceId   == "trace"
MCSeeds     == {<<Null, "", t1, t2, t3, a1, a2, a3>>,
                <<a3, a2, a1, t3, t2, t1, "", Null>>}

\* list(set(S)) as the filter of the hash order by S: the same list as
\* ListOfSet, which TLC builds without ranking; the at-least-once run uses it.
MCListOfSet(S, order) == SelectSeq(order, LAMBDA x : x \in S)

\* Both forms read only the members of S the hash order holds, and they
\* agree on every such set: the substitution changes no run's behaviours.
ASSUME ListOfSetAgrees ==
    \A sd \in MCSeeds : \A S \in SUBSET Range(sd) : ListOfSet(S, sd) = MCListOfSet(S, sd)

nA == [lt |-> 1, tx |-> t1, acc |-> a1, tick |-> FALSE, msg |-> m1]
nB == [lt |-> 2, tx |-> t2, acc |-> a2, tick |-> FALSE, msg |-> m2]
nT == [lt |-> 1, tx |-> t3, acc |-> a3, tick |-> TRUE, msg |-> Null]

Id1 == AccountId(a1)
Id2 == AccountId(a2)
Amt == [value |-> 1]

Blk(cls, btype, nodes, data) ==
    [cls |-> cls, btype |-> btype, nodes |-> nodes, data |-> data,
     failed |-> FALSE, initiating |-> Null, value |-> 1]

MCBlocks ==
    {Blk("TonTransferBlock", "ton_transfer", <<nA, nT>>,
         [source |-> Id1, destination |-> Id2, comment |-> Null, encrypted |-> FALSE]),
     Blk("CallContractBlock", "call_contract", <<nA, nB>>,
         [value |-> Amt, source |-> Id1, destination |-> Id2]),
     Blk("NominatorPoolDepositBlock", "nominator_pool_deposit", <<nA, nB>>,
         [source |-> Id1, pool |-> Id2, value |-> Amt]),
     Blk("TonTransferBlock", "ton_transfer", <<nB>>,
         [source |-> Id1, destination |-> Null, comment |-> Null, encrypted |-> FALSE])}

(***************************************************************************)
(* Two TON transfers of one trace to different destinations, each rooted  *)
(* in a tick-tock node whose transaction hash is not known: the key of    *)
(* _calc_action_id is then "" followed by the btype for both.             *)
(***************************************************************************)
nE1 == [lt |-> 0, tx |-> Null, acc |-> a3, tick |-> TRUE, msg |-> Null]
nE2 == [lt |-> 0, tx |-> Null, acc |-> a2, tick |-> TRUE, msg |-> Null]

MCBlocksEmptyKey ==
    {Blk("TonTransferBlock", "ton_transfer", <<nE1, nA>>,
         [source |-> Id1, destination |-> Id2, comment |-> Null, encrypted |-> FALSE]),
     Blk("TonTransferBlock", "ton_transfer", <<nE2, nB>>,
         [source |-> Id2, destination |-> Id1, comment |-> Null, encrypted |-> FALSE])}

=============================================================================
