---------------------------- MODULE MCConverter ----------------------------
(***************************************************************************)
(* Inputs for Converter: for every block class the code dispatches on,     *)
(* every payload over a small value domain, on a few event-node shapes     *)
(* and initiating nodes; plus one block of a class the code does not know. *)
(***************************************************************************)
EXTENDS Converter, TLC

CONSTANTS a1, a2, a3, j1, t1, t2, m1, m2, Absent

MCAccounts  == {a1, a2, a3, j1}
MCTxHashes  == {t1, t2}
MCMsgHashes == {m1, m2}
MCTraceId   == "trace"

\* One string hash order (the order does not matter to these properties;
\* MCIndexer varies it).
MCSeeds == {<<Null, "", t1, t2, a1, a2, a3, j1>>}

(***************************************************************************)
(* Event nodes: two message nodes of the block, a tick-tock node whose     *)
(* transaction hash is unknown, and an initiating node outside the block.  *)
(***************************************************************************)
nA == [lt |-> 1, tx |-> t1, acc |-> a1, tick |-> FALSE, msg |-> m1]
nB == [lt |-> 2, tx |-> t2, acc |-> a2, tick |-> FALSE, msg |-> m2]
nTick == [lt |-> 1, tx |-> Null, acc |-> a2, tick |-> TRUE, msg |-> Null]
nOut == [lt |-> 0, tx |-> t2, acc |-> a3, tick |-> FALSE, msg |-> m2]
nOutTick == [lt |-> 0, tx |-> Null, acc |-> a3, tick |-> TRUE, msg |-> Null]

Shapes ==
    {[nodes |-> <<nA>>,          initiating |-> Null],
     [nodes |-> <<nA, nB>>,      initiating |-> nOut],
     [nodes |-> <<nTick, nA>>,   initiating |-> nOutTick],
     [nodes |-> <<nB>>,          initiating |-> nA]}

(***************************************************************************)
(* Payload value domains, by kind.                                         *)
(***************************************************************************)
Id1 == AccountId(a1)
Id2 == AccountId(a2)
TON == [is_ton |-> TRUE, jetton_address |-> Null]
JET == [is_ton |-> FALSE, jetton_address |-> AccountId(j1)]
Amt == [value |-> 1]

Vals(kind) ==
    CASE kind = "id"     -> {Id1, Id2}
      [] kind = "id1"    -> {Id1}
      [] kind = "id?"    -> {Id2, Null}
      [] kind = "id+"    -> {Id2, Absent}          \* optional key, never None
      [] kind = "id?+"   -> {Id2, Null, Absent}
      [] kind = "asset"  -> {TON, JET}
      [] kind = "asset?" -> {JET, Null}
      [] kind = "asset?+"-> {TON, JET, Null, Absent}
      [] kind = "jetton" -> {JET}
      [] kind = "amt"    -> {Amt}
      [] kind = "amt?"   -> {Amt, Null}
      [] kind = "amt+"   -> {Amt, Absent}
      [] kind = "bool"   -> BOOLEAN
      [] kind = "n"      -> {0}
      [] kind = "text"   -> {Null, <<"c", NUL>>}
      [] kind = "bytes"  -> {Null, <<"0x63", "0x00">>, <<"0xFF">>}
      [] kind = "dex"    -> {"stonfi_v2", "dedust"}
      [] kind = "nft"    -> {[address |-> Id2, collection |-> c, index |-> 0] :
                              c \in {Null, [address |-> AccountId(j1)]}}
      [] kind = "leg"    -> {[amount |-> Amt, source |-> Id1,
                              source_jetton_wallet |-> Id2, destination |-> Id1,
                              destination_jetton_wallet |-> w, asset |-> x] :
                              w \in {Id2, Null}, x \in {TON, JET}}
      [] kind = "dns"    -> {[schema |-> s, address |-> IF s = "DNSAdnlAddress"
                                                        THEN [adnl |-> "0x63"] ELSE Id2,
                              flags |-> 0, dns_text |-> "t"] :
                              s \in {"DNSNextResolver", "DNSSmcAddress",
                                     "DNSAdnlAddress", "DNSText"}}
      [] kind = "ids"    -> {<<Id2, Null>>}

\* Each class: its btype and the kind of every payload key the code reads.
Schema ==
  [CallContractBlock |-> [value |-> "amt", source |-> "id?", destination |-> "id?"],
   ContractDeployBlock |-> [value |-> "amt", source |-> "id?", destination |-> "id?"],
   TonTransferBlock |-> [source |-> "id1", destination |-> "id?", comment |-> "text",
                         encrypted |-> "bool"],
   JettonTransferBlock |-> [sender |-> "id1", sender_wallet |-> "id", receiver |-> "id",
                            receiver_wallet |-> "id+", amount |-> "amt", asset |-> "asset?",
                            comment |-> "bytes", encrypted_comment |-> "bool",
                            response_address |-> "id?", forward_amount |-> "amt"],
   NftTransferBlock |-> [prev_owner |-> "id?+", new_owner |-> "id", nft |-> "nft",
                         is_purchase |-> "bool", price |-> "amt+", forward_amount |-> "amt?",
                         response_destination |-> "id?"],
   NftDiscoveryBlock |-> [sender |-> "id", nft |-> "id1", result_collection |-> "id1"],
   NftMintBlock |-> [source |-> "id?", address |-> "id", collection |-> "id?",
                     opcode |-> "n", index |-> "n"],
   JettonSwapBlock |-> [dex_incoming_transfer |-> "leg", dex_outgoing_transfer |-> "leg",
                        dex |-> "dex", source_asset |-> "asset?+",
                        destination_asset |-> "asset?+", destination_wallet |-> "id?+",
                        sender |-> "id1"],
   DexDepositLiquidityBlock |-> [sender |-> "id", pool |-> "id1", amount_1 |-> "amt?",
                                 amount_2 |-> "amt", asset_1 |-> "asset", asset_2 |-> "jetton",
                                 sender_wallet_1 |-> "id?", sender_wallet_2 |-> "id1",
                                 lp_tokens_minted |-> "amt?", dex |-> "dex"],
   DexWithdrawLiquidityBlock |-> [sender |-> "id", sender_wallet |-> "id?", pool |-> "id1",
                                  asset |-> "jetton", amount1_out |-> "amt?",
                                  amount2_out |-> "amt", asset1_out |-> "asset",
                                  asset2_out |-> "jetton", wallet1 |-> "id?", wallet2 |-> "id1",
                                  is_refund |-> "bool", lp_tokens_burnt |-> "amt?",
                                  dex |-> "dex"],
   JVaultStakeBlock |-> [sender |-> "id", stake_wallet |-> "id?", staking_pool |-> "id1",
                         staked_amount |-> "n", period |-> "n"],
   JVaultUnstakeBlock |-> [sender |-> "id", stake_wallet |-> "id?", staking_pool |-> "id1",
                           unstaked_amount |-> "n"],
   JVaultClaimBlock |-> [sender |-> "id", stake_wallet |-> "id?", staking_pool |-> "id1",
                         claimed_jettons |-> "ids"],
   MultisigCreateOrderBlock |-> [created_by |-> "id", multisig |-> "id1",
                                 order_contract_address |-> "id?",
                                 is_created_by_signer |-> "bool"],
   MultisigApproveBlock |-> [signer |-> "id", order |-> "id1", success |-> "bool",
                             exit_code |-> "n"],
   VestingSendMessageBlock |-> [sender |-> "id", vesting |-> "id1",
                                message_destination |-> "id?", message_value |-> "amt",
                                query_id |-> "n"],
   VestingAddWhiteListBlock |-> [adder |-> "id", vesting |-> "id1", accounts_added |-> "ids"],
   JettonBurnBlock |-> [owner |-> "id", jetton_wallet |-> "id", asset |-> "jetton",
                        amount |-> "amt"],
   JettonMintBlock |-> [to |-> "id", to_jetton_wallet |-> "id?", asset |-> "asset",
                        amount |-> "amt?", ton_amount |-> "amt?"],
   DnsChangeRecordBlock |-> [source |-> "id?", destination |-> "id1", value |-> "dns"],
   DnsDeleteRecordBlock |-> [source |-> "id?", destination |-> "id1"],
   DnsRenewBlock |-> [source |-> "id?", destination |-> "id1"],
   TONStakersDepositBlock |-> [source |-> "id", pool |-> "id1", value |-> "amt"],
   TONStakersWithdrawRequestBlock |-> [source |-> "id", tsTON_wallet |-> "id?",
                                       pool |-> "id1", tokens_burnt |-> "amt",
                                       minted_nft |-> "id?"],
   TONStakersWithdrawBlock |-> [stake_holder |-> "id", pool |-> "id1", amount |-> "amt",
                                burnt_nft |-> "id?"],
   SubscribeBlock |-> [subscriber |-> "id", beneficiary |-> "id?", subscription |-> "id1",
                       amount |-> "amt"],
   UnsubscribeBlock |-> [subscriber |-> "id", beneficiary |-> "id?", subscription |-> "id1"],
   ElectionDepositStakeBlock |-> [stake_holder |-> "id", amount |-> "amt+"],
   ElectionRecoverStakeBlock |-> [stake_holder |-> "id", amount |-> "amt+"],
   AuctionBidBlock |-> [bidder |-> "id", auction |-> "id1", nft_address |-> "id1",
                        nft_collection |-> "id?", nft_item_index |-> "n", amount |-> "amt"],
   DedustDepositLiquidityBlock |-> [sender |-> "id", pool_address |-> "id1",
                                    deposit_contract |-> "id?", asset_1 |-> "asset",
                                    amount_1 |-> "amt", asset_2 |-> "jetton", amount_2 |-> "amt",
                                    user_jetton_wallet_1 |-> "id?",
                                    user_jetton_wallet_2 |-> "id1",
                                    lp_tokens_minted |-> "amt", dex |-> "dex"],
   DedustDepositLiquidityPartialBlock |-> [sender |-> "id", deposit_contract |-> "id?",
                                           asset_1 |-> "asset", amount_1 |-> "amt",
                                           asset_2 |-> "jetton", amount_2 |-> "amt",
                                           user_jetton_wallet_1 |-> "id?",
                                           user_jetton_wallet_2 |-> "id1", dex |-> "dex"],
   NominatorPoolDepositBlock |-> [source |-> "id", pool |-> "id1", value |-> "amt"],
   NominatorPoolWithdrawRequestBlock |-> [source |-> "id", pool |-> "id1",
                                          payout_amount |-> "amt?"],
   UnknownBlock |-> [source |-> "id"]]

\* Every dict with one value of its kind per key.
RECURSIVE Dicts(_)
Dicts(sch) ==
    IF DOMAIN sch = {} THEN {[k \in {} |-> 0]}
    ELSE LET k    == CHOOSE k \in DOMAIN sch : TRUE
             rest == [x \in DOMAIN sch \ {k} |-> sch[x]]
         IN {[x \in DOMAIN r \cup {k} |-> IF x = k THEN v ELSE r[x]] :
               r \in Dicts(rest), v \in Vals(sch[k])}

\* Keys generated as Absent are missing from the dict.
Strip(d) == [k \in {x \in DOMAIN d : d[x] # Absent} |-> d[k]]

\* The upstream classifier gives stonfi_v2 swaps both explicit assets.
WellFormed(cls, d) ==
    cls = "JettonSwapBlock" /\ d["dex"] = "stonfi_v2"
        => Given(d, "source_asset") /\ Given(d, "destination_asset")

\* The btype tag is abstracted to the class name.
MCBlocks ==
    UNION {{b \in {[cls |-> cls, btype |-> cls, nodes |-> sh.nodes, data |-> d,
                    failed |-> f, initiating |-> sh.initiating, value |-> 1] :
                    d \in {Strip(x) : x \in Dicts(Schema[cls])}, sh \in Shapes,
                    f \in BOOLEAN} :
               WellFormed(b.cls, b.data)} : cls \in DOMAIN Schema}

=============================================================================
