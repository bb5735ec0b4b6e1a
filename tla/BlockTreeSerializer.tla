------------------------- MODULE BlockTreeSerializer -------------------------
(***************************************************************************)
(* The block-to-action normalizer of indexer/events/blocks/utils/          *)
(* block_tree_serializer.py, as pure operators.                            *)
(*                                                                         *)
(* Data abstraction.  An account address string is a model value of        *)
(* Accounts; an AccountId object is the record [addr |-> a] and as_str()   *)
(* maps it back to a.  An Asset is [is_ton, jetton_address], an Amount is  *)
(* [value |-> n].  A block's payload (a Python dict or a dataclass) is a   *)
(* function from key strings to values, so `"k" in block.data` is          *)
(* "k" \in DOMAIN d.  A Python string is a sequence of tokens, so string   *)
(* concatenation is \o.  A Python set turned into a list (list(set(..)))   *)
(* is ordered by the per-process string hash seed: a seed is an           *)
(* enumeration of every string value and the list is the seed filtered to *)
(* the set's members.  SHA-256 + base64 is modelled as a collision-free    *)
(* digest record.  Fault is the result of a conversion that raises; only  *)
(* the two raises the code meets on well-formed payloads are modelled:     *)
(* .as_str() on a None destination (line 148) and .decode("utf-8") of a   *)
(* plain jetton comment that is not UTF-8 (line 180).  The other unguarded *)
(* .as_str() and .value calls (lines 145, 161-163, 169, 188, ...) raise    *)
(* only on a None the classifier does not produce; the payload domains of  *)
(* the model hold no None there, so those raises are not represented.      *)
(* Timing fields (start/end lt and utime) and opaque scalars (query ids,  *)
(* opcodes, payload cells) are copied unchanged by the code and are left  *)
(* out of the action record.                                              *)
(***************************************************************************)
EXTENDS Naturals, Sequences, FiniteSets, Functions

CONSTANTS
    Null,       \* Python None
    Accounts,   \* account address strings
    TxHashes,   \* transaction hash strings
    MsgHashes   \* message hash strings

ASSUME NullAssumption == Null \notin Accounts \cup TxHashes \cup MsgHashes

\* The value block_to_action stands for when one of its calls raises.
Fault == [raised |-> TRUE]

\* Every string a list(set(...)) of this module can hold; "" is the
\* fallback hash of an initiating node without a transaction hash.
Strings == Accounts \cup TxHashes \cup {"", Null}

\* A string hash order (one per process): every string exactly once.
IsHashOrder(s) == s \in Seq(Strings) /\ IsInjective(s) /\ Range(s) = Strings

\* An event node as block_to_action reads it (see Base Converter below).
EventNode ==
    [lt : Nat, tx : TxHashes \cup {Null}, acc : Accounts, tick : BOOLEAN,
     msg : MsgHashes \cup {Null}]

\* A block: its event nodes form a list, its initiating node is optional.
IsBlock(b) ==
    /\ DOMAIN b = {"cls", "btype", "nodes", "data", "failed", "initiating", "value"}
    /\ b.nodes \in Seq(EventNode)
    /\ b.initiating \in EventNode \cup {Null}

(***************************************************************************)
(* Conversions.                                                            *)
(***************************************************************************)
AccountId(a) == [addr |-> a]
AsStr(id) == id.addr
IsAsset(x) == "is_ton" \in DOMAIN x

\* _addr: None -> None; an Asset -> its jetton master's address, None for
\* TON; an AccountId -> its string.
Addr(x) ==
    IF x = Null THEN Null
    ELSE IF IsAsset(x)
         THEN IF x.jetton_address # Null THEN AsStr(x.jetton_address) ELSE Null
         ELSE AsStr(x)

\* x.value if x is not None else None
ValueOrNull(x) == IF x = Null THEN Null ELSE x.value

\* The positions of the hash order `seed` that hold members of S.
SeedIndices(S, seed) == {i \in DOMAIN seed : seed[i] \in S}

\* How many positions of P come before position i.
SeedRank(P, i) == Cardinality({j \in P : j < i})

\* list(set(S)) in a process whose string hash order is `seed`: the members
\* of S in seed order, the k-th being the one with k - 1 members before it.
ListOfSet(S, seed) ==
    LET P == SeedIndices(S, seed) IN
    [k \in 1..Cardinality(P) |-> seed[CHOOSE i \in P : SeedRank(P, i) = k - 1]]

NUL == "\\u0000"
\* str.replace("\u0000", "")
StripNul(s) == SelectSeq(s, LAMBDA c : c # NUL)

\* A byte string is a sequence of byte tokens: "0x63" (an ASCII letter),
\* "0x00", or "0xFF" (never valid UTF-8); bytes.decode("utf-8") raises on
\* "0xFF" and maps the others to the characters "c" and NUL.
DecodableUtf8(bs) == \A i \in DOMAIN bs : bs[i] # "0xFF"
DecodeUtf8(bs) == [i \in DOMAIN bs |-> IF bs[i] = "0x00" THEN NUL ELSE "c"]
Base64(bs) == [base64 |-> bs]

(***************************************************************************)
(* Identity Deriver: _calc_action_id.                                      *)
(***************************************************************************)
\* Mutant: max() in place of min().
RootIndexMax(s) ==
    CHOOSE i \in DOMAIN s :
        \A j \in DOMAIN s : s[i].lt > s[j].lt \/ (s[i].lt = s[j].lt /\ i <= j)

\* min(block.event_nodes, key=lt): the first node of least lt.
RootIndex(s) ==
    CHOOSE i \in DOMAIN s :
        \A j \in DOMAIN s : s[i].lt < s[j].lt \/ (s[i].lt = s[j].lt /\ i <= j)

\* message.msg_hash, else get_tx_hash() or "".
RootKey(n) ==
    IF n.msg # Null THEN <<n.msg>>
    ELSE IF n.tx # Null THEN <<n.tx>> ELSE <<>>

Sha256Base64(key) == [sha256 |-> key]

\* Mutant: the btype is not appended to the key.
CalcActionIdNoType(b) == Sha256Base64(RootKey(b.nodes[RootIndex(b.nodes)]))

CalcActionId(b) ==
    Sha256Base64(RootKey(b.nodes[RootIndex(b.nodes)]) \o <<b.btype>>)

(***************************************************************************)
(* Base Converter: _base_block_to_action.  An event node is              *)
(* [lt, tx, acc, tick, msg]; tick-tock nodes have msg = Null and acc is   *)
(* tick_tock_tx.account, other nodes have acc = message.transaction.account.*)
(***************************************************************************)
\* The event nodes of a block, as a set.
NodeSet(b) == {b.nodes[i] : i \in DOMAIN b.nodes}

\* Mutant: the hash comprehension keeps only the first listed node.
BaseBlockToActionFirstHash(b, traceId, seed) ==
    [trace_id              |-> traceId,
     type                  |-> b.btype,
     action_id             |-> CalcActionId(b),
     tx_hashes             |-> <<b.nodes[1].tx>>,
     extended_tx_hashes    |-> Null,
     success               |-> ~b.failed,
     accounts              |-> [i \in DOMAIN b.nodes |-> b.nodes[i].acc],
     source                |-> Null,
     source_secondary      |-> Null,
     destination           |-> Null,
     destination_secondary |-> Null,
     asset                 |-> Null,
     asset2                |-> Null,
     asset_secondary       |-> Null,
     amount                |-> Null,
     value                 |-> Null,
     payload               |-> [k \in {} |-> Null]]

\* Mutant: a tick-tock node contributes no account (message.transaction is None).
BaseBlockToActionNoTickAccount(b, traceId, seed) ==
    [trace_id              |-> traceId,
     type                  |-> b.btype,
     action_id             |-> CalcActionId(b),
     tx_hashes             |-> ListOfSet({n.tx : n \in NodeSet(b)}, seed),
     extended_tx_hashes    |-> Null,
     success               |-> ~b.failed,
     accounts              |-> [i \in DOMAIN b.nodes |->
                                  IF b.nodes[i].tick THEN Null ELSE b.nodes[i].acc],
     source                |-> Null,
     source_secondary      |-> Null,
     destination           |-> Null,
     destination_secondary |-> Null,
     asset                 |-> Null,
     asset2                |-> Null,
     asset_secondary       |-> Null,
     amount                |-> Null,
     value                 |-> Null,
     payload               |-> [k \in {} |-> Null]]

BaseBlockToAction(b, traceId, seed) ==
    [trace_id              |-> traceId,
     type                  |-> b.btype,
     action_id             |-> CalcActionId(b),
     tx_hashes             |-> ListOfSet({n.tx : n \in NodeSet(b)}, seed),
     extended_tx_hashes    |-> Null,
     success               |-> ~b.failed,
     accounts              |-> [i \in DOMAIN b.nodes |-> b.nodes[i].acc],
     source                |-> Null,
     source_secondary      |-> Null,
     destination           |-> Null,
     destination_secondary |-> Null,
     asset                 |-> Null,
     asset2                |-> Null,
     asset_secondary       |-> Null,
     amount                |-> Null,
     value                 |-> Null,
     payload               |-> [k \in {} |-> Null]]

\* action.<name>_data = content
SetPayload(a, name, content) == [a EXCEPT !.payload = [n \in {name} |-> content]]

(***************************************************************************)
(* Variant Normalizers: one operator per _fill_* function, each the record *)
(* update it performs on the in-progress action `a` of block `b`.          *)
(***************************************************************************)
\* x.as_str() if x is not None else None
StrOrNull(x) == IF x = Null THEN Null ELSE AsStr(x)

FillCallContractAction(b, a) ==
    [a EXCEPT !.value       = b.data["value"].value,
              !.source      = StrOrNull(b.data["source"]),
              !.destination = StrOrNull(b.data["destination"])]

\* The code prints "Something very wrong" when destination is None and then
\* calls .as_str() on it regardless: TonTransferFails.
\* Mutant: the diagnostic print runs unguarded and reads the first node's message.
TonTransferFailsUnguardedPrint(b) == b.data["destination"] = Null \/ b.nodes[1].msg = Null

TonTransferFails(b) == b.data["destination"] = Null

FillTonTransferAction(b, a) ==
    LET c == b.data["comment"] IN
    SetPayload([a EXCEPT !.value       = b.value,
                         !.source      = AsStr(b.data["source"]),
                         !.destination = AsStr(b.data["destination"])],
               "ton_transfer_data",
               [content   |-> IF c # Null THEN StripNul(c) ELSE Null,
                encrypted |-> b.data["encrypted"]])

\* A plain jetton comment that is not valid UTF-8 makes .decode() raise.
JettonTransferFails(b) ==
    /\ b.data["comment"] # Null
    /\ ~b.data["encrypted_comment"]
    /\ ~DecodableUtf8(b.data["comment"])

FillJettonTransferAction(b, a) ==
    LET d     == b.data
        asset == d["asset"]
        comment == IF d["comment"] = Null THEN Null
                   ELSE IF d["encrypted_comment"] THEN Base64(d["comment"])
                   ELSE StripNul(DecodeUtf8(d["comment"]))
    IN SetPayload(
        [a EXCEPT !.source           = AsStr(d["sender"]),
                  !.source_secondary = AsStr(d["sender_wallet"]),
                  !.destination      = AsStr(d["receiver"]),
                  !.destination_secondary =
                      IF "receiver_wallet" \in DOMAIN d
                      THEN AsStr(d["receiver_wallet"]) ELSE Null,
                  !.amount = d["amount"].value,
                  !.asset  = IF asset = Null \/ asset.is_ton THEN Null
                             ELSE AsStr(asset.jetton_address)],
        "jetton_transfer_data",
        [response_destination |-> StrOrNull(d["response_address"]),
         forward_amount       |-> d["forward_amount"].value,
         comment              |-> comment,
         is_encrypted_comment |-> d["encrypted_comment"]])

FillNftTransferAction(b, a) ==
    LET d == b.data IN
    SetPayload(
        [a EXCEPT !.source = IF "prev_owner" \in DOMAIN d /\ d["prev_owner"] # Null
                             THEN AsStr(d["prev_owner"]) ELSE @,
                  !.destination     = AsStr(d["new_owner"]),
                  !.asset_secondary = AsStr(d["nft"]["address"]),
                  !.asset = IF d["nft"]["collection"] # Null
                            THEN AsStr(d["nft"]["collection"]["address"]) ELSE @],
        "nft_transfer_data",
        [is_purchase |-> d["is_purchase"],
         price |-> IF "price" \in DOMAIN d /\ d["is_purchase"]
                   THEN d["price"].value ELSE Null,
         forward_amount |-> ValueOrNull(d["forward_amount"]),
         response_destination |-> StrOrNull(d["response_destination"])])

FillNftDiscoveryAction(b, a) ==
    SetPayload([a EXCEPT !.source      = AsStr(b.data["sender"]),
                         !.destination = AsStr(b.data["nft"])],
               "nft_discovery_data",
               [collection_address |-> AsStr(b.data["result_collection"])])

FillNftMintAction(b, a) ==
    LET d == b.data IN
    SetPayload([a EXCEPT !.source = IF d["source"] # Null THEN AsStr(d["source"]) ELSE @,
                         !.destination     = AsStr(d["address"]),
                         !.asset_secondary = AsStr(d["address"]),
                         !.asset = IF d["collection"] # Null
                                   THEN AsStr(d["collection"]) ELSE @],
               "nft_mint_data", [nft_item_index |-> d["index"]])

\* One leg of a swap with every address resolved through _addr.
SwapLeg(t) ==
    [amount                    |-> t["amount"].value,
     source                    |-> Addr(t["source"]),
     source_jetton_wallet      |-> Addr(t["source_jetton_wallet"]),
     destination               |-> Addr(t["destination"]),
     destination_jetton_wallet |-> Addr(t["destination_jetton_wallet"]),
     asset                     |-> Addr(t["asset"])]

\* Present and not None.
Given(d, k) == k \in DOMAIN d /\ d[k] # Null

\* asset/asset2 default to the legs' assets; stonfi_v2 replaces both by
\* source_asset/destination_asset; a given destination_asset (or
\* destination_wallet) replaces the leg's value last.
FillJettonSwapAction(b, a) ==
    LET d   == b.data
        in  == SwapLeg(d["dex_incoming_transfer"])
        out == SwapLeg(d["dex_outgoing_transfer"])
        stonfi == d["dex"] = "stonfi_v2"
    IN SetPayload(
        [a EXCEPT
            !.asset  = IF stonfi THEN Addr(d["source_asset"]) ELSE in.asset,
            !.asset2 = IF Given(d, "destination_asset") \/ stonfi
                       THEN Addr(d["destination_asset"]) ELSE out.asset,
            !.source                = in.source,
            !.source_secondary      = in.source_jetton_wallet,
            !.destination           = out.destination,
            !.destination_secondary = IF Given(d, "destination_wallet")
                                      THEN Addr(d["destination_wallet"])
                                      ELSE out.destination_jetton_wallet],
        "jetton_swap_data",
        [dex |-> d["dex"], sender |-> Addr(d["sender"]),
         dex_incoming_transfer |-> in, dex_outgoing_transfer |-> out])

FillDexDepositLiquidity(b, a) ==
    LET d == b.data IN
    SetPayload([a EXCEPT !.source      = Addr(d["sender"]),
                         !.destination = Addr(d["pool"])],
               "dex_deposit_liquidity_data",
               [dex |-> d["dex"],
                amount1 |-> ValueOrNull(d["amount_1"]),
                amount2 |-> ValueOrNull(d["amount_2"]),
                asset1 |-> Addr(d["asset_1"]), asset2 |-> Addr(d["asset_2"]),
                user_jetton_wallet_1 |-> Addr(d["sender_wallet_1"]),
                user_jetton_wallet_2 |-> Addr(d["sender_wallet_2"]),
                lp_tokens_minted |-> ValueOrNull(d["lp_tokens_minted"])])

FillDexWithdrawLiquidity(b, a) ==
    LET d == b.data IN
    SetPayload([a EXCEPT !.source           = Addr(d["sender"]),
                         !.source_secondary = Addr(d["sender_wallet"]),
                         !.destination      = Addr(d["pool"]),
                         !.asset            = Addr(d["asset"])],
               "dex_withdraw_liquidity_data",
               [dex |-> d["dex"],
                amount_1 |-> ValueOrNull(d["amount1_out"]),
                amount_2 |-> ValueOrNull(d["amount2_out"]),
                asset_out_1 |-> Addr(d["asset1_out"]),
                asset_out_2 |-> Addr(d["asset2_out"]),
                user_jetton_wallet_1 |-> Addr(d["wallet1"]),
                user_jetton_wallet_2 |-> Addr(d["wallet2"]),
                is_refund |-> d["is_refund"],
                lp_tokens_burnt |-> ValueOrNull(d["lp_tokens_burnt"])])

\* The three jVault fillers share their account fields.
JVaultAccounts(b, a) ==
    [a EXCEPT !.source           = Addr(b.data["sender"]),
              !.source_secondary = Addr(b.data["stake_wallet"]),
              !.destination      = Addr(b.data["staking_pool"])]

FillJVaultStake(b, a) ==
    SetPayload([JVaultAccounts(b, a) EXCEPT !.amount = b.data["staked_amount"]],
               "jvault_stake_data", [period |-> b.data["period"]])

FillJVaultUnstake(b, a) ==
    [JVaultAccounts(b, a) EXCEPT !.amount = b.data["unstaked_amount"]]

FillJVaultClaim(b, a) ==
    LET cj == b.data["claimed_jettons"] IN
    SetPayload(JVaultAccounts(b, a), "jvault_claim_data",
               [claimed_jettons |-> [i \in DOMAIN cj |-> Addr(cj[i])]])

FillMultisigCreateOrder(b, a) ==
    SetPayload([a EXCEPT !.source                = Addr(b.data["created_by"]),
                         !.destination           = Addr(b.data["multisig"]),
                         !.destination_secondary = Addr(b.data["order_contract_address"])],
               "multisig_create_order_data",
               [is_created_by_signer |-> b.data["is_created_by_signer"]])

\* The approval's own success flag replaces `not block.failed`.
FillMultisigApprove(b, a) ==
    SetPayload([a EXCEPT !.source      = Addr(b.data["signer"]),
                         !.destination = Addr(b.data["order"]),
                         !.success     = b.data["success"]],
               "multisig_approve_data", [exit_code |-> b.data["exit_code"]])

FillVestingSendMessage(b, a) ==
    SetPayload([a EXCEPT !.source                = Addr(b.data["sender"]),
                         !.destination           = Addr(b.data["vesting"]),
                         !.destination_secondary = Addr(b.data["message_destination"]),
                         !.amount                = b.data["message_value"].value],
               "vesting_send_message_data", [query_id |-> b.data["query_id"]])

FillVestingAddWhitelist(b, a) ==
    LET added == b.data["accounts_added"] IN
    SetPayload([a EXCEPT !.source      = Addr(b.data["adder"]),
                         !.destination = Addr(b.data["vesting"])],
               "vesting_add_whitelist_data",
               [accounts_added |-> [i \in DOMAIN added |-> Addr(added[i])]])

FillJettonBurnAction(b, a) ==
    [a EXCEPT !.source           = AsStr(b.data["owner"]),
              !.source_secondary = AsStr(b.data["jetton_wallet"]),
              !.asset            = AsStr(b.data["asset"].jetton_address),
              !.amount           = b.data["amount"].value]

\* bytes.hex()
Hex(bs) == [hex |-> bs]

\* The record written for a DNS value: its schema, flags and address, and
\* the text of a DNSText record.
DnsRecordData(v) ==
    [value_schema |-> v["schema"],
     flags   |-> IF v["schema"] \in {"DNSAdnlAddress", "DNSSmcAddress"}
                 THEN v["flags"] ELSE Null,
     address |-> CASE v["schema"] \in {"DNSNextResolver", "DNSSmcAddress"}
                          -> AsStr(v["address"])
                   [] v["schema"] = "DNSAdnlAddress" -> Hex(v["address"])
                   [] OTHER -> Null,
     dns_text |-> IF v["schema"] = "DNSText" THEN v["dns_text"] ELSE Null]

FillChangeDnsRecordAction(b, a) ==
    SetPayload([a EXCEPT !.source      = StrOrNull(b.data["source"]),
                         !.destination = AsStr(b.data["destination"])],
               "change_dns_record_data", DnsRecordData(b.data["value"]))

FillDeleteDnsRecordAction(b, a) ==
    SetPayload([a EXCEPT !.source      = StrOrNull(b.data["source"]),
                         !.destination = AsStr(b.data["destination"])],
               "change_dns_record_data",
               [value_schema |-> Null, flags |-> Null, address |-> Null])

FillTonstakersDepositAction(b, a) ==
    SetPayload([a EXCEPT !.type        = "stake_deposit",
                         !.source      = Addr(b.data["source"]),
                         !.destination = Addr(b.data["pool"]),
                         !.amount      = b.data["value"].value],
               "staking_data", [provider |-> "tonstakers"])

FillDnsRenewAction(b, a) ==
    [a EXCEPT !.source      = Addr(b.data["source"]),
              !.destination = Addr(b.data["destination"])]

FillTonstakersWithdrawRequestAction(b, a) ==
    SetPayload([a EXCEPT !.source           = Addr(b.data["source"]),
                         !.source_secondary = Addr(b.data["tsTON_wallet"]),
                         !.destination      = Addr(b.data["pool"]),
                         !.amount           = b.data["tokens_burnt"].value,
                         !.type             = "stake_withdrawal_request"],
               "staking_data",
               [provider |-> "tonstakers", ts_nft |-> Addr(b.data["minted_nft"])])

FillTonstakersWithdrawAction(b, a) ==
    SetPayload([a EXCEPT !.source      = Addr(b.data["stake_holder"]),
                         !.destination = Addr(b.data["pool"]),
                         !.amount      = b.data["amount"].value,
                         !.type        = "stake_withdrawal"],
               "staking_data",
               [provider |-> "tonstakers", ts_nft |-> Addr(b.data["burnt_nft"])])

FillUnsubscribeAction(b, a) ==
    [a EXCEPT !.source                = AsStr(b.data["subscriber"]),
              !.destination           = StrOrNull(b.data["beneficiary"]),
              !.destination_secondary = AsStr(b.data["subscription"])]

FillSubscribeAction(b, a) ==
    [FillUnsubscribeAction(b, a) EXCEPT !.amount = b.data["amount"].value]

\* Shared by ElectionDepositStakeBlock and ElectionRecoverStakeBlock.
FillElectionAction(b, a) ==
    [a EXCEPT !.source = AsStr(b.data["stake_holder"]),
              !.amount = IF "amount" \in DOMAIN b.data
                         THEN b.data["amount"].value ELSE Null]

FillAuctionBidAction(b, a) ==
    SetPayload([a EXCEPT !.source          = AsStr(b.data["bidder"]),
                         !.destination     = AsStr(b.data["auction"]),
                         !.asset_secondary = AsStr(b.data["nft_address"]),
                         !.asset           = Addr(b.data["nft_collection"]),
                         !.value           = b.data["amount"].value],
               "nft_transfer_data", [nft_item_index |-> b.data["nft_item_index"]])

\* The DeDust deposit payload; the partial deposit has no minted amount yet.
DedustDepositData(d, minted) ==
    [dex |-> d["dex"],
     asset1 |-> Addr(d["asset_1"].jetton_address), amount1 |-> d["amount_1"].value,
     asset2 |-> Addr(d["asset_2"].jetton_address), amount2 |-> d["amount_2"].value,
     user_jetton_wallet_1 |-> Addr(d["user_jetton_wallet_1"]),
     user_jetton_wallet_2 |-> Addr(d["user_jetton_wallet_2"]),
     lp_tokens_minted |-> minted]

FillDedustDepositLiquidityAction(b, a) ==
    SetPayload([a EXCEPT !.type                  = "dex_deposit_liquidity",
                         !.source                = Addr(b.data["sender"]),
                         !.destination           = Addr(b.data["pool_address"]),
                         !.destination_secondary = Addr(b.data["deposit_contract"])],
               "dex_deposit_liquidity_data",
               DedustDepositData(b.data, b.data["lp_tokens_minted"].value))

FillDedustDepositLiquidityPartialAction(b, a) ==
    SetPayload([a EXCEPT !.type                  = "dex_deposit_liquidity",
                         !.source                = Addr(b.data["sender"]),
                         !.destination_secondary = Addr(b.data["deposit_contract"])],
               "dex_deposit_liquidity_data", DedustDepositData(b.data, Null))

FillJettonMintAction(b, a) ==
    [a EXCEPT !.destination           = Addr(b.data["to"]),
              !.destination_secondary = Addr(b.data["to_jetton_wallet"]),
              !.asset                 = Addr(b.data["asset"].jetton_address),
              !.amount                = ValueOrNull(b.data["amount"]),
              !.value                 = ValueOrNull(b.data["ton_amount"])]

FillNominatorPoolDepositAction(b, a) ==
    SetPayload([a EXCEPT !.type        = "stake_deposit",
                         !.source      = AsStr(b.data["source"]),
                         !.destination = AsStr(b.data["pool"]),
                         !.amount      = b.data["value"].value],
               "staking_data", [provider |-> "nominator"])

\* No realized payout: a withdrawal request; a payout: a completed
\* withdrawal of that amount.
FillNominatorPoolWithdrawRequestAction(b, a) ==
    LET payout == b.data["payout_amount"] IN
    SetPayload([a EXCEPT !.type   = IF payout = Null THEN "stake_withdrawal_request"
                                    ELSE "stake_withdrawal",
                         !.amount = IF payout = Null THEN @ ELSE payout.value,
                         !.source      = AsStr(b.data["source"]),
                         !.destination = AsStr(b.data["pool"])],
               "staking_data", [provider |-> "nominator"])

(***************************************************************************)
(* Dispatcher: the match statement of block_to_action, by block class.     *)
(* Any other class keeps the base fields (logger.warning only).            *)
(***************************************************************************)
KnownClasses ==
    {"CallContractBlock", "ContractDeployBlock", "TonTransferBlock",
     "NominatorPoolDepositBlock", "NominatorPoolWithdrawRequestBlock",
     "DedustDepositLiquidityBlock", "DedustDepositLiquidityPartialBlock",
     "JettonTransferBlock", "NftTransferBlock", "NftDiscoveryBlock",
     "NftMintBlock", "JettonBurnBlock", "JettonMintBlock", "JettonSwapBlock",
     "DnsChangeRecordBlock", "DnsDeleteRecordBlock", "DnsRenewBlock",
     "TONStakersDepositBlock", "TONStakersWithdrawRequestBlock",
     "TONStakersWithdrawBlock", "SubscribeBlock", "DexDepositLiquidityBlock",
     "DexWithdrawLiquidityBlock", "JVaultStakeBlock", "JVaultUnstakeBlock",
     "JVaultClaimBlock", "MultisigCreateOrderBlock", "MultisigApproveBlock",
     "VestingSendMessageBlock", "VestingAddWhiteListBlock", "UnsubscribeBlock",
     "ElectionDepositStakeBlock", "ElectionRecoverStakeBlock", "AuctionBidBlock"}

Fill(b, a) ==
    CASE b.cls \in {"CallContractBlock", "ContractDeployBlock"}
                                  -> FillCallContractAction(b, a)
      [] b.cls = "TonTransferBlock" -> FillTonTransferAction(b, a)
      [] b.cls = "NominatorPoolDepositBlock" -> FillNominatorPoolDepositAction(b, a)
      [] b.cls = "NominatorPoolWithdrawRequestBlock"
                                  -> FillNominatorPoolWithdrawRequestAction(b, a)
      [] b.cls = "DedustDepositLiquidityBlock"
                                  -> FillDedustDepositLiquidityAction(b, a)
      [] b.cls = "DedustDepositLiquidityPartialBlock"
                                  -> FillDedustDepositLiquidityPartialAction(b, a)
      [] b.cls = "JettonTransferBlock" -> FillJettonTransferAction(b, a)
      [] b.cls = "NftTransferBlock"  -> FillNftTransferAction(b, a)
      [] b.cls = "NftDiscoveryBlock" -> FillNftDiscoveryAction(b, a)
      [] b.cls = "NftMintBlock"      -> FillNftMintAction(b, a)
      [] b.cls = "JettonBurnBlock"   -> FillJettonBurnAction(b, a)
      [] b.cls = "JettonMintBlock"   -> FillJettonMintAction(b, a)
      [] b.cls = "JettonSwapBlock"   -> FillJettonSwapAction(b, a)
      [] b.cls = "DnsChangeRecordBlock" -> FillChangeDnsRecordAction(b, a)
      [] b.cls = "DnsDeleteRecordBlock" -> FillDeleteDnsRecordAction(b, a)
      [] b.cls = "DnsRenewBlock"     -> FillDnsRenewAction(b, a)
      [] b.cls = "TONStakersDepositBlock" -> FillTonstakersDepositAction(b, a)
      [] b.cls = "TONStakersWithdrawRequestBlock"
                                  -> FillTonstakersWithdrawRequestAction(b, a)
      [] b.cls = "TONStakersWithdrawBlock" -> FillTonstakersWithdrawAction(b, a)
      [] b.cls = "SubscribeBlock"    -> FillSubscribeAction(b, a)
      [] b.cls = "DexDepositLiquidityBlock" -> FillDexDepositLiquidity(b, a)
      [] b.cls = "DexWithdrawLiquidityBlock" -> FillDexWithdrawLiquidity(b, a)
      [] b.cls = "JVaultStakeBlock"  -> FillJVaultStake(b, a)
      [] b.cls = "JVaultUnstakeBlock" -> FillJVaultUnstake(b, a)
      [] b.cls = "JVaultClaimBlock"  -> FillJVaultClaim(b, a)
      [] b.cls = "MultisigCreateOrderBlock" -> FillMultisigCreateOrder(b, a)
      [] b.cls = "MultisigApproveBlock" -> FillMultisigApprove(b, a)
      [] b.cls = "VestingSendMessageBlock" -> FillVestingSendMessage(b, a)
      [] b.cls = "VestingAddWhiteListBlock" -> FillVestingAddWhitelist(b, a)
      [] b.cls = "UnsubscribeBlock"  -> FillUnsubscribeAction(b, a)
      [] b.cls \in {"ElectionDepositStakeBlock", "ElectionRecoverStakeBlock"}
                                  -> FillElectionAction(b, a)
      [] b.cls = "AuctionBidBlock"   -> FillAuctionBidAction(b, a)
      [] OTHER                       -> a

\* A call inside the selected filler raises.
FillFails(b) ==
    \/ b.cls = "TonTransferBlock" /\ TonTransferFails(b)
    \/ b.cls = "JettonTransferBlock" /\ JettonTransferFails(b)

(***************************************************************************)
(* Assembler: the rest of block_to_action.  The four generic addresses and *)
(* the initiating node's account (when that node is not tick-tock) join    *)
(* the accounts; the initiating node's hash (or "") joins the hashes; both *)
(* lists are rebuilt from sets, Nones dropped from the accounts.           *)
(***************************************************************************)
TxHashOrEmpty(n) == IF n.tx # Null THEN n.tx ELSE ""

\* Mutant: destination_secondary is not appended.
FilledAccountsNoDestSecondary(b, a) ==
    a.accounts \o <<a.source, a.source_secondary, a.destination>>
    \o (IF b.initiating # Null /\ ~b.initiating.tick
        THEN <<b.initiating.acc>> ELSE <<>>)

FilledAccounts(b, a) ==
    a.accounts \o <<a.source, a.source_secondary, a.destination,
                    a.destination_secondary>>
    \o (IF b.initiating # Null /\ ~b.initiating.tick
        THEN <<b.initiating.acc>> ELSE <<>>)

\* Mutant: the initiating hash is added without the `or ""` fallback.
ExtendedTxHashesNoFallback(b, a) ==
    Range(a.tx_hashes) \cup (IF b.initiating # Null THEN {b.initiating.tx} ELSE {})

ExtendedTxHashes(b, a) ==
    Range(a.tx_hashes)
    \cup (IF b.initiating # Null THEN {TxHashOrEmpty(b.initiating)} ELSE {})

\* Mutant: None is not filtered out of the accounts.
AssembleKeepsNone(b, a, seed) ==
    [a EXCEPT !.extended_tx_hashes = ListOfSet(ExtendedTxHashes(b, a), seed),
              !.accounts = ListOfSet(Range(FilledAccounts(b, a)), seed)]

Assemble(b, a, seed) ==
    [a EXCEPT !.extended_tx_hashes = ListOfSet(ExtendedTxHashes(b, a), seed),
              !.accounts = ListOfSet({x \in Range(FilledAccounts(b, a)) : x # Null}, seed)]

BlockToAction(b, traceId, seed) ==
    IF FillFails(b) THEN Fault
    ELSE Assemble(b, Fill(b, BaseBlockToAction(b, traceId, seed)), seed)

=============================================================================
