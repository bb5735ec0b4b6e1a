----------------------------- MODULE Converter -----------------------------
(***************************************************************************)
(* One call of block_to_action(block, trace_id) in one worker process, for *)
(* every block of a set of inputs: the process picks its string hash order *)
(* (seed), the block arrives, and the conversion runs to completion in a   *)
(* single step (the function has no suspension point).  The properties     *)
(* compare its result with the contract of spec sections 3, 4.3 and 4.6.  *)
(***************************************************************************)
EXTENDS BlockTreeSerializer

CONSTANTS
    Blocks,     \* the input blocks
    Seeds,      \* string hash orders a worker process can have
    TraceId     \* the trace id passed in

ASSUME BlocksAssumption == \A b \in Blocks : IsBlock(b)

ASSUME SeedsAssumption == \A s \in Seeds : IsHashOrder(s)

VARIABLES blk, seed, out

vars == <<blk, seed, out>>

Init ==
    /\ blk \in Blocks
    /\ seed \in Seeds
    /\ out = Null

\* block_to_action runs once; the worker then has nothing left to do.
Convert ==
    /\ out = Null
    /\ out' = BlockToAction(blk, TraceId, seed)
    /\ UNCHANGED <<blk, seed>>

Next == Convert

Spec == Init /\ [][Next]_vars

Done == out \notin {Null, Fault}

\* blk and seed never change after Init.
TypeOK ==
    /\ seed \in Seeds
    /\ \/ out \in {Null, Fault}
       \/ /\ out.action_id = CalcActionId(blk)
          /\ out.accounts \in Seq(Accounts)
          /\ out.tx_hashes \in Seq(TxHashes \cup {Null})
          /\ out.extended_tx_hashes \in Seq(TxHashes \cup {Null, ""})
          /\ out.success \in BOOLEAN
          /\ Cardinality(DOMAIN out.payload) <= 1

(***************************************************************************)
(* Reference definitions, written from the spec rather than the code.     *)
(***************************************************************************)
InitiatorAccounts(b) ==
    IF b.initiating # Null /\ ~b.initiating.tick THEN {b.initiating.acc} ELSE {}
InitiatorHashes(b) ==
    IF b.initiating # Null THEN {TxHashOrEmpty(b.initiating)} ELSE {}

(***************************************************************************)
(* Account set hygiene and completeness (spec 4.3, 4.6, 8): the accounts   *)
(* of a converted action are duplicate-free, hold no None, and are exactly *)
(* the event nodes' accounts, the four generic addresses the filler set   *)
(* and the initiating node's account when it is not tick-tock.  Breaking  *)
(* it takes the base list, the filler and the assembler to disagree.      *)
(***************************************************************************)
AccountsExact ==
    Done =>
        /\ IsInjective(out.accounts)
        /\ Range(out.accounts) =
             ({n.acc : n \in NodeSet(blk)}
              \cup {out.source, out.source_secondary, out.destination,
                    out.destination_secondary}
              \cup InitiatorAccounts(blk)) \ {Null}

(***************************************************************************)
(* Hash superset (spec 3, 8): tx_hashes lists each node's hash once, and   *)
(* extended_tx_hashes lists those and the initiating node's hash (or "")  *)
(* once each, so tx_hashes is a subset of extended_tx_hashes.             *)
(***************************************************************************)
TxHashesExact ==
    Done =>
        /\ IsInjective(out.tx_hashes) /\ IsInjective(out.extended_tx_hashes)
        /\ Range(out.tx_hashes) = {n.tx : n \in NodeSet(blk)}
        /\ Range(out.extended_tx_hashes) = Range(out.tx_hashes) \cup InitiatorHashes(blk)

(***************************************************************************)
(* No fault escapes (spec 7): every block, however incomplete, yields an  *)
(* action.  The code prints and then dereferences a None destination of a *)
(* TON transfer, and decodes a plain jetton comment as UTF-8 unguarded.   *)
(***************************************************************************)
NoFault == out # Fault

=============================================================================
