---------------------------- MODULE IndexerStore ----------------------------
(***************************************************************************)
(* What the consumer may receive: the contract spec 3 and 4 place on the *)
(* action of a block, with the action's lists read as sets (their order   *)
(* follows the worker's hash order, see ByteIdentical).                   *)
(***************************************************************************)
EXTENDS Indexer

\* What spec 3, 4.2, 4.3, 4.4 and 4.6 require of the action of block b; a
\* multisig approval overrides the success flag with its own (spec 4.4).
SpecAdmissible(b, c) ==
    /\ UniqueRoot(b) => c.action_id = SpecActionId(b)
    /\ c.tx_hashes = {n.tx : n \in NodeSet(b)}
    /\ c.tx_hashes \subseteq c.extended_tx_hashes
    /\ {n.acc : n \in NodeSet(b)} \subseteq c.accounts
    /\ Null \notin c.accounts
    /\ c.success = IF b.cls = "MultisigApproveBlock" THEN b.data["success"] ELSE ~b.failed

(***************************************************************************)
(* Every action the consumer receives is one the contract admits for its  *)
(* block, whichever listing and process produced it: its id derives from  *)
(* the root (when unique), its hashes are exactly the nodes' hashes and   *)
(* are among the extended ones, every node's account is listed, None is   *)
(* not, and the success flag is the block's (or the approval's own).      *)
(* Breaking it takes the base converter, a filler or the assembler to     *)
(* drop or misplace a value that list(set(..)) then hides.                *)
(***************************************************************************)
WrittenAdmissible == \A r \in written : SpecAdmissible(r.block, Canon(r.action))

=============================================================================
