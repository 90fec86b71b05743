----------------------------- MODULE BlockForms -----------------------------
(***************************************************************************)
(* The forms that blocks and transactions take: the text in a message,     *)
(* the entries of a transaction, and the Merkle tree of a block.  They do  *)
(* not share state, and every behaviour is about one of them.              *)
(***************************************************************************)
EXTENDS BlockText, TxMap, Merkle

VARIABLE form    \* the one that this behaviour is about

vars == <<form, textVars, txs, nodes>>

NoText == block = <<>> /\ raw = <<>> /\ damaged = FALSE /\ got = <<>>

Init ==
    \/ form = "text" /\ TextInit /\ MapInit /\ MerkleInit
    \/ form \in {"entries", "tree"} /\ NoText /\ MapInit /\ MerkleInit

Next ==
    \/ form = "text" /\ TextNext /\ UNCHANGED <<form, txs, nodes>>
    \/ form = "entries" /\ NewTx /\ UNCHANGED <<form, textVars, nodes>>
    \/ form = "tree" /\ AddNode /\ UNCHANGED <<form, textVars, txs>>

Spec == Init /\ [][Next]_vars
=============================================================================
