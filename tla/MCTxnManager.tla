---- MODULE MCTxnManager ----
(* TLC instance of TxnManager. *)
EXTENDS TxnManager, TLC

Symm == Permutations(Key)
====
