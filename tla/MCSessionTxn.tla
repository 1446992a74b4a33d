---- MODULE MCSessionTxn ----
(* TLC instance of SessionTxn. *)
EXTENDS SessionTxn, TLC

Symm == Permutations(Client) \cup Permutations(Key) \cup Permutations(Name)
====
