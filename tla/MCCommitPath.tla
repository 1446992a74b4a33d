---- MODULE MCCommitPath ----
(* TLC instance of CommitPath. *)
EXTENDS CommitPath, TLC

Symm == Permutations(Table)
====
