---- MODULE MCDdl ----
(* TLC instance of Ddl. *)
EXTENDS Ddl

Symm == Permutations(Name)
====
