----------------------------- MODULE MCBookQueries -----------------------------
(* Two or three transactions, at most two categories and one wish. *)
EXTENDS BookQueries, TLC

BookSymmetry == Permutations(Entries) \cup Permutations(Categories)
================================================================================
