------------------------------ MODULE MCCliProfile ------------------------------
(* A small instance of CliProfile for TLC. *)
EXTENDS CliProfile, TLC

ProfileSymmetry == Permutations(Processes) \cup Permutations(Handlers) \cup Permutations(Families)
================================================================================
