-------------------------- MODULE MCProtectedContent --------------------------
(* Two processes, two texts, keyrings before, during and after a rotation. *)
EXTENDS ProtectedContent, TLC

MCFirstKeyring == [active |-> "k1", keys |-> {"k1"}]
MCKeyrings ==
    {MCFirstKeyring,
     [active |-> "k2", keys |-> {"k1", "k2"}],
     [active |-> "k2", keys |-> {"k2"}]}

WriterSymmetry == Permutations(Writers) \cup Permutations(Texts)
================================================================================
