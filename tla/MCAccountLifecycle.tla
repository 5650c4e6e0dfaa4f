-------------------------- MODULE MCAccountLifecycle --------------------------
(* Instances of AccountLifecycle for TLC. *)
EXTENDS AccountLifecycle, TLC

\* Selectors are random identifiers that no code orders or compares otherwise.
Symmetry == Permutations(SessionId) \cup Permutations(TokenId)
=============================================================================
