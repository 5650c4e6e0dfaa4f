---------------------------- MODULE MCMarketplace ----------------------------
(***************************************************************************)
(* Symmetry for Marketplace: rows of authorizations and people are chosen  *)
(* freely, so their names do not matter.                                   *)
(***************************************************************************)
EXTENDS Marketplace, TLC

RowSymmetry == Permutations(AuthorizationId)

NameSymmetry == RowSymmetry \cup Permutations(User)
=============================================================================
