---------------------------- MODULE MCMediaLibrary ----------------------------
(***************************************************************************)
(* MediaLibrary on two photographs.  No symmetry: the run checks liveness.  *)
(***************************************************************************)
EXTENDS MediaLibrary
=============================================================================
