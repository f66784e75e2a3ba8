----------------------------- MODULE MCTilingWM -----------------------------
(* TilingWM on small instances: tile ids are interchangeable. *)
EXTENDS TilingWMProps, TLC
TileSymmetry == Permutations(Pane)
=============================================================================
