----------------------------- MODULE MCXDisplay -----------------------------
(***************************************************************************)
(* Two connections contend for the display and come back to it, so that    *)
(* reapers of earlier sessions meet later ones.                            *)
(***************************************************************************)
EXTENDS XDisplay

CONSTANTS c1, c2

MCConns == {c1, c2}

=============================================================================
