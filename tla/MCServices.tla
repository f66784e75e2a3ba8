----------------------------- MODULE MCServices -----------------------------
(* The instance of the services for TLC: every port has the same number, so  *)
(* that a TCP and a UDP port differ by their protocol only.                  *)
EXTENDS ServicesProps

MCNumber(p) == 1
=============================================================================
