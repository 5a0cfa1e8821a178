--------------------------- MODULE MCMarkedCommand ----------------------------
(***************************************************************************)
(* Instances of MarkedCommand for TLC: one run after another, so that a    *)
(* host may repeat the marker of an earlier one.                           *)
(***************************************************************************)
EXTENDS MarkedCommand, TLC

CONSTANTS n1, n2
===============================================================================
