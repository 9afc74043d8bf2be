----------------------------- MODULE MCWebPhone -----------------------------
(* The web page and its gateway for TLC; without symmetry, which the       *)
(* liveness property forbids.                                              *)
EXTENDS WebPhone
=============================================================================
