----------------------------- MODULE MCGateway -----------------------------
(***************************************************************************)
(* The gateway for TLC.  Attempts and clients are model values and         *)
(* interchangeable: nothing orders them.                                   *)
(***************************************************************************)
EXTENDS Gateway, TLC

Symmetry == Permutations(Calls) \cup Permutations(Clients)

=============================================================================
