--------------------------- MODULE MCRegistration ---------------------------
(* The account at the registrar for TLC.  Clients are interchangeable:     *)
(* nothing orders them.                                                    *)
EXTENDS Registration, TLC

Symmetry == Permutations(Clients)
=============================================================================
