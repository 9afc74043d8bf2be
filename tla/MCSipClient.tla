---------------------------- MODULE MCSipClient ----------------------------
(* The SIP client for TLC.  Call-IDs are interchangeable: nothing orders   *)
(* them.                                                                   *)
EXTENDS SipClient, TLC

Symmetry == Permutations(Dialogs)
=============================================================================
