-------------------------- MODULE AccountLifecycle --------------------------
(***************************************************************************)
(* What the gateway promises about its SIP account, without calls, sockets *)
(* or a registrar: a client is taken into use once, when the REGISTER of   *)
(* its own request has been granted and no other is in use; one that was   *)
(* dropped never comes back; and only a keepalive of the client in use     *)
(* loses its registration, which then is not regained, except by a new     *)
(* client.  Gateway and Registration implement this specification.         *)
(***************************************************************************)
EXTENDS Naturals

CONSTANTS Clients, \* the SIP clients (one per POST /api/register)
          Nil

VARIABLES account,    \* the client in use (g.sip)
          registered, \* it believes that the registrar has a binding
          pending,    \* the client whose first REGISTER is under way
          spent,      \* the clients that had one
          refreshing  \* those whose keepalive is under way

vars == <<account, registered, pending, spent, refreshing>>

Init ==
  /\ account = Nil /\ registered = FALSE
  /\ pending = Nil /\ spent = {} /\ refreshing = {}

(* Whatever becomes of the new client, the old one is gone. *)
Begin(k) ==
  /\ pending = Nil
  /\ k \notin spent
  /\ account' = Nil /\ registered' = FALSE
  /\ pending' = k
  /\ spent' = spent \cup {k}
  /\ UNCHANGED refreshing

Adopt ==
  /\ pending # Nil
  /\ account = Nil
  /\ account' = pending /\ registered' = TRUE
  /\ pending' = Nil
  /\ UNCHANGED <<spent, refreshing>>

GiveUp ==
  /\ pending # Nil
  /\ pending' = Nil
  /\ UNCHANGED <<account, registered, spent, refreshing>>

(* A keepalive begins for the client in use and may outlive it.            *)
Refresh(k) ==
  /\ account = k /\ registered
  /\ k \notin refreshing
  /\ refreshing' = refreshing \cup {k}
  /\ UNCHANGED <<account, registered, pending, spent>>

Refreshed(k) ==
  /\ k \in refreshing
  /\ refreshing' = refreshing \ {k}
  /\ UNCHANGED <<account, registered, pending, spent>>

(* It fails; the client stays, for the call that runs on it. *)
Lose(k) ==
  /\ k \in refreshing
  /\ account = k /\ registered
  /\ registered' = FALSE
  /\ refreshing' = refreshing \ {k}
  /\ UNCHANGED <<account, pending, spent>>

(* Logout, shutdown; or the program ends. *)
Drop ==
  /\ account' = Nil /\ registered' = FALSE
  /\ pending' \in {pending, Nil}
  /\ refreshing' \in {refreshing, {}}
  /\ UNCHANGED spent

Next ==
  \/ \E k \in Clients : Begin(k) \/ Refresh(k) \/ Refreshed(k) \/ Lose(k)
  \/ Adopt \/ GiveUp \/ Drop

Spec == Init /\ [][Next]_vars
=============================================================================
