--------------------------- MODULE CallLifecycle ---------------------------
(***************************************************************************)
(* What the gateway promises about calls, without SIP, WebRTC or threads:  *)
(* it serves one call attempt at a time, an attempt moves forward only     *)
(* (connecting, connected, failed), and an attempt that has been replaced  *)
(* or ended never comes back.  Gateway.tla implements this specification:  *)
(* callState is `state', the attempt that g.callSeq stands for `current'.  *)
(***************************************************************************)
EXTENDS Naturals

CONSTANTS Calls, \* the call attempts (one per POST /api/offer)
          Nil    \* no attempt

VARIABLES state,   \* "idle", "connecting", "connected" or "failed"
          current, \* the attempt the state is about, Nil when idle
          over     \* the attempts that were current once and are not any more

vars == <<state, current, over>>

Init == state = "idle" /\ current = Nil /\ over = {}

Retired == over \cup ({current} \ {Nil})

(* An attempt starts only when none is connecting or connected, and only   *)
(* if it never was current before.                                         *)
Accept(o) ==
  /\ state \in {"idle", "failed"}
  /\ o \notin Retired
  /\ state' = "connecting"
  /\ current' = o
  /\ over' = Retired

Connect ==
  /\ state = "connecting"
  /\ state' = "connected"
  /\ UNCHANGED <<current, over>>

Fail ==
  /\ state \in {"connecting", "connected"}
  /\ state' = "failed"
  /\ UNCHANGED <<current, over>>

End ==
  /\ state' = "idle"
  /\ current' = Nil
  /\ over' = Retired

Next == (\E o \in Calls : Accept(o)) \/ Connect \/ Fail \/ End

Spec == Init /\ [][Next]_vars
=============================================================================
