---------------------------- MODULE Registration ----------------------------
(***************************************************************************)
(* An account at the registrar, in time: what handleRegister,              *)
(* keepRegistered, handleLogout and Close (src/internal/gateway) leave     *)
(* there, and how soon the gateway notices that it is gone.                *)
(*                                                                         *)
(* Gateway has the same handlers with all their critical sections, and     *)
(* SipClient the transaction of a REGISTER; here an operation is the one   *)
(* REGISTER it sends, the time it may take, and its outcome.  The client   *)
(* repeats a REGISTER until it gets an answer and the registrar carries    *)
(* it out at most once; one that is still unanswered when its operation    *)
(* ends may be carried out until Delay later.  Timers are exact.           *)
(***************************************************************************)
EXTENDS Naturals, FiniteSets

CONSTANTS Clients,      \* the SIP clients that are ever created
          Nil,
          Period,       \* of the keepalive (30 s in the code)
          KeepTime,     \* a keepalive may take (20 s)
          RegisterTime, \* a first REGISTER may take (15 s)
          LeaveTime,    \* an un-REGISTER may take (5 s, 3 s in Close)
          Lifetime,     \* of a binding (Expires: 300)
          Delay,        \* bound: a packet outlives its operation
          MaxFaults     \* bound: password changes and restarts

Timing == {Period, KeepTime, RegisterTime, LeaveTime, Lifetime}

ASSUME RegistrationAssumption ==
  /\ Timing \subseteq Nat \ {0} /\ Delay \in Nat /\ MaxFaults \in Nat
  /\ KeepTime < Period /\ Period + KeepTime < Lifetime
  /\ Nil \notin Clients /\ {"handler", "close"} \cap Clients = {}

(* Who runs an operation: a handler under registerMu, Close, or the        *)
(* keepRegistered of a client.                                             *)
Owners == Clients \cup {"handler", "close"}

VARIABLES
  up,         \* the gateway runs
  sip,        \* g.sip
  registered, \* g.registered
  client,     \* each client: its socket and password
  keep,       \* each client's keepRegistered and its ticker
  op,         \* each owner's operation and the fate of its REGISTER
  late,       \* REGISTERs that outlived their operation
  binding,    \* registrar: time that the binding still has
  password,   \* registrar: the valid password
  faults,
  unbound, stale, left   \* history: see Correctness

vars == <<up, sip, registered, client, keep, op, late, binding, password, faults,
          unbound, stale, left>>
gateway   == <<up, sip, registered, client, keep>>
registrar == <<binding, password, faults>>
history   == <<unbound, stale, left>>

Kinds == {"add", "remove"}
Fates == {"none", "sent", "granted", "refused"}
Longest == Period + KeepTime

TypeOK ==
  /\ up \in BOOLEAN /\ registered \in BOOLEAN
  /\ sip \in Clients \cup {Nil}
  /\ client \in [Clients -> [made : BOOLEAN, open : BOOLEAN, secret : 0..MaxFaults]]
  /\ keep \in [Clients -> [at : {"none", "asleep", "registering", "over"},
                           ticker : 0..Period]]
  /\ op \in [Owners -> [of : Clients \cup {Nil}, kind : Kinds, fate : Fates,
                        left : 0..(KeepTime + RegisterTime + LeaveTime), quiet : BOOLEAN]]
  /\ late \subseteq [kind : Kinds, secret : 0..MaxFaults, left : 0..Delay]
  /\ binding \in 0..Lifetime
  /\ password \in 0..MaxFaults /\ faults \in 0..MaxFaults
  /\ unbound \in 0..(Longest + 1) /\ stale \in 0..(Longest + 1) /\ left \in BOOLEAN

NoOp == [of |-> Nil, kind |-> "add", fate |-> "none", left |-> 0, quiet |-> FALSE]
NoKeep == [at |-> "none", ticker |-> 0]

Init ==
  /\ up = TRUE /\ sip = Nil /\ registered = FALSE
  /\ client = [k \in Clients |-> [made |-> FALSE, open |-> FALSE, secret |-> 0]]
  /\ keep = [k \in Clients |-> NoKeep]
  /\ op = [o \in Owners |-> NoOp]
  /\ late = {}
  /\ binding = 0 /\ password = 0 /\ faults = 0
  /\ unbound = 0 /\ stale = 0 /\ left = FALSE

-----------------------------------------------------------------------------
(***************************************************************************)
(* Operations.                                                             *)
(***************************************************************************)
Begin(o, k, kind, time, quiet) ==
  op' = [op EXCEPT ![o] = [of |-> k, kind |-> kind, fate |-> "sent", left |-> time,
                           quiet |-> quiet]]

(* What an operation leaves on the wire. *)
Leftover(o) ==
  IF op[o].fate # "sent" THEN {}
  ELSE {[kind |-> op[o].kind, secret |-> client[op[o].of].secret, left |-> Delay]}

End(o) == op' = [op EXCEPT ![o] = NoOp] /\ late' = late \cup Leftover(o)

Succeeds(o) == op[o].fate = "granted" /\ client[op[o].of].open

(* It is refused, or its time is over, or - a handler - its caller gone.   *)
Fails(o) ==
  \/ op[o].fate = "refused" /\ client[op[o].of].open
  \/ op[o].fate # "none" /\ (op[o].left = 0 \/ o = "handler")

Close(k) == [client EXCEPT ![k].open = FALSE]

Adding == \/ \E o \in Owners : op[o].fate = "sent" /\ op[o].kind = "add"
          \/ \E m \in late : m.kind = "add"

-----------------------------------------------------------------------------
(* handleRegister with a password that is valid, or was once, up to its    *)
(* REGISTER.  (A client that cannot be made ends as one whose REGISTER     *)
(* fails; Gateway tells the two apart.)                                    *)
RegisterBegin(k, secret) ==
  /\ up /\ op["handler"] = NoOp
  /\ ~client[k].made
  /\ sip' = Nil /\ registered' = FALSE
  /\ client' = [IF sip = Nil THEN client ELSE Close(sip)
                  EXCEPT ![k] = [made |-> TRUE, open |-> TRUE, secret |-> secret]]
  /\ op' = [op EXCEPT !["handler"] = [of |-> k, kind |-> "add", fate |-> "sent",
                                      left |-> RegisterTime, quiet |-> FALSE],
                      !["close"].quiet = FALSE]
  /\ left' = FALSE
  /\ UNCHANGED <<up, keep, late, registrar, unbound, stale>>

RegisterSucceeds ==
  LET k == op["handler"].of
  IN /\ up /\ op["handler"].kind = "add" /\ Succeeds("handler")
     /\ sip' = k /\ registered' = TRUE
     /\ keep' = [keep EXCEPT ![k] = [at |-> "asleep", ticker |-> Period]]
     /\ End("handler")
     /\ stale' = 0
     /\ UNCHANGED <<up, client, registrar, unbound, left>>

RegisterFails ==
  /\ up /\ op["handler"].kind = "add" /\ Fails("handler")
  /\ client' = Close(op["handler"].of)
  /\ End("handler")
  /\ UNCHANGED <<up, sip, registered, keep, registrar, history>>

(* handleLogout; without a client there is nothing to do. *)
LogoutBegin ==
  /\ up /\ op["handler"] = NoOp
  /\ sip # Nil
  /\ sip' = Nil /\ registered' = FALSE
  /\ Begin("handler", sip, "remove", LeaveTime, ~Adding)
  /\ UNCHANGED <<up, client, keep, late, registrar, history>>

LogoutEnd ==
  /\ up /\ op["handler"].kind = "remove" /\ (Succeeds("handler") \/ Fails("handler"))
  /\ client' = Close(op["handler"].of)
  /\ End("handler")
  /\ left' = (op["handler"].fate = "granted" /\ op["handler"].quiet)
  /\ UNCHANGED <<up, sip, registered, keep, registrar, unbound, stale>>

-----------------------------------------------------------------------------
(* keepRegistered. *)
AnyClient(k) == client[k].open   \* mutant of Active: whichever client is in use
Active(k) == sip = k /\ registered

LateTick == Period + KeepTime   \* mutant of NextTick: counted from the end of the keepalive
NextTick == Period              \* a ticker goes on during the keepalive

KeepTick(k) ==
  /\ up /\ keep[k].at = "asleep" /\ keep[k].ticker = 0
  /\ IF Active(k)
       THEN /\ Begin(k, k, "add", KeepTime, FALSE)
            /\ keep' = [keep EXCEPT ![k] = [at |-> "registering", ticker |-> NextTick]]
       ELSE /\ keep' = [keep EXCEPT ![k].at = "over"]
            /\ op' = op
  /\ UNCHANGED <<up, sip, registered, client, late, registrar, history>>

(* Mutant of KeepSucceeds: it announces the account again.                 *)
KeepSucceedsAgain(k) ==
  /\ up /\ keep[k].at = "registering" /\ Succeeds(k)
  /\ registered' = TRUE
  /\ keep' = [keep EXCEPT ![k].at = "asleep"]
  /\ End(k)
  /\ UNCHANGED <<up, sip, client, registrar, history>>

KeepSucceeds(k) ==
  /\ up /\ keep[k].at = "registering" /\ Succeeds(k)
  /\ keep' = [keep EXCEPT ![k].at = "asleep"]
  /\ End(k)
  /\ UNCHANGED <<up, sip, registered, client, registrar, history>>

KeepFails(k) ==
  /\ up /\ keep[k].at = "registering" /\ Fails(k)
  /\ registered' = IF sip = k THEN FALSE ELSE registered
  /\ keep' = [keep EXCEPT ![k].at = "over"]
  /\ End(k)
  /\ UNCHANGED <<up, sip, client, registrar, history>>

-----------------------------------------------------------------------------
(* The program ends, by itself or killed: its goroutines are gone, and     *)
(* with them their repetitions.                                            *)
Stops ==
  /\ up' = FALSE /\ sip' = Nil /\ registered' = FALSE
  /\ client' = [k \in Clients |-> [client[k] EXCEPT !.open = FALSE]]
  /\ keep' = [k \in Clients |-> NoKeep]
  /\ op' = [o \in Owners |-> NoOp]
  /\ late' = late \cup UNION {Leftover(o) : o \in Owners}
  /\ UNCHANGED <<registrar, unbound, stale>>

(* Close, which does not take registerMu. *)
ShutdownBegin ==
  /\ up /\ op["close"] = NoOp /\ sip # Nil
  /\ sip' = Nil /\ registered' = FALSE
  /\ Begin("close", sip, "remove", LeaveTime, ~Adding /\ op["handler"] = NoOp)
  /\ UNCHANGED <<up, client, keep, late, registrar, history>>

ShutdownEnd ==
  /\ up
  /\ Succeeds("close") \/ Fails("close")
  /\ left' = (op["close"].fate = "granted" /\ op["close"].quiet)
  /\ Stops

Crash == up /\ Stops /\ UNCHANGED left
Restart == ~up /\ up' = TRUE /\ UNCHANGED <<sip, registered, client, keep, op, late, registrar, history>>

-----------------------------------------------------------------------------
(***************************************************************************)
(* The registrar.                                                          *)
(***************************************************************************)
Carried(kind, secret) ==
  IF secret # password THEN binding ELSE IF kind = "add" THEN Lifetime ELSE 0

Answer(o) ==
  LET secret == client[op[o].of].secret
  IN /\ op[o].fate = "sent"
     /\ binding' = Carried(op[o].kind, secret)
     /\ op' = [op EXCEPT ![o].fate = IF secret = password THEN "granted" ELSE "refused"]
     /\ unbound' = IF binding' = 0 THEN unbound ELSE 0
     /\ UNCHANGED <<gateway, late, password, faults, stale, left>>

AnswerLate(m) ==
  /\ m \in late
  /\ late' = late \ {m}
  /\ binding' = Carried(m.kind, m.secret)
  /\ unbound' = IF binding' = 0 THEN unbound ELSE 0
  /\ UNCHANGED <<gateway, op, password, faults, stale, left>>

PasswordChanges ==
  /\ faults < MaxFaults /\ faults' = faults + 1
  /\ password' = password + 1
  /\ UNCHANGED <<gateway, op, late, binding, history>>

Forgets ==
  /\ faults < MaxFaults /\ faults' = faults + 1
  /\ binding # 0 /\ binding' = 0
  /\ UNCHANGED <<gateway, op, late, password, history>>

-----------------------------------------------------------------------------
Less(n) == IF n = 0 THEN 0 ELSE n - 1
More(n, holds) == IF ~holds THEN 0 ELSE IF n > Longest THEN n ELSE n + 1

Due ==
  \/ \E o \in Owners : op[o].fate # "none" /\ op[o].left = 0
  \/ \E k \in Clients : keep[k].at = "asleep" /\ keep[k].ticker = 0

Tick ==
  /\ ~Due
  /\ op' = [o \in Owners |-> [op[o] EXCEPT !.left = Less(@)]]
  /\ keep' = [k \in Clients |-> [keep[k] EXCEPT !.ticker = Less(@)]]
  /\ late' = {[m EXCEPT !.left = @ - 1] : m \in {m \in late : m.left > 0}}
  /\ binding' = Less(binding)
  /\ unbound' = More(unbound, registered /\ binding = 0)
  /\ stale' = More(stale, registered /\ client[sip].secret # password)
  /\ UNCHANGED <<up, sip, registered, client, password, faults, left>>

Next ==
  \/ \E k \in Clients :
       \/ KeepTick(k) \/ KeepSucceeds(k) \/ KeepFails(k)
       \/ \E secret \in 0..password : RegisterBegin(k, secret)
  \/ RegisterSucceeds \/ RegisterFails \/ LogoutBegin \/ LogoutEnd
  \/ ShutdownBegin \/ ShutdownEnd \/ Crash \/ Restart
  \/ \E o \in Owners : Answer(o)
  \/ \E m \in late : AnswerLate(m)
  \/ PasswordChanges \/ Forgets \/ Tick

Spec == Init /\ [][Next]_vars

-----------------------------------------------------------------------------
(***************************************************************************)
(* Correctness.                                                            *)
(***************************************************************************)

(* keepRegistered: for no longer than a period and a keepalive does the    *)
(* gateway believe itself registered when the registrar has no binding     *)
(* (which it forgot, or a late un-REGISTER took) or another password       *)
(* (README.md:17: a change of it is detected by the keepalive).            *)
LossNoticed == unbound <= Longest /\ stale <= Longest

(* handleLogout and Close: once an un-REGISTER was granted the account     *)
(* stays unregistered, until it is registered again, provided that no      *)
(* REGISTER was under way when it was sent.                                *)
LogoutUnbinds == left => binding = 0

(* The same abstract account that Gateway implements, here with a program  *)
(* that can end and start again at any moment.                             *)
Registering ==
  IF op["handler"].kind = "add" /\ op["handler"].fate # "none" THEN op["handler"].of ELSE Nil
Made       == {k \in Clients : client[k].made}
Refreshing == {k \in Clients : keep[k].at = "registering"}

Account == INSTANCE AccountLifecycle
             WITH account <- sip, pending <- Registering, spent <- Made,
                  refreshing <- Refreshing

AccountSpec == Account!Spec
=============================================================================
