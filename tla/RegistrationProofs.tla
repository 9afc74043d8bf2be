------------------------- MODULE RegistrationProofs -------------------------
(***************************************************************************)
(* Theorems about Registration.tla, for any number of clients, any times   *)
(* within RegistrationAssumption and any number of faults: the types, that *)
(* a logout really unregisters, and how soon a loss is noticed.            *)
(***************************************************************************)
EXTENDS Registration, TLAPS

-----------------------------------------------------------------------------
(***************************************************************************)
(* The invariants.                                                         *)
(***************************************************************************)

(* The types; an operation has its client, and the password has changed at *)
(* most once per fault.                                                    *)
TypeInv ==
  /\ TypeOK
  /\ \A o \in Owners : op[o].fate # "none" => op[o].of \in Clients
  /\ password <= faults

(* No account, nothing that adds a binding, and nobody about to publish an *)
(* account.                                                                *)
Gone ==
  /\ sip = Nil /\ ~Adding
  /\ ~(op["handler"].kind = "add" /\ op["handler"].fate # "none")

(* An un-REGISTER that began without a REGISTER under way stays alone.     *)
LeaveInv ==
  /\ left => Gone /\ binding = 0
  /\ \A o \in {"handler", "close"} : op[o].quiet =>
       /\ Gone
       /\ op[o].kind = "remove"
       /\ op[o].fate = "granted" => binding = 0

(* Each keepRegistered and its keepalive.  The ticker goes on during it.   *)
Kept(k) ==
  /\ keep[k].at = "registering" <=> op[k].fate # "none"
  /\ op[k].fate # "none" =>
       /\ op[k].of = k /\ op[k].kind = "add"
       /\ keep[k].ticker = (Period - KeepTime) + op[k].left
  /\ ~client[k].made => keep[k].at = "none"
  /\ client[k].secret <= password

KeepInv == \A k \in Clients : Kept(k)

(* While a new account is being registered there is none, and it is not    *)
(* being kept.  The account in use is.                                     *)
AccountInv ==
  /\ op["handler"].fate # "none" /\ op["handler"].kind = "add" =>
       /\ ~registered
       /\ client[op["handler"].of].made
       /\ keep[op["handler"].of].at = "none"
       /\ op["handler"].fate = "granted" => unbound = 0
  /\ registered => /\ sip \in Clients
                   /\ keep[sip].at \in {"asleep", "registering"}

(* A loss of age n is noticed in time by the keepalive that is due next or *)
(* under way: one that was granted only puts it off if it was before the   *)
(* loss.                                                                   *)
InTime(n) ==
  /\ keep[sip].at = "asleep" => n + keep[sip].ticker <= Period
  /\ keep[sip].at = "registering" =>
       IF op[sip].fate = "granted" THEN n + keep[sip].ticker <= Period
                                   ELSE n + op[sip].left <= Longest

TimelyInv ==
  registered => /\ InTime(unbound) /\ InTime(stale)
                /\ client[sip].secret = password => stale = 0

LossInv == LossNoticed /\ TimelyInv

-----------------------------------------------------------------------------
(***************************************************************************)
(* Types.                                                                  *)
(***************************************************************************)
OpRecord == [of : Clients \cup {Nil}, kind : Kinds, fate : Fates,
             left : 0..(KeepTime + RegisterTime + LeaveTime), quiet : BOOLEAN]
LateRecord == [kind : Kinds, secret : 0..MaxFaults, left : 0..Delay]
ClientRecord == [made : BOOLEAN, open : BOOLEAN, secret : 0..MaxFaults]
KeepRecord == [at : {"none", "asleep", "registering", "over"}, ticker : 0..Period]

LEMMA Times ==
  /\ Period \in Nat /\ KeepTime \in Nat /\ RegisterTime \in Nat
  /\ LeaveTime \in Nat /\ Lifetime \in Nat /\ Delay \in Nat /\ MaxFaults \in Nat
  /\ KeepTime < Period
BY RegistrationAssumption DEF Timing

LEMMA TypeFacts ==
  ASSUME TypeInv
  PROVE  /\ op \in [Owners -> OpRecord] /\ late \subseteq LateRecord
         /\ client \in [Clients -> ClientRecord] /\ keep \in [Clients -> KeepRecord]
         /\ sip \in Clients \cup {Nil} /\ registered \in BOOLEAN /\ left \in BOOLEAN
         /\ binding \in 0..Lifetime
         /\ password \in 0..MaxFaults /\ faults \in 0..MaxFaults /\ password <= faults
         /\ unbound \in 0..(Longest + 1) /\ stale \in 0..(Longest + 1)
         /\ \A o \in Owners : op[o].fate # "none" => op[o].of \in Clients
BY DEF TypeInv, TypeOK, OpRecord, LateRecord, ClientRecord, KeepRecord

(* The owners, told apart. *)
LEMMA OwnerFacts ==
  /\ "handler" \in Owners /\ "close" \in Owners /\ Clients \subseteq Owners
  /\ "handler" \notin Clients /\ "close" \notin Clients /\ Nil \notin Clients
BY RegistrationAssumption DEF Owners

LEMMA NoOpType == NoOp \in OpRecord /\ NoOp.fate = "none" /\ NoOp.quiet = FALSE
BY Times DEF NoOp, OpRecord, Kinds, Fates

(* An operation begins, ... *)
LEMMA BeginType ==
  ASSUME TypeInv, NEW o \in Owners, NEW k \in Clients, NEW kind \in Kinds,
         NEW time \in 0..(KeepTime + RegisterTime + LeaveTime),
         NEW quiet \in BOOLEAN, Begin(o, k, kind, time, quiet)
  PROVE  /\ op' \in [Owners -> OpRecord]
         /\ \A p \in Owners \ {o} : op'[p] = op[p]
         /\ op'[o].of = k /\ op'[o].kind = kind /\ op'[o].fate = "sent"
         /\ op'[o].left = time /\ op'[o].quiet = quiet
BY TypeFacts DEF Begin, OpRecord, Fates

(* ... and ends; what it leaves on the wire is a REGISTER like its own.    *)
LEMMA LeftoverType ==
  ASSUME TypeInv, NEW o \in Owners
  PROVE  Leftover(o) \subseteq LateRecord
<1>1. CASE op[o].fate # "sent"
  BY <1>1 DEF Leftover
<1>2. CASE op[o].fate = "sent"
  <2>1. op[o].of \in Clients /\ op[o].kind \in Kinds
    BY <1>2, TypeFacts DEF OpRecord
  <2>2. client[op[o].of].secret \in 0..MaxFaults /\ Delay \in 0..Delay
    BY <2>1, TypeFacts, Times DEF ClientRecord
  <2>3. QED
    BY <1>2, <2>1, <2>2 DEF Leftover, LateRecord
<1>3. QED
  BY <1>1, <1>2

LEMMA EndType ==
  ASSUME TypeInv, NEW o \in Owners, End(o)
  PROVE  /\ op' \in [Owners -> OpRecord]
         /\ \A p \in Owners \ {o} : op'[p] = op[p]
         /\ op'[o] = NoOp
         /\ late' = late \cup Leftover(o) /\ late' \subseteq LateRecord
BY TypeFacts, NoOpType, LeftoverType DEF End

LEMMA CloseType ==
  ASSUME TypeInv, NEW k \in Clients
  PROVE  /\ Close(k) \in [Clients -> ClientRecord]
         /\ \A q \in Clients : /\ Close(k)[q].made = client[q].made
                               /\ Close(k)[q].secret = client[q].secret
BY TypeFacts DEF Close, ClientRecord

(* What the type of a state is, in these terms. *)
LEMMA TypeFromFacts ==
  ASSUME up' \in BOOLEAN, registered' \in BOOLEAN, sip' \in Clients \cup {Nil},
         client' \in [Clients -> ClientRecord], keep' \in [Clients -> KeepRecord],
         op' \in [Owners -> OpRecord], late' \subseteq LateRecord,
         binding' \in 0..Lifetime, password' \in 0..MaxFaults,
         faults' \in 0..MaxFaults, password' <= faults',
         unbound' \in 0..(Longest + 1), stale' \in 0..(Longest + 1),
         left' \in BOOLEAN,
         \A o \in Owners : op'[o].fate # "none" => op'[o].of \in Clients
  PROVE  TypeInv'
BY DEF TypeInv, TypeOK, OpRecord, LateRecord, ClientRecord, KeepRecord

LEMMA TypeStep == ASSUME TypeInv, [Next]_vars PROVE TypeInv'
<1>t. up \in BOOLEAN /\ 0 \in 0..(Longest + 1)
  BY Times DEF TypeInv, TypeOK, Longest
<1>1. ASSUME NEW k \in Clients, NEW secret \in 0..password, RegisterBegin(k, secret)
      PROVE  TypeInv'
  <2>1. secret \in 0..MaxFaults
    BY TypeFacts, Times
  <2> DEFINE shut == IF sip = Nil THEN client ELSE Close(sip)
  <2>2. shut \in [Clients -> ClientRecord]
    BY CloseType, TypeFacts
  <2> HIDE DEF shut
  <2>3. client' = [shut EXCEPT ![k] = [made |-> TRUE, open |-> TRUE, secret |-> secret]]
    BY <1>1 DEF RegisterBegin, shut
  <2>4. client' \in [Clients -> ClientRecord]
    BY <2>1, <2>2, <2>3 DEF ClientRecord
  <2> DEFINE new == [of |-> k, kind |-> "add", fate |-> "sent",
                     left |-> RegisterTime, quiet |-> FALSE]
  <2>5. new \in OpRecord /\ new.of \in Clients
    BY Times DEF OpRecord, Kinds, Fates
  <2> HIDE DEF new
  <2>6. op' = [op EXCEPT !["handler"] = new, !["close"].quiet = FALSE]
    BY <1>1 DEF RegisterBegin, new
  <2>7. [op["close"] EXCEPT !.quiet = FALSE] \in OpRecord
    <3>1. ASSUME NEW r \in OpRecord PROVE [r EXCEPT !.quiet = FALSE] \in OpRecord
      BY DEF OpRecord
    <3>2. QED
      BY <3>1, TypeFacts, OwnerFacts
  <2>8. /\ op' \in [Owners -> OpRecord]
        /\ \A o \in Owners : op'[o] = IF o = "handler" THEN new
                                      ELSE IF o = "close" THEN [op["close"] EXCEPT !.quiet = FALSE]
                                      ELSE op[o]
    BY <2>5, <2>6, <2>7, TypeFacts, OwnerFacts
  <2>9. \A o \in Owners : op'[o].fate # "none" => op'[o].of \in Clients
    BY <2>5, <2>8, TypeFacts, OwnerFacts DEF OpRecord
  <2>10. QED
    BY <1>1, <1>t, <2>4, <2>8, <2>9, TypeFacts, TypeFromFacts
      DEF RegisterBegin, registrar
<1>2. CASE RegisterSucceeds
  <2>1. End("handler") /\ op["handler"].of \in Clients
    BY <1>2, TypeFacts, OwnerFacts DEF RegisterSucceeds, Succeeds
  <2>2. keep' \in [Clients -> KeepRecord]
    BY <1>2, <2>1, TypeFacts, Times DEF RegisterSucceeds, KeepRecord
  <2>3. QED
    BY <1>2, <1>t, <2>1, <2>2, EndType, NoOpType, TypeFacts, OwnerFacts, TypeFromFacts
      DEF RegisterSucceeds, registrar
<1>3. CASE RegisterFails
  <2>1. End("handler") /\ op["handler"].fate # "none"
    BY <1>3 DEF RegisterFails, Fails
  <2>2. client' \in [Clients -> ClientRecord]
    BY <1>3, <2>1, CloseType, TypeFacts, OwnerFacts DEF RegisterFails
  <2>3. QED
    BY <1>3, <1>t, <2>1, <2>2, EndType, NoOpType, TypeFacts, OwnerFacts, TypeFromFacts
      DEF RegisterFails, registrar, history
<1>4. CASE LogoutBegin
  <2> DEFINE quiet == ~Adding
  <2>1. /\ sip \in Clients /\ Begin("handler", sip, "remove", LeaveTime, quiet)
        /\ quiet \in BOOLEAN /\ LeaveTime \in 0..(KeepTime + RegisterTime + LeaveTime)
    BY <1>4, TypeFacts, Times DEF LogoutBegin, Adding
  <2> HIDE DEF quiet
  <2>2. /\ op' \in [Owners -> OpRecord]
        /\ \A p \in Owners \ {"handler"} : op'[p] = op[p]
        /\ op'["handler"].of \in Clients
    BY <2>1, BeginType, OwnerFacts DEF Kinds
  <2>3. QED
    BY <1>4, <1>t, <2>2, TypeFacts, TypeFromFacts DEF LogoutBegin, registrar, history
<1>5. CASE LogoutEnd
  <2>1. End("handler") /\ op["handler"].fate # "none"
    BY <1>5 DEF LogoutEnd, Succeeds, Fails
  <2>2. client' \in [Clients -> ClientRecord] /\ left' \in BOOLEAN
    BY <1>5, <2>1, CloseType, TypeFacts, OwnerFacts DEF LogoutEnd, OpRecord
  <2>3. QED
    BY <1>5, <1>t, <2>1, <2>2, EndType, NoOpType, TypeFacts, OwnerFacts, TypeFromFacts
      DEF LogoutEnd, registrar
<1>6. ASSUME NEW k \in Clients, KeepTick(k) PROVE TypeInv'
  <2>1. keep' \in [Clients -> KeepRecord]
    <3>1. [at |-> "registering", ticker |-> Period] \in KeepRecord
      BY Times DEF KeepRecord
    <3>2. [keep[k] EXCEPT !.at = "over"] \in KeepRecord
      BY TypeFacts DEF KeepRecord
    <3>3. \/ keep' = [keep EXCEPT ![k] = [at |-> "registering", ticker |-> Period]]
          \/ keep' = [keep EXCEPT ![k] = [keep[k] EXCEPT !.at = "over"]]
      BY <1>6 DEF KeepTick, NextTick
    <3>4. \A x \in KeepRecord : [keep EXCEPT ![k] = x] \in [Clients -> KeepRecord]
      BY TypeFacts
    <3>5. QED
      BY <3>1, <3>2, <3>3, <3>4
  <2>2. CASE Active(k)
    <3>0. KeepTime \in 0..(KeepTime + RegisterTime + LeaveTime)
      BY Times
    <3>1. Begin(k, k, "add", KeepTime, FALSE)
      BY <1>6, <2>2 DEF KeepTick
    <3>2. /\ op' \in [Owners -> OpRecord]
          /\ \A p \in Owners \ {k} : op'[p] = op[p]
          /\ op'[k].of \in Clients
      BY <3>0, <3>1, BeginType, OwnerFacts DEF Kinds
    <3>3. QED
      BY <1>6, <1>t, <2>1, <3>2, TypeFacts, TypeFromFacts DEF KeepTick, registrar, history
  <2>3. CASE ~Active(k)
    BY <1>6, <1>t, <2>1, <2>3, TypeFacts, TypeFromFacts DEF KeepTick, registrar, history
  <2>4. QED
    BY <2>2, <2>3
<1>7. ASSUME NEW k \in Clients, KeepSucceeds(k) \/ KeepFails(k) PROVE TypeInv'
  <2>1. End(k) /\ k \in Owners
    BY <1>7, OwnerFacts DEF KeepSucceeds, KeepFails
  <2>2. keep' \in [Clients -> KeepRecord] /\ registered' \in BOOLEAN
    <3>1. \/ keep' = [keep EXCEPT ![k] = [keep[k] EXCEPT !.at = "asleep"]]
          \/ keep' = [keep EXCEPT ![k] = [keep[k] EXCEPT !.at = "over"]]
      BY <1>7 DEF KeepSucceeds, KeepFails
    <3>2. /\ [keep[k] EXCEPT !.at = "asleep"] \in KeepRecord
          /\ [keep[k] EXCEPT !.at = "over"] \in KeepRecord
      BY TypeFacts DEF KeepRecord
    <3>3. keep' \in [Clients -> KeepRecord]
      BY <3>1, <3>2, TypeFacts
    <3>4. registered' \in BOOLEAN
      BY <1>7, TypeFacts DEF KeepSucceeds, KeepFails
    <3>5. QED
      BY <3>3, <3>4
  <2>3. QED
    BY <1>7, <1>t, <2>1, <2>2, EndType, NoOpType, TypeFacts, TypeFromFacts
      DEF KeepSucceeds, KeepFails, registrar, history
<1>8. CASE ShutdownBegin
  <2> DEFINE quiet == ~Adding /\ op["handler"] = NoOp
  <2>1. /\ sip \in Clients /\ Begin("close", sip, "remove", LeaveTime, quiet)
        /\ quiet \in BOOLEAN /\ LeaveTime \in 0..(KeepTime + RegisterTime + LeaveTime)
    BY <1>8, TypeFacts, Times DEF ShutdownBegin, Adding
  <2> HIDE DEF quiet
  <2>2. /\ op' \in [Owners -> OpRecord]
        /\ \A p \in Owners \ {"close"} : op'[p] = op[p]
        /\ op'["close"].of \in Clients
    BY <2>1, BeginType, OwnerFacts DEF Kinds
  <2>3. QED
    BY <1>8, <1>t, <2>2, TypeFacts, TypeFromFacts DEF ShutdownBegin, registrar, history
<1>9. ASSUME Stops, left' \in BOOLEAN PROVE TypeInv'
  <2>1. client' \in [Clients -> ClientRecord]
    BY <1>9, TypeFacts DEF Stops, ClientRecord
  <2>2. keep' \in [Clients -> KeepRecord]
    BY <1>9, Times DEF Stops, NoKeep, KeepRecord
  <2>3. op' \in [Owners -> OpRecord] /\ \A o \in Owners : op'[o].fate = "none"
    BY <1>9, NoOpType DEF Stops
  <2>4. late' \subseteq LateRecord
    BY <1>9, LeftoverType, TypeFacts DEF Stops
  <2>5. QED
    BY <1>9, <2>1, <2>2, <2>3, <2>4, TypeFacts, TypeFromFacts DEF Stops, registrar
<1>10. CASE ShutdownEnd \/ Crash
  <2>1. Stops /\ left' \in BOOLEAN
    BY <1>10, TypeFacts, OwnerFacts DEF ShutdownEnd, Crash, OpRecord
  <2>2. QED
    BY <1>9, <2>1
<1>11. CASE Restart
  BY <1>11, TypeFacts, TypeFromFacts DEF Restart, registrar, history
<1>12. ASSUME NEW kind, NEW secret PROVE Carried(kind, secret) \in 0..Lifetime
  BY TypeFacts, Times DEF Carried
<1>13. ASSUME NEW o \in Owners, Answer(o) PROVE TypeInv'
  <2>1. binding' \in 0..Lifetime
    BY <1>12, <1>13 DEF Answer
  <2>2. op' \in [Owners -> OpRecord]
    BY <1>13, TypeFacts DEF Answer, OpRecord, Fates
  <2>3. \A p \in Owners : op'[p].of = op[p].of /\ (op'[p].fate # "none" => op[p].fate # "none")
    BY <1>13, TypeFacts DEF Answer, OpRecord
  <2>4. unbound' \in 0..(Longest + 1)
    BY <1>13, <1>t, TypeFacts DEF Answer
  <2>5. QED
    BY <1>13, <1>t, <2>1, <2>2, <2>3, <2>4, TypeFacts, TypeFromFacts DEF Answer, gateway
<1>14. ASSUME NEW m \in late, AnswerLate(m) PROVE TypeInv'
  <2>1. binding' \in 0..Lifetime
    BY <1>12, <1>14 DEF AnswerLate
  <2>2. unbound' \in 0..(Longest + 1) /\ late' \subseteq LateRecord
    BY <1>14, <1>t, TypeFacts DEF AnswerLate
  <2>3. QED
    BY <1>14, <1>t, <2>1, <2>2, TypeFacts, TypeFromFacts DEF AnswerLate, gateway
<1>15. CASE PasswordChanges
  <2>1. /\ password' \in 0..MaxFaults /\ faults' \in 0..MaxFaults
        /\ password' <= faults'
    BY <1>15, TypeFacts, Times DEF PasswordChanges
  <2>2. QED
    BY <1>15, <1>t, <2>1, TypeFacts, TypeFromFacts DEF PasswordChanges, gateway, history
<1>16. CASE Forgets
  <2>1. binding' \in 0..Lifetime /\ faults' \in 0..MaxFaults /\ password <= faults'
    BY <1>16, TypeFacts, Times DEF Forgets
  <2>2. QED
    BY <1>16, <1>t, <2>1, TypeFacts, TypeFromFacts DEF Forgets, gateway, history
<1>17. CASE Tick
  <2>1. \A n \in Nat : Less(n) \in 0..n
    BY DEF Less
  <2>2. /\ op' \in [Owners -> OpRecord]
        /\ \A o \in Owners : op'[o].fate = op[o].fate /\ op'[o].of = op[o].of
    BY <1>17, <2>1, TypeFacts, Times DEF Tick, OpRecord
  <2>3. keep' \in [Clients -> KeepRecord]
    BY <1>17, <2>1, TypeFacts, Times DEF Tick, KeepRecord
  <2>4. late' \subseteq LateRecord
    BY <1>17, TypeFacts, Times DEF Tick, LateRecord
  <2>5. binding' \in 0..Lifetime
    BY <1>17, <2>1, TypeFacts, Times DEF Tick
  <2>6. unbound' \in 0..(Longest + 1) /\ stale' \in 0..(Longest + 1)
    BY <1>17, TypeFacts, Times DEF Tick, More, Longest
  <2>7. QED
    BY <1>17, <1>t, <2>2, <2>3, <2>4, <2>5, <2>6, TypeFacts, TypeFromFacts DEF Tick
<1>18. CASE UNCHANGED vars
  BY <1>18, <1>t, TypeFacts, TypeFromFacts DEF vars
<1>19. QED
  BY <1>1, <1>2, <1>3, <1>4, <1>5, <1>6, <1>7, <1>8, <1>10, <1>11, <1>13,
     <1>14, <1>15, <1>16, <1>17, <1>18 DEF Next

LEMMA TypeInit == Init => TypeInv
<1>1. SUFFICES ASSUME Init PROVE TypeInv
  OBVIOUS
<1>2. op \in [Owners -> OpRecord] /\ \A o \in Owners : op[o].fate = "none"
  BY <1>1, NoOpType DEF Init
<1>3. client \in [Clients -> ClientRecord] /\ keep \in [Clients -> KeepRecord]
  BY <1>1, Times DEF Init, ClientRecord, KeepRecord, NoKeep
<1>4. 0 \in 0..Lifetime /\ 0 \in 0..MaxFaults /\ 0 \in 0..(Longest + 1)
  BY Times DEF Longest
<1>5. TypeOK
  BY <1>1, <1>2, <1>3, <1>4
    DEF Init, TypeOK, OpRecord, ClientRecord, KeepRecord
<1>6. QED
  BY <1>1, <1>2, <1>5 DEF Init, TypeInv

(* Every variable of the account, its operations and its registrar keeps   *)
(* its type, and the bounds of the model are never overrun.                *)
THEOREM TypeCorrect == Spec => []TypeOK
<1>1. TypeInv => TypeOK
  BY DEF TypeInv
<1>2. QED
  BY <1>1, TypeInit, TypeStep, PTL DEF Spec

-----------------------------------------------------------------------------
(***************************************************************************)
(* A logout unregisters.                                                   *)
(***************************************************************************)

(* Steps that take nothing away from what LeaveInv says: no REGISTER is    *)
(* begun, no account published, and nothing that removes a binding is      *)
(* granted without removing it.                                            *)
LEMMA LeaveKept ==
  ASSUME LeaveInv,
         Gone => Gone', Gone /\ binding = 0 => binding' = 0, left' => left,
         \A o \in {"handler", "close"} : op'[o].quiet =>
           /\ op[o].quiet /\ op'[o].kind = op[o].kind
           /\ op'[o].fate = "granted" => op[o].fate = "granted" \/ binding' = 0
  PROVE  LeaveInv'
BY DEF LeaveInv

(* While there is an account, or one about to be published, nothing has    *)
(* been promised.                                                          *)
LEMMA NothingPromised ==
  ASSUME LeaveInv, ~Gone
  PROVE  ~left /\ \A o \in {"handler", "close"} : ~op[o].quiet
BY DEF LeaveInv

(* What an operation leaves behind adds a binding only if it did itself.   *)
LEMMA LeftoverAdds ==
  ASSUME TypeInv, NEW o \in Owners, NEW m \in Leftover(o), m.kind = "add"
  PROVE  Adding
BY DEF Leftover, Adding

LEMMA EndAdds ==
  ASSUME TypeInv, NEW o \in Owners, End(o), Adding' PROVE Adding
<1>1. CASE \E p \in Owners : op'[p].fate = "sent" /\ op'[p].kind = "add"
  BY <1>1, EndType, NoOpType DEF Adding
<1>2. CASE \E m \in late' : m.kind = "add"
  BY <1>2, EndType, LeftoverAdds DEF Adding
<1>3. QED
  BY <1>1, <1>2 DEF Adding

LEMMA LeaveStep == ASSUME TypeInv, LeaveInv, [Next]_vars PROVE LeaveInv'
<1>t. /\ "handler" \in Owners /\ "close" \in Owners
      /\ op \in [Owners -> OpRecord] /\ sip \in Clients \cup {Nil}
      /\ Nil \notin Clients /\ "handler" \notin Clients /\ "close" \notin Clients
  BY OwnerFacts, TypeFacts
<1>1. ASSUME NEW k \in Clients, NEW secret \in 0..password, RegisterBegin(k, secret)
      PROVE  LeaveInv'
  <2> DEFINE new == [of |-> k, kind |-> "add", fate |-> "sent",
                     left |-> RegisterTime, quiet |-> FALSE]
  <2>1. new.quiet = FALSE
    OBVIOUS
  <2> HIDE DEF new
  <2>2. ~left' /\ op' = [op EXCEPT !["handler"] = new, !["close"].quiet = FALSE]
    BY <1>1 DEF RegisterBegin, new
  <2>3. ASSUME NEW r \in OpRecord PROVE [r EXCEPT !.quiet = FALSE].quiet = FALSE
    BY DEF OpRecord
  <2>4. op'["handler"] = new /\ op'["close"] = [op["close"] EXCEPT !.quiet = FALSE]
    BY <1>t, <2>2
  <2>5. QED
    BY <1>t, <2>1, <2>2, <2>3, <2>4 DEF LeaveInv
<1>2. CASE RegisterSucceeds \/ RegisterFails
  <2>1. /\ ~Gone /\ left' = left /\ End("handler")
    BY <1>2 DEF RegisterSucceeds, RegisterFails, Succeeds, Fails, Gone, history
  <2>2. ~op'["handler"].quiet /\ op'["close"] = op["close"]
    BY <1>t, <2>1, EndType, NoOpType
  <2>3. QED
    BY <2>1, <2>2, NothingPromised DEF LeaveInv
<1>3. CASE LogoutBegin
  <2> DEFINE quiet == ~Adding
  <2>1. /\ sip # Nil /\ sip' = Nil /\ left' = left /\ late' = late
        /\ Begin("handler", sip, "remove", LeaveTime, quiet)
    BY <1>3 DEF LogoutBegin, history
  <2>2. /\ quiet \in BOOLEAN /\ LeaveTime \in 0..(KeepTime + RegisterTime + LeaveTime)
        /\ sip \in Clients /\ "remove" \in Kinds
    BY <1>t, <2>1, Times DEF Adding, Kinds
  <2> HIDE DEF quiet
  <2>3. /\ \A p \in Owners \ {"handler"} : op'[p] = op[p]
        /\ op'["handler"].kind = "remove" /\ op'["handler"].fate = "sent"
        /\ op'["handler"].quiet = quiet
    BY <1>t, <2>1, <2>2, BeginType
  <2>4. ~left /\ \A o \in {"handler", "close"} : ~op[o].quiet
    BY <2>1, NothingPromised DEF Gone
  <2>5. quiet => Gone'
    BY <2>1, <2>3 DEF quiet, Gone, Adding
  <2>6. QED
    BY <1>t, <2>1, <2>3, <2>4, <2>5 DEF LeaveInv
<1>4. CASE LogoutEnd
  <2>1. /\ End("handler") /\ UNCHANGED <<sip, binding>>
        /\ left' <=> (op["handler"].fate = "granted" /\ op["handler"].quiet)
    BY <1>4, <1>t DEF LogoutEnd, registrar, OpRecord
  <2>2. /\ op'["handler"] = NoOp /\ op'["close"] = op["close"]
        /\ Adding' => Adding
    BY <1>t, <2>1, EndType, EndAdds
  <2>3. Gone => Gone'
    BY <2>1, <2>2, NoOpType DEF Gone
  <2>4. QED
    BY <2>1, <2>2, <2>3, NoOpType DEF LeaveInv
<1>5. ASSUME NEW k \in Clients, KeepTick(k) PROVE LeaveInv'
  <2>1. UNCHANGED <<sip, late, left, binding>>
    BY <1>5 DEF KeepTick, registrar, history
  <2>2. CASE Active(k)
    <3>1. ~Gone
      BY <1>t, <2>2 DEF Active, Gone
    <3>2. Begin(k, k, "add", KeepTime, FALSE)
      BY <1>5, <2>2 DEF KeepTick
    <3>3. op'["handler"] = op["handler"] /\ op'["close"] = op["close"]
      BY <1>t, <3>2 DEF Begin
    <3>4. QED
      BY <2>1, <3>1, <3>3, NothingPromised DEF LeaveInv
  <2>3. CASE ~Active(k)
    <3>1. op' = op
      BY <1>5, <2>3 DEF KeepTick
    <3>2. QED
      BY <2>1, <3>1 DEF LeaveInv, Gone, Adding
  <2>4. QED
    BY <2>2, <2>3
<1>6. ASSUME NEW k \in Clients, KeepSucceeds(k) \/ KeepFails(k) PROVE LeaveInv'
  <2>1. End(k) /\ k \in Owners /\ UNCHANGED <<sip, left, binding>>
    BY <1>6, OwnerFacts DEF KeepSucceeds, KeepFails, registrar, history
  <2>2. /\ op'["handler"] = op["handler"] /\ op'["close"] = op["close"]
        /\ Adding' => Adding
    BY <1>t, <2>1, EndType, EndAdds
  <2>3. QED
    BY <2>1, <2>2, LeaveKept DEF Gone
<1>7. CASE ShutdownBegin
  <2> DEFINE quiet == ~Adding /\ op["handler"] = NoOp
  <2>1. /\ sip # Nil /\ sip' = Nil /\ left' = left /\ late' = late
        /\ Begin("close", sip, "remove", LeaveTime, quiet)
    BY <1>7 DEF ShutdownBegin, history
  <2>2. /\ quiet \in BOOLEAN /\ LeaveTime \in 0..(KeepTime + RegisterTime + LeaveTime)
        /\ sip \in Clients /\ "remove" \in Kinds
    BY <1>t, <2>1, Times DEF Adding, Kinds
  <2> HIDE DEF quiet
  <2>3. /\ \A p \in Owners \ {"close"} : op'[p] = op[p]
        /\ op'["close"].kind = "remove" /\ op'["close"].fate = "sent"
        /\ op'["close"].quiet = quiet
    BY <1>t, <2>1, <2>2, BeginType
  <2>4. ~left /\ \A o \in {"handler", "close"} : ~op[o].quiet
    BY <2>1, NothingPromised DEF Gone
  <2>5. quiet => Gone'
    <3>1. quiet => op'["handler"].fate = "none"
      BY <1>t, <2>3, NoOpType DEF quiet
    <3>2. quiet => ~Adding'
      BY <2>1, <2>3 DEF quiet, Adding
    <3>3. QED
      BY <2>1, <3>1, <3>2 DEF Gone
  <2>6. QED
    BY <1>t, <2>1, <2>3, <2>4, <2>5 DEF LeaveInv
<1>8. ASSUME Stops PROVE /\ Gone => Gone' /\ binding' = binding
                         /\ \A o \in {"handler", "close"} : ~op'[o].quiet
  <2>1. /\ sip' = Nil /\ binding' = binding /\ \A o \in Owners : op'[o] = NoOp
        /\ late' = late \cup UNION {Leftover(o) : o \in Owners}
    BY <1>8 DEF Stops, registrar
  <2>2. Adding' => Adding
    <3>1. ASSUME Adding' PROVE \E m \in late' : m.kind = "add"
      BY <2>1, <3>1, NoOpType DEF Adding
    <3>2. QED
      BY <2>1, <3>1, LeftoverAdds DEF Adding
  <2>3. QED
    BY <1>t, <2>1, <2>2, NoOpType DEF Gone
<1>9. CASE ShutdownEnd
  <2>1. Stops /\ (left' <=> (op["close"].fate = "granted" /\ op["close"].quiet))
    BY <1>9, <1>t DEF ShutdownEnd, OpRecord
  <2>2. QED
    BY <1>8, <2>1 DEF LeaveInv
<1>10. CASE Crash
  BY <1>8, <1>10 DEF Crash, LeaveInv
<1>11. CASE Restart \/ PasswordChanges \/ UNCHANGED vars
  <2>1. UNCHANGED <<sip, late, op, left, binding>>
    BY <1>11 DEF Restart, PasswordChanges, registrar, history, gateway, vars
  <2>2. QED
    BY <2>1 DEF LeaveInv, Gone, Adding
<1>12. ASSUME NEW o \in Owners, Answer(o) PROVE LeaveInv'
  <2>1. /\ UNCHANGED <<sip, late, left>> /\ op[o].fate = "sent"
        /\ binding' = Carried(op[o].kind, client[op[o].of].secret)
        /\ \A p \in Owners \ {o} : op'[p] = op[p]
        /\ op'[o].quiet = op[o].quiet /\ op'[o].kind = op[o].kind
        /\ op'[o].fate = IF client[op[o].of].secret = password THEN "granted" ELSE "refused"
    BY <1>12, <1>t DEF Answer, OpRecord, gateway
  <2>2. Adding' => Adding
    BY <2>1 DEF Adding
  <2>3. Gone => Gone'
    BY <1>t, <2>1, <2>2 DEF Gone
  <2>4. Gone /\ binding = 0 => binding' = 0
    BY <2>1 DEF Gone, Adding, Carried
  <2>5. ASSUME NEW p \in {"handler", "close"}, op'[p].quiet
        PROVE  /\ op[p].quiet /\ op'[p].kind = op[p].kind
               /\ op'[p].fate = "granted" => op[p].fate = "granted" \/ binding' = 0
    BY <1>t, <2>1, <2>5 DEF Carried, LeaveInv
  <2>6. QED
    BY <2>1, <2>3, <2>4, <2>5, LeaveKept
<1>13. ASSUME NEW m \in late, AnswerLate(m) PROVE LeaveInv'
  <2>1. /\ UNCHANGED <<sip, op, left>> /\ late' \subseteq late
        /\ binding' = Carried(m.kind, m.secret)
    BY <1>13 DEF AnswerLate, gateway
  <2>2. Gone => Gone'
    BY <2>1 DEF Gone, Adding
  <2>3. Gone /\ binding = 0 => binding' = 0
    BY <2>1 DEF Gone, Adding, Carried
  <2>4. QED
    BY <2>1, <2>2, <2>3, LeaveKept
<1>14. CASE Forgets
  <2>1. UNCHANGED <<sip, late, op, left>> /\ binding' = 0
    BY <1>14 DEF Forgets, gateway, history
  <2>2. QED
    BY <2>1 DEF LeaveInv, Gone, Adding
<1>15. CASE Tick
  <2>1. /\ UNCHANGED <<sip, left>> /\ binding' = Less(binding)
        /\ \A o \in Owners : /\ op'[o].fate = op[o].fate /\ op'[o].kind = op[o].kind
                             /\ op'[o].quiet = op[o].quiet
    BY <1>15, <1>t DEF Tick, OpRecord
  <2>2. \A m \in late' : \E n \in late : m.kind = n.kind
    BY <1>15, TypeFacts DEF Tick, LateRecord
  <2>3. Gone => Gone'
    BY <1>t, <2>1, <2>2 DEF Gone, Adding
  <2>4. QED
    BY <1>t, <2>1, <2>3, LeaveKept DEF Less
<1>16. QED
  BY <1>1, <1>2, <1>3, <1>4, <1>5, <1>6, <1>7, <1>9, <1>10, <1>11, <1>12,
     <1>13, <1>14, <1>15 DEF Next

(* Once an un-REGISTER was granted the account stays unregistered until it *)
(* is registered again: no keepalive of the old client, no answer that     *)
(* comes late and no failed handler brings the binding back.               *)
THEOREM LogoutsUnbind == Spec => []LogoutUnbinds
<1>1. ASSUME Init PROVE LeaveInv
  <2>1. ~left /\ \A o \in {"handler", "close"} : op[o] = NoOp
    BY <1>1, OwnerFacts DEF Init
  <2>2. QED
    BY <2>1, NoOpType DEF LeaveInv
<1>2. LeaveInv => LogoutUnbinds
  BY DEF LeaveInv, LogoutUnbinds
<1>3. TypeInv /\ LeaveInv /\ [Next]_vars => TypeInv' /\ LeaveInv'
  BY TypeStep, LeaveStep
<1>4. QED
  BY <1>1, <1>2, <1>3, TypeInit, PTL DEF Spec

-----------------------------------------------------------------------------
(***************************************************************************)
(* A loss is noticed.                                                      *)
(***************************************************************************)

(* A step that leaves a keepRegistered and its keepalive alone. *)
LEMMA KeptStays ==
  ASSUME TypeInv, TypeInv', NEW k \in Clients, Kept(k), password <= password',
         op'[k] = op[k], keep'[k] = keep[k],
         client'[k].made = client[k].made, client'[k].secret = client[k].secret
  PROVE  Kept(k)'
<1>1. /\ client[k].secret \in Nat /\ password \in Nat /\ password' \in Nat
  BY TypeFacts, Times DEF TypeInv, TypeOK, ClientRecord
<1>2. QED
  BY <1>1 DEF Kept

LEMMA KeepStep == ASSUME TypeInv, TypeInv', KeepInv, AccountInv, [Next]_vars PROVE KeepInv'
<1>t. /\ op \in [Owners -> OpRecord] /\ keep \in [Clients -> KeepRecord]
      /\ client \in [Clients -> ClientRecord] /\ sip \in Clients \cup {Nil}
      /\ \A k \in Clients : k \in Owners /\ k # "handler" /\ k # "close"
      /\ "handler" \in Owners /\ "close" \in Owners /\ Nil \notin Clients
      /\ password \in Nat /\ password' \in Nat /\ password <= password
  BY OwnerFacts, TypeFacts, Times DEF TypeInv, TypeOK
<1>1. ASSUME NEW k \in Clients, NEW secret \in 0..password, RegisterBegin(k, secret)
      PROVE  KeepInv'
  <2>1. UNCHANGED <<keep, password>> /\ \A q \in Clients : op'[q] = op[q]
    BY <1>1, <1>t DEF RegisterBegin, registrar
  <2> DEFINE shut == IF sip = Nil THEN client ELSE Close(sip)
  <2>2. /\ shut \in [Clients -> ClientRecord]
        /\ \A q \in Clients : shut[q].made = client[q].made /\ shut[q].secret = client[q].secret
    BY <1>t, CloseType
  <2> HIDE DEF shut
  <2>3. client' = [shut EXCEPT ![k] = [made |-> TRUE, open |-> TRUE, secret |-> secret]]
    BY <1>1 DEF RegisterBegin, shut
  <2>4. ASSUME NEW q \in Clients PROVE Kept(q)'
    <3>1. CASE q = k
      <4>1. client'[q].made = TRUE /\ client'[q].secret = secret /\ secret <= password
        BY <1>t, <2>2, <2>3, <3>1
      <4>2. QED
        BY <2>1, <4>1 DEF Kept, KeepInv
    <3>2. CASE q # k
      BY <1>t, <2>1, <2>2, <2>3, <3>2, KeptStays DEF KeepInv
    <3>3. QED
      BY <3>1, <3>2
  <2>5. QED
    BY <2>4 DEF KeepInv
<1>2. CASE RegisterSucceeds
  <2> DEFINE k == op["handler"].of
  <2>1. /\ k \in Clients /\ keep[k].at = "none" /\ client[k].made
        /\ op["handler"].fate # "none"
    BY <1>2, <1>t, TypeFacts DEF RegisterSucceeds, Succeeds, AccountInv
  <2>2. /\ UNCHANGED <<client, password>> /\ End("handler")
        /\ keep' = [keep EXCEPT ![k] = [at |-> "asleep", ticker |-> Period]]
    BY <1>2 DEF RegisterSucceeds, registrar
  <2> HIDE DEF k
  <2>3. \A q \in Clients : op'[q] = op[q]
    BY <1>t, <2>2, EndType
  <2>4. ASSUME NEW q \in Clients PROVE Kept(q)'
    <3>1. CASE q = k
      BY <1>t, <2>1, <2>2, <2>3, <3>1 DEF Kept, KeepInv
    <3>2. CASE q # k
      BY <1>t, <2>2, <2>3, <3>2, KeptStays DEF KeepInv
    <3>3. QED
      BY <3>1, <3>2
  <2>5. QED
    BY <2>4 DEF KeepInv
<1>3. CASE RegisterFails \/ LogoutEnd
  <2>1. /\ UNCHANGED <<keep, password>> /\ End("handler") /\ op["handler"].fate # "none"
        /\ client' = Close(op["handler"].of)
    BY <1>3 DEF RegisterFails, LogoutEnd, Succeeds, Fails, registrar
  <2>2. \A q \in Clients : /\ op'[q] = op[q] /\ client'[q].made = client[q].made
                            /\ client'[q].secret = client[q].secret
    BY <1>t, <2>1, EndType, CloseType, TypeFacts
  <2>3. QED
    BY <1>t, <2>1, <2>2, KeptStays DEF KeepInv
<1>4. CASE LogoutBegin \/ ShutdownBegin
  <2>1. /\ UNCHANGED <<keep, password, client>>
        /\ \A q \in Clients : op'[q] = op[q]
    BY <1>4, <1>t DEF LogoutBegin, ShutdownBegin, Begin, registrar
  <2>2. QED
    BY <1>t, <2>1, KeptStays DEF KeepInv
<1>5. ASSUME NEW k \in Clients, KeepTick(k) PROVE KeepInv'
  <2>1. /\ UNCHANGED <<client, password>> /\ keep[k].at = "asleep"
        /\ \A q \in Clients \ {k} : op'[q] = op[q] /\ keep'[q] = keep[q]
    BY <1>5, <1>t DEF KeepTick, Begin, registrar
  <2>2. Kept(k)'
    <3>0. op[k].fate = "none" /\ client[k].made /\ client[k].secret <= password
      BY <2>1, <1>t DEF KeepInv, Kept, ClientRecord
    <3>1. CASE Active(k)
      <4>1. /\ Begin(k, k, "add", KeepTime, FALSE)
            /\ keep' = [keep EXCEPT ![k] = [at |-> "registering", ticker |-> Period]]
        BY <1>5, <3>1 DEF KeepTick, NextTick
      <4>2. /\ op'[k].of = k /\ op'[k].kind = "add" /\ op'[k].fate = "sent"
            /\ op'[k].left = KeepTime
        BY <1>t, <4>1 DEF Begin
      <4>3. keep'[k].at = "registering" /\ keep'[k].ticker = Period
        BY <1>t, <4>1
      <4>4. Period = (Period - KeepTime) + KeepTime
        BY Times
      <4>5. QED
        BY <2>1, <3>0, <4>2, <4>3, <4>4 DEF Kept
    <3>2. CASE ~Active(k)
      <4>1. op' = op /\ keep'[k].at = "over"
        BY <1>5, <1>t, <3>2 DEF KeepTick, KeepRecord
      <4>2. QED
        BY <2>1, <3>0, <4>1 DEF Kept
    <3>3. QED
      BY <3>1, <3>2
  <2>3. QED
    BY <1>t, <2>1, <2>2, KeptStays DEF KeepInv
<1>6. ASSUME NEW k \in Clients, KeepSucceeds(k) \/ KeepFails(k) PROVE KeepInv'
  <2>1. /\ UNCHANGED <<client, password>> /\ keep[k].at = "registering" /\ End(k)
        /\ keep'[k].at \in {"asleep", "over"}
        /\ \A q \in Clients \ {k} : keep'[q] = keep[q]
    BY <1>6, <1>t DEF KeepSucceeds, KeepFails, registrar, KeepRecord
  <2>2. op'[k] = NoOp /\ \A q \in Clients \ {k} : op'[q] = op[q]
    BY <1>t, <2>1, EndType
  <2>3. Kept(k)'
    BY <1>t, <2>1, <2>2, NoOpType DEF Kept, KeepInv, ClientRecord
  <2>4. QED
    BY <1>t, <2>1, <2>2, <2>3, KeptStays DEF KeepInv
<1>7. CASE ShutdownEnd \/ Crash
  <2>1. Stops
    BY <1>7 DEF ShutdownEnd, Crash
  <2>2. /\ password' = password
        /\ \A q \in Clients : /\ op'[q] = NoOp /\ keep'[q] = NoKeep
                              /\ client'[q].secret = client[q].secret
    BY <1>t, <2>1 DEF Stops, registrar, ClientRecord
  <2>3. NoKeep.at = "none"
    BY DEF NoKeep
  <2>4. QED
    BY <2>2, <2>3, NoOpType DEF KeepInv, Kept
<1>8. CASE Restart \/ PasswordChanges \/ Forgets \/ (\E m \in late : AnswerLate(m)) \/ UNCHANGED vars
  <2>1. UNCHANGED <<op, keep, client>> /\ password <= password'
    BY <1>8, <1>t DEF Restart, PasswordChanges, Forgets, AnswerLate, registrar, gateway, vars
  <2>2. QED
    BY <2>1, KeptStays DEF KeepInv
<1>9. ASSUME NEW o \in Owners, Answer(o) PROVE KeepInv'
  <2>1. /\ UNCHANGED <<keep, client, password>> /\ op[o].fate = "sent"
        /\ \A p \in Owners \ {o} : op'[p] = op[p]
        /\ op'[o].of = op[o].of /\ op'[o].kind = op[o].kind /\ op'[o].left = op[o].left
        /\ op'[o].fate \in {"granted", "refused"}
    BY <1>9, <1>t DEF Answer, OpRecord, gateway
  <2>2. ASSUME NEW q \in Clients PROVE Kept(q)'
    <3>1. CASE q = o
      BY <1>t, <2>1, <3>1 DEF Kept, KeepInv
    <3>2. CASE q # o
      BY <1>t, <2>1, <3>2, KeptStays DEF KeepInv
    <3>3. QED
      BY <3>1, <3>2
  <2>3. QED
    BY <2>2 DEF KeepInv
<1>10. CASE Tick
  <2>1. /\ UNCHANGED <<client, password>>
        /\ \A o \in Owners : /\ op'[o].fate = op[o].fate /\ op'[o].kind = op[o].kind
                             /\ op'[o].of = op[o].of /\ op'[o].left = Less(op[o].left)
                             /\ op[o].fate # "none" => op[o].left # 0
    BY <1>10, <1>t DEF Tick, Due, OpRecord
  <2>2. \A q \in Clients : keep'[q].at = keep[q].at /\ keep'[q].ticker = Less(keep[q].ticker)
    BY <1>10, <1>t DEF Tick, KeepRecord
  <2>3. ASSUME NEW q \in Clients PROVE Kept(q)'
    <3>1. ASSUME op[q].fate # "none"
          PROVE  Less(keep[q].ticker) = (Period - KeepTime) + Less(op[q].left)
      <4>1. keep[q].ticker = (Period - KeepTime) + op[q].left
        BY <3>1 DEF Kept, KeepInv
      <4>2. op[q].left \in Nat /\ op[q].left # 0
        BY <1>t, <2>1, <3>1, Times DEF OpRecord
      <4>3. QED
        BY <4>1, <4>2, Times DEF Less
    <3>2. QED
      BY <1>t, <2>1, <2>2, <3>1 DEF Kept, KeepInv
  <2>4. QED
    BY <2>3 DEF KeepInv
<1>11. QED
  BY <1>1, <1>2, <1>3, <1>4, <1>5, <1>6, <1>7, <1>8, <1>9, <1>10 DEF Next

(* A step that registers nothing, publishes nothing and keeps nothing. *)
LEMMA AccountKept ==
  ASSUME TypeInv, AccountInv, UNCHANGED <<sip, keep>>, registered' => registered,
         unbound' \in {0, unbound},
         op'["handler"].fate # "none" /\ op'["handler"].kind = "add" =>
           /\ op["handler"].fate # "none" /\ op["handler"].kind = "add"
           /\ op'["handler"].of = op["handler"].of
           /\ op["handler"].of \in Clients =>
                client'[op["handler"].of].made = client[op["handler"].of].made
           /\ op'["handler"].fate = "granted" =>
                op["handler"].fate = "granted" \/ unbound' = 0
  PROVE  AccountInv'
BY TypeFacts, OwnerFacts DEF AccountInv

LEMMA AccountStep == ASSUME TypeInv, KeepInv, AccountInv, [Next]_vars PROVE AccountInv'
<1>t. /\ op \in [Owners -> OpRecord] /\ keep \in [Clients -> KeepRecord]
      /\ client \in [Clients -> ClientRecord] /\ sip \in Clients \cup {Nil}
      /\ \A k \in Clients : k \in Owners /\ k # "handler" /\ k # "close"
      /\ "handler" \in Owners /\ "close" \in Owners /\ Nil \notin Clients
      /\ op["handler"].fate # "none" => op["handler"].of \in Clients
  BY OwnerFacts, TypeFacts
<1>1. ASSUME NEW k \in Clients, NEW secret \in 0..password, RegisterBegin(k, secret)
      PROVE  AccountInv'
  <2>1. keep'[k].at = "none" /\ ~registered'
    BY <1>1, <1>t DEF RegisterBegin, KeepInv, Kept
  <2>2. client'[k].made = TRUE
    <3>1. (IF sip = Nil THEN client ELSE Close(sip)) \in [Clients -> ClientRecord]
      BY <1>t, CloseType
    <3>2. QED
      BY <1>1, <3>1 DEF RegisterBegin
  <2>3. op'["handler"].of = k /\ op'["handler"].fate = "sent"
    BY <1>1, <1>t DEF RegisterBegin
  <2>4. QED
    BY <2>1, <2>2, <2>3 DEF AccountInv
<1>2. CASE RegisterSucceeds
  <2>1. /\ op["handler"].of \in Clients /\ sip' = op["handler"].of /\ End("handler")
        /\ keep'[op["handler"].of].at = "asleep"
    BY <1>2, <1>t DEF RegisterSucceeds, Succeeds
  <2>2. op'["handler"] = NoOp
    BY <1>t, <2>1, EndType
  <2>3. QED
    BY <2>1, <2>2, NoOpType DEF AccountInv
<1>3. CASE RegisterFails \/ LogoutEnd
  <2>1. End("handler") /\ UNCHANGED <<sip, keep, registered, unbound>>
    BY <1>3 DEF RegisterFails, LogoutEnd, registrar, history
  <2>2. op'["handler"] = NoOp
    BY <1>t, <2>1, EndType
  <2>3. QED
    BY <2>1, <2>2, NoOpType, AccountKept
<1>4. CASE LogoutBegin
  <2>1. ~registered' /\ op'["handler"].kind = "remove"
    BY <1>4, <1>t DEF LogoutBegin, Begin
  <2>2. QED
    BY <2>1 DEF AccountInv
<1>5. CASE ShutdownBegin
  <2>1. /\ ~registered' /\ op'["handler"] = op["handler"]
        /\ UNCHANGED <<client, keep, unbound>>
    BY <1>5, <1>t DEF ShutdownBegin, Begin, history
  <2>2. QED
    BY <2>1 DEF AccountInv
<1>6. ASSUME NEW k \in Clients, KeepTick(k) PROVE AccountInv'
  <2>1. /\ UNCHANGED <<sip, registered, client, unbound>> /\ keep[k].at = "asleep"
        /\ \A q \in Clients \ {k} : keep'[q] = keep[q]
        /\ op'["handler"] = op["handler"]
        /\ Active(k) => keep'[k].at = "registering"
    BY <1>6, <1>t DEF KeepTick, Begin, history
  <2>2. QED
    BY <1>t, <2>1 DEF AccountInv, Active
<1>7. ASSUME NEW k \in Clients, KeepSucceeds(k) \/ KeepFails(k) PROVE AccountInv'
  <2>1. /\ UNCHANGED <<sip, client, unbound>> /\ keep[k].at = "registering" /\ End(k)
        /\ \A q \in Clients \ {k} : keep'[q] = keep[q]
        /\ registered' => registered
        /\ sip = k /\ registered' => keep'[k].at = "asleep"
    BY <1>7, <1>t DEF KeepSucceeds, KeepFails, history, KeepRecord
  <2>2. op'["handler"] = op["handler"]
    BY <1>t, <2>1, EndType
  <2>3. QED
    BY <1>t, <2>1, <2>2 DEF AccountInv
<1>8. CASE ShutdownEnd \/ Crash
  <2>1. ~registered' /\ op'["handler"] = NoOp
    BY <1>8, <1>t DEF ShutdownEnd, Crash, Stops
  <2>2. QED
    BY <2>1, NoOpType DEF AccountInv
<1>9. CASE Restart \/ PasswordChanges \/ Forgets \/ (\E m \in late : AnswerLate(m)) \/ UNCHANGED vars
  <2>1. UNCHANGED <<op, keep, client, sip, registered>> /\ unbound' \in {0, unbound}
    BY <1>9 DEF Restart, PasswordChanges, Forgets, AnswerLate, registrar, gateway, history, vars
  <2>2. QED
    BY <2>1, AccountKept
<1>10. ASSUME NEW o \in Owners, Answer(o) PROVE AccountInv'
  <2>1. /\ UNCHANGED <<sip, registered, keep, client>> /\ op[o].fate = "sent"
        /\ \A p \in Owners \ {o} : op'[p] = op[p]
        /\ op'[o].of = op[o].of /\ op'[o].kind = op[o].kind
        /\ op'[o].fate = IF client[op[o].of].secret = password THEN "granted" ELSE "refused"
        /\ binding' = Carried(op[o].kind, client[op[o].of].secret)
        /\ unbound' = IF binding' = 0 THEN unbound ELSE 0
    BY <1>10, <1>t DEF Answer, OpRecord, gateway
  <2>2. op[o].kind = "add" /\ op'[o].fate = "granted" => unbound' = 0
    BY <2>1, Times, RegistrationAssumption DEF Carried, Timing
  <2>3. QED
    BY <1>t, <2>1, <2>2, AccountKept
<1>11. CASE Tick
  <2>1. /\ UNCHANGED <<sip, registered, client>> /\ (~registered => unbound' = 0)
        /\ \A k \in Clients : keep'[k].at = keep[k].at
        /\ op'["handler"].fate = op["handler"].fate
        /\ op'["handler"].kind = op["handler"].kind
        /\ op'["handler"].of = op["handler"].of
    BY <1>11, <1>t DEF Tick, More, OpRecord, KeepRecord
  <2>2. QED
    BY <1>t, <2>1 DEF AccountInv
<1>12. QED
  BY <1>1, <1>2, <1>3, <1>4, <1>5, <1>6, <1>7, <1>8, <1>9, <1>10, <1>11 DEF Next

LEMMA LossTypes ==
  ASSUME TypeInv
  PROVE  /\ unbound \in Nat /\ stale \in Nat /\ Period \in Nat /\ KeepTime \in Nat
         /\ Longest \in Nat /\ Longest = Period + KeepTime
         /\ \A k \in Clients : keep[k].ticker \in 0..Period
         /\ \A o \in Owners : op[o].left \in Nat
BY TypeFacts, Times DEF Longest, KeepRecord, OpRecord

(* With no account there is no loss, and an old one is not forgotten. *)
LEMMA NoAccount ==
  ASSUME LossInv, ~registered', unbound' = unbound, stale' = stale
  PROVE  LossInv'
BY DEF LossInv, LossNoticed, TimelyInv

(* A step that leaves the account, its keepalive and its clocks alone. *)
LEMMA LossKept ==
  ASSUME TypeInv, AccountInv, LossInv, registered' => registered, sip' = sip, stale' = stale,
         unbound' = unbound,
         registered' => keep'[sip] = keep[sip] /\ op'[sip] = op[sip],
         registered' /\ client'[sip].secret = password' => client[sip].secret = password
  PROVE  LossInv'
BY DEF LossInv, LossNoticed, TimelyInv, InTime

(* What is noticed in time is noticed before Longest is over. *)
LEMMA InTimeBounds ==
  ASSUME TypeInv, AccountInv, registered, NEW n \in Nat, InTime(n)
  PROVE  n <= Longest
<1>1. /\ sip \in Clients /\ keep[sip].at \in {"asleep", "registering"}
      /\ keep[sip].ticker \in Nat /\ op[sip].left \in Nat
  BY LossTypes, OwnerFacts DEF AccountInv
<1>2. QED
  BY <1>1, LossTypes DEF InTime

LEMMA LossStep ==
  ASSUME TypeInv, TypeInv', KeepInv, AccountInv, AccountInv', LossInv, [Next]_vars
  PROVE  LossInv'
<1>t. /\ op \in [Owners -> OpRecord] /\ keep \in [Clients -> KeepRecord]
      /\ client \in [Clients -> ClientRecord] /\ sip \in Clients \cup {Nil}
      /\ \A k \in Clients : k \in Owners /\ k # "handler" /\ k # "close"
      /\ "handler" \in Owners /\ "close" \in Owners /\ Nil \notin Clients
      /\ op["handler"].fate # "none" => op["handler"].of \in Clients
      /\ registered => sip \in Clients
  BY OwnerFacts, TypeFacts DEF AccountInv
<1>1. ASSUME NEW k \in Clients, NEW secret \in 0..password, RegisterBegin(k, secret)
      PROVE  LossInv'
  BY <1>1, NoAccount DEF RegisterBegin
<1>2. CASE RegisterSucceeds
  <2>1. /\ sip' = op["handler"].of /\ sip' \in Clients /\ stale' = 0 /\ unbound' = 0
        /\ keep'[sip'].at = "asleep" /\ keep'[sip'].ticker = Period
    BY <1>2, <1>t DEF RegisterSucceeds, Succeeds, AccountInv
  <2>2. QED
    BY <2>1, LossTypes DEF LossInv, LossNoticed, TimelyInv, InTime
<1>3. CASE RegisterFails \/ LogoutEnd
  <2>1. /\ End("handler") /\ op["handler"].fate # "none"
        /\ UNCHANGED <<sip, keep, registered, unbound, stale, password>>
        /\ client' = Close(op["handler"].of)
    BY <1>3 DEF RegisterFails, LogoutEnd, Succeeds, Fails, registrar, history
  <2>2. \A q \in Clients : op'[q] = op[q] /\ client'[q].secret = client[q].secret
    <3>1. op["handler"].of \in Clients
      BY <1>t, <2>1
    <3>2. \A q \in Clients : op'[q] = op[q]
      BY <1>t, <2>1, EndType
    <3>3. \A q \in Clients : Close(op["handler"].of)[q].secret = client[q].secret
      BY <3>1, CloseType
    <3>4. QED
      BY <2>1, <3>2, <3>3
  <2>3. QED
    BY <1>t, <2>1, <2>2, LossKept
<1>4. CASE LogoutBegin \/ ShutdownBegin
  BY <1>4, NoAccount DEF LogoutBegin, ShutdownBegin, history
<1>5. ASSUME NEW k \in Clients, KeepTick(k) PROVE LossInv'
  <2>1. /\ UNCHANGED <<sip, registered, client, password, unbound, stale>>
        /\ keep[k].at = "asleep" /\ keep[k].ticker = 0
        /\ \A q \in Clients \ {k} : op'[q] = op[q] /\ keep'[q] = keep[q]
    BY <1>5, <1>t DEF KeepTick, Begin, registrar, history
  <2>2. CASE Active(k)
    <3>1. /\ Begin(k, k, "add", KeepTime, FALSE) /\ keep'[k].at = "registering"
      <4>1. /\ Begin(k, k, "add", KeepTime, FALSE)
            /\ keep' = [keep EXCEPT ![k] = [at |-> "registering", ticker |-> NextTick]]
        BY <1>5, <2>2 DEF KeepTick
      <4>2. QED
        BY <1>t, <4>1
    <3>2. op'[k].fate = "sent" /\ op'[k].left = KeepTime
      BY <1>t, <3>1 DEF Begin
    <3>3. unbound <= Period /\ stale <= Period
      BY <1>t, <2>1, <2>2, LossTypes DEF Active, LossInv, TimelyInv, InTime
    <3>4. unbound + KeepTime <= Longest /\ stale + KeepTime <= Longest
      BY <3>3, LossTypes
    <3>5. QED
      BY <2>1, <2>2, <3>1, <3>2, <3>4
        DEF Active, LossInv, LossNoticed, TimelyInv, InTime, Longest
  <2>3. CASE ~Active(k)
    BY <1>t, <2>1, <2>3, LossKept DEF Active
  <2>4. QED
    BY <2>2, <2>3
<1>6. ASSUME NEW k \in Clients, KeepSucceeds(k) PROVE LossInv'
  <2>1. /\ UNCHANGED <<sip, registered, client, password, unbound, stale>>
        /\ keep[k].at = "registering" /\ op[k].fate = "granted" /\ End(k)
        /\ keep'[k].at = "asleep" /\ keep'[k].ticker = keep[k].ticker
        /\ \A q \in Clients \ {k} : keep'[q] = keep[q]
    BY <1>6, <1>t DEF KeepSucceeds, Succeeds, registrar, history, KeepRecord
  <2>2. \A q \in Clients \ {k} : op'[q] = op[q]
    BY <1>t, <2>1, EndType
  <2>3. CASE registered /\ sip = k
    BY <2>1, <2>3 DEF LossInv, LossNoticed, TimelyInv, InTime
  <2>4. CASE ~(registered /\ sip = k)
    BY <1>t, <2>1, <2>2, <2>4, LossKept
  <2>5. QED
    BY <2>3, <2>4
<1>7. ASSUME NEW k \in Clients, KeepFails(k) PROVE LossInv'
  <2>1. /\ UNCHANGED <<sip, client, password, unbound, stale>> /\ End(k)
        /\ registered' = IF sip = k THEN FALSE ELSE registered
        /\ \A q \in Clients \ {k} : keep'[q] = keep[q]
    BY <1>7, <1>t DEF KeepFails, registrar, history
  <2>2. \A q \in Clients \ {k} : op'[q] = op[q]
    BY <1>t, <2>1, EndType
  <2>3. CASE sip = k
    BY <2>1, <2>3, NoAccount
  <2>4. CASE sip # k
    BY <1>t, <2>1, <2>2, <2>4, LossKept
  <2>5. QED
    BY <2>3, <2>4
<1>8. CASE ShutdownEnd \/ Crash
  BY <1>8, NoAccount DEF ShutdownEnd, Crash, Stops
<1>9. CASE Restart \/ Forgets \/ UNCHANGED vars
  <2>1. UNCHANGED <<op, keep, client, sip, registered, unbound, stale, password>>
    BY <1>9 DEF Restart, Forgets, registrar, gateway, history, vars
  <2>2. QED
    BY <2>1, LossKept
<1>10. CASE PasswordChanges
  <2>1. UNCHANGED <<op, keep, client, sip, registered, unbound, stale>>
    BY <1>10 DEF PasswordChanges, gateway, history
  <2>2. registered => client'[sip].secret # password'
    <3>1. ASSUME registered PROVE client[sip].secret <= password
      BY <1>t, <3>1 DEF KeepInv, Kept
    <3>2. ASSUME registered PROVE client[sip].secret \in Nat /\ password \in Nat
      BY <1>t, <3>2, TypeFacts, Times DEF ClientRecord
    <3>3. password' = password + 1
      BY <1>10 DEF PasswordChanges
    <3>4. QED
      BY <2>1, <3>1, <3>2, <3>3
  <2>3. QED
    BY <2>1, <2>2, LossKept
<1>11. ASSUME NEW o \in Owners, Answer(o) PROVE LossInv'
  <2>1. /\ UNCHANGED <<sip, registered, keep, client, stale, password>> /\ op[o].fate = "sent"
        /\ \A p \in Owners \ {o} : op'[p] = op[p]
        /\ op'[o].left = op[o].left
        /\ op'[o].fate = IF client[op[o].of].secret = password THEN "granted" ELSE "refused"
        /\ binding' = Carried(op[o].kind, client[op[o].of].secret)
        /\ unbound' = IF binding' = 0 THEN unbound ELSE 0
    BY <1>11, <1>t DEF Answer, OpRecord, gateway
  <2>2. unbound' \in Nat /\ unbound' <= unbound
    BY <2>1, LossTypes
  <2>3. LossNoticed'
    BY <2>1, <2>2, LossTypes DEF LossInv, LossNoticed
  <2>4. CASE registered /\ sip = o
    <3>1. op[o].of = sip /\ op[o].kind = "add" /\ keep[sip].at = "registering"
      BY <1>t, <2>1, <2>4 DEF KeepInv, Kept
    <3>2. CASE client[sip].secret = password
      <4>1. unbound' = 0 /\ stale = 0
        BY <2>1, <2>4, <3>1, <3>2, Times, RegistrationAssumption
          DEF Carried, Timing, LossInv, TimelyInv
      <4>2. QED
        BY <1>t, <2>1, <2>3, <2>4, <3>1, <3>2, <4>1, LossTypes DEF LossInv, TimelyInv, InTime
    <3>3. CASE client[sip].secret # password
      <4>1. op'[sip].fate = "refused" /\ op'[sip].left = op[sip].left /\ op[sip].left \in Nat
        BY <1>t, <2>1, <2>4, <3>1, <3>3, LossTypes
      <4>2. unbound + op[sip].left <= Longest /\ stale + op[sip].left <= Longest
        BY <2>1, <2>4, <3>1 DEF LossInv, TimelyInv, InTime
      <4>3. unbound' + op[sip].left <= Longest
        BY <2>2, <4>1, <4>2, LossTypes
      <4>4. QED
        BY <2>1, <2>3, <2>4, <3>1, <3>3, <4>1, <4>2, <4>3 DEF LossInv, TimelyInv, InTime, Longest
    <3>4. QED
      BY <3>2, <3>3
  <2>5. CASE registered /\ sip # o
    <3>1. op'[sip] = op[sip] /\ keep[sip].ticker \in Nat /\ op[sip].left \in Nat
      BY <1>t, <2>1, <2>5, LossTypes
    <3>2. InTime(unbound) => InTime(unbound)'
      BY <2>1, <2>2, <3>1, LossTypes DEF InTime, Longest
    <3>3. InTime(stale) => InTime(stale)'
      BY <2>1, <3>1 DEF InTime, Longest
    <3>4. QED
      BY <2>1, <2>3, <2>5, <3>2, <3>3 DEF LossInv, TimelyInv
  <2>6. CASE ~registered
    BY <2>1, <2>3, <2>6 DEF LossInv, TimelyInv
  <2>7. QED
    BY <2>4, <2>5, <2>6
<1>12. ASSUME NEW m \in late, AnswerLate(m) PROVE LossInv'
  <2>1. /\ UNCHANGED <<sip, registered, keep, client, stale, password, op>>
        /\ unbound' \in Nat /\ unbound' <= unbound
    BY <1>12, LossTypes DEF AnswerLate, gateway
  <2>2. LossNoticed'
    BY <2>1, LossTypes DEF LossInv, LossNoticed
  <2>3. ASSUME registered PROVE TimelyInv'
    <3>1. keep[sip].ticker \in Nat /\ op[sip].left \in Nat
      BY <1>t, <2>3, LossTypes
    <3>2. InTime(unbound) => InTime(unbound)'
      BY <2>1, <3>1, LossTypes DEF InTime, Longest
    <3>3. InTime(stale) => InTime(stale)'
      BY <2>1 DEF InTime, Longest
    <3>4. QED
      BY <2>1, <2>3, <3>2, <3>3 DEF LossInv, TimelyInv
  <2>4. QED
    BY <2>1, <2>2, <2>3 DEF LossInv, TimelyInv
<1>13. CASE Tick
  <2>1. /\ UNCHANGED <<sip, registered, client, password>>
        /\ unbound' = More(unbound, registered /\ binding = 0)
        /\ stale' = More(stale, registered /\ client[sip].secret # password)
    BY <1>13 DEF Tick
  <2>2. CASE ~registered
    BY <2>1, <2>2, LossTypes DEF More, LossInv, LossNoticed, TimelyInv
  <2>3. CASE registered
    <3>1. /\ sip \in Clients /\ keep[sip].at \in {"asleep", "registering"}
          /\ keep'[sip].at = keep[sip].at /\ keep'[sip].ticker = Less(keep[sip].ticker)
          /\ op'[sip].fate = op[sip].fate /\ op'[sip].left = Less(op[sip].left)
      BY <1>13, <1>t, <2>3 DEF Tick, AccountInv, OpRecord, KeepRecord
    <3>2. /\ keep[sip].at = "asleep" => keep[sip].ticker # 0
          /\ keep[sip].at = "registering" =>
               op[sip].left # 0 /\ keep[sip].ticker = (Period - KeepTime) + op[sip].left
      BY <1>13, <1>t, <3>1 DEF Tick, Due, KeepInv, Kept
    <3>3. keep[sip].ticker \in Nat /\ op[sip].left \in Nat
      BY <1>t, <3>1, LossTypes
    <3>4. /\ keep'[sip].ticker = keep[sip].ticker - 1
          /\ keep[sip].at = "registering" => op'[sip].left = op[sip].left - 1
      BY <3>1, <3>2, <3>3, Times DEF Less
    <3>5. ASSUME NEW n \in Nat, NEW m \in Nat, m <= n + 1, InTime(n)
          PROVE  /\ keep'[sip].at = "asleep" => m + keep'[sip].ticker <= Period
                 /\ keep'[sip].at = "registering" =>
                      IF op'[sip].fate = "granted" THEN m + keep'[sip].ticker <= Period
                                                  ELSE m + op'[sip].left <= Longest
      BY <3>1, <3>3, <3>4, <3>5, LossTypes DEF InTime
    <3>6. /\ unbound' \in Nat /\ unbound' <= unbound + 1
          /\ stale' \in Nat /\ stale' <= stale + 1
      BY <2>1, LossTypes DEF More
    <3>7. InTime(unbound)' /\ InTime(stale)'
      <4>1. InTime(unbound) /\ InTime(stale)
        BY <2>3 DEF LossInv, TimelyInv
      <4>2. ASSUME NEW n \in {unbound', stale'}
            PROVE  /\ keep'[sip].at = "asleep" => n + keep'[sip].ticker <= Period
                   /\ keep'[sip].at = "registering" =>
                        IF op'[sip].fate = "granted" THEN n + keep'[sip].ticker <= Period
                                                    ELSE n + op'[sip].left <= Longest
        BY <3>5, <3>6, <4>1, LossTypes
      <4>3. QED
        BY <2>1, <4>2 DEF InTime, Longest
    <3>8. client'[sip].secret = password => stale' = 0
      BY <2>1 DEF More
    <3>9. unbound' <= Longest /\ stale' <= Longest
      <4>1. keep'[sip].ticker \in Nat /\ op'[sip].left \in Nat
        BY <3>1, <3>3 DEF Less
      <4>2. QED
        BY <2>1, <3>1, <3>6, <3>7, <4>1, LossTypes DEF InTime, Longest
    <3>10. QED
      BY <2>1, <2>3, <3>7, <3>8, <3>9 DEF LossInv, LossNoticed, TimelyInv, Longest
  <2>4. QED
    BY <2>2, <2>3
<1>14. QED
  BY <1>1, <1>2, <1>3, <1>4, <1>5, <1>6, <1>7, <1>8, <1>9, <1>10, <1>11, <1>12, <1>13
    DEF Next

(* However many accounts, password changes and restarts of the registrar   *)
(* there are: the gateway never goes on believing for more than a period   *)
(* and a keepalive that it is registered when it is not, or with a         *)
(* password that is no longer valid.                                       *)
THEOREM LossesNoticed == Spec => []LossNoticed
<1>1. ASSUME Init PROVE KeepInv /\ AccountInv /\ LossInv
  <2>1. /\ ~registered /\ unbound = 0 /\ stale = 0 /\ password = 0
        /\ \A o \in Owners : op[o] = NoOp
        /\ \A k \in Clients : keep[k] = NoKeep /\ client[k].secret = 0
    BY <1>1 DEF Init
  <2>2. KeepInv
    BY <2>1, NoOpType, OwnerFacts DEF NoKeep, KeepInv, Kept
  <2>3. AccountInv
    BY <2>1, NoOpType, OwnerFacts DEF AccountInv
  <2>4. LossInv
    BY <2>1, Times DEF LossInv, LossNoticed, TimelyInv, Longest
  <2>5. QED
    BY <2>2, <2>3, <2>4
<1>2. LossInv => LossNoticed
  BY DEF LossInv
<1>3. /\ TypeInv /\ KeepInv /\ AccountInv /\ LossInv /\ [Next]_vars
      => TypeInv' /\ KeepInv' /\ AccountInv' /\ LossInv'
  BY TypeStep, KeepStep, AccountStep, LossStep
<1>4. QED
  BY <1>1, <1>2, <1>3, TypeInit, PTL DEF Spec
-----------------------------------------------------------------------------
(***************************************************************************)
(* The abstract account.                                                   *)
(***************************************************************************)

(* While the first REGISTER of a client is under way there is no account,  *)
(* so that nobody's is replaced when it is granted.                        *)
VacantInv == Registering # Nil => sip = Nil

(* Who is being registered, by what the handler does. *)
LEMMA RegisteringFacts ==
  ASSUME TypeInv
  PROVE  /\ op["handler"].fate = "none" => Registering = Nil
         /\ op["handler"].kind = "remove" => Registering = Nil
         /\ op["handler"].fate # "none" /\ op["handler"].kind = "add" =>
              Registering = op["handler"].of /\ Registering # Nil
BY TypeFacts, OwnerFacts DEF Registering

(* A step of an operation that is not the handler's, and a handler's that  *)
(* stays what it is.                                                       *)
LEMMA RegisteringKept ==
  ASSUME op'["handler"].kind = op["handler"].kind,
         op'["handler"].of = op["handler"].of,
         op'["handler"].fate = "none" <=> op["handler"].fate = "none"
  PROVE  Registering' = Registering
BY DEF Registering

LEMMA MadeKept ==
  ASSUME \A q \in Clients : client'[q].made = client[q].made
  PROVE  Made' = Made
BY DEF Made

(* No keepalive begins or ends. *)
LEMMA RefreshingKept ==
  ASSUME \A q \in Clients : keep'[q].at = "registering" <=> keep[q].at = "registering"
  PROVE  Refreshing' = Refreshing
BY DEF Refreshing

(* Every step is a step of the abstract account, or none. *)
LEMMA AccountRefined ==
  ASSUME TypeInv, TypeInv', AccountInv, VacantInv, [Next]_vars
  PROVE  [Account!Next]_(Account!vars)
<1> USE DEF Account!vars
<1>t. /\ op \in [Owners -> OpRecord] /\ sip \in Clients \cup {Nil}
      /\ client \in [Clients -> ClientRecord] /\ registered \in BOOLEAN
      /\ keep \in [Clients -> KeepRecord]
      /\ \A k \in Clients : k \in Owners /\ k # "handler"
      /\ "handler" \in Owners /\ "close" \in Owners /\ "close" # "handler"
      /\ Nil \notin Clients
      /\ op["handler"].fate # "none" => op["handler"].of \in Clients
  BY OwnerFacts, TypeFacts
<1>1. ASSUME NEW k \in Clients, NEW secret \in 0..password, RegisterBegin(k, secret)
      PROVE  Account!Next
  <2>1. Registering = Nil
    BY <1>1, RegisteringFacts, NoOpType DEF RegisterBegin
  <2>2. /\ k \notin Made /\ sip' = Nil /\ registered' = FALSE
        /\ Refreshing' = Refreshing
    BY <1>1 DEF RegisterBegin, Made, Refreshing
  <2> DEFINE shut == IF sip = Nil THEN client ELSE Close(sip)
             new == [made |-> TRUE, open |-> TRUE, secret |-> secret]
             adding == [of |-> k, kind |-> "add", fate |-> "sent",
                        left |-> RegisterTime, quiet |-> FALSE]
  <2>3. /\ shut \in [Clients -> ClientRecord]
        /\ \A q \in Clients : shut[q].made = client[q].made
    BY <1>t, CloseType
  <2>4. new.made = TRUE
    OBVIOUS
  <2>5. adding.of = k /\ adding.kind = "add" /\ adding.fate = "sent"
    OBVIOUS
  <2> HIDE DEF shut, new, adding
  <2>6. /\ client' = [shut EXCEPT ![k] = new]
        /\ op' = [op EXCEPT !["handler"] = adding, !["close"].quiet = FALSE]
    BY <1>1 DEF RegisterBegin, shut, new, adding
  <2>7. Made' = Made \cup {k}
    BY <2>3, <2>4, <2>6 DEF Made
  <2>8. op'["handler"] = adding
    BY <1>t, <2>6
  <2>9. Registering' = k
    BY <2>5, <2>8 DEF Registering
  <2>10. QED
    BY <2>1, <2>2, <2>7, <2>9 DEF Account!Next, Account!Begin
<1>2. CASE RegisterSucceeds
  <2>1. /\ op["handler"].kind = "add" /\ op["handler"].fate = "granted"
        /\ sip' = op["handler"].of /\ registered' = TRUE /\ client' = client
        /\ End("handler")
        /\ keep' = [keep EXCEPT ![op["handler"].of] = [at |-> "asleep", ticker |-> Period]]
    BY <1>2 DEF RegisterSucceeds, Succeeds
  <2>2. Registering = op["handler"].of /\ Registering # Nil /\ sip = Nil
    BY <2>1, RegisteringFacts DEF VacantInv
  <2>3. op'["handler"].fate = "none"
    BY <1>t, <2>1, EndType, NoOpType
  <2>4. Registering' = Nil
    BY <2>3 DEF Registering
  <2>5. Made' = Made
    BY <2>1, MadeKept
  <2>6. keep[op["handler"].of].at = "none" /\ op["handler"].of \in Clients
    BY <1>t, <2>1 DEF AccountInv
  <2>7. Refreshing' = Refreshing
    BY <1>t, <2>1, <2>6, RefreshingKept
  <2>8. QED
    BY <2>1, <2>2, <2>4, <2>5, <2>7 DEF Account!Next, Account!Adopt
<1>3. CASE RegisterFails
  <2>1. /\ op["handler"].kind = "add" /\ op["handler"].fate # "none"
        /\ UNCHANGED <<sip, registered, keep>> /\ client' = Close(op["handler"].of)
        /\ End("handler")
    BY <1>3 DEF RegisterFails, Fails
  <2>2. Registering # Nil
    BY <2>1, RegisteringFacts
  <2>3. op'["handler"].fate = "none"
    BY <1>t, <2>1, EndType, NoOpType
  <2>4. Registering' = Nil
    BY <2>3 DEF Registering
  <2>5. Made' = Made
    BY <1>t, <2>1, CloseType, MadeKept
  <2>6. QED
    BY <2>1, <2>2, <2>4, <2>5, RefreshingKept DEF Account!Next, Account!GiveUp
<1>4. CASE LogoutBegin
  <2>1. /\ op["handler"] = NoOp /\ sip' = Nil /\ registered' = FALSE
        /\ client' = client /\ keep' = keep
        /\ op'["handler"].kind = "remove"
    BY <1>4, <1>t DEF LogoutBegin, Begin
  <2>2. Registering = Nil
    BY <2>1, RegisteringFacts, NoOpType
  <2>3. Registering' = Nil
    BY <2>1 DEF Registering
  <2>4. Made' = Made
    BY <2>1, MadeKept
  <2>5. QED
    BY <2>1, <2>2, <2>3, <2>4, RefreshingKept DEF Account!Next, Account!Drop
<1>5. CASE LogoutEnd
  <2>1. /\ op["handler"].kind = "remove" /\ op["handler"].fate # "none"
        /\ UNCHANGED <<sip, registered, keep>> /\ client' = Close(op["handler"].of)
        /\ End("handler")
    BY <1>5 DEF LogoutEnd, Fails, Succeeds
  <2>2. Registering = Nil
    BY <2>1, RegisteringFacts
  <2>3. op'["handler"].fate = "none"
    BY <1>t, <2>1, EndType, NoOpType
  <2>4. Registering' = Nil
    BY <2>3 DEF Registering
  <2>5. Made' = Made
    BY <1>t, <2>1, CloseType, MadeKept
  <2>6. QED
    BY <2>1, <2>2, <2>4, <2>5, RefreshingKept
<1>6. ASSUME NEW k \in Clients, KeepTick(k)
      PROVE  [Account!Next]_(Account!vars)
  <2>1. UNCHANGED <<sip, registered, client>> /\ keep[k].at = "asleep"
    BY <1>6 DEF KeepTick
  <2>2. op'["handler"] = op["handler"]
    BY <1>6, <1>t DEF KeepTick, Begin
  <2>3. Registering' = Registering /\ Made' = Made
    BY <2>1, <2>2, RegisteringKept, MadeKept
  <2>4. CASE Active(k)
    <3> DEFINE new == [at |-> "registering", ticker |-> NextTick]
    <3>1. new.at = "registering"
      OBVIOUS
    <3> HIDE DEF new
    <3>2. keep' = [keep EXCEPT ![k] = new]
      BY <1>6, <2>4 DEF KeepTick, new
    <3>3. Refreshing' = Refreshing \cup {k} /\ k \notin Refreshing
      BY <1>t, <2>1, <3>1, <3>2 DEF Refreshing
    <3>4. QED
      BY <2>1, <2>3, <2>4, <3>3 DEF Active, Account!Next, Account!Refresh
  <2>5. CASE ~Active(k)
    <3>1. keep' = [keep EXCEPT ![k].at = "over"]
      BY <1>6, <2>5 DEF KeepTick
    <3>2. Refreshing' = Refreshing
      BY <1>t, <2>1, <3>1, RefreshingKept DEF KeepRecord
    <3>3. QED
      BY <2>1, <2>3, <3>2
  <2>6. QED
    BY <2>4, <2>5
<1>7. ASSUME NEW k \in Clients, KeepSucceeds(k) \/ KeepFails(k)
      PROVE  [Account!Next]_(Account!vars)
  <2>1. /\ UNCHANGED <<sip, client>> /\ End(k)
        /\ keep[k].at = "registering"
        /\ \E at \in {"asleep", "over"} : keep' = [keep EXCEPT ![k].at = at]
        /\ \/ registered' = registered
           \/ registered' = FALSE /\ sip = k
    BY <1>7, <1>t DEF KeepSucceeds, KeepFails
  <2>2. op'["handler"] = op["handler"]
    BY <1>t, <2>1, EndType
  <2>3. Registering' = Registering /\ Made' = Made
    BY <2>1, <2>2, RegisteringKept, MadeKept
  <2>4. Refreshing' = Refreshing \ {k} /\ k \in Refreshing
    BY <1>t, <2>1 DEF Refreshing, KeepRecord
  <2>5. CASE registered' = registered
    BY <2>1, <2>3, <2>4, <2>5 DEF Account!Next, Account!Refreshed
  <2>6. CASE registered' # registered
    <3>1. registered /\ registered' = FALSE /\ sip = k
      BY <1>t, <2>1, <2>6
    <3>2. QED
      BY <2>1, <2>3, <2>4, <3>1 DEF Account!Next, Account!Lose
  <2>7. QED
    BY <2>5, <2>6
<1>8. CASE ShutdownBegin
  <2>1. /\ sip' = Nil /\ registered' = FALSE /\ client' = client /\ keep' = keep
        /\ op'["handler"] = op["handler"]
    BY <1>8, <1>t DEF ShutdownBegin, Begin
  <2>2. Registering' = Registering /\ Made' = Made
    BY <2>1, RegisteringKept, MadeKept
  <2>3. QED
    BY <2>1, <2>2, RefreshingKept DEF Account!Next, Account!Drop
<1>9. CASE ShutdownEnd \/ Crash
  <2>1. /\ sip' = Nil /\ registered' = FALSE
        /\ client' = [k \in Clients |-> [client[k] EXCEPT !.open = FALSE]]
        /\ op' = [o \in Owners |-> NoOp]
        /\ keep' = [k \in Clients |-> NoKeep]
    BY <1>9 DEF ShutdownEnd, Crash, Stops
  <2>2. Registering' = Nil
    BY <1>t, <2>1, NoOpType DEF Registering
  <2>3. \A q \in Clients : client'[q].made = client[q].made
    BY <1>t, <2>1 DEF ClientRecord
  <2>4. Made' = Made
    BY <2>3, MadeKept
  <2>5. Refreshing' = {}
    BY <2>1 DEF Refreshing, NoKeep
  <2>6. QED
    BY <2>1, <2>2, <2>4, <2>5 DEF Account!Next, Account!Drop
<1>10. CASE \/ Restart \/ PasswordChanges \/ Forgets
            \/ \E m \in late : AnswerLate(m)
            \/ UNCHANGED vars
  <2>1. UNCHANGED <<op, client, keep, sip, registered>>
    BY <1>10 DEF Restart, PasswordChanges, Forgets, AnswerLate, gateway, vars
  <2>2. QED
    BY <2>1, RegisteringKept, MadeKept, RefreshingKept
<1>11. ASSUME NEW o \in Owners, Answer(o) PROVE UNCHANGED Account!vars
  <2> DEFINE fate == IF client[op[o].of].secret = password THEN "granted" ELSE "refused"
  <2>1. fate # "none"
    OBVIOUS
  <2> HIDE DEF fate
  <2>2. /\ UNCHANGED <<sip, registered, client, keep>> /\ op[o].fate = "sent"
        /\ op' = [op EXCEPT ![o].fate = fate]
    BY <1>11 DEF Answer, gateway, fate
  <2>3. /\ op'["handler"].kind = op["handler"].kind
        /\ op'["handler"].of = op["handler"].of
        /\ op'["handler"].fate = "none" <=> op["handler"].fate = "none"
    BY <1>t, <2>1, <2>2 DEF OpRecord
  <2>4. QED
    BY <2>2, <2>3, RegisteringKept, MadeKept, RefreshingKept
<1>12. CASE Tick
  <2>1. /\ UNCHANGED <<sip, registered, client>>
        /\ op'["handler"].kind = op["handler"].kind
        /\ op'["handler"].of = op["handler"].of
        /\ op'["handler"].fate = op["handler"].fate
    BY <1>12, <1>t DEF Tick, OpRecord
  <2>2. \A k \in Clients : keep'[k].at = keep[k].at
    BY <1>12, <1>t DEF Tick, KeepRecord
  <2>3. QED
    BY <2>1, <2>2, RegisteringKept, MadeKept, RefreshingKept
<1>13. QED
  BY <1>1, <1>2, <1>3, <1>4, <1>5, <1>6, <1>7, <1>8, <1>9, <1>10, <1>11, <1>12
    DEF Next

(* Only an abstract step changes what VacantInv is about. *)
LEMMA VacantStep ==
  ASSUME VacantInv, [Account!Next]_(Account!vars) PROVE VacantInv'
<1>1. CASE UNCHANGED Account!vars
  BY <1>1 DEF VacantInv, Account!vars
<1>2. CASE Account!Next
  BY <1>2 DEF VacantInv, Account!Next, Account!Begin, Account!Adopt,
              Account!GiveUp, Account!Refresh, Account!Refreshed, Account!Lose,
              Account!Drop
<1>3. QED
  BY <1>1, <1>2

(* handleRegister, keepRegistered, handleLogout and Close implement the    *)
(* abstract account, whenever the program ends and starts again: no answer *)
(* of the registrar, however late, brings a dropped account back.          *)
THEOREM ImplementsAccount == Spec => AccountSpec
<1>1. ASSUME Init PROVE Account!Init /\ KeepInv /\ AccountInv
  <2>1. /\ sip = Nil /\ registered = FALSE /\ password = 0
        /\ \A o \in Owners : op[o] = NoOp
        /\ \A k \in Clients : /\ keep[k] = NoKeep
                              /\ client[k].made = FALSE /\ client[k].secret = 0
    BY <1>1 DEF Init
  <2>2. Registering = Nil /\ Made = {}
    BY <2>1, NoOpType, OwnerFacts DEF Registering, Made
  <2>3. Refreshing = {}
    BY <2>1 DEF Refreshing, NoKeep
  <2>4. KeepInv
    BY <2>1, NoOpType, OwnerFacts DEF NoKeep, KeepInv, Kept
  <2>5. AccountInv
    BY <2>1, NoOpType, OwnerFacts DEF AccountInv
  <2>6. QED
    BY <2>1, <2>2, <2>3, <2>4, <2>5 DEF Account!Init
<1>2. Account!Init => VacantInv
  BY DEF Account!Init, VacantInv
<1>3. /\ TypeInv /\ TypeInv' /\ AccountInv /\ VacantInv /\ [Next]_vars
      => [Account!Next]_(Account!vars) /\ VacantInv'
  BY AccountRefined, VacantStep
<1>4. /\ TypeInv /\ KeepInv /\ AccountInv /\ [Next]_vars
      => TypeInv' /\ KeepInv' /\ AccountInv'
  BY TypeStep, KeepStep, AccountStep
<1>5. QED
  BY <1>1, <1>2, <1>3, <1>4, TypeInit, PTL DEF Spec, AccountSpec, Account!Spec
=============================================================================
