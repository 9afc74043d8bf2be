----------------------------- MODULE SipClient -----------------------------
(***************************************************************************)
(* The SIP client (src/internal/sip/client.go): the transactions behind    *)
(* Register, Unregister, InviteWithCallID and Bye, which any number of     *)
(* goroutines run at once on one UDP socket, and the goroutine (receive)   *)
(* that hands the responses to them.                                       *)
(*                                                                         *)
(* d \in Dialogs is a Call-ID, and the goroutine that works on it: one     *)
(* REGISTER, or one INVITE and later the BYE of its dialog.  The network   *)
(* loses, repeats, delays and reorders: a packet that was sent may be      *)
(* processed any number of times, at any time, or never, so `sent' and     *)
(* `replies' only grow.  A packet is reduced to what the client's branches *)
(* depend on; To, From, Route, Contact and the SDP are left out.           *)
(***************************************************************************)
EXTENDS Naturals, Sequences

CONSTANTS Dialogs,    \* the Call-IDs the client draws
          MaxRetries, \* retransmissions of a request (6 in the code)
          InboxSize,  \* capacity of a transaction's channel (8 in the code)
          MaxCSeq     \* bound: requests with a CSeq number of their own

ASSUME SipClientAssumption ==
  MaxRetries \in Nat /\ InboxSize \in Nat \ {0} /\ MaxCSeq \in Nat \ {0}

VARIABLES open,   \* the UDP socket has not been closed
          cseq,   \* c.cseq
          tx,     \* each goroutine's transaction, with its entry in c.waiters
          sent,   \* the requests the client has sent
          replies \* the responses the far end has sent

vars == <<open, cseq, tx, sent, replies>>

Methods == {"REGISTER", "INVITE", "BYE"}
Codes   == {100, 200, 401, 486}

Requests ==
  [callID : Dialogs, method : Methods \cup {"ACK", "CANCEL"},
   cseq : 1..MaxCSeq, auth : BOOLEAN]

(* `of' is the method in the CSeq header, which the client does not read.  *)
Replies ==
  [callID : Dialogs, of : Methods \cup {"CANCEL"}, cseq : 1..MaxCSeq, code : Codes]

Results == {"none", "ok", "refused", "error", "timeout"}

Transactions ==
  [stage : {"idle", "waiting", "established", "done"},
   method : Methods, cseq : 0..MaxCSeq, auth : BOOLEAN,
   retries : 0..MaxRetries, timer : BOOLEAN, inbox : Seq(Replies), result : Results]

TypeOK ==
  /\ open \in BOOLEAN
  /\ cseq \in 1..(MaxCSeq + 1)
  /\ tx \in [Dialogs -> Transactions]
  /\ sent \subseteq Requests
  /\ replies \subseteq Replies

Init ==
  /\ open = TRUE
  /\ cseq = 1
  /\ tx = [d \in Dialogs |->
            [stage |-> "idle", method |-> "REGISTER", cseq |-> 0, auth |-> FALSE,
             retries |-> 0, timer |-> FALSE, inbox |-> <<>>, result |-> "none"]]
  /\ sent = {}
  /\ replies = {}

-----------------------------------------------------------------------------
(***************************************************************************)
(* A transaction: transactWithMode.                                        *)
(***************************************************************************)
SameCSeq == cseq' = cseq   \* mutant of NextCSeq: a repeated request keeps its number
NextCSeq == cseq' = cseq + 1

(* registerAttempt, inviteAttempt or Bye up to the first write: a number,  *)
(* an entry in c.waiters, the packet, the timer.  An error of that write   *)
(* ends the operation.  `before' is what has been sent until then.         *)
Attempt(d, method, auth, before) ==
  /\ cseq <= MaxCSeq
  /\ NextCSeq
  /\ tx' = [tx EXCEPT ![d] =
             [stage |-> IF open THEN "waiting" ELSE "done", method |-> method,
              cseq |-> cseq, auth |-> auth, retries |-> 0, timer |-> open,
              inbox |-> <<>>, result |-> IF open THEN "none" ELSE "error"]]
  /\ sent' = IF open
               THEN before \cup {[callID |-> d, method |-> method, cseq |-> cseq,
                                  auth |-> auth]}
               ELSE before

(* The transaction returns and its entry in c.waiters is deleted. *)
Finish(d, stage, result) ==
  tx' = [tx EXCEPT ![d].stage = stage, ![d].result = result, ![d].timer = FALSE,
                   ![d].inbox = <<>>]

(* ACK and CANCEL carry the number of their INVITE and are sent once. *)
Packet(d, method) ==
  IF open THEN {[callID |-> d, method |-> method, cseq |-> tx[d].cseq, auth |-> FALSE]}
  ELSE {}

(* The transaction that waits for a response with this Call-ID and number. *)
WaitsAnyCSeq(d, m) == tx[d].stage = "waiting" /\ m.callID = d   \* mutant of Waits
Waits(d, m) ==
  tx[d].stage = "waiting" /\ m.callID = d /\ m.cseq = tx[d].cseq

(* receive: a response nobody waits for, or that finds the channel full,   *)
(* is dropped.                                                             *)
Receive(d, m) ==
  /\ open
  /\ m \in replies
  /\ Waits(d, m)
  /\ Len(tx[d].inbox) < InboxSize
  /\ tx' = [tx EXCEPT ![d].inbox = Append(@, m)]
  /\ UNCHANGED <<open, cseq, sent, replies>>

(* A provisional response to an INVITE stops the retransmissions. *)
ReadProvisional(d) ==
  /\ tx[d].stage = "waiting"
  /\ tx[d].inbox # <<>>
  /\ tx[d].method = "INVITE" /\ Head(tx[d].inbox).code < 200
  /\ tx' = [tx EXCEPT ![d].inbox = Tail(@), ![d].timer = FALSE]
  /\ UNCHANGED <<open, cseq, sent, replies>>

(* The response a transaction returns: to a REGISTER or a BYE the first of *)
(* any kind, to an INVITE the first final one.                             *)
Returns(d, method) ==
  /\ tx[d].stage = "waiting"
  /\ tx[d].method = method
  /\ tx[d].inbox # <<>>
  /\ method = "INVITE" => Head(tx[d].inbox).code >= 200

Code(d) == Head(tx[d].inbox).code

(* A retransmission, or the end after the last one; no CANCEL is sent. *)
TimerFires(d) ==
  /\ tx[d].stage = "waiting"
  /\ tx[d].timer
  /\ IF tx[d].retries >= MaxRetries
       THEN Finish(d, "done", "timeout")
       ELSE tx' = [tx EXCEPT ![d].retries = @ + 1]
  /\ UNCHANGED <<open, cseq, sent, replies>>

(* Mutant of ContextEnds: no CANCEL. *)
ContextEndsSilently(d) ==
  /\ tx[d].stage = "waiting"
  /\ Finish(d, "done", "error")
  /\ UNCHANGED <<open, cseq, sent, replies>>

(* Mutant of ContextEnds: the CANCEL is sent and the response awaited.     *)
CancelAndWait(d) ==
  /\ tx[d].stage = "waiting"
  /\ IF tx[d].method = "INVITE"
       THEN sent' = sent \cup Packet(d, "CANCEL") /\ tx' = tx
       ELSE Finish(d, "done", "error") /\ sent' = sent
  /\ UNCHANGED <<open, cseq, replies>>

(* The context of the operation is cancelled or its deadline passes; the   *)
(* entry in c.waiters is gone when the CANCEL of an INVITE is sent.        *)
ContextEnds(d) ==
  /\ tx[d].stage = "waiting"
  /\ Finish(d, "done", "error")
  /\ sent' = IF tx[d].method = "INVITE" THEN sent \cup Packet(d, "CANCEL") ELSE sent
  /\ UNCHANGED <<open, cseq, replies>>

-----------------------------------------------------------------------------
(***************************************************************************)
(* The operations.                                                         *)
(***************************************************************************)
Begin(d, method) ==
  /\ tx[d].stage = "idle"
  /\ Attempt(d, method, FALSE, sent)
  /\ UNCHANGED <<open, replies>>

BelowThreeHundred(code) == code < 300   \* mutant of Success: no lower bound
Success(code) == code >= 200 /\ code < 300

(* register: one challenge is answered, with the password. *)
Challenged(d) == Code(d) = 401 /\ ~tx[d].auth

RegisterChallenged(d) ==
  /\ Returns(d, "REGISTER")
  /\ Challenged(d)
  /\ Attempt(d, "REGISTER", TRUE, sent)
  /\ UNCHANGED <<open, replies>>

RegisterReturns(d) ==
  /\ Returns(d, "REGISTER")
  /\ ~Challenged(d)
  /\ Finish(d, "done", IF Success(Code(d)) THEN "ok" ELSE "refused")
  /\ UNCHANGED <<open, cseq, sent, replies>>

(* inviteAttempt: every final response is acknowledged, every challenge    *)
(* answered by one more attempt.                                           *)
InviteChallenged(d) ==
  /\ Returns(d, "INVITE")
  /\ Code(d) = 401
  /\ Attempt(d, "INVITE", TRUE, sent \cup Packet(d, "ACK"))
  /\ UNCHANGED <<open, replies>>

InviteReturns(d) ==
  /\ Returns(d, "INVITE")
  /\ Code(d) # 401
  /\ IF Success(Code(d)) THEN Finish(d, "established", "ok")
                         ELSE Finish(d, "done", "refused")
  /\ sent' = sent \cup Packet(d, "ACK")
  /\ UNCHANGED <<open, cseq, replies>>

(* A challenge without realm or nonce. *)
BadChallenge(d) ==
  /\ \/ Returns(d, "REGISTER") /\ Challenged(d)
     \/ Returns(d, "INVITE") /\ Code(d) = 401
  /\ Finish(d, "done", "error")
  /\ sent' = IF tx[d].method = "INVITE" THEN sent \cup Packet(d, "ACK") ELSE sent
  /\ UNCHANGED <<open, cseq, replies>>

Bye(d) ==
  /\ tx[d].stage = "established"
  /\ Attempt(d, "BYE", FALSE, sent)
  /\ UNCHANGED <<open, replies>>

ByeReturns(d) ==
  /\ Returns(d, "BYE")
  /\ Finish(d, "done", IF Success(Code(d)) THEN "ok" ELSE "refused")
  /\ UNCHANGED <<open, cseq, sent, replies>>

Close == open' = FALSE /\ UNCHANGED <<cseq, tx, sent, replies>>

-----------------------------------------------------------------------------
(***************************************************************************)
(* The far end: it may ring, and it decides once about every request.      *)
(***************************************************************************)
Reply(r, of, code) ==
  [callID |-> r.callID, of |-> of, cseq |-> r.cseq, code |-> code]

Decided(r, of) == \E code \in Codes \ {100} : Reply(r, of, code) \in replies

Ring(r) ==
  /\ r \in sent /\ r.method \in Methods
  /\ ~Decided(r, r.method)
  /\ replies' = replies \cup {Reply(r, r.method, 100)}
  /\ UNCHANGED <<open, cseq, tx, sent>>

Decide(r, code) ==
  /\ r \in sent /\ r.method \in Methods
  /\ ~Decided(r, r.method)
  /\ replies' = replies \cup {Reply(r, r.method, code)}
  /\ UNCHANGED <<open, cseq, tx, sent>>

(* A CANCEL is answered; the INVITE it is for is refused (487) if it is    *)
(* still undecided.                                                        *)
TakeCancel(r) ==
  /\ r \in sent /\ r.method = "CANCEL"
  /\ replies' = replies \cup {Reply(r, "CANCEL", 200)}
                  \cup (IF Decided(r, "INVITE") THEN {} ELSE {Reply(r, "INVITE", 486)})
  /\ UNCHANGED <<open, cseq, tx, sent>>

-----------------------------------------------------------------------------
FarEnd ==
  \E r \in sent :
    Ring(r) \/ TakeCancel(r) \/ \E code \in Codes \ {100} : Decide(r, code)

(* The loop of transactWithMode and what its callers do with its result. *)
Run(d) ==
  \/ ReadProvisional(d) \/ TimerFires(d) \/ ContextEnds(d)
  \/ RegisterChallenged(d) \/ RegisterReturns(d)
  \/ InviteChallenged(d) \/ InviteReturns(d) \/ BadChallenge(d)
  \/ ByeReturns(d)

Next ==
  \/ \E d \in Dialogs :
       \/ Begin(d, "REGISTER") \/ Begin(d, "INVITE") \/ Bye(d) \/ Run(d)
       \/ \E m \in replies : Receive(d, m)
  \/ FarEnd \/ Close

Spec == Init /\ [][Next]_vars

-----------------------------------------------------------------------------
(***************************************************************************)
(* Correctness.                                                            *)
(***************************************************************************)

(* What a transaction is handed answers its own request: not an earlier    *)
(* attempt with the same Call-ID (a late 401), not the CANCEL of the       *)
(* INVITE, whose 200 has the same Call-ID and number.  The key of          *)
(* c.waiters does not name the method.                                     *)
OwnAnswer ==
  \A d \in Dialogs : \A i \in 1..Len(tx[d].inbox) :
    LET m == tx[d].inbox[i]
    IN m.of = tx[d].method /\ m.callID = d /\ m.cseq = tx[d].cseq

(* Success is only ever reported if the far end accepted that request. *)
SuccessJustified ==
  \A d \in Dialogs : tx[d].result = "ok" =>
    [callID |-> d, of |-> tx[d].method, cseq |-> tx[d].cseq, code |-> 200] \in replies

(* Once a CANCEL is out for an INVITE, no dialog comes of it: the gateway  *)
(* has forgotten the call and nobody would end it.                         *)
CancelledNeverEstablished ==
  \A d \in Dialogs : tx[d].stage = "established" =>
    ~\E r \in sent : r.callID = d /\ r.method = "CANCEL"

(* Within a Call-ID every new request has a higher number than all before  *)
(* it, the BYE of a dialog included, although the number is not kept per   *)
(* dialog; ACK and CANCEL have the number of an INVITE that was sent.      *)
CSeqOrdered ==
  [][\A r \in sent' \ sent :
       IF r.method \in Methods
         THEN \A q \in sent : q.callID = r.callID => q.cseq < r.cseq
         ELSE \E q \in sent : /\ q.callID = r.callID /\ q.method = "INVITE"
                              /\ q.cseq = r.cseq]_vars

(* A far end that accepted an INVITE is not forgotten: the INVITE still    *)
(* waits, its dialog is (or was) held to send the BYE, or a CANCEL has     *)
(* been sent after it.  Two exceptions are the code's: a transaction that  *)
(* ran out of retransmissions returns without CANCEL, and a client that    *)
(* was closed sends nothing.                                               *)
LegAccounted ==
  \A m \in replies :
    m.of = "INVITE" /\ m.code = 200 =>
      \/ tx[m.callID].stage \in {"waiting", "established"}
      \/ tx[m.callID].method = "BYE"
      \/ [callID |-> m.callID, method |-> "CANCEL", cseq |-> m.cseq, auth |-> FALSE] \in sent
      \/ tx[m.callID].result = "timeout"
      \/ ~open

(* A registration is reported as refused only if the registrar refused it: *)
(* the keepalive takes the account for lost on any other report as well.   *)
RefusalJustified ==
  \A d \in Dialogs : tx[d].method = "REGISTER" /\ tx[d].result = "refused" =>
    \E code \in {401, 486} :
      [callID |-> d, of |-> "REGISTER", cseq |-> tx[d].cseq, code |-> code] \in replies
=============================================================================
