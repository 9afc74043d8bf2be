-------------------------- MODULE SipClientProofs --------------------------
(***************************************************************************)
(* Theorems about SipClient.tla, for any number of Call-IDs, any bounds    *)
(* and any network that loses, repeats and reorders.                       *)
(***************************************************************************)
EXTENDS SipClient, TLAPS

-----------------------------------------------------------------------------
(***************************************************************************)
(* The inductive invariant.                                                *)
(***************************************************************************)
Request(d, method, number) ==
  \E r \in sent : r.callID = d /\ r.method = method /\ r.cseq = number

Response(d, of, number, code) ==
  [callID |-> d, of |-> of, cseq |-> number, code |-> code] \in replies

Cancel(d) == [callID |-> d, method |-> "CANCEL", cseq |-> tx[d].cseq, auth |-> FALSE]
Ack(d)    == [callID |-> d, method |-> "ACK", cseq |-> tx[d].cseq, auth |-> FALSE]

(* Numbers are given out in order, and a goroutine has the last of its own. *)
NumberInv ==
  /\ \A d \in Dialogs : tx[d].cseq < cseq
  /\ \A r \in sent : r.cseq <= tx[r.callID].cseq

(* A goroutine that has not begun has sent nothing; one that waits has     *)
(* sent its request, and nothing else with its number.                     *)
StageInv ==
  /\ \A r \in sent : tx[r.callID].stage # "idle"
  /\ \A d \in Dialogs : tx[d].stage = "waiting" =>
       /\ Request(d, tx[d].method, tx[d].cseq)
       /\ \A r \in sent : r.callID = d /\ r.cseq = tx[d].cseq => r.method = tx[d].method

(* ACK and CANCEL are for an INVITE; a goroutine that cancelled is over.   *)
CancelInv ==
  \A r \in sent :
    /\ r.method \in {"ACK", "CANCEL"} => Request(r.callID, "INVITE", r.cseq)
    /\ r.method = "CANCEL" => tx[r.callID].stage = "done"

(* A response answers a request, and only its channel's transaction has it. *)
ReplyInv ==
  \A m \in replies : Request(m.callID, m.of, m.cseq)

InboxInv ==
  \A d \in Dialogs : \A i \in 1..Len(tx[d].inbox) :
    LET m == tx[d].inbox[i]
    IN /\ tx[d].stage = "waiting"
       /\ m \in replies /\ m.callID = d /\ m.cseq = tx[d].cseq

(* The far end decides once about a request. *)
DecidedOnce ==
  \A m, n \in replies :
    m.of \in Methods /\ m.callID = n.callID /\ m.of = n.of /\ m.cseq = n.cseq
      /\ m.code # 100 /\ n.code # 100 => m.code = n.code

(* An INVITE is the current request of its goroutine, or was challenged,   *)
(* or its dialog has come to the BYE.                                      *)
InviteInv ==
  \A r \in sent : r.method = "INVITE" =>
    \/ tx[r.callID].method = "BYE"
    \/ /\ tx[r.callID].method = "INVITE"
       /\ r.cseq = tx[r.callID].cseq \/ Response(r.callID, "INVITE", r.cseq, 401)

(* Why an INVITE has ended without a dialog. *)
Ended(d) ==
  \/ ~open
  \/ tx[d].result = "timeout"
  \/ Cancel(d) \in sent
  \/ \E code \in {401, 486} : Response(d, "INVITE", tx[d].cseq, code)

EndedInv ==
  \A d \in Dialogs : tx[d].stage = "done" /\ tx[d].method = "INVITE" => Ended(d)

IInv ==
  /\ TypeOK /\ NumberInv /\ StageInv /\ CancelInv /\ ReplyInv /\ InboxInv
  /\ DecidedOnce /\ InviteInv /\ EndedInv /\ SuccessJustified

-----------------------------------------------------------------------------
(***************************************************************************)
(* What the two halves of a transaction do to it.                          *)
(***************************************************************************)

(* A goroutine's requests, ACKs and CANCELs are well-typed.                *)
LEMMA PacketType ==
  ASSUME TypeOK, NEW d \in Dialogs, tx[d].cseq > 0
  PROVE  Ack(d) \in Requests /\ Cancel(d) \in Requests
BY DEF TypeOK, Transactions, Ack, Cancel, Requests

(* Attempt. *)
LEMMA AttemptEffect ==
  ASSUME TypeOK, NEW d \in Dialogs, NEW method \in Methods, NEW auth \in BOOLEAN,
         NEW before \in SUBSET Requests, Attempt(d, method, auth, before)
  PROVE  /\ cseq' = cseq + 1 /\ cseq' \in 1..(MaxCSeq + 1)
         /\ tx' \in [Dialogs -> Transactions]
         /\ \A e \in Dialogs \ {d} : tx'[e] = tx[e]
         /\ tx'[d].stage = IF open THEN "waiting" ELSE "done"
         /\ tx'[d].method = method /\ tx'[d].cseq = cseq /\ tx'[d].inbox = <<>>
         /\ tx'[d].result = IF open THEN "none" ELSE "error"
         /\ sent' = IF open THEN before \cup {[callID |-> d, method |-> method,
                                                cseq |-> cseq, auth |-> auth]}
                            ELSE before
         /\ sent' \subseteq Requests
<1> DEFINE new == [stage |-> IF open THEN "waiting" ELSE "done", method |-> method,
                   cseq |-> cseq, auth |-> auth, retries |-> 0, timer |-> open,
                   inbox |-> <<>>, result |-> IF open THEN "none" ELSE "error"]
<1>1. cseq \in 1..MaxCSeq /\ cseq' = cseq + 1
  BY SipClientAssumption DEF TypeOK, Attempt, NextCSeq
<1>2. new \in Transactions
  <2>1. <<>> \in Seq(Replies)
    OBVIOUS
  <2>2. 0 \in 0..MaxRetries /\ cseq \in 0..MaxCSeq
    BY <1>1, SipClientAssumption
  <2>3. open \in BOOLEAN
    BY DEF TypeOK
  <2>4. QED
    BY <2>1, <2>2, <2>3 DEF Transactions, Results
<1>3. tx' = [tx EXCEPT ![d] = new]
  BY DEF Attempt
<1>4. tx' \in [Dialogs -> Transactions] /\ tx'[d] = new /\ \A e \in Dialogs \ {d} : tx'[e] = tx[e]
  BY <1>2, <1>3 DEF TypeOK
<1>5. [callID |-> d, method |-> method, cseq |-> cseq, auth |-> auth] \in Requests
  BY <1>1 DEF Requests
<1>6. QED
  BY <1>1, <1>4, <1>5, SipClientAssumption DEF Attempt

(* Finish. *)
LEMMA FinishEffect ==
  ASSUME TypeOK, NEW d \in Dialogs, NEW stage \in {"established", "done"},
         NEW result \in Results, Finish(d, stage, result)
  PROVE  /\ tx' \in [Dialogs -> Transactions]
         /\ \A e \in Dialogs \ {d} : tx'[e] = tx[e]
         /\ tx'[d].stage = stage /\ tx'[d].result = result /\ tx'[d].inbox = <<>>
         /\ tx'[d].method = tx[d].method /\ tx'[d].cseq = tx[d].cseq
<1> DEFINE new == [tx[d] EXCEPT !.stage = stage, !.result = result, !.timer = FALSE,
                                !.inbox = <<>>]
<1>1. tx[d] \in Transactions
  BY DEF TypeOK
<1>2. new \in Transactions
  <2>1. <<>> \in Seq(Replies)
    OBVIOUS
  <2>2. QED
    BY <1>1, <2>1 DEF Transactions
<1>3. /\ new.stage = stage /\ new.result = result /\ new.inbox = <<>>
      /\ new.method = tx[d].method /\ new.cseq = tx[d].cseq
  BY <1>1 DEF Transactions
<1>4. tx' = [tx EXCEPT ![d] = new]
  BY DEF Finish
<1>5. tx' \in [Dialogs -> Transactions] /\ tx'[d] = new /\ \A e \in Dialogs \ {d} : tx'[e] = tx[e]
  BY <1>2, <1>4 DEF TypeOK
<1>6. QED
  BY <1>3, <1>5

(* The response that a transaction returns is one to its own request.      *)
LEMMA HeadOwn ==
  ASSUME IInv, NEW d \in Dialogs, tx[d].inbox # <<>>
  PROVE  /\ tx[d].stage = "waiting"
         /\ Code(d) \in Codes
         /\ Head(tx[d].inbox) \in replies
         /\ Response(d, tx[d].method, tx[d].cseq, Code(d))
<1> DEFINE m == Head(tx[d].inbox)
<1>1. tx[d].inbox \in Seq(Replies)
  BY DEF IInv, TypeOK, Transactions
<1>2. Len(tx[d].inbox) > 0 /\ m = tx[d].inbox[1] /\ m \in Replies
  BY <1>1
<1>3. tx[d].stage = "waiting" /\ m \in replies /\ m.callID = d /\ m.cseq = tx[d].cseq
  BY <1>1, <1>2 DEF IInv, InboxInv
<1>4. m.of = tx[d].method
  BY <1>3 DEF IInv, ReplyInv, Request, StageInv
<1>5. m = [callID |-> d, of |-> tx[d].method, cseq |-> tx[d].cseq, code |-> m.code]
  BY <1>2, <1>3, <1>4 DEF Replies
<1>6. QED
  BY <1>2, <1>3, <1>5 DEF Response, Code, Replies

-----------------------------------------------------------------------------
(***************************************************************************)
(* The invariant is kept by each kind of step.                             *)
(***************************************************************************)

(* The number of a request that waits is one of a packet. *)
LEMMA WaitingNumber ==
  ASSUME IInv, NEW d \in Dialogs, tx[d].stage = "waiting"
  PROVE  Ack(d) \in Requests /\ Cancel(d) \in Requests
<1>1. PICK r \in sent : r.callID = d /\ r.cseq = tx[d].cseq
  BY DEF IInv, StageInv, Request
<1>2. tx[d].cseq > 0
  BY <1>1 DEF IInv, TypeOK, Requests
<1>3. QED
  BY <1>2, PacketType DEF IInv

(* A further request of a goroutine, with the ACK of the one before. *)
LEMMA AttemptStep ==
  ASSUME IInv, NEW d \in Dialogs, NEW method \in Methods, NEW auth \in BOOLEAN,
         NEW acks \in SUBSET {Ack(d)},
         Attempt(d, method, auth, sent \cup acks), UNCHANGED <<open, replies>>,
         tx[d].stage # "done",
         acks # {} => tx[d].stage = "waiting" /\ tx[d].method = "INVITE",
         method = "INVITE" =>
           \/ tx[d].stage = "idle"
           \/ tx[d].method = "INVITE" /\ Response(d, "INVITE", tx[d].cseq, 401),
         method = "REGISTER" => tx[d].stage = "idle" \/ tx[d].method = "REGISTER"
  PROVE  IInv'
<1> DEFINE new == [callID |-> d, method |-> method, cseq |-> cseq, auth |-> auth]
<1>1. acks \subseteq Requests
  BY WaitingNumber
<1>2. sent \cup acks \in SUBSET Requests
  BY <1>1 DEF IInv, TypeOK
<1>3. /\ cseq' = cseq + 1 /\ cseq' \in 1..(MaxCSeq + 1)
      /\ tx' \in [Dialogs -> Transactions]
      /\ \A e \in Dialogs \ {d} : tx'[e] = tx[e]
      /\ tx'[d].stage = IF open THEN "waiting" ELSE "done"
      /\ tx'[d].method = method /\ tx'[d].cseq = cseq /\ tx'[d].inbox = <<>>
      /\ tx'[d].result = IF open THEN "none" ELSE "error"
      /\ sent' = IF open THEN (sent \cup acks) \cup {new} ELSE sent \cup acks
      /\ sent' \subseteq Requests
  BY <1>2, AttemptEffect DEF IInv
<1>4. TypeOK'
  BY <1>3 DEF IInv, TypeOK
<1>5. tx[d].cseq < cseq /\ cseq \in Nat /\ \A e \in Dialogs : tx[e].cseq \in Nat
  BY DEF IInv, NumberInv, TypeOK, Transactions
<1>6. \A r \in sent : r.callID \in Dialogs /\ r.cseq \in Nat /\ r.cseq <= tx[r.callID].cseq
  BY DEF IInv, NumberInv, TypeOK, Requests
<1>7. \A r \in sent' : r \in sent \/ (r = Ack(d) /\ acks # {}) \/ r = new
  BY <1>3
<1>8. \A e, q, n : Request(e, q, n) => Request(e, q, n)'
  BY <1>3 DEF Request
<1>9. NumberInv'
  <2>1. \A e \in Dialogs : tx'[e].cseq < cseq'
    BY <1>3, <1>5 DEF IInv, NumberInv
  <2>2. ASSUME NEW r \in sent' PROVE r.cseq <= tx'[r.callID].cseq
    <3>1. CASE r \in sent /\ r.callID # d
      BY <3>1, <1>3, <1>6
    <3>2. CASE r \in sent /\ r.callID = d
      BY <3>2, <1>3, <1>5, <1>6
    <3>3. CASE r = Ack(d) \/ r = new
      BY <3>3, <1>3, <1>5 DEF Ack
    <3>4. QED
      BY <3>1, <3>2, <3>3, <1>7
  <2>3. QED
    BY <2>1, <2>2 DEF NumberInv
<1>10. StageInv'
  <2>1. ASSUME NEW r \in sent' PROVE tx'[r.callID].stage # "idle"
    BY <1>3, <1>6, <1>7 DEF IInv, StageInv, Ack
  <2>2. ASSUME NEW e \in Dialogs, e # d, tx'[e].stage = "waiting"
        PROVE  /\ Request(e, tx[e].method, tx[e].cseq)'
               /\ \A r \in sent' : r.callID = e /\ r.cseq = tx'[e].cseq => r.method = tx'[e].method
    <3>1. tx'[e] = tx[e]
      BY <2>2, <1>3
    <3>2. \A r \in sent' : r.callID = e => r \in sent
      BY <2>2, <1>7 DEF Ack
    <3>3. QED
      BY <2>2, <3>1, <3>2, <1>3 DEF IInv, StageInv, Request
  <2>3. ASSUME tx'[d].stage = "waiting"
        PROVE  /\ Request(d, tx[d].method, tx[d].cseq)'
               /\ \A r \in sent' : r.callID = d /\ r.cseq = tx'[d].cseq => r.method = tx'[d].method
    <3>1. new \in sent'
      BY <2>3, <1>3
    <3>2. \A r \in sent' : r.callID = d /\ r.cseq = cseq => r = new
      BY <1>5, <1>6, <1>7 DEF Ack
    <3>3. QED
      BY <3>1, <3>2, <1>3 DEF Request
  <2>4. QED
    BY <2>1, <2>2, <2>3 DEF StageInv
<1>11. CancelInv'
  <2>1. ASSUME NEW r \in sent PROVE (r.method = "CANCEL" => tx'[r.callID].stage = "done")
    BY <1>3, <1>6 DEF IInv, CancelInv
  <2>2. acks # {} => Request(d, "INVITE", tx[d].cseq)
    BY DEF IInv, StageInv
  <2>3. \A r \in sent : r.method \in {"ACK", "CANCEL"} => Request(r.callID, "INVITE", r.cseq)'
    BY <1>8 DEF IInv, CancelInv
  <2>4. ASSUME NEW r \in sent', r.method \in {"ACK", "CANCEL"}
        PROVE  Request(r.callID, "INVITE", r.cseq)'
    BY <2>4, <2>2, <2>3, <1>7, <1>8 DEF Ack, Methods
  <2>5. QED
    BY <2>1, <2>4, <1>7 DEF CancelInv, Ack, Methods
<1>12. ReplyInv'
  BY <1>8 DEF IInv, ReplyInv
<1>13. InboxInv'
  <2>1. ASSUME NEW e \in Dialogs, NEW i \in 1..Len(tx'[e].inbox)
        PROVE  /\ tx'[e].stage = "waiting"
               /\ tx'[e].inbox[i] \in replies'
               /\ tx'[e].inbox[i].callID = e /\ tx'[e].inbox[i].cseq = tx'[e].cseq
    <3>1. e # d
      BY <1>3
    <3>2. QED
      BY <3>1, <1>3 DEF IInv, InboxInv
  <2>2. QED
    BY <2>1 DEF InboxInv
<1>14. DecidedOnce'
  BY DEF IInv, DecidedOnce
<1>15. InviteInv'
  <2>1. ASSUME NEW r \in sent', r.method = "INVITE"
        PROVE  \/ tx'[r.callID].method = "BYE"
               \/ /\ tx'[r.callID].method = "INVITE"
                  /\ r.cseq = tx'[r.callID].cseq \/ Response(r.callID, "INVITE", r.cseq, 401)'
    <3>1. CASE r \in sent /\ r.callID # d
      BY <2>1, <3>1, <1>3, <1>6 DEF IInv, InviteInv, Response
    <3>2. CASE r \in sent /\ r.callID = d
      <4>1. tx[d].stage # "idle"
        BY <3>2 DEF IInv, StageInv
      <4>2. QED
        BY <2>1, <3>2, <4>1, <1>3 DEF IInv, InviteInv, Response, Methods
    <3>3. CASE r = new
      BY <2>1, <3>3, <1>3
    <3>4. QED
      BY <2>1, <3>1, <3>2, <3>3, <1>7 DEF Ack
  <2>2. QED
    BY <2>1 DEF InviteInv
<1>16. EndedInv'
  BY <1>3 DEF IInv, EndedInv, Ended, Cancel, Response
<1>17. SuccessJustified'
  BY <1>3 DEF IInv, SuccessJustified
<1>18. QED
  BY <1>4, <1>9, <1>10, <1>11, <1>12, <1>13, <1>14, <1>15, <1>16, <1>17 DEF IInv

(* The end of a transaction, with its ACK or its CANCEL. *)
LEMMA FinishStep ==
  ASSUME IInv, NEW d \in Dialogs, NEW stage \in {"established", "done"},
         NEW result \in Results, NEW packets \in SUBSET {Ack(d), Cancel(d)},
         Finish(d, stage, result), sent' = sent \cup packets,
         UNCHANGED <<open, cseq, replies>>,
         tx[d].stage = "waiting",
         packets # {} => tx[d].method = "INVITE",
         Cancel(d) \in packets => stage = "done",
         result = "ok" => Response(d, tx[d].method, tx[d].cseq, 200),
         stage = "done" /\ tx[d].method = "INVITE" =>
           \/ ~open \/ result = "timeout" \/ Cancel(d) \in packets
           \/ \E code \in {401, 486} : Response(d, "INVITE", tx[d].cseq, code)
  PROVE  IInv'
<1>1. packets \subseteq Requests
  BY WaitingNumber
<1>2. /\ tx' \in [Dialogs -> Transactions]
      /\ \A e \in Dialogs \ {d} : tx'[e] = tx[e]
      /\ tx'[d].stage = stage /\ tx'[d].result = result /\ tx'[d].inbox = <<>>
      /\ tx'[d].method = tx[d].method /\ tx'[d].cseq = tx[d].cseq
  BY FinishEffect DEF IInv
<1>3. TypeOK'
  BY <1>1, <1>2 DEF IInv, TypeOK
<1>4. \A r \in sent : r.callID \in Dialogs
  BY DEF IInv, TypeOK, Requests
<1>5. \A r \in sent' : r \in sent \/ (r \in packets /\ (r = Ack(d) \/ r = Cancel(d)))
  OBVIOUS
<1>6. \A e \in Dialogs : tx'[e].cseq = tx[e].cseq /\ tx'[e].method = tx[e].method
  BY <1>2
<1>7. \A e, q, n : Request(e, q, n) => Request(e, q, n)'
  BY DEF Request
<1>8. Request(d, tx[d].method, tx[d].cseq)
  BY DEF IInv, StageInv
<1>9. NumberInv'
  <2>1. tx[d].cseq \in Nat
    BY DEF IInv, TypeOK, Transactions
  <2>2. \A r \in sent' : r.cseq <= tx'[r.callID].cseq
    BY <2>1, <1>4, <1>5, <1>6 DEF IInv, NumberInv, Ack, Cancel
  <2>3. QED
    BY <2>2, <1>6 DEF IInv, NumberInv
<1>10. StageInv'
  <2>1. ASSUME NEW r \in sent' PROVE tx'[r.callID].stage # "idle"
    BY <1>2, <1>4, <1>5 DEF IInv, StageInv, Ack, Cancel
  <2>2. ASSUME NEW e \in Dialogs, tx'[e].stage = "waiting"
        PROVE  /\ Request(e, tx[e].method, tx[e].cseq)'
               /\ \A r \in sent' : r.callID = e /\ r.cseq = tx'[e].cseq => r.method = tx'[e].method
    <3>1. e # d /\ tx'[e] = tx[e]
      BY <2>2, <1>2
    <3>2. \A r \in sent' : r.callID = e => r \in sent
      BY <3>1, <1>5 DEF Ack, Cancel
    <3>3. QED
      BY <2>2, <3>1, <3>2 DEF IInv, StageInv, Request
  <2>3. QED
    BY <2>1, <2>2 DEF StageInv
<1>11. CancelInv'
  <2>1. ASSUME NEW r \in sent'
        PROVE  r.method \in {"ACK", "CANCEL"} => Request(r.callID, "INVITE", r.cseq)'
    BY <1>5, <1>7, <1>8 DEF IInv, CancelInv, Ack, Cancel
  <2>2. ASSUME NEW r \in sent', r.method = "CANCEL" PROVE tx'[r.callID].stage = "done"
    <3>1. CASE r \in sent
      <4>1. tx[r.callID].stage = "done" /\ r.callID \in Dialogs
        BY <2>2, <3>1, <1>4 DEF IInv, CancelInv
      <4>2. r.callID # d
        BY <4>1
      <4>3. QED
        BY <4>1, <4>2, <1>2
    <3>2. CASE r \in packets /\ (r = Ack(d) \/ r = Cancel(d))
      <4>1. r = Cancel(d) /\ r.callID = d
        BY <2>2, <3>2 DEF Ack, Cancel
      <4>2. QED
        BY <3>2, <4>1, <1>2
    <3>3. QED
      BY <3>1, <3>2, <1>5
  <2>3. QED
    BY <2>1, <2>2 DEF CancelInv
<1>12. ReplyInv'
  BY <1>7 DEF IInv, ReplyInv
<1>13. InboxInv'
  <2>1. ASSUME NEW e \in Dialogs, NEW i \in 1..Len(tx'[e].inbox)
        PROVE  /\ tx'[e].stage = "waiting"
               /\ tx'[e].inbox[i] \in replies'
               /\ tx'[e].inbox[i].callID = e /\ tx'[e].inbox[i].cseq = tx'[e].cseq
    <3>1. e # d
      BY <1>2
    <3>2. QED
      BY <3>1, <1>2 DEF IInv, InboxInv
  <2>2. QED
    BY <2>1 DEF InboxInv
<1>14. DecidedOnce'
  BY DEF IInv, DecidedOnce
<1>15. InviteInv'
  BY <1>4, <1>5, <1>6 DEF IInv, InviteInv, Response, Ack, Cancel
<1>16. EndedInv'
  <2>1. ASSUME NEW e \in Dialogs, e # d, tx'[e].stage = "done", tx'[e].method = "INVITE"
        PROVE  Ended(e)'
    BY <2>1, <1>2 DEF IInv, EndedInv, Ended, Cancel, Response
  <2>2. ASSUME tx'[d].stage = "done", tx'[d].method = "INVITE" PROVE Ended(d)'
    BY <2>2, <1>2 DEF Ended, Cancel, Response
  <2>3. QED
    BY <2>1, <2>2 DEF EndedInv
<1>17. SuccessJustified'
  BY <1>2 DEF IInv, SuccessJustified, Response
<1>18. QED
  BY <1>3, <1>9, <1>10, <1>11, <1>12, <1>13, <1>14, <1>15, <1>16, <1>17 DEF IInv

(* A step within a transaction: its channel and its timer. *)
LEMMA InnerStep ==
  ASSUME IInv, NEW d \in Dialogs, tx' \in [Dialogs -> Transactions],
         \A e \in Dialogs \ {d} : tx'[e] = tx[e],
         tx'[d].stage = tx[d].stage, tx'[d].method = tx[d].method,
         tx'[d].cseq = tx[d].cseq, tx'[d].result = tx[d].result,
         \A i \in 1..Len(tx'[d].inbox) :
           /\ tx[d].stage = "waiting" /\ tx'[d].inbox[i] \in replies
           /\ tx'[d].inbox[i].callID = d /\ tx'[d].inbox[i].cseq = tx[d].cseq,
         UNCHANGED <<open, cseq, sent, replies>>
  PROVE  IInv'
<1>1. \A e \in Dialogs : /\ tx'[e].stage = tx[e].stage /\ tx'[e].method = tx[e].method
                         /\ tx'[e].cseq = tx[e].cseq /\ tx'[e].result = tx[e].result
  OBVIOUS
<1>2. \A r \in sent : r.callID \in Dialogs
  BY DEF IInv, TypeOK, Requests
<1>3. TypeOK'
  BY DEF IInv, TypeOK
<1>4. NumberInv'
  BY <1>1, <1>2 DEF IInv, NumberInv
<1>5. StageInv'
  BY <1>1, <1>2 DEF IInv, StageInv, Request
<1>6. CancelInv'
  BY <1>1, <1>2 DEF IInv, CancelInv, Request
<1>7. ReplyInv' /\ DecidedOnce'
  BY DEF IInv, ReplyInv, Request, DecidedOnce
<1>8. InboxInv'
  BY DEF IInv, InboxInv
<1>9. InviteInv'
  BY <1>1, <1>2 DEF IInv, InviteInv, Response
<1>10. EndedInv'
  BY <1>1 DEF IInv, EndedInv, Ended, Cancel, Response
<1>11. SuccessJustified'
  BY <1>1 DEF IInv, SuccessJustified
<1>12. QED
  BY <1>3, <1>4, <1>5, <1>6, <1>7, <1>8, <1>9, <1>10, <1>11 DEF IInv

(* The far end answers. *)
LEMMA ReplyStep ==
  ASSUME IInv, NEW more \in SUBSET Replies, replies' = replies \cup more,
         \A m \in more : Request(m.callID, m.of, m.cseq),
         DecidedOnce',
         UNCHANGED <<open, cseq, tx, sent>>
  PROVE  IInv'
<1>1. TypeOK'
  BY DEF IInv, TypeOK
<1>2. NumberInv' /\ StageInv' /\ CancelInv'
  BY DEF IInv, NumberInv, StageInv, CancelInv, Request
<1>3. ReplyInv'
  BY DEF IInv, ReplyInv, Request
<1>4. InboxInv'
  BY DEF IInv, InboxInv
<1>5. InviteInv' /\ EndedInv'
  BY DEF IInv, InviteInv, EndedInv, Ended, Cancel, Response
<1>6. SuccessJustified'
  BY DEF IInv, SuccessJustified
<1>7. QED
  BY <1>1, <1>2, <1>3, <1>4, <1>5, <1>6 DEF IInv

-----------------------------------------------------------------------------
(***************************************************************************)
(* The inductive invariant holds.                                          *)
(***************************************************************************)
LEMMA InitInv == Init => IInv
<1> SUFFICES ASSUME Init PROVE IInv
  OBVIOUS
<1>1. \A d \in Dialogs :
        tx[d] = [stage |-> "idle", method |-> "REGISTER", cseq |-> 0, auth |-> FALSE,
                 retries |-> 0, timer |-> FALSE, inbox |-> <<>>, result |-> "none"]
  BY DEF Init
<1>2. TypeOK
  <2>1. <<>> \in Seq(Replies) /\ 0 \in 0..MaxCSeq /\ 0 \in 0..MaxRetries
    BY SipClientAssumption
  <2>2. [stage |-> "idle", method |-> "REGISTER", cseq |-> 0, auth |-> FALSE,
         retries |-> 0, timer |-> FALSE, inbox |-> <<>>, result |-> "none"] \in Transactions
    BY <2>1 DEF Transactions, Methods, Results
  <2>3. cseq \in 1..(MaxCSeq + 1)
    BY SipClientAssumption DEF Init
  <2>4. QED
    BY <2>2, <2>3 DEF TypeOK, Init
<1>3. sent = {} /\ replies = {} /\ cseq = 1
  BY DEF Init
<1>4. NumberInv /\ StageInv /\ CancelInv /\ ReplyInv
  BY <1>1, <1>3 DEF NumberInv, StageInv, CancelInv, ReplyInv
<1>5. InboxInv /\ DecidedOnce /\ InviteInv /\ EndedInv /\ SuccessJustified
  BY <1>1, <1>3 DEF InboxInv, DecidedOnce, InviteInv, EndedInv, SuccessJustified
<1>6. QED
  BY <1>2, <1>4, <1>5 DEF IInv

(* A response that is read is taken out of the channel. *)
LEMMA TailInbox ==
  ASSUME IInv, NEW d \in Dialogs, tx[d].inbox # <<>>,
         NEW i \in 1..Len(Tail(tx[d].inbox))
  PROVE  /\ tx[d].stage = "waiting" /\ Tail(tx[d].inbox)[i] \in replies
         /\ Tail(tx[d].inbox)[i].callID = d /\ Tail(tx[d].inbox)[i].cseq = tx[d].cseq
<1>1. tx[d].inbox \in Seq(Replies)
  BY DEF IInv, TypeOK, Transactions
<1>2. i + 1 \in 1..Len(tx[d].inbox) /\ Tail(tx[d].inbox)[i] = tx[d].inbox[i + 1]
  BY <1>1
<1>3. QED
  BY <1>2 DEF IInv, InboxInv

LEMMA ReceiveStep ==
  ASSUME IInv, NEW d \in Dialogs, NEW m \in replies, Receive(d, m)
  PROVE  IInv'
<1> DEFINE new == [tx[d] EXCEPT !.inbox = Append(tx[d].inbox, m)]
<1>1. tx[d] \in Transactions /\ m \in Replies /\ tx[d].inbox \in Seq(Replies)
  BY DEF IInv, TypeOK, Transactions
<1>2. new \in Transactions
  <2>1. Append(tx[d].inbox, m) \in Seq(Replies)
    BY <1>1
  <2>2. ASSUME NEW longer \in Seq(Replies)
        PROVE  [tx[d] EXCEPT !.inbox = longer] \in Transactions
    BY <1>1 DEF Transactions
  <2>3. QED
    BY <2>1, <2>2
<1>3. tx' = [tx EXCEPT ![d] = new]
  BY DEF Receive
<1>4. tx' \in [Dialogs -> Transactions] /\ tx'[d] = new /\ \A e \in Dialogs \ {d} : tx'[e] = tx[e]
  BY <1>2, <1>3 DEF IInv, TypeOK
<1>5. /\ new.stage = tx[d].stage /\ new.method = tx[d].method /\ new.cseq = tx[d].cseq
      /\ new.result = tx[d].result /\ new.inbox = Append(tx[d].inbox, m)
  BY <1>1 DEF Transactions
<1>6. ASSUME NEW i \in 1..Len(new.inbox)
      PROVE  /\ tx[d].stage = "waiting" /\ new.inbox[i] \in replies
             /\ new.inbox[i].callID = d /\ new.inbox[i].cseq = tx[d].cseq
  <2>1. CASE i \in 1..Len(tx[d].inbox)
    BY <2>1, <1>1, <1>5 DEF IInv, InboxInv
  <2>2. CASE i = Len(tx[d].inbox) + 1
    BY <2>2, <1>1, <1>5 DEF Receive, Waits
  <2>3. QED
    BY <2>1, <2>2, <1>1, <1>5
<1>7. UNCHANGED <<open, cseq, sent, replies>>
  BY DEF Receive
<1>8. /\ tx' \in [Dialogs -> Transactions] /\ \A e \in Dialogs \ {d} : tx'[e] = tx[e]
      /\ tx'[d].stage = tx[d].stage /\ tx'[d].method = tx[d].method
      /\ tx'[d].cseq = tx[d].cseq /\ tx'[d].result = tx[d].result
      /\ \A i \in 1..Len(tx'[d].inbox) :
           /\ tx[d].stage = "waiting" /\ tx'[d].inbox[i] \in replies
           /\ tx'[d].inbox[i].callID = d /\ tx'[d].inbox[i].cseq = tx[d].cseq
  <2> HIDE DEF new
  <2>1. QED
    BY <1>4, <1>5, <1>6
<1>9. QED
  BY <1>7, <1>8, InnerStep

LEMMA ReadProvisionalStep ==
  ASSUME IInv, NEW d \in Dialogs, ReadProvisional(d)
  PROVE  IInv'
<1> DEFINE new == [tx[d] EXCEPT !.inbox = Tail(tx[d].inbox), !.timer = FALSE]
<1>1. tx[d] \in Transactions /\ tx[d].inbox \in Seq(Replies) /\ tx[d].inbox # <<>>
  BY DEF IInv, TypeOK, Transactions, ReadProvisional
<1>2. new \in Transactions
  <2>1. Tail(tx[d].inbox) \in Seq(Replies)
    BY <1>1
  <2>2. ASSUME NEW rest \in Seq(Replies)
        PROVE  [tx[d] EXCEPT !.inbox = rest, !.timer = FALSE] \in Transactions
    BY <1>1 DEF Transactions
  <2>3. QED
    BY <2>1, <2>2
<1>3. tx' = [tx EXCEPT ![d] = new]
  BY DEF ReadProvisional
<1>4. tx' \in [Dialogs -> Transactions] /\ tx'[d] = new /\ \A e \in Dialogs \ {d} : tx'[e] = tx[e]
  BY <1>2, <1>3 DEF IInv, TypeOK
<1>5. /\ new.stage = tx[d].stage /\ new.method = tx[d].method /\ new.cseq = tx[d].cseq
      /\ new.result = tx[d].result /\ new.inbox = Tail(tx[d].inbox)
  BY <1>1 DEF Transactions
<1>6. UNCHANGED <<open, cseq, sent, replies>>
  BY DEF ReadProvisional
<1>7. \A i \in 1..Len(Tail(tx[d].inbox)) :
        /\ tx[d].stage = "waiting" /\ Tail(tx[d].inbox)[i] \in replies
        /\ Tail(tx[d].inbox)[i].callID = d /\ Tail(tx[d].inbox)[i].cseq = tx[d].cseq
  BY <1>1, TailInbox
<1>8. /\ tx' \in [Dialogs -> Transactions] /\ \A e \in Dialogs \ {d} : tx'[e] = tx[e]
      /\ tx'[d].stage = tx[d].stage /\ tx'[d].method = tx[d].method
      /\ tx'[d].cseq = tx[d].cseq /\ tx'[d].result = tx[d].result
      /\ \A i \in 1..Len(tx'[d].inbox) :
           /\ tx[d].stage = "waiting" /\ tx'[d].inbox[i] \in replies
           /\ tx'[d].inbox[i].callID = d /\ tx'[d].inbox[i].cseq = tx[d].cseq
  <2> HIDE DEF new
  <2>1. QED
    BY <1>4, <1>5, <1>7
<1>9. QED
  BY <1>6, <1>8, InnerStep

LEMMA TimerStep ==
  ASSUME IInv, NEW d \in Dialogs, TimerFires(d)
  PROVE  IInv'
<1>1. CASE tx[d].retries >= MaxRetries
  <2>1. /\ Finish(d, "done", "timeout") /\ sent' = sent \cup {}
        /\ UNCHANGED <<open, cseq, replies>> /\ tx[d].stage = "waiting"
    BY <1>1 DEF TimerFires
  <2>2. {} \in SUBSET {Ack(d), Cancel(d)}
    OBVIOUS
  <2>3. QED
    BY <2>1, <2>2, FinishStep DEF Results
<1>2. CASE ~(tx[d].retries >= MaxRetries)
  <2> DEFINE new == [tx[d] EXCEPT !.retries = tx[d].retries + 1]
  <2>1. tx[d] \in Transactions
    BY DEF IInv, TypeOK
  <2>2. new \in Transactions
    <3>1. tx[d].retries + 1 \in 0..MaxRetries
      BY <1>2, <2>1, SipClientAssumption DEF Transactions
    <3>2. QED
      BY <2>1, <3>1 DEF Transactions
  <2>3. tx' = [tx EXCEPT ![d] = new] /\ UNCHANGED <<open, cseq, sent, replies>>
    BY <1>2 DEF TimerFires
  <2>4. tx' \in [Dialogs -> Transactions] /\ tx'[d] = new /\ \A e \in Dialogs \ {d} : tx'[e] = tx[e]
    BY <2>2, <2>3 DEF IInv, TypeOK
  <2>5. /\ new.stage = tx[d].stage /\ new.method = tx[d].method /\ new.cseq = tx[d].cseq
        /\ new.result = tx[d].result /\ new.inbox = tx[d].inbox
    BY <2>1 DEF Transactions
  <2>6. \A i \in 1..Len(tx[d].inbox) :
          /\ tx[d].stage = "waiting" /\ tx[d].inbox[i] \in replies
          /\ tx[d].inbox[i].callID = d /\ tx[d].inbox[i].cseq = tx[d].cseq
    BY DEF IInv, InboxInv
  <2>7. QED
    BY <2>3, <2>4, <2>5, <2>6, InnerStep
<1>3. QED
  BY <1>1, <1>2

(* What a client that is still open sends, and one that is closed does not. *)
LEMMA PacketShape ==
  ASSUME NEW d \in Dialogs
  PROVE  /\ Packet(d, "ACK") \in SUBSET {Ack(d)}
         /\ Packet(d, "CANCEL") \in SUBSET {Cancel(d)}
         /\ open => Packet(d, "CANCEL") = {Cancel(d)}
BY DEF Packet, Ack, Cancel

LEMMA ContextStep ==
  ASSUME IInv, NEW d \in Dialogs, ContextEnds(d)
  PROVE  IInv'
<1> DEFINE packets == IF tx[d].method = "INVITE" THEN Packet(d, "CANCEL") ELSE {}
<1>1. /\ packets \in SUBSET {Ack(d), Cancel(d)}
      /\ packets # {} => tx[d].method = "INVITE"
      /\ tx[d].method = "INVITE" => ~open \/ Cancel(d) \in packets
  BY PacketShape, open \in BOOLEAN DEF IInv, TypeOK
<1>2. sent' = sent \cup packets
  BY DEF ContextEnds
<1>3. tx[d].stage = "waiting" /\ Finish(d, "done", "error") /\ UNCHANGED <<open, cseq, replies>>
  BY DEF ContextEnds
<1>4. QED
  BY <1>1, <1>2, <1>3, FinishStep DEF Results

LEMMA ChallengedStep ==
  ASSUME IInv, NEW d \in Dialogs, RegisterChallenged(d) \/ InviteChallenged(d)
  PROVE  IInv'
<1>1. CASE RegisterChallenged(d)
  <2>1. sent = sent \cup {} /\ {} \in SUBSET {Ack(d)}
    OBVIOUS
  <2>2. /\ Attempt(d, "REGISTER", TRUE, sent \cup {}) /\ UNCHANGED <<open, replies>>
        /\ tx[d].stage = "waiting" /\ tx[d].method = "REGISTER"
    BY <1>1, <2>1 DEF RegisterChallenged, Returns
  <2>3. "REGISTER" \in Methods /\ TRUE \in BOOLEAN
    BY DEF Methods
  <2>4. QED
    BY <2>1, <2>2, <2>3, AttemptStep
<1>2. CASE InviteChallenged(d)
  <2> DEFINE acks == Packet(d, "ACK")
  <2>1. /\ Attempt(d, "INVITE", TRUE, sent \cup Packet(d, "ACK")) /\ UNCHANGED <<open, replies>>
        /\ tx[d].stage = "waiting" /\ tx[d].method = "INVITE" /\ Code(d) = 401
    BY <1>2 DEF InviteChallenged, Returns
  <2>2. Response(d, "INVITE", tx[d].cseq, 401)
    BY <1>2, <2>1, HeadOwn DEF InviteChallenged, Returns
  <2>3. "INVITE" \in Methods /\ TRUE \in BOOLEAN
    BY DEF Methods
  <2>4. QED
    <3>1. acks \in SUBSET {Ack(d)} /\ Attempt(d, "INVITE", TRUE, sent \cup acks)
      BY <2>1, PacketShape
    <3>2. /\ UNCHANGED <<open, replies>> /\ tx[d].stage # "done"
          /\ acks # {} => tx[d].stage = "waiting" /\ tx[d].method = "INVITE"
          /\ tx[d].method = "INVITE" /\ Response(d, "INVITE", tx[d].cseq, 401)
      BY <2>1, <2>2
    <3> HIDE DEF acks
    <3>3. QED
      BY <2>3, <3>1, <3>2, AttemptStep
<1>3. QED
  BY <1>1, <1>2

LEMMA BeginStep ==
  ASSUME IInv, NEW d \in Dialogs, NEW method \in {"REGISTER", "INVITE"}, Begin(d, method)
  PROVE  IInv'
<1>1. sent = sent \cup {} /\ {} \in SUBSET {Ack(d)}
  OBVIOUS
<1>2. /\ Attempt(d, method, FALSE, sent \cup {}) /\ UNCHANGED <<open, replies>>
      /\ tx[d].stage = "idle"
  BY <1>1 DEF Begin
<1>3. method \in Methods /\ FALSE \in BOOLEAN
  BY DEF Methods
<1>4. QED
  BY <1>1, <1>2, <1>3, AttemptStep

LEMMA ByeStep ==
  ASSUME IInv, NEW d \in Dialogs, Bye(d)
  PROVE  IInv'
<1>1. sent = sent \cup {} /\ {} \in SUBSET {Ack(d)}
  OBVIOUS
<1>2. /\ Attempt(d, "BYE", FALSE, sent \cup {}) /\ UNCHANGED <<open, replies>>
      /\ tx[d].stage = "established"
  BY <1>1 DEF Bye
<1>3. "BYE" \in Methods /\ FALSE \in BOOLEAN
  BY DEF Methods
<1>4. QED
  BY <1>1, <1>2, <1>3, AttemptStep

(* A response is reported as success only if its code is 200. *)
LEMMA SuccessCode ==
  ASSUME NEW code \in Codes
  PROVE  /\ Success(code) <=> code = 200
         /\ ~Success(code) /\ code # 401 => code \in {100, 486}
BY DEF Success, Codes

LEMMA ReturnsStep ==
  ASSUME IInv, NEW d \in Dialogs,
         RegisterReturns(d) \/ InviteReturns(d) \/ ByeReturns(d) \/ BadChallenge(d)
  PROVE  IInv'
<1>1. /\ tx[d].stage = "waiting" /\ Code(d) \in Codes
      /\ Response(d, tx[d].method, tx[d].cseq, Code(d))
      /\ UNCHANGED <<open, cseq, replies>>
  BY HeadOwn DEF Returns, RegisterReturns, InviteReturns, ByeReturns, BadChallenge
<1>2. CASE RegisterReturns(d) \/ ByeReturns(d)
  <2> DEFINE result == IF Success(Code(d)) THEN "ok" ELSE "refused"
  <2>1. /\ Finish(d, "done", result) /\ sent' = sent \cup {} /\ tx[d].method # "INVITE"
        /\ result \in Results /\ (result = "ok" => Success(Code(d)))
    BY <1>2 DEF RegisterReturns, ByeReturns, Returns, Results
  <2>2. result = "ok" => Response(d, tx[d].method, tx[d].cseq, 200)
    BY <1>1, <2>1, SuccessCode
  <2>3. {} \in SUBSET {Ack(d), Cancel(d)}
    OBVIOUS
  <2> HIDE DEF result
  <2>4. QED
    BY <1>1, <2>1, <2>2, <2>3, FinishStep
<1>3. CASE InviteReturns(d)
  <2>1. /\ Packet(d, "ACK") \in SUBSET {Ack(d), Cancel(d)} /\ Cancel(d) \notin Packet(d, "ACK")
        /\ sent' = sent \cup Packet(d, "ACK")
        /\ tx[d].method = "INVITE" /\ Code(d) >= 200 /\ Code(d) # 401
    BY <1>3 DEF InviteReturns, Returns, Code, Packet, Ack, Cancel
  <2>2. CASE Success(Code(d))
    <3>1. Finish(d, "established", "ok") /\ Response(d, tx[d].method, tx[d].cseq, 200)
      BY <1>1, <1>3, <2>2, SuccessCode DEF InviteReturns
    <3>2. QED
      BY <1>1, <2>1, <3>1, FinishStep DEF Results
  <2>3. CASE ~Success(Code(d))
    <3>1. Finish(d, "done", "refused") /\ Response(d, "INVITE", tx[d].cseq, 486)
      BY <1>1, <1>3, <2>1, <2>3, SuccessCode DEF InviteReturns
    <3>2. QED
      BY <1>1, <2>1, <3>1, FinishStep DEF Results
  <2>4. QED
    BY <2>2, <2>3
<1>4. CASE BadChallenge(d)
  <2> DEFINE packets == IF tx[d].method = "INVITE" THEN Packet(d, "ACK") ELSE {}
  <2>1. /\ packets \in SUBSET {Ack(d), Cancel(d)} /\ Cancel(d) \notin packets
        /\ packets # {} => tx[d].method = "INVITE"
    BY DEF Packet, Ack, Cancel
  <2>2. Finish(d, "done", "error") /\ sent' = sent \cup packets /\ Code(d) = 401
    BY <1>4 DEF BadChallenge, Challenged
  <2>3. tx[d].method = "INVITE" => Response(d, "INVITE", tx[d].cseq, 401)
    BY <1>1, <2>2
  <2> HIDE DEF packets
  <2>4. QED
    BY <1>1, <2>1, <2>2, <2>3, FinishStep DEF Results
<1>5. QED
  BY <1>2, <1>3, <1>4

LEMMA CloseStep ==
  ASSUME IInv, Close
  PROVE  IInv'
<1>1. UNCHANGED <<cseq, tx, sent, replies>> /\ open' = FALSE
  BY DEF Close
<1>2. TypeOK' /\ NumberInv' /\ StageInv' /\ CancelInv' /\ ReplyInv'
  BY <1>1 DEF IInv, TypeOK, NumberInv, StageInv, CancelInv, ReplyInv, Request
<1>3. InboxInv' /\ DecidedOnce' /\ InviteInv' /\ EndedInv' /\ SuccessJustified'
  BY <1>1 DEF IInv, InboxInv, DecidedOnce, InviteInv, EndedInv, Ended, SuccessJustified,
              Cancel, Response
<1>4. QED
  BY <1>2, <1>3 DEF IInv

(* A response to a request that is undecided is provisional. *)
LEMMA Undecided ==
  ASSUME TypeOK, NEW r \in sent, NEW of, ~Decided(r, of),
         NEW m \in replies, m.callID = r.callID, m.of = of, m.cseq = r.cseq
  PROVE  m.code = 100
<1>1. m \in Replies
  BY DEF TypeOK
<1>2. m = Reply(r, of, m.code) /\ m.code \in Codes
  BY <1>1 DEF Replies, Reply
<1>3. QED
  BY <1>2 DEF Decided

LEMMA RingStep ==
  ASSUME IInv, NEW r \in sent, Ring(r)
  PROVE  IInv'
<1> DEFINE new == Reply(r, r.method, 100)
<1>1. r.method \in Methods /\ replies' = replies \cup {new} /\ UNCHANGED <<open, cseq, tx, sent>>
  BY DEF Ring
<1>2. r \in Requests
  BY DEF IInv, TypeOK
<1>3. {new} \in SUBSET Replies
  BY <1>1, <1>2 DEF Reply, Replies, Requests, Codes
<1>4. \A m \in {new} : Request(m.callID, m.of, m.cseq) /\ m.code = 100
  BY DEF Reply, Request
<1> HIDE DEF new
<1>5. DecidedOnce'
  BY <1>1, <1>4 DEF IInv, DecidedOnce
<1>6. QED
  BY <1>1, <1>3, <1>4, <1>5, ReplyStep

LEMMA DecideStep ==
  ASSUME IInv, NEW r \in sent, NEW code \in Codes \ {100}, Decide(r, code)
  PROVE  IInv'
<1> DEFINE new == Reply(r, r.method, code)
<1>1. /\ r.method \in Methods /\ ~Decided(r, r.method)
      /\ replies' = replies \cup {new} /\ UNCHANGED <<open, cseq, tx, sent>>
  BY DEF Decide
<1>2. r \in Requests
  BY DEF IInv, TypeOK
<1>3. {new} \in SUBSET Replies
  BY <1>1, <1>2 DEF Reply, Replies, Requests
<1>4. new.callID = r.callID /\ new.of = r.method /\ new.cseq = r.cseq
  BY DEF Reply
<1>5. \A m \in {new} : Request(m.callID, m.of, m.cseq)
  BY <1>4 DEF Request
<1> HIDE DEF new
<1>6. \A m \in replies :
        m.callID = new.callID /\ m.of = new.of /\ m.cseq = new.cseq => m.code = 100
  BY <1>1, <1>4, Undecided DEF IInv
<1>7. DecidedOnce'
  BY <1>1, <1>6 DEF IInv, DecidedOnce
<1>8. QED
  BY <1>1, <1>3, <1>5, <1>7, ReplyStep

LEMMA TakeCancelStep ==
  ASSUME IInv, NEW r \in sent, TakeCancel(r)
  PROVE  IInv'
<1> DEFINE ok      == Reply(r, "CANCEL", 200)
           refused == Reply(r, "INVITE", 486)
           more    == {ok} \cup (IF Decided(r, "INVITE") THEN {} ELSE {refused})
<1>1. r.method = "CANCEL" /\ replies' = replies \cup more /\ UNCHANGED <<open, cseq, tx, sent>>
  BY DEF TakeCancel
<1>2. r \in Requests
  BY DEF IInv, TypeOK
<1>3. ok \in Replies /\ refused \in Replies
  BY <1>2 DEF Reply, Replies, Requests, Methods, Codes
<1>4. /\ ok.callID = r.callID /\ ok.of = "CANCEL" /\ ok.cseq = r.cseq
      /\ refused.callID = r.callID /\ refused.of = "INVITE" /\ refused.cseq = r.cseq
      /\ refused.code = 486
  BY DEF Reply
<1>5. Request(r.callID, "INVITE", r.cseq) /\ Request(r.callID, "CANCEL", r.cseq)
  BY <1>1 DEF IInv, CancelInv, Request
<1> HIDE DEF ok, refused
<1>6. \A m \in more : m = ok \/ (m = refused /\ ~Decided(r, "INVITE"))
  OBVIOUS
<1>7. more \in SUBSET Replies /\ \A m \in more : Request(m.callID, m.of, m.cseq)
  BY <1>3, <1>4, <1>5, <1>6
<1>8. ~Decided(r, "INVITE") =>
        \A m \in replies :
          m.callID = refused.callID /\ m.of = refused.of /\ m.cseq = refused.cseq => m.code = 100
  BY <1>4, Undecided DEF IInv
<1> HIDE DEF more
<1>9. DecidedOnce'
  <2>1. ok.of \notin Methods
    BY <1>4 DEF Methods
  <2>2. QED
    BY <1>1, <1>6, <1>8, <2>1 DEF IInv, DecidedOnce
<1>10. QED
  BY <1>1, <1>7, <1>9, ReplyStep

LEMMA StepInv == IInv /\ [Next]_vars => IInv'
<1> SUFFICES ASSUME IInv, [Next]_vars PROVE IInv'
  OBVIOUS
<1>1. ASSUME NEW d \in Dialogs, Begin(d, "REGISTER") \/ Begin(d, "INVITE") PROVE IInv'
  BY <1>1, BeginStep
<1>2. ASSUME NEW d \in Dialogs, Bye(d) PROVE IInv'
  BY <1>2, ByeStep
<1>3. ASSUME NEW d \in Dialogs, Run(d) PROVE IInv'
  BY <1>3, ReadProvisionalStep, TimerStep, ContextStep, ChallengedStep, ReturnsStep DEF Run
<1>4. ASSUME NEW d \in Dialogs, NEW m \in replies, Receive(d, m) PROVE IInv'
  BY <1>4, ReceiveStep
<1>5. ASSUME FarEnd PROVE IInv'
  BY <1>5, RingStep, DecideStep, TakeCancelStep DEF FarEnd
<1>6. CASE Close
  BY <1>6, CloseStep
<1>7. CASE UNCHANGED vars
  <2>1. UNCHANGED <<open, cseq, tx, sent, replies>>
    BY <1>7 DEF vars
  <2>2. TypeOK' /\ NumberInv' /\ StageInv' /\ CancelInv' /\ ReplyInv'
    BY <2>1 DEF IInv, TypeOK, NumberInv, StageInv, CancelInv, ReplyInv, Request
  <2>3. InboxInv' /\ DecidedOnce' /\ InviteInv' /\ EndedInv' /\ SuccessJustified'
    BY <2>1 DEF IInv, InboxInv, DecidedOnce, InviteInv, EndedInv, Ended, SuccessJustified,
                Cancel, Response
  <2>4. QED
    BY <2>2, <2>3 DEF IInv
<1>8. QED
  BY <1>1, <1>2, <1>3, <1>4, <1>5, <1>6, <1>7 DEF Next

LEMMA Inductive == Spec => []IInv
<1>1. QED
  BY InitInv, StepInv, PTL DEF Spec

-----------------------------------------------------------------------------
(***************************************************************************)
(* The theorems.                                                           *)
(***************************************************************************)

(* Type correctness: every number, packet and channel is one of its kind,  *)
(* whatever the network does to the packets (transactWithMode, receive).   *)
THEOREM TypeCorrect == Spec => []TypeOK
<1>1. IInv => TypeOK
  BY DEF IInv
<1>2. QED
  BY <1>1, Inductive, PTL

(* A transaction is only ever handed responses to its own request: not to  *)
(* an earlier attempt with the same Call-ID, not to the CANCEL of its      *)
(* INVITE, although c.waiters is keyed by Call-ID and number alone.        *)
THEOREM AnswersOwn == Spec => []OwnAnswer
<1>1. IInv => OwnAnswer
  <2> SUFFICES ASSUME IInv, NEW d \in Dialogs, NEW i \in 1..Len(tx[d].inbox)
               PROVE  /\ tx[d].inbox[i].of = tx[d].method
                      /\ tx[d].inbox[i].callID = d /\ tx[d].inbox[i].cseq = tx[d].cseq
    BY DEF OwnAnswer
  <2> DEFINE m == tx[d].inbox[i]
  <2>1. tx[d].stage = "waiting" /\ m \in replies /\ m.callID = d /\ m.cseq = tx[d].cseq
    BY DEF IInv, InboxInv
  <2>2. PICK r \in sent : r.callID = d /\ r.method = m.of /\ r.cseq = tx[d].cseq
    BY <2>1 DEF IInv, ReplyInv, Request
  <2>3. m.of = tx[d].method
    BY <2>1, <2>2 DEF IInv, StageInv
  <2>4. QED
    BY <2>1, <2>3
<1>2. QED
  BY <1>1, Inductive, PTL

(* An operation reports success only if the far end accepted its request:  *)
(* no late, repeated or misdirected response makes a REGISTER, an INVITE   *)
(* or a BYE succeed (register, inviteAttempt, Bye).                        *)
THEOREM SuccessIsReal == Spec => []SuccessJustified
<1>1. IInv => SuccessJustified
  BY DEF IInv
<1>2. QED
  BY <1>1, Inductive, PTL

(* An INVITE that was cancelled never becomes a dialog: transactWithMode   *)
(* sends the CANCEL only when it no longer waits.                          *)
THEOREM CancelIsFinal == Spec => []CancelledNeverEstablished
<1>1. IInv => CancelledNeverEstablished
  BY DEF IInv, CancelInv, CancelledNeverEstablished
<1>2. QED
  BY <1>1, Inductive, PTL

(* A far end that accepted an INVITE is not forgotten, but for the two     *)
(* exceptions of the code: a transaction that ran out of retransmissions   *)
(* and a client that was closed.                                           *)
THEOREM LegNotForgotten == Spec => []LegAccounted
<1>1. IInv => LegAccounted
  <2> SUFFICES ASSUME IInv, NEW m \in replies, m.of = "INVITE", m.code = 200,
                      tx[m.callID].stage \notin {"waiting", "established"},
                      tx[m.callID].method # "BYE",
                      tx[m.callID].result # "timeout", open
               PROVE  [callID |-> m.callID, method |-> "CANCEL", cseq |-> m.cseq,
                       auth |-> FALSE] \in sent
    BY DEF LegAccounted
  <2>1. m.callID \in Dialogs
    BY DEF IInv, TypeOK, Replies
  <2>2. PICK r \in sent : r.callID = m.callID /\ r.method = "INVITE" /\ r.cseq = m.cseq
    BY DEF IInv, ReplyInv, Request
  <2>3. \A code \in {401, 486} : ~Response(m.callID, "INVITE", m.cseq, code)
    <3> SUFFICES ASSUME NEW code \in {401, 486}, Response(m.callID, "INVITE", m.cseq, code)
                 PROVE  FALSE
      OBVIOUS
    <3> DEFINE n == [callID |-> m.callID, of |-> "INVITE", cseq |-> m.cseq, code |-> code]
    <3>1. n \in replies
      BY DEF Response
    <3>2. QED
      BY <3>1 DEF IInv, DecidedOnce, Methods
  <2>4. tx[m.callID].method = "INVITE" /\ tx[m.callID].cseq = m.cseq
    BY <2>2, <2>3 DEF IInv, InviteInv
  <2>5. tx[m.callID].stage = "done"
    BY <2>1, <2>2 DEF IInv, StageInv, TypeOK, Transactions
  <2>6. Ended(m.callID)
    BY <2>1, <2>4, <2>5 DEF IInv, EndedInv
  <2>7. QED
    BY <2>3, <2>4, <2>6 DEF Ended, Cancel
<1>2. QED
  BY <1>1, Inductive, PTL

(* What an attempt sends keeps the order of the numbers. *)
LEMMA AttemptOrdered ==
  ASSUME IInv, NEW d \in Dialogs, NEW method \in Methods, NEW auth \in BOOLEAN,
         NEW acks \in SUBSET {Ack(d)}, Attempt(d, method, auth, sent \cup acks),
         acks # {} => Request(d, "INVITE", tx[d].cseq),
         NEW r \in sent' \ sent
  PROVE  IF r.method \in Methods
           THEN \A q \in sent : q.callID = r.callID => q.cseq < r.cseq
           ELSE \E q \in sent : /\ q.callID = r.callID /\ q.method = "INVITE"
                                /\ q.cseq = r.cseq
<1>1. \/ r = Ack(d) /\ acks # {}
      \/ r = [callID |-> d, method |-> method, cseq |-> cseq, auth |-> auth]
  BY DEF Attempt
<1>2. CASE r = Ack(d) /\ acks # {}
  BY <1>2 DEF Ack, Methods, Request
<1>3. CASE r = [callID |-> d, method |-> method, cseq |-> cseq, auth |-> auth]
  <2>1. \A q \in sent : q.callID = d =>
          q.cseq <= tx[d].cseq /\ q.cseq \in Nat /\ tx[d].cseq \in Nat /\ cseq \in Nat
            /\ tx[d].cseq < cseq
    BY DEF IInv, NumberInv, TypeOK, Requests, Transactions
  <2>2. QED
    BY <1>3, <2>1
<1>4. QED
  BY <1>1, <1>2, <1>3

(* Within a Call-ID every new request has a number above all before it,    *)
(* and an ACK or CANCEL the number of an INVITE that was sent, whatever    *)
(* other operations of the client draw numbers meanwhile (c.cseq).         *)
THEOREM NumbersOrdered == Spec => CSeqOrdered
<1> DEFINE Ordered ==
      \A r \in sent' \ sent :
        IF r.method \in Methods
          THEN \A q \in sent : q.callID = r.callID => q.cseq < r.cseq
          ELSE \E q \in sent : /\ q.callID = r.callID /\ q.method = "INVITE"
                               /\ q.cseq = r.cseq
<1>1. IInv /\ [Next]_vars => [Ordered]_vars
  <2> SUFFICES ASSUME IInv, Next PROVE Ordered
    OBVIOUS
  <2>1. ASSUME NEW d \in Dialogs, NEW method \in Methods, NEW auth \in BOOLEAN,
               Attempt(d, method, auth, sent)
        PROVE  Ordered
    <3>1. {} \in SUBSET {Ack(d)} /\ Attempt(d, method, auth, sent \cup {})
      BY <2>1
    <3>2. QED
      BY <3>1, AttemptOrdered
  <2>2. \A d \in Dialogs : tx[d].stage = "waiting" /\ tx[d].method = "INVITE" =>
          Request(d, "INVITE", tx[d].cseq)
    BY DEF IInv, StageInv
  <2>3. ASSUME NEW d \in Dialogs, InviteChallenged(d) PROVE Ordered
    <3> DEFINE acks == Packet(d, "ACK")
    <3>1. acks \in SUBSET {Ack(d)} /\ Attempt(d, "INVITE", TRUE, sent \cup acks)
      BY <2>3, PacketShape DEF InviteChallenged
    <3>2. Request(d, "INVITE", tx[d].cseq) /\ "INVITE" \in Methods
      BY <2>2, <2>3 DEF InviteChallenged, Returns, Methods
    <3> HIDE DEF acks
    <3>3. QED
      BY <3>1, <3>2, AttemptOrdered
  <2>4. ASSUME NEW d \in Dialogs, InviteReturns(d) \/ BadChallenge(d) \/ ContextEnds(d)
        PROVE  Ordered
    <3>1. \A r \in sent' \ sent :
            /\ tx[d].stage = "waiting" /\ tx[d].method = "INVITE"
            /\ r.callID = d /\ r.method \in {"ACK", "CANCEL"} /\ r.cseq = tx[d].cseq
      BY <2>4, PacketShape DEF InviteReturns, BadChallenge, ContextEnds, Returns, Ack, Cancel
    <3>2. QED
      BY <2>2, <2>4, <3>1 DEF Request, Methods
  <2>5. ASSUME NEW d \in Dialogs,
               Begin(d, "REGISTER") \/ Begin(d, "INVITE") \/ Bye(d) \/ RegisterChallenged(d)
        PROVE  Ordered
    BY <2>1, <2>5 DEF Begin, Bye, RegisterChallenged, Methods
  <2>6. \/ sent' = sent
        \/ \E d \in Dialogs :
             \/ Begin(d, "REGISTER") \/ Begin(d, "INVITE") \/ Bye(d) \/ RegisterChallenged(d)
             \/ InviteChallenged(d) \/ InviteReturns(d) \/ BadChallenge(d) \/ ContextEnds(d)
    BY DEF Next, Run, RegisterReturns, ByeReturns, ReadProvisional, TimerFires, Receive,
           FarEnd, Ring, Decide, TakeCancel, Close
  <2>7. QED
    BY <2>3, <2>4, <2>5, <2>6
<1>2. QED
  BY <1>1, Inductive, PTL DEF Spec, CSeqOrdered
=============================================================================
