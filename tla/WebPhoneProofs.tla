--------------------------- MODULE WebPhoneProofs ---------------------------
(***************************************************************************)
(* Theorems about WebPhone.tla, for any number of calls and reloads and a  *)
(* history of any length.                                                  *)
(***************************************************************************)
EXTENDS WebPhone, SequenceTheorems, FiniteSetTheorems, TLAPS

-----------------------------------------------------------------------------
(***************************************************************************)
(* The invariants.                                                         *)
(***************************************************************************)
Pages == [active : BOOLEAN, peer : Calls \cup {Nil}, call : Calls \cup {Nil},
          poll : {"no", "sent", "read", "hanging"},
          seen : {"idle", "connecting", "connected", "failed"},
          hang : {"no", "trace", "posting", "posted"}, notify : BOOLEAN,
          syncing : SUBSET (Calls \X {"catch", "event"})]

(* A call the page has not recorded yet is the last one that was started;  *)
(* the history holds those before it.  Until a call is started during a    *)
(* hangup, such a call is shown, and no hangup that tells the gateway has  *)
(* one.                                                                    *)
LastStarted == page.call # Nil => started # <<>> /\ Head(started) = page.call

Recorded == IF page.call = Nil THEN started ELSE Tail(started)

HistoryInv ==
  ~crossed =>
    /\ page.call # Nil => page.active
    /\ page.hang \in {"posting", "posted"} => page.call = Nil
    /\ history = Newest(Recorded)

(* A call that is not shown is lost; so is one that was started while a    *)
(* hangup waits for the gateway, and one the gateway took after it had     *)
(* answered.  The gateway is in no call but one that was started.          *)
LockInv ==
  /\ page.call # Nil => page.call \in raced \/ page.active
  /\ page.call # Nil /\ page.hang \in {"posting", "posted"} => page.call \in raced
  /\ InCall /\ page.hang = "posted" => current \in raced
  /\ InCall => current \in Calls /\ start[current] # "none"
  /\ \A c \in Calls : offer[c] # "none" => start[c] # "none"

-----------------------------------------------------------------------------
(***************************************************************************)
(* Sequences.                                                              *)
(***************************************************************************)
LEMMA Limits == HistoryLimit \in Nat /\ HistoryLimit > 0 /\ MaxReloads \in Nat /\ Nil \notin Calls
BY WebPhoneAssumption

LEMMA NewestKept ==
  ASSUME NEW s \in Seq(Calls)
  PROVE  /\ Newest(s) \in Seq(Calls)
         /\ Len(Newest(s)) = IF Len(s) < HistoryLimit THEN Len(s) ELSE HistoryLimit
         /\ \A i \in 1..Len(Newest(s)) : Newest(s)[i] = s[i]
<1> DEFINE n == IF Len(s) < HistoryLimit THEN Len(s) ELSE HistoryLimit
<1>1. n \in Nat /\ n <= Len(s) /\ Newest(s) = SubSeq(s, 1, n)
  BY Limits DEF Newest
<1> HIDE DEF n
<1>2. 1 \in Int /\ n \in Int /\ \A i \in 1..n : s[i] \in Calls
  BY <1>1
<1>3. /\ SubSeq(s, 1, n) \in Seq(Calls)
      /\ Len(SubSeq(s, 1, n)) = IF 1 <= n THEN n - 1 + 1 ELSE 0
      /\ \A i \in 1..(n - 1 + 1) : SubSeq(s, 1, n)[i] = s[1 + i - 1]
  BY <1>2, SubSeqProperties
<1>4. Len(SubSeq(s, 1, n)) = n
  BY <1>1, <1>3
<1>5. \A i \in 1..n : SubSeq(s, 1, n)[i] = s[i]
  BY <1>1, <1>3
<1>6. QED
  BY <1>1, <1>3, <1>4, <1>5 DEF n

LEMMA Put ==
  ASSUME NEW s \in Seq(Calls), NEW c \in Calls
  PROVE  /\ <<c>> \o s \in Seq(Calls) /\ <<c>> \o s # <<>>
         /\ Len(<<c>> \o s) = Len(s) + 1
         /\ (<<c>> \o s)[1] = c
         /\ \A i \in 1..Len(s) : (<<c>> \o s)[i + 1] = s[i]
         /\ Head(<<c>> \o s) = c /\ Tail(<<c>> \o s) = s
<1>1. <<c>> \in Seq(Calls) /\ Len(<<c>>) = 1 /\ <<c>>[1] = c /\ Len(s) \in Nat
  OBVIOUS
<1> DEFINE t == <<c>> \o s
<1>2. /\ t \in Seq(Calls) /\ Len(t) = Len(<<c>>) + Len(s)
      /\ \A i \in 1..(Len(<<c>>) + Len(s)) :
           t[i] = IF i <= Len(<<c>>) THEN <<c>>[i] ELSE s[i - Len(<<c>>)]
  BY <1>1, ConcatProperties
<1> HIDE DEF t
<1>3. /\ t \in Seq(Calls) /\ Len(t) = Len(s) + 1 /\ t[1] = c
      /\ \A i \in 1..Len(s) : t[i + 1] = s[i]
  BY <1>1, <1>2
<1>4. t # <<>> /\ Head(t) = c
  BY <1>1, <1>3
<1>5. Tail(t) \in Seq(Calls) /\ Len(Tail(t)) = Len(t) - 1 /\ \A i \in 1..Len(Tail(t)) : Tail(t)[i] = t[i + 1]
  BY <1>3, <1>4, HeadTailProperties
<1>6. Tail(t) = s
  <2>1. Len(Tail(t)) = Len(s) /\ \A i \in 1..Len(Tail(t)) : Tail(t)[i] = s[i]
    BY <1>1, <1>3, <1>5
  <2>2. QED
    BY <1>5, <2>1, SeqEqual
<1>7. QED
  BY <1>3, <1>4, <1>6 DEF t

LEMMA TakeApart ==
  ASSUME NEW s \in Seq(Calls), s # <<>>
  PROVE  Head(s) \in Calls /\ Tail(s) \in Seq(Calls) /\ <<Head(s)>> \o Tail(s) = s
<1>1. /\ Head(s) \in Calls /\ Tail(s) \in Seq(Calls) /\ Len(Tail(s)) = Len(s) - 1
      /\ \A i \in 1..Len(Tail(s)) : Tail(s)[i] = s[i + 1]
  BY HeadTailProperties
<1> DEFINE t == <<Head(s)>> \o Tail(s)
<1>2. /\ t \in Seq(Calls) /\ Len(t) = Len(Tail(s)) + 1 /\ t[1] = Head(s)
      /\ \A i \in 1..Len(Tail(s)) : t[i + 1] = Tail(s)[i]
  BY <1>1, Put
<1> HIDE DEF t
<1>3. Len(s) \in Nat /\ Len(t) = Len(s) /\ Head(s) = s[1]
  BY <1>1, <1>2
<1>4. ASSUME NEW i \in 1..Len(t) PROVE t[i] = s[i]
  <2>1. CASE i = 1
    BY <1>2, <1>3, <2>1
  <2>2. CASE i # 1
    <3>1. i - 1 \in 1..Len(Tail(s)) /\ (i - 1) + 1 = i
      BY <1>1, <1>3, <2>2
    <3>2. t[(i - 1) + 1] = Tail(s)[i - 1] /\ Tail(s)[i - 1] = s[(i - 1) + 1]
      BY <1>1, <1>2, <3>1
    <3>3. QED
      BY <3>1, <3>2
  <2>3. QED
    BY <2>1, <2>2
<1>5. QED
  BY <1>1, <1>2, <1>3, <1>4, SeqEqual DEF t

(* A call put before a history that was cut, and then cut again. *)
LEMMA NewestOfNewest ==
  ASSUME NEW s \in Seq(Calls), NEW c \in Calls
  PROVE  Newest(<<c>> \o Newest(s)) = Newest(<<c>> \o s)
<1> DEFINE n == Newest(s)
           a == <<c>> \o n
           b == <<c>> \o s
<1>1. /\ n \in Seq(Calls) /\ Len(n) = IF Len(s) < HistoryLimit THEN Len(s) ELSE HistoryLimit
      /\ \A i \in 1..Len(n) : n[i] = s[i]
  BY NewestKept
<1> HIDE DEF n
<1>2. /\ a \in Seq(Calls) /\ Len(a) = Len(n) + 1 /\ a[1] = c
      /\ \A i \in 1..Len(n) : a[i + 1] = n[i]
  BY <1>1, Put
<1>3. /\ b \in Seq(Calls) /\ Len(b) = Len(s) + 1 /\ b[1] = c
      /\ \A i \in 1..Len(s) : b[i + 1] = s[i]
  BY Put
<1> HIDE DEF a, b
<1>4. /\ Newest(a) \in Seq(Calls) /\ \A i \in 1..Len(Newest(a)) : Newest(a)[i] = a[i]
      /\ Len(Newest(a)) = IF Len(a) < HistoryLimit THEN Len(a) ELSE HistoryLimit
  BY <1>2, NewestKept
<1>5. /\ Newest(b) \in Seq(Calls) /\ \A i \in 1..Len(Newest(b)) : Newest(b)[i] = b[i]
      /\ Len(Newest(b)) = IF Len(b) < HistoryLimit THEN Len(b) ELSE HistoryLimit
  BY <1>3, NewestKept
<1>6. Len(s) \in Nat
  OBVIOUS
<1>7. Len(Newest(a)) = Len(Newest(b)) /\ Len(Newest(a)) <= Len(n) + 1 /\ Len(n) <= Len(s) /\ Len(n) \in Nat
  BY <1>1, <1>2, <1>3, <1>4, <1>5, <1>6, Limits
<1>8. ASSUME NEW i \in 1..Len(Newest(a)) PROVE Newest(a)[i] = Newest(b)[i]
  <2>1. Newest(a)[i] = a[i] /\ Newest(b)[i] = b[i]
    BY <1>4, <1>5, <1>7
  <2>2. CASE i = 1
    BY <1>2, <1>3, <2>1, <2>2
  <2>3. CASE i # 1
    <3>1. i - 1 \in 1..Len(n) /\ i - 1 \in 1..Len(s) /\ (i - 1) + 1 = i
      <4>1. Len(Newest(a)) \in Nat
        BY <1>4
      <4>2. QED
        BY <1>6, <1>7, <2>3, <4>1
    <3>2. a[(i - 1) + 1] = n[i - 1] /\ b[(i - 1) + 1] = s[i - 1] /\ n[i - 1] = s[i - 1]
      BY <1>1, <1>2, <1>3, <3>1
    <3>3. QED
      BY <2>1, <3>1, <3>2
  <2>4. QED
    BY <2>2, <2>3
<1>9. Newest(a) = Newest(b)
  BY <1>4, <1>5, <1>7, <1>8, SeqEqual
<1>10. QED
  BY <1>9 DEF a, b, n

LEMMA HistoryType ==
  /\ \A s \in Seq(Calls) : Len(s) <= HistoryLimit => s \in BoundedSeq(Calls, HistoryLimit)
  /\ \A s \in BoundedSeq(Calls, HistoryLimit) : s \in Seq(Calls) /\ Len(s) <= HistoryLimit
<1>1. ASSUME NEW s \in Seq(Calls), Len(s) <= HistoryLimit
      PROVE  s \in BoundedSeq(Calls, HistoryLimit)
  <2>1. Len(s) \in 0..HistoryLimit /\ s \in [1..Len(s) -> Calls]
    BY <1>1, Limits, LenProperties
  <2>2. QED
    BY <2>1 DEF BoundedSeq, SeqOf
<1>2. ASSUME NEW s \in BoundedSeq(Calls, HistoryLimit)
      PROVE  s \in Seq(Calls) /\ Len(s) <= HistoryLimit
  <2>1. PICK m \in 0..HistoryLimit : s \in [1..m -> Calls]
    BY DEF BoundedSeq, SeqOf
  <2>2. s \in Seq(Calls) /\ m \in Nat
    BY <2>1, Limits, SeqDef
  <2>3. Len(s) = m
    BY <2>1, <2>2, LenProperties
  <2>4. QED
    BY <2>1, <2>2, <2>3, Limits
<1>3. QED
  BY <1>1, <1>2

LEMMA NewestType == ASSUME NEW s \in Seq(Calls) PROVE Newest(s) \in BoundedSeq(Calls, HistoryLimit)
<1>1. Newest(s) \in Seq(Calls) /\ Len(Newest(s)) <= HistoryLimit
  BY NewestKept, Limits
<1>2. QED
  BY <1>1, HistoryType

-----------------------------------------------------------------------------
(***************************************************************************)
(* What the parts of the page's steps do.                                  *)
(***************************************************************************)
Started == \A c \in Calls : start[c] # "none" => start'[c] # "none"

LEMMA EarlierInOrder == SetToSeq(Earlier) \in Seq(Calls)
<1>1. Cardinality(Earlier) \in Nat /\ ExistsBijection(1..Cardinality(Earlier), Earlier)
  BY WebPhoneAssumption, FS_CardinalityType
<1>2. \E f \in [1..Cardinality(Earlier) -> Earlier] : IsInjective(f)
  BY <1>1 DEF ExistsBijection, Bijection, Injection, IsInjective
<1>3. SetToSeq(Earlier) \in [1..Cardinality(Earlier) -> Earlier]
  BY <1>2 DEF SetToSeq
<1>4. SetToSeq(Earlier) \in [1..Cardinality(Earlier) -> Calls]
  BY <1>3, WebPhoneAssumption
<1>5. QED
  BY <1>1, <1>4, SeqDef

LEMMA BlankPage == Blank \in Pages
BY DEF Blank, Pages

LEMMA FinishSteps ==
  ASSUME NEW p \in Pages, start \in [Calls -> Stages], Finish(p)
  PROVE  /\ page' \in Pages /\ page'.call = p.call /\ page'.active = FALSE /\ page'.hang = "no"
         /\ start' \in [Calls -> Stages] /\ Started
<1>1. page' \in Pages /\ page'.call = p.call /\ page'.active = FALSE /\ page'.hang = "no"
  BY DEF Finish, Pages
<1>2. start' \in [Calls -> Stages] /\ Started
  BY DEF Finish, Stages, Started
<1>3. QED
  BY <1>1, <1>2

(* recordCall has run. *)
Ended(p) ==
  /\ page'.call = Nil
  /\ history' = IF p.call = Nil THEN history ELSE Newest(<<p.call>> \o history)
  /\ \/ page'.hang = "posting" /\ page'.active = p.active /\ raced' = raced
     \/ page'.hang = "no" /\ raced' = raced \cup (IF InCall THEN {current} ELSE {})

LEMMA RecordSteps ==
  ASSUME NEW p \in Pages, start \in [Calls -> Stages], Record(p)
  PROVE  page' \in Pages /\ start' \in [Calls -> Stages] /\ Started /\ Ended(p)
<1> DEFINE q == Forgotten(p)
<1>1. q \in Pages /\ q.call = Nil /\ q.active = p.active
  BY DEF Forgotten, Pages
<1>2. history' = IF p.call = Nil THEN history ELSE Newest(<<p.call>> \o history)
  BY DEF Record
<1>3. \/ Tell(q)
      \/ Finish(q) /\ raced' = raced \cup (IF InCall THEN {current} ELSE {})
  BY DEF Record
<1> HIDE DEF q
<1>4. CASE Tell(q)
  <2>1. page' \in Pages /\ page'.call = Nil /\ page'.active = p.active /\ page'.hang = "posting"
    BY <1>1, <1>4 DEF Tell, Pages
  <2>2. start' = start /\ raced' = raced
    BY <1>4 DEF Tell
  <2>3. QED
    BY <1>2, <2>1, <2>2 DEF Ended, Started
<1>5. CASE Finish(q) /\ raced' = raced \cup (IF InCall THEN {current} ELSE {})
  <2>1. /\ page' \in Pages /\ page'.call = Nil /\ page'.hang = "no"
        /\ start' \in [Calls -> Stages] /\ Started
    BY <1>1, <1>5, FinishSteps
  <2>2. QED
    BY <1>2, <1>5, <2>1 DEF Ended
<1>6. QED
  BY <1>3, <1>4, <1>5

(* The call goes on, on the page.                                          *)
Kept(p) ==
  /\ page'.call = p.call /\ page'.active = p.active
  /\ page'.hang = p.hang \/ page'.hang = "trace"
  /\ UNCHANGED <<history, raced>>

LEMMA HangupSteps ==
  ASSUME NEW p \in Pages, NEW n \in BOOLEAN, start \in [Calls -> Stages], Hangup(p, n)
  PROVE  page' \in Pages /\ start' \in [Calls -> Stages] /\ Started /\ (Ended(p) \/ Kept(p))
<1>1. CASE p.hang # "no" /\ page' = p /\ UNCHANGED <<start, history, raced>>
  BY <1>1 DEF Kept, Started
<1>2. CASE p.hang = "no" /\ Record([p EXCEPT !.hang = "posting", !.notify = n])
  <2> DEFINE q == [p EXCEPT !.hang = "posting", !.notify = n]
  <2>1. q \in Pages /\ q.call = p.call /\ q.active = p.active
    BY DEF Pages
  <2>2. Record(q)
    BY <1>2
  <2> HIDE DEF q
  <2>3. page' \in Pages /\ start' \in [Calls -> Stages] /\ Started /\ Ended(q)
    BY <2>1, <2>2, RecordSteps
  <2>4. QED
    BY <2>1, <2>3 DEF Ended
<1>3. CASE /\ p.hang = "no" /\ p.call # Nil
           /\ page' = [p EXCEPT !.hang = "trace", !.notify = n]
           /\ UNCHANGED <<start, history, raced>>
  <2>1. page' \in Pages /\ page'.call = p.call /\ page'.active = p.active /\ page'.hang = "trace"
    BY <1>3 DEF Pages
  <2>2. QED
    BY <1>3, <2>1 DEF Kept, Started
<1>4. QED
  BY <1>1, <1>2, <1>3 DEF Hangup

LEMMA PageType == TypeOK => page \in Pages /\ start \in [Calls -> Stages]
BY DEF TypeOK, Pages

(* Hangups, whoever starts them. *)
HangsUp == TraceRead \/ HangupClick \/ Refresh \/ \E s \in page.syncing : Synced(s)

LEMMA HangsUpSteps ==
  ASSUME TypeOK, HangsUp
  PROVE  /\ page' \in Pages /\ start' \in [Calls -> Stages] /\ Started
         /\ Ended(page) \/ Kept(page)
         /\ UNCHANGED <<gateway, offer, reloads, started, crossed>>
<1>1. page \in Pages /\ start \in [Calls -> Stages]
  BY PageType
<1>2. CASE TraceRead
  BY <1>1, <1>2, RecordSteps DEF TraceRead
<1>3. CASE HangupClick
  BY <1>1, <1>3, HangupSteps DEF HangupClick
<1>4. ASSUME Refresh PROVE page' \in Pages /\ start' \in [Calls -> Stages] /\ Started
                           /\ (Ended(page) \/ Kept(page))
                           /\ UNCHANGED <<gateway, offer, reloads, started, crossed>>
  <2>1. UNCHANGED <<gateway, offer, reloads, started, crossed>>
    BY <1>4 DEF Refresh
  <2> DEFINE q == [page EXCEPT !.poll = IF page.hang = "no" THEN "hanging" ELSE "no"]
  <2>2. CASE SeesFailure \/ SeesEnd
    <3>1. q \in Pages /\ q.call = page.call /\ q.active = page.active /\ q.hang = page.hang
      BY <1>1 DEF Pages
    <3>2. Hangup(q, SeesFailure) /\ SeesFailure \in BOOLEAN
      BY <1>4, <2>2 DEF Refresh, SeesFailure
    <3> HIDE DEF q
    <3>3. page' \in Pages /\ start' \in [Calls -> Stages] /\ Started /\ (Ended(q) \/ Kept(q))
      BY <1>1, <3>1, <3>2, HangupSteps
    <3>4. QED
      BY <2>1, <3>1, <3>3 DEF Ended, Kept
  <2>3. CASE ~(SeesFailure \/ SeesEnd)
    <3>1. page' = [page EXCEPT !.poll = "no"] /\ UNCHANGED <<start, history, raced>>
      BY <1>4, <2>3 DEF Refresh
    <3>2. page' \in Pages /\ page'.call = page.call /\ page'.active = page.active
          /\ page'.hang = page.hang
      BY <1>1, <3>1 DEF Pages
    <3>3. QED
      BY <1>1, <2>1, <3>1, <3>2 DEF Kept, Started
  <2>4. QED
    BY <2>2, <2>3
<1>5. ASSUME NEW s \in page.syncing, Synced(s)
      PROVE  page' \in Pages /\ start' \in [Calls -> Stages] /\ Started
             /\ (Ended(page) \/ Kept(page))
             /\ UNCHANGED <<gateway, offer, reloads, started, crossed>>
  <2> DEFINE q == [page EXCEPT !.syncing = @ \ {s}]
  <2>1. q \in Pages /\ q.call = page.call /\ q.active = page.active /\ q.hang = page.hang
    BY <1>1 DEF Pages
  <2>2. Hangup(q, TRUE) /\ UNCHANGED <<gateway, offer, reloads, started, crossed>>
    BY <1>5 DEF Synced
  <2> HIDE DEF q
  <2>3. page' \in Pages /\ start' \in [Calls -> Stages] /\ Started /\ (Ended(q) \/ Kept(q))
    BY <1>1, <2>1, <2>2, HangupSteps
  <2>4. QED
    BY <2>1, <2>2, <2>3 DEF Ended, Kept
<1>6. QED
  BY <1>2, <1>3, <1>4, <1>5 DEF HangsUp

(* The steps of startCall and of a poll between its awaits. *)
Continues ==
  \/ \E c \in Calls : \/ AudioReady(c) \/ AudioRefused(c) \/ IceComplete(c)
                      \/ Answered(c) \/ ConnectionFails(c)
  \/ Poll \/ HandleStatus

Reached == \A c \in Calls : offer'[c] = offer[c] \/ start'[c] # "none"

LEMMA ContinuesSteps ==
  ASSUME TypeOK, Continues
  PROVE  /\ page' \in Pages /\ start' \in [Calls -> Stages] /\ offer' \in [Calls -> Offers]
         /\ Started /\ Kept(page) /\ Reached
         /\ UNCHANGED <<gateway, reloads, started, crossed>>
<1>1. page \in Pages /\ start \in [Calls -> Stages] /\ offer \in [Calls -> Offers]
  BY PageType DEF TypeOK
<1>2. ASSUME NEW c \in Calls, AudioReady(c)
      PROVE  /\ page' \in Pages /\ start' \in [Calls -> Stages] /\ Started /\ Kept(page)
             /\ offer' = offer
  BY <1>1, <1>2 DEF AudioReady, Pages, Stages, Started, Kept
<1>3. ASSUME NEW c \in Calls, Caught(c) PROVE page' \in Pages /\ page'.call = page.call
                                 /\ page'.active = page.active /\ page'.hang = page.hang
  BY <1>1, <1>3 DEF Caught, Pages
<1>4. ASSUME NEW c \in Calls, AudioRefused(c)
      PROVE  /\ page' \in Pages /\ start' \in [Calls -> Stages] /\ Started /\ Kept(page)
             /\ offer' = offer
  <2>1. Caught(c) /\ start' = [start EXCEPT ![c] = "over"] /\ UNCHANGED <<offer, history, raced>>
    BY <1>4 DEF AudioRefused
  <2>2. start' \in [Calls -> Stages] /\ Started
    BY <1>1, <2>1 DEF Stages, Started
  <2>3. QED
    BY <1>3, <2>1, <2>2 DEF Kept
<1>5. ASSUME NEW c \in Calls, IceComplete(c)
      PROVE  /\ page' \in Pages /\ start' \in [Calls -> Stages] /\ Started /\ Kept(page)
             /\ offer' \in [Calls -> Offers] /\ Reached
  BY <1>1, <1>5 DEF IceComplete, Stages, Offers, Started, Reached, Kept
<1>6. ASSUME NEW c \in Calls, Answered(c)
      PROVE  /\ page' \in Pages /\ start' \in [Calls -> Stages] /\ Started /\ Kept(page)
             /\ offer' = offer
  <2>1. (Caught(c) \/ page' = page) /\ start' = [start EXCEPT ![c] = "over"]
        /\ UNCHANGED <<offer, history, raced>>
    BY <1>6 DEF Answered
  <2>2. start' \in [Calls -> Stages] /\ Started
    BY <1>1, <2>1 DEF Stages, Started
  <2>3. QED
    BY <1>1, <1>3, <2>1, <2>2 DEF Kept
<1>7. ASSUME NEW c \in Calls, ConnectionFails(c)
      PROVE  page' \in Pages /\ start' = start /\ Kept(page) /\ offer' = offer
  BY <1>1, <1>7 DEF ConnectionFails, Pages, Kept
<1>8. ASSUME Poll \/ HandleStatus PROVE page' \in Pages /\ start' = start /\ Kept(page) /\ offer' = offer
  <2>1. state \in {"idle", "connecting", "connected", "failed"}
    BY DEF TypeOK
  <2>2. CASE Poll
    BY <1>1, <2>2 DEF Poll, Pages, Kept
  <2>3. CASE HandleStatus
    BY <1>1, <2>1, <2>3 DEF HandleStatus, Pages, Kept
  <2>4. QED
    BY <1>8, <2>2, <2>3
<1>9. UNCHANGED <<gateway, reloads, started, crossed>>
  BY DEF Continues, AudioReady, AudioRefused, IceComplete, Answered, ConnectionFails, Poll,
         HandleStatus
<1>10. offer' = offer => Reached
  BY DEF Reached
<1>11. start' = start => Started
  BY DEF Started
<1>12. QED
  BY <1>1, <1>2, <1>4, <1>5, <1>6, <1>7, <1>8, <1>9, <1>10, <1>11 DEF Continues

(* The steps of the gateway. *)
Serves == (\E c \in Calls : HandleOffer(c) \/ Negotiated(c)) \/ Elsewhere

LEMMA ServesSteps ==
  ASSUME TypeOK, Serves
  PROVE  /\ UNCHANGED <<start, page, history, reloads, started, crossed>>
         /\ state' \in {"idle", "connecting", "connected", "failed"}
         /\ current' \in Calls \cup {Nil} /\ over' \subseteq Calls
         /\ offer' \in [Calls -> Offers] /\ raced' \subseteq Calls /\ raced \subseteq raced'
         /\ \A c \in Calls : offer'[c] = offer[c] \/ offer[c] # "none"
         /\ InCall' => \/ InCall /\ current' = current
                       \/ /\ current' \in Calls /\ offer[current'] # "none"
                          /\ page.call = current' \/ current' \in raced'
<1>1. /\ state \in {"idle", "connecting", "connected", "failed"}
      /\ current \in Calls \cup {Nil} /\ over \subseteq Calls
      /\ offer \in [Calls -> Offers] /\ raced \subseteq Calls
  BY DEF TypeOK
<1>2. Gateway!Retired \subseteq Calls
  BY <1>1 DEF Gateway!Retired
<1>3. ASSUME NEW c \in Calls, HandleOffer(c), InCall
      PROVE  /\ UNCHANGED <<gateway, raced, start, page, history, reloads, started, crossed>>
             /\ offer' \in [Calls -> Offers]
             /\ \A d \in Calls : offer'[d] = offer[d] \/ offer[d] # "none"
  BY <1>1, <1>3 DEF HandleOffer, Offers
<1>4. ASSUME NEW c \in Calls, HandleOffer(c), ~InCall, ~Gateway!End
      PROVE  /\ UNCHANGED <<start, page, history, reloads, started, crossed>>
             /\ state' = "connecting" /\ current' = c /\ over' \subseteq Calls
             /\ offer' \in [Calls -> Offers] /\ raced' \subseteq Calls /\ raced \subseteq raced'
             /\ \A d \in Calls : offer'[d] = offer[d] \/ offer[d] # "none"
             /\ offer[c] # "none" /\ (page.call = c \/ c \in raced')
  BY <1>1, <1>2, <1>4 DEF HandleOffer, Offers, Gateway!Accept
<1>e. ASSUME NEW c \in Calls, HandleOffer(c), ~InCall, Gateway!End
      PROVE  /\ UNCHANGED <<start, page, history, reloads, started, crossed>>
             /\ offer' \in [Calls -> Offers] /\ raced' \subseteq Calls /\ raced \subseteq raced'
             /\ \A d \in Calls : offer'[d] = offer[d] \/ offer[d] # "none"
  BY <1>1, <1>e DEF HandleOffer, Offers
<1>5. ASSUME NEW c \in Calls, Negotiated(c)
      PROVE  /\ UNCHANGED <<start, page, history, reloads, started, raced, crossed>>
             /\ offer' \in [Calls -> Offers]
             /\ \A d \in Calls : offer'[d] = offer[d] \/ offer[d] # "none"
             /\ (UNCHANGED gateway \/ Gateway!Fail)
  BY <1>1, <1>5 DEF Negotiated, Offers
<1>6. ASSUME Elsewhere
      PROVE  /\ UNCHANGED <<start, page, history, reloads, started, raced, crossed, offer>>
             /\ (Gateway!Connect \/ Gateway!Fail \/ Gateway!End)
  BY <1>6 DEF Elsewhere
<1>7. ASSUME UNCHANGED gateway \/ Gateway!Connect \/ Gateway!Fail \/ Gateway!End
      PROVE  /\ state' \in {"idle", "connecting", "connected", "failed"}
             /\ current' \in Calls \cup {Nil} /\ over' \subseteq Calls
             /\ InCall' => InCall /\ current' = current
  BY <1>1, <1>2, <1>7 DEF gateway, Gateway!Connect, Gateway!Fail, Gateway!End, InCall
<1>8. CASE \E c \in Calls : HandleOffer(c)
  <2>1. PICK c \in Calls : HandleOffer(c)
    BY <1>8
  <2>2. CASE InCall
    BY <1>1, <1>3, <1>7, <2>1, <2>2
  <2>3. CASE ~InCall /\ ~Gateway!End
    BY <1>1, <1>4, <2>1, <2>3
  <2>4. CASE ~InCall /\ Gateway!End
    BY <1>1, <1>e, <1>7, <2>1, <2>4
  <2>5. QED
    BY <2>2, <2>3, <2>4
<1>9. CASE \E c \in Calls : Negotiated(c)
  BY <1>1, <1>5, <1>7, <1>9
<1>10. CASE Elsewhere
  BY <1>1, <1>6, <1>7, <1>10
<1>11. QED
  BY <1>8, <1>9, <1>10 DEF Serves

LEMMA HandleHangupSteps ==
  ASSUME TypeOK, HandleHangup
  PROVE  /\ page.hang = "posting"
         /\ page' \in Pages /\ page'.call = page.call /\ page'.active = page.active
         /\ page'.hang = "posted" /\ state' = "idle" /\ current' = Nil /\ over' \subseteq Calls
         /\ UNCHANGED <<offer, start, history, reloads, started, raced, crossed>>
<1>1. page \in Pages
  BY PageType
<1>2. page' \in Pages /\ page'.call = page.call /\ page'.active = page.active /\ page'.hang = "posted"
  BY <1>1 DEF HandleHangup, Pages
<1>3. current \in Calls \cup {Nil} /\ over \subseteq Calls
  BY DEF TypeOK
<1>4. state' = "idle" /\ current' = Nil /\ over' \subseteq Calls
  BY <1>3 DEF HandleHangup, Gateway!End, Gateway!Retired
<1>5. QED
  BY <1>2, <1>4 DEF HandleHangup

LEMMA HangupLostSteps ==
  ASSUME TypeOK, LockInv, HangupLost
  PROVE  /\ page.hang = "posting"
         /\ page' \in Pages /\ page'.call = page.call /\ page'.active = page.active
         /\ page'.hang = "posted"
         /\ raced' \subseteq Calls /\ raced \subseteq raced' /\ (InCall => current \in raced')
         /\ UNCHANGED <<gateway, offer, start, history, reloads, started, crossed>>
<1>1. page \in Pages /\ current \in Calls \cup {Nil} /\ raced \subseteq Calls
  BY PageType DEF TypeOK
<1>2. page' \in Pages /\ page'.call = page.call /\ page'.active = page.active /\ page'.hang = "posted"
  BY <1>1 DEF HangupLost, Pages
<1>3. raced' \subseteq Calls /\ raced \subseteq raced' /\ (InCall => current \in raced')
  BY <1>1 DEF HangupLost, LockInv
<1>4. QED
  BY <1>2, <1>3 DEF HangupLost

LEMMA HangupDoneSteps ==
  ASSUME TypeOK, HangupDone
  PROVE  /\ page.hang = "posted"
         /\ page' \in Pages /\ page'.call = page.call /\ page'.active = FALSE
         /\ page'.hang = "no" /\ start' \in [Calls -> Stages] /\ Started
         /\ UNCHANGED <<gateway, offer, history, reloads, started, raced, crossed>>
BY PageType, FinishSteps DEF HangupDone

LEMMA StartCallSteps ==
  ASSUME TypeOK, NEW c \in Calls, StartCall(c)
  PROVE  /\ page' \in Pages /\ page'.call = c /\ ~page.active /\ page'.active
         /\ page'.hang = page.hang
         /\ start' \in [Calls -> Stages] /\ Started /\ raced' \subseteq Calls /\ raced \subseteq raced'
         /\ started' = <<c>> \o started
         /\ IF page.hang = "no" THEN crossed' = crossed ELSE crossed' /\ c \in raced'
         /\ UNCHANGED <<gateway, offer, history, reloads>>
<1>1. page \in Pages /\ start \in [Calls -> Stages] /\ raced \subseteq Calls
  BY PageType DEF TypeOK
<1>2. page' \in Pages /\ page'.call = c /\ ~page.active /\ page'.active /\ page'.hang = page.hang
  BY <1>1 DEF StartCall, Pages
<1>3. start' \in [Calls -> Stages] /\ Started
  BY <1>1 DEF StartCall, Stages, Started
<1>4. QED
  BY <1>1, <1>2, <1>3 DEF StartCall

LEMMA ReloadSteps ==
  ASSUME TypeOK, Reload
  PROVE  /\ page' = Blank /\ page' \in Pages
         /\ reloads' \in 0..MaxReloads
         /\ start' \in [Calls -> Stages] /\ Started
         /\ started' = (IF page.call = Nil THEN started ELSE Tail(started))
         /\ raced' = raced \cup {c \in Calls : start[c] # "none"}
         /\ UNCHANGED <<gateway, offer, history, crossed>>
<1>1. reloads \in 0..MaxReloads /\ start \in [Calls -> Stages]
  BY DEF TypeOK
<1>2. reloads' \in 0..MaxReloads
  BY <1>1, Limits DEF Reload
<1>3. start' \in [Calls -> Stages] /\ Started
  BY <1>1 DEF Reload, Stages, Started
<1>4. QED
  BY <1>2, <1>3, BlankPage DEF Reload

LEMMA AllSteps ==
  Next => HangsUp \/ Continues \/ Serves \/ HandleHangup \/ HangupLost \/ HangupDone
          \/ Reload \/ \E c \in Calls : StartCall(c)
BY DEF Next, HangsUp, Continues, Serves, Hanging, Polling

-----------------------------------------------------------------------------
(***************************************************************************)
(* The invariants hold.                                                    *)
(***************************************************************************)
PhoneInv == TypeOK /\ LastStarted /\ HistoryInv /\ LockInv

LEMMA PhoneInit == Init => PhoneInv /\ LockedDuringCall
<1> SUFFICES ASSUME Init PROVE PhoneInv /\ LockedDuringCall
  OBVIOUS
<1>1. /\ state = "idle" /\ current = Nil /\ over = {}
      /\ offer = [c \in Calls |-> "none"]
      /\ start = [c \in Calls |-> IF c \in Earlier THEN "over" ELSE "none"]
      /\ page = Blank /\ started = SetToSeq(Earlier) /\ history = Newest(started)
      /\ reloads = 0 /\ raced = {} /\ crossed = FALSE
  BY DEF Init, Gateway!Init
<1>2. started \in Seq(Calls) /\ history \in BoundedSeq(Calls, HistoryLimit)
  BY <1>1, EarlierInOrder, NewestType
<1>3. page \in Pages /\ page.call = Nil /\ page.hang = "no" /\ ~page.active
  BY <1>1, BlankPage DEF Blank
<1>4. offer \in [Calls -> Offers] /\ start \in [Calls -> Stages] /\ 0 \in 0..MaxReloads
  BY <1>1, Limits DEF Offers, Stages
<1>5. TypeOK
  BY <1>1, <1>2, <1>3, <1>4 DEF TypeOK, Pages
<1>6. LastStarted /\ HistoryInv /\ LockInv /\ LockedDuringCall
  BY <1>1, <1>3 DEF LastStarted, HistoryInv, Recorded, LockInv, InCall, LockedDuringCall
<1>7. QED
  BY <1>5, <1>6 DEF PhoneInv

LEMMA SequencesStep ==
  ASSUME PhoneInv, Next
  PROVE  /\ started' \in Seq(Calls) /\ history' \in BoundedSeq(Calls, HistoryLimit)
         /\ LastStarted' /\ HistoryInv'
<1>1. /\ TypeOK /\ started \in Seq(Calls) /\ history \in BoundedSeq(Calls, HistoryLimit)
      /\ page \in Pages /\ LastStarted /\ HistoryInv /\ LockInv /\ crossed \in BOOLEAN
  BY PageType DEF PhoneInv, TypeOK
<1>2. page.call \in Calls \cup {Nil} /\ history \in Seq(Calls)
  BY <1>1, HistoryType DEF Pages
<1>3. ASSUME page.call # Nil PROVE /\ started # <<>> /\ Head(started) = page.call
                                   /\ Tail(started) \in Seq(Calls)
                                   /\ <<page.call>> \o Tail(started) = started
  BY <1>1, <1>3, TakeApart DEF LastStarted
<1>4. ASSUME Ended(page), UNCHANGED <<started, crossed>>
      PROVE  history' \in BoundedSeq(Calls, HistoryLimit) /\ LastStarted' /\ HistoryInv'
  <2>1. history' \in BoundedSeq(Calls, HistoryLimit)
    <3>1. CASE page.call = Nil
      BY <1>1, <1>4, <3>1 DEF Ended
    <3>2. CASE page.call # Nil
      <4>1. <<page.call>> \o history \in Seq(Calls)
        BY <1>2, <3>2, Put
      <4>2. QED
        BY <1>4, <3>2, <4>1, NewestType DEF Ended
    <3>3. QED
      BY <3>1, <3>2
  <2>2. page'.call = Nil
    BY <1>4 DEF Ended
  <2>3. LastStarted'
    BY <2>2 DEF LastStarted
  <2>4. ASSUME ~crossed PROVE history' = Newest(started)
    <3>1. history = Newest(Recorded)
      BY <1>1, <2>4 DEF HistoryInv
    <3>2. CASE page.call = Nil
      BY <1>4, <3>1, <3>2 DEF Ended, Recorded
    <3>3. CASE page.call # Nil
      <4>1. history' = Newest(<<page.call>> \o Newest(Tail(started)))
        BY <1>4, <3>1, <3>3 DEF Ended, Recorded
      <4>2. QED
        BY <1>2, <1>3, <3>3, <4>1, NewestOfNewest
    <3>4. QED
      BY <3>2, <3>3
  <2>5. HistoryInv'
    BY <1>4, <2>2, <2>4 DEF HistoryInv, Recorded
  <2>6. QED
    BY <2>1, <2>3, <2>5
<1>5. ASSUME UNCHANGED <<started, crossed, history>>, page'.call = page.call,
             page'.active = page.active,
             page'.hang \in {"no", "trace", page.hang} \/ page.hang = "posting"
      PROVE  history' \in BoundedSeq(Calls, HistoryLimit) /\ LastStarted' /\ HistoryInv'
  BY <1>1, <1>5 DEF LastStarted, HistoryInv, Recorded
<1>6. CASE HangsUp
  <2>1. (Ended(page) \/ Kept(page)) /\ UNCHANGED <<started, crossed>>
    BY <1>1, <1>6, HangsUpSteps
  <2>2. CASE Ended(page)
    BY <1>1, <1>4, <2>1, <2>2
  <2>3. CASE Kept(page)
    BY <1>1, <1>5, <2>1, <2>3 DEF Kept
  <2>4. QED
    BY <2>1, <2>2, <2>3
<1>7. CASE Continues
  <2>1. Kept(page) /\ UNCHANGED <<started, crossed>>
    BY <1>1, <1>7, ContinuesSteps
  <2>2. QED
    BY <1>1, <1>5, <2>1 DEF Kept
<1>8. CASE Serves
  <2>1. UNCHANGED <<page, history, started, crossed>>
    BY <1>1, <1>8, ServesSteps
  <2>2. QED
    BY <1>1, <1>5, <2>1
<1>9. CASE HandleHangup
  <2>1. /\ page.hang = "posting" /\ page'.call = page.call /\ page'.active = page.active
        /\ UNCHANGED <<history, started, crossed>>
    BY <1>1, <1>9, HandleHangupSteps
  <2>2. QED
    BY <1>1, <1>5, <2>1
<1>l. CASE HangupLost
  <2>1. /\ page.hang = "posting" /\ page'.call = page.call /\ page'.active = page.active
        /\ UNCHANGED <<history, started, crossed>>
    BY <1>1, <1>l, HangupLostSteps
  <2>2. QED
    BY <1>1, <1>5, <2>1
<1>10. CASE HangupDone
  <2>1. /\ page.hang = "posted" /\ page'.call = page.call /\ page'.hang = "no"
        /\ UNCHANGED <<history, started, crossed>>
    BY <1>1, <1>10, HangupDoneSteps
  <2>2. LastStarted' /\ HistoryInv'
    BY <1>1, <2>1 DEF LastStarted, HistoryInv, Recorded
  <2>3. QED
    BY <1>1, <2>1, <2>2
<1>11. CASE Reload
  <2>1. /\ started' = (IF page.call = Nil THEN started ELSE Tail(started))
        /\ page' = Blank /\ UNCHANGED <<history, crossed>>
    BY <1>1, <1>11, ReloadSteps
  <2>2. page'.call = Nil /\ page'.hang = "no"
    BY <2>1 DEF Blank
  <2>3. started' \in Seq(Calls) /\ started' = Recorded
    BY <1>1, <1>3, <2>1 DEF Recorded
  <2>4. LastStarted' /\ HistoryInv'
    BY <1>1, <2>1, <2>2, <2>3 DEF LastStarted, HistoryInv, Recorded
  <2>5. QED
    BY <1>1, <2>1, <2>3, <2>4
<1>12. ASSUME NEW c \in Calls, StartCall(c)
       PROVE  /\ started' \in Seq(Calls) /\ history' \in BoundedSeq(Calls, HistoryLimit)
              /\ LastStarted' /\ HistoryInv'
  <2>1. /\ page'.call = c /\ ~page.active /\ page'.active /\ page'.hang = page.hang
        /\ started' = <<c>> \o started /\ history' = history
        /\ IF page.hang = "no" THEN crossed' = crossed ELSE crossed'
    BY <1>1, <1>12, StartCallSteps
  <2>2. /\ started' \in Seq(Calls) /\ started' # <<>> /\ Head(started') = c
        /\ Tail(started') = started
    BY <1>1, <2>1, Put
  <2>3. LastStarted' /\ c # Nil
    BY <2>1, <2>2, Limits DEF LastStarted
  <2>4. ASSUME ~crossed'
        PROVE  page'.hang = "no" /\ history' = Newest(Tail(started'))
    <3>1. page.hang = "no" /\ ~crossed
      BY <2>1, <2>4
    <3>2. page.call = Nil /\ history = Newest(started)
      BY <1>1, <2>1, <3>1 DEF HistoryInv, Recorded
    <3>3. QED
      BY <2>1, <2>2, <3>1, <3>2
  <2>5. HistoryInv'
    BY <2>1, <2>3, <2>4 DEF HistoryInv, Recorded
  <2>6. QED
    BY <1>1, <2>1, <2>2, <2>3, <2>5
<1>13. HangsUp \/ Continues \/ Serves \/ HandleHangup \/ HangupLost \/ HangupDone
         => started' \in Seq(Calls)
  BY <1>1, HangsUpSteps, ContinuesSteps, ServesSteps, HandleHangupSteps, HangupLostSteps,
     HangupDoneSteps
<1>14. QED
  BY <1>6, <1>7, <1>8, <1>9, <1>l, <1>10, <1>11, <1>12, <1>13, AllSteps

(* LockInv and LockedDuringCall, by what the page makes of its call.       *)
Locked == LockInv /\ LockedDuringCall

LEMMA LockStep ==
  ASSUME PhoneInv, LockedDuringCall, Next
  PROVE  Locked'
<1>1. /\ TypeOK /\ page \in Pages /\ LastStarted /\ LockInv
      /\ started \in Seq(Calls) /\ start \in [Calls -> Stages]
  BY PageType DEF PhoneInv, TypeOK
<1>2. ASSUME Started, UNCHANGED gateway
      PROVE  /\ InCall' = InCall
             /\ InCall' => current' \in Calls /\ start'[current'] # "none"
             /\ offer' = offer => \A c \in Calls : offer'[c] # "none" => start'[c] # "none"
  BY <1>1, <1>2 DEF Started, gateway, LockInv, InCall
<1>3. CASE HangsUp
  <2>1. /\ Started /\ (Ended(page) \/ Kept(page)) /\ page' \in Pages
        /\ UNCHANGED <<gateway, offer, reloads, started, crossed>>
    BY <1>1, <1>3, HangsUpSteps
  <2>2. CASE Ended(page)
    <3>1. CASE page'.hang = "posting" /\ page'.active = page.active /\ raced' = raced
      BY <1>1, <1>2, <2>1, <2>2, <3>1 DEF Ended, Locked, LockInv, LockedDuringCall, gateway
    <3>2. CASE page'.hang = "no" /\ raced' = raced \cup (IF InCall THEN {current} ELSE {})
      BY <1>1, <1>2, <2>1, <2>2, <3>2 DEF Ended, Locked, LockInv, LockedDuringCall, gateway
    <3>3. QED
      BY <2>2, <3>1, <3>2 DEF Ended
  <2>3. CASE Kept(page)
    BY <1>1, <1>2, <2>1, <2>3 DEF Kept, Locked, LockInv, LockedDuringCall, gateway
  <2>4. QED
    BY <2>1, <2>2, <2>3
<1>4. CASE Continues
  <2>1. /\ Started /\ Kept(page) /\ Reached
        /\ UNCHANGED <<gateway, reloads, started, crossed>>
    BY <1>1, <1>4, ContinuesSteps
  <2>2. \A c \in Calls : offer'[c] # "none" => start'[c] # "none"
    BY <1>1, <2>1 DEF Reached, Started, LockInv
  <2>3. QED
    BY <1>1, <1>2, <2>1, <2>2 DEF Kept, Locked, LockInv, LockedDuringCall, gateway
<1>5. CASE Serves
  <2>1. /\ UNCHANGED <<start, page, history, reloads, started, crossed>>
        /\ raced \subseteq raced'
        /\ \A c \in Calls : offer'[c] = offer[c] \/ offer[c] # "none"
        /\ InCall' => \/ InCall /\ current' = current
                      \/ /\ current' \in Calls /\ offer[current'] # "none"
                         /\ page.call = current' \/ current' \in raced'
    BY <1>1, <1>5, ServesSteps
  <2>2. InCall' => current' \in Calls /\ start'[current'] # "none"
    BY <1>1, <2>1 DEF LockInv
  <2>3. \A c \in Calls : offer'[c] # "none" => start'[c] # "none"
    BY <1>1, <2>1 DEF LockInv
  <2>4. /\ page'.call # Nil => page'.call \in raced' \/ page'.active
        /\ page'.call # Nil /\ page'.hang \in {"posting", "posted"} => page'.call \in raced'
    BY <1>1, <2>1 DEF LockInv
  <2>5. ASSUME InCall' PROVE current' \in raced' \/ (page'.active /\ Head(started') = current')
    <3>1. CASE InCall /\ current' = current
      BY <2>1, <3>1 DEF LockedDuringCall
    <3>2. CASE current' \in Calls /\ page.call = current'
      BY <1>1, <2>1, <3>2, Limits DEF LastStarted, LockInv
    <3>3. QED
      BY <2>1, <2>5, <3>1, <3>2
  <2>6. InCall' /\ page'.hang = "posted" => current' \in raced'
    <3>1. CASE InCall /\ current' = current
      BY <1>1, <2>1, <3>1 DEF LockInv
    <3>2. CASE current' \in Calls /\ page.call = current'
      BY <1>1, <2>1, <3>2, Limits DEF LockInv
    <3>3. QED
      BY <2>1, <3>1, <3>2
  <2>7. QED
    BY <2>2, <2>3, <2>4, <2>5, <2>6 DEF Locked, LockInv, LockedDuringCall
<1>6. CASE HandleHangup
  <2>1. /\ page.hang = "posting" /\ page'.call = page.call /\ page'.active = page.active
        /\ state' = "idle" /\ UNCHANGED <<offer, start, started, raced>>
    BY <1>1, <1>6, HandleHangupSteps
  <2>2. ~InCall'
    BY <2>1 DEF InCall
  <2>3. QED
    BY <1>1, <2>1, <2>2 DEF Locked, LockInv, LockedDuringCall
<1>l. CASE HangupLost
  <2>1. /\ page.hang = "posting" /\ page'.call = page.call /\ page'.active = page.active
        /\ raced \subseteq raced' /\ (InCall => current \in raced')
        /\ UNCHANGED <<state, current, offer, start, started>>
    BY <1>1, <1>l, HangupLostSteps DEF gateway
  <2>2. InCall' => InCall /\ current' = current
    BY <2>1 DEF InCall
  <2>3. page'.call # Nil => page'.call \in raced'
    BY <1>1, <2>1 DEF LockInv
  <2>4. QED
    BY <1>1, <2>1, <2>2, <2>3 DEF Locked, LockInv, LockedDuringCall
<1>7. CASE HangupDone
  <2>1. /\ page.hang = "posted" /\ page'.call = page.call /\ page'.hang = "no" /\ Started
        /\ UNCHANGED <<gateway, offer, started, raced>>
    BY <1>1, <1>7, HangupDoneSteps
  <2>2. QED
    BY <1>1, <1>2, <2>1 DEF Locked, LockInv, LockedDuringCall, gateway
<1>8. CASE Reload
  <2>1. /\ page' = Blank /\ Started /\ raced' = raced \cup {c \in Calls : start[c] # "none"}
        /\ UNCHANGED <<gateway, offer>>
    BY <1>1, <1>8, ReloadSteps
  <2>2. page'.call = Nil /\ page'.hang = "no"
    BY <2>1 DEF Blank
  <2>3. InCall' => current' \in raced'
    BY <1>1, <1>2, <2>1 DEF LockInv, gateway
  <2>4. QED
    BY <1>1, <1>2, <2>1, <2>2, <2>3 DEF Locked, LockInv, LockedDuringCall
<1>9. ASSUME NEW c \in Calls, StartCall(c) PROVE Locked'
  <2>1. /\ page'.call = c /\ ~page.active /\ page'.active /\ page'.hang = page.hang
        /\ Started /\ raced \subseteq raced'
        /\ IF page.hang = "no" THEN crossed' = crossed ELSE crossed' /\ c \in raced'
        /\ UNCHANGED <<gateway, offer>>
    BY <1>1, <1>9, StartCallSteps
  <2>2. InCall' => current' \in raced'
    BY <1>2, <2>1 DEF LockedDuringCall, gateway
  <2>3. QED
    BY <1>1, <1>2, <2>1, <2>2 DEF Locked, LockInv, LockedDuringCall
<1>10. QED
  BY <1>3, <1>4, <1>5, <1>6, <1>l, <1>7, <1>8, <1>9, AllSteps

LEMMA TypeStep ==
  ASSUME PhoneInv, Next
  PROVE  TypeOK'
<1>1. /\ TypeOK /\ page \in Pages /\ start \in [Calls -> Stages] /\ LockInv
      /\ state \in {"idle", "connecting", "connected", "failed"}
      /\ current \in Calls \cup {Nil} /\ over \subseteq Calls
      /\ offer \in [Calls -> Offers] /\ raced \subseteq Calls /\ reloads \in 0..MaxReloads
      /\ crossed \in BOOLEAN
  BY PageType DEF PhoneInv, TypeOK
<1>2. started' \in Seq(Calls) /\ history' \in BoundedSeq(Calls, HistoryLimit)
  BY SequencesStep
<1>3. page' \in Pages /\ start' \in [Calls -> Stages]
  BY <1>1, AllSteps, HangsUpSteps, ContinuesSteps, ServesSteps, HandleHangupSteps,
     HangupLostSteps, HangupDoneSteps, ReloadSteps, StartCallSteps
<1>4. /\ state' \in {"idle", "connecting", "connected", "failed"}
      /\ current' \in Calls \cup {Nil} /\ over' \subseteq Calls
  BY <1>1, AllSteps, HangsUpSteps, ContinuesSteps, ServesSteps, HandleHangupSteps,
     HangupLostSteps, HangupDoneSteps, ReloadSteps, StartCallSteps DEF gateway
<1>5. offer' \in [Calls -> Offers] /\ reloads' \in 0..MaxReloads
  BY <1>1, AllSteps, HangsUpSteps, ContinuesSteps, ServesSteps, HandleHangupSteps,
     HangupLostSteps, HangupDoneSteps, ReloadSteps, StartCallSteps
<1>6. (Ended(page) \/ Kept(page)) => raced' \subseteq Calls
  BY <1>1 DEF Ended, Kept, LockInv
<1>7. raced' \subseteq Calls
  <2>1. CASE HangsUp \/ Continues
    BY <1>1, <1>6, <2>1, HangsUpSteps, ContinuesSteps
  <2>2. CASE ~(HangsUp \/ Continues)
    BY <1>1, <2>2, AllSteps, ServesSteps, HandleHangupSteps, HangupLostSteps,
       HangupDoneSteps, ReloadSteps, StartCallSteps
  <2>3. QED
    BY <2>1, <2>2
<1>8. crossed' \in BOOLEAN
  <2>1. ASSUME NEW c \in Calls, StartCall(c) PROVE crossed' \in BOOLEAN
    BY <1>1, <2>1 DEF StartCall
  <2>2. QED
    BY <1>1, <2>1, AllSteps, HangsUpSteps, ContinuesSteps, ServesSteps, HandleHangupSteps,
       HangupLostSteps, HangupDoneSteps, ReloadSteps
<1>9. QED
  BY <1>2, <1>3, <1>4, <1>5, <1>7, <1>8 DEF TypeOK, Pages

LEMMA PhoneHolds == Spec => [](PhoneInv /\ LockedDuringCall)
<1>1. Init => PhoneInv /\ LockedDuringCall
  BY PhoneInit
<1>2. PhoneInv /\ LockedDuringCall /\ [Next]_vars => (PhoneInv /\ LockedDuringCall)'
  <2> SUFFICES ASSUME PhoneInv, LockedDuringCall, [Next]_vars
               PROVE  PhoneInv' /\ LockedDuringCall'
    OBVIOUS
  <2>1. CASE Next
    BY <2>1, SequencesStep, LockStep, TypeStep DEF PhoneInv, Locked
  <2>2. CASE UNCHANGED vars
    BY <2>2 DEF vars, gateway, PhoneInv, TypeOK, LastStarted, HistoryInv, Recorded, LockInv,
                InCall, LockedDuringCall
  <2>3. QED
    BY <2>1, <2>2
<1>3. QED
  BY <1>1, <1>2, PTL DEF Spec

-----------------------------------------------------------------------------
(***************************************************************************)
(* The theorems.                                                           *)
(***************************************************************************)

(* The page's variables, its history and the gateway's call keep their     *)
(* ranges: the history never gets longer than it may.                      *)
THEOREM TypeCorrect == Spec => []TypeOK
BY PhoneHolds, PTL DEF PhoneInv

(* recordCall: however many hangups meet, when no call is shown the        *)
(* history is the newest calls, each once and in order, unless a call was  *)
(* started while a hangup waited.                                          *)
THEOREM HistoryIsComplete == Spec => []HistoryComplete
<1>1. PhoneInv => HistoryComplete
  BY DEF PhoneInv, HistoryInv, Recorded, HistoryComplete
<1>2. QED
  BY <1>1, PhoneHolds, PTL

(* The page is locked on a call as long as the gateway is in it, whatever  *)
(* ends it, unless the page lost it.                                       *)
THEOREM PageIsLocked == Spec => []LockedDuringCall
BY PhoneHolds, PTL

=============================================================================
