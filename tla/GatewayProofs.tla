--------------------------- MODULE GatewayProofs ---------------------------
(***************************************************************************)
(* Theorems about Gateway.tla, for any number of attempts and accounts.    *)
(*                                                                         *)
(* TypeOK is inductive by itself.  IInv adds what the control of the code  *)
(* maintains; it implies ActiveHasClient, DialogViaSip, ConnectedComplete  *)
(* and ContextFollowsCall, and is what the refinement of CallLifecycle     *)
(* needs.                                                                  *)
(***************************************************************************)
EXTENDS Gateway, TLAPS

-----------------------------------------------------------------------------
(***************************************************************************)
(* The inductive invariant.                                                *)
(***************************************************************************)

(* callSeq names an accepted attempt unless the gateway is idle, and       *)
(* callCancel is that attempt's.                                           *)
SeqInv ==
  /\ call.callState = "idle" <=> call.callSeq = Nil
  /\ call.callCancel = call.callSeq
  /\ call.callSeq # Nil => Began(call.callSeq)

(* From the moment an account is dropped until the next one is published   *)
(* there is none: nobody else writes g.sip while registerMu is held.       *)
AccountInv ==
  /\ registerMu.step \in {"close", "create", "register"} => sip = Nil
  /\ ActiveHasClient

(* How far the goroutines of the current attempt are fixes the call state. *)
Setup   == {"peer", "negotiate"}
Invited == {"invite", "inviting", "answered"}
Dialing == {"dial"} \cup Invited
Playing == {"announce", "waiting", "playing", "finishing"}

StageInv ==
  \A o \in Calls : call.callSeq = o =>
    /\ pc[o] \in Setup \cup Dialing => call.callState = "connecting"
    /\ pc[o] \in Playing => call.callState = "connected"
    /\ pc[o] \in {"failing", "fail"} => Active
    /\ pc[o] = "done" => call.callState # "connecting"

(* The current attempt dials on the account in use and, from dialing on,   *)
(* owns the browser leg.                                                   *)
LegInv ==
  \A o \in Calls :
    /\ pc[o] \in Invited => client[o] # Nil
    /\ call.callSeq = o /\ pc[o] \in Invited => client[o] = sip
    /\ call.callSeq = o /\ pc[o] \in Dialing => call.peer = o

(* A dialog always has its client. *)
DialogInv == DialogViaSip /\ (call.dialog # Nil => sip # Nil)

CancelInv == \A o \in Calls : o \in cancelled => Began(o)

ControlInv ==
  /\ SeqInv /\ AccountInv /\ StageInv /\ LegInv /\ DialogInv
  /\ ConnectedComplete /\ CancelInv /\ ContextFollowsCall

IInv == TypeOK /\ ControlInv

-----------------------------------------------------------------------------
(***************************************************************************)
(* Types.                                                                  *)
(***************************************************************************)

(* What an action leaves alone keeps its type. *)
LEMMA TypeUnchanged ==
  ASSUME TypeOK
  PROVE  /\ callVars' = callVars => CallType'
         /\ regVars' = regVars => RegType'
         /\ offerVars' = offerVars => OfferType'
         /\ peerVars' = peerVars => PeerType'
         /\ legVars' = legVars => LegType'
         /\ otherVars' = otherVars => OtherType'
<1>1. callVars' = callVars => CallType'
  BY DEF TypeOK, CallType, callVars
<1>2. regVars' = regVars => RegType'
  BY DEF TypeOK, RegType, regVars
<1>3. offerVars' = offerVars => OfferType'
  BY DEF TypeOK, OfferType, offerVars
<1>4. peerVars' = peerVars => PeerType'
  BY DEF TypeOK, PeerType, peerVars
<1>5. legVars' = legVars => LegType'
  BY DEF TypeOK, LegType, legVars
<1>6. otherVars' = otherVars => OtherType'
  BY DEF TypeOK, OtherType, otherVars
<1>7. QED
  BY <1>1, <1>2, <1>3, <1>4, <1>5, <1>6

(* clearCallLocked leaves a well-typed state. *)
LEMMA ClearType ==
  ASSUME TypeOK, ClearCall
  PROVE  CallType'
<1>1. Cleared \in CallRecord
  BY DEF Cleared, CallRecord, CallOrNil
<1>2. cancelled' \in SUBSET Calls
  BY DEF TypeOK, CallType, CallRecord, CallOrNil, ClearCall, CancelContext
<1>3. QED
  BY <1>1, <1>2 DEF ClearCall, CallType

(* pc.Close() of any connection, or of none. *)
LEMMA ClosingType ==
  ASSUME TypeOK, NEW o, peerState' = PeerClosing(peerState, o),
         UNCHANGED <<peerEvents, endings>>
  PROVE  PeerType'
BY DEF TypeOK, PeerType, PeerClosing

(* endCall touches the call, the browser legs and the BYEs to send. *)
LEMMA EndCallType ==
  ASSUME TypeOK, NEW b \in BOOLEAN, EndCall(b)
  PROVE  /\ CallType'
         /\ peerState' \in [Calls -> {"none", "made", "open", "lost", "closing", "closed"}]
         /\ byes' \in SUBSET (ClientOrNil \X Calls)
<1>1. CallType'
  BY ClearType DEF EndCall
<1>2. peerState' \in [Calls -> {"none", "made", "open", "lost", "closing", "closed"}]
  BY DEF TypeOK, PeerType, EndCall, PeerClosing
<1>3. call.dialog \in CallOrNil
  BY DEF TypeOK, CallType, CallRecord
<1>4. ByeFor(b) \in SUBSET (ClientOrNil \X Calls)
  BY <1>3 DEF TypeOK, RegType, ByeFor, CallOrNil
<1>5. QED
  BY <1>1, <1>2, <1>4 DEF EndCall, TypeOK, LegType

(* A goroutine moves on without touching its locals. *)
LEMMA GotoType ==
  ASSUME TypeOK, NEW o, NEW s \in Stages, Goto(o, s), UNCHANGED locals
  PROVE  OfferType'
BY DEF TypeOK, OfferType, Goto, locals

(* A call that was accepted, has its Call-ID, or is connected. *)
LEMMA CallRecords ==
  ASSUME NEW r \in CallRecord, NEW o \in Calls, NEW mode \in Modes \cup {""},
         NEW t \in Addresses \cup {Nil}
  PROVE  /\ [r EXCEPT !.callState = "connecting", !.callSeq = o, !.callCancel = o,
                      !.audioMode = mode, !.rtpReady = "open"] \in CallRecord
         /\ [r EXCEPT !.callID = o] \in CallRecord
         /\ [r EXCEPT !.callState = "connected", !.dialog = o, !.callID = o,
                      !.sipTarget = t] \in CallRecord
<1>1. o \in CallOrNil
  BY DEF CallOrNil
<1>2. [r EXCEPT !.callState = "connecting", !.callSeq = o, !.callCancel = o,
                !.audioMode = mode, !.rtpReady = "open"] \in CallRecord
  <2>1. [r EXCEPT !.callState = "connecting", !.callSeq = o, !.callCancel = o] \in CallRecord
    BY <1>1 DEF CallRecord
  <2>2. \A q \in CallRecord : [q EXCEPT !.audioMode = mode, !.rtpReady = "open"] \in CallRecord
    BY DEF CallRecord
  <2>3. QED
    BY <2>1, <2>2
<1>3. [r EXCEPT !.callID = o] \in CallRecord
  BY <1>1 DEF CallRecord
<1>4. [r EXCEPT !.callState = "connected", !.dialog = o, !.callID = o, !.sipTarget = t] \in CallRecord
  BY <1>1 DEF CallRecord
<1>5. QED
  BY <1>2, <1>3, <1>4

(* Every step of every handler, goroutine and callback keeps the types. *)
LEMMA TypeStep == ASSUME TypeOK, [Next]_vars PROVE TypeOK'
<1>1. ASSUME NEW o \in Calls, OfferBusy(o) PROVE TypeOK'
  <2>1. OfferType'
    BY <1>1, GotoType DEF OfferBusy, Stages
  <2>2. QED
    BY <1>1, <2>1, TypeUnchanged DEF OfferBusy, TypeOK
<1>2. ASSUME NEW o \in Calls, OfferUnregistered(o) PROVE TypeOK'
  <2>1. CallType'
    BY <1>2, ClearType DEF OfferUnregistered
  <2>2. OfferType'
    BY <1>2, GotoType DEF OfferUnregistered, Stages
  <2>3. QED
    BY <1>2, <2>1, <2>2, TypeUnchanged DEF OfferUnregistered, TypeOK
<1>3. ASSUME NEW o \in Calls, OfferNoAudio(o) PROVE TypeOK'
  <2>1. CallType'
    BY <1>3, ClearType DEF OfferNoAudio
  <2>2. OfferType'
    BY <1>3, GotoType DEF OfferNoAudio, Stages
  <2>3. OtherType'
    BY <1>3 DEF OfferNoAudio, TypeOK, OtherType, CallOrNil
  <2>4. RegType' /\ PeerType' /\ LegType'
    BY <1>3, TypeUnchanged DEF OfferNoAudio
  <2>5. QED
    BY <2>1, <2>2, <2>3, <2>4 DEF TypeOK
<1>4. ASSUME NEW o \in Calls, OfferAccept(o) PROVE TypeOK'
  <2>1. CallType'
    <3>1. Cleared \in CallRecord
      BY DEF Cleared, CallRecord, CallOrNil
    <3>2. PICK mode \in Modes : call' = Accepted(o, mode)
      BY <1>4 DEF OfferAccept
    <3>3. Nil \in Addresses \cup {Nil} /\ mode \in Modes \cup {""}
      OBVIOUS
    <3>4. call' \in CallRecord
      BY <3>1, <3>2, <3>3, CallRecords DEF Accepted
    <3>5. cancelled' \in SUBSET Calls
      BY <1>4 DEF OfferAccept, TypeOK, CallType, CallRecord, CallOrNil, CancelContext
    <3>6. QED
      BY <3>4, <3>5 DEF CallType
  <2>2. OfferType'
    BY <1>4, GotoType DEF OfferAccept, Stages
  <2>3. OtherType'
    BY <1>4 DEF OfferAccept, TypeOK, OtherType, CallOrNil
  <2>4. QED
    BY <1>4, <2>1, <2>2, <2>3, TypeUnchanged DEF OfferAccept, TypeOK
<1>5. ASSUME NEW o \in Calls, PeerCreate(o) PROVE TypeOK'
  <2>1. CallType'
    BY <1>5 DEF PeerCreate, TypeOK, CallType, CallRecord, CallOrNil
  <2>2. OfferType'
    BY <1>5, GotoType DEF PeerCreate, Stages
  <2>3. PeerType'
    BY <1>5 DEF PeerCreate, TypeOK, PeerType
  <2>4. QED
    BY <1>5, <2>1, <2>2, <2>3, TypeUnchanged DEF PeerCreate, TypeOK
<1>6. ASSUME NEW o \in Calls, SetupFails(o) PROVE TypeOK'
  <2>1. OfferType'
    BY <1>6, GotoType DEF SetupFails, Stages
  <2>2. QED
    BY <1>6, <2>1, TypeUnchanged DEF SetupFails, TypeOK
<1>7. ASSUME NEW o \in Calls, Publish(o) PROVE TypeOK'
  <2>1. CallType'
    BY <1>7 DEF Publish, TypeOK, CallType, CallRecord, CallOrNil
  <2>2. OfferType'
    BY <1>7, GotoType DEF Publish, Stages
  <2>3. PeerType'
    BY <1>7 DEF Publish, TypeOK, PeerType
  <2>4. QED
    BY <1>7, <2>1, <2>2, <2>3, TypeUnchanged DEF Publish, TypeOK
<1>8. ASSUME NEW o \in Calls, PublishCancelled(o) PROVE TypeOK'
  <2>1. OfferType'
    BY <1>8, GotoType DEF PublishCancelled, Stages
  <2>2. PeerType'
    BY <1>8, ClosingType DEF PublishCancelled
  <2>3. QED
    BY <1>8, <2>1, <2>2, TypeUnchanged DEF PublishCancelled, TypeOK
<1>9. ASSUME NEW o \in Calls, DialBegin(o) PROVE TypeOK'
  <2>1. OfferType'
    BY <1>9 DEF DialBegin, TypeOK, RegType, OfferType, Goto, Stages
  <2>2. QED
    BY <1>9, <2>1, TypeUnchanged DEF DialBegin, TypeOK
<1>10. ASSUME NEW o \in Calls, DialInvite(o) PROVE TypeOK'
  <2>1. CallType'
    BY <1>10, CallRecords DEF DialInvite, TypeOK, CallType
  <2>2. OfferType'
    BY <1>10, GotoType DEF DialInvite, Stages
  <2>3. LegType'
    BY <1>10 DEF DialInvite, TypeOK, LegType
  <2>4. OtherType'
    BY <1>10 DEF DialInvite, TypeOK, OtherType, CallOrNil
  <2>5. QED
    BY <1>10, <2>1, <2>2, <2>3, <2>4, TypeUnchanged DEF DialInvite, TypeOK
<1>11. ASSUME NEW o \in Calls, InviteResend(o) PROVE TypeOK'
  <2>1. OtherType'
    BY <1>11 DEF InviteResend, TypeOK, OtherType, CallOrNil
  <2>2. QED
    BY <1>11, <2>1, TypeUnchanged DEF InviteResend, TypeOK
<1>12. ASSUME NEW o \in Calls, InviteError(o) PROVE TypeOK'
  <2>1. OfferType'
    BY <1>12, GotoType DEF InviteError, Stages
  <2>2. QED
    BY <1>12, <2>1, TypeUnchanged DEF InviteError, TypeOK
<1>13. ASSUME NEW o \in Calls, InviteRejected(o) PROVE TypeOK'
  <2>1. CallType'
    BY <1>13, CallRecords DEF InviteRejected, TypeOK, CallType, RecordCallID
  <2>2. OfferType'
    BY <1>13, GotoType DEF InviteRejected, Stages
  <2>3. LegType'
    BY <1>13 DEF InviteRejected, TypeOK, LegType
  <2>4. QED
    BY <1>13, <2>1, <2>2, <2>3, TypeUnchanged DEF InviteRejected, TypeOK
<1>14. ASSUME NEW o \in Calls, InviteAnswered(o) PROVE TypeOK'
  <2>1. CallType'
    BY <1>14, CallRecords DEF InviteAnswered, TypeOK, CallType, RecordCallID
  <2>2. OfferType'
    BY <1>14, GotoType DEF InviteAnswered, Stages
  <2>3. LegType'
    BY <1>14 DEF InviteAnswered, TypeOK, LegType
  <2>4. RegType' /\ PeerType' /\ OtherType'
    BY <1>14, TypeUnchanged DEF InviteAnswered
  <2>5. QED
    BY <2>1, <2>2, <2>3, <2>4 DEF TypeOK
<1>15. ASSUME NEW o \in Calls, Connect(o) PROVE TypeOK'
  <2>1. CallType'
    <3>1. TargetOnAnswer(o) \in Addresses \cup {Nil}
      BY DEF TypeOK, CallType, CallRecord, TargetOnAnswer, Addresses
    <3>2. QED
      BY <1>15, <3>1, CallRecords DEF Connect, Connected, TypeOK, CallType
  <2>2. OfferType'
    BY <1>15, GotoType DEF Connect, Stages
  <2>3. QED
    BY <1>15, <2>1, <2>2, TypeUnchanged DEF Connect, TypeOK
<1>16. ASSUME NEW o \in Calls, LateAnswer(o) PROVE TypeOK'
  <2>1. OfferType'
    BY <1>16, GotoType DEF LateAnswer, Stages
  <2>2. LegType'
    BY <1>16 DEF LateAnswer, TypeOK, OfferType, LegType
  <2>3. QED
    BY <1>16, <2>1, <2>2, TypeUnchanged DEF LateAnswer, TypeOK
<1>17. ASSUME NEW o \in Calls, AnnounceBegin(o) PROVE TypeOK'
  <2>1. CallType'
    BY <1>17 DEF AnnounceBegin, TypeOK, CallType, CallRecord
  <2>2. OfferType'
    BY <1>17 DEF AnnounceBegin, TypeOK, OfferType, OtherType, Goto, Stages
  <2>3. QED
    BY <1>17, <2>1, <2>2, TypeUnchanged DEF AnnounceBegin, TypeOK
<1>18. ASSUME NEW o \in Calls, AnnouncePlay(o) PROVE TypeOK'
  <2>1. CallType'
    BY <1>18 DEF AnnouncePlay, TypeOK, CallType, CallRecord
  <2>2. OfferType'
    BY <1>18, GotoType DEF AnnouncePlay, Stages
  <2>3. QED
    BY <1>18, <2>1, <2>2, TypeUnchanged DEF AnnouncePlay, TypeOK
<1>19. ASSUME NEW o \in Calls, AnnounceAbort(o) PROVE TypeOK'
  <2>1. OfferType'
    BY <1>19, GatewayAssumption
      DEF AnnounceAbort, TypeOK, OfferType, CallOrNil, Goto, Stages
  <2>2. QED
    BY <1>19, <2>1, TypeUnchanged DEF AnnounceAbort, TypeOK
<1>20. ASSUME NEW o \in Calls, AnnounceFails(o) PROVE TypeOK'
  <2>1. OfferType'
    BY <1>20, GatewayAssumption
      DEF AnnounceFails, TypeOK, OfferType, CallOrNil, Goto, Stages
  <2>2. QED
    BY <1>20, <2>1, TypeUnchanged DEF AnnounceFails, TypeOK
<1>21. ASSUME NEW o \in Calls, AnnounceComplete(o) PROVE TypeOK'
  <2>1. CallType'
    BY <1>21 DEF AnnounceComplete, TypeOK, CallType, CallRecord
  <2>2. OfferType'
    BY <1>21, GatewayAssumption
      DEF AnnounceComplete, TypeOK, OfferType, CallOrNil, Goto, Stages
  <2>3. QED
    BY <1>21, <2>1, <2>2, TypeUnchanged DEF AnnounceComplete, TypeOK
<1>22. ASSUME NEW o \in Calls, FailRead(o) PROVE TypeOK'
  <2>1. OfferType'
    BY <1>22 DEF FailRead, TypeOK, OfferType, OtherType, Goto, Stages
  <2>2. QED
    BY <1>22, <2>1, TypeUnchanged DEF FailRead, TypeOK
<1>23. ASSUME NEW o \in Calls, FailCall(o) PROVE TypeOK'
  <2>1. CallType'
    <3> DEFINE id == IF call.callID = Nil THEN latest[o] ELSE call.callID
    <3>1. latest[o] \in CallOrNil /\ call.callID \in CallOrNil /\ Nil \in CallOrNil
      BY DEF TypeOK, OfferType, CallType, CallRecord, CallOrNil
    <3>2. id \in CallOrNil
      BY <3>1
    <3> HIDE DEF id
    <3>3. [call EXCEPT !.callState = "failed", !.peer = Nil, !.callID = id]
            \in CallRecord
      BY <3>1, <3>2 DEF TypeOK, CallType, CallRecord
    <3>4. Failed(o) \in CallRecord
      BY <3>3 DEF Failed, id
    <3>5. QED
      BY <1>23, <3>4 DEF FailCall, TypeOK, CallType
  <2>2. OfferType'
    BY <1>23 DEF FailCall, TypeOK, OfferType, CallOrNil, Goto, Stages
  <2>3. PeerType'
    BY <1>23 DEF FailCall, TypeOK, PeerType, PeerClosing
  <2>4. QED
    BY <1>23, <2>1, <2>2, <2>3, TypeUnchanged DEF FailCall, TypeOK
<1>24. ASSUME NEW o \in Calls, RtpIn(o) PROVE TypeOK'
  <2>1. CallType'
    BY <1>24
      DEF RtpIn, TypeOK, CallType, CallRecord, Addresses, Heard, TargetAfter
  <2>2. QED
    BY <1>24, <2>1, TypeUnchanged DEF RtpIn, TypeOK
<1>25. ASSUME NEW o \in Calls, PeerCloses(o) PROVE TypeOK'
  <2>1. PeerType'
    BY <1>25 DEF PeerCloses, TypeOK, PeerType
  <2>2. QED
    BY <1>25, <2>1, TypeUnchanged DEF PeerCloses, TypeOK
<1>26. ASSUME NEW o \in Calls, PeerFails(o) PROVE TypeOK'
  <2>1. PeerType'
    BY <1>26 DEF PeerFails, TypeOK, PeerType
  <2>2. QED
    BY <1>26, <2>1, TypeUnchanged DEF PeerFails, TypeOK
<1>27. ASSUME NEW o \in Calls, RemoteBye(o) PROVE TypeOK'
  <2>1. LegType'
    BY <1>27, GatewayAssumption DEF RemoteBye, TypeOK, LegType
  <2>2. QED
    BY <1>27, <2>1, TypeUnchanged DEF RemoteBye, TypeOK
<1>28. ASSUME NEW o \in Calls, AnnounceEnd(o) PROVE TypeOK'
  <2>1. CallType'
    BY <1>28, EndCallType DEF AnnounceEnd, TypeOK, callVars, CallType
  <2>2. OfferType'
    BY <1>28, GotoType DEF AnnounceEnd, Stages
  <2>3. PeerType'
    BY <1>28, EndCallType DEF AnnounceEnd, TypeOK, PeerType
  <2>4. LegType'
    BY <1>28, EndCallType DEF AnnounceEnd, TypeOK, LegType
  <2>5. QED
    BY <1>28, <2>1, <2>2, <2>3, <2>4, TypeUnchanged DEF AnnounceEnd, TypeOK
<1>29. ASSUME NEW o \in Calls, RemoteHangup(o) PROVE TypeOK'
  <2>1. CallType'
    BY <1>29, EndCallType DEF RemoteHangup
  <2>2. PeerType'
    BY <1>29, EndCallType DEF RemoteHangup, TypeOK, PeerType
  <2>3. LegType'
    <3>1. hangups' \in [Calls -> Nat]
      BY <1>29 DEF RemoteHangup, TypeOK, LegType
    <3>2. QED
      BY <1>29, <3>1, EndCallType DEF RemoteHangup, TypeOK, LegType
  <2>4. QED
    BY <1>29, <2>1, <2>2, <2>3, TypeUnchanged DEF RemoteHangup, TypeOK
<1>30. ASSUME NEW o \in Calls, NEW kind \in {"failed", "closed"}, PeerEvent(<<o, kind>>) PROVE TypeOK'
  <2>1. PeerType'
    BY <1>30 DEF PeerEvent, TypeOK, PeerType
  <2>2. QED
    BY <1>30, <2>1, TypeUnchanged DEF PeerEvent, TypeOK
<1>31. ASSUME NEW o \in Calls, NEW kind \in {"failed", "closed"}, PeerEventEnds(<<o, kind>>) PROVE TypeOK'
  <2>1. CallType'
    BY <1>31, EndCallType DEF PeerEventEnds
  <2>2. PeerType'
    BY <1>31, EndCallType DEF PeerEventEnds, TypeOK, PeerType
  <2>3. LegType'
    BY <1>31, EndCallType DEF PeerEventEnds, TypeOK, LegType
  <2>4. QED
    BY <1>31, <2>1, <2>2, <2>3, TypeUnchanged DEF PeerEventEnds, TypeOK
<1>32. ASSUME NEW c \in Clients, NEW o \in Calls, SendBye(c, o) PROVE TypeOK'
  <2>1. LegType'
    BY <1>32 DEF SendBye, TypeOK, LegType
  <2>2. QED
    BY <1>32, <2>1, TypeUnchanged DEF SendBye, TypeOK
<1>33. ASSUME Hangup PROVE TypeOK'
  <2>1. CallType'
    BY <1>33, EndCallType DEF Hangup
  <2>2. PeerType'
    BY <1>33, EndCallType DEF Hangup, TypeOK, PeerType
  <2>3. LegType'
    BY <1>33, EndCallType DEF Hangup, TypeOK, LegType
  <2>4. QED
    BY <1>33, <2>1, <2>2, <2>3, TypeUnchanged DEF Hangup, TypeOK
<1>34. ASSUME HandleAudio PROVE TypeOK'
  <2>1. OtherType'
    BY <1>34, GatewayAssumption DEF HandleAudio, TypeOK, OtherType
  <2>2. QED
    BY <1>34, <2>1, TypeUnchanged DEF HandleAudio, TypeOK
<1>35. ASSUME TraceForgets PROVE TypeOK'
  <2>1. OtherType'
    BY <1>35 DEF TraceForgets, TypeOK, OtherType, CallOrNil
  <2>2. QED
    BY <1>35, <2>1, TypeUnchanged DEF TraceForgets, TypeOK
<1>36. ASSUME NEW c \in Clients, RegisterBegin(c) PROVE TypeOK'
  <2>1. CallType'
    BY <1>36, ClearType DEF RegisterBegin
  <2>2. RegType'
    BY <1>36, GatewayAssumption
      DEF RegisterBegin, TypeOK, RegType, ClientOrNil, RegisterSteps, Free,
        DropAccount, Holding
  <2>3. QED
    BY <1>36, <2>1, <2>2, TypeUnchanged DEF RegisterBegin, TypeOK
<1>37. ASSUME NEW c \in Clients, KeepTick(c) PROVE TypeOK'
  <2>1. RegType'
    BY <1>37 DEF KeepTick, TypeOK, RegType
  <2>2. QED
    BY <1>37, <2>1, TypeUnchanged DEF KeepTick, TypeOK
<1>38. ASSUME NEW c \in Clients, KeepSucceeds(c) PROVE TypeOK'
  <2>1. RegType'
    BY <1>38 DEF KeepSucceeds, TypeOK, RegType
  <2>2. QED
    BY <1>38, <2>1, TypeUnchanged DEF KeepSucceeds, TypeOK
<1>39. ASSUME NEW c \in Clients, KeepFails(c) PROVE TypeOK'
  <2>1. RegType'
    BY <1>39 DEF KeepFails, TypeOK, RegType, RefreshLost
  <2>2. QED
    BY <1>39, <2>1, TypeUnchanged DEF KeepFails, TypeOK
<1>40. ASSUME RegisterCloseOld PROVE TypeOK'
  <2>1. RegType'
    BY <1>40
      DEF RegisterCloseOld, TypeOK, RegType, ClientOrNil, RegisterSteps, Free
  <2>2. QED
    BY <1>40, <2>1, TypeUnchanged DEF RegisterCloseOld, TypeOK
<1>41. ASSUME RegisterCreate PROVE TypeOK'
  <2>1. RegType'
    BY <1>41
      DEF RegisterCreate, TypeOK, RegType, ClientOrNil, RegisterSteps, Free
  <2>2. QED
    BY <1>41, <2>1, TypeUnchanged DEF RegisterCreate, TypeOK
<1>42. ASSUME RegisterFails PROVE TypeOK'
  <2>1. RegType'
    BY <1>42
      DEF RegisterFails, TypeOK, RegType, ClientOrNil, RegisterSteps, Free,
        DropAccount
  <2>2. QED
    BY <1>42, <2>1, TypeUnchanged DEF RegisterFails, TypeOK
<1>43. ASSUME RegisterSucceeds PROVE TypeOK'
  <2>1. RegType'
    BY <1>43
      DEF RegisterSucceeds, TypeOK, RegType, ClientOrNil, RegisterSteps, Free
  <2>2. QED
    BY <1>43, <2>1, TypeUnchanged DEF RegisterSucceeds, TypeOK
<1>44. ASSUME RegisterCallback PROVE TypeOK'
  <2>1. RegType'
    BY <1>44
      DEF RegisterCallback, TypeOK, RegType, ClientOrNil, RegisterSteps, Free
  <2>2. QED
    BY <1>44, <2>1, TypeUnchanged DEF RegisterCallback, TypeOK
<1>45. ASSUME LogoutBegin PROVE TypeOK'
  <2>1. CallType'
    BY <1>45, ClearType DEF LogoutBegin
  <2>2. RegType'
    BY <1>45, GatewayAssumption
      DEF LogoutBegin, TypeOK, RegType, ClientOrNil, RegisterSteps, Free,
        DropAccount
  <2>3. QED
    BY <1>45, <2>1, <2>2, TypeUnchanged DEF LogoutBegin, TypeOK
<1>46. ASSUME LogoutEnd PROVE TypeOK'
  <2>1. RegType'
    BY <1>46 DEF LogoutEnd, TypeOK, RegType, ClientOrNil, RegisterSteps, Free
  <2>2. QED
    BY <1>46, <2>1, TypeUnchanged DEF LogoutEnd, TypeOK
<1>47. ASSUME ShutdownBegin PROVE TypeOK'
  <2>1. CallType'
    BY <1>47, ClearType DEF ShutdownBegin
  <2>2. RegType'
    BY <1>47 DEF ShutdownBegin, TypeOK, RegType, ClientOrNil, DropAccount
  <2>3. PeerType'
    BY <1>47, ClosingType DEF ShutdownBegin
  <2>4. OtherType'
    BY <1>47
      DEF ShutdownBegin, TypeOK, CallType, CallRecord, RegType, OtherType
  <2>5. QED
    BY <1>47, <2>1, <2>2, <2>3, <2>4, TypeUnchanged DEF ShutdownBegin, TypeOK
<1>48. ASSUME ShutdownEnd PROVE TypeOK'
  <2>1. RegType'
    BY <1>48 DEF ShutdownEnd, TypeOK, RegType
  <2>2. LegType'
    BY <1>48 DEF ShutdownEnd, TypeOK, LegType
  <2>3. OtherType'
    BY <1>48 DEF ShutdownEnd, TypeOK, OtherType, CallOrNil, ClientOrNil
  <2>4. QED
    BY <1>48, <2>1, <2>2, <2>3, TypeUnchanged DEF ShutdownEnd, TypeOK
<1>49. CASE UNCHANGED vars
  BY <1>49, TypeUnchanged DEF vars, TypeOK
<1>50. QED
  BY <1>1, <1>2, <1>3, <1>4, <1>5, <1>6, <1>7, <1>8, <1>9, <1>10, <1>11, <1>12,
      <1>13, <1>14, <1>15, <1>16, <1>17, <1>18, <1>19, <1>20, <1>21, <1>22,
      <1>23, <1>24, <1>25, <1>26, <1>27, <1>28, <1>29, <1>30, <1>31, <1>32,
      <1>33, <1>34, <1>35, <1>36, <1>37, <1>38, <1>39, <1>40, <1>41, <1>42,
      <1>43, <1>44, <1>45, <1>46, <1>47, <1>48, <1>49
  DEF Next, Offer, Proceed, InviteEnds, Far, Pion, Registration,
      RegistrationProceeds

LEMMA TypeInit == Init => TypeOK
<1>1. Cleared \in CallRecord
  BY DEF Cleared, CallRecord, CallOrNil
<1>2. SUFFICES ASSUME Init PROVE TypeOK
  OBVIOUS
<1>3. CallType /\ RegType /\ PeerType
  BY <1>1, <1>2
    DEF Init, CallType, RegType, PeerType, ClientOrNil, RegisterSteps, Free
<1>4. OfferType /\ LegType /\ OtherType
  BY <1>2, GatewayAssumption
    DEF Init, OfferType, LegType, OtherType, CallOrNil, ClientOrNil, Stages
<1>5. QED
  BY <1>3, <1>4 DEF TypeOK

(* Every variable has its type in every reachable state of the gateway. *)
THEOREM TypeCorrect == Spec => []TypeOK
<1>1. TypeOK /\ [Next]_vars => TypeOK'
  BY TypeStep
<1>2. QED
  BY TypeInit, <1>1, PTL DEF Spec

-----------------------------------------------------------------------------
(***************************************************************************)
(* Control: four kinds of step, then the steps that are none of them.      *)
(***************************************************************************)

(* The fields of the call the invariant speaks of. *)
SameCall ==
  /\ call'.callState = call.callState
  /\ call'.callSeq = call.callSeq
  /\ call'.callCancel = call.callCancel
  /\ call'.peer = call.peer
  /\ call'.dialog = call.dialog
  /\ call.sipTarget # Nil => call'.sipTarget # Nil

(* registerMu is not taken by a new register request. *)
NotHeldAnew ==
  registerMu'.step \in {"close", "create", "register"} =>
    registerMu.step \in {"close", "create", "register"}

(* 1. Steps elsewhere: the SIP client, Pion, the trace, the sockets. *)
LEMMA QuietStep ==
  ASSUME IInv, SameCall, NotHeldAnew, UNCHANGED <<cancelled, sip, client, pc>>
  PROVE  ControlInv'
<1>1. SeqInv'
  BY DEF IInv, ControlInv, SeqInv, SameCall, Began
<1>2. AccountInv'
  BY DEF IInv, ControlInv, AccountInv, ActiveHasClient, Active, SameCall, NotHeldAnew
<1>3. StageInv'
  BY DEF IInv, ControlInv, StageInv, Active, SameCall
<1>4. LegInv' /\ DialogInv'
  BY DEF IInv, ControlInv, LegInv, DialogInv, DialogViaSip, SameCall
<1>5. ConnectedComplete'
  BY DEF IInv, ControlInv, ConnectedComplete, SameCall
<1>6. CancelInv' /\ ContextFollowsCall'
  BY DEF IInv, ControlInv, CancelInv, ContextFollowsCall, Began, SameCall
<1>7. QED
  BY <1>1, <1>2, <1>3, <1>4, <1>5, <1>6 DEF ControlInv

(* No attempt is accepted by the step, or enters its INVITE. *)
StagesKept ==
  \A o \in Calls : /\ Began(o)' <=> Began(o)
                   /\ pc'[o] \in Invited => pc[o] \in Invited

LEMMA ClearEnds == ASSUME ClearCall PROVE ~Active'
<1>1. call'.callState = "idle"
  BY DEF ClearCall, Cleared
<1>2. QED
  BY <1>1 DEF Active

(* 2. Steps that clear the call, with or without taking the account away.  *)
LEMMA ClearStep ==
  ASSUME IInv, ClearCall, AccountInv', UNCHANGED client, StagesKept
  PROVE  ControlInv'
<1>1. /\ call'.callState = "idle" /\ call'.callSeq = Nil
      /\ call'.callCancel = Nil /\ call'.dialog = Nil
  BY DEF ClearCall, Cleared
<1>2. SeqInv' /\ DialogInv' /\ ConnectedComplete'
  BY <1>1 DEF SeqInv, DialogInv, DialogViaSip, ConnectedComplete
<1>3. StageInv'
  BY <1>1, GatewayAssumption DEF StageInv
<1>4. LegInv'
  BY <1>1, GatewayAssumption DEF StagesKept, IInv, ControlInv, LegInv
<1>5. CancelInv'
  BY DEF StagesKept, ClearCall, CancelContext, IInv, ControlInv, CancelInv, SeqInv
<1>6. ContextFollowsCall'
  BY <1>1, GatewayAssumption
    DEF StagesKept, ClearCall, CancelContext, IInv, ControlInv,
        ContextFollowsCall, SeqInv
<1>7. QED
  BY <1>2, <1>3, <1>4, <1>5, <1>6 DEF ControlInv

(* 3. Steps of one attempt's goroutine that leave the call as it is.  The  *)
(* last four assumptions are what the invariant says of its new stage.     *)
LEMMA MoveStep ==
  ASSUME IInv, NEW o \in Calls, NEW s \in Stages, Goto(o, s), SameCall,
         UNCHANGED <<cancelled, sip, registerMu>>,
         \A q \in Calls \ {o} : client'[q] = client[q],
         Began(o)' <=> Began(o),
         s \in Invited => client'[o] # Nil,
         call.callSeq = o /\ s \in Invited => client'[o] = sip,
         call.dialog = o => client'[o] = client[o],
         call.callSeq = o /\ s \in Dialing => call.peer = o,
         call.callSeq = o =>
           /\ s \in Setup \cup Dialing => call.callState = "connecting"
           /\ s \in Playing => call.callState = "connected"
           /\ s \in {"failing", "fail"} => Active
           /\ s = "done" => call.callState # "connecting"
  PROVE  ControlInv'
<1>1. pc'[o] = s /\ \A q \in Calls \ {o} : pc'[q] = pc[q]
  BY DEF Goto, IInv, TypeOK, OfferType
<1>2. \A q \in Calls : Began(q)' <=> Began(q)
  BY <1>1 DEF Began
<1>3. SeqInv'
  BY <1>2 DEF IInv, ControlInv, SeqInv, SameCall, TypeOK, CallType, CallRecord, CallOrNil
<1>4. AccountInv'
  BY DEF IInv, ControlInv, AccountInv, ActiveHasClient, Active, SameCall
<1>5. StageInv'
  BY <1>1 DEF IInv, ControlInv, StageInv, Active, SameCall
<1>6. LegInv'
  BY <1>1 DEF IInv, ControlInv, LegInv, SameCall
<1>7. DialogInv'
  <2>1. call.dialog \in Calls \cup {Nil}
    BY DEF IInv, TypeOK, CallType, CallRecord, CallOrNil
  <2>2. call.dialog # Nil => client'[call.dialog] = client[call.dialog]
    BY <2>1
  <2>3. QED
    BY <2>2 DEF IInv, ControlInv, DialogInv, DialogViaSip, SameCall
<1>8. ConnectedComplete'
  BY DEF IInv, ControlInv, ConnectedComplete, SameCall
<1>9. CancelInv' /\ ContextFollowsCall'
  BY <1>2 DEF IInv, ControlInv, CancelInv, ContextFollowsCall, SameCall
<1>10. QED
  BY <1>3, <1>4, <1>5, <1>6, <1>7, <1>8, <1>9 DEF ControlInv

(* Every step of every handler, goroutine and callback keeps the control   *)
(* invariant.                                                              *)
LEMMA ControlStep == ASSUME IInv, [Next]_vars PROVE ControlInv'
<1>1. ASSUME NEW o \in Calls, OfferBusy(o) PROVE ControlInv'
  <2> DEFINE s == "refused"
  <2>1. s \in Stages /\ Goto(o, s) /\ UNCHANGED <<cancelled, sip, registerMu>>
    BY <1>1 DEF OfferBusy, Stages, callVars, regVars
  <2>2. SameCall
    BY <1>1 DEF OfferBusy, SameCall, callVars
  <2>3. \A q \in Calls \ {o} : client'[q] = client[q]
    BY <1>1 DEF OfferBusy, locals
  <2>4. Began(o)' <=> Began(o)
    BY <1>1, <2>1 DEF OfferBusy, Began, Goto, IInv, TypeOK, OfferType
  <2>5. /\ s \in Invited => client'[o] # Nil
        /\ call.callSeq = o /\ s \in Invited => client'[o] = sip
        /\ call.dialog = o => client'[o] = client[o]
        /\ call.callSeq = o /\ s \in Dialing => call.peer = o
    BY <1>1 DEF OfferBusy, IInv, ControlInv, LegInv, Invited, Dialing, locals
  <2>6. call.callSeq = o =>
          /\ s \in Setup \cup Dialing => call.callState = "connecting"
          /\ s \in Playing => call.callState = "connected"
          /\ s \in {"failing", "fail"} => Active
          /\ s = "done" => call.callState # "connecting"
    BY <1>1
      DEF OfferBusy, IInv, ControlInv, StageInv, Setup, Invited, Dialing,
        Playing, Active, SeqInv, Began
  <2>7. QED
    BY <2>1, <2>2, <2>3, <2>4, <2>5, <2>6, MoveStep
<1>2. ASSUME NEW o \in Calls, OfferUnregistered(o) PROVE ControlInv'
  <2>1. ClearCall /\ UNCHANGED client
    BY <1>2 DEF OfferUnregistered, offerVars, locals
  <2>2. AccountInv'
    BY <1>2, <2>1, ClearEnds
      DEF OfferUnregistered, IInv, ControlInv, AccountInv, ActiveHasClient,
        regVars, Free
  <2>3. StagesKept
    BY <1>2
      DEF OfferUnregistered, StagesKept, IInv, TypeOK, OfferType, Began, Goto,
        Invited, offerVars
  <2>4. QED
    BY <2>1, <2>2, <2>3, ClearStep
<1>3. ASSUME NEW o \in Calls, OfferNoAudio(o) PROVE ControlInv'
  <2>1. ClearCall /\ UNCHANGED client
    BY <1>3 DEF OfferNoAudio, offerVars, locals
  <2>2. AccountInv'
    BY <1>3, <2>1, ClearEnds
      DEF OfferNoAudio, IInv, ControlInv, AccountInv, ActiveHasClient, regVars,
        Free
  <2>3. StagesKept
    BY <1>3
      DEF OfferNoAudio, StagesKept, IInv, TypeOK, OfferType, Began, Goto,
        Invited, offerVars
  <2>4. QED
    BY <2>1, <2>2, <2>3, ClearStep
<1>4. ASSUME NEW o \in Calls, OfferAccept(o) PROVE ControlInv'
  <2>1. PICK mode \in Modes : call' = Accepted(o, mode)
    BY <1>4 DEF OfferAccept
  <2>2. /\ call'.callState = "connecting" /\ call'.callSeq = o
        /\ call'.callCancel = o /\ call'.dialog = Nil
    BY <2>1 DEF Accepted, Cleared
  <2>3. /\ pc[o] = "new" /\ pc'[o] = "peer"
        /\ \A q \in Calls \ {o} : pc'[q] = pc[q]
        /\ sip # Nil /\ UNCHANGED <<sip, registerMu, client>>
        /\ cancelled' = cancelled \cup ({call.callCancel} \ {Nil})
    BY <1>4 DEF OfferAccept, Goto, IInv, TypeOK, OfferType, regVars, locals, CancelContext
  <2>4. SeqInv'
    BY <2>2, <2>3, GatewayAssumption DEF SeqInv, Began
  <2>5. AccountInv'
    BY <2>3 DEF IInv, ControlInv, AccountInv, ActiveHasClient
  <2>6. StageInv'
    BY <2>2, <2>3 DEF StageInv, Setup, Dialing, Invited, Playing
  <2>7. LegInv'
    BY <2>2, <2>3 DEF IInv, ControlInv, LegInv, Dialing, Invited
  <2>8. DialogInv' /\ ConnectedComplete'
    BY <2>2 DEF DialogInv, DialogViaSip, ConnectedComplete
  <2>9. CancelInv' /\ ContextFollowsCall'
    BY <2>2, <2>3, GatewayAssumption
      DEF IInv, ControlInv, CancelInv, ContextFollowsCall, SeqInv, Began
  <2>10. QED
    BY <2>4, <2>5, <2>6, <2>7, <2>8, <2>9 DEF ControlInv
<1>5. ASSUME NEW o \in Calls, PeerCreate(o) PROVE ControlInv'
  <2> DEFINE s == "negotiate"
  <2>1. s \in Stages /\ Goto(o, s) /\ UNCHANGED <<cancelled, sip, registerMu>>
    BY <1>5 DEF PeerCreate, Stages, callVars, regVars
  <2>2. SameCall
    BY <1>5 DEF PeerCreate, SameCall, IInv, TypeOK, CallType, CallRecord
  <2>3. \A q \in Calls \ {o} : client'[q] = client[q]
    BY <1>5 DEF PeerCreate, locals
  <2>4. Began(o)' <=> Began(o)
    BY <1>5, <2>1 DEF PeerCreate, Began, Goto, IInv, TypeOK, OfferType
  <2>5. /\ s \in Invited => client'[o] # Nil
        /\ call.callSeq = o /\ s \in Invited => client'[o] = sip
        /\ call.dialog = o => client'[o] = client[o]
        /\ call.callSeq = o /\ s \in Dialing => call.peer = o
    BY <1>5 DEF PeerCreate, IInv, ControlInv, LegInv, Invited, Dialing, locals
  <2>6. call.callSeq = o =>
          /\ s \in Setup \cup Dialing => call.callState = "connecting"
          /\ s \in Playing => call.callState = "connected"
          /\ s \in {"failing", "fail"} => Active
          /\ s = "done" => call.callState # "connecting"
    BY <1>5
      DEF PeerCreate, IInv, ControlInv, StageInv, Setup, Invited, Dialing,
        Playing, Active
  <2>7. QED
    BY <2>1, <2>2, <2>3, <2>4, <2>5, <2>6, MoveStep
<1>6. ASSUME NEW o \in Calls, SetupFails(o) PROVE ControlInv'
  <2> DEFINE s == "failing"
  <2>1. s \in Stages /\ Goto(o, s) /\ UNCHANGED <<cancelled, sip, registerMu>>
    BY <1>6 DEF SetupFails, Stages, callVars, regVars
  <2>2. SameCall
    BY <1>6 DEF SetupFails, SameCall, callVars
  <2>3. \A q \in Calls \ {o} : client'[q] = client[q]
    BY <1>6 DEF SetupFails, locals
  <2>4. Began(o)' <=> Began(o)
    BY <1>6, <2>1 DEF SetupFails, Began, Goto, IInv, TypeOK, OfferType
  <2>5. /\ s \in Invited => client'[o] # Nil
        /\ call.callSeq = o /\ s \in Invited => client'[o] = sip
        /\ call.dialog = o => client'[o] = client[o]
        /\ call.callSeq = o /\ s \in Dialing => call.peer = o
    BY <1>6 DEF SetupFails, IInv, ControlInv, LegInv, Invited, Dialing, locals
  <2>6. call.callSeq = o =>
          /\ s \in Setup \cup Dialing => call.callState = "connecting"
          /\ s \in Playing => call.callState = "connected"
          /\ s \in {"failing", "fail"} => Active
          /\ s = "done" => call.callState # "connecting"
    BY <1>6
      DEF SetupFails, IInv, ControlInv, StageInv, Setup, Invited, Dialing,
        Playing, Active
  <2>7. QED
    BY <2>1, <2>2, <2>3, <2>4, <2>5, <2>6, MoveStep
<1>7. ASSUME NEW o \in Calls, Publish(o) PROVE ControlInv'
  <2>1. /\ call'.callState = "connecting" /\ call'.callSeq = o /\ call'.peer = o
        /\ call.callSeq = o /\ call.callState = "connecting"
        /\ call'.callCancel = call.callCancel /\ call'.dialog = call.dialog
    BY <1>7 DEF Publish, Current, Mine, IInv, TypeOK, CallType, CallRecord
  <2>2. /\ pc[o] = "negotiate" /\ pc'[o] = "dial"
        /\ \A q \in Calls \ {o} : pc'[q] = pc[q]
        /\ UNCHANGED <<sip, registerMu, client, cancelled>>
    BY <1>7 DEF Publish, Goto, IInv, TypeOK, OfferType, regVars, locals
  <2>3. SeqInv'
    BY <2>1, <2>2, GatewayAssumption DEF IInv, ControlInv, SeqInv, Began
  <2>4. AccountInv'
    BY <2>1, <2>2 DEF IInv, ControlInv, AccountInv, ActiveHasClient, Active
  <2>5. StageInv'
    BY <2>1, <2>2 DEF StageInv, Setup, Dialing, Invited, Playing
  <2>6. LegInv'
    BY <2>1, <2>2 DEF IInv, ControlInv, LegInv, Dialing, Invited
  <2>7. DialogInv' /\ ConnectedComplete'
    BY <2>1, <2>2
      DEF IInv, ControlInv, DialogInv, DialogViaSip, ConnectedComplete
  <2>8. CancelInv' /\ ContextFollowsCall'
    BY <2>1, <2>2 DEF IInv, ControlInv, CancelInv, ContextFollowsCall, Began
  <2>9. QED
    BY <2>3, <2>4, <2>5, <2>6, <2>7, <2>8 DEF ControlInv
<1>8. ASSUME NEW o \in Calls, PublishCancelled(o) PROVE ControlInv'
  <2> DEFINE s == "done"
  <2>1. s \in Stages /\ Goto(o, s) /\ UNCHANGED <<cancelled, sip, registerMu>>
    BY <1>8 DEF PublishCancelled, Stages, callVars, regVars
  <2>2. SameCall
    BY <1>8 DEF PublishCancelled, SameCall, callVars
  <2>3. \A q \in Calls \ {o} : client'[q] = client[q]
    BY <1>8 DEF PublishCancelled, locals
  <2>4. Began(o)' <=> Began(o)
    BY <1>8, <2>1 DEF PublishCancelled, Began, Goto, IInv, TypeOK, OfferType
  <2>5. /\ s \in Invited => client'[o] # Nil
        /\ call.callSeq = o /\ s \in Invited => client'[o] = sip
        /\ call.dialog = o => client'[o] = client[o]
        /\ call.callSeq = o /\ s \in Dialing => call.peer = o
    BY <1>8
      DEF PublishCancelled, IInv, ControlInv, LegInv, Invited, Dialing, locals
  <2>6. call.callSeq = o =>
          /\ s \in Setup \cup Dialing => call.callState = "connecting"
          /\ s \in Playing => call.callState = "connected"
          /\ s \in {"failing", "fail"} => Active
          /\ s = "done" => call.callState # "connecting"
    BY <1>8
      DEF PublishCancelled, IInv, ControlInv, StageInv, Setup, Invited,
        Dialing, Playing, Active, Current, Mine
  <2>7. QED
    BY <2>1, <2>2, <2>3, <2>4, <2>5, <2>6, MoveStep
<1>9. ASSUME NEW o \in Calls, DialBegin(o) PROVE ControlInv'
  <2> DEFINE s == IF sip = Nil THEN "failing" ELSE "invite"
  <2>1. s \in Stages /\ Goto(o, s) /\ UNCHANGED <<cancelled, sip, registerMu>>
    BY <1>9 DEF DialBegin, Stages, callVars, regVars
  <2>2. SameCall
    BY <1>9 DEF DialBegin, SameCall, callVars
  <2>3. \A q \in Calls \ {o} : client'[q] = client[q]
    BY <1>9 DEF DialBegin, IInv, TypeOK, OfferType
  <2>4. Began(o)' <=> Began(o)
    BY <1>9, <2>1 DEF DialBegin, Began, Goto, IInv, TypeOK, OfferType
  <2>5. /\ s \in Invited => client'[o] # Nil
        /\ call.callSeq = o /\ s \in Invited => client'[o] = sip
        /\ call.dialog = o => client'[o] = client[o]
        /\ call.callSeq = o /\ s \in Dialing => call.peer = o
    BY <1>9, GatewayAssumption
      DEF DialBegin, IInv, ControlInv, LegInv, Invited, Dialing, DialogInv,
        DialogViaSip, TypeOK, OfferType
  <2>6. call.callSeq = o =>
          /\ s \in Setup \cup Dialing => call.callState = "connecting"
          /\ s \in Playing => call.callState = "connected"
          /\ s \in {"failing", "fail"} => Active
          /\ s = "done" => call.callState # "connecting"
    BY <1>9
      DEF DialBegin, IInv, ControlInv, StageInv, Setup, Invited, Dialing,
        Playing, Active
  <2>7. QED
    BY <2>1, <2>2, <2>3, <2>4, <2>5, <2>6, MoveStep
<1>10. ASSUME NEW o \in Calls, DialInvite(o) PROVE ControlInv'
  <2> DEFINE s == IF Reachable(o) THEN "inviting" ELSE "failing"
  <2>1. s \in Stages /\ Goto(o, s) /\ UNCHANGED <<cancelled, sip, registerMu>>
    BY <1>10 DEF DialInvite, Stages, callVars, regVars
  <2>2. SameCall
    BY <1>10 DEF DialInvite, SameCall, IInv, TypeOK, CallType, CallRecord
  <2>3. \A q \in Calls \ {o} : client'[q] = client[q]
    BY <1>10 DEF DialInvite, locals
  <2>4. Began(o)' <=> Began(o)
    BY <1>10, <2>1 DEF DialInvite, Began, Goto, IInv, TypeOK, OfferType
  <2>5. /\ s \in Invited => client'[o] # Nil
        /\ call.callSeq = o /\ s \in Invited => client'[o] = sip
        /\ call.dialog = o => client'[o] = client[o]
        /\ call.callSeq = o /\ s \in Dialing => call.peer = o
    BY <1>10 DEF DialInvite, IInv, ControlInv, LegInv, Invited, Dialing, locals
  <2>6. call.callSeq = o =>
          /\ s \in Setup \cup Dialing => call.callState = "connecting"
          /\ s \in Playing => call.callState = "connected"
          /\ s \in {"failing", "fail"} => Active
          /\ s = "done" => call.callState # "connecting"
    BY <1>10
      DEF DialInvite, IInv, ControlInv, StageInv, Setup, Invited, Dialing,
        Playing, Active
  <2>7. QED
    BY <2>1, <2>2, <2>3, <2>4, <2>5, <2>6, MoveStep
<1>11. ASSUME NEW o \in Calls, InviteResend(o) PROVE ControlInv'
  <2>1. SameCall /\ NotHeldAnew /\ UNCHANGED <<cancelled, sip, client, pc>>
    BY <1>11
      DEF InviteResend, SameCall, NotHeldAnew, callVars, regVars, offerVars
  <2>2. QED
    BY <2>1, QuietStep
<1>12. ASSUME NEW o \in Calls, InviteError(o) PROVE ControlInv'
  <2> DEFINE s == "failing"
  <2>1. s \in Stages /\ Goto(o, s) /\ UNCHANGED <<cancelled, sip, registerMu>>
    BY <1>12 DEF InviteError, Stages, callVars, regVars
  <2>2. SameCall
    BY <1>12 DEF InviteError, SameCall, callVars
  <2>3. \A q \in Calls \ {o} : client'[q] = client[q]
    BY <1>12 DEF InviteError, locals
  <2>4. Began(o)' <=> Began(o)
    BY <1>12, <2>1 DEF InviteError, Began, Goto, IInv, TypeOK, OfferType
  <2>5. /\ s \in Invited => client'[o] # Nil
        /\ call.callSeq = o /\ s \in Invited => client'[o] = sip
        /\ call.dialog = o => client'[o] = client[o]
        /\ call.callSeq = o /\ s \in Dialing => call.peer = o
    BY <1>12
      DEF InviteError, IInv, ControlInv, LegInv, Invited, Dialing, locals
  <2>6. call.callSeq = o =>
          /\ s \in Setup \cup Dialing => call.callState = "connecting"
          /\ s \in Playing => call.callState = "connected"
          /\ s \in {"failing", "fail"} => Active
          /\ s = "done" => call.callState # "connecting"
    BY <1>12
      DEF InviteError, IInv, ControlInv, StageInv, Setup, Invited, Dialing,
        Playing, Active
  <2>7. QED
    BY <2>1, <2>2, <2>3, <2>4, <2>5, <2>6, MoveStep
<1>13. ASSUME NEW o \in Calls, InviteRejected(o) PROVE ControlInv'
  <2> DEFINE s == "failing"
  <2>1. s \in Stages /\ Goto(o, s) /\ UNCHANGED <<cancelled, sip, registerMu>>
    BY <1>13 DEF InviteRejected, Stages, callVars, regVars
  <2>2. SameCall
    BY <1>13
      DEF InviteRejected, SameCall, IInv, TypeOK, CallType, CallRecord,
        RecordCallID
  <2>3. \A q \in Calls \ {o} : client'[q] = client[q]
    BY <1>13 DEF InviteRejected, locals
  <2>4. Began(o)' <=> Began(o)
    BY <1>13, <2>1 DEF InviteRejected, Began, Goto, IInv, TypeOK, OfferType
  <2>5. /\ s \in Invited => client'[o] # Nil
        /\ call.callSeq = o /\ s \in Invited => client'[o] = sip
        /\ call.dialog = o => client'[o] = client[o]
        /\ call.callSeq = o /\ s \in Dialing => call.peer = o
    BY <1>13
      DEF InviteRejected, IInv, ControlInv, LegInv, Invited, Dialing, locals
  <2>6. call.callSeq = o =>
          /\ s \in Setup \cup Dialing => call.callState = "connecting"
          /\ s \in Playing => call.callState = "connected"
          /\ s \in {"failing", "fail"} => Active
          /\ s = "done" => call.callState # "connecting"
    BY <1>13
      DEF InviteRejected, IInv, ControlInv, StageInv, Setup, Invited, Dialing,
        Playing, Active
  <2>7. QED
    BY <2>1, <2>2, <2>3, <2>4, <2>5, <2>6, MoveStep
<1>14. ASSUME NEW o \in Calls, InviteAnswered(o) PROVE ControlInv'
  <2>1. PICK usable \in BOOLEAN : Goto(o, IF usable THEN "answered" ELSE "failing")
    BY <1>14 DEF InviteAnswered
  <2> DEFINE s == IF usable THEN "answered" ELSE "failing"
  <2>2. s \in Stages /\ Goto(o, s) /\ UNCHANGED <<cancelled, sip, registerMu>>
    BY <1>14, <2>1 DEF InviteAnswered, Stages, regVars
  <2>3. SameCall
    BY <1>14 DEF InviteAnswered, SameCall, RecordCallID, IInv, TypeOK, CallType, CallRecord
  <2>4. client' = client
    BY <1>14 DEF InviteAnswered, locals
  <2>5. Began(o)' <=> Began(o)
    BY <1>14, <2>2 DEF InviteAnswered, Began, Goto, IInv, TypeOK, OfferType
  <2>6. /\ s \in Invited => client'[o] # Nil
        /\ call.callSeq = o /\ s \in Invited => client'[o] = sip
        /\ call.callSeq = o /\ s \in Dialing => call.peer = o
    BY <1>14, <2>4 DEF InviteAnswered, IInv, ControlInv, LegInv, Invited, Dialing
  <2>7. call.callSeq = o =>
          /\ s \in Setup \cup Dialing => call.callState = "connecting"
          /\ s \in Playing => call.callState = "connected"
          /\ s \in {"failing", "fail"} => Active
          /\ s = "done" => call.callState # "connecting"
    BY <1>14
      DEF InviteAnswered, IInv, ControlInv, StageInv, Setup, Invited, Dialing,
          Playing, Active
  <2>8. QED
    BY <2>2, <2>3, <2>4, <2>5, <2>6, <2>7, MoveStep
<1>15. ASSUME NEW o \in Calls, Connect(o) PROVE ControlInv'
  <2>1. /\ call.callSeq = o /\ call.callState = "connecting"
        /\ call'.callState = "connected" /\ call'.callSeq = o /\ call'.dialog = o
        /\ call'.callCancel = call.callCancel /\ call'.peer = call.peer
        /\ call'.sipTarget = TargetOnAnswer(o)
    BY <1>15 DEF Connect, Connected, Current, Mine, IInv, TypeOK, CallType, CallRecord
  <2>2. /\ pc[o] = "answered" /\ pc'[o] \in {"announce", "done"}
        /\ \A q \in Calls \ {o} : pc'[q] = pc[q]
        /\ UNCHANGED <<sip, registerMu, client, cancelled>>
    BY <1>15 DEF Connect, Goto, IInv, TypeOK, OfferType, regVars, locals
  <2>3. client[o] = sip /\ sip # Nil /\ call.peer = o
    BY <2>1, <2>2 DEF IInv, ControlInv, LegInv, Dialing, Invited
  <2>4. call'.sipTarget # Nil
    BY <2>1, GatewayAssumption DEF TargetOnAnswer, Addresses
  <2>5. SeqInv'
    BY <2>1, <2>2, GatewayAssumption DEF IInv, ControlInv, SeqInv, Began
  <2>6. AccountInv'
    BY <2>2, <2>3 DEF IInv, ControlInv, AccountInv, ActiveHasClient
  <2>7. StageInv'
    BY <2>1, <2>2 DEF StageInv, Setup, Dialing, Invited, Playing
  <2>8. LegInv'
    BY <2>1, <2>2 DEF IInv, ControlInv, LegInv, Dialing, Invited
  <2>9. DialogInv' /\ ConnectedComplete'
    BY <2>1, <2>2, <2>3, <2>4, GatewayAssumption
      DEF DialogInv, DialogViaSip, ConnectedComplete
  <2>10. CancelInv' /\ ContextFollowsCall'
    BY <2>1, <2>2 DEF IInv, ControlInv, CancelInv, ContextFollowsCall, Began
  <2>11. QED
    BY <2>5, <2>6, <2>7, <2>8, <2>9, <2>10 DEF ControlInv
<1>16. ASSUME NEW o \in Calls, LateAnswer(o) PROVE ControlInv'
  <2> DEFINE s == "done"
  <2>1. s \in Stages /\ Goto(o, s) /\ UNCHANGED <<cancelled, sip, registerMu>>
    BY <1>16 DEF LateAnswer, Stages, callVars, regVars
  <2>2. SameCall
    BY <1>16 DEF LateAnswer, SameCall, callVars
  <2>3. \A q \in Calls \ {o} : client'[q] = client[q]
    BY <1>16 DEF LateAnswer, locals
  <2>4. Began(o)' <=> Began(o)
    BY <1>16, <2>1 DEF LateAnswer, Began, Goto, IInv, TypeOK, OfferType
  <2>5. /\ s \in Invited => client'[o] # Nil
        /\ call.callSeq = o /\ s \in Invited => client'[o] = sip
        /\ call.dialog = o => client'[o] = client[o]
        /\ call.callSeq = o /\ s \in Dialing => call.peer = o
    BY <1>16 DEF LateAnswer, IInv, ControlInv, LegInv, Invited, Dialing, locals
  <2>6. call.callSeq = o =>
          /\ s \in Setup \cup Dialing => call.callState = "connecting"
          /\ s \in Playing => call.callState = "connected"
          /\ s \in {"failing", "fail"} => Active
          /\ s = "done" => call.callState # "connecting"
    BY <1>16
      DEF LateAnswer, IInv, ControlInv, StageInv, Setup, Invited, Dialing,
        Playing, Active, Current, Mine
  <2>7. QED
    BY <2>1, <2>2, <2>3, <2>4, <2>5, <2>6, MoveStep
<1>17. ASSUME NEW o \in Calls, AnnounceBegin(o) PROVE ControlInv'
  <2> DEFINE s == "waiting"
  <2>1. s \in Stages /\ Goto(o, s) /\ UNCHANGED <<cancelled, sip, registerMu>>
    BY <1>17 DEF AnnounceBegin, Stages, callVars, regVars
  <2>2. SameCall
    BY <1>17 DEF AnnounceBegin, SameCall, IInv, TypeOK, CallType, CallRecord
  <2>3. \A q \in Calls \ {o} : client'[q] = client[q]
    BY <1>17 DEF AnnounceBegin, locals
  <2>4. Began(o)' <=> Began(o)
    BY <1>17, <2>1 DEF AnnounceBegin, Began, Goto, IInv, TypeOK, OfferType
  <2>5. /\ s \in Invited => client'[o] # Nil
        /\ call.callSeq = o /\ s \in Invited => client'[o] = sip
        /\ call.dialog = o => client'[o] = client[o]
        /\ call.callSeq = o /\ s \in Dialing => call.peer = o
    BY <1>17
      DEF AnnounceBegin, IInv, ControlInv, LegInv, Invited, Dialing, locals
  <2>6. call.callSeq = o =>
          /\ s \in Setup \cup Dialing => call.callState = "connecting"
          /\ s \in Playing => call.callState = "connected"
          /\ s \in {"failing", "fail"} => Active
          /\ s = "done" => call.callState # "connecting"
    BY <1>17
      DEF AnnounceBegin, IInv, ControlInv, StageInv, Setup, Invited, Dialing,
        Playing, Active
  <2>7. QED
    BY <2>1, <2>2, <2>3, <2>4, <2>5, <2>6, MoveStep
<1>18. ASSUME NEW o \in Calls, AnnouncePlay(o) PROVE ControlInv'
  <2> DEFINE s == "playing"
  <2>1. s \in Stages /\ Goto(o, s) /\ UNCHANGED <<cancelled, sip, registerMu>>
    BY <1>18 DEF AnnouncePlay, Stages, callVars, regVars
  <2>2. SameCall
    BY <1>18 DEF AnnouncePlay, SameCall, IInv, TypeOK, CallType, CallRecord
  <2>3. \A q \in Calls \ {o} : client'[q] = client[q]
    BY <1>18 DEF AnnouncePlay, locals
  <2>4. Began(o)' <=> Began(o)
    BY <1>18, <2>1 DEF AnnouncePlay, Began, Goto, IInv, TypeOK, OfferType
  <2>5. /\ s \in Invited => client'[o] # Nil
        /\ call.callSeq = o /\ s \in Invited => client'[o] = sip
        /\ call.dialog = o => client'[o] = client[o]
        /\ call.callSeq = o /\ s \in Dialing => call.peer = o
    BY <1>18
      DEF AnnouncePlay, IInv, ControlInv, LegInv, Invited, Dialing, locals
  <2>6. call.callSeq = o =>
          /\ s \in Setup \cup Dialing => call.callState = "connecting"
          /\ s \in Playing => call.callState = "connected"
          /\ s \in {"failing", "fail"} => Active
          /\ s = "done" => call.callState # "connecting"
    BY <1>18
      DEF AnnouncePlay, IInv, ControlInv, StageInv, Setup, Invited, Dialing,
        Playing, Active
  <2>7. QED
    BY <2>1, <2>2, <2>3, <2>4, <2>5, <2>6, MoveStep
<1>19. ASSUME NEW o \in Calls, AnnounceAbort(o) PROVE ControlInv'
  <2> DEFINE s == "done"
  <2>1. s \in Stages /\ Goto(o, s) /\ UNCHANGED <<cancelled, sip, registerMu>>
    BY <1>19 DEF AnnounceAbort, Stages, callVars, regVars
  <2>2. SameCall
    BY <1>19 DEF AnnounceAbort, SameCall, callVars
  <2>3. \A q \in Calls \ {o} : client'[q] = client[q]
    BY <1>19 DEF AnnounceAbort, locals
  <2>4. Began(o)' <=> Began(o)
    BY <1>19, <2>1 DEF AnnounceAbort, Began, Goto, IInv, TypeOK, OfferType
  <2>5. /\ s \in Invited => client'[o] # Nil
        /\ call.callSeq = o /\ s \in Invited => client'[o] = sip
        /\ call.dialog = o => client'[o] = client[o]
        /\ call.callSeq = o /\ s \in Dialing => call.peer = o
    BY <1>19
      DEF AnnounceAbort, IInv, ControlInv, LegInv, Invited, Dialing, locals
  <2>6. call.callSeq = o =>
          /\ s \in Setup \cup Dialing => call.callState = "connecting"
          /\ s \in Playing => call.callState = "connected"
          /\ s \in {"failing", "fail"} => Active
          /\ s = "done" => call.callState # "connecting"
    BY <1>19
      DEF AnnounceAbort, IInv, ControlInv, StageInv, Setup, Invited, Dialing,
        Playing, Active
  <2>7. QED
    BY <2>1, <2>2, <2>3, <2>4, <2>5, <2>6, MoveStep
<1>20. ASSUME NEW o \in Calls, AnnounceFails(o) PROVE ControlInv'
  <2> DEFINE s == "failing"
  <2>1. s \in Stages /\ Goto(o, s) /\ UNCHANGED <<cancelled, sip, registerMu>>
    BY <1>20 DEF AnnounceFails, Stages, callVars, regVars
  <2>2. SameCall
    BY <1>20 DEF AnnounceFails, SameCall, callVars
  <2>3. \A q \in Calls \ {o} : client'[q] = client[q]
    BY <1>20 DEF AnnounceFails, locals
  <2>4. Began(o)' <=> Began(o)
    BY <1>20, <2>1 DEF AnnounceFails, Began, Goto, IInv, TypeOK, OfferType
  <2>5. /\ s \in Invited => client'[o] # Nil
        /\ call.callSeq = o /\ s \in Invited => client'[o] = sip
        /\ call.dialog = o => client'[o] = client[o]
        /\ call.callSeq = o /\ s \in Dialing => call.peer = o
    BY <1>20
      DEF AnnounceFails, IInv, ControlInv, LegInv, Invited, Dialing, locals
  <2>6. call.callSeq = o =>
          /\ s \in Setup \cup Dialing => call.callState = "connecting"
          /\ s \in Playing => call.callState = "connected"
          /\ s \in {"failing", "fail"} => Active
          /\ s = "done" => call.callState # "connecting"
    BY <1>20
      DEF AnnounceFails, IInv, ControlInv, StageInv, Setup, Invited, Dialing,
        Playing, Active
  <2>7. QED
    BY <2>1, <2>2, <2>3, <2>4, <2>5, <2>6, MoveStep
<1>21. ASSUME NEW o \in Calls, AnnounceComplete(o) PROVE ControlInv'
  <2> DEFINE s == "finishing"
  <2>1. s \in Stages /\ Goto(o, s) /\ UNCHANGED <<cancelled, sip, registerMu>>
    BY <1>21 DEF AnnounceComplete, Stages, callVars, regVars
  <2>2. SameCall
    BY <1>21
      DEF AnnounceComplete, SameCall, IInv, TypeOK, CallType, CallRecord, Mine
  <2>3. \A q \in Calls \ {o} : client'[q] = client[q]
    BY <1>21 DEF AnnounceComplete, locals
  <2>4. Began(o)' <=> Began(o)
    BY <1>21, <2>1 DEF AnnounceComplete, Began, Goto, IInv, TypeOK, OfferType
  <2>5. /\ s \in Invited => client'[o] # Nil
        /\ call.callSeq = o /\ s \in Invited => client'[o] = sip
        /\ call.dialog = o => client'[o] = client[o]
        /\ call.callSeq = o /\ s \in Dialing => call.peer = o
    BY <1>21
      DEF AnnounceComplete, IInv, ControlInv, LegInv, Invited, Dialing, locals
  <2>6. call.callSeq = o =>
          /\ s \in Setup \cup Dialing => call.callState = "connecting"
          /\ s \in Playing => call.callState = "connected"
          /\ s \in {"failing", "fail"} => Active
          /\ s = "done" => call.callState # "connecting"
    BY <1>21
      DEF AnnounceComplete, IInv, ControlInv, StageInv, Setup, Invited,
        Dialing, Playing, Active
  <2>7. QED
    BY <2>1, <2>2, <2>3, <2>4, <2>5, <2>6, MoveStep
<1>22. ASSUME NEW o \in Calls, AnnounceEnd(o) PROVE ControlInv'
  <2>1. CASE Mine(o)
    <3>1. ClearCall /\ UNCHANGED <<client, sip, registerMu>>
      BY <1>22, <2>1 DEF AnnounceEnd, EndCall, locals, regVars
    <3>2. AccountInv'
      BY <3>1, ClearEnds DEF IInv, ControlInv, AccountInv, ActiveHasClient
    <3>3. StagesKept
      BY <1>22 DEF StagesKept, AnnounceEnd, IInv, TypeOK, OfferType, Began, Goto, Invited
    <3>4. QED
      BY <3>1, <3>2, <3>3, ClearStep
  <2>2. CASE ~Mine(o)
    <3>1. /\ Goto(o, "done") /\ "done" \in Stages
          /\ UNCHANGED <<call, cancelled, sip, registerMu, client>>
      BY <1>22, <2>2 DEF AnnounceEnd, Stages, callVars, regVars, locals
    <3>2. SameCall
      BY <3>1 DEF SameCall
    <3>3. Began(o)' <=> Began(o)
      BY <1>22 DEF AnnounceEnd, Began, Goto, IInv, TypeOK, OfferType
    <3>4. QED
      BY <2>2, <3>1, <3>2, <3>3, MoveStep DEF Mine, Invited, Dialing
  <2>3. QED
    BY <2>1, <2>2
<1>23. ASSUME NEW o \in Calls, FailRead(o) PROVE ControlInv'
  <2> DEFINE s == "fail"
  <2>1. s \in Stages /\ Goto(o, s) /\ UNCHANGED <<cancelled, sip, registerMu>>
    BY <1>23 DEF FailRead, Stages, callVars, regVars
  <2>2. SameCall
    BY <1>23 DEF FailRead, SameCall, callVars
  <2>3. \A q \in Calls \ {o} : client'[q] = client[q]
    BY <1>23 DEF FailRead, locals
  <2>4. Began(o)' <=> Began(o)
    BY <1>23, <2>1 DEF FailRead, Began, Goto, IInv, TypeOK, OfferType
  <2>5. /\ s \in Invited => client'[o] # Nil
        /\ call.callSeq = o /\ s \in Invited => client'[o] = sip
        /\ call.dialog = o => client'[o] = client[o]
        /\ call.callSeq = o /\ s \in Dialing => call.peer = o
    BY <1>23 DEF FailRead, IInv, ControlInv, LegInv, Invited, Dialing, locals
  <2>6. call.callSeq = o =>
          /\ s \in Setup \cup Dialing => call.callState = "connecting"
          /\ s \in Playing => call.callState = "connected"
          /\ s \in {"failing", "fail"} => Active
          /\ s = "done" => call.callState # "connecting"
    BY <1>23
      DEF FailRead, IInv, ControlInv, StageInv, Setup, Invited, Dialing,
        Playing, Active
  <2>7. QED
    BY <2>1, <2>2, <2>3, <2>4, <2>5, <2>6, MoveStep
<1>24. ASSUME NEW o \in Calls, FailCall(o) PROVE ControlInv'
  <2>1. /\ pc[o] = "fail" /\ pc'[o] = "done" /\ Goto(o, "done")
        /\ \A q \in Calls \ {o} : pc'[q] = pc[q]
        /\ UNCHANGED <<sip, registerMu, client, cancelled>>
    BY <1>24 DEF FailCall, Goto, IInv, TypeOK, OfferType, regVars
  <2>2. CASE Mine(o)
    <3>1. /\ call.callSeq = o /\ call'.callSeq = o /\ call'.callState = "failed"
          /\ call'.callCancel = call.callCancel /\ call'.dialog = call.dialog
      BY <1>24, <2>2 DEF FailCall, Failed, Mine, IInv, TypeOK, CallType, CallRecord
    <3>2. SeqInv'
      BY <2>1, <3>1, GatewayAssumption DEF IInv, ControlInv, SeqInv, Began
    <3>3. AccountInv'
      BY <2>1, <3>1 DEF IInv, ControlInv, AccountInv, ActiveHasClient, Active
    <3>4. StageInv'
      BY <2>1, <3>1 DEF StageInv, Setup, Dialing, Invited, Playing
    <3>5. LegInv'
      BY <2>1, <3>1 DEF IInv, ControlInv, LegInv, Dialing, Invited
    <3>6. DialogInv' /\ ConnectedComplete'
      BY <2>1, <3>1
        DEF IInv, ControlInv, DialogInv, DialogViaSip, ConnectedComplete
    <3>7. CancelInv' /\ ContextFollowsCall'
      BY <2>1, <3>1 DEF IInv, ControlInv, CancelInv, ContextFollowsCall, Began
    <3>8. QED
      BY <3>2, <3>3, <3>4, <3>5, <3>6, <3>7 DEF ControlInv
  <2>3. CASE ~Mine(o)
    <3>1. SameCall
      BY <1>24, <2>3 DEF FailCall, SameCall
    <3>2. "done" \in Stages
      BY DEF Stages
    <3>3. Began(o)' <=> Began(o)
      BY <2>1 DEF Began
    <3>4. QED
      BY <2>1, <2>3, <3>1, <3>2, <3>3, MoveStep DEF Mine, Invited, Dialing
  <2>4. QED
    BY <2>2, <2>3
<1>25. ASSUME NEW o \in Calls, RtpIn(o) PROVE ControlInv'
  <2>1. <<o, "rtp">> # Nil
    BY GatewayAssumption DEF Addresses
  <2>2. TargetAfter(<<o, "rtp">>) # Nil \/ call.sipTarget = Nil
    BY <2>1 DEF TargetAfter
  <2>3. /\ call'.callState = call.callState /\ call'.callSeq = call.callSeq
        /\ call'.callCancel = call.callCancel /\ call'.peer = call.peer
        /\ call'.dialog = call.dialog
        /\ call'.sipTarget = TargetAfter(<<o, "rtp">>)
    BY <1>25 DEF RtpIn, Heard, IInv, TypeOK, CallType, CallRecord
  <2>4. SameCall /\ NotHeldAnew /\ UNCHANGED <<cancelled, sip, client, pc>>
    BY <1>25, <2>2, <2>3 DEF RtpIn, SameCall, NotHeldAnew, regVars, offerVars
  <2>5. QED
    BY <2>4, QuietStep
<1>26. ASSUME NEW o \in Calls, PeerCloses(o) PROVE ControlInv'
  <2>1. SameCall /\ NotHeldAnew /\ UNCHANGED <<cancelled, sip, client, pc>>
    BY <1>26
      DEF PeerCloses, SameCall, NotHeldAnew, callVars, regVars, offerVars
  <2>2. QED
    BY <2>1, QuietStep
<1>27. ASSUME NEW o \in Calls, PeerFails(o) PROVE ControlInv'
  <2>1. SameCall /\ NotHeldAnew /\ UNCHANGED <<cancelled, sip, client, pc>>
    BY <1>27 DEF PeerFails, SameCall, NotHeldAnew, callVars, regVars, offerVars
  <2>2. QED
    BY <2>1, QuietStep
<1>28. ASSUME NEW o \in Calls, RemoteBye(o) PROVE ControlInv'
  <2>1. SameCall /\ NotHeldAnew /\ UNCHANGED <<cancelled, sip, client, pc>>
    BY <1>28 DEF RemoteBye, SameCall, NotHeldAnew, callVars, regVars, offerVars
  <2>2. QED
    BY <2>1, QuietStep
<1>29. ASSUME NEW o \in Calls, RemoteHangup(o) PROVE ControlInv'
  <2>1. ClearCall /\ UNCHANGED client
    BY <1>29 DEF RemoteHangup, EndCall, offerVars, locals
  <2>2. AccountInv'
    BY <1>29, <2>1, ClearEnds
      DEF RemoteHangup, IInv, ControlInv, AccountInv, ActiveHasClient, regVars,
        Free
  <2>3. StagesKept
    BY <1>29
      DEF RemoteHangup, StagesKept, IInv, TypeOK, OfferType, Began, Goto,
        Invited, offerVars
  <2>4. QED
    BY <2>1, <2>2, <2>3, ClearStep
<1>30. ASSUME NEW o \in Calls, NEW kind \in {"failed", "closed"}, PeerEvent(<<o, kind>>) PROVE ControlInv'
  <2>1. SameCall /\ NotHeldAnew /\ UNCHANGED <<cancelled, sip, client, pc>>
    BY <1>30 DEF PeerEvent, SameCall, NotHeldAnew, callVars, regVars, offerVars
  <2>2. QED
    BY <2>1, QuietStep
<1>31. ASSUME NEW o \in Calls, NEW kind \in {"failed", "closed"}, PeerEventEnds(<<o, kind>>) PROVE ControlInv'
  <2>1. ClearCall /\ UNCHANGED client
    BY <1>31 DEF PeerEventEnds, EndCall, offerVars, locals
  <2>2. AccountInv'
    BY <1>31, <2>1, ClearEnds
      DEF PeerEventEnds, IInv, ControlInv, AccountInv, ActiveHasClient,
        regVars, Free
  <2>3. StagesKept
    BY <1>31
      DEF PeerEventEnds, StagesKept, IInv, TypeOK, OfferType, Began, Goto,
        Invited, offerVars
  <2>4. QED
    BY <2>1, <2>2, <2>3, ClearStep
<1>32. ASSUME NEW c \in Clients, NEW o \in Calls, SendBye(c, o) PROVE ControlInv'
  <2>1. SameCall /\ NotHeldAnew /\ UNCHANGED <<cancelled, sip, client, pc>>
    BY <1>32 DEF SendBye, SameCall, NotHeldAnew, callVars, regVars, offerVars
  <2>2. QED
    BY <2>1, QuietStep
<1>33. ASSUME Hangup PROVE ControlInv'
  <2>1. ClearCall /\ UNCHANGED client
    BY <1>33 DEF Hangup, EndCall, offerVars, locals
  <2>2. AccountInv'
    BY <1>33, <2>1, ClearEnds
      DEF Hangup, IInv, ControlInv, AccountInv, ActiveHasClient, regVars, Free
  <2>3. StagesKept
    BY <1>33
      DEF Hangup, StagesKept, IInv, TypeOK, OfferType, Began, Goto, Invited,
        offerVars
  <2>4. QED
    BY <2>1, <2>2, <2>3, ClearStep
<1>34. ASSUME HandleAudio PROVE ControlInv'
  <2>1. SameCall /\ NotHeldAnew /\ UNCHANGED <<cancelled, sip, client, pc>>
    BY <1>34
      DEF HandleAudio, SameCall, NotHeldAnew, callVars, regVars, offerVars
  <2>2. QED
    BY <2>1, QuietStep
<1>35. ASSUME TraceForgets PROVE ControlInv'
  <2>1. SameCall /\ NotHeldAnew /\ UNCHANGED <<cancelled, sip, client, pc>>
    BY <1>35
      DEF TraceForgets, SameCall, NotHeldAnew, callVars, regVars, offerVars
  <2>2. QED
    BY <2>1, QuietStep
<1>36. ASSUME NEW c \in Clients, RegisterBegin(c) PROVE ControlInv'
  <2>1. ClearCall /\ UNCHANGED client
    BY <1>36 DEF RegisterBegin, offerVars, locals
  <2>2. AccountInv'
    BY <1>36, <2>1, ClearEnds
      DEF RegisterBegin, IInv, ControlInv, AccountInv, ActiveHasClient,
        regVars, Free, DropAccount, Holding
  <2>3. StagesKept
    BY <1>36
      DEF RegisterBegin, StagesKept, IInv, TypeOK, OfferType, Began, Goto,
        Invited, offerVars
  <2>4. QED
    BY <2>1, <2>2, <2>3, ClearStep
<1>37. ASSUME NEW c \in Clients, KeepTick(c) PROVE ControlInv'
  <2>1. SameCall /\ NotHeldAnew /\ UNCHANGED <<cancelled, sip, client, pc>>
    BY <1>37 DEF KeepTick, SameCall, NotHeldAnew, callVars, regVars, offerVars
  <2>2. QED
    BY <2>1, QuietStep
<1>38. ASSUME NEW c \in Clients, KeepSucceeds(c) PROVE ControlInv'
  <2>1. SameCall /\ NotHeldAnew /\ UNCHANGED <<cancelled, sip, client, pc>>
    BY <1>38
      DEF KeepSucceeds, SameCall, NotHeldAnew, callVars, regVars, offerVars
  <2>2. QED
    BY <2>1, QuietStep
<1>39. ASSUME NEW c \in Clients, KeepFails(c) PROVE ControlInv'
  <2>1. SameCall /\ NotHeldAnew /\ UNCHANGED <<cancelled, sip, client, pc>>
    BY <1>39
      DEF KeepFails, SameCall, NotHeldAnew, RefreshLost, callVars, regVars,
        offerVars
  <2>2. QED
    BY <2>1, QuietStep
<1>40. ASSUME RegisterCloseOld PROVE ControlInv'
  <2>1. SameCall /\ NotHeldAnew /\ UNCHANGED <<cancelled, sip, client, pc>>
    BY <1>40
      DEF RegisterCloseOld, SameCall, NotHeldAnew, IInv, TypeOK, RegType,
        callVars, regVars, offerVars
  <2>2. QED
    BY <2>1, QuietStep
<1>41. ASSUME RegisterCreate PROVE ControlInv'
  <2>1. SameCall /\ NotHeldAnew /\ UNCHANGED <<cancelled, sip, client, pc>>
    BY <1>41
      DEF RegisterCreate, SameCall, NotHeldAnew, IInv, TypeOK, RegType,
        callVars, regVars, offerVars
  <2>2. QED
    BY <2>1, QuietStep
<1>42. ASSUME RegisterFails PROVE ControlInv'
  <2>1. SameCall /\ NotHeldAnew /\ UNCHANGED <<cancelled, sip, client, pc>>
    BY <1>42
      DEF RegisterFails, SameCall, NotHeldAnew, DropAccount, Free, IInv,
        ControlInv, AccountInv, callVars, regVars, offerVars
  <2>2. QED
    BY <2>1, QuietStep
<1>43. ASSUME RegisterSucceeds PROVE ControlInv'
  <2>1. /\ sip = Nil /\ ~Active /\ call.dialog = Nil
        /\ registerMu'.step = "callback"
        /\ sip' # Nil /\ UNCHANGED <<call, cancelled, pc, client>>
    BY <1>43
      DEF RegisterSucceeds, IInv, ControlInv, AccountInv, ActiveHasClient,
          DialogInv, TypeOK, RegType, callVars, offerVars
  <2>2. SeqInv' /\ ConnectedComplete' /\ CancelInv' /\ ContextFollowsCall'
    BY <2>1
      DEF IInv, ControlInv, SeqInv, ConnectedComplete, CancelInv,
          ContextFollowsCall, Began
  <2>3. AccountInv'
    BY <2>1 DEF AccountInv, ActiveHasClient
  <2>4. StageInv'
    BY <2>1 DEF IInv, ControlInv, StageInv, Active
  <2>5. LegInv'
    BY <2>1
      DEF IInv, ControlInv, LegInv, StageInv, Active, Setup, Dialing, Invited
  <2>6. DialogInv'
    BY <2>1 DEF DialogInv, DialogViaSip
  <2>7. QED
    BY <2>2, <2>3, <2>4, <2>5, <2>6 DEF ControlInv
<1>44. ASSUME RegisterCallback PROVE ControlInv'
  <2>1. SameCall /\ NotHeldAnew /\ UNCHANGED <<cancelled, sip, client, pc>>
    BY <1>44
      DEF RegisterCallback, SameCall, NotHeldAnew, Free, callVars, regVars,
        offerVars
  <2>2. QED
    BY <2>1, QuietStep
<1>45. ASSUME LogoutBegin PROVE ControlInv'
  <2>1. ClearCall /\ UNCHANGED client
    BY <1>45 DEF LogoutBegin, offerVars, locals
  <2>2. AccountInv'
    BY <1>45, <2>1, ClearEnds
      DEF LogoutBegin, IInv, ControlInv, AccountInv, ActiveHasClient, regVars,
        Free, DropAccount, Holding
  <2>3. StagesKept
    BY <1>45
      DEF LogoutBegin, StagesKept, IInv, TypeOK, OfferType, Began, Goto,
        Invited, offerVars
  <2>4. QED
    BY <2>1, <2>2, <2>3, ClearStep
<1>46. ASSUME LogoutEnd PROVE ControlInv'
  <2>1. SameCall /\ NotHeldAnew /\ UNCHANGED <<cancelled, sip, client, pc>>
    BY <1>46
      DEF LogoutEnd, SameCall, NotHeldAnew, Free, callVars, regVars, offerVars
  <2>2. QED
    BY <2>1, QuietStep
<1>47. ASSUME ShutdownBegin PROVE ControlInv'
  <2>1. ClearCall /\ UNCHANGED client
    BY <1>47 DEF ShutdownBegin, offerVars, locals
  <2>2. AccountInv'
    BY <1>47, <2>1, ClearEnds
      DEF ShutdownBegin, IInv, ControlInv, AccountInv, ActiveHasClient,
        regVars, Free, DropAccount, Holding
  <2>3. StagesKept
    BY <1>47
      DEF ShutdownBegin, StagesKept, IInv, TypeOK, OfferType, Began, Goto,
        Invited, offerVars
  <2>4. QED
    BY <2>1, <2>2, <2>3, ClearStep
<1>48. ASSUME ShutdownEnd PROVE ControlInv'
  <2>1. SameCall /\ NotHeldAnew /\ UNCHANGED <<cancelled, sip, client, pc>>
    BY <1>48
      DEF ShutdownEnd, SameCall, NotHeldAnew, callVars, regVars, offerVars
  <2>2. QED
    BY <2>1, QuietStep
<1>49. CASE UNCHANGED vars
  BY <1>49, QuietStep DEF vars, callVars, regVars, offerVars, SameCall, NotHeldAnew
<1>50. QED
  BY <1>1, <1>2, <1>3, <1>4, <1>5, <1>6, <1>7, <1>8, <1>9, <1>10, <1>11, <1>12,
      <1>13, <1>14, <1>15, <1>16, <1>17, <1>18, <1>19, <1>20, <1>21, <1>22,
      <1>23, <1>24, <1>25, <1>26, <1>27, <1>28, <1>29, <1>30, <1>31, <1>32,
      <1>33, <1>34, <1>35, <1>36, <1>37, <1>38, <1>39, <1>40, <1>41, <1>42,
      <1>43, <1>44, <1>45, <1>46, <1>47, <1>48, <1>49
  DEF Next, Offer, Proceed, InviteEnds, Far, Pion, Registration,
      RegistrationProceeds

(***************************************************************************)
(* The invariant, what follows from it, and the life cycle of calls.       *)
(***************************************************************************)
LEMMA ControlInit == Init => ControlInv
<1>1. SUFFICES ASSUME Init PROVE ControlInv
  OBVIOUS
<1>2. /\ call.callState = "idle" /\ call.callSeq = Nil /\ call.callCancel = Nil
      /\ call.dialog = Nil /\ registerMu.step = "free" /\ cancelled = {}
      /\ \A o \in Calls : pc[o] = "new"
  BY <1>1 DEF Init, Cleared, Free
<1>3. SeqInv /\ AccountInv /\ DialogInv /\ ConnectedComplete
  BY <1>2
    DEF SeqInv, AccountInv, ActiveHasClient, Active, DialogInv, DialogViaSip,
        ConnectedComplete
<1>4. StageInv /\ LegInv /\ CancelInv /\ ContextFollowsCall
  BY <1>2, GatewayAssumption
    DEF StageInv, LegInv, Invited, Dialing, CancelInv, ContextFollowsCall, Began
<1>5. QED
  BY <1>3, <1>4 DEF ControlInv

(* The inductive invariant holds in every reachable state. *)
THEOREM InvariantHolds == Spec => []IInv
<1>1. Init => IInv
  BY TypeInit, ControlInit DEF IInv
<1>2. IInv /\ [Next]_vars => IInv'
  BY TypeStep, ControlStep DEF IInv
<1>3. QED
  BY <1>1, <1>2, PTL DEF Spec

(* A call never outlives the account it runs on: no register, logout,      *)
(* keepalive or shutdown takes g.sip away from an active call.             *)
THEOREM ActiveCallsHaveClient == Spec => []ActiveHasClient
<1>1. IInv => ActiveHasClient
  BY DEF IInv, ControlInv, AccountInv
<1>2. QED
  BY <1>1, InvariantHolds, PTL

(* The dialog endCall ends is the current attempt's own, and g.sip is the  *)
(* client that placed it.                                                  *)
THEOREM DialogsOnTheirClient == Spec => []DialogViaSip
<1>1. IInv => DialogViaSip
  BY DEF IInv, ControlInv, DialogInv
<1>2. QED
  BY <1>1, InvariantHolds, PTL

(* A connected call has its own browser leg, its own dialog and a target   *)
(* for its media.                                                          *)
THEOREM ConnectedCallsComplete == Spec => []ConnectedComplete
<1>1. IInv => ConnectedComplete
  BY DEF IInv, ControlInv
<1>2. QED
  BY <1>1, InvariantHolds, PTL

(* Exactly the attempts that are no longer current have their context      *)
(* cancelled.                                                              *)
THEOREM ContextsFollowCalls == Spec => []ContextFollowsCall
<1>1. IInv => ContextFollowsCall
  BY DEF IInv, ControlInv
<1>2. QED
  BY <1>1, InvariantHolds, PTL

(* What a step may do to the life cycle: nothing, or clear the call - the  *)
(* others start, connect or fail the current attempt.                      *)
Still ==
  /\ call'.callState = call.callState
  /\ call'.callSeq = call.callSeq
  /\ \A q \in Calls : Began(q)' <=> Began(q)

Clears == ClearCall /\ \A q \in Calls : Began(q)' <=> Began(q)

LEMMA LifecycleSteps ==
  ASSUME IInv, [Next]_vars
  PROVE  \/ Still \/ Clears
         \/ \E o \in Calls : OfferAccept(o)
         \/ \E o \in Calls : Connect(o)
         \/ \E o \in Calls : FailCall(o) /\ Mine(o)
<1>1. ASSUME NEW o \in Calls, OfferBusy(o) PROVE Still
  BY <1>1 DEF OfferBusy, Still, Began, Goto, IInv, TypeOK, OfferType, callVars
<1>2. ASSUME NEW o \in Calls, PeerCreate(o) PROVE Still
  BY <1>2
    DEF PeerCreate, Still, Began, Goto, IInv, TypeOK, OfferType, callVars,
      CallType, CallRecord
<1>3. ASSUME NEW o \in Calls, SetupFails(o) PROVE Still
  BY <1>3 DEF SetupFails, Still, Began, Goto, IInv, TypeOK, OfferType, callVars
<1>4. ASSUME NEW o \in Calls, Publish(o) PROVE Still
  BY <1>4
    DEF Publish, Still, Began, Goto, IInv, TypeOK, OfferType, callVars,
      CallType, CallRecord
<1>5. ASSUME NEW o \in Calls, PublishCancelled(o) PROVE Still
  BY <1>5
    DEF PublishCancelled, Still, Began, Goto, IInv, TypeOK, OfferType, callVars
<1>6. ASSUME NEW o \in Calls, DialBegin(o) PROVE Still
  BY <1>6 DEF DialBegin, Still, Began, Goto, IInv, TypeOK, OfferType, callVars
<1>7. ASSUME NEW o \in Calls, DialInvite(o) PROVE Still
  BY <1>7
    DEF DialInvite, Still, Began, Goto, IInv, TypeOK, OfferType, callVars,
      CallType, CallRecord
<1>8. ASSUME NEW o \in Calls, InviteResend(o) PROVE Still
  BY <1>8 DEF InviteResend, Still, Began, callVars, offerVars
<1>9. ASSUME NEW o \in Calls, InviteError(o) PROVE Still
  BY <1>9
    DEF InviteError, Still, Began, Goto, IInv, TypeOK, OfferType, callVars
<1>10. ASSUME NEW o \in Calls, InviteRejected(o) PROVE Still
  BY <1>10
    DEF InviteRejected, Still, Began, Goto, IInv, TypeOK, OfferType, callVars,
      CallType, CallRecord, RecordCallID
<1>11. ASSUME NEW o \in Calls, InviteAnswered(o) PROVE Still
  BY <1>11
    DEF InviteAnswered, Still, Began, Goto, IInv, TypeOK, OfferType, callVars,
      CallType, CallRecord, RecordCallID
<1>12. ASSUME NEW o \in Calls, LateAnswer(o) PROVE Still
  BY <1>12
    DEF LateAnswer, Still, Began, Goto, IInv, TypeOK, OfferType, callVars
<1>13. ASSUME NEW o \in Calls, AnnounceBegin(o) PROVE Still
  BY <1>13
    DEF AnnounceBegin, Still, Began, Goto, IInv, TypeOK, OfferType, callVars,
      CallType, CallRecord
<1>14. ASSUME NEW o \in Calls, AnnouncePlay(o) PROVE Still
  BY <1>14
    DEF AnnouncePlay, Still, Began, Goto, IInv, TypeOK, OfferType, callVars,
      CallType, CallRecord
<1>15. ASSUME NEW o \in Calls, AnnounceAbort(o) PROVE Still
  BY <1>15
    DEF AnnounceAbort, Still, Began, Goto, IInv, TypeOK, OfferType, callVars
<1>16. ASSUME NEW o \in Calls, AnnounceFails(o) PROVE Still
  BY <1>16
    DEF AnnounceFails, Still, Began, Goto, IInv, TypeOK, OfferType, callVars
<1>17. ASSUME NEW o \in Calls, AnnounceComplete(o) PROVE Still
  BY <1>17
    DEF AnnounceComplete, Still, Began, Goto, IInv, TypeOK, OfferType,
      callVars, CallType, CallRecord
<1>18. ASSUME NEW o \in Calls, FailRead(o) PROVE Still
  BY <1>18 DEF FailRead, Still, Began, Goto, IInv, TypeOK, OfferType, callVars
<1>19. ASSUME NEW o \in Calls, RtpIn(o) PROVE Still
  BY <1>19
    DEF RtpIn, Still, Began, callVars, offerVars, Heard, IInv, TypeOK,
      CallType, CallRecord
<1>20. ASSUME NEW o \in Calls, PeerCloses(o) PROVE Still
  BY <1>20 DEF PeerCloses, Still, Began, callVars, offerVars
<1>21. ASSUME NEW o \in Calls, PeerFails(o) PROVE Still
  BY <1>21 DEF PeerFails, Still, Began, callVars, offerVars
<1>22. ASSUME NEW o \in Calls, RemoteBye(o) PROVE Still
  BY <1>22 DEF RemoteBye, Still, Began, callVars, offerVars
<1>23. ASSUME NEW o \in Calls, NEW kind \in {"failed", "closed"}, PeerEvent(<<o, kind>>) PROVE Still
  BY <1>23 DEF PeerEvent, Still, Began, callVars, offerVars
<1>24. ASSUME NEW c \in Clients, NEW o \in Calls, SendBye(c, o) PROVE Still
  BY <1>24 DEF SendBye, Still, Began, callVars, offerVars
<1>25. ASSUME HandleAudio PROVE Still
  BY <1>25 DEF HandleAudio, Still, Began, callVars, offerVars
<1>26. ASSUME TraceForgets PROVE Still
  BY <1>26 DEF TraceForgets, Still, Began, callVars, offerVars
<1>27. ASSUME NEW c \in Clients, KeepTick(c) PROVE Still
  BY <1>27 DEF KeepTick, Still, Began, callVars, offerVars
<1>28. ASSUME NEW c \in Clients, KeepSucceeds(c) PROVE Still
  BY <1>28 DEF KeepSucceeds, Still, Began, callVars, offerVars
<1>29. ASSUME NEW c \in Clients, KeepFails(c) PROVE Still
  BY <1>29 DEF KeepFails, Still, Began, callVars, offerVars
<1>30. ASSUME RegisterCloseOld PROVE Still
  BY <1>30 DEF RegisterCloseOld, Still, Began, callVars, offerVars
<1>31. ASSUME RegisterCreate PROVE Still
  BY <1>31 DEF RegisterCreate, Still, Began, callVars, offerVars
<1>32. ASSUME RegisterFails PROVE Still
  BY <1>32 DEF RegisterFails, Still, Began, callVars, offerVars
<1>33. ASSUME RegisterSucceeds PROVE Still
  BY <1>33 DEF RegisterSucceeds, Still, Began, callVars, offerVars
<1>34. ASSUME RegisterCallback PROVE Still
  BY <1>34 DEF RegisterCallback, Still, Began, callVars, offerVars
<1>35. ASSUME LogoutEnd PROVE Still
  BY <1>35 DEF LogoutEnd, Still, Began, callVars, offerVars
<1>36. ASSUME ShutdownEnd PROVE Still
  BY <1>36 DEF ShutdownEnd, Still, Began, callVars, offerVars
<1>37. ASSUME NEW o \in Calls, OfferUnregistered(o) PROVE Clears
  BY <1>37
    DEF OfferUnregistered, Clears, Began, Goto, IInv, TypeOK, OfferType,
      offerVars
<1>38. ASSUME NEW o \in Calls, OfferNoAudio(o) PROVE Clears
  BY <1>38
    DEF OfferNoAudio, Clears, Began, Goto, IInv, TypeOK, OfferType, offerVars
<1>39. ASSUME NEW c \in Clients, RegisterBegin(c) PROVE Clears
  BY <1>39
    DEF RegisterBegin, Clears, Began, Goto, IInv, TypeOK, OfferType, offerVars
<1>40. ASSUME LogoutBegin PROVE Clears
  BY <1>40
    DEF LogoutBegin, Clears, Began, Goto, IInv, TypeOK, OfferType, offerVars
<1>41. ASSUME ShutdownBegin PROVE Clears
  BY <1>41
    DEF ShutdownBegin, Clears, Began, Goto, IInv, TypeOK, OfferType, offerVars
<1>42. ASSUME Hangup PROVE Clears
  BY <1>42
    DEF Hangup, Clears, Began, Goto, IInv, TypeOK, OfferType, offerVars,
      EndCall
<1>43. ASSUME NEW o \in Calls, NEW kind \in {"failed", "closed"}, PeerEventEnds(<<o, kind>>) PROVE Clears
  BY <1>43
    DEF PeerEventEnds, Clears, Began, Goto, IInv, TypeOK, OfferType, offerVars,
      EndCall
<1>44. ASSUME NEW o \in Calls, RemoteHangup(o) PROVE Clears
  BY <1>44
    DEF RemoteHangup, Clears, Began, Goto, IInv, TypeOK, OfferType, offerVars,
      EndCall
<1>45. ASSUME NEW o \in Calls, AnnounceEnd(o) PROVE Still \/ Clears
  <2>1. \A q \in Calls : Began(q)' <=> Began(q)
    BY <1>45 DEF AnnounceEnd, Began, Goto, IInv, TypeOK, OfferType
  <2>2. CASE Mine(o)
    BY <1>45, <2>1, <2>2 DEF AnnounceEnd, Clears, EndCall
  <2>3. CASE ~Mine(o)
    BY <1>45, <2>1, <2>3 DEF AnnounceEnd, Still, callVars
  <2>4. QED
    BY <2>2, <2>3
<1>46. ASSUME NEW o \in Calls, FailCall(o), ~Mine(o) PROVE Still
  BY <1>46 DEF FailCall, Still, Began, Goto, IInv, TypeOK, OfferType, callVars
<1>47. CASE UNCHANGED vars
  BY <1>47 DEF vars, Still, Began, callVars, offerVars
<1>48. QED
  BY <1>1, <1>2, <1>3, <1>4, <1>5, <1>6, <1>7, <1>8, <1>9, <1>10, <1>11, <1>12,
      <1>13, <1>14, <1>15, <1>16, <1>17, <1>18, <1>19, <1>20, <1>21, <1>22,
      <1>23, <1>24, <1>25, <1>26, <1>27, <1>28, <1>29, <1>30, <1>31, <1>32,
      <1>33, <1>34, <1>35, <1>36, <1>37, <1>38, <1>39, <1>40, <1>41, <1>42,
      <1>43, <1>44, <1>45, <1>46, <1>47
  DEF Next, Offer, Proceed, InviteEnds, Far, Pion, Registration,
      RegistrationProceeds

(* The attempts that are over, once the current one is, too. *)
LEMMA RetiredBegan ==
  ASSUME IInv PROVE Abs!Retired = {o \in Calls : Began(o)}
<1>1. call.callSeq \in Calls \cup {Nil}
  BY DEF IInv, TypeOK, CallType, CallRecord, CallOrNil
<1>2. call.callSeq # Nil => Began(call.callSeq)
  BY DEF IInv, ControlInv, SeqInv
<1>3. ASSUME NEW o PROVE o \in Abs!Retired <=> o \in Calls /\ Began(o)
  <2>1. CASE o = call.callSeq
    BY <1>1, <1>2, <2>1, GatewayAssumption DEF Abs!Retired, Over
  <2>2. CASE o # call.callSeq
    BY <2>2 DEF Abs!Retired, Over
  <2>3. QED
    BY <2>1, <2>2
<1>4. QED
  BY <1>3

(* Every step of the gateway is a step of the abstract life cycle, or none.*)
LEMMA LifecycleStep ==
  ASSUME IInv, [Next]_vars PROVE [Abs!Next]_(Abs!vars)
<1>1. CASE Still
  BY <1>1 DEF Still, Over, Abs!vars
<1>2. CASE Clears
  <2>1. call'.callState = "idle" /\ call'.callSeq = Nil
    BY <1>2 DEF Clears, ClearCall, Cleared
  <2>2. Over' = {o \in Calls : Began(o)}
    BY <1>2, <2>1, GatewayAssumption DEF Clears, Over
  <2>3. QED
    BY <2>1, <2>2, RetiredBegan DEF Abs!Next, Abs!End
<1>3. ASSUME NEW o \in Calls, OfferAccept(o) PROVE Abs!Next
  <2>1. call'.callState = "connecting" /\ call'.callSeq = o
    BY <1>3 DEF OfferAccept, Accepted, Cleared
  <2>2. pc[o] = "new" /\ pc'[o] = "peer" /\ \A q \in Calls \ {o} : pc'[q] = pc[q]
    BY <1>3 DEF OfferAccept, Goto, IInv, TypeOK, OfferType
  <2>3. call.callState \in {"idle", "failed"}
    BY <1>3 DEF OfferAccept, Active, IInv, TypeOK, CallType, CallRecord
  <2>4. Over' = {q \in Calls : Began(q)}
    BY <2>1, <2>2 DEF Over, Began
  <2>5. o \notin Abs!Retired
    BY <2>2, RetiredBegan DEF Began
  <2>6. QED
    BY <2>1, <2>3, <2>4, <2>5, RetiredBegan DEF Abs!Next, Abs!Accept
<1>4. ASSUME NEW o \in Calls, Connect(o) PROVE Abs!Next
  <2>1. /\ call.callSeq = o /\ call.callState = "connecting"
        /\ call'.callSeq = o /\ call'.callState = "connected"
    BY <1>4 DEF Connect, Connected, Current, Mine, IInv, TypeOK, CallType, CallRecord
  <2>2. \A q \in Calls : Began(q)' <=> Began(q)
    BY <1>4 DEF Connect, Goto, Began, IInv, TypeOK, OfferType
  <2>3. QED
    BY <2>1, <2>2 DEF Over, Abs!Next, Abs!Connect
<1>5. ASSUME NEW o \in Calls, FailCall(o), Mine(o) PROVE Abs!Next
  <2>1. /\ call'.callSeq = call.callSeq /\ call'.callState = "failed"
    BY <1>5 DEF FailCall, Failed, IInv, TypeOK, CallType, CallRecord
  <2>2. call.callState \in {"connecting", "connected"}
    BY <1>5 DEF FailCall, Mine, IInv, ControlInv, StageInv, Active
  <2>3. \A q \in Calls : Began(q)' <=> Began(q)
    BY <1>5 DEF FailCall, Goto, Began, IInv, TypeOK, OfferType
  <2>4. QED
    BY <2>1, <2>2, <2>3 DEF Over, Abs!Next, Abs!Fail
<1>6. QED
  BY <1>1, <1>2, <1>3, <1>4, <1>5, LifecycleSteps

(* The gateway implements the abstract life cycle: one call at a time, and *)
(* no stale goroutine, callback or packet brings an ended attempt back.    *)
THEOREM ImplementsLifecycle == Spec => AbsSpec
<1>1. ASSUME Init PROVE Abs!Init
  <2>1. call.callState = "idle" /\ call.callSeq = Nil
    BY <1>1 DEF Init, Cleared
  <2>2. \A o \in Calls : ~Began(o)
    BY <1>1 DEF Init, Began
  <2>3. Over = {}
    BY <2>2 DEF Over
  <2>4. QED
    BY <2>1, <2>3 DEF Abs!Init
<1>2. IInv /\ [Next]_vars => [Abs!Next]_(Abs!vars)
  BY LifecycleStep
<1>3. QED
  BY <1>1, <1>2, InvariantHolds, PTL DEF Spec, AbsSpec, Abs!Spec
=============================================================================
