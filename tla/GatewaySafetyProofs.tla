------------------------ MODULE GatewaySafetyProofs ------------------------
(***************************************************************************)
(* Theorems about what Gateway.tla keeps of a call - what an idle gateway  *)
(* remembers, who owns a browser leg, whose Call-ID, media address and     *)
(* audio the current call has, and that a call that was connected is not   *)
(* dropped without telling the far end - and about its one SIP socket.     *)
(* Each rests on IInv of GatewayProofs and on an invariant of its own.     *)
(***************************************************************************)
EXTENDS GatewayProofs

-----------------------------------------------------------------------------
(***************************************************************************)
(* The invariants.                                                         *)
(***************************************************************************)

(* IdleIsClean, field by field. *)
IdleFields ==
  call.callState = "idle" =>
    /\ call.peer = Nil /\ call.sipTarget = Nil
    /\ call.dialog = Nil /\ call.callID = Nil
    /\ call.audioMode = "" /\ call.rtpReady = "nil"

(* An active call has the channel its announcement waits on. *)
ReadyInv == ReadyOnce /\ (Active => call.rtpReady # "nil")

(* Before the current attempt publishes its browser leg, and after the     *)
(* call, there is none: nothing is overwritten that has to be closed.      *)
PeerInv ==
  /\ PublishedPeerOwned
  /\ ~Active => call.peer = Nil
  /\ \A o \in Calls : call.callSeq = o /\ pc[o] \in Setup => call.peer = Nil

(* An attempt has no SIP leg until its INVITE is sent, and has one as soon *)
(* as anything refers to it.                                               *)
Unsent == {"new", "refused", "peer", "negotiate", "dial", "invite"}

Referred(o) ==
  \/ pc[o] = "answered" \/ rbye[o] > 0
  \/ call.dialog = o \/ shutdown.dialog = o
  \/ \E c \in ClientOrNil : <<c, o>> \in byes

LegKnown ==
  \A o \in Calls : /\ pc[o] \in Unsent => leg[o] = "none"
                   /\ Referred(o) => leg[o] # "none"

CallIDInv == LegKnown /\ CallIDIsOwn

(* The audio of the current attempt is there from the moment it is         *)
(* accepted, and what playAnnouncement captures is that.                   *)
AudioInv ==
  /\ call.callSeq # Nil => codec = call.callSeq
  /\ Active /\ call.audioMode = "file" => audioPCM # 0
  /\ \A o \in Calls : call.callSeq = o =>
       /\ pc[o] \in Playing => call.audioMode = "file"
       /\ pc[o] \in {"waiting", "playing"} => take[o] = <<o, audioPCM>>

(* A callback runs only for a far end that has sent a BYE, and the leg of  *)
(* a far end that has is down, and stays so.                               *)
HungUpInv ==
  \A o \in Calls : /\ hangups[o] > 0 => rbye[o] > 0
                   /\ rbye[o] > 0 => leg[o] = "down"

-----------------------------------------------------------------------------
(***************************************************************************)
(* What a step may do to the call.                                         *)
(***************************************************************************)

(* The steps of an attempt that write fields of the call. *)
WritesCall(o) ==
  \/ OfferAccept(o) \/ PeerCreate(o) \/ Publish(o) \/ DialInvite(o)
  \/ InviteRejected(o) \/ InviteAnswered(o) \/ Connect(o)
  \/ AnnounceBegin(o) \/ AnnouncePlay(o) \/ AnnounceComplete(o)
  \/ FailCall(o) \/ RtpIn(o)

(* The others leave all of it alone or clear all of it. *)
LEMMA CallSteps ==
  ASSUME [Next]_vars
  PROVE  call' = call \/ ClearCall \/ \E o \in Calls : WritesCall(o)
<1>1. ASSUME NEW o \in Calls,
             \/ OfferBusy(o) \/ SetupFails(o) \/ PublishCancelled(o)
             \/ DialBegin(o) \/ InviteResend(o) \/ InviteError(o)
             \/ LateAnswer(o) \/ AnnounceAbort(o) \/ AnnounceFails(o)
             \/ FailRead(o) \/ PeerCloses(o) \/ PeerFails(o) \/ RemoteBye(o)
             \/ \E c \in Clients : SendBye(c, o)
      PROVE  call' = call
  BY <1>1
    DEF OfferBusy, SetupFails, PublishCancelled, DialBegin, InviteResend,
        InviteError, LateAnswer, AnnounceAbort, AnnounceFails, FailRead,
        PeerCloses, PeerFails, RemoteBye, SendBye, callVars
<1>2. ASSUME \/ HandleAudio \/ TraceForgets \/ RegistrationProceeds \/ ShutdownEnd
             \/ \E c \in Clients : KeepTick(c) \/ KeepSucceeds(c) \/ KeepFails(c)
             \/ \E o \in Calls, kind \in {"failed", "closed"} : PeerEvent(<<o, kind>>)
             \/ UNCHANGED vars
      PROVE  call' = call
  BY <1>2
    DEF HandleAudio, TraceForgets, RegistrationProceeds, RegisterCloseOld,
        RegisterCreate, RegisterFails, RegisterSucceeds, RegisterCallback,
        LogoutEnd, ShutdownEnd, KeepTick, KeepSucceeds, KeepFails, PeerEvent,
        callVars, vars
<1>3. ASSUME \/ Hangup \/ LogoutBegin \/ ShutdownBegin
             \/ \E c \in Clients : RegisterBegin(c)
             \/ \E o \in Calls : \/ OfferUnregistered(o) \/ OfferNoAudio(o)
                                 \/ RemoteHangup(o)
             \/ \E o \in Calls, kind \in {"failed", "closed"} : PeerEventEnds(<<o, kind>>)
      PROVE  ClearCall
  BY <1>3
    DEF Hangup, LogoutBegin, ShutdownBegin, RegisterBegin, OfferUnregistered,
        OfferNoAudio, RemoteHangup, PeerEventEnds, EndCall
<1>4. ASSUME NEW o \in Calls, AnnounceEnd(o) PROVE call' = call \/ ClearCall
  BY <1>4 DEF AnnounceEnd, EndCall, callVars
<1>5. QED
  BY <1>1, <1>2, <1>3, <1>4
    DEF Next, Offer, Proceed, InviteEnds, Far, Pion, Registration, WritesCall

LEMMA CallInit ==
  ASSUME Init
  PROVE  /\ call.callState = "idle" /\ call.callSeq = Nil /\ call.peer = Nil
         /\ call.sipTarget = Nil /\ call.dialog = Nil /\ call.callID = Nil
         /\ call.audioMode = "" /\ call.rtpReady = "nil"
         /\ call.rtpReadyOnce = FALSE
BY DEF Init, Cleared

(* The types the proofs below keep needing. *)
LEMMA CallFields ==
  ASSUME IInv
  PROVE  call \in CallRecord /\ pc \in [Calls -> Stages]
BY DEF IInv, TypeOK, CallType, OfferType

-----------------------------------------------------------------------------
(***************************************************************************)
(* An idle gateway is clean.                                               *)
(***************************************************************************)
LEMMA IdleStep == ASSUME IInv, IdleFields, [Next]_vars PROVE IdleFields'
<1>1. CASE call' = call
  BY <1>1 DEF IdleFields
<1>2. CASE ClearCall
  BY <1>2 DEF ClearCall, Cleared, IdleFields
<1>3. ASSUME NEW o \in Calls, OfferAccept(o) \/ Publish(o) \/ Connect(o)
      PROVE  IdleFields'
  BY <1>3, CallFields
    DEF OfferAccept, Accepted, Cleared, Publish, Connect, Connected, Current,
        CallRecord, IdleFields
<1>4. ASSUME NEW o \in Calls, PeerCreate(o) \/ AnnounceBegin(o) \/ AnnouncePlay(o)
      PROVE  IdleFields'
  BY <1>4, CallFields DEF PeerCreate, AnnounceBegin, AnnouncePlay, CallRecord, IdleFields
<1>5. ASSUME NEW o \in Calls,
             \/ DialInvite(o) \/ InviteRejected(o) \/ InviteAnswered(o)
             \/ AnnounceComplete(o)
      PROVE  IdleFields'
  <2>1. call.callSeq = o => call.callState # "idle"
    BY GatewayAssumption DEF IInv, ControlInv, SeqInv
  <2>2. QED
    BY <1>5, <2>1, CallFields
      DEF DialInvite, InviteRejected, InviteAnswered, AnnounceComplete,
          RecordCallID, Current, Mine, CallRecord, IdleFields
<1>6. ASSUME NEW o \in Calls, FailCall(o) PROVE IdleFields'
  BY <1>6, CallFields DEF FailCall, Failed, CallRecord, IdleFields
<1>7. ASSUME NEW o \in Calls, RtpIn(o) PROVE IdleFields'
  BY <1>7, CallFields DEF RtpIn, Heard, TargetAfter, Active, CallRecord, IdleFields
<1>8. QED
  BY <1>1, <1>2, <1>3, <1>4, <1>5, <1>6, <1>7, CallSteps DEF WritesCall

(* An idle gateway keeps nothing of the calls before it that the next one  *)
(* could mistake for its own: no handler or late goroutine leaves or puts  *)
(* back a dialog, a Call-ID, an address or a channel.                      *)
THEOREM IdleGatewayIsClean == Spec => []IdleIsClean
<1>1. ASSUME Init PROVE IdleFields
  BY <1>1, CallInit DEF IdleFields
<1>2. IInv /\ IdleFields /\ [Next]_vars => IdleFields'
  BY IdleStep
<1>3. IInv /\ IdleFields => IdleIsClean
  <2>1. SUFFICES ASSUME IInv, IdleFields, call.callState = "idle"
                 PROVE  [call EXCEPT !.webTrack = Nil, !.announcementState = "",
                                     !.rtpReadyOnce = FALSE] = Cleared
    BY DEF IdleIsClean
  <2>2. call.callSeq = Nil /\ call.callCancel = Nil
    BY <2>1 DEF IInv, ControlInv, SeqInv
  <2> DEFINE kept == [call EXCEPT !.webTrack = Nil, !.announcementState = "",
                                  !.rtpReadyOnce = FALSE]
  <2>3. /\ kept.callState = "idle" /\ kept.callSeq = Nil
        /\ kept.callCancel = Nil /\ kept.peer = Nil /\ kept.webTrack = Nil
        /\ kept.sipTarget = Nil /\ kept.dialog = Nil /\ kept.callID = Nil
        /\ kept.audioMode = "" /\ kept.rtpReady = "nil"
        /\ kept.rtpReadyOnce = FALSE /\ kept.announcementState = ""
    BY <2>1, <2>2, CallFields DEF IdleFields, CallRecord
  <2>4. kept \in CallRecord
    <3> DEFINE blank == [call EXCEPT !.webTrack = Nil, !.announcementState = ""]
    <3>1. blank \in CallRecord
      BY <2>1, CallFields DEF CallRecord, CallOrNil
    <3>2. kept = [blank EXCEPT !.rtpReadyOnce = FALSE]
      BY <2>1, CallFields DEF CallRecord
    <3> HIDE DEF blank
    <3>3. [blank EXCEPT !.rtpReadyOnce = FALSE] \in CallRecord
      BY <3>1 DEF CallRecord
    <3>4. QED
      BY <3>2, <3>3
  <2> HIDE DEF kept
  <2>5. kept = Cleared
    BY <2>3, <2>4 DEF Cleared, CallRecord
  <2>6. QED
    BY <2>5 DEF kept
<1>4. QED
  BY <1>1, <1>2, <1>3, InvariantHolds, PTL DEF Spec

-----------------------------------------------------------------------------
(***************************************************************************)
(* The channel that announces the first packet.                            *)
(***************************************************************************)
LEMMA ReadyStep == ASSUME IInv, ReadyInv, [Next]_vars PROVE ReadyInv'
<1>1. CASE call' = call
  BY <1>1 DEF ReadyInv, ReadyOnce, Active
<1>2. CASE ClearCall
  BY <1>2 DEF ClearCall, Cleared, ReadyInv, ReadyOnce, Active
<1>3. ASSUME NEW o \in Calls, OfferAccept(o) PROVE ReadyInv'
  BY <1>3 DEF OfferAccept, Accepted, Cleared, ReadyInv, ReadyOnce, Active
<1>4. ASSUME NEW o \in Calls, RtpIn(o) PROVE ReadyInv'
  BY <1>4, CallFields DEF RtpIn, Heard, CallRecord, ReadyInv, ReadyOnce, Active
<1>5. ASSUME NEW o \in Calls,
             \/ PeerCreate(o) \/ Publish(o) \/ DialInvite(o) \/ InviteRejected(o)
             \/ InviteAnswered(o) \/ Connect(o) \/ AnnounceBegin(o)
             \/ AnnouncePlay(o) \/ AnnounceComplete(o) \/ FailCall(o)
      PROVE  ReadyInv'
  <2>1. /\ call'.rtpReady = call.rtpReady
        /\ call'.rtpReadyOnce = call.rtpReadyOnce
        /\ Active' => Active
    BY <1>5, CallFields
      DEF PeerCreate, Publish, DialInvite, InviteRejected, InviteAnswered,
          RecordCallID, Connect, Connected, Current, AnnounceBegin,
          AnnouncePlay, AnnounceComplete, FailCall, Failed, CallRecord, Active
  <2>2. QED
    BY <2>1 DEF ReadyInv, ReadyOnce
<1>6. QED
  BY <1>1, <1>2, <1>3, <1>4, <1>5, CallSteps DEF WritesCall

(* The channel an announcement waits on is closed by the first packet of   *)
(* its own call and never twice, whichever far end the packets come from.  *)
THEOREM ReadyClosedOnce == Spec => []ReadyOnce
<1>1. ASSUME Init PROVE ReadyInv
  BY <1>1, CallInit DEF ReadyInv, ReadyOnce, Active
<1>2. IInv /\ ReadyInv /\ [Next]_vars => ReadyInv'
  BY ReadyStep
<1>3. ReadyInv => ReadyOnce
  BY DEF ReadyInv
<1>4. QED
  BY <1>1, <1>2, <1>3, InvariantHolds, PTL DEF Spec

-----------------------------------------------------------------------------
(***************************************************************************)
(* Symmetric RTP.                                                          *)
(***************************************************************************)

(* Within a call, no step puts the address of an SDP in the place of the   *)
(* address media was heard from.                                           *)
TargetKept ==
  \A o, q \in Calls :
    call.callSeq = o /\ call'.callSeq = o /\ call.sipTarget = <<o, "rtp">>
      => call'.sipTarget # <<q, "sdp">>

LEMMA TargetStep == ASSUME IInv, [Next]_vars PROVE TargetKept
<1> SUFFICES ASSUME NEW o \in Calls, NEW q \in Calls, call.callSeq = o,
                    call'.callSeq = o, call.sipTarget = <<o, "rtp">>
             PROVE  call'.sipTarget # <<q, "sdp">>
  BY DEF TargetKept
<1>1. <<o, "rtp">> # Nil /\ <<q, "sdp">> # Nil
  BY GatewayAssumption DEF Addresses
<1>0. ASSUME NEW p PROVE <<p, "rtp">> # <<q, "sdp">>
  OBVIOUS
<1>2. CASE call' = call
  BY <1>0, <1>2
<1>3. CASE ClearCall
  BY <1>3, GatewayAssumption DEF ClearCall, Cleared
<1>4. ASSUME NEW p \in Calls, OfferAccept(p) PROVE call'.sipTarget # <<q, "sdp">>
  BY <1>1, <1>4 DEF OfferAccept, Accepted, Cleared
<1>5. ASSUME NEW p \in Calls, RtpIn(p) PROVE call'.sipTarget # <<q, "sdp">>
  <2>1. call'.sipTarget \in {<<p, "rtp">>, call.sipTarget}
    BY <1>5, CallFields DEF RtpIn, Heard, TargetAfter, CallRecord
  <2>2. QED
    BY <2>1, <1>0
<1>6. ASSUME NEW p \in Calls, Connect(p) PROVE call'.sipTarget # <<q, "sdp">>
  <2>1. call'.sipTarget = call.sipTarget
    BY <1>1, <1>6, CallFields DEF Connect, Connected, TargetOnAnswer, CallRecord
  <2>2. QED
    BY <2>1, <1>0
<1>7. ASSUME NEW p \in Calls,
             \/ PeerCreate(p) \/ Publish(p) \/ DialInvite(p) \/ InviteRejected(p)
             \/ InviteAnswered(p) \/ AnnounceBegin(p) \/ AnnouncePlay(p)
             \/ AnnounceComplete(p) \/ FailCall(p)
      PROVE  call'.sipTarget # <<q, "sdp">>
  <2>1. call'.sipTarget = call.sipTarget
    BY <1>7, CallFields
      DEF PeerCreate, Publish, DialInvite, InviteRejected, InviteAnswered,
          RecordCallID, AnnounceBegin, AnnouncePlay, AnnounceComplete,
          FailCall, Failed, CallRecord
  <2>2. QED
    BY <2>1, <1>0
<1>8. QED
  BY <1>2, <1>3, <1>4, <1>5, <1>6, <1>7, CallSteps DEF WritesCall

(* Once media has been heard in a call, the address of the SDP, whenever   *)
(* the answer is read, does not replace the address it came from.          *)
THEOREM HeardTargetStays == Spec => SymmetricWins
<1>1. IInv /\ [Next]_vars => [TargetKept]_vars
  BY TargetStep
<1>2. Spec => [][TargetKept]_vars
  BY <1>1, InvariantHolds, PTL DEF Spec
<1>3. QED
  BY <1>2 DEF SymmetricWins, TargetKept

-----------------------------------------------------------------------------
(***************************************************************************)
(* Who owns a browser leg.                                                 *)
(***************************************************************************)

(* What most steps do: the call keeps its browser leg, no leg becomes      *)
(* public, and no attempt begins to set one up.                            *)
PeerKept ==
  /\ call'.peer = call.peer /\ call'.callSeq = call.callSeq /\ (Active' <=> Active)
  /\ \A o \in Calls : /\ peerState'[o] \in {"open", "lost"} =>
                           peerState[o] \in {"open", "lost"}
                      /\ pc'[o] \in Setup => pc[o] \in Setup

(* What the steps that clear the call do: there was no call, or its        *)
(* browser leg is closed.                                                  *)
PeerDropped ==
  /\ ClearCall
  /\ \/ ~Active /\ peerState' = peerState
     \/ peerState' = PeerClosing(peerState, call.peer)

LEMMA PeerSteps ==
  ASSUME IInv, [Next]_vars
  PROVE  \/ PeerKept \/ PeerDropped
         \/ \E o \in Calls : OfferAccept(o) \/ Publish(o) \/ (FailCall(o) /\ Mine(o))
<1>t. /\ call \in CallRecord /\ pc \in [Calls -> Stages]
      /\ peerState \in [Calls -> {"none", "made", "open", "lost", "closing", "closed"}]
  BY DEF IInv, TypeOK, CallType, OfferType, PeerType
<1>1. ASSUME NEW o \in Calls,
             \/ OfferBusy(o) \/ SetupFails(o) \/ DialBegin(o) \/ InviteError(o)
             \/ LateAnswer(o) \/ AnnounceAbort(o) \/ AnnounceFails(o)
             \/ FailRead(o)
      PROVE  PeerKept
  BY <1>1, <1>t
    DEF OfferBusy, SetupFails, DialBegin, InviteError, LateAnswer,
        AnnounceAbort, AnnounceFails, FailRead, Goto, PeerKept, Setup, Active,
        callVars, peerVars
<1>2. ASSUME NEW o \in Calls,
             \/ DialInvite(o) \/ InviteRejected(o) \/ InviteAnswered(o)
             \/ Connect(o) \/ AnnounceBegin(o) \/ AnnouncePlay(o)
             \/ AnnounceComplete(o)
      PROVE  PeerKept
  <2>1. /\ call'.peer = call.peer /\ call'.callSeq = call.callSeq
        /\ Active' <=> Active
    BY <1>2, <1>t
      DEF DialInvite, InviteRejected, InviteAnswered, RecordCallID, Connect,
          Connected, Current, AnnounceBegin, AnnouncePlay, AnnounceComplete,
          CallRecord, Active
  <2>2. peerState' = peerState /\ \A q \in Calls : pc'[q] \in Setup => pc[q] \in Setup
    BY <1>2, <1>t
      DEF DialInvite, InviteRejected, InviteAnswered, Connect, AnnounceBegin,
          AnnouncePlay, AnnounceComplete, Goto, Setup, peerVars
  <2>3. QED
    BY <2>1, <2>2 DEF PeerKept
<1>3. ASSUME NEW o \in Calls, PeerCreate(o) \/ PublishCancelled(o) PROVE PeerKept
  <2>1. /\ call'.peer = call.peer /\ call'.callSeq = call.callSeq
        /\ Active' <=> Active
    BY <1>3, <1>t DEF PeerCreate, PublishCancelled, CallRecord, Active, callVars
  <2>2. \A q \in Calls : /\ peerState'[q] \in {"open", "lost"} =>
                              peerState[q] \in {"open", "lost"}
                         /\ pc'[q] \in Setup => pc[q] \in Setup
    BY <1>3, <1>t DEF PeerCreate, PublishCancelled, PeerClosing, Goto, Setup
  <2>3. QED
    BY <2>1, <2>2 DEF PeerKept
<1>4. ASSUME NEW o \in Calls, PeerCloses(o) \/ PeerFails(o) PROVE PeerKept
  <2>1. UNCHANGED <<call, pc>>
    BY <1>4 DEF PeerCloses, PeerFails, callVars, offerVars
  <2>2. \A q \in Calls : peerState'[q] \in {"open", "lost"} =>
                            peerState[q] \in {"open", "lost"}
    BY <1>4, <1>t DEF PeerCloses, PeerFails
  <2>3. QED
    BY <2>1, <2>2 DEF PeerKept, Active
<1>5. ASSUME NEW o \in Calls, RtpIn(o) PROVE PeerKept
  <2>1. /\ call'.peer = call.peer /\ call'.callSeq = call.callSeq
        /\ Active' <=> Active
    BY <1>5, <1>t DEF RtpIn, Heard, CallRecord, Active
  <2>2. UNCHANGED <<peerState, pc>>
    BY <1>5 DEF RtpIn, offerVars, peerVars
  <2>3. QED
    BY <2>1, <2>2 DEF PeerKept
<1>6. ASSUME \/ HandleAudio \/ TraceForgets \/ RegistrationProceeds \/ ShutdownEnd
             \/ \E c \in Clients : KeepTick(c) \/ KeepSucceeds(c) \/ KeepFails(c)
             \/ \E o \in Calls, kind \in {"failed", "closed"} : PeerEvent(<<o, kind>>)
             \/ UNCHANGED vars
      PROVE  PeerKept
  <2>1. UNCHANGED <<call, peerState, pc>>
    BY <1>6
      DEF HandleAudio, TraceForgets, RegistrationProceeds, RegisterCloseOld,
          RegisterCreate, RegisterFails, RegisterSucceeds, RegisterCallback,
          LogoutEnd, ShutdownEnd, KeepTick, KeepSucceeds, KeepFails, PeerEvent,
          callVars, offerVars, peerVars, vars
  <2>2. QED
    BY <2>1 DEF PeerKept, Active
<1>6a. ASSUME NEW o \in Calls,
              \/ InviteResend(o) \/ RemoteBye(o)
              \/ \E c \in Clients : SendBye(c, o)
       PROVE  PeerKept
  <2>1. UNCHANGED <<call, peerState, pc>>
    BY <1>6a DEF InviteResend, RemoteBye, SendBye, callVars, offerVars, peerVars
  <2>2. QED
    BY <2>1 DEF PeerKept, Active
<1>7. ASSUME \/ Hangup \/ LogoutBegin \/ ShutdownBegin
             \/ \E c \in Clients : RegisterBegin(c)
             \/ \E o \in Calls, kind \in {"failed", "closed"} : PeerEventEnds(<<o, kind>>)
      PROVE  PeerDropped
  BY <1>7
    DEF Hangup, LogoutBegin, ShutdownBegin, RegisterBegin, PeerEventEnds,
        EndCall, PeerDropped, peerVars
<1>7a. ASSUME NEW o \in Calls,
              OfferUnregistered(o) \/ OfferNoAudio(o) \/ RemoteHangup(o)
       PROVE  PeerDropped
  BY <1>7a DEF OfferUnregistered, OfferNoAudio, RemoteHangup, EndCall, PeerDropped, peerVars
<1>8. ASSUME NEW o \in Calls, AnnounceEnd(o) PROVE PeerKept \/ PeerDropped
  <2>1. CASE Mine(o)
    BY <1>8, <2>1 DEF AnnounceEnd, EndCall, PeerDropped
  <2>2. CASE ~Mine(o)
    BY <1>8, <1>t, <2>2
      DEF AnnounceEnd, Goto, PeerKept, Setup, Active, callVars
  <2>3. QED
    BY <2>1, <2>2
<1>9. ASSUME NEW o \in Calls, FailCall(o), ~Mine(o) PROVE PeerKept
  BY <1>9, <1>t DEF FailCall, Goto, PeerKept, Setup, Active
<1>10. ASSUME NEW o \in Calls,
              \/ Offer(o) \/ Proceed(o) \/ InviteEnds(o) \/ Far(o)
              \/ PeerCloses(o) \/ RemoteHangup(o)
              \/ \E c \in Clients : SendBye(c, o)
       PROVE  \/ PeerKept \/ PeerDropped
              \/ OfferAccept(o) \/ Publish(o) \/ (FailCall(o) /\ Mine(o))
  <2>1. CASE Offer(o)
    BY <1>1, <1>7a, <2>1 DEF Offer
  <2>2. CASE Proceed(o)
    BY <1>1, <1>2, <1>3, <1>8, <1>9, <2>2 DEF Proceed
  <2>3. CASE InviteEnds(o)
    BY <1>1, <1>2, <2>3 DEF InviteEnds
  <2>4. CASE Far(o)
    BY <1>4, <1>5, <1>6a, <2>4 DEF Far
  <2>5. QED
    BY <1>4, <1>6a, <1>7a, <1>10, <2>1, <2>2, <2>3, <2>4
<1>11. QED
  BY <1>6, <1>7, <1>10 DEF Next, Pion, Registration

LEMMA PeerStep == ASSUME IInv, PeerInv, [Next]_vars PROVE PeerInv'
<1>t. /\ call \in CallRecord /\ pc \in [Calls -> Stages]
      /\ peerState \in [Calls -> {"none", "made", "open", "lost", "closing", "closed"}]
  BY DEF IInv, TypeOK, CallType, OfferType, PeerType
<1>1. CASE PeerKept
  BY <1>1 DEF PeerKept, PeerInv, PublishedPeerOwned
<1>2. CASE PeerDropped
  <2>1. call'.peer = Nil /\ call'.callSeq = Nil
    BY <1>2 DEF PeerDropped, ClearCall, Cleared
  <2>2. \A o \in Calls : peerState'[o] \notin {"open", "lost"}
    BY <1>2, <1>t, GatewayAssumption
      DEF PeerDropped, PeerClosing, PeerInv, PublishedPeerOwned
  <2>3. QED
    BY <2>1, <2>2 DEF PeerInv, PublishedPeerOwned
<1>3. ASSUME NEW o \in Calls, OfferAccept(o) PROVE PeerInv'
  <2>1. call'.peer = Nil /\ peerState' = peerState /\ ~Active
    BY <1>3 DEF OfferAccept, Accepted, Cleared, peerVars
  <2>2. QED
    BY <2>1, GatewayAssumption DEF PeerInv, PublishedPeerOwned
<1>4. ASSUME NEW o \in Calls, Publish(o) PROVE PeerInv'
  <2>1. /\ call'.peer = o /\ call'.callSeq = o /\ call.callSeq = o
        /\ call'.callState = "connecting" /\ pc[o] = "negotiate" /\ pc'[o] = "dial"
    BY <1>4, <1>t DEF Publish, Current, Mine, Goto, CallRecord
  <2>2. \A q \in Calls \ {o} : peerState'[q] \notin {"open", "lost"}
    BY <1>4, <1>t, <2>1, GatewayAssumption
      DEF Publish, Setup, PeerInv, PublishedPeerOwned
  <2>3. QED
    BY <2>1, <2>2 DEF PeerInv, PublishedPeerOwned, Active, Setup
<1>5. ASSUME NEW o \in Calls, FailCall(o), Mine(o) PROVE PeerInv'
  <2>1. call'.peer = Nil /\ peerState' = PeerClosing(peerState, call.peer)
    BY <1>5, <1>t DEF FailCall, Failed, CallRecord
  <2>2. \A q \in Calls : peerState'[q] \notin {"open", "lost"}
    BY <1>t, <2>1, GatewayAssumption DEF PeerClosing, PeerInv, PublishedPeerOwned
  <2>3. QED
    BY <2>1, <2>2 DEF PeerInv, PublishedPeerOwned
<1>6. QED
  BY <1>1, <1>2, <1>3, <1>4, <1>5, PeerSteps

(* A browser leg that was published is g.peer or being closed: no handler, *)
(* goroutine or callback clears or replaces g.peer without closing what it *)
(* held.                                                                   *)
THEOREM PublishedPeersOwned == Spec => []PublishedPeerOwned
<1>1. ASSUME Init PROVE PeerInv
  <2>1. \A o \in Calls : peerState[o] = "none" /\ pc[o] = "new"
    BY <1>1 DEF Init
  <2>2. QED
    BY <1>1, <2>1, CallInit DEF PeerInv, PublishedPeerOwned, Setup
<1>2. IInv /\ PeerInv /\ [Next]_vars => PeerInv'
  BY PeerStep
<1>3. PeerInv => PublishedPeerOwned
  BY DEF PeerInv
<1>4. QED
  BY <1>1, <1>2, <1>3, InvariantHolds, PTL DEF Spec

-----------------------------------------------------------------------------
(***************************************************************************)
(* The Call-ID of a call.                                                  *)
(***************************************************************************)

(* What most steps do: no leg changes, no attempt returns to before its    *)
(* INVITE and nothing refers to a leg that nothing referred to.            *)
LegKept ==
  /\ leg' = leg
  /\ \A q \in Calls : /\ pc'[q] \in Unsent => pc[q] \in Unsent
                      /\ Referred(q)' => Referred(q)

(* The steps in which something is learnt of a leg. *)
LearnsLeg(o) ==
  \/ DialInvite(o) \/ InviteRejected(o) \/ InviteAnswered(o) \/ RemoteBye(o)
  \/ \E c \in Clients : SendBye(c, o)

LEMMA LegSteps ==
  ASSUME IInv, [Next]_vars
  PROVE  LegKept \/ ShutdownEnd \/ \E o \in Calls : LearnsLeg(o)
<1>t. call \in CallRecord /\ pc \in [Calls -> Stages]
  BY CallFields
<1>c. ASSUME ClearCall PROVE call'.dialog = Nil
  BY <1>c DEF ClearCall, Cleared
<1>1. ASSUME NEW o \in Calls,
             \/ OfferBusy(o) \/ SetupFails(o) \/ PublishCancelled(o)
             \/ DialBegin(o) \/ InviteError(o) \/ AnnounceAbort(o)
             \/ AnnounceFails(o) \/ FailRead(o) \/ PeerCreate(o) \/ Publish(o)
             \/ AnnounceBegin(o) \/ AnnouncePlay(o) \/ AnnounceComplete(o)
             \/ FailCall(o)
      PROVE  LegKept
  <2>1. call'.dialog = call.dialog
    BY <1>1, <1>t
      DEF OfferBusy, SetupFails, PublishCancelled, DialBegin, InviteError,
          AnnounceAbort, AnnounceFails, FailRead, PeerCreate, Publish,
          AnnounceBegin, AnnouncePlay, AnnounceComplete, FailCall, Failed,
          CallRecord, callVars
  <2>2. \A q \in Calls : /\ pc'[q] \in Unsent => pc[q] \in Unsent
                         /\ pc'[q] = "answered" => pc[q] = "answered"
    BY <1>1, <1>t
      DEF OfferBusy, SetupFails, PublishCancelled, DialBegin, InviteError,
          AnnounceAbort, AnnounceFails, FailRead, PeerCreate, Publish,
          AnnounceBegin, AnnouncePlay, AnnounceComplete, FailCall, Goto, Unsent
  <2>3. UNCHANGED <<leg, rbye, byes, shutdown>>
    BY <1>1
      DEF OfferBusy, SetupFails, PublishCancelled, DialBegin, InviteError,
          AnnounceAbort, AnnounceFails, FailRead, PeerCreate, Publish,
          AnnounceBegin, AnnouncePlay, AnnounceComplete, FailCall, legVars,
          otherVars
  <2>4. QED
    BY <2>1, <2>2, <2>3 DEF LegKept, Referred
<1>2. ASSUME NEW o \in Calls,
             OfferUnregistered(o) \/ OfferNoAudio(o) \/ OfferAccept(o)
      PROVE  LegKept
  <2>1. call'.dialog = Nil
    <3>1. CASE OfferAccept(o)
      BY <3>1 DEF OfferAccept, Accepted, Cleared
    <3>2. CASE OfferUnregistered(o) \/ OfferNoAudio(o)
      BY <1>c, <3>2 DEF OfferUnregistered, OfferNoAudio
    <3>3. QED
      BY <1>2, <3>1, <3>2
  <2>2. \A q \in Calls : /\ pc'[q] \in Unsent => pc[q] \in Unsent
                         /\ pc'[q] = "answered" => pc[q] = "answered"
    BY <1>2, <1>t DEF OfferUnregistered, OfferNoAudio, OfferAccept, Goto, Unsent
  <2>3. UNCHANGED <<leg, rbye, byes, shutdown>>
    BY <1>2 DEF OfferUnregistered, OfferNoAudio, OfferAccept, legVars, otherVars
  <2>4. QED
    BY <2>1, <2>2, <2>3, GatewayAssumption DEF LegKept, Referred
<1>3. ASSUME NEW o \in Calls, Connect(o) PROVE LegKept
  <2>1. call'.dialog = o /\ pc[o] = "answered"
    BY <1>3, <1>t DEF Connect, Connected, CallRecord
  <2>2. \A q \in Calls : /\ pc'[q] \in Unsent => pc[q] \in Unsent
                         /\ pc'[q] = "answered" => pc[q] = "answered"
    BY <1>3, <1>t DEF Connect, Goto, Unsent
  <2>3. UNCHANGED <<leg, rbye, byes, shutdown>>
    BY <1>3 DEF Connect, legVars, otherVars
  <2>4. QED
    BY <2>1, <2>2, <2>3 DEF LegKept, Referred
<1>4. ASSUME NEW o \in Calls, LateAnswer(o) PROVE LegKept
  <2>1. /\ pc[o] = "answered" /\ byes' = byes \cup {<<client[o], o>>}
        /\ UNCHANGED <<call, leg, rbye, shutdown>>
    BY <1>4 DEF LateAnswer, callVars, otherVars
  <2>2. \A q \in Calls : /\ pc'[q] \in Unsent => pc[q] \in Unsent
                         /\ pc'[q] = "answered" => pc[q] = "answered"
    BY <1>4, <1>t DEF LateAnswer, Goto, Unsent
  <2>3. QED
    BY <2>1, <2>2 DEF LegKept, Referred
<1>5. ASSUME UNCHANGED <<pc, leg, rbye, byes, shutdown>>, call'.dialog = call.dialog
      PROVE  LegKept
  BY <1>5 DEF LegKept, Referred
<1>6. ASSUME NEW o \in Calls,
             InviteResend(o) \/ RtpIn(o) \/ PeerCloses(o) \/ PeerFails(o)
      PROVE  LegKept
  <2>1. call'.dialog = call.dialog
    BY <1>6, <1>t DEF InviteResend, RtpIn, Heard, PeerCloses, PeerFails, CallRecord, callVars
  <2>2. UNCHANGED <<pc, leg, rbye, byes, shutdown>>
    BY <1>6
      DEF InviteResend, RtpIn, PeerCloses, PeerFails, offerVars, legVars, otherVars
  <2>3. QED
    BY <1>5, <2>1, <2>2
<1>7. ASSUME \/ HandleAudio \/ TraceForgets \/ RegistrationProceeds
             \/ \E c \in Clients : KeepTick(c) \/ KeepSucceeds(c) \/ KeepFails(c)
             \/ \E o \in Calls, kind \in {"failed", "closed"} : PeerEvent(<<o, kind>>)
             \/ UNCHANGED vars
      PROVE  LegKept
  <2>1. UNCHANGED <<call, pc, leg, rbye, byes, shutdown>>
    BY <1>7
      DEF HandleAudio, TraceForgets, RegistrationProceeds, RegisterCloseOld,
          RegisterCreate, RegisterFails, RegisterSucceeds, RegisterCallback,
          LogoutEnd, KeepTick, KeepSucceeds, KeepFails, PeerEvent, callVars,
          offerVars, legVars, otherVars, vars
  <2>2. QED
    BY <1>5, <2>1
<1>8. ASSUME \/ LogoutBegin \/ ShutdownBegin \/ \E c \in Clients : RegisterBegin(c)
      PROVE  LegKept
  <2>1. /\ UNCHANGED <<pc, leg, rbye, byes>> /\ call'.dialog = Nil
        /\ shutdown'.dialog \in {shutdown.dialog, call.dialog}
    BY <1>8, <1>c
      DEF LogoutBegin, ShutdownBegin, RegisterBegin, offerVars, legVars, otherVars
  <2>2. QED
    BY <2>1, GatewayAssumption DEF LegKept, Referred
<1>9. ASSUME NEW b \in BOOLEAN, EndCall(b), UNCHANGED <<leg, rbye, shutdown>>,
             \A q \in Calls : /\ pc'[q] \in Unsent => pc[q] \in Unsent
                              /\ pc'[q] = "answered" => pc[q] = "answered"
      PROVE  LegKept
  <2>1. call'.dialog = Nil
    BY <1>9, <1>c DEF EndCall
  <2>2. \A e \in byes' : e \in byes \/ e = <<sip, call.dialog>>
    BY <1>9 DEF EndCall, ByeFor
  <2>3. ASSUME NEW q \in Calls, NEW c \in ClientOrNil, <<c, q>> \in byes'
        PROVE  Referred(q)
    BY <2>2, <2>3 DEF Referred
  <2>4. QED
    BY <1>9, <2>1, <2>3, GatewayAssumption DEF LegKept, Referred
<1>10. ASSUME \/ Hangup
              \/ \E o \in Calls, kind \in {"failed", "closed"} : PeerEventEnds(<<o, kind>>)
       PROVE  LegKept
  <2>1. EndCall(TRUE) /\ UNCHANGED <<pc, leg, rbye, shutdown>>
    BY <1>10 DEF Hangup, PeerEventEnds, offerVars, otherVars
  <2>2. QED
    BY <1>9, <2>1
<1>11. ASSUME NEW o \in Calls, RemoteHangup(o) PROVE LegKept
  <2>1. EndCall(FALSE) /\ UNCHANGED <<pc, leg, rbye, shutdown>>
    BY <1>11 DEF RemoteHangup, offerVars, otherVars
  <2>2. QED
    BY <1>9, <2>1
<1>12. ASSUME NEW o \in Calls, AnnounceEnd(o) PROVE LegKept
  <2>1. \A q \in Calls : /\ pc'[q] \in Unsent => pc[q] \in Unsent
                         /\ pc'[q] = "answered" => pc[q] = "answered"
    BY <1>12, <1>t DEF AnnounceEnd, Goto, Unsent
  <2>2. UNCHANGED <<leg, rbye, shutdown>>
    BY <1>12 DEF AnnounceEnd, otherVars
  <2>3. CASE Mine(o)
    <3>1. EndCall(TRUE)
      BY <1>12, <2>3 DEF AnnounceEnd
    <3>2. QED
      BY <1>9, <2>1, <2>2, <3>1
  <2>4. CASE ~Mine(o)
    <3>1. UNCHANGED <<call, byes>>
      BY <1>12, <2>4 DEF AnnounceEnd, callVars
    <3>2. QED
      BY <2>1, <2>2, <3>1 DEF LegKept, Referred
  <2>5. QED
    BY <2>3, <2>4
<1>13. ASSUME NEW o \in Calls,
              \/ Offer(o) \/ Proceed(o) \/ InviteEnds(o) \/ Far(o)
              \/ PeerCloses(o) \/ RemoteHangup(o)
              \/ \E c \in Clients : SendBye(c, o)
       PROVE  LegKept \/ LearnsLeg(o)
  BY <1>1, <1>2, <1>3, <1>4, <1>6, <1>11, <1>12, <1>13
    DEF Offer, Proceed, InviteEnds, Far, LearnsLeg
<1>14. QED
  BY <1>7, <1>8, <1>10, <1>13 DEF Next, Pion, Registration

LEMMA LegKnownStep == ASSUME IInv, LegKnown, [Next]_vars PROVE LegKnown'
<1>t. /\ pc \in [Calls -> Stages] /\ rbye \in [Calls -> 0..MaxByes]
      /\ leg \in [Calls -> {"none", "invited", "up", "down"}]
      /\ shutdown.dialog \in CallOrNil
  BY DEF IInv, TypeOK, OfferType, LegType, OtherType
<1>1. CASE LegKept
  BY <1>1 DEF LegKept, LegKnown
<1>2. ASSUME NEW o \in Calls, DialInvite(o) PROVE LegKnown'
  <2>1. call'.dialog = call.dialog /\ UNCHANGED <<rbye, byes, shutdown>>
    BY <1>2, CallFields DEF DialInvite, CallRecord
  <2>2. \A q \in Calls : /\ pc'[q] = "answered" => pc[q] = "answered"
                         /\ pc'[q] \in Unsent => q # o /\ pc[q] \in Unsent
                         /\ q # o => leg'[q] = leg[q]
                         /\ leg[q] # "none" => leg'[q] # "none"
    BY <1>2, <1>t DEF DialInvite, Goto, Unsent
  <2>3. QED
    BY <2>1, <2>2 DEF LegKnown, Referred
<1>3. ASSUME NEW o \in Calls, InviteRejected(o) \/ InviteAnswered(o) PROVE LegKnown'
  <2>1. call'.dialog = call.dialog /\ UNCHANGED <<rbye, byes, shutdown>>
    BY <1>3, CallFields
      DEF InviteRejected, InviteAnswered, RecordCallID, CallRecord, otherVars
  <2>2. \A q \in Calls : /\ pc'[q] = "answered" => q = o \/ pc[q] = "answered"
                         /\ pc'[q] \in Unsent => q # o /\ pc[q] \in Unsent
                         /\ q # o => leg'[q] = leg[q]
    BY <1>3, <1>t DEF InviteRejected, InviteAnswered, Goto, Unsent
  <2>3. leg'[o] # "none"
    BY <1>3, <1>t DEF InviteRejected, InviteAnswered
  <2>4. QED
    BY <2>1, <2>2, <2>3 DEF LegKnown, Referred
<1>4. ASSUME NEW o \in Calls, Referred(o) \/ leg[o] \in {"invited", "up"},
             leg' \in {leg, [leg EXCEPT ![o] = "down"]},
             \A q \in Calls : /\ Referred(q)' => Referred(q) \/ q = o
                              /\ pc'[q] = pc[q]
      PROVE  LegKnown'
  <2>1. leg[o] # "none" /\ pc[o] \notin Unsent
    BY <1>4 DEF LegKnown
  <2>2. \A q \in Calls : leg'[q] = leg[q] \/ (q = o /\ leg'[q] = "down")
    BY <1>4, <1>t
  <2>3. QED
    BY <1>4, <2>1, <2>2 DEF LegKnown
<1>5. ASSUME NEW o \in Calls, RemoteBye(o) PROVE LegKnown'
  <2>1. /\ Referred(o) \/ leg[o] \in {"invited", "up"}
        /\ leg' \in {leg, [leg EXCEPT ![o] = "down"]}
        /\ UNCHANGED <<call, pc, byes, shutdown>>
        /\ \A q \in Calls : q # o => rbye'[q] = rbye[q]
    BY <1>5, <1>t DEF RemoteBye, Referred, callVars, offerVars, otherVars
  <2>2. QED
    BY <1>4, <2>1 DEF Referred
<1>6. ASSUME NEW o \in Calls, NEW c \in Clients, SendBye(c, o) PROVE LegKnown'
  <2>1. /\ leg' \in {leg, [leg EXCEPT ![o] = "down"]}
        /\ UNCHANGED <<call, pc, rbye, shutdown>>
        /\ byes' \subseteq byes /\ <<c, o>> \in byes
    BY <1>6 DEF SendBye, callVars, offerVars, otherVars
  <2>2. Referred(o)
    BY <2>1 DEF Referred, ClientOrNil
  <2>3. QED
    BY <1>4, <2>1, <2>2 DEF Referred
<1>7. CASE ShutdownEnd
  <2>1. /\ UNCHANGED <<call, pc, rbye, byes>> /\ shutdown'.dialog = Nil
        /\ \/ leg' = leg
           \/ shutdown.dialog # Nil /\ leg' = [leg EXCEPT ![shutdown.dialog] = "down"]
    BY <1>7 DEF ShutdownEnd, callVars, offerVars
  <2>2. \A q \in Calls : Referred(q)' => Referred(q)
    BY <2>1, GatewayAssumption DEF Referred
  <2>3. CASE leg' = leg
    BY <2>1, <2>2, <2>3 DEF LegKnown
  <2>4. CASE shutdown.dialog # Nil /\ leg' = [leg EXCEPT ![shutdown.dialog] = "down"]
    <3>1. shutdown.dialog \in Calls /\ Referred(shutdown.dialog)
      BY <1>t, <2>4 DEF CallOrNil, Referred
    <3>2. QED
      BY <1>4, <2>1, <2>2, <2>4, <3>1
  <2>5. QED
    BY <2>1, <2>3, <2>4
<1>8. QED
  BY <1>1, <1>2, <1>3, <1>5, <1>6, <1>7, LegSteps DEF LearnsLeg

LEMMA CallIDStep == ASSUME IInv, CallIDInv, [Next]_vars PROVE CallIDIsOwn'
<1>t. /\ call \in CallRecord /\ pc \in [Calls -> Stages]
      /\ leg \in [Calls -> {"none", "invited", "up", "down"}]
  BY DEF IInv, TypeOK, CallType, OfferType, LegType
<1>k. \A q \in Calls : Referred(q) => leg[q] # "none"
  BY DEF CallIDInv, LegKnown
<1>1. ASSUME NEW o \in Calls, DialInvite(o) PROVE CallIDIsOwn'
  <2>1. call.callSeq = o => Current(o, "connecting")
    BY <1>1 DEF DialInvite, IInv, ControlInv, StageInv, Current, Mine, Dialing, Invited
  <2>2. /\ call'.callSeq = call.callSeq
        /\ call.callSeq = o => call'.callID = o
        /\ call.callSeq # o => call' = call
        /\ \A q \in Calls \ {o} : leg'[q] = leg[q]
    BY <1>1, <1>t, <2>1 DEF DialInvite, Current, Mine, CallRecord
  <2>3. QED
    BY <2>2 DEF CallIDInv, CallIDIsOwn, Active
<1>2. ASSUME NEW o \in Calls, InviteRejected(o) \/ InviteAnswered(o)
      PROVE  CallIDIsOwn'
  <2>1. /\ call'.callSeq = call.callSeq
        /\ call.callSeq = o => call'.callID = o
        /\ call.callSeq # o => call' = call
        /\ \A q \in Calls \ {o} : leg'[q] = leg[q]
    BY <1>2, <1>t DEF InviteRejected, InviteAnswered, RecordCallID, Mine, CallRecord
  <2>2. QED
    BY <2>1 DEF CallIDInv, CallIDIsOwn, Active
<1>3. ASSUME NEW o \in Calls, leg[o] # "none", call' = call,
             leg' \in {leg, [leg EXCEPT ![o] = "down"]}
      PROVE  CallIDIsOwn'
  <2>1. \A q \in Calls : leg'[q] # "none" => leg[q] # "none"
    BY <1>3, <1>t
  <2>2. QED
    BY <1>3, <2>1 DEF CallIDInv, CallIDIsOwn, Active
<1>4. ASSUME NEW o \in Calls, RemoteBye(o) PROVE CallIDIsOwn'
  <2>1. /\ call' = call /\ leg' = [leg EXCEPT ![o] = "down"]
        /\ Referred(o) \/ leg[o] \in {"invited", "up"}
    BY <1>4 DEF RemoteBye, Referred, callVars
  <2>2. QED
    BY <1>3, <1>k, <2>1
<1>5. ASSUME NEW o \in Calls, NEW c \in Clients, SendBye(c, o) PROVE CallIDIsOwn'
  <2>1. /\ call' = call /\ leg' \in {leg, [leg EXCEPT ![o] = "down"]}
        /\ Referred(o)
    BY <1>5 DEF SendBye, Referred, ClientOrNil, callVars
  <2>2. QED
    BY <1>3, <1>k, <2>1
<1>6. CASE ShutdownEnd
  <2>1. CASE leg' = leg
    BY <1>6, <2>1 DEF ShutdownEnd, CallIDInv, CallIDIsOwn, Active, callVars
  <2>2. CASE leg' # leg
    <3>1. shutdown.dialog # Nil /\ leg' = [leg EXCEPT ![shutdown.dialog] = "down"]
      BY <1>6, <2>2 DEF ShutdownEnd
    <3>2. shutdown.dialog \in Calls
      BY <3>1 DEF IInv, TypeOK, OtherType, CallOrNil
    <3>3. call' = call /\ Referred(shutdown.dialog)
      BY <1>6, <3>1 DEF ShutdownEnd, Referred, callVars
    <3>4. QED
      BY <1>3, <1>k, <3>1, <3>2, <3>3
  <2>3. QED
    BY <2>1, <2>2
<1>7. CASE LegKept
  <2>1. ASSUME call'.callSeq = call.callSeq, call'.callID = call.callID,
               Active' => Active
        PROVE  CallIDIsOwn'
    BY <1>7, <2>1 DEF LegKept, CallIDInv, CallIDIsOwn
  <2>2. CASE call' = call
    BY <2>1, <2>2 DEF Active
  <2>3. CASE ClearCall
    <3>1. call'.callSeq = Nil
      BY <2>3 DEF ClearCall, Cleared
    <3>2. QED
      BY <3>1, GatewayAssumption DEF CallIDIsOwn
  <2>4. ASSUME NEW o \in Calls, OfferAccept(o) PROVE CallIDIsOwn'
    <3>1. call'.callSeq = o /\ call'.callID = Nil
      BY <2>4 DEF OfferAccept, Accepted, Cleared
    <3>2. leg[o] = "none"
      BY <2>4 DEF OfferAccept, CallIDInv, LegKnown, Unsent
    <3>3. QED
      BY <1>7, <3>1, <3>2 DEF LegKept, CallIDIsOwn
  <2>5. ASSUME NEW o \in Calls, Connect(o) PROVE CallIDIsOwn'
    <3>1. call'.callSeq = o /\ call'.callID = o
      BY <1>t, <2>5 DEF Connect, Connected, Current, Mine, CallRecord
    <3>2. QED
      BY <3>1 DEF CallIDIsOwn
  <2>6. ASSUME NEW o \in Calls, FailCall(o) PROVE CallIDIsOwn'
    <3>1. CASE ~Mine(o)
      BY <2>2, <2>6, <3>1 DEF FailCall
    <3>2. CASE Mine(o)
      <4>1. /\ call'.callSeq = o /\ call.callSeq = o /\ ~Active'
            /\ call.callID # Nil => call'.callID = call.callID
        BY <1>t, <2>6, <3>2 DEF FailCall, Failed, Mine, Active, CallRecord
      <4>2. leg[o] # "none" => call.callID = o
        BY <4>1 DEF CallIDInv, CallIDIsOwn
      <4>3. QED
        BY <1>7, <4>1, <4>2, GatewayAssumption DEF LegKept, CallIDIsOwn
    <3>3. QED
      BY <3>1, <3>2
  <2>7. ASSUME NEW o \in Calls,
               \/ PeerCreate(o) \/ Publish(o) \/ AnnounceBegin(o)
               \/ AnnouncePlay(o) \/ AnnounceComplete(o) \/ RtpIn(o)
        PROVE  CallIDIsOwn'
    <3>1. /\ call'.callSeq = call.callSeq /\ call'.callID = call.callID
          /\ call'.callState = call.callState
      BY <1>t, <2>7
        DEF PeerCreate, Publish, AnnounceBegin, AnnouncePlay, AnnounceComplete,
            RtpIn, Heard, CallRecord
    <3>2. QED
      BY <2>1, <3>1 DEF Active
  <2>8. QED
    BY <1>1, <1>2, <2>2, <2>3, <2>4, <2>5, <2>6, <2>7, CallSteps DEF WritesCall
<1>8. QED
  BY <1>1, <1>2, <1>4, <1>5, <1>6, <1>7, LegSteps DEF LearnsLeg

LEMMA CallIDInvariant == Spec => []CallIDInv
<1>1. ASSUME Init PROVE CallIDInv
  <2>1. /\ \A o \in Calls : leg[o] = "none" /\ pc[o] = "new" /\ rbye[o] = 0
        /\ byes = {} /\ shutdown.dialog = Nil
    BY <1>1 DEF Init
  <2>2. call.dialog = Nil /\ call.callSeq = Nil
    BY <1>1, CallInit
  <2>3. \A o \in Calls : ~Referred(o)
    BY <2>1, <2>2, GatewayAssumption DEF Referred
  <2>4. QED
    BY <2>1, <2>2, <2>3, GatewayAssumption DEF CallIDInv, LegKnown, CallIDIsOwn
<1>2. IInv /\ CallIDInv /\ [Next]_vars => CallIDInv'
  BY LegKnownStep, CallIDStep DEF CallIDInv
<1>3. QED
  BY <1>1, <1>2, InvariantHolds, PTL DEF Spec

(* The Call-ID shown with a call that has sent its INVITE is its own: no   *)
(* stale dial goroutine, and no other call's INVITE in the trace, puts     *)
(* another in its place.                                                   *)
THEOREM CallIDsAreOwn == Spec => []CallIDIsOwn
<1>1. CallIDInv => CallIDIsOwn
  BY DEF CallIDInv
<1>2. QED
  BY <1>1, CallIDInvariant, PTL

-----------------------------------------------------------------------------
(***************************************************************************)
(* The audio of an announcement.                                           *)
(***************************************************************************)

(* What most steps do: the audio stays, no attempt but a current one       *)
(* begins to play, and what it has taken stays.                            *)
AudioKept ==
  /\ call'.callSeq = call.callSeq /\ call'.audioMode = call.audioMode
  /\ Active' => Active
  /\ codec' = codec /\ audioPCM' = audioPCM
  /\ \A q \in Calls :
       /\ pc'[q] \in Playing => pc[q] \in Playing
       /\ pc'[q] \in {"waiting", "playing"} =>
            pc[q] \in {"waiting", "playing"} /\ take'[q] = take[q]

(* The other steps: the call is cleared, accepted or connected, the        *)
(* announcement begins, or new audio is uploaded.                          *)
LEMMA AudioSteps ==
  ASSUME IInv, [Next]_vars
  PROVE  \/ AudioKept \/ ClearCall \/ HandleAudio
         \/ \E o \in Calls : OfferAccept(o) \/ Connect(o) \/ AnnounceBegin(o)
<1>t. /\ call \in CallRecord /\ pc \in [Calls -> Stages]
      /\ take \in [Calls -> CallOrNil \X (0..MaxUploads)]
  BY DEF IInv, TypeOK, CallType, OfferType
<1>1. ASSUME NEW o \in Calls,
             \/ OfferBusy(o) \/ SetupFails(o) \/ PublishCancelled(o)
             \/ DialBegin(o) \/ InviteError(o) \/ LateAnswer(o)
             \/ AnnounceAbort(o) \/ AnnounceFails(o) \/ FailRead(o)
             \/ AnnounceEnd(o) /\ ~Mine(o)
      PROVE  AudioKept
  <2>1. UNCHANGED <<call, codec, audioPCM>>
    BY <1>1
      DEF OfferBusy, SetupFails, PublishCancelled, DialBegin, InviteError,
          LateAnswer, AnnounceAbort, AnnounceFails, FailRead, AnnounceEnd,
          callVars, otherVars
  <2>2. \A q \in Calls :
          /\ pc'[q] \in Playing => pc[q] \in Playing
          /\ pc'[q] \in {"waiting", "playing"} =>
               pc[q] \in {"waiting", "playing"} /\ take'[q] = take[q]
    BY <1>1, <1>t
      DEF OfferBusy, SetupFails, PublishCancelled, DialBegin, InviteError,
          LateAnswer, AnnounceAbort, AnnounceFails, FailRead, AnnounceEnd,
          Goto, Playing, locals
  <2>3. QED
    BY <2>1, <2>2 DEF AudioKept, Active
<1>2. ASSUME NEW o \in Calls,
             \/ PeerCreate(o) \/ Publish(o) \/ DialInvite(o) \/ InviteRejected(o)
             \/ InviteAnswered(o) \/ AnnouncePlay(o) \/ AnnounceComplete(o)
             \/ FailCall(o)
      PROVE  AudioKept
  <2>1. /\ call'.callSeq = call.callSeq /\ call'.audioMode = call.audioMode
        /\ Active' => Active
    BY <1>2, <1>t
      DEF PeerCreate, Publish, DialInvite, InviteRejected, InviteAnswered,
          RecordCallID, AnnouncePlay, AnnounceComplete, FailCall, Failed,
          CallRecord, Active
  <2>2. \A q \in Calls :
          /\ pc'[q] \in Playing => pc[q] \in Playing
          /\ pc'[q] \in {"waiting", "playing"} =>
               pc[q] \in {"waiting", "playing"} /\ take'[q] = take[q]
    BY <1>2, <1>t
      DEF PeerCreate, Publish, DialInvite, InviteRejected, InviteAnswered,
          AnnouncePlay, AnnounceComplete, FailCall, Goto, Playing, locals
  <2>3. UNCHANGED <<codec, audioPCM>>
    BY <1>2
      DEF PeerCreate, Publish, DialInvite, InviteRejected, InviteAnswered,
          AnnouncePlay, AnnounceComplete, FailCall, otherVars
  <2>4. QED
    BY <2>1, <2>2, <2>3 DEF AudioKept
<1>3. ASSUME NEW o \in Calls,
             \/ InviteResend(o) \/ RtpIn(o) \/ PeerCloses(o) \/ PeerFails(o)
             \/ RemoteBye(o) \/ \E c \in Clients : SendBye(c, o)
      PROVE  AudioKept
  <2>1. /\ call'.callSeq = call.callSeq /\ call'.audioMode = call.audioMode
        /\ Active' => Active
    BY <1>3, <1>t
      DEF InviteResend, RtpIn, Heard, PeerCloses, PeerFails, RemoteBye,
          SendBye, CallRecord, Active, callVars
  <2>2. UNCHANGED <<codec, audioPCM, pc, take>>
    BY <1>3
      DEF InviteResend, RtpIn, PeerCloses, PeerFails, RemoteBye, SendBye,
          offerVars, otherVars
  <2>3. QED
    BY <2>1, <2>2 DEF AudioKept
<1>4. ASSUME \/ TraceForgets \/ RegistrationProceeds \/ ShutdownEnd
             \/ \E c \in Clients : KeepTick(c) \/ KeepSucceeds(c) \/ KeepFails(c)
             \/ \E o \in Calls, kind \in {"failed", "closed"} : PeerEvent(<<o, kind>>)
             \/ UNCHANGED vars
      PROVE  AudioKept
  <2>1. UNCHANGED <<call, codec, audioPCM, pc, take>>
    BY <1>4
      DEF TraceForgets, RegistrationProceeds, RegisterCloseOld, RegisterCreate,
          RegisterFails, RegisterSucceeds, RegisterCallback, LogoutEnd,
          ShutdownEnd, KeepTick, KeepSucceeds, KeepFails, PeerEvent, callVars,
          offerVars, otherVars, vars
  <2>2. QED
    BY <2>1 DEF AudioKept, Active
<1>5. ASSUME \/ Hangup \/ LogoutBegin \/ ShutdownBegin
             \/ \E c \in Clients : RegisterBegin(c)
             \/ \E o \in Calls, kind \in {"failed", "closed"} : PeerEventEnds(<<o, kind>>)
      PROVE  ClearCall
  BY <1>5 DEF Hangup, LogoutBegin, ShutdownBegin, RegisterBegin, PeerEventEnds, EndCall
<1>6. ASSUME NEW o \in Calls,
             \/ OfferUnregistered(o) \/ OfferNoAudio(o) \/ RemoteHangup(o)
             \/ AnnounceEnd(o) /\ Mine(o)
      PROVE  ClearCall
  BY <1>6 DEF OfferUnregistered, OfferNoAudio, RemoteHangup, AnnounceEnd, EndCall
<1>7. ASSUME NEW o \in Calls,
             \/ Offer(o) \/ Proceed(o) \/ InviteEnds(o) \/ Far(o)
             \/ PeerCloses(o) \/ RemoteHangup(o)
             \/ \E c \in Clients : SendBye(c, o)
      PROVE  \/ AudioKept \/ ClearCall
             \/ OfferAccept(o) \/ Connect(o) \/ AnnounceBegin(o)
  BY <1>1, <1>2, <1>3, <1>6, <1>7 DEF Offer, Proceed, InviteEnds, Far
<1>8. QED
  BY <1>4, <1>5, <1>7 DEF Next, Pion, Registration

LEMMA AudioStep == ASSUME IInv, AudioInv, [Next]_vars PROVE AudioInv'
<1>t. /\ call \in CallRecord /\ pc \in [Calls -> Stages]
      /\ take \in [Calls -> CallOrNil \X (0..MaxUploads)]
  BY DEF IInv, TypeOK, CallType, OfferType
<1>1. CASE AudioKept
  BY <1>1, <1>t DEF AudioKept, AudioInv, CallRecord, CallOrNil
<1>2. CASE ClearCall
  <2>1. call'.callSeq = Nil /\ ~Active'
    BY <1>2, ClearEnds DEF ClearCall, Cleared
  <2>2. QED
    BY <2>1, GatewayAssumption DEF AudioInv
<1>3. CASE HandleAudio
  <2>1. ~Active /\ UNCHANGED <<call, codec, pc, take>>
    BY <1>3 DEF HandleAudio, callVars, offerVars
  <2>2. \A o \in Calls : call.callSeq = o => pc[o] \notin Playing
    BY <2>1 DEF IInv, ControlInv, StageInv, Active
  <2>3. QED
    BY <2>1, <2>2 DEF AudioInv, Active, Playing
<1>4. ASSUME NEW o \in Calls, OfferAccept(o) PROVE AudioInv'
  <2>1. PICK mode \in Modes : /\ mode = "file" => audioPCM # 0
                              /\ call' = Accepted(o, mode)
    BY <1>4 DEF OfferAccept
  <2>2. call'.callSeq = o /\ call'.audioMode = mode
    BY <2>1 DEF Accepted, Cleared
  <2>3. codec' = o /\ audioPCM' = audioPCM /\ pc'[o] = "peer"
    BY <1>4, <1>t DEF OfferAccept, Goto
  <2>4. QED
    BY <2>1, <2>2, <2>3 DEF AudioInv, Playing
<1>5. ASSUME NEW o \in Calls, Connect(o) PROVE AudioInv'
  <2>1. /\ call.callSeq = o /\ call.callState = "connecting"
        /\ call'.callSeq = o /\ call'.audioMode = call.audioMode
        /\ UNCHANGED <<codec, audioPCM, take>>
        /\ pc'[o] = IF call.audioMode = "file" THEN "announce" ELSE "done"
    BY <1>5, <1>t
      DEF Connect, Connected, Current, Mine, Goto, CallRecord, locals, otherVars
  <2>2. QED
    BY <2>1 DEF AudioInv, Active, Playing
<1>6. ASSUME NEW o \in Calls, AnnounceBegin(o) PROVE AudioInv'
  <2>1. /\ call'.callSeq = call.callSeq /\ call'.audioMode = call.audioMode
        /\ Active' <=> Active
        /\ UNCHANGED <<codec, audioPCM>>
    BY <1>6, <1>t DEF AnnounceBegin, CallRecord, Active, otherVars
  <2>2. /\ pc[o] = "announce" /\ pc'[o] = "waiting"
        /\ take'[o] = <<codec, audioPCM>>
        /\ \A q \in Calls \ {o} : pc'[q] = pc[q] /\ take'[q] = take[q]
    BY <1>6, <1>t DEF AnnounceBegin, Goto
  <2>3. call.callSeq = o => codec = o /\ call.audioMode = "file"
    BY <2>2, GatewayAssumption DEF AudioInv, Playing
  <2>4. QED
    BY <2>1, <2>2, <2>3 DEF AudioInv
<1>7. QED
  BY <1>1, <1>2, <1>3, <1>4, <1>5, <1>6, AudioSteps

(* What is played to the far end of the current call is the upload and the *)
(* codec of that call, although playAnnouncement reads both before it      *)
(* looks whether it is still current.                                      *)
THEOREM AnnouncementsOwnData == Spec => []AnnouncementOwnData
<1>1. ASSUME Init PROVE AudioInv
  <2>1. call.callSeq = Nil /\ ~Active
    BY <1>1, CallInit DEF Active
  <2>2. QED
    BY <2>1, GatewayAssumption DEF AudioInv
<1>2. IInv /\ AudioInv /\ [Next]_vars => AudioInv'
  BY AudioStep
<1>3. AudioInv => AnnouncementOwnData
  BY DEF AudioInv, AnnouncementOwnData, Current, Mine, Active, Playing
<1>4. QED
  BY <1>1, <1>2, <1>3, InvariantHolds, PTL DEF Spec

-----------------------------------------------------------------------------
(***************************************************************************)
(* The accounts: the one SIP socket.                                       *)
(***************************************************************************)

(* The client in use, the one being registered and the one Close is about  *)
(* to close are different, and the first two are open.                     *)
SocketInv ==
  /\ sip # Nil => conn[sip] = "open"
  /\ registerMu.step = "logout" => sip = Nil
  /\ registerMu.step = "register" => conn[registerMu.client] = "open"
  /\ shutdown.client # Nil =>
       /\ conn[shutdown.client] # "none"
       /\ sip # shutdown.client
       /\ registerMu.step \in {"close", "create", "register"} =>
            registerMu.client # shutdown.client

(* Until the program is ended, an open socket is the one of the client in  *)
(* use or one that the holder of registerMu is about to close or publish.  *)
OpenOwned ==
  shutdown.stage = "running" =>
    /\ shutdown.client = Nil
    /\ \A c \in Clients : conn[c] = "open" =>
         \/ c = sip
         \/ registerMu.step = "close" /\ c = registerMu.old
         \/ registerMu.step \in {"register", "logout"} /\ c = registerMu.client

AccountsInv == SocketInv /\ OpenOwned

-----------------------------------------------------------------------------
(* The steps that move accounts or sockets. *)
MovesAccount ==
  \/ \E c \in Clients : RegisterBegin(c)
  \/ RegistrationProceeds \/ LogoutBegin \/ ShutdownBegin \/ ShutdownEnd

LEMMA AccountSteps ==
  ASSUME [Next]_vars
  PROVE  MovesAccount \/ UNCHANGED <<sip, registerMu, conn, shutdown>>
<1>1. ASSUME NEW o \in Calls,
             \/ Offer(o) \/ Proceed(o) \/ InviteEnds(o) \/ Far(o)
             \/ PeerCloses(o) \/ RemoteHangup(o)
             \/ \E c \in Clients : SendBye(c, o)
      PROVE  UNCHANGED <<sip, registerMu, conn, shutdown>>
  BY <1>1
    DEF Offer, OfferBusy, OfferUnregistered, OfferNoAudio, OfferAccept, Proceed,
        PeerCreate, SetupFails, Publish, PublishCancelled, DialBegin,
        DialInvite, Connect, LateAnswer, AnnounceBegin, AnnouncePlay,
        AnnounceAbort, AnnounceFails, AnnounceComplete, AnnounceEnd, FailRead,
        FailCall, InviteEnds, InviteError, InviteRejected, InviteAnswered, Far,
        InviteResend, RtpIn, RemoteBye, PeerFails, PeerCloses, RemoteHangup,
        SendBye, regVars, otherVars
<1>2. ASSUME \/ Pion \/ Hangup \/ HandleAudio \/ TraceForgets \/ UNCHANGED vars
             \/ \E c \in Clients : KeepTick(c) \/ KeepSucceeds(c) \/ KeepFails(c)
      PROVE  UNCHANGED <<sip, registerMu, conn, shutdown>>
  BY <1>2
    DEF Pion, PeerEvent, PeerEventEnds, Hangup, HandleAudio, TraceForgets,
        KeepTick, KeepSucceeds, KeepFails, RefreshLost, regVars, otherVars, vars
<1>3. QED
  BY <1>1, <1>2 DEF Next, Registration, MovesAccount

(* What the invariants and the types say, for the cases below. *)
AccountFacts ==
  /\ sip \in ClientOrNil /\ conn \in [Clients -> {"none", "open", "closed"}]
  /\ registerMu \in [step : RegisterSteps, client : ClientOrNil, old : ClientOrNil]
  /\ registerMu.step # "free" => registerMu.client \in Clients
  /\ registerMu.step \in {"close", "create", "register"} => sip = Nil
  /\ shutdown.client \in ClientOrNil
  /\ shutdown.stage \in {"running", "closing", "closed"}

LEMMA AccountFactsHold == ASSUME IInv PROVE AccountFacts
BY DEF IInv, TypeOK, RegType, OtherType, ControlInv, AccountInv, AccountFacts,
       ClientOrNil

LEMMA AccountsStep == ASSUME IInv, AccountsInv, [Next]_vars PROVE AccountsInv'
<1>t. /\ AccountFacts /\ Nil \notin Clients
  BY AccountFactsHold, GatewayAssumption
<1> USE DEF AccountsInv, SocketInv, OpenOwned
<1>1. CASE UNCHANGED <<sip, registerMu, conn, shutdown>>
  BY <1>1
<1>2. ASSUME NEW c \in Clients, RegisterBegin(c) PROVE AccountsInv'
  <2>1. /\ registerMu.step = "free" /\ conn[c] = "none" /\ sip' = Nil
        /\ registerMu' = Holding(c) /\ UNCHANGED <<conn, shutdown>>
    BY <1>2 DEF RegisterBegin, DropAccount, otherVars
  <2>2. /\ registerMu'.step = IF sip = Nil THEN "create" ELSE "close"
        /\ registerMu'.client = c /\ registerMu'.old = sip
    BY <2>1 DEF Holding
  <2>3. QED
    BY <1>t, <2>1, <2>2 DEF AccountFacts
<1>3. CASE RegisterCloseOld
  <2>1. /\ registerMu.step = "close"
        /\ conn' = [conn EXCEPT ![registerMu.old] = "closed"]
        /\ registerMu'.step = "create" /\ registerMu'.client = registerMu.client
        /\ UNCHANGED <<sip, shutdown>>
    BY <1>3, <1>t DEF RegisterCloseOld, AccountFacts, otherVars
  <2>2. QED
    BY <1>t, <2>1 DEF AccountFacts, ClientOrNil
<1>4. CASE RegisterCreate
  <2>1. /\ registerMu.step = "create" /\ registerMu.client \in Clients
        /\ \A c \in Clients : conn[c] # "open"
        /\ conn' = [conn EXCEPT ![registerMu.client] = "open"]
        /\ registerMu'.step = "register" /\ registerMu'.client = registerMu.client
        /\ UNCHANGED <<sip, shutdown>>
    BY <1>4, <1>t DEF RegisterCreate, AccountFacts, otherVars
  <2>2. QED
    BY <1>t, <2>1 DEF AccountFacts, ClientOrNil
<1>5. CASE RegisterFails
  <2>1. /\ registerMu.step \in {"create", "register"}
        /\ registerMu.client \in Clients
        /\ conn' = IF registerMu.step = "register"
                     THEN [conn EXCEPT ![registerMu.client] = "closed"] ELSE conn
        /\ sip' = Nil /\ registerMu'.step = "free" /\ UNCHANGED shutdown
    BY <1>5, <1>t DEF RegisterFails, DropAccount, Free, AccountFacts, otherVars
  <2>2. QED
    BY <1>t, <2>1 DEF AccountFacts, ClientOrNil
<1>6. CASE RegisterSucceeds
  <2>1. /\ registerMu.step = "register" /\ sip' = registerMu.client
        /\ registerMu.client \in Clients
        /\ registerMu'.step = "callback" /\ UNCHANGED <<conn, shutdown>>
    BY <1>6, <1>t DEF RegisterSucceeds, AccountFacts, otherVars
  <2>2. QED
    BY <1>t, <2>1 DEF AccountFacts
<1>7. CASE RegisterCallback
  <2>1. /\ registerMu.step = "callback" /\ registerMu'.step = "free"
        /\ UNCHANGED <<sip, conn, shutdown>>
    BY <1>7 DEF RegisterCallback, Free, otherVars
  <2>2. QED
    BY <2>1
<1>8. CASE LogoutBegin
  <2>1. /\ registerMu.step = "free" /\ sip' = Nil
        /\ registerMu' = IF sip = Nil THEN Free
                         ELSE [step |-> "logout", client |-> sip, old |-> Nil]
        /\ UNCHANGED <<conn, shutdown>>
    BY <1>8 DEF LogoutBegin, DropAccount, otherVars
  <2>2. \/ sip = Nil /\ registerMu'.step = "free"
        \/ sip # Nil /\ registerMu'.step = "logout" /\ registerMu'.client = sip
    BY <2>1 DEF Free
  <2>3. QED
    BY <1>t, <2>1, <2>2 DEF AccountFacts
<1>9. CASE LogoutEnd
  <2>1. /\ registerMu.step = "logout" /\ sip = Nil /\ registerMu.client \in Clients
        /\ conn' = [conn EXCEPT ![registerMu.client] = "closed"]
        /\ registerMu'.step = "free" /\ UNCHANGED <<sip, shutdown>>
    BY <1>9, <1>t DEF LogoutEnd, Free, AccountFacts, otherVars
  <2>2. QED
    BY <1>t, <2>1 DEF AccountFacts, ClientOrNil
<1>10. CASE ShutdownBegin
  <2>1. /\ shutdown'.stage = "closing" /\ shutdown'.client = sip
        /\ shutdown.stage = "running" /\ sip' = Nil /\ UNCHANGED <<registerMu, conn>>
    BY <1>10 DEF ShutdownBegin, DropAccount
  <2>2. QED
    BY <1>t, <2>1 DEF AccountFacts
<1>11. CASE ShutdownEnd
  <2>1. /\ shutdown'.stage = "closed" /\ shutdown'.client = Nil
        /\ UNCHANGED <<sip, registerMu>>
        /\ conn' = IF shutdown.client # Nil
                     THEN [conn EXCEPT ![shutdown.client] = "closed"] ELSE conn
    BY <1>11 DEF ShutdownEnd
  <2>2. QED
    BY <1>t, <2>1 DEF AccountFacts, ClientOrNil
<1>12. QED
  BY <1>1, <1>2, <1>3, <1>4, <1>5, <1>6, <1>7, <1>8, <1>9, <1>10, <1>11,
     AccountSteps DEF MovesAccount, RegistrationProceeds

(* There is one SIP port: the client in use has its socket open, and a new *)
(* one finds the port free unless the program is being ended, in whatever  *)
(* order register, logout, a failed registration and Close run.            *)
THEOREM OneSocketInUse == Spec => []OneSocket
<1>1. ASSUME Init PROVE AccountsInv
  <2>1. /\ sip = Nil /\ registerMu.step = "free" /\ shutdown.client = Nil
        /\ \A c \in Clients : conn[c] = "none"
    BY <1>1 DEF Init, Free
  <2>2. QED
    BY <2>1 DEF AccountsInv, SocketInv, OpenOwned
<1>2. IInv /\ AccountsInv /\ [Next]_vars => AccountsInv'
  BY AccountsStep
<1>3. IInv /\ AccountsInv => OneSocket
  BY AccountFactsHold, GatewayAssumption
    DEF AccountFacts, AccountsInv, SocketInv, OpenOwned, OneSocket
<1>4. QED
  BY <1>1, <1>2, <1>3, InvariantHolds, PTL DEF Spec

-----------------------------------------------------------------------------
(***************************************************************************)
(* How a connected call ends.                                              *)
(***************************************************************************)
LEMMA HungUpStep ==
  ASSUME IInv, LegKnown, HungUpInv, [Next]_vars PROVE HungUpInv'
<1>t. /\ leg \in [Calls -> {"none", "invited", "up", "down"}]
      /\ rbye \in [Calls -> 0..MaxByes] /\ hangups \in [Calls -> Nat]
      /\ shutdown.dialog \in CallOrNil
  BY DEF IInv, TypeOK, LegType, OtherType
<1> USE DEF HungUpInv
<1>1. CASE UNCHANGED <<leg, rbye, hangups>>
  BY <1>1
<1>2. ASSUME NEW o \in Calls, DialInvite(o) PROVE HungUpInv'
  <2>1. rbye[o] = 0
    BY <1>2, <1>t DEF DialInvite, LegKnown, Unsent, Referred
  <2>2. UNCHANGED <<rbye, hangups>> /\ leg' \in {leg, [leg EXCEPT ![o] = "invited"]}
    BY <1>2 DEF DialInvite
  <2>3. QED
    BY <1>t, <2>1, <2>2
<1>3. ASSUME NEW o \in Calls,
             \/ InviteRejected(o) \/ InviteAnswered(o)
             \/ \E c \in Clients : SendBye(c, o)
      PROVE  HungUpInv'
  <2>1. /\ UNCHANGED <<rbye, hangups>>
        /\ \/ leg' \in {leg, [leg EXCEPT ![o] = "down"]}
           \/ rbye[o] = 0 /\ leg' = [leg EXCEPT ![o] = "up"]
    <3>1. rbye[o] > 0 \/ rbye[o] = 0
      BY <1>t
    <3>2. QED
      BY <1>3, <3>1 DEF InviteRejected, InviteAnswered, SendBye
  <2>2. QED
    BY <1>t, <2>1
<1>4. ASSUME NEW o \in Calls, RemoteBye(o) PROVE HungUpInv'
  <2>1. /\ rbye' = [rbye EXCEPT ![o] = @ + 1]
        /\ leg' = [leg EXCEPT ![o] = "down"]
        /\ hangups' \in {hangups, [hangups EXCEPT ![o] = @ + 1]}
    BY <1>4 DEF RemoteBye
  <2>2. QED
    BY <1>t, <2>1
<1>5. ASSUME NEW o \in Calls, RemoteHangup(o) PROVE HungUpInv'
  <2>1. /\ hangups[o] > 0 /\ hangups' = [hangups EXCEPT ![o] = @ - 1]
        /\ UNCHANGED <<leg, rbye>>
    BY <1>5 DEF RemoteHangup
  <2>2. QED
    BY <1>t, <2>1
<1>6. CASE ShutdownEnd
  <2>1. /\ UNCHANGED <<rbye, hangups>>
        /\ \/ leg' = leg
           \/ shutdown.dialog # Nil /\ leg' = [leg EXCEPT ![shutdown.dialog] = "down"]
    BY <1>6 DEF ShutdownEnd
  <2>2. QED
    BY <1>t, <2>1 DEF CallOrNil
<1>7. ASSUME NEW o \in Calls,
             \/ Offer(o) \/ InviteError(o) \/ InviteResend(o) \/ RtpIn(o)
             \/ PeerFails(o) \/ PeerCloses(o) \/ PeerCreate(o)
             \/ SetupFails(o) \/ Publish(o) \/ PublishCancelled(o)
             \/ DialBegin(o) \/ Connect(o) \/ LateAnswer(o)
             \/ AnnounceBegin(o) \/ AnnouncePlay(o) \/ AnnounceAbort(o)
             \/ AnnounceFails(o) \/ AnnounceComplete(o) \/ AnnounceEnd(o)
             \/ FailRead(o) \/ FailCall(o)
      PROVE  UNCHANGED <<leg, rbye, hangups>>
  BY <1>7
    DEF Offer, OfferBusy, OfferUnregistered, OfferNoAudio, OfferAccept,
        InviteError, InviteResend, RtpIn, PeerFails, PeerCloses, PeerCreate,
        SetupFails, Publish, PublishCancelled, DialBegin, Connect, LateAnswer,
        AnnounceBegin, AnnouncePlay, AnnounceAbort, AnnounceFails,
        AnnounceComplete, AnnounceEnd, FailRead, FailCall, legVars
<1>8. ASSUME \/ Pion \/ Hangup \/ HandleAudio \/ TraceForgets \/ Registration
             \/ RegistrationProceeds \/ ShutdownBegin \/ UNCHANGED vars
      PROVE  UNCHANGED <<leg, rbye, hangups>>
  BY <1>8
    DEF Pion, PeerEvent, PeerEventEnds, Hangup, HandleAudio, TraceForgets,
        Registration, RegisterBegin, LogoutBegin, KeepTick, KeepSucceeds,
        KeepFails, RegistrationProceeds, RegisterCloseOld, RegisterCreate,
        RegisterFails, RegisterSucceeds, RegisterCallback, LogoutEnd,
        ShutdownBegin, legVars, vars
<1>9. ASSUME NEW o \in Calls,
             \/ Offer(o) \/ Proceed(o) \/ InviteEnds(o) \/ Far(o)
             \/ PeerCloses(o) \/ RemoteHangup(o)
             \/ \E c \in Clients : SendBye(c, o)
      PROVE  HungUpInv'
  BY <1>1, <1>2, <1>3, <1>4, <1>5, <1>7, <1>9 DEF Proceed, InviteEnds, Far
<1>10. QED
  BY <1>1, <1>6, <1>8, <1>9 DEF Next

(* The steps that end a connected call. *)
LEMMA EndSteps ==
  ASSUME IInv, [Next]_vars, call.callState = "connected", call'.callState = "idle"
  PROVE  \/ EndCall(TRUE) \/ ShutdownBegin
         \/ \E o \in Calls : RemoteHangup(o)
<1>t. call \in CallRecord /\ Active
  BY DEF IInv, TypeOK, CallType, Active
<1>1. ASSUME NEW o \in Calls, WritesCall(o) PROVE FALSE
  BY <1>1, <1>t
    DEF WritesCall, OfferAccept, PeerCreate, Publish, Current, DialInvite,
        InviteRejected, InviteAnswered, RecordCallID, Connect, AnnounceBegin,
        AnnouncePlay, AnnounceComplete, FailCall, Failed, RtpIn, Heard,
        CallRecord
<1>2. call' # call /\ ClearCall
  BY <1>1, CallSteps
<1>3. ASSUME NEW o \in Calls,
             \/ Offer(o) \/ InviteError(o) \/ InviteResend(o) \/ RemoteBye(o)
             \/ PeerFails(o) \/ PeerCloses(o) \/ SetupFails(o)
             \/ PublishCancelled(o) \/ DialBegin(o) \/ LateAnswer(o)
             \/ AnnounceAbort(o) \/ AnnounceFails(o) \/ FailRead(o)
             \/ \E c \in Clients : SendBye(c, o)
      PROVE  FALSE
  BY <1>2, <1>3, <1>t
    DEF Offer, OfferBusy, OfferUnregistered, OfferNoAudio, OfferAccept,
        InviteError, InviteResend, RemoteBye, PeerFails, PeerCloses,
        SetupFails, PublishCancelled, DialBegin, LateAnswer, AnnounceAbort,
        AnnounceFails, FailRead, SendBye, callVars
<1>4. ASSUME NEW o \in Calls, AnnounceEnd(o) PROVE EndCall(TRUE)
  BY <1>2, <1>4 DEF AnnounceEnd, callVars
<1>5. ASSUME \/ HandleAudio \/ TraceForgets \/ Registration
             \/ RegistrationProceeds \/ ShutdownEnd \/ UNCHANGED vars
      PROVE  FALSE
  BY <1>2, <1>5, <1>t
    DEF HandleAudio, TraceForgets, Registration, RegisterBegin, LogoutBegin,
        KeepTick, KeepSucceeds, KeepFails, RegistrationProceeds,
        RegisterCloseOld, RegisterCreate, RegisterFails, RegisterSucceeds,
        RegisterCallback, LogoutEnd, ShutdownEnd, callVars, vars
<1>6. ASSUME Pion \/ Hangup PROVE EndCall(TRUE)
  BY <1>2, <1>6 DEF Pion, PeerEvent, PeerEventEnds, Hangup, callVars
<1>7. ASSUME NEW o \in Calls,
             \/ Offer(o) \/ Proceed(o) \/ InviteEnds(o) \/ Far(o)
             \/ PeerCloses(o) \/ \E c \in Clients : SendBye(c, o)
      PROVE  EndCall(TRUE)
  BY <1>1, <1>3, <1>4, <1>7 DEF Proceed, InviteEnds, Far, WritesCall
<1>8. QED
  BY <1>5, <1>6, <1>7 DEF Next

(* ConnectedEndsWithBye, of one step. *)
EndsWithBye ==
  \A o \in Calls :
    Current(o, "connected") /\ call'.callState = "idle" /\ ~StrayHangup(o) =>
      \/ leg[o] = "down"
      \/ Reachable(o) /\ \/ <<client[o], o>> \in byes'
                         \/ shutdown'.dialog = o /\ shutdown'.client = client[o]

LEMMA EndStep ==
  ASSUME IInv, OneSocket, HungUpInv, [Next]_vars PROVE EndsWithBye
<1> SUFFICES ASSUME NEW o \in Calls, Current(o, "connected"),
                    call'.callState = "idle", ~StrayHangup(o), leg[o] # "down"
             PROVE  Reachable(o) /\ \/ <<client[o], o>> \in byes'
                                    \/ /\ shutdown'.dialog = o
                                       /\ shutdown'.client = client[o]
  BY DEF EndsWithBye
<1>1. /\ call.callState = "connected" /\ call.callSeq = o
      /\ call.dialog = o /\ client[o] = sip /\ sip # Nil
  <2>1. call.callState = "connected" /\ call.callSeq = o
    BY DEF Current, Mine
  <2>2. QED
    BY <2>1, GatewayAssumption
      DEF IInv, ControlInv, ConnectedComplete, DialogInv, DialogViaSip
<1>2. Reachable(o)
  BY <1>1 DEF OneSocket, Reachable
<1>3. CASE EndCall(TRUE)
  BY <1>1, <1>2, <1>3, GatewayAssumption DEF EndCall, ByeFor
<1>4. CASE ShutdownBegin
  BY <1>1, <1>2, <1>4 DEF ShutdownBegin
<1>5. ASSUME NEW q \in Calls, RemoteHangup(q) PROVE FALSE
  <2>1. hangups[q] > 0 /\ hangups'[q] < hangups[q]
    BY <1>5 DEF RemoteHangup, IInv, TypeOK, LegType
  <2>2. q = o
    BY <2>1 DEF StrayHangup
  <2>3. QED
    BY <2>1, <2>2 DEF HungUpInv
<1>6. QED
  BY <1>1, <1>3, <1>4, <1>5, EndSteps

(* A connected call that goes back to idle leaves nobody on the line: its  *)
(* own far end has hung up before, a BYE is on its way on the open client  *)
(* that placed the call, or Close has taken both over.  The one exception  *)
(* is a BYE of another call's far end, on which the code sends none.       *)
THEOREM ConnectedCallsEndWithBye == Spec => ConnectedEndsWithBye
<1>1. Init => HungUpInv
  BY DEF Init, HungUpInv
<1>2. IInv /\ CallIDInv /\ HungUpInv /\ [Next]_vars => HungUpInv'
  BY HungUpStep DEF CallIDInv
<1>3. Spec => []HungUpInv
  BY <1>1, <1>2, InvariantHolds, CallIDInvariant, PTL DEF Spec
<1>4. IInv /\ OneSocket /\ HungUpInv /\ [Next]_vars => [EndsWithBye]_vars
  BY EndStep
<1>5. Spec => [][EndsWithBye]_vars
  BY <1>3, <1>4, InvariantHolds, OneSocketInUse, PTL DEF Spec
<1>6. QED
  BY <1>5 DEF ConnectedEndsWithBye, EndsWithBye

-----------------------------------------------------------------------------
(***************************************************************************)
(* The abstract account.                                                   *)
(***************************************************************************)

(* Whoever may be closed was created; the client of a register request is  *)
(* not, before its turn.                                                   *)
CreatedInv ==
  /\ sip # Nil => conn[sip] # "none"
  /\ registerMu.step \in {"close", "create"} => conn[registerMu.client] = "none"
  /\ registerMu.step = "close" =>
       registerMu.old \in Clients /\ conn[registerMu.old] # "none"
  /\ registerMu.step \in {"register", "callback", "logout"} =>
       conn[registerMu.client] # "none"
  /\ shutdown.client # Nil => conn[shutdown.client] # "none"

(* keepRegistered is started once for a client, by the request that        *)
(* created it.                                                             *)
KeepInv ==
  /\ registerMu.step \in {"register", "callback"} => keep[registerMu.client] = "off"
  /\ \A c \in Clients : conn[c] = "none" => keep[c] = "off"

(* A socket that existed is closed: nobody was created. *)
LEMMA ClosingCreatesNone ==
  ASSUME AccountFacts, NEW k \in Clients, conn[k] # "none",
         conn' = [conn EXCEPT ![k] = "closed"]
  PROVE  /\ Created' = Created
         /\ \A c \in Clients : conn'[c] = "none" <=> conn[c] = "none"
BY DEF AccountFacts, Created

LEMMA CreatedStep ==
  ASSUME IInv, CreatedInv, [Next]_vars PROVE CreatedInv'
<1>t. AccountFacts /\ Nil \notin Clients
  BY AccountFactsHold, GatewayAssumption
<1> USE DEF CreatedInv
<1>1. CASE UNCHANGED <<sip, registerMu, conn, shutdown>>
  BY <1>1
<1>2. ASSUME NEW c \in Clients, RegisterBegin(c) PROVE CreatedInv'
  <2>1. /\ conn[c] = "none" /\ sip' = Nil
        /\ registerMu' = Holding(c) /\ UNCHANGED <<conn, shutdown>>
    BY <1>2 DEF RegisterBegin, DropAccount, otherVars
  <2>2. /\ registerMu'.step = IF sip = Nil THEN "create" ELSE "close"
        /\ registerMu'.client = c /\ registerMu'.old = sip
    BY <2>1 DEF Holding
  <2>3. QED
    BY <1>t, <2>1, <2>2 DEF AccountFacts, ClientOrNil
<1>3. CASE RegisterCloseOld
  <2>1. /\ registerMu.step = "close"
        /\ conn' = [conn EXCEPT ![registerMu.old] = "closed"]
        /\ registerMu'.step = "create" /\ registerMu'.client = registerMu.client
        /\ UNCHANGED <<sip, shutdown>>
    BY <1>3, <1>t DEF RegisterCloseOld, AccountFacts, otherVars
  <2>2. QED
    BY <1>t, <2>1, ClosingCreatesNone DEF AccountFacts, ClientOrNil
<1>4. CASE RegisterCreate
  <2>1. /\ registerMu.step = "create" /\ registerMu.client \in Clients
        /\ conn' = [conn EXCEPT ![registerMu.client] = "open"]
        /\ registerMu'.step = "register" /\ registerMu'.client = registerMu.client
        /\ UNCHANGED <<sip, shutdown>>
    BY <1>4, <1>t DEF RegisterCreate, AccountFacts, otherVars
  <2>2. QED
    BY <1>t, <2>1 DEF AccountFacts, ClientOrNil
<1>5. CASE RegisterFails
  <2>1. /\ registerMu.step \in {"create", "register"}
        /\ registerMu.client \in Clients
        /\ conn' = IF registerMu.step = "register"
                     THEN [conn EXCEPT ![registerMu.client] = "closed"] ELSE conn
        /\ sip' = Nil /\ registerMu'.step = "free" /\ UNCHANGED shutdown
    BY <1>5, <1>t DEF RegisterFails, DropAccount, Free, AccountFacts, otherVars
  <2>2. QED
    BY <1>t, <2>1 DEF AccountFacts, ClientOrNil
<1>6. CASE RegisterSucceeds \/ RegisterCallback
  <2>1. \/ /\ registerMu.step = "register" /\ sip' = registerMu.client
           /\ registerMu'.step = "callback" /\ registerMu'.client = registerMu.client
           /\ UNCHANGED <<conn, shutdown>>
        \/ registerMu'.step = "free" /\ UNCHANGED <<sip, conn, shutdown>>
    BY <1>6, <1>t
      DEF RegisterSucceeds, RegisterCallback, Free, AccountFacts, otherVars
  <2>2. QED
    BY <1>t, <2>1 DEF AccountFacts
<1>7. CASE LogoutBegin
  <2>1. /\ sip' = Nil
        /\ registerMu' = IF sip = Nil THEN Free
                         ELSE [step |-> "logout", client |-> sip, old |-> Nil]
        /\ UNCHANGED <<conn, shutdown>>
    BY <1>7 DEF LogoutBegin, DropAccount, otherVars
  <2>2. \/ sip = Nil /\ registerMu'.step = "free"
        \/ sip # Nil /\ registerMu'.step = "logout" /\ registerMu'.client = sip
    BY <2>1 DEF Free
  <2>3. QED
    BY <1>t, <2>1, <2>2 DEF AccountFacts
<1>8. CASE LogoutEnd
  <2>1. /\ registerMu.step = "logout" /\ registerMu.client \in Clients
        /\ conn' = [conn EXCEPT ![registerMu.client] = "closed"]
        /\ registerMu'.step = "free" /\ UNCHANGED <<sip, shutdown>>
    BY <1>8, <1>t DEF LogoutEnd, Free, AccountFacts, otherVars
  <2>2. QED
    BY <1>t, <2>1 DEF AccountFacts, ClientOrNil
<1>9. CASE ShutdownBegin
  <2>1. /\ shutdown'.client = sip /\ sip' = Nil /\ UNCHANGED <<registerMu, conn>>
    BY <1>9 DEF ShutdownBegin, DropAccount
  <2>2. QED
    BY <1>t, <2>1 DEF AccountFacts
<1>10. CASE ShutdownEnd
  <2>1. /\ shutdown'.client = Nil /\ UNCHANGED <<sip, registerMu>>
        /\ conn' = IF shutdown.client # Nil
                     THEN [conn EXCEPT ![shutdown.client] = "closed"] ELSE conn
    BY <1>10 DEF ShutdownEnd
  <2>2. CASE shutdown.client = Nil
    BY <2>1, <2>2
  <2>3. CASE shutdown.client # Nil
    <3>1. shutdown.client \in Clients
      BY <1>t, <2>3 DEF AccountFacts, ClientOrNil
    <3>2. \A c \in Clients : conn'[c] = "none" <=> conn[c] = "none"
      BY <1>t, <2>1, <2>3, <3>1, ClosingCreatesNone
    <3>3. /\ sip # Nil => sip \in Clients
          /\ registerMu.step # "free" => registerMu.client \in Clients
      BY <1>t DEF AccountFacts, ClientOrNil
    <3>4. QED
      BY <2>1, <3>2, <3>3
  <2>4. QED
    BY <2>2, <2>3
<1>11. QED
  BY <1>1, <1>2, <1>3, <1>4, <1>5, <1>6, <1>7, <1>8, <1>9, <1>10,
     AccountSteps DEF MovesAccount, RegistrationProceeds
(* Every other step leaves the account and its keepalives alone. *)
Keeps(c) == KeepTick(c) \/ KeepSucceeds(c) \/ KeepFails(c)

LEMMA KeepSteps ==
  ASSUME [Next]_vars
  PROVE  MovesAccount \/ (\E c \in Clients : Keeps(c)) \/ UNCHANGED <<registered, keep>>
<1>1. ASSUME NEW o \in Calls,
             \/ Offer(o) \/ Proceed(o) \/ InviteEnds(o) \/ Far(o)
             \/ PeerCloses(o) \/ RemoteHangup(o)
             \/ \E c \in Clients : SendBye(c, o)
      PROVE  UNCHANGED <<registered, keep>>
  BY <1>1
    DEF Offer, OfferBusy, OfferUnregistered, OfferNoAudio, OfferAccept, Proceed,
        PeerCreate, SetupFails, Publish, PublishCancelled, DialBegin,
        DialInvite, Connect, LateAnswer, AnnounceBegin, AnnouncePlay,
        AnnounceAbort, AnnounceFails, AnnounceComplete, AnnounceEnd, FailRead,
        FailCall, InviteEnds, InviteError, InviteRejected, InviteAnswered, Far,
        InviteResend, RtpIn, RemoteBye, PeerFails, PeerCloses, RemoteHangup,
        SendBye, regVars
<1>2. ASSUME Pion \/ Hangup \/ HandleAudio \/ TraceForgets \/ UNCHANGED vars
      PROVE  UNCHANGED <<registered, keep>>
  BY <1>2
    DEF Pion, PeerEvent, PeerEventEnds, Hangup, HandleAudio, TraceForgets, regVars, vars
<1>3. QED
  BY <1>1, <1>2 DEF Next, Registration, MovesAccount, Keeps

LEMMA KeepStep ==
  ASSUME IInv, CreatedInv, KeepInv, [Next]_vars PROVE KeepInv'
<1>t. /\ AccountFacts /\ Nil \notin Clients
      /\ keep \in [Clients -> {"off", "waiting", "refreshing"}]
  BY AccountFactsHold, GatewayAssumption DEF IInv, TypeOK, RegType
<1> USE DEF KeepInv
<1>1. CASE UNCHANGED <<registerMu, conn, keep>>
  BY <1>1
<1>2. ASSUME NEW c \in Clients, Keeps(c) PROVE KeepInv'
  <2>1. /\ keep[c] # "off" /\ \A q \in Clients \ {c} : keep'[q] = keep[q]
        /\ UNCHANGED <<registerMu, conn>>
    BY <1>2, <1>t DEF Keeps, KeepTick, KeepSucceeds, KeepFails
  <2>2. QED
    BY <1>t, <2>1 DEF AccountFacts
<1>3. CASE \/ \E c \in Clients : RegisterBegin(c)
           \/ LogoutBegin \/ ShutdownBegin
  <2>1. /\ UNCHANGED <<conn, keep>>
        /\ \/ registerMu' = registerMu
           \/ registerMu'.step \in {"free", "close", "create", "logout"}
    BY <1>3 DEF RegisterBegin, LogoutBegin, ShutdownBegin, Holding, Free
  <2>2. QED
    BY <2>1
<1>4. CASE RegisterCloseOld
  <2>1. /\ registerMu.step = "close" /\ registerMu.old \in Clients
        /\ conn[registerMu.old] # "none"
        /\ conn' = [conn EXCEPT ![registerMu.old] = "closed"]
        /\ registerMu'.step = "create" /\ keep' = keep
    BY <1>4, <1>t DEF RegisterCloseOld, AccountFacts, CreatedInv
  <2>2. QED
    BY <1>t, <2>1, ClosingCreatesNone
<1>5. CASE RegisterCreate
  <2>1. /\ registerMu.client \in Clients /\ conn[registerMu.client] = "none"
        /\ conn' = [conn EXCEPT ![registerMu.client] = "open"]
        /\ registerMu'.client = registerMu.client /\ keep' = keep
    BY <1>5, <1>t DEF RegisterCreate, AccountFacts, CreatedInv
  <2>2. QED
    BY <1>t, <2>1 DEF AccountFacts
<1>6. CASE RegisterFails \/ LogoutEnd
  <2>1. /\ registerMu.step \in {"create", "register", "logout"}
        /\ registerMu.client \in Clients
        /\ \/ conn' = conn
           \/ /\ registerMu.step \in {"register", "logout"}
              /\ conn' = [conn EXCEPT ![registerMu.client] = "closed"]
        /\ registerMu'.step = "free" /\ keep' = keep
    BY <1>6, <1>t DEF RegisterFails, LogoutEnd, Free, AccountFacts
  <2>2. \A c \in Clients : conn'[c] = "none" <=> conn[c] = "none"
    BY <1>t, <2>1, ClosingCreatesNone DEF CreatedInv
  <2>3. QED
    BY <2>1, <2>2
<1>7. CASE RegisterSucceeds
  <2>1. /\ registerMu.step = "register" /\ registerMu'.client = registerMu.client
        /\ UNCHANGED <<conn, keep>>
    BY <1>7, <1>t DEF RegisterSucceeds, AccountFacts
  <2>2. QED
    BY <2>1
<1>8. CASE RegisterCallback
  <2>1. /\ registerMu.step = "callback" /\ registerMu.client \in Clients
        /\ keep' = [keep EXCEPT ![registerMu.client] = "waiting"]
        /\ registerMu'.step = "free" /\ conn' = conn
    BY <1>8, <1>t DEF RegisterCallback, Free, AccountFacts
  <2>2. QED
    BY <1>t, <2>1 DEF CreatedInv
<1>9. CASE ShutdownEnd
  <2>1. /\ UNCHANGED <<registerMu, keep>>
        /\ conn' = IF shutdown.client # Nil
                     THEN [conn EXCEPT ![shutdown.client] = "closed"] ELSE conn
    BY <1>9 DEF ShutdownEnd
  <2>2. shutdown.client # Nil =>
          shutdown.client \in Clients /\ conn[shutdown.client] # "none"
    BY <1>t DEF CreatedInv, AccountFacts, ClientOrNil
  <2>3. \A c \in Clients : conn'[c] = "none" <=> conn[c] = "none"
    BY <1>t, <2>1, <2>2, ClosingCreatesNone
  <2>4. QED
    BY <2>1, <2>3
<1>10. QED
  BY <1>1, <1>2, <1>3, <1>4, <1>5, <1>6, <1>7, <1>8, <1>9,
     AccountSteps, KeepSteps DEF MovesAccount, RegistrationProceeds

(* Only the account in use can be registered.                              *)
RegisteredInv == registered => sip # Nil

(* Every step is a step of the abstract account, or none. *)
LEMMA AccountRefined ==
  ASSUME IInv, CreatedInv, KeepInv, RegisteredInv, [Next]_vars
  PROVE  [Account!Next]_(Account!vars)
<1>t. /\ AccountFacts /\ Nil \notin Clients /\ registered \in BOOLEAN
      /\ keep \in [Clients -> {"off", "waiting", "refreshing"}]
  BY AccountFactsHold, GatewayAssumption DEF IInv, TypeOK, RegType
<1> USE DEF Account!vars, Account!Next
<1>1. CASE UNCHANGED <<sip, registered, registerMu, conn, keep>>
  BY <1>1 DEF Registering, Created, Refreshing
<1>2. ASSUME NEW c \in Clients, Keeps(c) PROVE [Account!Next]_(Account!vars)
  <2>1. UNCHANGED <<sip, registerMu, conn>>
    BY <1>2 DEF Keeps, KeepTick, KeepSucceeds, KeepFails, RefreshLost
  <2>2. UNCHANGED <<Registering, Created>>
    BY <2>1 DEF Registering, Created
  <2>3. CASE KeepTick(c)
    <3>1. /\ registered' = registered /\ keep[c] = "waiting"
          /\ keep' = [keep EXCEPT ![c] = IF sip = c /\ registered THEN "refreshing" ELSE "off"]
      BY <2>3 DEF KeepTick
    <3>2. CASE sip = c /\ registered
      <4>1. Refreshing' = Refreshing \cup {c} /\ c \notin Refreshing
        BY <1>t, <3>1, <3>2 DEF Refreshing
      <4>2. QED
        BY <2>1, <2>2, <3>1, <3>2, <4>1 DEF Account!Refresh
    <3>3. CASE ~(sip = c /\ registered)
      <4>1. Refreshing' = Refreshing
        BY <1>t, <3>1, <3>3 DEF Refreshing
      <4>2. QED
        BY <2>1, <2>2, <3>1, <4>1
    <3>4. QED
      BY <3>2, <3>3
  <2>4. CASE KeepSucceeds(c) \/ KeepFails(c)
    <3>1. /\ keep[c] = "refreshing"
          /\ \E s \in {"waiting", "off"} : keep' = [keep EXCEPT ![c] = s]
          /\ \/ registered' = registered
             \/ registered' = (registered /\ sip # c)
      BY <2>4 DEF KeepSucceeds, KeepFails, RefreshLost
    <3>2. Refreshing' = Refreshing \ {c} /\ c \in Refreshing
      BY <1>t, <3>1 DEF Refreshing
    <3>3. \/ registered' = registered
          \/ registered /\ sip = c /\ registered' = FALSE
      BY <1>t, <3>1
    <3>4. QED
      BY <2>1, <2>2, <3>2, <3>3 DEF Account!Refreshed, Account!Lose
  <2>5. QED
    BY <1>2, <2>3, <2>4 DEF Keeps
<1>3. ASSUME NEW c \in Clients, RegisterBegin(c) PROVE Account!Next
  <2>1. /\ registerMu.step = "free" /\ sip' = Nil /\ registered' = FALSE
        /\ registerMu' = Holding(c) /\ UNCHANGED <<conn, keep>>
    BY <1>3 DEF RegisterBegin, DropAccount
  <2>2. registerMu'.step \in {"create", "close"}
    BY <2>1 DEF Holding
  <2>3. /\ Registering = Nil /\ Registering' = Nil
        /\ UNCHANGED <<Created, Refreshing>>
    BY <2>1, <2>2 DEF Registering, Created, Refreshing
  <2>4. QED
    BY <2>1, <2>3 DEF Account!Drop
<1>4. CASE RegisterCloseOld
  <2>1. /\ registerMu.step = "close" /\ registerMu.old \in Clients
        /\ conn[registerMu.old] # "none"
        /\ conn' = [conn EXCEPT ![registerMu.old] = "closed"]
        /\ registerMu'.step = "create" /\ UNCHANGED <<sip, registered, keep>>
    BY <1>4, <1>t DEF RegisterCloseOld, AccountFacts, CreatedInv
  <2>2. Created' = Created
    BY <1>t, <2>1, ClosingCreatesNone
  <2>3. Registering = Nil /\ Registering' = Nil
    BY <2>1 DEF Registering
  <2>4. QED
    BY <2>1, <2>2, <2>3 DEF Refreshing
<1>5. CASE RegisterCreate
  <2>1. /\ registerMu.step = "create" /\ registerMu.client \in Clients
        /\ conn[registerMu.client] = "none" /\ sip = Nil
        /\ conn' = [conn EXCEPT ![registerMu.client] = "open"]
        /\ registerMu'.step = "register" /\ registerMu'.client = registerMu.client
        /\ UNCHANGED <<sip, registered, keep>>
    BY <1>5, <1>t DEF RegisterCreate, AccountFacts, CreatedInv
  <2>2. registered = FALSE
    BY <1>t, <2>1 DEF RegisteredInv
  <2>3. /\ Registering = Nil /\ Registering' = registerMu.client
        /\ registerMu.client \notin Created
        /\ Created' = Created \cup {registerMu.client}
    BY <1>t, <2>1 DEF Registering, Created, AccountFacts
  <2>4. QED
    BY <2>1, <2>2, <2>3 DEF Account!Begin, Refreshing
<1>6. CASE RegisterFails
  <2>1. /\ registerMu.step \in {"create", "register"}
        /\ registerMu.client \in Clients
        /\ conn' = IF registerMu.step = "register"
                     THEN [conn EXCEPT ![registerMu.client] = "closed"] ELSE conn
        /\ sip' = Nil /\ registered' = FALSE /\ registerMu'.step = "free"
        /\ keep' = keep
    BY <1>6, <1>t DEF RegisterFails, DropAccount, Free, AccountFacts
  <2>2. Created' = Created
    BY <1>t, <2>1, ClosingCreatesNone DEF CreatedInv, Created
  <2>3. Registering' = Nil
    BY <2>1 DEF Registering
  <2>4. QED
    BY <2>1, <2>2, <2>3 DEF Account!Drop, Refreshing
<1>7. CASE RegisterSucceeds
  <2>1. /\ registerMu.step = "register" /\ registerMu.client \in Clients
        /\ sip = Nil /\ sip' = registerMu.client /\ registered' = TRUE
        /\ registerMu'.step = "callback" /\ UNCHANGED <<conn, keep>>
    BY <1>7, <1>t DEF RegisterSucceeds, AccountFacts
  <2>2. /\ Registering = registerMu.client /\ Registering' = Nil
        /\ UNCHANGED <<Created, Refreshing>>
    BY <2>1 DEF Registering, Created, Refreshing
  <2>3. QED
    BY <1>t, <2>1, <2>2 DEF Account!Adopt
<1>8. CASE RegisterCallback
  <2>1. /\ registerMu.step = "callback" /\ registerMu'.step = "free"
        /\ UNCHANGED <<sip, registered, conn>>
        /\ registerMu.client \in Clients /\ keep[registerMu.client] = "off"
        /\ keep' = [keep EXCEPT ![registerMu.client] = "waiting"]
    BY <1>8, <1>t DEF RegisterCallback, Free, AccountFacts, KeepInv
  <2>2. UNCHANGED Refreshing
    BY <1>t, <2>1 DEF Refreshing
  <2>3. QED
    BY <2>1, <2>2 DEF Registering, Created
<1>9. CASE LogoutBegin
  <2>1. /\ registerMu.step = "free" /\ sip' = Nil /\ registered' = FALSE
        /\ UNCHANGED <<conn, keep>>
        /\ registerMu' = IF sip = Nil THEN Free
                         ELSE [step |-> "logout", client |-> sip, old |-> Nil]
    BY <1>9 DEF LogoutBegin, DropAccount
  <2>2. registerMu'.step \in {"free", "logout"}
    BY <2>1 DEF Free
  <2>3. /\ Registering = Nil /\ Registering' = Nil
        /\ UNCHANGED <<Created, Refreshing>>
    BY <2>1, <2>2 DEF Registering, Created, Refreshing
  <2>4. QED
    BY <2>1, <2>3 DEF Account!Drop
<1>10. CASE LogoutEnd
  <2>1. /\ registerMu.step = "logout" /\ registerMu.client \in Clients
        /\ conn[registerMu.client] # "none"
        /\ conn' = [conn EXCEPT ![registerMu.client] = "closed"]
        /\ registerMu'.step = "free" /\ UNCHANGED <<sip, registered, keep>>
    BY <1>10, <1>t DEF LogoutEnd, Free, AccountFacts, CreatedInv
  <2>2. Created' = Created
    BY <1>t, <2>1, ClosingCreatesNone
  <2>3. Registering = Nil /\ Registering' = Nil
    BY <2>1 DEF Registering
  <2>4. QED
    BY <2>1, <2>2, <2>3 DEF Refreshing
<1>11. CASE ShutdownBegin
  <2>1. sip' = Nil /\ registered' = FALSE /\ UNCHANGED <<registerMu, conn, keep>>
    BY <1>11 DEF ShutdownBegin, DropAccount
  <2>2. UNCHANGED <<Registering, Created, Refreshing>>
    BY <2>1 DEF Registering, Created, Refreshing
  <2>3. QED
    BY <2>1, <2>2 DEF Account!Drop
<1>12. CASE ShutdownEnd
  <2>1. /\ UNCHANGED <<sip, registered, registerMu, keep>>
        /\ conn' = IF shutdown.client # Nil
                     THEN [conn EXCEPT ![shutdown.client] = "closed"] ELSE conn
    BY <1>12 DEF ShutdownEnd
  <2>2. /\ shutdown.client # Nil =>
             shutdown.client \in Clients /\ conn[shutdown.client] # "none"
    BY <1>t DEF CreatedInv, AccountFacts, ClientOrNil
  <2>3. Created' = Created
    BY <1>t, <2>1, <2>2, ClosingCreatesNone DEF Created
  <2>4. Registering' = Registering
    BY <2>1 DEF Registering
  <2>5. QED
    BY <2>1, <2>3, <2>4 DEF Refreshing
<1>13. QED
  BY <1>1, <1>2, <1>3, <1>4, <1>5, <1>6, <1>7, <1>8, <1>9, <1>10, <1>11, <1>12,
     AccountSteps, KeepSteps DEF MovesAccount, RegistrationProceeds

(* No abstract step makes an exception to RegisteredInv.                   *)
LEMMA RegisteredStep ==
  ASSUME RegisteredInv, [Account!Next]_(Account!vars) PROVE RegisteredInv'
BY DEF RegisteredInv, Account!vars, Account!Next, Account!Begin, Account!Adopt,
       Account!GiveUp, Account!Refresh, Account!Refreshed, Account!Lose, Account!Drop

(* handleRegister, keepRegistered, handleLogout and Close, in all their    *)
(* critical sections, implement the abstract account: each client is taken *)
(* into use at most once, and only while no other is; one that was dropped *)
(* does not come back, and a keepalive that outlives its client takes      *)
(* nothing from the next one.                                              *)
THEOREM ImplementsAccount == Spec => AccountSpec
<1>1. ASSUME Init PROVE CreatedInv /\ KeepInv /\ RegisteredInv /\ Account!Init
  <2>1. /\ sip = Nil /\ registered = FALSE /\ registerMu.step = "free"
        /\ shutdown.client = Nil
        /\ \A c \in Clients : conn[c] = "none" /\ keep[c] = "off"
    BY <1>1 DEF Init, Free
  <2>2. Registering = Nil /\ Created = {} /\ Refreshing = {}
    BY <2>1 DEF Registering, Created, Refreshing
  <2>3. QED
    BY <2>1, <2>2 DEF CreatedInv, KeepInv, RegisteredInv, Account!Init
<1>2. IInv /\ CreatedInv /\ KeepInv /\ RegisteredInv /\ [Next]_vars
      => /\ CreatedInv' /\ KeepInv' /\ RegisteredInv'
         /\ [Account!Next]_(Account!vars)
  BY CreatedStep, KeepStep, AccountRefined, RegisteredStep
<1>3. QED
  BY <1>1, <1>2, InvariantHolds, PTL DEF Spec, AccountSpec, Account!Spec
=============================================================================
