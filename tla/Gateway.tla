------------------------------ MODULE Gateway ------------------------------
(***************************************************************************)
(* The call control of the Line One gateway (src/internal/gateway): one    *)
(* browser leg (a Pion PeerConnection) bridged to one SIP leg.             *)
(*                                                                         *)
(* Every HTTP handler, every goroutine the gateway starts, every callback  *)
(* of Pion and of the SIP client runs concurrently with the others; they   *)
(* meet in the fields of the Gateway struct, guarded by g.mu.  One action  *)
(* is one critical section of g.mu, or one call a goroutine makes between  *)
(* two of them.  The attempt o \in Calls stands for one POST /api/offer    *)
(* and for the goroutines that descend from it (handleOffer, dial,         *)
(* playAnnouncement); c \in Clients for one POST /api/register, the        *)
(* sip.Client it builds and that client's keepRegistered goroutine.        *)
(*                                                                         *)
(* g.callSeq is only ever compared with the number an attempt was given,   *)
(* so it is represented by the attempt whose number it is, or Nil when it  *)
(* is nobody's (clearCallLocked has moved it on).  Display data is left    *)
(* out: lastError, sipServer, sipUser, the RTP counters and mediaTarget,   *)
(* which no branch of the code reads.                                      *)
(***************************************************************************)
EXTENDS Naturals, FiniteSets

CONSTANTS Calls,      \* call attempts
          Clients,    \* registrations, each with the sip.Client it creates
          Nil,        \* Go's nil, and the empty string of callID
          Modes,      \* the audio modes requested: "microphone", "file"
          Outside,    \* bound: what may happen to the calls from outside
          MaxByes,    \* bound: BYE requests (with retransmissions) of a far end
          MaxUploads  \* bound: uploads that are in use at the same time

(* "peer": browser legs fail; "closed": Pion reports those that were closed *)
(* (later than anything else happens, otherwise); "rtp": far ends send      *)
(* media; "bye": far ends hang up; "trace": INVITEs are repeated and the    *)
(* trace is cleared; "loss": BYEs of the gateway get lost; "account":       *)
(* logouts and keepalives; "shutdown": the program is ended.                *)
OutsideKinds ==
  {"peer", "closed", "rtp", "bye", "trace", "loss", "account", "shutdown"}

Addresses == Calls \X {"sdp", "rtp"}

ASSUME GatewayAssumption ==
  /\ Nil \notin Calls
  /\ Nil \notin Clients
  /\ Nil \notin Addresses
  /\ Modes \subseteq {"microphone", "file"}
  /\ Outside \subseteq OutsideKinds
  /\ MaxByes \in Nat
  /\ MaxUploads \in Nat

VARIABLES
  call,       \* the fields of Gateway that clearCallLocked resets
  cancelled,  \* the attempts whose context (callCtx) was cancelled
  sip, registered,  \* g.sip and g.registered
  codec,      \* g.codec, as the attempt that set it last
  audioPCM,   \* g.audioPCM: 0 is empty, another number an upload
  registerMu, \* g.registerMu and the handler that holds it
  conn,       \* the UDP socket of each sip.Client: "none", "open", "closed"
  onBye,      \* the clients on which SetOnBye has been called
  keep,       \* keepRegistered(c): "off", "waiting" for a tick, "refreshing"
  pc,         \* where the goroutines of each attempt are
  client,     \* the local `client' of dial: the client that places the call
  latest,     \* the local `callID' of failCall
  take,       \* the locals `codec' and `samples' of playAnnouncement
  peerState,  \* each attempt's PeerConnection
  peerEvents, \* Pion's notifications under way: <<attempt, state>>
  endings,    \* OnConnectionStateChange goroutines about to call endCall
  leg,        \* what the gateway has learnt of each attempt's SIP leg
  rbye,       \* number of BYE requests received from each attempt's far end
  hangups,    \* remoteHangup goroutines that have not run yet
  byes,       \* g.bye goroutines that have not run yet: <<client, dialog>>
  lastInvite, \* Call-ID of the newest INVITE entry of the trace buffer
  shutdown    \* g.Close: stage and the locals `dialog' and `client'

callVars  == <<call, cancelled>>
regVars   == <<sip, registered, registerMu, conn, onBye, keep>>
locals    == <<client, latest, take>>
offerVars == <<pc, client, latest, take>>
peerVars  == <<peerState, peerEvents, endings>>
legVars   == <<leg, rbye, hangups, byes>>
otherVars == <<codec, audioPCM, lastInvite, shutdown>>
vars == <<callVars, regVars, offerVars, peerVars, legVars, otherVars>>

-----------------------------------------------------------------------------
(***************************************************************************)
(* The state.                                                              *)
(***************************************************************************)
CallOrNil   == Calls \cup {Nil}
ClientOrNil == Clients \cup {Nil}

CallRecord ==
  [callState : {"idle", "connecting", "connected", "failed"},
   callSeq : CallOrNil, callCancel : CallOrNil, peer : CallOrNil,
   webTrack : CallOrNil, sipTarget : Addresses \cup {Nil},
   dialog : CallOrNil, callID : CallOrNil,
   audioMode : Modes \cup {""},
   rtpReady : {"nil", "open", "closed"}, rtpReadyOnce : BOOLEAN,
   announcementState : {"", "waiting-media", "playing", "completed"}]

(* What clearCallLocked leaves behind. *)
Cleared ==
  [callState |-> "idle", callSeq |-> Nil, callCancel |-> Nil, peer |-> Nil,
   webTrack |-> Nil, sipTarget |-> Nil, dialog |-> Nil, callID |-> Nil,
   audioMode |-> "", rtpReady |-> "nil", rtpReadyOnce |-> FALSE,
   announcementState |-> ""]

Stages == {"new", "refused", "peer", "negotiate", "dial", "invite", "inviting",
           "answered", "announce", "waiting", "playing", "finishing",
           "failing", "fail", "done"}

RegisterSteps == {"free", "close", "create", "register", "callback", "logout"}

CallType == call \in CallRecord /\ cancelled \in SUBSET Calls

RegType ==
  /\ sip \in ClientOrNil /\ registered \in BOOLEAN
  /\ registerMu \in [step : RegisterSteps, client : ClientOrNil, old : ClientOrNil]
  /\ registerMu.step # "free" => registerMu.client # Nil
  /\ conn \in [Clients -> {"none", "open", "closed"}]
  /\ onBye \in SUBSET Clients
  /\ keep \in [Clients -> {"off", "waiting", "refreshing"}]

OfferType ==
  /\ pc \in [Calls -> Stages]
  /\ client \in [Calls -> ClientOrNil]
  /\ latest \in [Calls -> CallOrNil]
  /\ take \in [Calls -> CallOrNil \X (0..MaxUploads)]

PeerType ==
  /\ peerState \in [Calls -> {"none", "made", "open", "lost", "closing", "closed"}]
  /\ peerEvents \in SUBSET (Calls \X {"failed", "closed"})
  /\ endings \in SUBSET (Calls \X {"failed", "closed"})

LegType ==
  /\ leg \in [Calls -> {"none", "invited", "up", "down"}]
  /\ rbye \in [Calls -> 0..MaxByes]
  /\ hangups \in [Calls -> Nat]
  /\ byes \in SUBSET (ClientOrNil \X Calls)

OtherType ==
  /\ codec \in CallOrNil
  /\ audioPCM \in 0..MaxUploads
  /\ lastInvite \in CallOrNil
  /\ shutdown \in [stage : {"running", "closing", "closed"},
                   dialog : CallOrNil, client : ClientOrNil]

TypeOK == CallType /\ RegType /\ OfferType /\ PeerType /\ LegType /\ OtherType

Free == [step |-> "free", client |-> Nil, old |-> Nil]

Init ==
  /\ call = Cleared
  /\ cancelled = {}
  /\ sip = Nil
  /\ registered = FALSE
  /\ codec = Nil
  /\ audioPCM = 0
  /\ registerMu = Free
  /\ conn = [c \in Clients |-> "none"]
  /\ onBye = {}
  /\ keep = [c \in Clients |-> "off"]
  /\ pc = [o \in Calls |-> "new"]
  /\ client = [o \in Calls |-> Nil]
  /\ latest = [o \in Calls |-> Nil]
  /\ take = [o \in Calls |-> <<Nil, 0>>]
  /\ peerState = [o \in Calls |-> "none"]
  /\ peerEvents = {}
  /\ endings = {}
  /\ leg = [o \in Calls |-> "none"]
  /\ rbye = [o \in Calls |-> 0]
  /\ hangups = [o \in Calls |-> 0]
  /\ byes = {}
  /\ lastInvite = Nil
  /\ shutdown = [stage |-> "running", dialog |-> Nil, client |-> Nil]

-----------------------------------------------------------------------------
(***************************************************************************)
(* Helpers shared by the handlers.                                         *)
(***************************************************************************)

(* callActiveLocked *)
Active == call.callState \in {"connecting", "connected"}

(* The two tests a goroutine of an attempt makes before it acts for it. *)
MineUnchecked(o) == call.callState # "failed"     \* mutant of Mine
Mine(o) == call.callSeq = o

CurrentIgnoresSeq(o, state) == call.callState = state   \* mutant of Current
Current(o, state) == Mine(o) /\ call.callState = state

(* g.callCancel(), when it is set. *)
CancelContext == cancelled' = cancelled \cup ({call.callCancel} \ {Nil})

(* Mutant of ClearCall: the pending INVITE is forgotten, not cancelled. *)
ClearCallNoCancel == call' = Cleared /\ UNCHANGED cancelled

(* clearCallLocked *)
ClearCall == call' = Cleared /\ CancelContext

(* pc.Close() on the connection read from g.peer before it was cleared:    *)
(* it is about to be closed by the goroutine that read it.                 *)
PeerForgotten(ps, o) == ps   \* mutant of PeerClosing
PeerClosing(ps, o) == IF o \in Calls THEN [ps EXCEPT ![o] = "closing"] ELSE ps

(* The BYE endCall starts, if it is asked for one and there is a dialog.   *)
(* Mutants: read after the call was cleared; without the tests for nil.    *)
ByeReadLate(sendBye) == {}
ByeNil(sendBye) == IF sendBye THEN {<<sip, call.dialog>>} ELSE {}
ByeFor(sendBye) ==
  IF sendBye /\ call.dialog # Nil /\ sip # Nil THEN {<<sip, call.dialog>>} ELSE {}

(* endCall, and endCallForSeq past its test: one critical section, then    *)
(* pc.Close and the goroutine that sends the BYE.                          *)
EndCall(sendBye) ==
  /\ ClearCall
  /\ peerState' = PeerClosing(peerState, call.peer)
  /\ byes' = byes \cup ByeFor(sendBye)

(* The client that places the attempt's call has its socket. *)
Reachable(o) == client[o] # Nil /\ conn[client[o]] = "open"

Goto(o, stage) == pc' = [pc EXCEPT ![o] = stage]

-----------------------------------------------------------------------------
(***************************************************************************)
(* POST /api/offer.  A refused request changes nothing but what its own    *)
(* action says; the attempt of a refused request never becomes current.    *)
(***************************************************************************)

(* handleOffer while a call is active: 409 "gateway is busy". *)
OfferBusy(o) ==
  /\ pc[o] = "new"
  /\ Active
  /\ Goto(o, "refused")
  /\ UNCHANGED <<callVars, regVars, otherVars, locals, peerVars, legVars>>

(* The call state has been cleared by the time the registration is tested. *)
OfferUnregistered(o) ==
  /\ pc[o] = "new"
  /\ ~Active
  /\ ~registered \/ sip = Nil
  /\ ClearCall
  /\ Goto(o, "refused")
  /\ UNCHANGED <<regVars, otherVars, locals, peerVars, legVars>>

(* An announcement is asked for and no audio has been uploaded. *)
OfferNoAudio(o) ==
  /\ pc[o] = "new"
  /\ ~Active
  /\ registered /\ sip # Nil
  /\ "file" \in Modes
  /\ audioPCM = 0
  /\ ClearCall
  /\ codec' = o
  /\ Goto(o, "refused")
  /\ UNCHANGED <<regVars, audioPCM, locals, peerVars, legVars, lastInvite,
                 shutdown>>

(* Mutant of Accepted: the Once of the call before is not reset. *)
AcceptedStaleOnce(o, mode) ==
  [Cleared EXCEPT !.callState = "connecting", !.callSeq = o, !.callCancel = o,
                  !.audioMode = mode, !.rtpReady = "open",
                  !.rtpReadyOnce = call.rtpReadyOnce]

(* The state of a call that has just been accepted. *)
Accepted(o, mode) ==
  [Cleared EXCEPT !.callState = "connecting", !.callSeq = o, !.callCancel = o,
                  !.audioMode = mode, !.rtpReady = "open"]

OfferAccept(o) ==
  /\ pc[o] = "new"
  /\ ~Active
  /\ registered /\ sip # Nil
  /\ \E mode \in Modes :
       /\ mode = "file" => audioPCM # 0
       /\ call' = Accepted(o, mode)
  /\ CancelContext
  /\ codec' = o
  /\ Goto(o, "peer")
  /\ UNCHANGED <<regVars, audioPCM, locals, peerVars, legVars, lastInvite,
                 shutdown>>

(* newPeer: the connection is built with this attempt's callbacks and its  *)
(* downlink track is stored, whichever call is current by now.             *)
PeerCreate(o) ==
  /\ pc[o] = "peer"
  /\ call' = [call EXCEPT !.webTrack = o]
  /\ peerState' = [peerState EXCEPT ![o] = "made"]
  /\ Goto(o, "negotiate")
  /\ UNCHANGED <<cancelled, regVars, otherVars, locals, peerEvents, endings,
                 legVars>>

(* newPeer, SetRemoteDescription, CreateAnswer or SetLocalDescription      *)
(* fails.  A connection that was made is not published, so that nobody     *)
(* closes it.                                                              *)
SetupFails(o) ==
  /\ pc[o] \in {"peer", "negotiate"}
  /\ Goto(o, "failing")
  /\ UNCHANGED <<callVars, regVars, otherVars, locals, peerVars, legVars>>

(* The answer is ready and the attempt is still the current one: g.peer is *)
(* set, ICE runs, dial is started.                                         *)
Publish(o) ==
  /\ pc[o] = "negotiate"
  /\ Current(o, "connecting")
  /\ call' = [call EXCEPT !.peer = o]
  /\ peerState' = [peerState EXCEPT ![o] = "open"]
  /\ Goto(o, "dial")
  /\ UNCHANGED <<cancelled, regVars, otherVars, locals, peerEvents, endings,
                 legVars>>

(* 409 "call was cancelled": the handler closes its own connection. *)
PublishCancelled(o) ==
  /\ pc[o] = "negotiate"
  /\ ~Current(o, "connecting")
  /\ peerState' = PeerClosing(peerState, o)
  /\ Goto(o, "done")
  /\ UNCHANGED <<callVars, regVars, otherVars, locals, peerEvents, endings,
                 legVars>>

-----------------------------------------------------------------------------
(***************************************************************************)
(* dial: the SIP leg.  sip.Client.InviteWithCallID is seen from outside:   *)
(* requests go out, then it returns an error, a rejection or an answer.    *)
(***************************************************************************)

(* dial reads g.sip; without a client the attempt fails. *)
DialBegin(o) ==
  /\ pc[o] = "dial"
  /\ client' = [client EXCEPT ![o] = sip]
  /\ Goto(o, IF sip = Nil THEN "failing" ELSE "invite")
  /\ UNCHANGED <<callVars, regVars, otherVars, latest, take, peerVars,
                 legVars>>

(* The Call-ID is drawn and recorded, the INVITE traced and sent.  Neither *)
(* the attempt nor its context is looked at before the first INVITE; only  *)
(* a closed socket stops it.                                               *)
DialInvite(o) ==
  /\ pc[o] = "invite"
  /\ call' = IF Current(o, "connecting") THEN [call EXCEPT !.callID = o] ELSE call
  /\ lastInvite' = o
  /\ IF Reachable(o)
       THEN leg' = [leg EXCEPT ![o] = "invited"] /\ Goto(o, "inviting")
       ELSE leg' = leg /\ Goto(o, "failing")
  /\ UNCHANGED <<cancelled, regVars, codec, audioPCM, locals, peerVars, rbye,
                 hangups, byes, shutdown>>

(* A retransmission, or the INVITE repeated with credentials. *)
InviteResend(o) ==
  /\ "trace" \in Outside
  /\ pc[o] = "inviting"
  /\ lastInvite' = o
  /\ UNCHANGED <<callVars, regVars, codec, audioPCM, offerVars, peerVars,
                 legVars, shutdown>>

(* Mutant of InviteError: dial returns without failCall. *)
InviteErrorSilent(o) ==
  /\ pc[o] = "inviting"
  /\ Goto(o, "done")
  /\ UNCHANGED <<callVars, regVars, otherVars, locals, peerVars, legVars>>

(* The context ended (hangup, or 35 s), no response, or bad challenge. *)
InviteError(o) ==
  /\ pc[o] = "inviting"
  /\ Goto(o, "failing")
  /\ UNCHANGED <<callVars, regVars, otherVars, locals, peerVars, legVars>>

(* g.callID is taken from the response, for the current attempt only. *)
RecordCallID(o) ==
  call' = IF Mine(o) THEN [call EXCEPT !.callID = o] ELSE call

(* A final response other than 2xx.  It was received while the socket was  *)
(* open, and may be read after that was closed; so may a 2xx.              *)
InviteRejected(o) ==
  /\ pc[o] = "inviting"
  /\ rbye[o] = 0
  /\ RecordCallID(o)
  /\ leg' = [leg EXCEPT ![o] = "down"]
  /\ Goto(o, "failing")
  /\ UNCHANGED <<cancelled, regVars, otherVars, locals, peerVars, rbye,
                 hangups, byes>>

(* A 2xx, acknowledged by the client: the leg is up, unless the far end    *)
(* has hung up since.  The attempt fails if the answer names no media      *)
(* address or not the codec.                                               *)
InviteAnswered(o) ==
  /\ pc[o] = "inviting"
  /\ RecordCallID(o)
  /\ leg' = [leg EXCEPT ![o] = IF rbye[o] > 0 THEN "down" ELSE "up"]
  /\ \E usable \in BOOLEAN : Goto(o, IF usable THEN "answered" ELSE "failing")
  /\ UNCHANGED <<cancelled, regVars, otherVars, locals, peerVars, rbye,
                 hangups, byes>>

(* A media source that was heard before the answer is kept. *)
TargetFromSdp(o) == <<o, "sdp">>   \* mutant of TargetOnAnswer
TargetOnAnswer(o) == IF call.sipTarget = Nil THEN <<o, "sdp">> ELSE call.sipTarget

Connected(o) ==
  [call EXCEPT !.callState = "connected", !.dialog = o, !.callID = o,
               !.sipTarget = TargetOnAnswer(o)]

Connect(o) ==
  /\ pc[o] = "answered"
  /\ Current(o, "connecting")
  /\ call' = Connected(o)
  /\ Goto(o, IF call.audioMode = "file" THEN "announce" ELSE "done")
  /\ UNCHANGED <<cancelled, regVars, otherVars, locals, peerVars, legVars>>

(* Mutant of LateAnswer: the late answer is ignored. *)
LateAnswerIgnored(o) ==
  /\ pc[o] = "answered"
  /\ ~Current(o, "connecting")
  /\ Goto(o, "done")
  /\ UNCHANGED <<callVars, regVars, otherVars, locals, peerVars, legVars>>

(* The call was hung up while the answer was on its way: the leg is ended  *)
(* on the client that placed it.                                           *)
LateAnswer(o) ==
  /\ pc[o] = "answered"
  /\ ~Current(o, "connecting")
  /\ byes' = byes \cup {<<client[o], o>>}
  /\ Goto(o, "done")
  /\ UNCHANGED <<callVars, regVars, otherVars, locals, peerVars, leg, rbye,
                 hangups>>

-----------------------------------------------------------------------------
(***************************************************************************)
(* playAnnouncement: the uploaded audio, sent by the gateway itself.       *)
(***************************************************************************)

(* The audio and the codec are captured, the state announced, before any   *)
(* test that the attempt is still current.                                 *)
AnnounceBegin(o) ==
  /\ pc[o] = "announce"
  /\ take' = [take EXCEPT ![o] = <<codec, audioPCM>>]
  /\ call' = [call EXCEPT !.announcementState = "waiting-media"]
  /\ Goto(o, "waiting")
  /\ UNCHANGED <<cancelled, regVars, otherVars, client, latest, peerVars,
                 legVars>>

(* After rtpReady was closed or 1.5 s have passed. *)
AnnouncePlay(o) ==
  /\ pc[o] = "waiting"
  /\ Current(o, "connected")
  /\ call' = [call EXCEPT !.announcementState = "playing"]
  /\ Goto(o, "playing")
  /\ UNCHANGED <<cancelled, regVars, otherVars, locals, peerVars, legVars>>

(* The goroutine returns without playing (any further), the locals die. *)
AnnounceAbort(o) ==
  /\ \/ pc[o] = "waiting" /\ ~Current(o, "connected")
     \/ pc[o] = "playing" /\ (~Current(o, "connected") \/ call.sipTarget = Nil)
  /\ Goto(o, "done")
  /\ take' = [take EXCEPT ![o] = <<Nil, 0>>]
  /\ UNCHANGED <<callVars, regVars, otherVars, client, latest, peerVars,
                 legVars>>

(* A frame cannot be encoded or written. *)
AnnounceFails(o) ==
  /\ pc[o] = "playing"
  /\ Goto(o, "failing")
  /\ take' = [take EXCEPT ![o] = <<Nil, 0>>]
  /\ UNCHANGED <<callVars, regVars, otherVars, client, latest, peerVars,
                 legVars>>

(* Mutant of AnnounceComplete: the goroutine ends, the call does not. *)
AnnounceCompleteOnly(o) ==
  /\ pc[o] = "playing"
  /\ Goto(o, "done")
  /\ UNCHANGED <<callVars, regVars, otherVars, locals, peerVars, legVars>>

(* The last frame was sent. *)
AnnounceComplete(o) ==
  /\ pc[o] = "playing"
  /\ call' = IF Mine(o)
               THEN [call EXCEPT !.announcementState = "completed"] ELSE call
  /\ Goto(o, "finishing")
  /\ take' = [take EXCEPT ![o] = <<Nil, 0>>]
  /\ UNCHANGED <<cancelled, regVars, otherVars, client, latest, peerVars,
                 legVars>>

(* endCallForSeq *)
AnnounceEnd(o) ==
  /\ pc[o] = "finishing"
  /\ IF Mine(o)
       THEN EndCall(TRUE)
       ELSE UNCHANGED <<callVars, peerState, byes>>
  /\ Goto(o, "done")
  /\ UNCHANGED <<regVars, otherVars, locals, peerEvents, endings, leg, rbye,
                 hangups>>

-----------------------------------------------------------------------------
(***************************************************************************)
(* failCall: first the newest INVITE of the trace, then g.mu.              *)
(***************************************************************************)
FailRead(o) ==
  /\ pc[o] = "failing"
  /\ latest' = [latest EXCEPT ![o] = lastInvite]
  /\ Goto(o, "fail")
  /\ UNCHANGED <<callVars, regVars, otherVars, client, take, peerVars,
                 legVars>>

(* The state of a failed call; the dialog, if any, stays. *)
Failed(o) ==
  [call EXCEPT !.callState = "failed", !.peer = Nil,
               !.callID = IF call.callID = Nil THEN latest[o] ELSE call.callID]

FailCall(o) ==
  /\ pc[o] = "fail"
  /\ IF Mine(o)
       THEN call' = Failed(o) /\ peerState' = PeerClosing(peerState, call.peer)
       ELSE UNCHANGED <<call, peerState>>
  /\ latest' = [latest EXCEPT ![o] = Nil]
  /\ Goto(o, "done")
  /\ UNCHANGED <<cancelled, regVars, otherVars, client, take, peerEvents,
                 endings, legVars>>

-----------------------------------------------------------------------------
(***************************************************************************)
(* The other handlers and callbacks that touch a call.                     *)
(***************************************************************************)

(* POST /api/hangup *)
Hangup ==
  /\ EndCall(TRUE)
  /\ UNCHANGED <<regVars, otherVars, offerVars, peerEvents, endings, leg, rbye,
                 hangups>>

(* An upload is named by a number that no other audio in use has. *)
Unused(n) == n # 0 /\ n # audioPCM /\ \A o \in Calls : take[o][2] # n

(* Mutant of HandleAudio: the audio is replaced during a call. *)
HandleAudioAnytime ==
  /\ \E n \in 0..MaxUploads : Unused(n) /\ audioPCM' = n
  /\ UNCHANGED <<callVars, regVars, codec, offerVars, peerVars, legVars,
                 lastInvite, shutdown>>

(* POST /api/audio, refused during a call.  A WAV file too short for one   *)
(* sample at 8 kHz is accepted and leaves no audio.                        *)
HandleAudio ==
  /\ ~Active
  /\ \E n \in 0..MaxUploads : (n = 0 \/ Unused(n)) /\ audioPCM' = n
  /\ UNCHANGED <<callVars, regVars, codec, offerVars, peerVars, legVars,
                 lastInvite, shutdown>>

(* Symmetric RTP: media goes back to where it comes from during a call. *)
TargetAlways(source) == source   \* mutant of TargetAfter
TargetAfter(source) == IF Active THEN source ELSE call.sipTarget

(* The state after an RTP packet from the given address.  rtpReadyOnce     *)
(* runs at most once per call, and closes rtpReady if there is one.        *)
Heard(source) ==
  [call EXCEPT
     !.sipTarget = TargetAfter(source),
     !.rtpReady = IF ~call.rtpReadyOnce /\ call.rtpReady = "open"
                    THEN "closed" ELSE call.rtpReady,
     !.rtpReadyOnce = TRUE]

(* readSIPRTP: any far end that was ever invited may still send, from an   *)
(* address other than the one in its SDP (bound: nobody else does).        *)
RtpIn(o) ==
  /\ "rtp" \in Outside
  /\ shutdown.stage # "closed"
  /\ leg[o] # "none"
  /\ call' = Heard(<<o, "rtp">>)
  /\ UNCHANGED <<cancelled, regVars, otherVars, offerVars, peerVars, legVars>>

(* pc.Close() takes effect and Pion reports the closed state. *)
PeerCloses(o) ==
  /\ "closed" \in Outside
  /\ peerState[o] = "closing"
  /\ peerState' = [peerState EXCEPT ![o] = "closed"]
  /\ peerEvents' = peerEvents \cup {<<o, "closed">>}
  /\ UNCHANGED <<callVars, regVars, otherVars, offerVars, endings, legVars>>

(* ICE or DTLS fails, for instance because the browser has gone. *)
PeerFails(o) ==
  /\ "peer" \in Outside
  /\ peerState[o] = "open"
  /\ peerState' = [peerState EXCEPT ![o] = "lost"]
  /\ peerEvents' = peerEvents \cup {<<o, "failed">>}
  /\ UNCHANGED <<callVars, regVars, otherVars, offerVars, endings, legVars>>

(* OnConnectionStateChange, first section: is a call active - any call?    *)
PeerEvent(event) ==
  /\ event \in peerEvents
  /\ peerEvents' = peerEvents \ {event}
  /\ endings' = IF Active THEN endings \cup {event} ELSE endings
  /\ UNCHANGED <<callVars, regVars, otherVars, offerVars, peerState, legVars>>

(* ... second section: endCall(true). *)
PeerEventEnds(event) ==
  /\ event \in endings
  /\ endings' = endings \ {event}
  /\ EndCall(TRUE)
  /\ UNCHANGED <<regVars, otherVars, offerVars, peerEvents, leg, rbye,
                 hangups>>

(* The far end hangs up, or repeats its BYE, maybe before dial has read    *)
(* its answer.  Whichever client has the SIP port answers 200 and starts   *)
(* its callback if there is one, for whatever dialog the BYE names.        *)
RemoteBye(o) ==
  /\ "bye" \in Outside
  /\ leg[o] \in {"invited", "up"} \/ rbye[o] > 0
  /\ rbye[o] < MaxByes
  /\ rbye' = [rbye EXCEPT ![o] = @ + 1]
  /\ leg' = [leg EXCEPT ![o] = "down"]
  /\ \E c \in Clients :
       /\ conn[c] = "open"
       /\ hangups' = IF c \in onBye
                       THEN [hangups EXCEPT ![o] = @ + 1] ELSE hangups
  /\ UNCHANGED <<callVars, regVars, otherVars, offerVars, peerVars, byes>>

(* remoteHangup: endCall(false) *)
RemoteHangup(o) ==
  /\ hangups[o] > 0
  /\ hangups' = [hangups EXCEPT ![o] = @ - 1]
  /\ EndCall(FALSE)
  /\ UNCHANGED <<regVars, otherVars, offerVars, peerEvents, endings, leg,
                 rbye>>

(* g.bye: the BYE reaches the far end, unless the client has been closed   *)
(* or the network loses it and all its retransmissions.                    *)
SendBye(c, o) ==
  /\ <<c, o>> \in byes
  /\ byes' = byes \ {<<c, o>>}
  /\ \/ conn[c] = "open" /\ leg' = [leg EXCEPT ![o] = "down"]
     \/ (conn[c] # "open" \/ "loss" \in Outside) /\ leg' = leg
  /\ UNCHANGED <<callVars, regVars, otherVars, offerVars, peerVars, rbye,
                 hangups>>

(* DELETE /api/signaling, or enough newer messages: the trace forgets. *)
TraceForgets ==
  /\ "trace" \in Outside
  /\ lastInvite' = Nil
  /\ UNCHANGED <<callVars, regVars, codec, audioPCM, offerVars, peerVars,
                 legVars, shutdown>>

-----------------------------------------------------------------------------
(***************************************************************************)
(* POST /api/register and /api/logout hold registerMu from start to end.   *)
(* While a call is active they are refused and change nothing.             *)
(***************************************************************************)

(* g.sip = nil, g.registered = false. *)
DropAccount == sip' = Nil /\ registered' = FALSE

(* Who holds registerMu: a register request that has to close the socket   *)
(* of the account in use first, if there is one; mutant: it never does.    *)
OldKept(c) == [step |-> "create", client |-> c, old |-> Nil]
Holding(c) ==
  [step |-> IF sip = Nil THEN "create" ELSE "close", client |-> c, old |-> sip]

(* The account in use is dropped, whatever becomes of the new one. *)
RegisterBegin(c) ==
  /\ registerMu.step = "free"
  /\ conn[c] = "none"
  /\ ~Active
  /\ ClearCall
  /\ DropAccount
  /\ registerMu' = Holding(c)
  /\ UNCHANGED <<conn, onBye, keep, otherVars, offerVars, peerVars, legVars>>

(* The old client's socket is closed: the new one uses the same port. *)
RegisterCloseOld ==
  /\ registerMu.step = "close"
  /\ conn' = [conn EXCEPT ![registerMu.old] = "closed"]
  /\ registerMu' = [registerMu EXCEPT !.step = "create"]
  /\ UNCHANGED <<callVars, sip, registered, onBye, keep, otherVars, offerVars,
                 peerVars, legVars>>

(* sip.NewClient binds the configured port. *)
RegisterCreate ==
  /\ registerMu.step = "create"
  /\ \A c \in Clients : conn[c] # "open"
  /\ conn' = [conn EXCEPT ![registerMu.client] = "open"]
  /\ registerMu' = [registerMu EXCEPT !.step = "register"]
  /\ UNCHANGED <<callVars, sip, registered, onBye, keep, otherVars, offerVars,
                 peerVars, legVars>>

(* registrationFailed, after NewClient (the server name does not resolve,  *)
(* the port is taken) or after REGISTER, when the client is closed first.  *)
RegisterFails ==
  /\ registerMu.step \in {"create", "register"}
  /\ conn' = IF registerMu.step = "register"
               THEN [conn EXCEPT ![registerMu.client] = "closed"] ELSE conn
  /\ DropAccount
  /\ registerMu' = Free
  /\ UNCHANGED <<callVars, onBye, keep, otherVars, offerVars, peerVars,
                 legVars>>

(* The registrar accepted: the client is published. *)
RegisterSucceeds ==
  /\ registerMu.step = "register"
  /\ sip' = registerMu.client
  /\ registered' = TRUE
  /\ registerMu' = [registerMu EXCEPT !.step = "callback"]
  /\ UNCHANGED <<callVars, conn, onBye, keep, otherVars, offerVars, peerVars,
                 legVars>>

(* SetOnBye and go keepRegistered, after the client was published. *)
RegisterCallback ==
  /\ registerMu.step = "callback"
  /\ onBye' = onBye \cup {registerMu.client}
  /\ keep' = [keep EXCEPT ![registerMu.client] = "waiting"]
  /\ registerMu' = Free
  /\ UNCHANGED <<callVars, sip, registered, conn, otherVars, offerVars,
                 peerVars, legVars>>

(* keepRegistered, on a tick: go on only for the account in use. *)
KeepTick(c) ==
  /\ "account" \in Outside
  /\ keep[c] = "waiting"
  /\ keep' = [keep EXCEPT ![c] = IF sip = c /\ registered THEN "refreshing" ELSE "off"]
  /\ UNCHANGED <<callVars, sip, registered, registerMu, conn, onBye, otherVars,
                 offerVars, peerVars, legVars>>

KeepSucceeds(c) ==
  /\ keep[c] = "refreshing"
  /\ conn[c] = "open"
  /\ keep' = [keep EXCEPT ![c] = "waiting"]
  /\ UNCHANGED <<callVars, sip, registered, registerMu, conn, onBye, otherVars,
                 offerVars, peerVars, legVars>>

(* A failed refresh keeps g.sip, so that a call goes on without account;   *)
(* mutants: it does not, or it is taken for the account's in use.          *)
AccountLost(c) == (sip' = IF sip = c THEN Nil ELSE sip) /\ registered' = (registered /\ sip # c)
AnyoneLost(c) == sip' = sip /\ registered' = FALSE
RefreshLost(c) == sip' = sip /\ registered' = (registered /\ sip # c)

KeepFails(c) ==
  /\ keep[c] = "refreshing"
  /\ keep' = [keep EXCEPT ![c] = "off"]
  /\ RefreshLost(c)
  /\ UNCHANGED <<callVars, registerMu, conn, onBye, otherVars, offerVars,
                 peerVars, legVars>>

(* handleLogout up to the un-REGISTER, of which only the delay matters. *)
LogoutBegin ==
  /\ "account" \in Outside
  /\ registerMu.step = "free"
  /\ ~Active
  /\ ClearCall
  /\ DropAccount
  /\ registerMu' = IF sip = Nil THEN Free
                   ELSE [step |-> "logout", client |-> sip, old |-> Nil]
  /\ UNCHANGED <<conn, onBye, keep, otherVars, offerVars, peerVars, legVars>>

LogoutEnd ==
  /\ registerMu.step = "logout"
  /\ conn' = [conn EXCEPT ![registerMu.client] = "closed"]
  /\ registerMu' = Free
  /\ UNCHANGED <<callVars, sip, registered, onBye, keep, otherVars, offerVars,
                 peerVars, legVars>>

-----------------------------------------------------------------------------
(***************************************************************************)
(* POST /api/shutdown runs g.Close while the HTTP server still serves.     *)
(* Handlers and goroutines go on after it returned, until the process      *)
(* exits, which may be at any moment.  Bound: one such request.            *)
(***************************************************************************)
ShutdownBegin ==
  /\ "shutdown" \in Outside
  /\ shutdown.stage = "running"
  /\ shutdown' = [stage |-> "closing", dialog |-> call.dialog, client |-> sip]
  /\ ClearCall
  /\ DropAccount
  /\ peerState' = PeerClosing(peerState, call.peer)
  /\ UNCHANGED <<registerMu, conn, onBye, keep, codec, audioPCM, offerVars,
                 peerEvents, endings, legVars, lastInvite>>

(* The BYE, the un-REGISTER and the closing of the client of that moment.  *)
ShutdownEnd ==
  /\ shutdown.stage = "closing"
  /\ leg' = IF /\ shutdown.dialog # Nil /\ shutdown.client # Nil
               /\ conn[shutdown.client] = "open"
              THEN [leg EXCEPT ![shutdown.dialog] = "down"] ELSE leg
  /\ conn' = IF shutdown.client # Nil
               THEN [conn EXCEPT ![shutdown.client] = "closed"] ELSE conn
  /\ shutdown' = [stage |-> "closed", dialog |-> Nil, client |-> Nil]
  /\ UNCHANGED <<callVars, sip, registered, registerMu, onBye, keep, codec,
                 audioPCM, offerVars, peerVars, rbye, hangups, byes,
                 lastInvite>>

-----------------------------------------------------------------------------
(***************************************************************************)
(* The specification.                                                      *)
(***************************************************************************)
Offer(o) ==
  OfferBusy(o) \/ OfferUnregistered(o) \/ OfferNoAudio(o) \/ OfferAccept(o)

(* What the goroutines of an accepted attempt do without waiting for the   *)
(* far end. *)
Proceed(o) ==
  \/ PeerCreate(o) \/ SetupFails(o) \/ Publish(o) \/ PublishCancelled(o)
  \/ DialBegin(o) \/ DialInvite(o) \/ Connect(o) \/ LateAnswer(o)
  \/ AnnounceBegin(o) \/ AnnouncePlay(o) \/ AnnounceAbort(o)
  \/ AnnounceFails(o) \/ AnnounceComplete(o) \/ AnnounceEnd(o)
  \/ FailRead(o) \/ FailCall(o)

(* The INVITE transaction ends, by an answer or by its timers. *)
InviteEnds(o) == InviteError(o) \/ InviteRejected(o) \/ InviteAnswered(o)

Registration ==
  \/ \E c \in Clients : RegisterBegin(c)
  \/ LogoutBegin
  \/ \E c \in Clients : KeepTick(c) \/ KeepSucceeds(c) \/ KeepFails(c)

(* registerMu is held and its holder goes on. *)
RegistrationProceeds ==
  \/ RegisterCloseOld \/ RegisterCreate \/ RegisterFails \/ RegisterSucceeds
  \/ RegisterCallback \/ LogoutEnd

Far(o) == InviteResend(o) \/ RtpIn(o) \/ RemoteBye(o) \/ PeerFails(o)

Pion == \E o \in Calls, kind \in {"failed", "closed"} :
          PeerEvent(<<o, kind>>) \/ PeerEventEnds(<<o, kind>>)

Next ==
  \/ \E o \in Calls :
       \/ Offer(o) \/ Proceed(o) \/ InviteEnds(o) \/ Far(o)
       \/ PeerCloses(o) \/ RemoteHangup(o)
       \/ \E c \in Clients : SendBye(c, o)
  \/ Pion \/ Hangup \/ HandleAudio \/ TraceForgets
  \/ Registration \/ RegistrationProceeds
  \/ ShutdownBegin \/ ShutdownEnd

Spec == Init /\ [][Next]_vars

(* The Go scheduler runs every goroutine that can go on, and every INVITE  *)
(* ends by its timers.  Nothing is assumed of the user, the browser, the   *)
(* far end or the media.  (Once Close has returned the process may exit    *)
(* and no property below asks for anything.)                               *)
Fairness ==
  /\ \A o \in Calls :
       /\ WF_vars(Proceed(o))
       /\ WF_vars(InviteEnds(o))
       /\ WF_vars(RemoteHangup(o))
       /\ WF_vars(PeerCloses(o))
       /\ \A c \in Clients : WF_vars(SendBye(c, o))
  /\ WF_vars(Pion)
  /\ WF_vars(RegistrationProceeds)
  /\ WF_vars(ShutdownEnd)

FairSpec == Spec /\ Fairness

-----------------------------------------------------------------------------
(***************************************************************************)
(* Correctness: safety.                                                    *)
(***************************************************************************)

(* The attempt was accepted: it has been current. *)
Began(o) == pc[o] \notin {"new", "refused"}

(* A call never outlives the account it runs on: register, logout and      *)
(* shutdown only take g.sip away while no call is active, and a failed     *)
(* keepalive leaves it.                                                    *)
ActiveHasClient == Active => sip # Nil

(* There is one SIP port: in whatever order handleRegister, handleLogout,  *)
(* registrationFailed and Close run, the client in use is an open one, and *)
(* re-registering finds the port free, since every earlier client has been *)
(* closed by then (unless the program is shutting down).                   *)
OneSocket ==
  /\ sip # Nil => conn[sip] = "open"
  /\ registerMu.step = "create" /\ shutdown.stage = "running" =>
       \A c \in Clients : conn[c] # "open"

(* g.dialog is the current attempt's own and g.sip is the client that      *)
(* placed it, so that endCall sends the BYE through the right account.     *)
DialogViaSip ==
  call.dialog # Nil => call.dialog = call.callSeq /\ client[call.dialog] = sip

(* A connected call has its own browser leg, its own SIP leg and somewhere *)
(* to send media to.                                                       *)
ConnectedComplete ==
  call.callState = "connected" =>
    /\ call.callSeq # Nil
    /\ call.dialog = call.callSeq
    /\ call.peer = call.callSeq
    /\ call.sipTarget # Nil

(* A browser leg that was published is g.peer or being closed: no path     *)
(* clears g.peer without closing what it held.                             *)
PublishedPeerOwned ==
  \A o \in Calls : peerState[o] \in {"open", "lost"} => call.peer = o

(* An idle gateway keeps nothing of the calls before it that the next one  *)
(* could mistake for its own.  (webTrack and announcementState are the     *)
(* exceptions: newPeer and playAnnouncement write them without a test.)    *)
IdleIsClean ==
  call.callState = "idle" =>
    [call EXCEPT !.webTrack = Nil, !.announcementState = "",
                 !.rtpReadyOnce = FALSE] = Cleared

(* The channel an announcement waits on is closed by the first packet of   *)
(* its own call, and never twice (the second close would panic).           *)
ReadyOnce ==
  /\ Active => (call.rtpReadyOnce <=> call.rtpReady = "closed")
  /\ call.rtpReady = "closed" => call.rtpReadyOnce

(* What is played to the far end of the current call is the upload and the *)
(* codec of that call, although playAnnouncement reads both before it      *)
(* knows whether it is still current.                                      *)
AnnouncementOwnData ==
  \A o \in Calls : pc[o] = "playing" /\ Current(o, "connected") =>
    take[o] = <<o, audioPCM>> /\ audioPCM # 0

(* The context of an attempt is cancelled exactly when it is no longer the *)
(* current one: a pending INVITE is abandoned on hangup, never before.     *)
ContextFollowsCall ==
  \A o \in Calls : Began(o) => (o \in cancelled <=> call.callSeq # o)

(* Once media has been heard, the address of the SDP never replaces the    *)
(* address it came from within the call (symmetric RTP).                   *)
SymmetricWins ==
  [][\A o, q \in Calls :
       call.callSeq = o /\ call'.callSeq = o /\ call.sipTarget = <<o, "rtp">>
         => call'.sipTarget # <<q, "sdp">>]_vars

(* The Call-ID shown with a call that has sent its INVITE is its own:      *)
(* stale dial goroutines and the trace never put another's in its place.   *)
CallIDIsOwn ==
  \A o \in Calls : call.callSeq = o =>
    /\ Active => call.callID \in {Nil, o}
    /\ leg[o] # "none" => call.callID = o

(* A BYE of another call's far end is taken for the hangup of this one. *)
StrayHangup(o) == \E q \in Calls \ {o} : hangups'[q] < hangups[q]

(* A connected call that goes back to idle leaves nobody on the line: its  *)
(* own far end has hung up before, a BYE is on its way on the client that  *)
(* placed the call, whose socket is still open, or Close has taken the     *)
(* dialog and that client over and sends the BYE itself.  The exception is *)
(* a stray hangup, for which the code sends none.                          *)
ConnectedEndsWithBye ==
  [][\A o \in Calls :
       Current(o, "connected") /\ call'.callState = "idle" /\ ~StrayHangup(o) =>
         \/ leg[o] = "down"
         \/ Reachable(o) /\ \/ <<client[o], o>> \in byes'
                            \/ shutdown'.dialog = o /\ shutdown'.client = client[o]]_vars

(* The gateway implements the abstract life cycle: one call at a time, no  *)
(* way back to an earlier attempt.                                         *)
Over == {o \in Calls : Began(o) /\ call.callSeq # o}

Abs == INSTANCE CallLifecycle
         WITH state <- call.callState, current <- call.callSeq, over <- Over

AbsSpec == Abs!Spec

(* Through the same handlers, keepRegistered and Close it implements the   *)
(* abstract account: one that was dropped is not brought back by anything  *)
(* that was under way, and nobody else's keepalive takes it for lost.      *)
Registering == IF registerMu.step = "register" THEN registerMu.client ELSE Nil
Created     == {c \in Clients : conn[c] # "none"}
Refreshing  == {c \in Clients : keep[c] = "refreshing"}

Account == INSTANCE AccountLifecycle
             WITH account <- sip, pending <- Registering, spent <- Created,
                  refreshing <- Refreshing

AccountSpec == Account!Spec

-----------------------------------------------------------------------------
(***************************************************************************)
(* Correctness: liveness, under FairSpec.                                  *)
(***************************************************************************)
Closed == shutdown.stage = "closed"

(* No call stays "connecting" for ever: it connects, fails, or is ended.   *)
ConnectingEnds ==
  \A o \in Calls : Current(o, "connecting") ~> ~Current(o, "connecting") \/ Closed

(* A call that plays a file hangs up by itself when the file has ended.    *)
AnnouncementEnds ==
  \A o \in Calls :
    Current(o, "connected") /\ call.audioMode = "file"
      ~> ~Current(o, "connected") \/ Closed

(* A far end that answered after the user had hung up is hung up on, as    *)
(* long as its client is there.                                            *)
LateAnswerHungUp ==
  \A o \in Calls :
    pc[o] = "answered" /\ call.callSeq # o
      ~> leg[o] = "down" \/ ~Reachable(o) \/ Closed

-----------------------------------------------------------------------------
(***************************************************************************)
(* What the documentation, the comments and the tests say and the code     *)
(* does not do; each is the one property of a run that refutes it.         *)
(***************************************************************************)

(* A notification of one call's browser leg, or a BYE of its far end, ends *)
(* no other call.                                                          *)
StaleEventHarmless ==
  [][\A o \in Calls :
       Active /\ (RemoteHangup(o) \/ \E kind \in {"failed", "closed"} : PeerEventEnds(<<o, kind>>))
         => call.callSeq = o]_vars

(* A leg that was answered is the current dialog, or about to become it,   *)
(* or about to be ended by a BYE, as long as its client is there.          *)
LegReleased ==
  \A o \in Calls :
    leg[o] = "up" /\ pc[o] = "done" /\ Reachable(o) =>
      \/ call.dialog = o
      \/ <<client[o], o>> \in byes
      \/ shutdown.dialog = o
=============================================================================
