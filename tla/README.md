# Line One in TLA+

Line One is a web phone: a Go gateway that bridges one browser (WebRTC, through
Pion) to one SIP account (UDP), with a small SIP client of its own and a page
that drives it. This directory specifies its call control, its account, its SIP
client and trace, the dialler of its page, and its formats and codecs; TLC
checks them on small instances, and TLAPS proves, for every value of the
constants, each safety and action property that the passing runs check but one
(about the G.711 encoders, which TLC runs on every sample there is), and the
refinements of two abstract specifications. Paths below are relative to the
repository.

## The system

| component | source | state it keeps | operations |
| --- | --- | --- | --- |
| call control | `internal/gateway/gateway.go` | the `Gateway` struct behind `g.mu`: `callState`, `callSeq`, `callCancel`, `peer`, `webTrack`, `sipTarget`, `dialog`, `callID`, `rtpReady`, `announcementState` | `/api/offer`, `/api/hangup`, `/api/audio`, `dial`, `playAnnouncement`, `readSIPRTP`, Pion's and the SIP client's callbacks |
| account | same file | `sip`, `registered`, behind `g.mu`; `registerMu` serialises the handlers | `/api/register`, `/api/logout`, `keepRegistered` |
| SIP client | `internal/sip/client.go` | socket, `waiters`, `cseq`, `onBye` | `Register`, `Unregister`, `InviteWithCallID`, `Bye`, `receive`, `Close` |
| SIP trace | `internal/sip/trace.go` | the last 500 packets | `Add`, `Query`, `LatestCallID`, `Clear` |
| messages, digest | `internal/sip/message.go`, `digest.go` | none | parse, build, authorise |
| media | `internal/media/*.go` | none | G.711, SDP, WAV |
| program | `cmd/gateway/main.go` | none | start, `/api/shutdown` |
| configuration | `internal/config/config.go` | none | environment, `.env`, fallbacks |
| page | `web/app.js` | the dialler's own view of the call, history, trace | polls of status and trace, dial, hang up |
| command line | `cmd/phone-cli/main.go` | none | one registration, one call |

How they meet. The page calls the HTTP handlers. `handleOffer` accepts a call
(a new `callSeq`, state `connecting`), builds a PeerConnection outside the lock,
stores it if the call is still the current one and starts `dial`. `dial` asks
the SIP client for an INVITE, whose responses `receive` hands over through
`waiters`; a 2xx makes the call `connected` and, in file mode, starts
`playAnnouncement`. Every other goroutine can end the call at any time: a hangup,
a failing browser leg (Pion's callback), a BYE of the far end (the client's
callback), a failure of the call itself, `Close`. All of them go through
`clearCallLocked`, which moves `callSeq` on; a goroutine of an earlier call is
meant to notice that its number is no longer the current one. The trace outlives
calls and is where `failCall` looks for a Call-ID. The page learns what happened
by polling `/api/status`; it keeps its own variables for the call, which several
of its own continuations change.

What is hard: goroutines of a call that is over go on (`handleOffer`, `dial`,
`playAnnouncement`, both callbacks, `g.bye`); locks are given up between a test
and the act it is for; the account can go while its client is in use; UDP loses,
repeats and reorders; a request is cancelled while its answer is on the way.
The list of hazards, each at its line and with the properties that watch it, is
`hazards` of `PROJECT.json`.

What makes each part correct: a connected call is complete and its own (browser
leg, dialog, client, target, Call-ID); an ended call ends both its legs and
leaves nothing behind; an ended attempt never comes back; the account in use can
be used, and the gateway does not take it for registered for long when it is not;
an operation of the SIP client has the answer to its own request, and an
accepted INVITE is not forgotten; the trace shows each message once; the page is
locked on a call exactly while the gateway is in it, and records each call once;
sound keeps its level and its length.

## Modules

| module | what it is |
| --- | --- |
| `CallLifecycle` | abstract: one call attempt at a time, `connecting`, `connected`, `failed`, and no way back to an attempt that was replaced or ended |
| `AccountLifecycle` | abstract: one account at a time, each client taken into use at most once; nothing that was under way brings a dropped or lost account back, and only its own keepalive loses it |
| `Gateway` | call control and account: every handler, goroutine and callback of `gateway.go` |
| `GatewayProofs` | the inductive invariant of `Gateway`, and what follows from it |
| `GatewaySafetyProofs` | its other safety and action properties: what ends with a call, the one socket; that it implements `AccountLifecycle` |
| `Registration` | the same account in time, at a registrar that keeps bindings |
| `RegistrationProofs` | its invariants and theorems; that it implements `AccountLifecycle`, too |
| `SipClient` | the transactions of `client.go` over an unreliable network |
| `SipClientProofs` | the inductive invariant of `SipClient` and the theorems |
| `TraceBuffer` | `trace.go` with a page that reads it |
| `TraceBufferProofs` | its invariants and theorems |
| `WebPhone` | the dialler of `app.js` with `CallLifecycle` for the gateway |
| `WebPhoneProofs` | its invariants and theorems |
| `G711`, `Wav`, `Sdp`, `Rtp`, `SipRoutes`, `Config` | pure functions, as operators |
| `MCGateway`, `MCRegistration`, `MCSipClient`, `MCTraceBuffer`, `MCWebPhone` | the above for TLC (symmetries, where there are any) |
| `MCFormats` | inputs for the pure functions and what is expected of them |
| `FormatsProofs` | that this comes of inputs of any length |
| `FoldProofs` | lemmas: induction, greatest elements, folds and their runs, selections from sequences |

How they fit together. `Gateway` is shown to implement `CallLifecycle` (run
`calls`, theorem `ImplementsLifecycle`), and `WebPhone` runs against
`CallLifecycle`: whatever it says of the page and the gateway rests on nothing
else. `Gateway` sees an INVITE from outside, as an error, a rejection or an
answer; `SipClient` is its inside. `Gateway` and `Registration` describe the same
handlers: the first with every critical section and the call, the second with
time, the registrar and a process that ends and starts again. Both are shown to
implement `AccountLifecycle` (`AccountSpec` in the runs `accounts` and
`registration`, the two theorems `ImplementsAccount`): what each leaves out does
not make them disagree about whose account it is. A `Begin` of the abstract account
is `RegisterCreate` in `Gateway` (the client exists from there on) and `RegisterBegin`
in `Registration`, which has closed the old client by then. `Gateway` keeps of the trace the one entry `failCall`
asks for; that `LatestCallID` finds it is `TraceBuffer`'s matter.

### Gateway

One action is one critical section of `g.mu`, or one call a goroutine makes
between two of them; a handler that is refused and changes nothing is a
stuttering step, or an action when a goroutine ends by it. An attempt `o` in
`Calls` is one POST of `/api/offer` with the goroutines that descend from it;
`pc[o]` says where they are. `c` in `Clients` is one POST of `/api/register`
with its `sip.Client` and its `keepRegistered`. `call` holds the fields that
`clearCallLocked` resets. `g.callSeq` is only compared with the number an
attempt was given, so it is the attempt itself, or `Nil` when `clearCallLocked`
has moved it on.

| code | actions |
| --- | --- |
| `handleOffer`, `newPeer` | `OfferBusy`, `OfferUnregistered`, `OfferNoAudio`, `OfferAccept`, `PeerCreate`, `SetupFails`, `Publish`, `PublishCancelled` |
| `dial` | `DialBegin`, `DialInvite`, `InviteResend`, `InviteError`, `InviteRejected`, `InviteAnswered`, `Connect`, `LateAnswer` |
| `playAnnouncement`, `endCallForSeq` | `AnnounceBegin`, `AnnouncePlay`, `AnnounceAbort`, `AnnounceFails`, `AnnounceComplete`, `AnnounceEnd` |
| `failCall` | `FailRead`, `FailCall` |
| `handleHangup`, `handleAudio`, `handleSignaling` | `Hangup`, `HandleAudio`, `TraceForgets` |
| `readSIPRTP` | `RtpIn` |
| `OnConnectionStateChange` | `PeerEvent`, `PeerEventEnds`; Pion itself: `PeerCloses`, `PeerFails` |
| `receive` (BYE), `remoteHangup`, `g.bye` | `RemoteBye`, `RemoteHangup`, `SendBye` |
| `handleRegister`, `registrationFailed` | `RegisterBegin`, `RegisterCloseOld`, `RegisterCreate`, `RegisterFails`, `RegisterSucceeds`, `RegisterCallback` |
| `keepRegistered` | `KeepTick`, `KeepSucceeds`, `KeepFails` |
| `handleLogout` | `LogoutBegin`, `LogoutEnd` |
| `Close` | `ShutdownBegin`, `ShutdownEnd` |

Left out: `lastError`, `sipServer`, `sipUser`, `mediaTarget` and the counters,
which no branch reads; the contents of SDP, RTP and SIP. `InviteWithCallID` is
seen from outside (an error, a rejection or an answer); `SipClient` is its
inside. An unusable SDP is a choice at the answer. Media frames are one step:
what matters is whether a frame is still followed by another.

### SipClient

A dialog `d` is a Call-ID and the goroutine that works on it: a REGISTER (or
un-REGISTER), or an INVITE and the BYE of its dialog. `tx[d]` is its transaction
and its entry in `waiters`. `sent` and `replies` only grow: a packet may be
processed any number of times, in any order, or never, which covers loss,
repetition, delay and reordering, and retransmissions without a copy of the
packet. The far end decides once about each request. Responses are 100, 200, 401
and 486 (any other refusal, 487 included).

### Registration

`op[o]` is the REGISTER or un-REGISTER that a handler (`"handler"`, under
`registerMu`), `Close` (`"close"`) or the `keepRegistered` of a client has under
way, with the time it still may take (the timeout of its context) and its fate
at the registrar. `RegisterBegin` is `handleRegister` up to its REGISTER,
`RegisterSucceeds` and `RegisterFails` the rest; `LogoutBegin`/`LogoutEnd` and
`ShutdownBegin`/`ShutdownEnd` likewise; `KeepTick` is a tick of the ticker, which
goes on counting during the keepalive (`NextTick`). `Crash` and `Restart` are the
process. The registrar keeps one binding with its remaining time, may forget it
and may get another password; a REGISTER that outlives its operation (`late`)
may still be carried out. Time advances by `Tick`, in units of 10 s, and not
past a timer that is due. Calls are left out: they only make handlers refuse.

### TraceBuffer

`nextID` and `entries` are the fields of the buffer; `Add`, `Query`,
`LatestCallID` and `Clear` its methods. A page has `traceEntries`, `lastTraceID`,
`traceCallID` (`history`; a live view when it is empty) and the dialog; `reads`
are its requests under way, each first handled by `handleSignaling` (`Handle`)
and then received (`Receive`). `Poll` is `refreshTrace`. The filter, the pause
button and the drawing are left out.

### WebPhone

`start[c]` says at which `await` the `startCall` of a call is, `offer[c]` where its
POST is; `page` has the page's variables, its one status poll
(`isRefreshingStatus`) and its one hangup (`isHangingUp`).

| code | actions |
| --- | --- |
| `startCall` | `StartCall`, `AudioReady`, `AudioRefused`, `IceComplete`, `Answered`; its `catch` and the callback of its PeerConnection: `Caught`, `ConnectionFails`, `Synced` |
| `hangup`, `recordCall` | `HangupClick`, `TraceRead`, `HangupDone` (operators `Hangup`, `Record`, `Tell`, `Finish`) |
| `refreshStatus` | `Poll`, `Refresh` |
| page load | `Init`, `Reload` |
| gateway: `handleOffer`, `handleStatus`, `handleHangup` | `HandleOffer`, `Negotiated`, `HandleStatus`, `HandleHangup`; `HangupLost` when the POST of a hangup fails |
| gateway: the rest | `Elsewhere` (a step of `CallLifecycle`) |

`page.call` is `activeNumber` with `callStartedAt`: calls are told apart by who
started them. The timer, the colours, Call-IDs and the account are left out: that an
idle gateway refuses an offer, for want of an account or of audio, is a choice of
`HandleOffer`. Of all requests only a hangup may get lost: a poll is repeated, and an
offer that is lost ends in the same `catch` as one that is refused.

### The formats

`MCFormats` grows one input at a time - a sample, a recording, a file, an answer,
a speech, header values, settings - and compares what the code's function makes
of it with a definition of what should come of it: the ITU decoder for `G711`,
the loudness and length of the recording for `Wav`, the chunks a RIFF writer laid
out, the section of the SDP an address belongs to, what a far end hears that
plays every packet at its timestamp, the routes that were put into the headers,
the first source that has a setting. `Wav` works on bytes because the widths of
samples are what can go wrong there; the other modules on what remains of the
text after splitting it into lines and fields.

## Runs

| run | instance | what it shows |
| --- | --- | --- |
| `accounts` | 2 attempts, 2 accounts, late and lost BYEs, shutdown | accounts and calls interleave in every order: the client in use is open, the port is free when it is bound, a call has its client, its dialog is its own and was set up by that client, a connected call ends with a BYE on it; refinement of `AccountLifecycle` |
| `calls` | 2 attempts, 1 account, BYEs, browser legs that fail or close | a connected call is complete, shows its own Call-ID while INVITEs are repeated into the trace and the trace is cleared; a browser leg is closed, a context cancelled when its call ends; refinement of `CallLifecycle` |
| `media` | 2 attempts, both audio modes, 2 uploads, RTP from both far ends | an idle gateway is clean; announcements play their own data; `rtpReady` is closed once; symmetric RTP wins |
| `live` | 2 attempts in file mode, fair | no call connects for ever; an announcement ends its call; a late answer is hung up |
| `registration` | 3 registrations, 2 faults (password or forgotten binding) | the gateway is wrong about being registered for at most a period and a keepalive; a logout or shutdown that was granted leaves no binding; refinement of `AccountLifecycle` |
| `sip_client` | 2 Call-IDs, 3 numbered requests, channel of 2 | a transaction is handed the answer to its own request, success is justified, a cancelled INVITE gives no dialog, a far end that accepted is held, cancelled or timed out, CSeq increases |
| `trace` | buffer of 2, page of 3, 4 entries, 2 requests at once | a page shows each entry once and in order and misses none that is kept; the newest INVITE is found |
| `phone` | 2 calls after an earlier one, history of 2, 1 reload, fair | calls are recorded once; the page is locked while the gateway is in its call; an ended call ends on the page |
| `formats` | all 16-bit samples; 5 bytes, 3 chunks, 7 samples, 4 routes, 3 lines | the pure functions agree with their reference definitions |

Each module has one type invariant. Those of `SipClient` and `Registration` are
in no run: they are proved (`TypeCorrect`).

The bounds. The hazards are between a call and the next one, or between an account
and the next one: two of each reach them. Attempts, accounts and Call-IDs are
interchangeable, so their permutations are symmetries (not used where liveness is
checked). `Outside` selects per run what may happen from outside, so that each run
pays only for the disturbances its properties are about: `accounts` has no Pion
reports and no repeated INVITEs, `calls` no logouts, keepalives or shutdown and
loses no BYE. `"closed"` lets Pion report the legs that were closed, `"loss"` loses
a BYE of the gateway with all its retransmissions. `MaxByes` bounds the BYEs of a
far end: one is enough, since it may come during its own call, or late, when the
gateway's own BYE was lost or is still on its way and the next call is current.
Media comes from far ends that were invited, and never from the address in their SDP
(the one whose change matters). `MaxUploads` bounds the uploads that are in use at
the same time - stored, or captured by a `playAnnouncement` - and an upload has a
number that no other in use has; `MaxCSeq` the numbered requests (three are a
challenged INVITE and its BYE). `MaxRetries` and `InboxSize` are 6 and 8 in the
code; nothing but their being reached matters, so they are small. One shutdown
suffices: nothing undoes it. In `registration` a third account lets a client that
was logged out and a late REGISTER meet the one in use; a binding lasts 6 units
instead of 30, which is still longer than a period and a keepalive
(`RegistrationAssumption`). In `trace` the buffer overflows twice and is cleared in
between, and the page keeps more than the buffer, so that it shows entries the
buffer has forgotten. `phone` has two calls for the same reason as `calls`, and one
before them, so that the history of two overflows. In `formats` recordings reach
beyond one frame of 16-bit stereo, packets are of 3 samples, and the counters of 2
and 5 bits wrap around; the rates are below, at and above 8000 Hz, multiples and
not. Deadlock is checked in every run but `formats`, whose bounded inputs have an
end: elsewhere a hangup, a poll, a tick or a close is always possible.

Fairness. `FairSpec` of `Gateway` assumes what the Go scheduler gives: a
goroutine that can go on does. `InviteEnds` is fair because `dial` gives the
INVITE a context of 35 s. `RegistrationProceeds` is fair because the REGISTER
has one of 15 s (5 s at logout). Nothing is assumed of the user, the browser,
the far end or the media. `Spec` of `WebPhone` assumes `WF` of the steps of a
hangup that has begun and of the status poll: the browser runs continuations and
timers, and the two handlers they wait for never wait themselves. It assumes
nothing of calls, users, microphones or the gateway's call.

### What the code does not do

Each of these runs has one property, taken from a document, a comment or a test,
that TLC refutes (details and quotations in `findings` of `PROJECT.json`):

| run | what happens |
| --- | --- |
| `stale_event` | `pc.Close` of a call that was hung up reports `closed`; the callback ends whatever call is active by then. A BYE is not matched with a dialog either: one that is late or repeated ends the next call |
| `leg` | a 2xx whose SDP cannot be used fails the call and leaves the leg up |
| `trying` | a REGISTER answered by `100 Trying` is a failed registration, and a lost one when it was a keepalive |

More deviations have no run of their own. Of most no text of the repository promises
the contrary. `docs/PRODUCT_INTRO.md:58` does say that the page locks key settings
during a call, and the calls the page loses (below) break that for the page; the
gateway itself refuses a register, a logout or an upload during any call with 409. The
properties say where they stop short of these deviations.

* A BYE of another call's far end ends a connected call without a BYE for its own (the
  run `stale_event` shows it; `ConnectedEndsWithBye` names it, `StrayHangup`, as its one
  exception).
* A connected call that fails - its announcement cannot be written - keeps its dialog
  while it is `failed`, and the next offer, register or logout clears it without a BYE
  (`ConnectedEndsWithBye` is about calls that go from connected to idle).
* `newPeer` stores `webTrack` without a test, so an offer that was cancelled during
  its setup takes over the current call's downlink (`ConnectedComplete` and
  `IdleIsClean` leave `webTrack` out).
* Late RTP of the call before redirects the next one (`SymmetricWins` is about one
  call).
* A call that fails before its INVITE shows an earlier call's Call-ID
  (`CallIDIsOwn` is about active calls and calls that were sent).
* A far end that answers before it gets the CANCEL, or whose answers are lost until
  the retransmissions run out, is never hung up on (`LegAccounted`).
* A keepalive under way at a logout may register the account again
  (`LogoutUnbinds` is about logouts without one).
* The page loses a call: it is hung up on the page before the gateway has its offer
  (while the microphone is asked for, right after the offer was sent, or by a poll
  that finds the gateway still idle), the POST of the hangup fails (its `catch` is
  empty), or the page is reloaded. Such calls are in `raced`, and `LockedDuringCall` is
  about the others.
* A call that is started while a hangup is still under way - the `catch` of an older
  `startCall`, a second hangup of an idle page - may be unlocked by it and go
  unrecorded (`crossed`; `HistoryComplete` and `LockedDuringCall` stop there).
* Trace requests that overlap show entries twice, or those of one call as all of
  them (`mixed`, where `TraceFollowed` stops).
* A dialog's routes are kept in the order of the 2xx, and a UAC should reverse it;
  `RoutesKept` states the order the code keeps.

## Proofs

`GatewayProofs` proves, for any sets of attempts and accounts and any bounds,
from `GatewayAssumption` alone:

* `TypeCorrect`: `Spec => []TypeOK`. `TypeOK` is split in groups of variables;
  each action has one step for each group it changes.
* `InvariantHolds`: `Spec => []IInv`, the inductive invariant
  `TypeOK /\ ControlInv`. None of the properties is inductive as it stands. That
  a connected call is complete needs what holds while it connects (the stage of
  its goroutines and the peer that was published before `dial` began: `StageInv`
  and `LegInv`), that the client of the attempt is the one in use (no account
  can be dropped while a call is active: `AccountInv`), and that `callSeq` names
  an attempt that was accepted (`SeqInv`). `DialogInv`, `CancelInv` and
  `ContextFollowsCall` complete it. `ControlStep` has one step per action; the
  actions fall into those that leave the call alone (`QuietStep`), those that
  end it (`ClearStep`) and those that move one attempt on (`MoveStep`).
* `ActiveCallsHaveClient`, `DialogsOnTheirClient`, `ConnectedCallsComplete`,
  `ContextsFollowCalls`: the properties of the runs, from that invariant.
* `ImplementsLifecycle`: `Spec => AbsSpec`. The invariant tells which attempts
  are over; every action keeps the abstract state, ends the call, or is one of
  `OfferAccept`, `Connect`, `FailCall`.

`SipClientProofs` proves, for any Call-IDs, any bounds and the network of
`SipClient`, from `SipClientAssumption` alone, every safety property of the run
`sip_client`: `TypeCorrect`, `AnswersOwn`, `SuccessIsReal`, `CancelIsFinal`,
`LegNotForgotten` and `NumbersOrdered`. The inductive invariant (`IInv`, checked by
TLC before) ties the packets to the goroutines: a number is used by one request of
a Call-ID and is the highest while its transaction waits (`NumberInv`,
`StageInv`), which is why a key without a method is enough; ACK and CANCEL belong to
an INVITE (`CancelInv`); a response answers a request and is in the channel of
nobody else (`ReplyInv`, `InboxInv`); the far end decides once (`DecidedOnce`); an
earlier INVITE of a Call-ID was challenged (`InviteInv`), and one that ended without a
dialog was refused, cancelled, timed out or closed (`EndedInv`). `AttemptStep`,
`FinishStep`, `InnerStep` and `ReplyStep` show that it is kept by each kind of step.
That the far end decides once is an assumption on the far end, made by `Decide`.

`GatewaySafetyProofs` rests on `InvariantHolds`. Each property has a strengthening
of its own, and each group of variables a lemma that says which actions write it
(`CallSteps`, `PeerSteps`, `LegSteps`, `AudioSteps`, `EndSteps`, `AccountSteps`), so
that a proof has to look only at those.

* `IdleGatewayIsClean`, `ReadyClosedOnce`, `HeardTargetStays`: from the fields of an
  idle call, and from the fact that an active one has its channel (`ReadyInv`).
* `PublishedPeersOwned`: before the current attempt publishes its leg, and after a
  call, there is none that a handler could overwrite unclosed (`PeerInv`).
* `CallIDsAreOwn`: whatever names a dialog - the call, a goroutine, a BYE under
  way - names one whose INVITE was sent (`LegKnown`).
* `AnnouncementsOwnData`: what `playAnnouncement` captured early is still the
  upload of its call when that call is the current one (`AudioInv`).
* `ConnectedCallsEndWithBye`: of the steps that end a connected call (`EndSteps`), the
  callback of a BYE says that the far end it names is gone: a callback runs only for a
  far end that has sent one, and no leg comes up again after that (`HungUpInv`, which
  needs `LegKnown`). All others read dialog and client while they are still those of
  the call, and the client is open (`OneSocketInUse`). The formula asks for one of
  three: the call's own leg is down, a BYE is under way on the open client that
  placed it, or `Close` has both. It makes one exception, in so many words: the BYE of
  another call's far end (`StrayHangup`).
* `OneSocketInUse`: the client in use, the one being registered and the one to be
  closed are different (`SocketInv`), and every open socket is one of the three
  (`OpenOwned`): without that a failed registration could leave the port bound.
* `ImplementsAccount`: `Spec => AccountSpec`. A client that may be closed was created,
  and one whose request has not come to `sip.NewClient` was not (`CreatedInv`);
  `keepRegistered` runs at most once for it (`KeepInv`). That only the account in use
  can be registered (`RegisteredInv`) is an invariant of the abstract specification,
  and is proved there (`RegisteredStep`).

`RegistrationProofs`, from `RegistrationAssumption`:

* `TypeCorrect`, with the shape of the operations under way (`TypeInv`).
* `LogoutsUnbind`: an un-REGISTER that began without a REGISTER under way stays
  alone, and when it was granted nothing is left that could register (`LeaveInv`).
* `LossesNoticed`: each goroutine of `keepRegistered` is where its ticker says
  (`KeepInv`), the account in use is kept (`AccountInv`), and the time since a loss
  plus the time until the operation that will find it never exceeds a period and a
  keepalive (`TimelyInv`). That proof needs the measure of a stale password to
  start again at a new registration; with one fault, TLC could not tell.
* `ImplementsAccount`: `Spec => AccountSpec`, across crashes, restarts and answers that
  come late. While a first REGISTER is under way there is no account (`VacantInv`,
  again an invariant of the abstract specification); that its client is not being
  kept yet is in `AccountInv`.

`TraceBufferProofs`, for any limits of buffer and page:

* `LatestFound`: the entries kept are the last that were added (`BufferInv`), and the
  newest INVITE is where its number says (`NewestInv`).
* `TraceIsFollowed`, `TypeCorrect`: nothing on the page or in an answer under way is
  newer than the buffer (`PageInv`); what an answer has and what the page shows fit
  together without a gap that is still kept (`FollowInv`).

`WebPhoneProofs`, for any number of calls and any history:

* `TypeCorrect`; `HistoryIsComplete`: the call shown is the last one started
  (`LastStarted`) and all others are recorded, unless one was started during a hangup
  (`HistoryInv`).
* `PageIsLocked`: a page that shows a call is locked or has lost it, and so is lost
  whatever call the gateway is in when it has answered a hangup (`LockInv`).

`FormatsProofs`, for inputs of any length. The invariants say what the inputs of
`MCFormats` look like; the rest is induction along the input.

* `SpeechIsSent`, from `RtpAssumption`: every time of a speech is in one packet at
  one place (`Place`), also modulo the counters, since a speech is shorter than the
  range of the timestamps (`FormatsAssumption`).
* `AnswersUnderstood`, from `SdpAssumption`: the order of the lines an answer has
  (`AnswerInv`) decides which connection line is meant.
* `SettingsAreResolved`, from `ConfigAssumption`: what the first m lines make of the
  environment (`Resolved`).
* `ChunksAreFound` (a cut in the 8 bytes of a header is taken for the end of the file,
  as the code takes it): chunks lie where the reader looks for them, and only the last can
  be cut (`FileInv`); what the first m chunks make of the reader's variables
  (`Understood`).
* `RecordingsAreKept`: each number the mixer and the resampler compute lies between
  two samples of the recording, so that no conversion to 16 bits wraps around
  (`MeanBetween`, `Weighted`, `RoundedBetween`), and the length by division.
* `RoutesAreKept`: at the end of every header the scan is outside quotes and brackets
  (`Outside`), so that the comma between two routes splits them and no other does,
  whatever the routes before were (`RoutesInv`; `PlainScanned`, `BracketedScanned`,
  `NamedScanned` and `QuotedScanned` for the four forms a route has).

Induction over data: the theorems of the library that take an operator cannot be
used here. `FoldProofs` states induction over the naturals with sets instead
(`NatSets`, from the theorems about finite sets) and shows from it that the
recursive function inside `FoldLeft` exists and steps as it should (`FoldExists`).
A fold is the last state of a run (`FoldRuns`), and runs over sequences that begin
alike agree as far as these do (`RunsAgree`): that is how a scan of a text goes on
where the scan of its beginning ended.

What the proofs changed in the model. `SelectSeq` has no definition for the prover,
so `Query` of `TraceBuffer` and some reference definitions are written with indices,
and `RouteSet` is what the code has, a loop over the headers around a loop over the
values of one, instead of a selection from all of them.
`Bitwise` is recursive, so `Xor` is a sum of powers of two. Two `CASE`s had guards
that overlap, and a `CASE` does not say which of its branches is taken then: they are
`IF`s now. The assumptions on constants (all named) are checked by TLC in every run.

Only model-checked:

* liveness (`ConnectingEnds`, `AnnouncementEnds`, `LateAnswerHungUp`, `EndShown`): fairness
  and `ENABLED` are out of the prover's reach;
* `G711KeepsSound`: the run goes through all samples there are, so a proof would say
  no more;
* the properties of the three runs that TLC refutes.

## Plan

What is left: a refinement from `SipClient` to the view `Gateway` has of an INVITE;
an abstract specification of the trace that `Gateway` and `TraceBuffer` share, as they
share `AccountLifecycle` in the case of the account; and the command-line phone's
`main`, whose early exits leave calls and bindings behind.

## Not modelled

* The digest (`digest.go`): a hash of its inputs. What its failure does is
  `BadChallenge`.
* Parsing and building of SIP messages, redaction in the trace: text handling
  without state. Messages are records of the fields the code branches on.
* `main` of the command-line phone: a straight line over `SipClient`'s operations
  that stops at the first error; nothing interleaves with it. Its `play` is `Rtp`.
* The page's account forms, profiles, keypad, layout and drawing; its timer, and
  the conversion of uploads. They display the answers of handlers that `Gateway`
  has.
* `config.Load`'s question for a local address, the log file, opening the browser:
  I/O.
* Packaging, deployment, and `demo.py`, which is not part of the phone.
