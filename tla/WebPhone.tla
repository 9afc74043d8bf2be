------------------------------ MODULE WebPhone ------------------------------
(***************************************************************************)
(* The dialler of the web page (src/web/app.js) and the gateway it calls   *)
(* through.  The page is a program with one thread that gives it up at     *)
(* every await; startCall, refreshStatus, hangup and the callbacks of a    *)
(* PeerConnection go on in any order, and each call the user starts leaves *)
(* its own startCall behind.  The gateway is the life cycle CallLifecycle, *)
(* which Gateway implements; requests reach it, and answers reach the      *)
(* page, in any order.  Of all requests only a hangup may get lost: a poll *)
(* is repeated, and an offer that is lost ends as one that is refused.     *)
(***************************************************************************)
EXTENDS Naturals, FiniteSets, SequencesExt

CONSTANTS Calls,        \* the calls the user starts
          Earlier,      \* those that were over when the page was loaded first
          Nil,
          HistoryLimit, \* calls the history keeps (10)
          MaxReloads    \* bound: reloads of the page

ASSUME WebPhoneAssumption ==
  /\ Earlier \subseteq Calls /\ IsFiniteSet(Earlier) /\ Nil \notin Calls
  /\ HistoryLimit \in Nat \ {0} /\ MaxReloads \in Nat

VARIABLES
  state, current, over, \* the gateway: see CallLifecycle
  offer,    \* POST /api/offer of each call
  start,    \* startCall of each call: where it waits
  page,     \* the variables of the page, its poll and its hangup
  history,  \* callHistoryItems, newest first; kept over a reload
  reloads,
  started, raced, crossed \* history: see Correctness

Gateway == INSTANCE CallLifecycle

gateway == <<state, current, over>>
vars == <<state, current, over, offer, start, page, history, reloads, started, raced,
          crossed>>

Offers == {"none", "sent", "accepted", "ok", "error"}
Stages == {"none", "audio", "ice", "answer", "never", "over"}

TypeOK ==
  /\ state \in {"idle", "connecting", "connected", "failed"}
  /\ current \in Calls \cup {Nil} /\ over \subseteq Calls
  /\ offer \in [Calls -> Offers] /\ start \in [Calls -> Stages]
  /\ page \in [active : BOOLEAN,            \* isCallActive
               peer : Calls \cup {Nil},     \* whose PeerConnection
               call : Calls \cup {Nil},     \* activeNumber and callStartedAt
               poll : {"no", "sent", "read", "hanging"}, \* isRefreshingStatus
               seen : {"idle", "connecting", "connected", "failed"},
               hang : {"no", "trace", "posting", "posted"}, \* isHangingUp
               notify : BOOLEAN,            \* its argument
               syncing : SUBSET (Calls \X {"catch", "event"})]
  /\ history \in BoundedSeq(Calls, HistoryLimit)
  /\ reloads \in 0..MaxReloads
  /\ started \in Seq(Calls) /\ raced \subseteq Calls /\ crossed \in BOOLEAN

Blank == [active |-> FALSE, peer |-> Nil, call |-> Nil, poll |-> "no", seen |-> "idle",
          hang |-> "no", notify |-> FALSE, syncing |-> {}]

Everything(s) == s   \* mutant of Newest: the history is never cut
Newest(s) == SubSeq(s, 1, IF Len(s) < HistoryLimit THEN Len(s) ELSE HistoryLimit)

Init ==
  /\ Gateway!Init
  /\ offer = [c \in Calls |-> "none"]
  /\ start = [c \in Calls |-> IF c \in Earlier THEN "over" ELSE "none"]
  /\ page = Blank
  /\ started = SetToSeq(Earlier)
  /\ history = Newest(started) /\ reloads = 0
  /\ raced = {} /\ crossed = FALSE

InCall == state \in {"connecting", "connected"}

-----------------------------------------------------------------------------
(***************************************************************************)
(* hangup, from its call to its first await, and from there.  What runs it *)
(* has made `p' of the page.                                               *)
(***************************************************************************)
(* The page is unlocked, and its PeerConnection, closed, never ends the    *)
(* preparation of an offer.                                                *)
Finish(p) ==
  /\ page' = [p EXCEPT !.active = FALSE, !.peer = Nil, !.hang = "no",
                       !.poll = IF @ = "hanging" THEN "no" ELSE @]
  /\ start' = [c \in Calls |-> IF c = p.peer /\ start[c] = "ice" THEN "never" ELSE start[c]]

(* recordCall; then the gateway is told, unless it was it that told.       *)
RecordAgain(p) == p                        \* mutant: the call is not forgotten
Forgotten(p) == [p EXCEPT !.call = Nil]

(* Mutant of Tell: the page does not wait for the gateway.                 *)
TellAndFinish(p) == Finish(p) /\ raced' = raced
Tell(p) == page' = [p EXCEPT !.hang = "posting"] /\ UNCHANGED <<start, raced>>

Record(p) ==
  /\ history' = IF p.call = Nil THEN history ELSE Newest(<<p.call>> \o history)
  /\ IF p.notify
       THEN Tell(Forgotten(p))
       ELSE Finish(Forgotten(p)) /\ raced' = raced \cup (IF InCall THEN {current} ELSE {})

Hangup(p, notify) ==
  \/ p.hang # "no" /\ page' = p /\ UNCHANGED <<start, history, raced>>
  \/ p.hang = "no" /\ Record([p EXCEPT !.hang = "posting", !.notify = notify])
  \/ /\ p.hang = "no" /\ p.call # Nil       \* the Call-ID is still unknown
     /\ page' = [p EXCEPT !.hang = "trace", !.notify = notify]
     /\ UNCHANGED <<start, history, raced>>

TraceRead ==
  /\ page.hang = "trace"
  /\ Record(page)
  /\ UNCHANGED <<gateway, offer, reloads, started, crossed>>

HandleHangup ==
  /\ page.hang = "posting"
  /\ Gateway!End
  /\ page' = [page EXCEPT !.hang = "posted"]
  /\ UNCHANGED <<offer, start, history, reloads, started, raced, crossed>>

(* The request fails: the page takes the call for ended all the same.      *)
HangupLost ==
  /\ page.hang = "posting"
  /\ page' = [page EXCEPT !.hang = "posted"]
  /\ raced' = IF InCall THEN raced \cup {current} ELSE raced
  /\ UNCHANGED <<gateway, offer, start, history, reloads, started, crossed>>

HangupDone ==
  /\ page.hang = "posted"
  /\ Finish(page)
  /\ UNCHANGED <<gateway, offer, history, reloads, started, raced, crossed>>

HangupClick ==
  /\ page.active
  /\ Hangup(page, TRUE)
  /\ UNCHANGED <<gateway, offer, reloads, started, crossed>>

-----------------------------------------------------------------------------
(***************************************************************************)
(* startCall.                                                              *)
(***************************************************************************)
StartCall(c) ==
  /\ ~page.active /\ start[c] = "none"
  /\ page' = [page EXCEPT !.active = TRUE, !.call = c]
  /\ start' = [start EXCEPT ![c] = "audio"]
  /\ started' = <<c>> \o started
  /\ IF page.hang = "no" THEN UNCHANGED <<raced, crossed>>
                         ELSE raced' = raced \cup {c} /\ crossed' = TRUE
  /\ UNCHANGED <<gateway, offer, history, reloads>>

(* The microphone is granted; nobody asks whether the call still is.       *)
AudioReady(c) ==
  /\ start[c] = "audio"
  /\ page' = [page EXCEPT !.peer = c]
  /\ start' = [start EXCEPT ![c] = "ice"]
  /\ UNCHANGED <<gateway, offer, history, reloads, started, raced, crossed>>

Caught(c) == page' = [page EXCEPT !.syncing = @ \cup {<<c, "catch">>}]

AudioRefused(c) ==
  /\ start[c] = "audio"
  /\ start' = [start EXCEPT ![c] = "over"]
  /\ Caught(c)
  /\ UNCHANGED <<gateway, offer, history, reloads, started, raced, crossed>>

IceComplete(c) ==
  /\ start[c] = "ice"
  /\ start' = [start EXCEPT ![c] = "answer"]
  /\ offer' = [offer EXCEPT ![c] = "sent"]
  /\ UNCHANGED <<gateway, page, history, reloads, started, raced, crossed>>

(* handleOffer; after its answer dial runs.  Without account or audio it   *)
(* is refused, too, when the call state has been cleared already.          *)
HandleOffer(c) ==
  /\ offer[c] = "sent"
  /\ \/ /\ IF InCall THEN UNCHANGED gateway ELSE Gateway!End
        /\ offer' = [offer EXCEPT ![c] = "error"] /\ raced' = raced
     \/ /\ ~InCall /\ Gateway!Accept(c)
        /\ offer' = [offer EXCEPT ![c] = "accepted"]
        /\ raced' = IF page.call = c THEN raced ELSE raced \cup {c}
  /\ UNCHANGED <<start, page, history, reloads, started, crossed>>

Negotiated(c) ==
  /\ offer[c] = "accepted"
  /\ \/ /\ offer' = [offer EXCEPT ![c] = IF current = c /\ state = "connecting" THEN "ok" ELSE "error"]
        /\ UNCHANGED gateway
     \/ /\ current = c /\ Gateway!Fail
        /\ offer' = [offer EXCEPT ![c] = "error"]
  /\ UNCHANGED <<start, page, history, reloads, started, raced, crossed>>

Answered(c) ==
  /\ start[c] = "answer" /\ offer[c] \in {"ok", "error"}
  /\ start' = [start EXCEPT ![c] = "over"]
  /\ IF offer[c] = "ok" THEN page' = page ELSE Caught(c)
  /\ UNCHANGED <<gateway, offer, history, reloads, started, raced, crossed>>

(* onconnectionstatechange *)
ConnectionFails(c) ==
  /\ page.peer = c /\ start[c] = "over"
  /\ page' = [page EXCEPT !.syncing = @ \cup {<<c, "event">>}]
  /\ UNCHANGED <<gateway, offer, start, history, reloads, started, raced, crossed>>

(* After syncCurrentCallIDFromStatus, in a catch or a callback. *)
Synced(s) ==
  /\ s \in page.syncing
  /\ Hangup([page EXCEPT !.syncing = @ \ {s}], TRUE)
  /\ UNCHANGED <<gateway, offer, reloads, started, crossed>>

-----------------------------------------------------------------------------
(***************************************************************************)
(* refreshStatus, every second.                                            *)
(***************************************************************************)
Poll ==
  /\ page.poll = "no"
  /\ page' = [page EXCEPT !.poll = "sent"]
  /\ UNCHANGED <<gateway, offer, start, history, reloads, started, raced, crossed>>

HandleStatus ==
  /\ page.poll = "sent"
  /\ page' = [page EXCEPT !.poll = "read", !.seen = state]
  /\ UNCHANGED <<gateway, offer, start, history, reloads, started, raced, crossed>>

SeesFailure == page.seen = "failed"

NeverEnded == FALSE   \* mutant of SeesEnd: a remote hangup is not looked for
SeesEnd == page.seen = "idle" /\ page.peer # Nil /\ page.hang = "no"

Refresh ==
  /\ page.poll = "read"
  /\ IF SeesFailure \/ SeesEnd
       THEN Hangup([page EXCEPT !.poll = IF page.hang = "no" THEN "hanging" ELSE "no"],
                   SeesFailure)
       ELSE page' = [page EXCEPT !.poll = "no"] /\ UNCHANGED <<start, history, raced>>
  /\ UNCHANGED <<gateway, offer, reloads, started, crossed>>

-----------------------------------------------------------------------------
(* The tab is loaded again: the call it was in is in no history, and the   *)
(* gateway goes on with it.                                                *)
Reload ==
  /\ reloads < MaxReloads /\ reloads' = reloads + 1
  /\ page' = Blank
  /\ start' = [c \in Calls |-> IF start[c] = "none" THEN "none" ELSE "over"]
  /\ started' = IF page.call = Nil THEN started ELSE Tail(started)
  /\ raced' = raced \cup {c \in Calls : start[c] # "none"}
  /\ UNCHANGED <<gateway, offer, history, crossed>>

(* dial, and what ends a call from outside: its far end, the browser leg.  *)
Elsewhere ==
  /\ \/ current # Nil /\ offer[current] = "ok" /\ (Gateway!Connect \/ Gateway!Fail)
     \/ state # "idle" /\ Gateway!End
  /\ UNCHANGED <<offer, start, page, history, reloads, started, raced, crossed>>

Hanging == TraceRead \/ HandleHangup \/ HangupDone
Polling == Poll \/ HandleStatus \/ Refresh

Next ==
  \/ \E c \in Calls :
       \/ StartCall(c) \/ AudioReady(c) \/ AudioRefused(c) \/ IceComplete(c)
       \/ HandleOffer(c) \/ Negotiated(c) \/ Answered(c) \/ ConnectionFails(c)
  \/ \E s \in page.syncing : Synced(s)
  \/ Hanging \/ HangupLost \/ HangupClick \/ Polling \/ Reload \/ Elsewhere

(* The browser runs its timers and continuations, and the gateway answers  *)
(* its requests (none of these two handlers waits); users do as they like, *)
(* and no call need go on.                                                 *)
Spec == Init /\ [][Next]_vars /\ WF_vars(Hanging) /\ WF_vars(Polling)

-----------------------------------------------------------------------------
(***************************************************************************)
(* Correctness.  A call is in `raced' when the page lost it: it was hung   *)
(* up on the page before the gateway got its offer, while the page was     *)
(* preparing it (app.js:178) or had just sent it (app.js:201); a poll that *)
(* was answered before it took it for ended (app.js:250); or the page was  *)
(* reloaded; or the request that hung it up did not reach the gateway      *)
(* (app.js:271).                                                           *)
(***************************************************************************)

(* recordCall, docs/PRODUCT_INTRO.md:19: however many hangups meet - of    *)
(* the user, a poll, a failed startCall, a PeerConnection - the history is *)
(* the newest calls, each once and in order, when no call is shown.        *)
HistoryComplete ==
  ~page.active /\ ~crossed => history = Newest(started)

(* docs/PRODUCT_INTRO.md:58: the page is locked on a call as long as the   *)
(* gateway is in it, whatever ends it, unless the page lost it.            *)
LockedDuringCall ==
  InCall => current \in raced \/ (page.active /\ Head(started) = current)

(* refreshStatus, README.md:13: a call that has ended in the gateway is    *)
(* ended on the page, although only polls tell it and hangups overlap.     *)
EndShown ==
  (page.active /\ page.peer # Nil /\ ~InCall) ~> (~page.active \/ InCall)
=============================================================================
