---------------------------- MODULE TraceBuffer ----------------------------
(***************************************************************************)
(* The trace of SIP messages (src/internal/sip/trace.go) and a page that   *)
(* shows it (src/web/app.js).  The buffer keeps the newest Limit           *)
(* entries; a page asks for what came after the last entry it has, or for  *)
(* the entries of one call.  An answer of the gateway reaches the page     *)
(* some time after it was read from the buffer, and several requests of a  *)
(* page may be under way.  An entry is its number and its Call-ID; Invites *)
(* are the Call-IDs whose entries here are INVITEs.                        *)
(***************************************************************************)
EXTENDS Naturals, SequencesExt

CONSTANTS Calls, NoCall, Invites,
          Limit,     \* entries kept by the buffer (500)
          PageLimit, \* entries kept by a page (500)
          MaxAdds,   \* bound: entries ever added
          MaxReads   \* bound: requests of a page under way

ASSUME TraceAssumption ==
  /\ Limit \in Nat \ {0} /\ PageLimit \in Nat \ {0}
  /\ MaxAdds \in Nat /\ MaxReads \in Nat
  /\ NoCall \notin Calls /\ Invites \subseteq Calls

VARIABLES nextID, entries,   \* TraceBuffer
          page,              \* the page's view of the trace
          reads,             \* its requests, in the order they were sent
          newest,            \* history: the newest INVITE since the last Clear
          mixed              \* history: see Correctness

vars == <<nextID, entries, page, reads, newest, mixed>>

Entries == [id : 1..MaxAdds, callID : Calls]
NoEntry == [id |-> 0, callID |-> NoCall]

TypeOK ==
  /\ nextID \in 0..MaxAdds
  /\ entries \in BoundedSeq(Entries, Limit)
  /\ page \in [shown : BoundedSeq(Entries, IF PageLimit > Limit THEN PageLimit ELSE Limit),
               lastID : 0..MaxAdds, history : Calls \cup {NoCall}, open : BOOLEAN]
  /\ newest \in Entries \cup {NoEntry}
  /\ mixed \in BOOLEAN

Blank == [shown |-> <<>>, lastID |-> 0, history |-> NoCall, open |-> FALSE]

Init ==
  /\ nextID = 0 /\ entries = <<>>
  /\ page = Blank
  /\ reads = <<>>
  /\ newest = NoEntry
  /\ mixed = FALSE

-----------------------------------------------------------------------------
(* The buffer. *)
Oldest(s, n) == SubSeq(s, 1, IF Len(s) < n THEN Len(s) ELSE n)   \* mutant of Newest
Untrimmed(s, n) == s                                             \* mutant of Newest
Newest(s, n) == IF Len(s) <= n THEN s ELSE SubSeq(s, Len(s) - n + 1, Len(s))

Add(c) ==
  /\ nextID < MaxAdds
  /\ nextID' = nextID + 1
  /\ entries' = Newest(Append(entries, [id |-> nextID', callID |-> c]), Limit)
  /\ newest' = IF c \in Invites THEN [id |-> nextID', callID |-> c] ELSE newest
  /\ UNCHANGED <<page, reads, mixed>>

After(entry, after) == entry.id > after

Rising(s) == \A i, j \in DOMAIN s : i < j => s[i] < s[j]

Query(after, callID) ==
  LET wanted == {i \in DOMAIN entries :
                   After(entries[i], after) /\ callID \in {NoCall, entries[i].callID}}
      kept == CHOOSE s \in SetToSeqs(wanted) : Rising(s)
  IN [n \in DOMAIN kept |-> entries[kept[n]]]

LatestCallID ==
  LET i == SelectLastInSeq(entries, LAMBDA entry : entry.callID \in Invites)
  IN IF i = 0 THEN NoCall ELSE entries[i].callID

ClearedFromOne == entries' = <<>> /\ nextID' = 0   \* mutant of Cleared: ids restart
Cleared == entries' = <<>> /\ UNCHANGED nextID

(* A page other than this one empties the trace. *)
OtherClears ==
  /\ Cleared /\ newest' = NoEntry
  /\ UNCHANGED <<page, reads, mixed>>

-----------------------------------------------------------------------------
(* The page.  A request is answered when the gateway handles it and ends   *)
(* when the page goes on with the answer.                                  *)
Live == page.history = NoCall

Unanswered == [answered |-> FALSE, entries |-> <<>>]

Send(kind, callID) ==
  /\ Len(reads) < MaxReads
  /\ reads' = Append(reads,
       [kind |-> kind, after |-> IF kind = "poll" THEN page.lastID ELSE 0,
        callID |-> callID, answer |-> Unanswered])

(* refreshTrace, every 700 ms: nothing keeps two of them apart. *)
Poll ==
  /\ Live
  /\ Send("poll", NoCall)
  /\ mixed' = (mixed \/ reads # <<>>)
  /\ UNCHANGED <<nextID, entries, page, newest>>

(* openHistoryTrace; the dialog opens when the answer is there. *)
OpenHistory(c) ==
  /\ ~page.open
  /\ Send("history", c)
  /\ page' = [page EXCEPT !.history = c]
  /\ mixed' = (mixed \/ reads # <<>>)
  /\ UNCHANGED <<nextID, entries, newest>>

OpenTrace ==
  /\ ~page.open
  /\ page' = [page EXCEPT !.open = TRUE]
  /\ UNCHANGED <<nextID, entries, reads, newest, mixed>>

(* closeTraceModal *)
CloseTrace ==
  /\ page.open
  /\ page' = IF Live THEN [page EXCEPT !.open = FALSE] ELSE Blank
  /\ mixed' = (mixed \/ (~Live /\ reads # <<>>))
  /\ UNCHANGED <<nextID, entries, reads, newest>>

(* clearTrace: a history view is only left. *)
ClearTrace ==
  /\ page.open
  /\ IF Live
       THEN Send("clear", NoCall) /\ page' = page
       ELSE page' = [Blank EXCEPT !.open = TRUE] /\ reads' = reads
  /\ mixed' = (mixed \/ reads # <<>>)
  /\ UNCHANGED <<nextID, entries, newest>>

(* handleSignaling *)
Handle(i) ==
  /\ ~reads[i].answer.answered
  /\ reads' = [reads EXCEPT ![i].answer =
       [answered |-> TRUE, entries |-> Query(reads[i].after, reads[i].callID)]]
  /\ IF reads[i].kind = "clear"
       THEN Cleared /\ newest' = NoEntry
       ELSE UNCHANGED <<entries, nextID, newest>>
  /\ UNCHANGED <<page, mixed>>

(* What a page makes of the answer to a poll. *)
Extended(v, incoming) ==
  LET all == Newest(v.shown \o incoming, PageLimit)
  IN IF incoming = <<>> THEN v ELSE [v EXCEPT !.shown = all, !.lastID = Last(all).id]

Shows(v, read) ==
  CASE read.kind = "poll"    -> Extended(v, read.answer.entries)
    [] read.kind = "history" -> [v EXCEPT !.shown = read.answer.entries, !.open = TRUE]
    [] OTHER                 -> [v EXCEPT !.shown = <<>>, !.lastID = 0]

Receive(i) ==
  /\ reads[i].answer.answered
  /\ page' = Shows(page, reads[i])
  /\ reads' = RemoveAt(reads, i)
  /\ UNCHANGED <<nextID, entries, newest, mixed>>

Next ==
  \/ \E c \in Calls : Add(c) \/ OpenHistory(c)
  \/ OtherClears \/ Poll \/ OpenTrace \/ CloseTrace \/ ClearTrace
  \/ \E i \in DOMAIN reads : Handle(i) \/ Receive(i)

Spec == Init /\ [][Next]_vars

-----------------------------------------------------------------------------
(***************************************************************************)
(* Correctness.  A page whose requests overlapped (mixed) may show entries *)
(* twice, entries that were cleared, or those of one call as if they were  *)
(* all.                                                                    *)
(***************************************************************************)

(* trace.go:35, 55 with app.js:821: a page that asks for what is after its *)
(* last entry shows every entry once, in the order of the trace, and       *)
(* misses nothing that is still kept, although another page may have       *)
(* cleared the trace; it only forgets what does not fit into it.           *)
TraceFollowed ==
  ~mixed =>
    /\ IsSorted(page.shown, LAMBDA a, b : a.id < b.id)
    /\ Live => \A i \in DOMAIN entries :
                 \/ entries[i].id > page.lastID
                 \/ Contains(page.shown, entries[i])
                 \/ Len(page.shown) = PageLimit

(* trace.go:62, which names a failed call: the newest INVITE is found as   *)
(* long as fewer than Limit entries came after it and nobody cleared.      *)
LatestIsNewest ==
  IF newest.id > 0 /\ nextID - newest.id < Limit
    THEN LatestCallID = newest.callID
    ELSE LatestCallID = NoCall
=============================================================================
