-------------------------------- MODULE Sdp --------------------------------
(***************************************************************************)
(* The SDP of a call (src/internal/media/sdp.go).  A body is the sequence  *)
(* of the lines the code looks at: `c=IN IP4' with an address, and `m='    *)
(* with a medium, a port and payload types.  Every other line is skipped.  *)
(***************************************************************************)
EXTENDS Integers, SequencesExt

CONSTANTS Addresses,   \* what net.ParseIP accepts
          Garbled      \* what it does not

ASSUME SdpAssumption == Garbled \notin Addresses

PCMU == [name |-> "pcmu", payloadType |-> 0]
PCMA == [name |-> "pcma", payloadType |-> 8]

Unsupported == [name |-> "unsupported"]

CodecByName(name) ==
  CASE name \in {"", "pcmu", "g711u"} -> PCMU
    [] name \in {"pcma", "g711a"} -> PCMA
    [] OTHER -> Unsupported

CLine(address) == [is |-> "c", address |-> address]
MLine(medium, port, payloads) ==
  [is |-> "m", medium |-> medium, port |-> port, payloads |-> payloads]

Offer(address, port, codec) ==
  <<CLine(address), MLine("audio", port, {codec.payloadType})>>

IsAudio(line) == line.is = "m" /\ line.medium = "audio"

(* Mutant of Addressed: the first connection line counts. *)
FirstAddressed(lines) == SelectInSeq(lines, LAMBDA line : line.is = "c")

(* The connection line that counts, 0 if there is none. *)
Addressed(lines) == SelectLastInSeq(lines, LAMBDA line : line.is = "c")

NoTarget == [address |-> Garbled, port |-> 0]

AudioTarget(lines) ==
  LET c == Addressed(lines)
      m == SelectLastInSeq(lines, IsAudio)
  IN IF c = 0 \/ m = 0 \/ lines[c].address \notin Addresses \/ lines[m].port = 0
       THEN NoTarget
       ELSE [address |-> lines[c].address, port |-> lines[m].port]

AcceptsCodec(lines, codec) ==
  \E i \in DOMAIN lines :
    /\ IsAudio(lines[i])
    /\ lines[i].port # 0
    /\ codec.payloadType \in lines[i].payloads
=============================================================================
