----------------------------- MODULE MCFormats -----------------------------
(***************************************************************************)
(* The formats and codecs for TLC.  `input' is one input of one of them:   *)
(* a sample, a recording, a RIFF file, an SDP answer, speech to be sent,   *)
(* Record-Route headers, or settings; each step makes the input longer, or *)
(* the sample greater.                                                     *)
(***************************************************************************)
EXTENDS G711, Wav, Sdp, Rtp, SipRoutes, Config

CONSTANTS Rates,        \* sample rates of recordings
          Bytes,        \* bytes of recordings
          MaxBytes,     \* bound: length of a recording
          MaxChunks,    \* bound: chunks of a file
          MaxSpeech,    \* bound: samples of a speech
          MaxRoutes,    \* bound: routes of a response
          MaxLines      \* bound: lines of .env

(* A speech and its last packet have fewer samples than there are timestamps. *)
ASSUME FormatsAssumption ==
  /\ {MaxBytes, MaxChunks, MaxSpeech, MaxRoutes, MaxLines} \subseteq Nat
  /\ MaxSpeech + PacketSize <= TimestampLimit /\ TimestampLimit > 1
  /\ Bytes \subseteq 0..255 /\ Rates \subseteq Nat \ {0}

VARIABLE input

Recordings ==
  [of : {"recording"}, pcm : {<<>>}, channels : 1..2, bits : {8, 16}, rate : Rates]

Init ==
  input \in [of : {"sample"}, value : {1024 * k : k \in -32..31}]
            \cup Recordings
            \cup {[of |-> "file", chunks |-> <<>>, length |-> 12, whole |-> TRUE]}
            \cup [of : {"answer"}, codec : {PCMU, PCMA}, lines : {<<>>}, part : {"session"}]
            \cup [of : {"speech"}, codec : {"pcmu", "pcma"}, samples : {<<>>},
                  seed : [sequence : {0, SequenceLimit - 1}, timestamp : {0, TimestampLimit - 2}]]
            \cup {[of |-> "routes", records |-> <<>>, routes |-> <<>>]}
            \cup [of : {"settings"}, environment : [Keys -> Values \cup {Unset}], lines : {<<>>}]

NextSample ==
  /\ input.of = "sample"
  /\ (input.value + 1) % 1024 # 0
  /\ input' = [input EXCEPT !.value = @ + 1]

NextByte ==
  /\ input.of = "recording"
  /\ Len(input.pcm) < MaxBytes
  /\ \E b \in Bytes : input' = [input EXCEPT !.pcm = Append(@, b)]

(* A writer adds a chunk at the next even offset. *)
Chunks(start) ==
  [id : {"fmt"}, start : {start}, size : {14, 16, 19}, format : {1}, channels : {1, 2},
   rate : {8000}, bits : {8, 24}]
  \cup [id : {"data"}, start : {start}, size : {1}, bytes : {<<1>>}]
  \cup [id : {"data"}, start : {start}, size : {2}, bytes : {<<2, 2>>}]
  \cup [id : {"LIST"}, start : {start}, size : {3, 4}]

NextChunk ==
  /\ input.of = "file" /\ input.whole
  /\ Len(input.chunks) < MaxChunks
  /\ \E chunk \in Chunks(input.length) :
       LET end == chunk.start + 8 + chunk.size
       IN input' = [input EXCEPT !.chunks = Append(@, chunk), !.length = end + (end % 2)]

(* The file is cut short, within its last chunk. *)
CutFile ==
  /\ input.of = "file" /\ input.whole
  /\ input.chunks # <<>>
  /\ \E lost \in 1..9 :
       /\ input.length - lost >= Last(input.chunks).start
       /\ input' = [input EXCEPT !.length = @ - lost, !.whole = FALSE]

(* The answer to Offer: it has one section, the audio, refused with port 0 *)
(* or with the payload types that the far end will take; either part may   *)
(* have a connection line.                                                 *)
AddLine(line, part) == input' = [input EXCEPT !.lines = Append(@, line), !.part = part]

NextLine ==
  /\ input.of = "answer"
  /\ \/ /\ input.part = "session"
        /\ \E a \in Addresses \cup {Garbled} : AddLine(CLine(a), "time")
     \/ /\ input.part \in {"session", "time"}
        /\ \E port \in {0, 4000}, payloads \in SUBSET {0, 8, 101} :
             AddLine(MLine("audio", port, payloads), "media")
     \/ /\ input.part = "media"
        /\ \E a \in Addresses \cup {Garbled} : AddLine(CLine(a), "end")

Levels == {-32768, 0, 1000}   \* samples of a speech

NextSpeech ==
  /\ input.of = "speech"
  /\ Len(input.samples) < MaxSpeech
  /\ \E s \in Levels : input' = [input EXCEPT !.samples = Append(@, s)]

(* A route is a URI, in brackets if a comma is in it, or has a name, which *)
(* is quoted if a comma or a bracket is in it.                             *)
Routes == {<<"x">>, <<"<", "x", ",", "x", ">">>, <<Quote, ",", "<", Quote, "<", "x", ">">>,
           <<Quote, ">", ",", Quote, "<", "x", ">">>}

(* A proxy adds a header, or a value, or an empty value, to a header.      *)
NextRoute ==
  /\ input.of = "routes"
  /\ Len(input.routes) < MaxRoutes
  /\ \E route \in Routes :
       \E records \in {Append(input.records, route)} \cup
            IF input.records = <<>> THEN {}
            ELSE LET n == Len(input.records)
                 IN {[input.records EXCEPT ![n] = @ \o <<",">> \o gap \o route] :
                       gap \in {<<>>, <<",">>}} :
         input' = [input EXCEPT !.records = records, !.routes = Append(@, route)]

NextSetting ==
  /\ input.of = "settings"
  /\ Len(input.lines) < MaxLines
  /\ \E line \in [key : Keys, value : Values \cup {Unset}] :
       input' = [input EXCEPT !.lines = Append(@, line)]

Next == \/ NextSample \/ NextByte \/ NextChunk \/ CutFile \/ NextLine
        \/ NextSpeech \/ NextRoute \/ NextSetting

Spec == Init /\ [][Next]_input

-----------------------------------------------------------------------------
(* g711.go: every 16-bit sample comes out at the far end within half a     *)
(* step of its segment, the ends of the range and of the segments          *)
(* included; a sample beyond the loudest value is clipped to it.           *)
G711KeepsSound ==
  input.of = "sample" =>
    /\ Quantised(DecodedPCMU, EncodePCMU(input.value), input.value)
    /\ Quantised(DecodedPCMA, EncodePCMA(input.value), input.value)

Sound(recording) == [Nothing EXCEPT !.channels = recording.channels,
                                    !.bits = recording.bits, !.pcm = recording.pcm]

(* The loudness of a recording: between its smallest and its greatest      *)
(* sample in any channel. *)
Span(recording) ==
  LET bytes == recording.bits \div 8
      all   == {SampleAt(recording.pcm, bytes * (n - 1) + 1, recording.bits) :
                  n \in 1..(Len(recording.pcm) \div bytes)}
  IN (Min(all) - 1)..(Max(all) + 1)

(* wav.go: mixing and resampling keep every output sample, whatever the    *)
(* rounding, within the loudness of the recording, so that nothing wraps   *)
(* around; what is played lasts as long as the recording, to a sample.     *)
RecordingKept ==
  input.of = "recording" =>
    LET output == Resample(Frames(Sound(input)), input.rate)
        frames == Len(input.pcm) \div (input.channels * (input.bits \div 8))
    IN /\ \A s \in Range(output) : s \subseteq Span(input)
       /\ Len(output) * input.rate <= frames * Target
       /\ frames * Target < (Len(output) + 1) * input.rate

(* wav.go: a file with a short `fmt ' chunk, or cut in the contents of a   *)
(* chunk, is refused; of any other the last `fmt ' and the last `data'     *)
(* chunk count, wherever they stand and whatever chunks are between them.  *)
(* (A chunk whose header of 8 bytes is cut is taken for the end of the     *)
(* file, not for a broken one.)                                            *)
ChunksFound ==
  input.of = "file" =>
    LET Begun(c)   == c.start + 8 <= input.length
        Broken(c)  == \/ c.start + 8 + c.size > input.length
                      \/ c.id = "fmt" /\ c.size < 16
        broken     == \E c \in Range(input.chunks) : Begun(c) /\ Broken(c)
        LastOf(id) == SelectLastInSeq(input.chunks, LAMBDA c : Begun(c) /\ c.id = id)
        found      == ReadChunks(input)
    IN IF broken THEN ~Supported(found)
       ELSE /\ found.pcm = IF LastOf("data") = 0 THEN <<>>
                           ELSE input.chunks[LastOf("data")].bytes
            /\ Supported(found) <=> /\ LastOf("data") # 0 /\ LastOf("fmt") # 0
                                    /\ input.chunks[LastOf("fmt")].bits = 8

(* sdp.go as dial uses it: the gateway takes an answer exactly if the far  *)
(* end accepted the codec on an address, and then sends to the address of  *)
(* the audio section, or of the session if the section has none.           *)
AnswerUnderstood ==
  input.of = "answer" /\ input.part \in {"media", "end"} =>
    LET lines   == input.lines
        m       == CHOOSE i \in DOMAIN lines : lines[i].is = "m"
        meant   == IF m < Len(lines) THEN lines[Len(lines)].address
                   ELSE IF m > 1 THEN lines[1].address ELSE Garbled
        taken   == AudioTarget(lines) # NoTarget /\ AcceptsCodec(lines, input.codec)
    IN /\ taken <=> /\ meant \in Addresses
                    /\ lines[m].port # 0
                    /\ input.codec.payloadType \in lines[m].payloads
       /\ taken => AudioTarget(lines) = [address |-> meant, port |-> lines[m].port]

(* play and playAnnouncement: a far end that plays every packet at its     *)
(* timestamp hears each sample once and at its time, then less than a      *)
(* packet of silence, and no sequence number is missing or repeated, also  *)
(* where the counters wrap around.                                         *)
SoundSent ==
  input.of = "speech" =>
    LET packets == Packets(input.codec, input.samples, input.seed)
        length  == PacketSize * Len(packets)
        Heard(i) == {at \in (DOMAIN packets) \X (1..PacketSize) :
                       (packets[at[1]].timestamp + at[2] - 1) % TimestampLimit
                         = (input.seed.timestamp + i - 1) % TimestampLimit}
    IN /\ length - Len(input.samples) \in 0..(PacketSize - 1)
       /\ \A i \in 1..length :
            \E k \in DOMAIN packets, j \in 1..PacketSize :
              /\ Heard(i) = {<<k, j>>}
              /\ packets[k].payload[j] =
                   Encode(input.codec, IF i <= Len(input.samples) THEN input.samples[i] ELSE 0)
       /\ \A k \in DOMAIN packets :
            packets[k].sequence = (input.seed.sequence + k - 1) % SequenceLimit

(* routeSet: however the proxies spread their routes over headers and      *)
(* values, the dialog has each of them, in the order they were received.   *)
RoutesKept == input.of = "routes" => RouteSet(input.records) = input.routes

(* config.go: a setting is that of the environment, or else the first that *)
(* .env gives it, or else the fallback, and an empty one counts nowhere; a *)
(* port that is given but is no number is the fallback, not the next best. *)
SettingsResolved ==
  input.of = "settings" =>
    \A key \in Keys :
      LET environment == LoadDotEnv(input.environment, input.lines)
          Given(line) == line.key = key /\ line.value # Unset
          given == SelectInSeq(input.lines, Given)
          best  == IF input.environment[key] # Unset THEN input.environment[key]
                   ELSE IF given # 0 THEN input.lines[given].value
                   ELSE "fallback"
      IN /\ Value(environment, key, "fallback") = best
         /\ IntValue(environment, key, "fallback")
              = IF best \in Numbers THEN best ELSE "fallback"
=============================================================================
