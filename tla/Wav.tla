-------------------------------- MODULE Wav --------------------------------
(***************************************************************************)
(* The WAV reader and the resampler (src/internal/media/wav.go).  A file   *)
(* is what a RIFF writer makes of its chunks: a chunk is aligned to an     *)
(* even offset, and the file may end before its last chunk does.  The      *)
(* recording is translated byte by byte, since the widths of its samples   *)
(* are what can go wrong.                                                  *)
(***************************************************************************)
EXTENDS Integers, SequencesExt

Target == 8000

Int16(x) == ((x + 32768) % 65536) - 32768

(* Division of int, which rounds towards zero. *)
Quotient(a, b) == IF a >= 0 THEN a \div b ELSE -((-a) \div b)

-----------------------------------------------------------------------------
(***************************************************************************)
(* The chunk loop of ParseWAV.  A chunk has its id, the offset it starts   *)
(* at and the size it declares; a `fmt ' chunk has its fields, a `data'    *)
(* chunk its bytes.                                                        *)
(***************************************************************************)
NotAligned(size) == 0   \* mutant of Padding: an odd chunk is not padded
Padding(size) == size % 2

Nothing == [failed |-> FALSE, offset |-> 12, format |-> 0, channels |-> 0,
            rate |-> 0, bits |-> 0, pcm |-> <<>>]

ReadChunk(length, found, chunk) ==
  LET end  == chunk.start + 8 + chunk.size
      seen == [found EXCEPT !.offset = end + Padding(chunk.size)]
  IN IF found.failed \/ found.offset # chunk.start \/ chunk.start + 8 > length THEN found
     ELSE IF end > length \/ (chunk.id = "fmt" /\ chunk.size < 16)
       THEN [found EXCEPT !.failed = TRUE]
     ELSE CASE chunk.id = "fmt"  -> [seen EXCEPT !.format = chunk.format,
                                                 !.channels = chunk.channels,
                                                 !.rate = chunk.rate, !.bits = chunk.bits]
            [] chunk.id = "data" -> [seen EXCEPT !.pcm = chunk.bytes]
            [] OTHER             -> seen

ReadChunks(file) ==
  FoldLeft(LAMBDA found, chunk : ReadChunk(file.length, found, chunk),
           Nothing, file.chunks)

(* The file is accepted.  That it begins with RIFF and WAVE is taken for   *)
(* granted of what a RIFF writer makes.                                    *)
Supported(found) ==
  /\ ~found.failed
  /\ found.format = 1 /\ found.channels # 0 /\ found.rate # 0 /\ found.pcm # <<>>
  /\ found.bits \in {8, 16}

-----------------------------------------------------------------------------
(* The sample at a byte: 16 bits little-endian, or 8 bits around 128. *)
SampleAt(pcm, pos, bits) ==
  IF bits = 16 THEN Int16(pcm[pos] + 256 * pcm[pos + 1]) ELSE (pcm[pos] - 128) * 256

Add(a, b) == a + b

(* The mean of the channels at each frame; an incomplete frame is dropped. *)
Frames(found) ==
  LET bytes == found.bits \div 8
      size  == bytes * found.channels
      Frame(n) == FoldLeft(Add, 0,
        [c \in 1..found.channels |->
           SampleAt(found.pcm, (n - 1) * size + (c - 1) * bytes + 1, found.bits)])
  IN [n \in 1..(Len(found.pcm) \div size) |-> Int16(Quotient(Frame(n), found.channels))]

(* Mutant of OutputLength: whole seconds only. *)
WholeSeconds(frames, rate) == (Len(frames) \div rate) * Target
OutputLength(frames, rate) == (Len(frames) * Target) \div rate

(* The possible values of the output at position i (from 0).  Where the    *)
(* exact value is a whole number, float64 may fall short of it by less     *)
(* than one unit, and the conversion to int16 cuts towards zero.           *)
Interpolated(frames, rate, i) ==
  LET left  == (i * rate) \div Target
      part  == (i * rate) % Target
      exact == frames[left + 1] * (Target - part) + frames[left + 2] * part
      whole == Quotient(exact, Target)
  IN CASE left >= Len(frames) - 1 -> {frames[Len(frames)]}
       [] left < Len(frames) - 1 /\ (part = 0 \/ exact % Target # 0) -> {whole}
       [] OTHER -> {whole, whole - (IF whole > 0 THEN 1 ELSE IF whole < 0 THEN -1 ELSE 0)}

Resample(frames, rate) ==
  IF rate = Target \/ frames = <<>>
    THEN [i \in 1..Len(frames) |-> {frames[i]}]
    ELSE [i \in 1..OutputLength(frames, rate) |-> Interpolated(frames, rate, i - 1)]
=============================================================================
