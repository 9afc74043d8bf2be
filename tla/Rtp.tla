-------------------------------- MODULE Rtp ---------------------------------
(***************************************************************************)
(* The RTP packets of a recording: play of the command-line phone          *)
(* (src/cmd/phone-cli/main.go) and playAnnouncement of the gateway, which  *)
(* compute them alike.  Counters start anywhere and wrap around.           *)
(***************************************************************************)
EXTENDS G711, Sequences

CONSTANTS PacketSize,    \* samples of a packet (160)
          SequenceLimit, \* sequence numbers (2^16)
          TimestampLimit \* timestamps (2^32)

ASSUME RtpAssumption ==
  {PacketSize, SequenceLimit, TimestampLimit} \subseteq Nat \ {0}

Silence == 0

Encode(codec, sample) == IF codec = "pcma" THEN EncodePCMA(sample) ELSE EncodePCMU(sample)

SampleOrSilence(samples, i) == IF i <= Len(samples) THEN samples[i] ELSE Silence

WholePackets(samples) == Len(samples) \div PacketSize   \* mutant: the rest is not sent
PacketCount(samples) == (Len(samples) + PacketSize - 1) \div PacketSize

Packet(codec, samples, offset, sequence, timestamp) ==
  [sequence  |-> sequence % SequenceLimit,
   timestamp |-> timestamp % TimestampLimit,
   payload   |-> [i \in 1..PacketSize |-> Encode(codec, SampleOrSilence(samples, offset + i))]]

Packets(codec, samples, seed) ==
  [k \in 1..PacketCount(samples) |->
    Packet(codec, samples, PacketSize * (k - 1),
           seed.sequence + k - 1, seed.timestamp + PacketSize * (k - 1))]
=============================================================================
