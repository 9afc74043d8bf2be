--------------------------- MODULE FormatsProofs ----------------------------
(***************************************************************************)
(* Theorems about the pure functions of the formats, for inputs of any     *)
(* length: the ones MCFormats grows, with any bounds.                      *)
(***************************************************************************)
EXTENDS MCFormats, FoldProofs

-----------------------------------------------------------------------------
(***************************************************************************)
(* Division and remainder.                                                 *)
(***************************************************************************)
LEMMA Division ==
  ASSUME NEW d \in Nat \ {0}, NEW a \in Nat
  PROVE  /\ a \div d \in Nat /\ a % d \in 0..(d - 1)
         /\ a = d * (a \div d) + (a % d)
OBVIOUS

LEMMA QuotientUnique ==
  ASSUME NEW d \in Nat \ {0}, NEW p \in Int, NEW q \in Int,
         NEW r \in 0..(d - 1), NEW s \in 0..(d - 1), d * p + r = d * q + s
  PROVE  p = q /\ r = s
<1>1. CASE p < q
  <2>1. d * q >= d * (p + 1)
    BY <1>1
  <2>2. d * (p + 1) = d * p + d
    OBVIOUS
  <2>3. QED
    BY <2>1, <2>2
<1>2. CASE q < p
  <2>1. d * p >= d * (q + 1)
    BY <1>2
  <2>2. d * (q + 1) = d * q + d
    OBVIOUS
  <2>3. QED
    BY <2>1, <2>2
<1>3. CASE p = q
  BY <1>3
<1>4. QED
  BY <1>1, <1>2, <1>3

LEMMA RemainderOfSum ==
  ASSUME NEW d \in Nat \ {0}, NEW a \in Nat, NEW b \in Nat
  PROVE  ((a % d) + b) % d = (a + b) % d
<1> DEFINE e == (a % d) + b
           q1 == a \div d
           q2 == e \div d
           q3 == (a + b) \div d
<1>1. a % d \in Nat /\ q1 \in Nat /\ a = d * q1 + (a % d)
  BY Division
<1>2. e \in Nat /\ a + b \in Nat /\ e = (a % d) + b
  BY <1>1
<1> HIDE DEF e
<1>3. q2 \in Nat /\ e % d \in 0..(d - 1) /\ e = d * q2 + (e % d)
  BY <1>2, Division
<1>4. q3 \in Nat /\ (a + b) % d \in 0..(d - 1) /\ a + b = d * q3 + ((a + b) % d)
  BY <1>2, Division
<1> HIDE DEF q1, q2, q3
<1>5. d * (q1 + q2) = d * q1 + d * q2
  BY <1>1, <1>3
<1>6. d * (q1 + q2) + (e % d) = d * q3 + ((a + b) % d)
  <2>1. /\ d * q1 \in Int /\ d * q2 \in Int /\ d * q3 \in Int
        /\ e % d \in Int /\ a % d \in Int /\ (a + b) % d \in Int
    BY <1>1, <1>3, <1>4
  <2>2. QED
    BY <1>1, <1>2, <1>3, <1>4, <1>5, <2>1
<1> DEFINE r == e % d
           s == (a + b) % d
           q == q1 + q2
<1>7. q \in Int /\ q3 \in Int /\ r \in 0..(d - 1) /\ s \in 0..(d - 1) /\ d * q + r = d * q3 + s
  BY <1>1, <1>3, <1>4, <1>6
<1> HIDE DEF q, r, s
<1>8. r = s
  BY <1>7, QuotientUnique
<1>9. QED
  BY <1>8 DEF r, s, e

LEMMA RemainderTells ==
  ASSUME NEW d \in Nat \ {0}, NEW a \in Nat, NEW x \in 0..(d - 1), NEW y \in 0..(d - 1),
         (a + x) % d = (a + y) % d
  PROVE  x = y
<1> DEFINE p == (a + x) \div d
           q == (a + y) \div d
           m == (a + x) % d
<1>1. a + x \in Nat /\ a + y \in Nat
  OBVIOUS
<1>2. p \in Nat /\ m \in 0..(d - 1) /\ a + x = d * p + m
  BY <1>1, Division
<1>3. q \in Nat /\ a + y = d * q + m
  BY <1>1, Division
<1> HIDE DEF p, q, m
<1>4. d * p \in Int /\ d * q \in Int
  BY <1>2, <1>3
<1>5. CASE x >= y
  <2>1. x - y \in 0..(d - 1) /\ 0 \in 0..(d - 1) /\ p \in Int /\ q \in Int
    BY <1>2, <1>3, <1>5
  <2>2. d * q + (x - y) = d * p + 0
    BY <1>2, <1>3, <1>4
  <2>3. x - y = 0
    BY <2>1, <2>2, QuotientUnique
  <2>4. QED
    BY <2>3
<1>6. CASE y >= x
  <2>1. y - x \in 0..(d - 1) /\ 0 \in 0..(d - 1) /\ p \in Int /\ q \in Int
    BY <1>2, <1>3, <1>6
  <2>2. d * p + (y - x) = d * q + 0
    BY <1>2, <1>3, <1>4
  <2>3. y - x = 0
    BY <2>1, <2>2, QuotientUnique
  <2>4. QED
    BY <2>3
<1>7. QED
  BY <1>5, <1>6

-----------------------------------------------------------------------------
(***************************************************************************)
(* A step makes the input longer and never changes what it is.             *)
(***************************************************************************)
HasKind == "of" \in DOMAIN input

LEMMA KindKept ==
  ASSUME HasKind, [Next]_input
  PROVE  HasKind' /\ input'.of = input.of
<1>1. CASE NextSample \/ NextByte \/ NextSpeech \/ NextSetting
  BY <1>1 DEF HasKind, NextSample, NextByte, NextSpeech, NextSetting
<1>2. CASE NextChunk
  BY <1>2 DEF HasKind, NextChunk
<1>3. CASE CutFile
  BY <1>3 DEF HasKind, CutFile
<1>4. CASE NextLine
  <2>1. PICK line, part : AddLine(line, part)
    BY <1>4 DEF NextLine
  <2>2. QED
    BY <2>1 DEF AddLine, HasKind
<1>5. CASE NextRoute
  <2>1. \E records, routes : input' = [input EXCEPT !.records = records, !.routes = routes]
    BY <1>5 DEF NextRoute
  <2>2. QED
    BY <2>1 DEF HasKind
<1>6. CASE UNCHANGED input
  BY <1>6 DEF HasKind
<1>7. QED
  BY <1>1, <1>2, <1>3, <1>4, <1>5, <1>6 DEF Next

LEMMA KindFirst ==
  ASSUME Init PROVE HasKind
BY DEF Init, HasKind, Recordings

-----------------------------------------------------------------------------
(***************************************************************************)
(* Speech.                                                                 *)
(***************************************************************************)
Seeds == [sequence : {0, SequenceLimit - 1}, timestamp : {0, TimestampLimit - 2}]

SpeechInput == [of : {"speech"}, codec : {"pcmu", "pcma"}, samples : Seq(Levels),
                seed : Seeds]

SpeechInv ==
  /\ HasKind
  /\ input.of = "speech" => input \in SpeechInput /\ Len(input.samples) <= MaxSpeech

LEMMA SpeechFirst ==
  ASSUME Init PROVE SpeechInv
<1>1. HasKind
  BY KindFirst
<1>2. SUFFICES ASSUME input.of = "speech"
               PROVE  input \in SpeechInput /\ Len(input.samples) <= MaxSpeech
  BY <1>1 DEF SpeechInv
<1>3. input \in [of : {"speech"}, codec : {"pcmu", "pcma"}, samples : {<<>>}, seed : Seeds]
  BY <1>2 DEF Init, Recordings, Seeds
<1>4. <<>> \in Seq(Levels) /\ Len(<<>>) = 0 /\ 0 <= MaxSpeech
  BY EmptySeq, FormatsAssumption
<1>5. input \in SpeechInput /\ input.samples = <<>>
  BY <1>3, <1>4 DEF SpeechInput
<1>6. QED
  BY <1>4, <1>5

LEMMA SpeechStep ==
  ASSUME SpeechInv, [Next]_input PROVE SpeechInv'
<1>1. HasKind' /\ input'.of = input.of
  BY KindKept DEF SpeechInv
<1>2. SUFFICES ASSUME input.of = "speech"
               PROVE  input' \in SpeechInput /\ Len(input'.samples) <= MaxSpeech
  BY <1>1 DEF SpeechInv
<1>3. input \in SpeechInput /\ Len(input.samples) <= MaxSpeech
  BY <1>2 DEF SpeechInv
<1>4. NextSpeech \/ UNCHANGED input
  BY <1>2 DEF Next, NextSample, NextByte, NextChunk, CutFile, NextLine, NextRoute, NextSetting
<1>5. CASE NextSpeech
  <2>1. Len(input.samples) < MaxSpeech
    BY <1>5 DEF NextSpeech
  <2>2. PICK s \in Levels :
          input' = [input EXCEPT !.samples = Append(input.samples, s)]
    BY <1>5 DEF NextSpeech
  <2>3. input.samples \in Seq(Levels)
    BY <1>3 DEF SpeechInput
  <2>4. /\ Append(input.samples, s) \in Seq(Levels)
        /\ Len(Append(input.samples, s)) = Len(input.samples) + 1
        /\ Len(input.samples) \in Nat
    BY <2>3, AppendProperties, LenProperties
  <2>5. input' \in SpeechInput /\ input'.samples = Append(input.samples, s)
    <3> DEFINE longer == Append(input.samples, s)
    <3>1. longer \in Seq(Levels) /\ input' = [input EXCEPT !.samples = longer]
      BY <2>2, <2>4
    <3> HIDE DEF longer
    <3>2. input' \in SpeechInput /\ input'.samples = longer
      BY <1>3, <3>1 DEF SpeechInput
    <3>3. QED
      BY <3>2 DEF longer
  <2>6. QED
    BY <2>1, <2>4, <2>5, FormatsAssumption
<1>6. CASE UNCHANGED input
  BY <1>3, <1>6
<1>7. QED
  BY <1>4, <1>5, <1>6

(* The packets of a speech: how many, and when each of their samples is heard. *)
LEMMA Shape ==
  ASSUME NEW codec, NEW samples \in Seq(Levels), NEW seed \in Seeds
  PROVE  LET packets == Packets(codec, samples, seed)
             count   == PacketCount(samples)
         IN  /\ count \in Nat
             /\ DOMAIN packets = 1..count /\ Len(packets) = count
             /\ PacketSize * count - Len(samples) \in 0..(PacketSize - 1)
<1> DEFINE n == Len(samples)
           count == PacketCount(samples)
           packets == Packets(codec, samples, seed)
<1>1. n \in Nat /\ PacketSize \in Nat \ {0} /\ n + PacketSize - 1 \in Nat
  BY LenProperties, RtpAssumption
<1>2. /\ count \in Nat /\ (n + PacketSize - 1) % PacketSize \in 0..(PacketSize - 1)
      /\ n + PacketSize - 1 = PacketSize * count + ((n + PacketSize - 1) % PacketSize)
  <2>1. count = (n + PacketSize - 1) \div PacketSize
    BY DEF PacketCount
  <2> HIDE DEF count, n
  <2>2. QED
    BY <1>1, <2>1, Division
<1>3. DOMAIN packets = 1..count /\ packets \in [1..count -> {packets[k] : k \in 1..count}]
  BY DEF Packets
<1> HIDE DEF packets, count, n
<1>4. Len(packets) = count
  BY <1>2, <1>3, FunctionIsSeq
<1>5. PacketSize * count - n \in 0..(PacketSize - 1)
  <2>1. PacketSize * count \in Int
    BY <1>1, <1>2
  <2>2. QED
    BY <1>1, <1>2, <2>1
<1>6. QED
  BY <1>2, <1>3, <1>4, <1>5 DEF packets, count, n

HeardAt(stamp, j, start, i) == (stamp + j - 1) % TimestampLimit = (start + i - 1) % TimestampLimit

LEMMA Heard ==
  ASSUME NEW codec, NEW samples \in Seq(Levels), Len(samples) <= MaxSpeech, NEW seed \in Seeds,
         NEW i \in 1..(PacketSize * PacketCount(samples)),
         NEW k \in 1..PacketCount(samples), NEW j \in 1..PacketSize
  PROVE  HeardAt(Packets(codec, samples, seed)[k].timestamp, j, seed.timestamp, i)
           <=> i = PacketSize * (k - 1) + j
<1> DEFINE a == seed.timestamp
           T == TimestampLimit
           b == PacketSize * (k - 1)
           count == PacketCount(samples)
           stamp == Packets(codec, samples, seed)[k].timestamp
<1>1. /\ T \in Nat \ {0} /\ PacketSize \in Nat \ {0} /\ a \in Nat
      /\ MaxSpeech \in Nat /\ MaxSpeech + PacketSize <= T
  BY RtpAssumption, FormatsAssumption DEF Seeds
<1>2. count \in Nat /\ PacketSize * count - Len(samples) \in 0..(PacketSize - 1)
  BY Shape
<1>3. Len(samples) \in Nat
  BY LenProperties
<1>4. b \in Nat /\ b + PacketSize <= PacketSize * count /\ PacketSize * count \in Nat
  <2>1. k - 1 \in Nat /\ k \in Nat /\ count - k \in Nat
    BY <1>2
  <2>2. PacketSize * (count - k) \in Nat /\ b \in Nat
    BY <1>1, <2>1
  <2>3. /\ PacketSize * (k - 1) = PacketSize * k - PacketSize
        /\ PacketSize * (count - k) = PacketSize * count - PacketSize * k
    BY <1>1, <1>2, <2>1
  <2>4. PacketSize * k \in Nat /\ PacketSize * count \in Nat
    BY <1>1, <1>2, <2>1
  <2>5. QED
    BY <1>1, <2>2, <2>3, <2>4
<1>5. stamp = (a + b) % T
  <2>1. stamp = Packet(codec, samples, b, seed.sequence + k - 1, a + b).timestamp
    BY DEF Packets
  <2>2. QED
    BY <2>1 DEF Packet
<1> HIDE DEF a, T, b, count, stamp
<1>6. b + j - 1 \in 0..(T - 1) /\ i - 1 \in 0..(T - 1)
  <2>1. i \in 1..(PacketSize * count)
    BY DEF count
  <2>2. PacketSize * count < T
    BY <1>1, <1>2, <1>3, <1>4
  <2>3. QED
    BY <1>1, <1>4, <2>1, <2>2
<1>7. (stamp + j - 1) % T = (a + (b + j - 1)) % T
  <2>1. a + b \in Nat /\ j - 1 \in Nat
    BY <1>1, <1>4
  <2>2. (((a + b) % T) + (j - 1)) % T = ((a + b) + (j - 1)) % T
    BY <1>1, <2>1, RemainderOfSum
  <2>3. (a + b) % T \in Int
    BY <1>1, <2>1
  <2>4. stamp + j - 1 = ((a + b) % T) + (j - 1) /\ a + (b + j - 1) = (a + b) + (j - 1)
    BY <1>1, <1>4, <1>5, <2>3
  <2>5. QED
    BY <2>2, <2>4
<1>8. a + i - 1 = a + (i - 1)
  BY <1>1, <1>4 DEF count
<1>9. (a + (b + j - 1)) % T = (a + (i - 1)) % T <=> b + j - 1 = i - 1
  <2> DEFINE x == b + j - 1
             y == i - 1
  <2>1. x \in 0..(T - 1) /\ y \in 0..(T - 1)
    BY <1>6
  <2> HIDE DEF x, y
  <2>2. (a + x) % T = (a + y) % T <=> x = y
    BY <1>1, <2>1, RemainderTells
  <2>3. QED
    BY <2>2 DEF x, y
<1>10. b + j - 1 = i - 1 <=> i = b + j
  BY <1>4, <1>6 DEF count
<1>11. QED
  BY <1>7, <1>8, <1>9, <1>10 DEF a, T, b, stamp, HeardAt

(* Each time of a speech is in one packet, at one place. *)
OnlyPlace(count, i, k, j) ==
  /\ k \in 1..count /\ j \in 1..PacketSize /\ i = PacketSize * (k - 1) + j
  /\ \A l \in 1..count, m \in 1..PacketSize :
       i = PacketSize * (l - 1) + m => l = k /\ m = j

LEMMA Place ==
  ASSUME NEW count \in Nat, NEW i \in 1..(PacketSize * count)
  PROVE  OnlyPlace(count, i, ((i - 1) \div PacketSize) + 1, ((i - 1) % PacketSize) + 1)
<1> DEFINE q == (i - 1) \div PacketSize
           r == (i - 1) % PacketSize
<1>1. PacketSize \in Nat \ {0} /\ PacketSize * count \in Nat /\ i - 1 \in Nat
  BY RtpAssumption
<1>2. q \in Nat /\ r \in 0..(PacketSize - 1) /\ i - 1 = PacketSize * q + r
  BY <1>1, Division
<1> HIDE DEF q, r
<1>3. q < count
  <2>1. SUFFICES ASSUME q >= count PROVE FALSE
    BY <1>2
  <2>2. PacketSize * (q - count) \in Nat /\ PacketSize * q \in Nat
    BY <1>1, <1>2, <2>1
  <2>3. PacketSize * (q - count) = PacketSize * q - PacketSize * count
    BY <1>1, <1>2
  <2>4. QED
    BY <1>1, <1>2, <2>2, <2>3
<1>4. PacketSize * q \in Int /\ (q + 1) - 1 = q /\ i = PacketSize * q + (r + 1)
  BY <1>1, <1>2
<1>5. ASSUME NEW l \in 1..count, NEW m \in 1..PacketSize, i = PacketSize * (l - 1) + m
      PROVE  l = q + 1 /\ m = r + 1
  <2> DEFINE s == m - 1
             p == l - 1
  <2>1. p \in Int /\ s \in 0..(PacketSize - 1) /\ PacketSize * p \in Int /\ m = s + 1 /\ l = p + 1
    BY <1>1
  <2>2. i = PacketSize * p + m
    BY <1>5
  <2> HIDE DEF s, p
  <2>3. PacketSize * p + s = PacketSize * q + r
    BY <1>1, <1>2, <1>4, <2>1, <2>2
  <2>4. p = q /\ s = r
    BY <1>1, <1>2, <2>1, <2>3, QuotientUnique
  <2>5. QED
    BY <2>1, <2>4
<1>6. q + 1 \in 1..count /\ r + 1 \in 1..PacketSize
  BY <1>1, <1>2, <1>3
<1>7. QED
  BY <1>4, <1>5, <1>6 DEF q, r, OnlyPlace

LEMMA SpeechHeard ==
  ASSUME SpeechInv PROVE SoundSent
<1>1. SUFFICES ASSUME input.of = "speech" PROVE SoundSent
  BY DEF SoundSent
<1> DEFINE codec == input.codec
           samples == input.samples
           seed == input.seed
           packets == Packets(codec, samples, seed)
           count == PacketCount(samples)
           length == PacketSize * Len(packets)
           at(i) == {a \in (DOMAIN packets) \X (1..PacketSize) :
                       (packets[a[1]].timestamp + a[2] - 1) % TimestampLimit
                         = (seed.timestamp + i - 1) % TimestampLimit}
<1>2. samples \in Seq(Levels) /\ Len(samples) <= MaxSpeech /\ seed \in Seeds
  BY <1>1 DEF SpeechInv, SpeechInput
<1>3. /\ count \in Nat /\ DOMAIN packets = 1..count /\ Len(packets) = count
      /\ PacketSize * count - Len(samples) \in 0..(PacketSize - 1)
  <2> HIDE DEF samples, seed, codec
  <2>1. QED
    BY <1>2, Shape
<1>4. \A k \in 1..count :
        /\ packets[k].sequence = (seed.sequence + k - 1) % SequenceLimit
        /\ \A j \in 1..PacketSize :
             packets[k].payload[j] = Encode(codec, SampleOrSilence(samples, PacketSize * (k - 1) + j))
  <2>1. TAKE k \in 1..count
  <2>2. packets[k] = Packet(codec, samples, PacketSize * (k - 1), seed.sequence + k - 1,
                            seed.timestamp + PacketSize * (k - 1))
    BY DEF Packets
  <2> HIDE DEF packets, count, samples, seed, codec
  <2>3. QED
    BY <2>2 DEF Packet
<1>5. ASSUME NEW i \in 1..(PacketSize * count)
      PROVE  \E k \in 1..count, j \in 1..PacketSize :
               /\ at(i) = {<<k, j>>}
               /\ packets[k].payload[j] = Encode(codec, SampleOrSilence(samples, i))
  <2> DEFINE k == ((i - 1) \div PacketSize) + 1
             j == ((i - 1) % PacketSize) + 1
  <2>1. /\ k \in 1..count /\ j \in 1..PacketSize /\ i = PacketSize * (k - 1) + j
        /\ \A l \in 1..count, m \in 1..PacketSize :
             i = PacketSize * (l - 1) + m => l = k /\ m = j
    <3>1. OnlyPlace(count, i, k, j)
      <4> HIDE DEF count
      <4>1. QED
        BY <1>3, Place
    <3> HIDE DEF count, k, j
    <3>2. QED
      BY <3>1 DEF OnlyPlace
  <2>2. \A l \in 1..count, m \in 1..PacketSize :
          (packets[l].timestamp + m - 1) % TimestampLimit = (seed.timestamp + i - 1) % TimestampLimit
            <=> i = PacketSize * (l - 1) + m
    <3>1. TAKE l \in 1..count, m \in 1..PacketSize
    <3>2. samples \in Seq(Levels) /\ Len(samples) <= MaxSpeech /\ seed \in Seeds
      BY <1>2
    <3>3. i \in 1..(PacketSize * PacketCount(samples)) /\ l \in 1..PacketCount(samples)
      OBVIOUS
    <3> HIDE DEF samples, seed, codec, count, k, j, at
    <3>4. HeardAt(Packets(codec, samples, seed)[l].timestamp, m, seed.timestamp, i)
           <=> i = PacketSize * (l - 1) + m
      <4> HIDE DEF packets
      <4>1. QED
        BY <3>2, <3>3, Heard
    <3>5. QED
      BY <3>4 DEF HeardAt
  <2> HIDE DEF k, j, packets, count
  <2>3. at(i) = {<<k, j>>}
    <3>1. ASSUME NEW a \in at(i) PROVE a = <<k, j>>
      <4>1. PICK l \in 1..count, m \in 1..PacketSize : a = <<l, m>>
        <5>1. a \in (DOMAIN packets) \X (1..PacketSize)
          BY <3>1
        <5> HIDE DEF at
        <5>2. a \in (1..count) \X (1..PacketSize)
          BY <1>3, <5>1
        <5>3. QED
          BY <5>2
      <4>2. (packets[l].timestamp + m - 1) % TimestampLimit
              = (seed.timestamp + i - 1) % TimestampLimit
        BY <3>1, <4>1
      <4> HIDE DEF at
      <4>3. l = k /\ m = j
        BY <2>1, <2>2, <4>2
      <4>4. QED
        BY <4>1, <4>3
    <3>2. <<k, j>> \in at(i)
      BY <1>3, <2>1, <2>2
    <3> HIDE DEF at
    <3>3. QED
      BY <3>1, <3>2
  <2>4. packets[k].payload[j] = Encode(codec, SampleOrSilence(samples, i))
    <3>1. packets[k].payload[j] = Encode(codec, SampleOrSilence(samples, PacketSize * (k - 1) + j))
      BY <1>4, <2>1
    <3>2. QED
      BY <2>1, <3>1
  <2> HIDE DEF at
  <2>5. QED
    BY <2>1, <2>3, <2>4
<1>6. \A i : SampleOrSilence(samples, i) = IF i <= Len(samples) THEN samples[i] ELSE 0
  BY DEF SampleOrSilence, Silence
<1>7. \A i \in 1..length :
        \E k \in DOMAIN packets, j \in 1..PacketSize :
          /\ at(i) = {<<k, j>>}
          /\ packets[k].payload[j] = Encode(codec, IF i <= Len(samples) THEN samples[i] ELSE 0)
  <2> HIDE DEF at, packets, count, samples, codec
  <2>1. QED
    BY <1>3, <1>5, <1>6
<1>8. length - Len(samples) \in 0..(PacketSize - 1)
  <2> HIDE DEF packets, count, samples
  <2>1. QED
    BY <1>3
<1>9. \A k \in DOMAIN packets : packets[k].sequence = (seed.sequence + k - 1) % SequenceLimit
  BY <1>3, <1>4
<1>10. QED
  BY <1>7, <1>8, <1>9 DEF SoundSent

(* play and playAnnouncement: a recording of any length, sent in packets of *)
(* any size from any of the first counters, is heard sample by sample at    *)
(* its time and completed with silence, without a gap or a repetition in    *)
(* the sequence numbers.                                                    *)
THEOREM SpeechIsSent == Spec => []SoundSent
<1>1. Init => SpeechInv
  BY SpeechFirst
<1>2. SpeechInv /\ [Next]_input => SpeechInv'
  BY SpeechStep
<1>3. SpeechInv => SoundSent
  BY SpeechHeard
<1>4. QED
  BY <1>1, <1>2, <1>3, PTL DEF Spec

-----------------------------------------------------------------------------
(***************************************************************************)
(* SDP answers.                                                            *)
(***************************************************************************)
Named == Addresses \cup {Garbled}
CLines == {CLine(a) : a \in Named}
AudioLines == {MLine("audio", port, payloads) : port \in {0, 4000}, payloads \in SUBSET {0, 8, 101}}
Lines == CLines \cup AudioLines

AnswerInput == [of : {"answer"}, codec : {PCMU, PCMA}, lines : Seq(Lines),
                part : {"session", "time", "media", "end"}]

(* The audio section of an answer, at the end or before a last connection  *)
(* line, and the place for every other line.                               *)
AudioAt(lines, at) ==
  /\ at \in DOMAIN lines
  /\ lines[at] \in AudioLines
  /\ \A i \in DOMAIN lines \ {at} : lines[i] \in CLines

WellFormed(lines, part) ==
  CASE part = "session" -> Len(lines) = 0
    [] part = "time"    -> Len(lines) = 1 /\ lines[1] \in CLines
    [] part = "media"   -> Len(lines) \in 1..2 /\ AudioAt(lines, Len(lines))
    [] part = "end"     -> Len(lines) \in 2..3 /\ AudioAt(lines, Len(lines) - 1)

AnswerInv ==
  /\ HasKind
  /\ input.of = "answer" => input \in AnswerInput /\ WellFormed(input.lines, input.part)

LEMMA LineFields ==
  /\ \A line \in CLines : line \in Lines /\ line.is = "c" /\ line.address \in Named
  /\ \A line \in AudioLines : line \in Lines /\ line.is = "m" /\ IsAudio(line)
BY DEF CLines, AudioLines, CLine, MLine, IsAudio, Lines

LEMMA AnswerFirst ==
  ASSUME Init PROVE AnswerInv
<1>1. HasKind
  BY KindFirst
<1>2. SUFFICES ASSUME input.of = "answer"
               PROVE  input \in AnswerInput /\ WellFormed(input.lines, input.part)
  BY <1>1 DEF AnswerInv
<1>3. input \in [of : {"answer"}, codec : {PCMU, PCMA}, lines : {<<>>}, part : {"session"}]
  BY <1>2 DEF Init, Recordings
<1>4. <<>> \in Seq(Lines) /\ Len(<<>>) = 0
  BY EmptySeq
<1>5. input \in AnswerInput /\ input.lines = <<>> /\ input.part = "session"
  BY <1>3, <1>4 DEF AnswerInput
<1>6. QED
  BY <1>4, <1>5 DEF WellFormed

LEMMA AddedLine ==
  ASSUME NEW lines \in Seq(Lines), NEW line \in Lines
  PROVE  LET longer == Append(lines, line)
         IN  /\ longer \in Seq(Lines)
             /\ Len(lines) \in Nat /\ Len(longer) = Len(lines) + 1
             /\ DOMAIN lines = 1..Len(lines) /\ DOMAIN longer = 1..(Len(lines) + 1)
             /\ longer[Len(lines) + 1] = line
             /\ \A i \in 1..Len(lines) : longer[i] = lines[i]
BY AppendProperties, LenProperties

LEMMA AddedLines ==
  ASSUME NEW lines \in Seq(Lines), NEW line \in Lines
  PROVE  /\ WellFormed(lines, "session") /\ line \in CLines
              => WellFormed(Append(lines, line), "time")
         /\ WellFormed(lines, "session") /\ line \in AudioLines
              => WellFormed(Append(lines, line), "media")
         /\ WellFormed(lines, "time") /\ line \in AudioLines
              => WellFormed(Append(lines, line), "media")
         /\ WellFormed(lines, "media") /\ line \in CLines
              => WellFormed(Append(lines, line), "end")
<1> DEFINE n == Len(lines)
           longer == Append(lines, line)
<1>1. /\ n \in Nat /\ Len(longer) = n + 1 /\ DOMAIN lines = 1..n /\ DOMAIN longer = 1..(n + 1)
      /\ longer[n + 1] = line
      /\ \A i \in 1..n : longer[i] = lines[i]
  BY AddedLine
<1> HIDE DEF longer
<1>2. WellFormed(lines, "session") /\ line \in CLines => WellFormed(longer, "time")
  BY <1>1 DEF WellFormed
<1>3. WellFormed(lines, "session") /\ line \in AudioLines => WellFormed(longer, "media")
  BY <1>1 DEF WellFormed, AudioAt
<1>4. WellFormed(lines, "time") /\ line \in AudioLines => WellFormed(longer, "media")
  <2>1. SUFFICES ASSUME n = 1, lines[1] \in CLines, line \in AudioLines
                 PROVE  n + 1 \in 1..2 /\ AudioAt(longer, n + 1)
    BY <1>1 DEF WellFormed
  <2>2. DOMAIN longer \ {n + 1} = {1} /\ longer[1] = lines[1] /\ n + 1 \in DOMAIN longer
    BY <1>1, <2>1
  <2>3. QED
    BY <1>1, <2>1, <2>2 DEF AudioAt
<1>5. WellFormed(lines, "media") /\ line \in CLines => WellFormed(longer, "end")
  <2>1. SUFFICES ASSUME n \in 1..2, AudioAt(lines, n), line \in CLines
                 PROVE  n + 1 \in 2..3 /\ AudioAt(longer, n)
    BY <1>1 DEF WellFormed
  <2>2. n \in DOMAIN longer /\ longer[n] \in AudioLines
    BY <1>1, <2>1 DEF AudioAt
  <2>3. \A i \in DOMAIN longer \ {n} : longer[i] \in CLines
    BY <1>1, <2>1 DEF AudioAt
  <2>4. QED
    BY <2>1, <2>2, <2>3 DEF AudioAt
<1>6. QED
  BY <1>2, <1>3, <1>4, <1>5 DEF longer

LEMMA AnswerStep ==
  ASSUME AnswerInv, [Next]_input PROVE AnswerInv'
<1>1. HasKind' /\ input'.of = input.of
  BY KindKept DEF AnswerInv
<1>2. SUFFICES ASSUME input.of = "answer"
               PROVE  input' \in AnswerInput /\ WellFormed(input'.lines, input'.part)
  BY <1>1 DEF AnswerInv
<1>3. input \in AnswerInput /\ WellFormed(input.lines, input.part)
  BY <1>2 DEF AnswerInv
<1>4. NextLine \/ UNCHANGED input
  BY <1>2 DEF Next, NextSample, NextByte, NextChunk, CutFile, NextSpeech, NextRoute, NextSetting
<1>5. ASSUME NEW line \in Lines, NEW part \in {"time", "media", "end"}, AddLine(line, part),
             WellFormed(Append(input.lines, line), part)
      PROVE  input' \in AnswerInput /\ WellFormed(input'.lines, input'.part)
  <2> DEFINE longer == Append(input.lines, line)
  <2>1. longer \in Seq(Lines)
    BY <1>3, AddedLine DEF AnswerInput
  <2>2. input' = [input EXCEPT !.lines = longer, !.part = part]
    BY <1>5 DEF AddLine
  <2>3. WellFormed(longer, part)
    BY <1>5
  <2> HIDE DEF longer
  <2>4. input' \in AnswerInput /\ input'.lines = longer /\ input'.part = part
    BY <1>3, <2>1, <2>2 DEF AnswerInput
  <2>5. QED
    BY <2>3, <2>4
<1>6. CASE NextLine
  <2>1. input.lines \in Seq(Lines)
    BY <1>3 DEF AnswerInput
  <2>2. CASE input.part = "session" /\ \E a \in Named : AddLine(CLine(a), "time")
    <3>1. PICK a \in Named : AddLine(CLine(a), "time")
      BY <2>2
    <3>2. CLine(a) \in CLines /\ CLine(a) \in Lines
      BY DEF CLines, Lines
    <3>3. QED
      BY <1>3, <1>5, <2>1, <2>2, <3>1, <3>2, AddedLines
  <2>3. CASE /\ input.part \in {"session", "time"}
             /\ \E port \in {0, 4000}, payloads \in SUBSET {0, 8, 101} :
                  AddLine(MLine("audio", port, payloads), "media")
    <3>1. PICK port \in {0, 4000}, payloads \in SUBSET {0, 8, 101} :
            AddLine(MLine("audio", port, payloads), "media")
      BY <2>3
    <3> DEFINE line == MLine("audio", port, payloads)
    <3>2. line \in AudioLines /\ line \in Lines
      BY DEF AudioLines, Lines
    <3> HIDE DEF line
    <3>3. AddLine(line, "media")
      BY <3>1 DEF line
    <3>4. WellFormed(Append(input.lines, line), "media")
      BY <1>3, <2>1, <2>3, <3>2, AddedLines
    <3>5. QED
      BY <1>5, <3>2, <3>3, <3>4
  <2>4. CASE input.part = "media" /\ \E a \in Named : AddLine(CLine(a), "end")
    <3>1. PICK a \in Named : AddLine(CLine(a), "end")
      BY <2>4
    <3>2. CLine(a) \in CLines /\ CLine(a) \in Lines
      BY DEF CLines, Lines
    <3>3. QED
      BY <1>3, <1>5, <2>1, <2>4, <3>1, <3>2, AddedLines
  <2>5. QED
    BY <1>6, <2>2, <2>3, <2>4 DEF NextLine, Named
<1>7. CASE UNCHANGED input
  BY <1>3, <1>7
<1>8. QED
  BY <1>4, <1>6, <1>7

(* Which lines the gateway reads of an answer. *)
LEMMA LinesRead ==
  ASSUME NEW lines \in Seq(Lines), NEW at, AudioAt(lines, at), Len(lines) - at \in 0..1
  PROVE  /\ SelectLastInSeq(lines, IsAudio) = at
         /\ Addressed(lines) = IF at < Len(lines) THEN Len(lines) ELSE at - 1
         /\ (CHOOSE i \in DOMAIN lines : lines[i].is = "m") = at
         /\ at \in 1..Len(lines) /\ Len(lines) \in Nat
<1> DEFINE n == Len(lines)
           audio == {i \in 1..Len(lines) : IsAudio(lines[i])}
           addressed == {i \in 1..Len(lines) : lines[i].is = "c"}
<1>1. n \in Nat /\ DOMAIN lines = 1..n /\ at \in 1..n /\ (at = n \/ at = n - 1)
  BY LenProperties DEF AudioAt
<1>2. lines[at].is = "m" /\ IsAudio(lines[at])
  BY LineFields DEF AudioAt
<1>3. \A i \in 1..n : i # at => lines[i].is = "c" /\ ~IsAudio(lines[i])
  <2>1. \A i \in 1..n : i # at => lines[i] \in CLines
    BY <1>1 DEF AudioAt
  <2>2. QED
    BY <2>1, LineFields DEF IsAudio
<1>4. audio = {at}
  BY <1>1, <1>2, <1>3
<1>5. addressed = (1..n) \ {at}
  BY <1>1, <1>2, <1>3
<1>6. SelectLastInSeq(lines, IsAudio) = IF audio # {} THEN Max(audio) ELSE 0
  BY DEF SelectLastInSeq
<1>7. Addressed(lines) = IF addressed # {} THEN Max(addressed) ELSE 0
  BY DEF Addressed, SelectLastInSeq
<1> HIDE DEF audio, addressed, n
<1>8. Max(audio) = at
  <2>1. {at} \subseteq Int /\ at \in {at} /\ \A x \in {at} : x <= at
    BY <1>1
  <2>2. QED
    BY <1>4, <2>1, GreatestIs
<1>9. SelectLastInSeq(lines, IsAudio) = at
  BY <1>4, <1>6, <1>8
<1>10. (CHOOSE i \in DOMAIN lines : lines[i].is = "m") = at
  <2>1. \A i \in DOMAIN lines : lines[i].is = "m" <=> i = at
    BY <1>1, <1>2, <1>3
  <2>2. QED
    BY <1>1, <2>1
<1>11. CASE at < n
  <2>1. n \in addressed /\ addressed \subseteq Int /\ \A x \in addressed : x <= n
    BY <1>1, <1>5, <1>11
  <2>2. Addressed(lines) = n
    BY <1>7, <2>1, GreatestIs
  <2>3. Addressed(lines) = IF at < n THEN n ELSE at - 1
    BY <1>11, <2>2
  <2>4. QED
    BY <1>1, <1>9, <1>10, <2>3 DEF n
<1>12. CASE at = n
  <2>1. Addressed(lines) = n - 1
    <3>1. CASE n = 1
      <4>1. addressed = {}
        BY <1>5, <1>12, <3>1
      <4>2. QED
        BY <1>7, <3>1, <4>1
    <3>2. CASE n > 1
      <4>1. n - 1 \in addressed /\ addressed \subseteq Int /\ \A x \in addressed : x <= n - 1
        BY <1>1, <1>5, <1>12, <3>2
      <4>2. QED
        BY <1>7, <4>1, GreatestIs
    <3>3. QED
      BY <1>1, <1>12, <3>1, <3>2
  <2>2. Addressed(lines) = IF at < n THEN n ELSE at - 1
    BY <1>1, <1>12, <2>1
  <2>3. QED
    BY <1>1, <1>9, <1>10, <2>2 DEF n
<1>13. QED
  BY <1>1, <1>11, <1>12

LEMMA AnswerRead ==
  ASSUME NEW lines \in Seq(Lines), NEW at, AudioAt(lines, at), at \in 1..2,
         Len(lines) - at \in 0..1, NEW codec
  PROVE  LET m     == CHOOSE i \in DOMAIN lines : lines[i].is = "m"
             meant == IF m < Len(lines) THEN lines[Len(lines)].address
                      ELSE IF m > 1 THEN lines[1].address ELSE Garbled
             taken == AudioTarget(lines) # NoTarget /\ AcceptsCodec(lines, codec)
         IN  /\ taken <=> /\ meant \in Addresses
                          /\ lines[m].port # 0
                          /\ codec.payloadType \in lines[m].payloads
             /\ taken => AudioTarget(lines) = [address |-> meant, port |-> lines[m].port]
<1> DEFINE n == Len(lines)
           m == CHOOSE i \in DOMAIN lines : lines[i].is = "m"
           c == Addressed(lines)
           meant == IF at < n THEN lines[n].address
                    ELSE IF at > 1 THEN lines[1].address ELSE Garbled
           accepted == AcceptsCodec(lines, codec)
           target == AudioTarget(lines)
<1>1. /\ SelectLastInSeq(lines, IsAudio) = at
      /\ c = IF at < n THEN n ELSE at - 1
      /\ m = at /\ at \in 1..n /\ n \in Nat
  BY LinesRead
<1>2. target = IF c = 0 \/ at = 0 \/ lines[c].address \notin Addresses \/ lines[at].port = 0
                 THEN NoTarget ELSE [address |-> lines[c].address, port |-> lines[at].port]
  BY <1>1 DEF AudioTarget
<1>3. accepted <=> lines[at].port # 0 /\ codec.payloadType \in lines[at].payloads
  <2>1. DOMAIN lines = 1..n
    BY LenProperties
  <2>2. \A i \in DOMAIN lines : IsAudio(lines[i]) <=> i = at
    <3>1. \A i \in DOMAIN lines \ {at} : ~IsAudio(lines[i])
      BY LineFields DEF AudioAt, IsAudio
    <3>2. IsAudio(lines[at])
      BY LineFields DEF AudioAt
    <3>3. QED
      BY <3>1, <3>2
  <2> HIDE DEF n
  <2>3. QED
    BY <1>1, <2>1, <2>2 DEF AcceptsCodec
<1> HIDE DEF c, target, accepted, m, n
<1>4. meant \in Addresses <=> c # 0 /\ lines[c].address \in Addresses
  BY <1>1, SdpAssumption
<1>5. c # 0 => meant = lines[c].address
  BY <1>1
<1> HIDE DEF meant
<1>6. CASE meant \in Addresses /\ lines[at].port # 0
  <2>1. target = [address |-> meant, port |-> lines[at].port]
    <3>1. c # 0 /\ at # 0 /\ lines[c].address = meant
      BY <1>1, <1>4, <1>5, <1>6
    <3>2. QED
      BY <1>2, <1>6, <3>1
  <2>2. target # NoTarget
    <3>1. target.address # NoTarget.address
      BY <1>6, <2>1, SdpAssumption DEF NoTarget
    <3>2. QED
      BY <3>1
  <2>3. QED
    BY <1>1, <1>3, <1>6, <2>1, <2>2 DEF target, accepted, m, meant, n
<1>7. CASE ~(meant \in Addresses /\ lines[at].port # 0)
  <2>1. target = NoTarget
    BY <1>2, <1>4, <1>7
  <2>2. QED
    BY <1>1, <1>3, <1>7, <2>1 DEF target, accepted, m, meant, n
<1>8. QED
  BY <1>6, <1>7

LEMMA AnswersRead ==
  ASSUME AnswerInv PROVE AnswerUnderstood
<1>1. SUFFICES ASSUME input.of = "answer", input.part \in {"media", "end"} PROVE AnswerUnderstood
  BY DEF AnswerUnderstood
<1>2. input.lines \in Seq(Lines) /\ WellFormed(input.lines, input.part)
  BY <1>1 DEF AnswerInv, AnswerInput
<1>3. \E at \in 1..2 : AudioAt(input.lines, at) /\ Len(input.lines) - at \in 0..1
  <2>1. CASE input.part = "media"
    <3>1. Len(input.lines) \in 1..2 /\ AudioAt(input.lines, Len(input.lines))
      BY <1>2, <2>1 DEF WellFormed
    <3>2. Len(input.lines) - Len(input.lines) \in 0..1
      BY <3>1
    <3>3. QED
      BY <3>1, <3>2
  <2>2. CASE input.part = "end"
    <3> DEFINE at == Len(input.lines) - 1
    <3>1. Len(input.lines) \in 2..3 /\ AudioAt(input.lines, at)
      BY <1>2, <2>2 DEF WellFormed
    <3>2. at \in 1..2 /\ Len(input.lines) - at \in 0..1
      BY <3>1
    <3> HIDE DEF at
    <3>3. QED
      BY <3>1, <3>2
  <2>3. QED
    BY <1>1, <2>1, <2>2
<1> DEFINE lines == input.lines
           codec == input.codec
<1>4. PICK at \in 1..2 : AudioAt(lines, at) /\ Len(lines) - at \in 0..1
  BY <1>3
<1>5. lines \in Seq(Lines)
  BY <1>2
<1> HIDE DEF lines, codec
<1> DEFINE m == CHOOSE i \in DOMAIN lines : lines[i].is = "m"
           meant == IF m < Len(lines) THEN lines[Len(lines)].address
                    ELSE IF m > 1 THEN lines[1].address ELSE Garbled
           taken == AudioTarget(lines) # NoTarget /\ AcceptsCodec(lines, codec)
<1>6. /\ taken <=> /\ meant \in Addresses
                   /\ lines[m].port # 0
                   /\ codec.payloadType \in lines[m].payloads
      /\ taken => AudioTarget(lines) = [address |-> meant, port |-> lines[m].port]
  BY <1>4, <1>5, AnswerRead
<1>7. QED
  BY <1>6 DEF AnswerUnderstood, lines, codec

(* sdp.go as dial uses it: whatever the addresses, an answer is taken        *)
(* exactly if the far end accepted the codec on an address, and the gateway  *)
(* then sends to the address of the audio section before that of the session.*)
THEOREM AnswersUnderstood == Spec => []AnswerUnderstood
<1>1. Init => AnswerInv
  BY AnswerFirst
<1>2. AnswerInv /\ [Next]_input => AnswerInv'
  BY AnswerStep
<1>3. AnswerInv => AnswerUnderstood
  BY AnswersRead
<1>4. QED
  BY <1>1, <1>2, <1>3, PTL DEF Spec

-----------------------------------------------------------------------------
(***************************************************************************)
(* Settings.                                                               *)
(***************************************************************************)
Settings == Values \cup {Unset}
Environments == [Keys -> Settings]
EnvLines == [key : Keys, value : Settings]

SettingsInput == [of : {"settings"}, environment : Environments, lines : Seq(EnvLines)]

SettingsInv ==
  /\ HasKind
  /\ input.of = "settings" => input \in SettingsInput

LEMMA SettingsFirst ==
  ASSUME Init PROVE SettingsInv
<1>1. HasKind
  BY KindFirst
<1>2. SUFFICES ASSUME input.of = "settings" PROVE input \in SettingsInput
  BY <1>1 DEF SettingsInv
<1>3. input \in [of : {"settings"}, environment : Environments, lines : {<<>>}]
  BY <1>2 DEF Init, Recordings, Environments, Settings
<1>4. <<>> \in Seq(EnvLines)
  BY EmptySeq
<1>5. QED
  BY <1>3, <1>4 DEF SettingsInput

LEMMA SettingsStep ==
  ASSUME SettingsInv, [Next]_input PROVE SettingsInv'
<1>1. HasKind' /\ input'.of = input.of
  BY KindKept DEF SettingsInv
<1>2. SUFFICES ASSUME input.of = "settings" PROVE input' \in SettingsInput
  BY <1>1 DEF SettingsInv
<1>3. input \in SettingsInput
  BY <1>2 DEF SettingsInv
<1>4. NextSetting \/ UNCHANGED input
  BY <1>2 DEF Next, NextSample, NextByte, NextChunk, CutFile, NextLine, NextSpeech, NextRoute
<1>5. CASE NextSetting
  <2>1. PICK line \in EnvLines : input' = [input EXCEPT !.lines = Append(input.lines, line)]
    BY <1>5 DEF NextSetting, EnvLines, Settings
  <2> DEFINE longer == Append(input.lines, line)
  <2>2. longer \in Seq(EnvLines)
    BY <1>3, AppendProperties DEF SettingsInput
  <2>3. input' = [input EXCEPT !.lines = longer]
    BY <2>1
  <2> HIDE DEF longer
  <2>4. QED
    BY <1>3, <2>2, <2>3 DEF SettingsInput
<1>6. CASE UNCHANGED input
  BY <1>3, <1>6
<1>7. QED
  BY <1>4, <1>5, <1>6

(* What the first m lines of .env make of a variable.                      *)
GivenIn(lines, m, key) == {i \in 1..m : lines[i].key = key /\ lines[i].value # Unset}

Resolved(before, lines, m, after) ==
  \A key \in Keys :
    IF before[key] # Unset THEN after[key] = before[key]
    ELSE \/ GivenIn(lines, m, key) = {} /\ after[key] = Unset
         \/ \E g \in GivenIn(lines, m, key) :
              /\ \A i \in GivenIn(lines, m, key) : g <= i
              /\ after[key] = lines[g].value

LEMMA LineLoaded ==
  ASSUME NEW e \in Environments, NEW line \in EnvLines
  PROVE  /\ LoadLine(e, line) \in Environments
         /\ \A key \in Keys :
              LoadLine(e, line)[key] = IF key = line.key /\ e[key] = Unset THEN line.value
                                       ELSE e[key]
<1>1. line.key \in Keys /\ line.value \in Settings
  BY DEF EnvLines
<1>2. CASE e[line.key] = Unset
  <2> DEFINE v == line.value
             k == line.key
  <2>1. LoadLine(e, line) = [e EXCEPT ![k] = v]
    BY <1>2 DEF LoadLine, Missing
  <2>2. k \in Keys /\ v \in Settings /\ e[k] = Unset
    BY <1>1, <1>2
  <2> HIDE DEF k, v
  <2>3. [e EXCEPT ![k] = v] \in Environments
        /\ \A key \in Keys : [e EXCEPT ![k] = v][key] = IF key = k /\ e[key] = Unset THEN v ELSE e[key]
    BY <2>2 DEF Environments
  <2>4. QED
    BY <2>1, <2>3 DEF k, v
<1>3. CASE e[line.key] # Unset
  BY <1>3 DEF LoadLine, Missing
<1>4. QED
  BY <1>2, <1>3

LEMMA ResolvedStep ==
  ASSUME NEW before \in Environments, NEW lines \in Seq(EnvLines), NEW m \in 1..Len(lines),
         NEW e \in Environments, Resolved(before, lines, m - 1, e)
  PROVE  Resolved(before, lines, m, LoadLine(e, lines[m]))
<1> DEFINE line == lines[m]
           after == LoadLine(e, line)
<1>1. m \in Nat /\ m >= 1 /\ line \in EnvLines
  BY LenProperties, ElementOfSeq
<1> HIDE DEF line
<1>2. \A key \in Keys : after[key] = IF key = line.key /\ e[key] = Unset THEN line.value ELSE e[key]
  BY <1>1, LineLoaded
<1> HIDE DEF after
<1>3. SUFFICES ASSUME NEW key \in Keys
               PROVE  IF before[key] # Unset THEN after[key] = before[key]
                      ELSE \/ GivenIn(lines, m, key) = {} /\ after[key] = Unset
                           \/ \E g \in GivenIn(lines, m, key) :
                                /\ \A i \in GivenIn(lines, m, key) : g <= i
                                /\ after[key] = lines[g].value
  BY DEF Resolved, after, line
<1> DEFINE old == GivenIn(lines, m - 1, key)
           new == GivenIn(lines, m, key)
<1>4. /\ new = IF line.key = key /\ line.value # Unset THEN old \cup {m} ELSE old
      /\ \A i \in old : i \in 1..(m - 1) /\ lines[i].value # Unset
  BY <1>1 DEF GivenIn, line
<1>5. /\ before[key] # Unset => e[key] = before[key]
      /\ before[key] = Unset => \/ old = {} /\ e[key] = Unset
                                \/ \E g \in old : (\A i \in old : g <= i) /\ e[key] = lines[g].value
  BY DEF Resolved
<1> HIDE DEF old, new
<1>6. CASE before[key] # Unset
  BY <1>2, <1>5, <1>6
<1>7. CASE before[key] = Unset /\ old = {} /\ e[key] = Unset
  <2>1. CASE line.key = key /\ line.value # Unset
    <3>1. new = {m} /\ after[key] = lines[m].value
      BY <1>2, <1>4, <1>7, <2>1 DEF line
    <3>2. QED
      BY <1>1, <1>7, <3>1 DEF new
  <2>2. CASE ~(line.key = key /\ line.value # Unset)
    <3>1. new = {} /\ after[key] = Unset
      BY <1>2, <1>4, <1>7, <2>2
    <3>2. QED
      BY <1>7, <3>1 DEF new
  <2>3. QED
    BY <2>1, <2>2
<1>8. CASE /\ before[key] = Unset
           /\ \E g \in old : (\A i \in old : g <= i) /\ e[key] = lines[g].value
  <2>1. PICK g \in old : (\A i \in old : g <= i) /\ e[key] = lines[g].value
    BY <1>8
  <2>2. g \in new /\ \A i \in new : g <= i
    BY <1>1, <1>4, <2>1
  <2>3. after[key] = lines[g].value
    BY <1>2, <1>4, <2>1
  <2>4. QED
    BY <1>8, <2>2, <2>3 DEF new
<1>9. QED
  BY <1>5, <1>6, <1>7, <1>8

(* The recursive function that LoadDotEnv is, by the definition of FoldLeft. *)
Loads(f, before, lines) ==
  f = [s \in SUBSET DOMAIN lines |->
        IF s = {} THEN before ELSE LoadLine(f[s \ {Max(s)}], lines[Max(s)])]

LEMMA LoadsExist ==
  ASSUME NEW before \in Environments, NEW lines \in Seq(EnvLines)
  PROVE  \E f \in [SUBSET DOMAIN lines -> Environments] : Loads(f, before, lines)
<1> DEFINE n == Len(lines)
           F == [p \in Environments \X (1..n) |-> LoadLine(p[1], lines[p[2]])]
<1>1. n \in Nat /\ DOMAIN lines = 1..n /\ \A i \in 1..n : lines[i] \in EnvLines
  BY LenProperties, ElementOfSeq
<1>2. F \in [Environments \X (1..n) -> Environments]
  <2>1. \A p \in Environments \X (1..n) : LoadLine(p[1], lines[p[2]]) \in Environments
    <3>1. TAKE p \in Environments \X (1..n)
    <3>2. p[1] \in Environments /\ lines[p[2]] \in EnvLines
      BY <1>1
    <3>3. QED
      BY <3>2, LineLoaded
  <2>2. QED
    BY <2>1
<1>3. \A e \in Environments, i \in 1..n : F[<<e, i>>] = LoadLine(e, lines[i])
  OBVIOUS
<1> HIDE DEF F, n
<1>4. PICK f \in [SUBSET (1..n) -> Environments] :
        \A s \in SUBSET (1..n) :
          f[s] = IF s = {} THEN before ELSE F[<<f[s \ {Max(s)}], Max(s)>>]
  <2>1. n \in Nat /\ IsFoldStep(F, n, Environments)
    BY <1>1, <1>2 DEF IsFoldStep
  <2>2. \E f : IsFold(f, n, Environments, before, F)
    BY <2>1, FoldExists
  <2>3. QED
    BY <2>2 DEF IsFold
<1>5. ASSUME NEW s \in SUBSET (1..n)
      PROVE  f[s] = IF s = {} THEN before ELSE LoadLine(f[s \ {Max(s)}], lines[Max(s)])
  <2>1. CASE s = {}
    BY <1>4, <2>1
  <2>2. CASE s # {}
    <3>1. Max(s) \in 1..n
      BY <1>1, <2>2, GreatestExists
    <3>2. f[s \ {Max(s)}] \in Environments
      BY <1>4
    <3>3. f[s] = F[<<f[s \ {Max(s)}], Max(s)>>]
      BY <1>4, <2>2
    <3> HIDE <1>4
    <3>4. QED
      BY <1>3, <2>2, <3>1, <3>2, <3>3
  <2>3. QED
    BY <2>1, <2>2
<1>6. f = [s \in SUBSET (1..n) |->
            IF s = {} THEN before ELSE LoadLine(f[s \ {Max(s)}], lines[Max(s)])]
  <2>1. f = [s \in SUBSET (1..n) |-> f[s]]
    BY <1>4
  <2>2. QED
    BY <1>5, <2>1
<1>7. QED
  BY <1>1, <1>4, <1>6 DEF Loads

LEMMA Loaded ==
  ASSUME NEW before \in Environments, NEW lines \in Seq(EnvLines)
  PROVE  /\ LoadDotEnv(before, lines) \in Environments
         /\ Resolved(before, lines, Len(lines), LoadDotEnv(before, lines))
<1> DEFINE n == Len(lines)
           h == CHOOSE f : Loads(f, before, lines)
           T == {m \in Nat : m <= n => /\ h[1..m] \in Environments
                                       /\ Resolved(before, lines, m, h[1..m])}
<1>1. n \in Nat /\ DOMAIN lines = 1..n /\ \A i \in 1..n : lines[i] \in EnvLines
  BY LenProperties, ElementOfSeq
<1>2. LoadDotEnv(before, lines) = h[DOMAIN lines]
  BY DEF LoadDotEnv, Loads, FoldLeft, MapThenFoldSet
<1>3. \A s \in SUBSET (1..n) :
        h[s] = IF s = {} THEN before ELSE LoadLine(h[s \ {Max(s)}], lines[Max(s)])
  <2>1. Loads(h, before, lines)
    <3>1. \E f : Loads(f, before, lines)
      BY LoadsExist
    <3>2. QED
      BY <3>1
  <2> HIDE DEF h, n
  <2>2. h = [s \in SUBSET (1..n) |->
              IF s = {} THEN before ELSE LoadLine(h[s \ {Max(s)}], lines[Max(s)])]
    BY <1>1, <2>1 DEF Loads
  <2>3. QED
    BY <2>2
<1> HIDE DEF h, n
<1>4. 0 \in T
  <2>1. 1..0 = {} /\ {} \in SUBSET (1..n)
    OBVIOUS
  <2>2. h[1..0] = before
    BY <1>3, <2>1
  <2>3. Resolved(before, lines, 0, before)
    <3>1. \A key : GivenIn(lines, 0, key) = {}
      BY DEF GivenIn
    <3>2. QED
      BY <3>1 DEF Resolved
  <2>4. QED
    BY <2>2, <2>3
<1>5. ASSUME NEW m \in T PROVE m + 1 \in T
  <2>1. m \in Nat /\ m + 1 \in Nat
    BY <1>5
  <2>2. SUFFICES ASSUME m + 1 <= n
                 PROVE  /\ h[1..(m + 1)] \in Environments
                        /\ Resolved(before, lines, m + 1, h[1..(m + 1)])
    BY <2>1
  <2>3. m + 1 \in 1..n /\ (m + 1) - 1 = m
    BY <1>1, <2>1, <2>2
  <2>4. h[1..m] \in Environments /\ Resolved(before, lines, m, h[1..m])
    BY <1>1, <1>5, <2>1, <2>2
  <2>5. h[1..(m + 1)] = LoadLine(h[1..m], lines[m + 1])
    <3>1. /\ 1..(m + 1) \in SUBSET (1..n) /\ 1..(m + 1) # {}
          /\ Max(1..(m + 1)) = m + 1 /\ (1..(m + 1)) \ {Max(1..(m + 1))} = 1..m
      BY <1>1, <2>3, LastOfPrefix
    <3>2. QED
      BY <1>3, <3>1
  <2> HIDE DEF T
  <2>6. LoadLine(h[1..m], lines[m + 1]) \in Environments
    BY <1>1, <2>3, <2>4, LineLoaded
  <2>7. Resolved(before, lines, m + 1, LoadLine(h[1..m], lines[m + 1]))
    BY <2>3, <2>4, ResolvedStep DEF n
  <2>8. QED
    BY <2>5, <2>6, <2>7
<1>6. T = Nat
  <2>1. T \subseteq Nat
    OBVIOUS
  <2> HIDE DEF T
  <2>2. QED
    BY <1>4, <1>5, <2>1, NatSets
<1>7. h[1..n] \in Environments /\ Resolved(before, lines, n, h[1..n])
  <2>1. n \in T
    BY <1>1, <1>6
  <2>2. QED
    BY <1>1, <2>1
<1>8. QED
  BY <1>1, <1>2, <1>7 DEF n

LEMMA SettingsRead ==
  ASSUME SettingsInv PROVE SettingsResolved
<1>1. SUFFICES ASSUME input.of = "settings" PROVE SettingsResolved
  BY DEF SettingsResolved
<1> DEFINE before == input.environment
           lines == input.lines
           after == LoadDotEnv(before, lines)
<1>2. before \in Environments /\ lines \in Seq(EnvLines)
  BY <1>1 DEF SettingsInv, SettingsInput
<1> HIDE DEF before, lines
<1>3. after \in Environments /\ Resolved(before, lines, Len(lines), after)
  BY <1>2, Loaded
<1> HIDE DEF after
<1>4. ASSUME NEW key \in Keys
      PROVE  LET Given(line) == line.key = key /\ line.value # Unset
                 given == SelectInSeq(lines, Given)
                 best  == IF before[key] # Unset THEN before[key]
                          ELSE IF given # 0 THEN lines[given].value
                          ELSE "fallback"
             IN /\ Value(after, key, "fallback") = best
                /\ IntValue(after, key, "fallback")
                     = IF best \in Numbers THEN best ELSE "fallback"
  <2> DEFINE Given(line) == line.key = key /\ line.value # Unset
             all == GivenIn(lines, Len(lines), key)
             given == SelectInSeq(lines, Given)
             best == IF before[key] # Unset THEN before[key]
                     ELSE IF given # 0 THEN lines[given].value
                     ELSE "fallback"
  <2>1. given = IF all # {} THEN Min(all) ELSE 0
    BY DEF SelectInSeq, GivenIn
  <2>2. IF before[key] # Unset THEN after[key] = before[key]
        ELSE \/ all = {} /\ after[key] = Unset
             \/ \E g \in all : (\A i \in all : g <= i) /\ after[key] = lines[g].value
    BY <1>3 DEF Resolved
  <2>3. /\ all \subseteq Int /\ 0 \notin all
        /\ \A g \in all : lines[g].value # Unset
    BY DEF GivenIn
  <2> HIDE DEF given, all
  <2>4. best = IF after[key] # Unset THEN after[key] ELSE "fallback"
    <3>1. CASE before[key] # Unset
      BY <2>2, <3>1
    <3>2. CASE before[key] = Unset /\ all = {} /\ after[key] = Unset
      BY <2>1, <3>2
    <3>3. CASE before[key] = Unset
               /\ \E g \in all : (\A i \in all : g <= i) /\ after[key] = lines[g].value
      <4>1. PICK g \in all : (\A i \in all : g <= i) /\ after[key] = lines[g].value
        BY <3>3
      <4>2. Min(all) = g
        BY <2>3, <4>1, LeastIs
      <4>3. given = g /\ g # 0
        BY <2>1, <2>3, <4>1, <4>2
      <4>4. QED
        BY <2>3, <3>3, <4>1, <4>3
    <3>4. QED
      BY <2>2, <3>1, <3>2, <3>3
  <2> HIDE DEF best
  <2>5. /\ Value(after, key, "fallback") = best
        /\ IntValue(after, key, "fallback") = IF best \in Numbers THEN best ELSE "fallback"
    BY <2>4, ConfigAssumption DEF Value, IntValue
  <2>6. QED
    BY <2>5 DEF best, given
<1>5. QED
  BY <1>4 DEF SettingsResolved, before, lines, after

(* config.go: whatever the keys, the values and the lines of .env, a setting *)
(* is that of the environment, or else the first of .env, or else the        *)
(* fallback, and a port that is no number is the fallback.                   *)
THEOREM SettingsAreResolved == Spec => []SettingsResolved
<1>1. Init => SettingsInv
  BY SettingsFirst
<1>2. SettingsInv /\ [Next]_input => SettingsInv'
  BY SettingsStep
<1>3. SettingsInv => SettingsResolved
  BY SettingsRead
<1>4. QED
  BY <1>1, <1>2, <1>3, PTL DEF Spec

-----------------------------------------------------------------------------
(***************************************************************************)
(* RIFF files.                                                             *)
(***************************************************************************)
FmtChunks == [id : {"fmt"}, start : Nat, size : {14, 16, 19}, format : {1}, channels : {1, 2},
              rate : {8000}, bits : {8, 24}]
DataChunks == [id : {"data"}, start : Nat, size : {1, 2}, bytes : {<<1>>, <<2, 2>>}]
ListChunks == [id : {"LIST"}, start : Nat, size : {3, 4}]
AllChunks == FmtChunks \cup DataChunks \cup ListChunks

FileInput == [of : {"file"}, chunks : Seq(AllChunks), length : Nat, whole : BOOLEAN]

(* Where the next chunk begins: a writer pads to an even offset. *)
ChunkEnd(c) == c.start + 8 + c.size
Following(c) == ChunkEnd(c) + (ChunkEnd(c) % 2)

Placed(chunks) ==
  \A i \in DOMAIN chunks :
    /\ chunks[i].start % 2 = 0
    /\ chunks[i].start = IF i = 1 THEN 12 ELSE Following(chunks[i - 1])

(* Only the last chunk of a file may be cut. *)
Sized(file) ==
  LET n == Len(file.chunks)
  IN /\ file.whole => file.length = IF n = 0 THEN 12 ELSE Following(file.chunks[n])
     /\ n # 0 => file.length >= file.chunks[n].start

FileInv ==
  /\ HasKind
  /\ input.of = "file" => input \in FileInput /\ Placed(input.chunks) /\ Sized(input)

LEMMA ChunkFields ==
  ASSUME NEW c \in AllChunks
  PROVE  /\ c.start \in Nat /\ c.size \in Nat /\ ChunkEnd(c) \in Nat
         /\ Following(c) \in Nat /\ Following(c) >= ChunkEnd(c) /\ Following(c) % 2 = 0
         /\ c.start % 2 = 0 => Following(c) = ChunkEnd(c) + (c.size % 2)
         /\ c.id \in {"fmt", "data", "LIST"}
         /\ c.id = "fmt" => c \in FmtChunks
         /\ c.id = "data" => c \in DataChunks
<1>1. /\ c.start \in Nat /\ c.size \in Nat /\ c.id \in {"fmt", "data", "LIST"}
      /\ c.id = "fmt" => c \in FmtChunks
      /\ c.id = "data" => c \in DataChunks
  BY DEF AllChunks, FmtChunks, DataChunks, ListChunks
<1>2. ASSUME NEW a \in Nat, NEW b \in Nat
      PROVE  LET end == a + 8 + b
             IN  /\ end \in Nat /\ end + (end % 2) \in Nat /\ end + (end % 2) >= end
                 /\ (end + (end % 2)) % 2 = 0
                 /\ a % 2 = 0 => end % 2 = b % 2
  OBVIOUS
<1>3. QED
  BY <1>1, <1>2 DEF ChunkEnd, Following

LEMMA NewChunk ==
  ASSUME NEW start \in Nat, NEW c \in Chunks(start)
  PROVE  c \in AllChunks /\ c.start = start
BY DEF Chunks, AllChunks, FmtChunks, DataChunks, ListChunks

LEMMA FileFirst ==
  ASSUME Init PROVE FileInv
<1>1. HasKind
  BY KindFirst
<1>2. SUFFICES ASSUME input.of = "file"
               PROVE  input \in FileInput /\ Placed(input.chunks) /\ Sized(input)
  BY <1>1 DEF FileInv
<1>3. input = [of |-> "file", chunks |-> <<>>, length |-> 12, whole |-> TRUE]
  BY <1>2 DEF Init, Recordings
<1>4. <<>> \in Seq(AllChunks) /\ Len(<<>>) = 0 /\ DOMAIN <<>> = {}
  BY EmptySeq
<1>5. /\ input.of = "file" /\ input.chunks = <<>> /\ input.length = 12 /\ input.whole = TRUE
      /\ input \in FileInput
  BY <1>3, <1>4 DEF FileInput
<1>6. QED
  BY <1>4, <1>5 DEF Placed, Sized

LEMMA ChunkAdded ==
  ASSUME NEW chunks \in Seq(AllChunks), Placed(chunks), NEW c \in AllChunks,
         c.start = IF Len(chunks) = 0 THEN 12 ELSE Following(chunks[Len(chunks)])
  PROVE  LET longer == Append(chunks, c)
         IN  /\ longer \in Seq(AllChunks) /\ Placed(longer)
             /\ Len(longer) # 0 /\ longer[Len(longer)] = c
<1> DEFINE n == Len(chunks)
           longer == Append(chunks, c)
<1>1. /\ n \in Nat /\ DOMAIN chunks = 1..n /\ DOMAIN longer = 1..(n + 1) /\ Len(longer) = n + 1
      /\ longer \in Seq(AllChunks) /\ longer[n + 1] = c
      /\ \A i \in 1..n : longer[i] = chunks[i] /\ chunks[i] \in AllChunks
  BY AppendProperties, LenProperties, ElementOfSeq
<1>2. c.start = IF n = 0 THEN 12 ELSE Following(chunks[n])
  OBVIOUS
<1> HIDE DEF n, longer
<1>3. c.start % 2 = 0
  <2>1. CASE n = 0
    BY <1>2, <2>1
  <2>2. CASE n # 0
    <3>1. chunks[n] \in AllChunks
      BY <1>1, <2>2
    <3>2. QED
      BY <1>2, <2>2, <3>1, ChunkFields
  <2>3. QED
    BY <2>1, <2>2
<1>4. ASSUME NEW i \in 1..(n + 1)
      PROVE  /\ longer[i].start % 2 = 0
             /\ longer[i].start = IF i = 1 THEN 12 ELSE Following(longer[i - 1])
  <2>1. CASE i \in 1..n
    <3>1. longer[i] = chunks[i] /\ (i # 1 => longer[i - 1] = chunks[i - 1])
      BY <1>1, <2>1
    <3>2. QED
      BY <1>1, <2>1, <3>1 DEF Placed
  <2>2. CASE i = n + 1
    <3>1. longer[i] = c /\ (i # 1 => longer[i - 1] = chunks[n]) /\ (i = 1 <=> n = 0)
      BY <1>1, <2>2
    <3>2. QED
      BY <1>2, <1>3, <3>1
  <2>3. QED
    BY <1>1, <2>1, <2>2
<1>5. Placed(longer)
  BY <1>1, <1>4 DEF Placed
<1>6. QED
  BY <1>1, <1>5 DEF longer, n

LEMMA FileStep ==
  ASSUME FileInv, [Next]_input PROVE FileInv'
<1>1. HasKind' /\ input'.of = input.of
  BY KindKept DEF FileInv
<1>2. SUFFICES ASSUME input.of = "file"
               PROVE  input' \in FileInput /\ Placed(input'.chunks) /\ Sized(input')
  BY <1>1 DEF FileInv
<1>3. input \in FileInput /\ Placed(input.chunks) /\ Sized(input)
  BY <1>2 DEF FileInv
<1>4. NextChunk \/ CutFile \/ UNCHANGED input
  BY <1>2 DEF Next, NextSample, NextByte, NextLine, NextSpeech, NextRoute, NextSetting
<1>5. input.chunks \in Seq(AllChunks) /\ input.length \in Nat /\ input.of = "file"
  BY <1>3 DEF FileInput
<1>6. CASE NextChunk
  <2>1. input.whole
    BY <1>6 DEF NextChunk
  <2>2. PICK c \in Chunks(input.length) :
          LET end == c.start + 8 + c.size
          IN input' = [input EXCEPT !.chunks = Append(input.chunks, c), !.length = end + (end % 2)]
    BY <1>6 DEF NextChunk
  <2>3. c \in AllChunks /\ c.start = input.length
    BY <1>5, NewChunk
  <2> DEFINE longer == Append(input.chunks, c)
             length == Following(c)
  <2>4. /\ longer \in Seq(AllChunks) /\ Placed(longer)
        /\ Len(longer) # 0 /\ longer[Len(longer)] = c
    <3>1. c.start = IF Len(input.chunks) = 0 THEN 12
                    ELSE Following(input.chunks[Len(input.chunks)])
      BY <1>3, <2>1, <2>3 DEF Sized
    <3>2. QED
      BY <1>3, <1>5, <2>3, <3>1, ChunkAdded
  <2>5. length \in Nat /\ length >= c.start
    BY <2>3, ChunkFields DEF ChunkEnd
  <2>6. input' = [input EXCEPT !.chunks = longer, !.length = length]
    BY <2>2 DEF Following, ChunkEnd
  <2>7. length = Following(c)
    OBVIOUS
  <2> HIDE DEF longer, length
  <2>8. /\ input' \in FileInput /\ input'.chunks = longer /\ input'.length = length
        /\ input'.whole = input.whole
    BY <1>3, <2>4, <2>5, <2>6 DEF FileInput
  <2>9. QED
    BY <2>1, <2>4, <2>5, <2>7, <2>8 DEF Sized
<1>7. CASE CutFile
  <2>1. PICK lost \in 1..9 :
          /\ input.length - lost >= Last(input.chunks).start
          /\ input' = [input EXCEPT !.length = input.length - lost, !.whole = FALSE]
    BY <1>7 DEF CutFile
  <2> DEFINE n == Len(input.chunks)
             length == input.length - lost
  <2>2. input.chunks # <<>>
    BY <1>7 DEF CutFile
  <2>3. n \in Nat /\ n # 0
    BY <1>5, <2>2, EmptySeq, LenProperties
  <2>4. input.chunks[n] \in AllChunks
    BY <1>5, <2>3, ElementOfSeq
  <2>5. length >= input.chunks[n].start
    BY <2>1 DEF Last
  <2>6. length \in Nat
    <3>1. input.chunks[n].start \in Nat
      BY <2>4, ChunkFields
    <3>2. QED
      BY <1>5, <2>5, <3>1
  <2>7. input' = [input EXCEPT !.length = length, !.whole = FALSE]
    BY <2>1
  <2> HIDE DEF length
  <2>8. /\ input' \in FileInput /\ input'.chunks = input.chunks /\ input'.length = length
        /\ input'.whole = FALSE
    BY <1>3, <2>6, <2>7 DEF FileInput
  <2>9. QED
    BY <1>3, <2>5, <2>8 DEF Sized
<1>8. CASE UNCHANGED input
  BY <1>3, <1>8
<1>9. QED
  BY <1>4, <1>6, <1>7, <1>8

(* One chunk read.                                                         *)
Contents == {<<>>, <<1>>, <<2, 2>>}

Found == [failed : BOOLEAN, offset : Nat, format : {0, 1}, channels : 0..2, rate : {0, 8000},
          bits : {0, 8, 24}, pcm : Contents]

Begun(length, c) == c.start + 8 <= length
Unfit(length, c) == ChunkEnd(c) > length \/ (c.id = "fmt" /\ c.size < 16)

SameFormat(f, r) ==
  r.format = f.format /\ r.channels = f.channels /\ r.rate = f.rate /\ r.bits = f.bits

LEMMA ChunkSkipped ==
  ASSUME NEW f \in Found, NEW o \in Nat
  PROVE  LET r == [f EXCEPT !.offset = o]
         IN  r \in Found /\ r.failed = f.failed /\ r.offset = o /\ SameFormat(f, r) /\ r.pcm = f.pcm
BY DEF Found, SameFormat

Formatted(f, a, b, d, e) == [f EXCEPT !.format = a, !.channels = b, !.rate = d, !.bits = e]

LEMMA FormatTaken ==
  ASSUME NEW f \in Found, NEW a \in {0, 1}, NEW b \in 0..2, NEW d \in {0, 8000},
         NEW e \in {0, 8, 24}
  PROVE  Formatted(f, a, b, d, e) \in Found
<1> DEFINE f1 == [f EXCEPT !.format = a]
           f2 == [f1 EXCEPT !.channels = b]
           f3 == [f2 EXCEPT !.rate = d]
           f4 == [f3 EXCEPT !.bits = e]
<1>1. f1 \in Found
  BY DEF Found
<1> HIDE DEF f1
<1>2. f2 \in Found
  BY <1>1 DEF Found
<1> HIDE DEF f2
<1>3. f3 \in Found
  BY <1>2 DEF Found
<1> HIDE DEF f3
<1>4. f4 \in Found
  BY <1>3 DEF Found
<1>5. f4 = Formatted(f, a, b, d, e)
  BY DEF f1, f2, f3, Formatted
<1>6. QED
  BY <1>4, <1>5

LEMMA ChunkRead ==
  ASSUME NEW length \in Nat, NEW f \in Found, NEW c \in AllChunks,
         NEW r, r = ReadChunk(length, f, c)
  PROVE  /\ r \in Found
         /\ f.failed \/ f.offset # c.start \/ ~Begun(length, c) => r = f
         /\ ~f.failed /\ f.offset = c.start /\ Begun(length, c) /\ Unfit(length, c) => r.failed
         /\ ~f.failed /\ f.offset = c.start /\ Begun(length, c) /\ ~Unfit(length, c) =>
              /\ ~r.failed /\ r.offset = ChunkEnd(c) + (c.size % 2)
              /\ c.id # "fmt" => SameFormat(f, r)
              /\ c.id = "fmt" => SameFormat(c, r)
              /\ r.pcm = IF c.id = "data" THEN c.bytes ELSE f.pcm
<1> DEFINE stop == f.failed \/ f.offset # c.start \/ c.start + 8 > length
           unfit == Unfit(length, c)
           o == ChunkEnd(c) + (c.size % 2)
           seen == [f EXCEPT !.offset = o]
<1>1. /\ c.start \in Nat /\ c.size \in Nat /\ o \in Nat /\ c.id \in {"fmt", "data", "LIST"}
      /\ c.id = "fmt" => c \in FmtChunks
      /\ c.id = "data" => c \in DataChunks
  BY ChunkFields
<1>2. stop <=> f.failed \/ f.offset # c.start \/ ~Begun(length, c)
  BY <1>1 DEF Begun
<1>3. r = IF stop THEN f
          ELSE IF unfit THEN [f EXCEPT !.failed = TRUE]
          ELSE CASE c.id = "fmt"  -> [seen EXCEPT !.format = c.format, !.channels = c.channels,
                                                  !.rate = c.rate, !.bits = c.bits]
                 [] c.id = "data" -> [seen EXCEPT !.pcm = c.bytes]
                 [] OTHER         -> seen
  BY DEF ReadChunk, ChunkEnd, Padding, Unfit
<1>4. /\ seen \in Found /\ seen.failed = f.failed /\ seen.offset = o /\ SameFormat(f, seen)
      /\ seen.pcm = f.pcm
  BY <1>1, ChunkSkipped
<1> HIDE DEF o, seen, stop, unfit
<1>5. CASE stop
  BY <1>2, <1>3, <1>5
<1>6. CASE ~stop /\ unfit
  <2>1. r = [f EXCEPT !.failed = TRUE]
    BY <1>3, <1>6
  <2>2. r \in Found /\ r.failed
    <3> DEFINE yes == TRUE
    <3>1. [f EXCEPT !.failed = TRUE] \in Found
      <4>1. yes \in BOOLEAN
        OBVIOUS
      <4> HIDE DEF yes
      <4>2. [f EXCEPT !.failed = yes] \in Found
        BY <4>1 DEF Found
      <4>3. QED
        BY <4>2 DEF yes
    <3>2. "failed" \in DOMAIN f
      BY DEF Found
    <3>3. r.failed = TRUE
      BY <2>1, <3>2
    <3>4. QED
      BY <2>1, <3>1, <3>3
  <2>3. QED
    BY <1>2, <1>6, <2>2 DEF unfit
<1>7. CASE ~stop /\ ~unfit /\ c.id = "fmt"
  <2>1. r = [seen EXCEPT !.format = c.format, !.channels = c.channels,
                         !.rate = c.rate, !.bits = c.bits]
    BY <1>3, <1>7
  <2>2. /\ c.format \in {0, 1} /\ c.channels \in 0..2 /\ c.rate \in {0, 8000}
        /\ c.bits \in {0, 8, 24}
    BY <1>1, <1>7 DEF FmtChunks
  <2>3. r \in Found
    <3> DEFINE a == c.format
               b == c.channels
               d == c.rate
               e == c.bits
    <3>1. a \in {0, 1} /\ b \in 0..2 /\ d \in {0, 8000} /\ e \in {0, 8, 24}
      BY <2>2
    <3>2. r = [seen EXCEPT !.format = a, !.channels = b, !.rate = d, !.bits = e]
      BY <2>1
    <3>3. seen \in Found
      BY <1>4
    <3> HIDE DEF a, b, d, e
    <3>4. Formatted(seen, a, b, d, e) \in Found
      BY <3>1, <3>3, FormatTaken
    <3>5. QED
      BY <3>2, <3>4 DEF Formatted
  <2>4. r.failed = seen.failed /\ r.offset = seen.offset /\ r.pcm = seen.pcm
    BY <1>4, <2>1 DEF Found
  <2>5. SameFormat(c, r)
    BY <1>4, <2>1 DEF Found, SameFormat
  <2>6. QED
    BY <1>2, <1>4, <1>7, <2>3, <2>4, <2>5 DEF unfit, o
<1>8. CASE ~stop /\ ~unfit /\ c.id = "data"
  <2>1. r = [seen EXCEPT !.pcm = c.bytes]
    BY <1>3, <1>8
  <2>2. c.bytes \in Contents
    BY <1>1, <1>8 DEF DataChunks, Contents
  <2>3. /\ r \in Found /\ r.failed = seen.failed /\ r.offset = seen.offset /\ r.pcm = c.bytes
        /\ SameFormat(seen, r)
    BY <1>4, <2>1, <2>2 DEF Found, SameFormat
  <2>4. QED
    BY <1>2, <1>4, <1>8, <2>3 DEF unfit, o, SameFormat
<1>9. CASE ~stop /\ ~unfit /\ c.id = "LIST"
  <2>1. r = seen
    BY <1>3, <1>9
  <2>2. QED
    BY <1>2, <1>4, <1>9, <2>1 DEF unfit, o
<1>10. QED
  BY <1>1, <1>5, <1>6, <1>7, <1>8, <1>9

LEMMA StillFound ==
  ASSUME NEW length \in Nat, NEW f \in Found, NEW c \in AllChunks
  PROVE  ReadChunk(length, f, c) \in Found
<1> DEFINE r == ReadChunk(length, f, c)
<1>1. r = ReadChunk(length, f, c)
  OBVIOUS
<1> HIDE DEF r
<1>2. r \in Found
  BY <1>1, ChunkRead
<1>3. QED
  BY <1>1, <1>2

(* Every chunk but the last is complete. *)
LEMMA BeforeTheCut ==
  ASSUME NEW file, file.chunks \in Seq(AllChunks), file.length \in Nat, Placed(file.chunks),
         Sized(file), NEW m \in 1..Len(file.chunks)
  PROVE  /\ file.chunks[m] \in AllChunks /\ file.chunks[m].start <= file.length
         /\ m # 1 => /\ Begun(file.length, file.chunks[m - 1])
                     /\ file.chunks[m].start = Following(file.chunks[m - 1])
<1> DEFINE chunks == file.chunks
           n == Len(chunks)
           T == {k \in Nat : k < n => chunks[n - k].start <= chunks[n].start}
<1>1. n \in Nat /\ DOMAIN chunks = 1..n /\ m \in 1..n /\ \A i \in 1..n : chunks[i] \in AllChunks
  BY LenProperties, ElementOfSeq
<1>2. n # 0 => file.length >= chunks[n].start
  BY DEF Sized
<1>3. \A i \in 2..n : chunks[i].start = Following(chunks[i - 1])
  <2>1. \A i \in 2..n : i \in DOMAIN chunks /\ i # 1
    BY <1>1
  <2>2. QED
    BY <2>1 DEF Placed
<1> HIDE DEF chunks, n
<1>4. \A i \in 1..n :
        /\ chunks[i].start \in Nat /\ Following(chunks[i]) \in Nat
        /\ Following(chunks[i]) >= chunks[i].start + 8
  <2>1. TAKE i \in 1..n
  <2>2. chunks[i] \in AllChunks
    BY <1>1
  <2>3. /\ chunks[i].start \in Nat /\ chunks[i].size \in Nat
        /\ Following(chunks[i]) \in Nat /\ Following(chunks[i]) >= ChunkEnd(chunks[i])
    BY <2>2, ChunkFields
  <2>4. ChunkEnd(chunks[i]) >= chunks[i].start + 8
    BY <2>3 DEF ChunkEnd
  <2>5. ChunkEnd(chunks[i]) \in Nat
    BY <2>2, ChunkFields
  <2>6. QED
    BY <2>3, <2>4, <2>5
<1>5. \A i \in 2..n : chunks[i - 1].start + 8 <= chunks[i].start
  <2>1. TAKE i \in 2..n
  <2>2. i \in 1..n /\ i - 1 \in 1..n
    BY <1>1
  <2>3. chunks[i].start = Following(chunks[i - 1])
    BY <1>3
  <2>4. QED
    BY <1>4, <2>2, <2>3
<1>6. T = Nat
  <2>1. 0 \in T
    BY <1>1, <1>4
  <2>2. ASSUME NEW k \in T PROVE k + 1 \in T
    <3>1. k \in Nat
      BY <2>2
    <3>2. SUFFICES ASSUME k + 1 < n PROVE chunks[n - (k + 1)].start <= chunks[n].start
      BY <3>1
    <3>3. chunks[n - k].start <= chunks[n].start
      BY <1>1, <2>2, <3>1, <3>2
    <3>4. /\ n - k \in 2..n /\ (n - k) - 1 = n - (k + 1)
          /\ n - (k + 1) \in 1..n /\ n - k \in 1..n /\ n \in 1..n
      BY <1>1, <3>1, <3>2
    <3>5. chunks[n - (k + 1)].start + 8 <= chunks[n - k].start
      BY <1>5, <3>4
    <3>6. /\ chunks[n - (k + 1)].start \in Nat /\ chunks[n - k].start \in Nat
          /\ chunks[n].start \in Nat
      BY <1>4, <3>4
    <3>7. QED
      BY <3>3, <3>5, <3>6
  <2>3. T \subseteq Nat
    OBVIOUS
  <2> HIDE DEF T
  <2>4. QED
    BY <2>1, <2>2, <2>3, NatSets
<1>7. chunks[m].start <= chunks[n].start
  <2>1. n - m \in Nat /\ n - m < n /\ n - (n - m) = m
    BY <1>1
  <2>2. n - m \in T
    BY <1>6, <2>1
  <2> DEFINE k == n - m
  <2>3. k \in T /\ k < n /\ n - k = m
    BY <2>1, <2>2
  <2> HIDE DEF k
  <2>4. QED
    BY <2>3
<1> HIDE DEF T
<1>8. file.length >= chunks[m].start
  <2>1. n \in 1..n
    BY <1>1
  <2>2. chunks[m].start \in Nat /\ chunks[n].start \in Nat
    BY <1>1, <1>4, <2>1
  <2>3. QED
    BY <1>2, <1>7, <2>1, <2>2
<1>9. ASSUME m # 1
      PROVE Begun(file.length, chunks[m - 1]) /\ chunks[m].start = Following(chunks[m - 1])
  <2>1. m \in 2..n /\ m - 1 \in 1..n
    BY <1>1, <1>9
  <2>2. chunks[m - 1].start + 8 <= chunks[m].start
    BY <1>5, <2>1
  <2>3. chunks[m - 1].start \in Nat /\ chunks[m].start \in Nat
    BY <1>1, <1>4, <2>1
  <2>4. chunks[m - 1].start + 8 <= file.length
    BY <1>8, <2>2, <2>3
  <2>5. QED
    BY <1>3, <2>1, <2>4 DEF Begun
<1>10. QED
  BY <1>1, <1>8, <1>9 DEF chunks

(* What the first m chunks of a file make of the WAV reader's variables. *)
BegunOf(file, m, id) == {i \in 1..m : Begun(file.length, file.chunks[i]) /\ file.chunks[i].id = id}

BrokenIn(file, m) ==
  \E i \in 1..m : Begun(file.length, file.chunks[i]) /\ Unfit(file.length, file.chunks[i])

IsLast(g, S) == g \in S /\ \A i \in S : i <= g

OffsetAfter(file, m) ==
  IF m = 0 THEN 12
  ELSE IF Begun(file.length, file.chunks[m]) THEN Following(file.chunks[m])
  ELSE file.chunks[m].start

Understood(file, m, f) ==
  IF BrokenIn(file, m) THEN f.failed
  ELSE /\ ~f.failed
       /\ f.offset = OffsetAfter(file, m)
       /\ \/ BegunOf(file, m, "data") = {} /\ f.pcm = <<>>
          \/ \E g : IsLast(g, BegunOf(file, m, "data")) /\ f.pcm = file.chunks[g].bytes
       /\ \/ BegunOf(file, m, "fmt") = {} /\ f.format = 0
          \/ \E g : IsLast(g, BegunOf(file, m, "fmt")) /\ SameFormat(file.chunks[g], f)

LEMMA UnderstoodStep ==
  ASSUME NEW file, file.chunks \in Seq(AllChunks), file.length \in Nat, Placed(file.chunks),
         Sized(file), NEW m \in 1..Len(file.chunks), NEW f \in Found,
         Understood(file, m - 1, f), NEW r, r = ReadChunk(file.length, f, file.chunks[m])
  PROVE  Understood(file, m, r)
<1> DEFINE c == file.chunks[m]
           length == file.length
           begun == Begun(length, c)
           unfit == Unfit(length, c)
           Old(id) == BegunOf(file, m - 1, id)
           New(id) == BegunOf(file, m, id)
           broken == BrokenIn(file, m - 1)
<1>1. /\ c \in AllChunks
      /\ m # 1 => /\ Begun(length, file.chunks[m - 1])
                  /\ c.start = Following(file.chunks[m - 1])
  BY BeforeTheCut
<1>2. m \in Nat /\ m >= 1 /\ m - 1 \in Nat
  BY LenProperties
<1>3. BrokenIn(file, m) <=> broken \/ (begun /\ unfit)
  BY <1>2 DEF BrokenIn
<1>4. \A id : New(id) = IF begun /\ c.id = id THEN Old(id) \cup {m} ELSE Old(id)
  BY <1>2 DEF BegunOf
<1>5. \A id : \A i \in Old(id) : i \in 1..(m - 1)
  BY DEF BegunOf
<1>6. OffsetAfter(file, m - 1) = c.start
  <2>1. CASE m = 1
    <3>1. c.start = 12
      <4>1. m \in DOMAIN file.chunks
        BY LenProperties
      <4>2. QED
        BY <2>1, <4>1 DEF Placed
    <3>2. QED
      BY <2>1, <3>1 DEF OffsetAfter
  <2>2. CASE m # 1
    BY <1>1, <1>2, <2>2 DEF OffsetAfter
  <2>3. QED
    BY <2>1, <2>2
<1>7. OffsetAfter(file, m) = IF begun THEN Following(c) ELSE c.start
  BY <1>2 DEF OffsetAfter
<1>8. c.start % 2 = 0 /\ Following(c) = ChunkEnd(c) + (c.size % 2)
  <2>1. m \in DOMAIN file.chunks
    BY LenProperties
  <2>2. c.start % 2 = 0
    BY <2>1 DEF Placed
  <2>3. QED
    BY <1>1, <2>2, ChunkFields
<1>9. /\ f.failed \/ f.offset # c.start \/ ~begun => r = f
      /\ ~f.failed /\ f.offset = c.start /\ begun /\ unfit => r.failed
      /\ ~f.failed /\ f.offset = c.start /\ begun /\ ~unfit =>
           /\ ~r.failed /\ r.offset = ChunkEnd(c) + (c.size % 2)
           /\ c.id # "fmt" => SameFormat(f, r)
           /\ c.id = "fmt" => SameFormat(c, r)
           /\ r.pcm = IF c.id = "data" THEN c.bytes ELSE f.pcm
  BY <1>1, ChunkRead
<1>10. /\ broken => f.failed
       /\ ~broken => /\ ~f.failed /\ f.offset = c.start
                     /\ \/ Old("data") = {} /\ f.pcm = <<>>
                        \/ \E g : IsLast(g, Old("data")) /\ f.pcm = file.chunks[g].bytes
                     /\ \/ Old("fmt") = {} /\ f.format = 0
                        \/ \E g : IsLast(g, Old("fmt")) /\ SameFormat(file.chunks[g], f)
  BY <1>6 DEF Understood
<1> HIDE DEF begun, unfit, Old, New, broken, length
<1>11. CASE broken
  BY <1>3, <1>9, <1>10, <1>11 DEF Understood
<1>12. CASE ~broken /\ ~begun
  <2>1. r = f /\ New("data") = Old("data") /\ New("fmt") = Old("fmt")
    BY <1>4, <1>9, <1>12
  <2>2. ~BrokenIn(file, m) /\ r.offset = OffsetAfter(file, m)
    BY <1>3, <1>7, <1>10, <1>12, <2>1
  <2>3. QED
    BY <1>10, <1>12, <2>1, <2>2 DEF Understood, New
<1>13. CASE ~broken /\ begun /\ unfit
  BY <1>3, <1>9, <1>10, <1>13 DEF Understood
<1>14. CASE ~broken /\ begun /\ ~unfit
  <2>1. /\ ~r.failed /\ r.offset = OffsetAfter(file, m) /\ ~BrokenIn(file, m)
        /\ c.id # "fmt" => SameFormat(f, r)
        /\ c.id = "fmt" => SameFormat(c, r)
        /\ r.pcm = IF c.id = "data" THEN c.bytes ELSE f.pcm
    BY <1>3, <1>7, <1>8, <1>9, <1>10, <1>14
  <2>2. \/ New("data") = {} /\ r.pcm = <<>>
        \/ \E g : IsLast(g, New("data")) /\ r.pcm = file.chunks[g].bytes
    <3>1. CASE c.id = "data"
      <4>1. IsLast(m, New("data"))
        BY <1>2, <1>4, <1>5, <1>14, <3>1 DEF IsLast
      <4>2. r.pcm = file.chunks[m].bytes
        BY <2>1, <3>1
      <4>3. QED
        BY <4>1, <4>2
    <3>2. CASE c.id # "data"
      BY <1>4, <1>10, <1>14, <2>1, <3>2
    <3>3. QED
      BY <3>1, <3>2
  <2>3. \/ New("fmt") = {} /\ r.format = 0
        \/ \E g : IsLast(g, New("fmt")) /\ SameFormat(file.chunks[g], r)
    <3>1. CASE c.id = "fmt"
      <4>1. IsLast(m, New("fmt"))
        BY <1>2, <1>4, <1>5, <1>14, <3>1 DEF IsLast
      <4>2. SameFormat(file.chunks[m], r)
        BY <2>1, <3>1
      <4>3. QED
        BY <4>1, <4>2
    <3>2. CASE c.id # "fmt"
      <4>1. SameFormat(f, r) /\ New("fmt") = Old("fmt")
        BY <1>4, <2>1, <3>2
      <4>2. QED
        BY <1>10, <1>14, <4>1 DEF SameFormat
    <3>3. QED
      BY <3>1, <3>2
  <2>4. QED
    BY <2>1, <2>2, <2>3 DEF Understood, New
<1>15. QED
  BY <1>11, <1>12, <1>13, <1>14

(* The recursive function that ReadChunks is. *)
Reads(f, length, chunks) ==
  f = [s \in SUBSET DOMAIN chunks |->
        IF s = {} THEN Nothing ELSE ReadChunk(length, f[s \ {Max(s)}], chunks[Max(s)])]

LEMMA NothingFound == Nothing \in Found
<1>1. Nothing = [failed |-> FALSE, offset |-> 12, format |-> 0, channels |-> 0,
                 rate |-> 0, bits |-> 0, pcm |-> <<>>]
  BY DEF Nothing
<1>2. <<>> \in Contents
  BY DEF Contents
<1>3. QED
  BY <1>1, <1>2 DEF Found

LEMMA ReadsExist ==
  ASSUME NEW length \in Nat, NEW chunks \in Seq(AllChunks)
  PROVE  \E f \in [SUBSET DOMAIN chunks -> Found] : Reads(f, length, chunks)
<1> DEFINE n == Len(chunks)
           F == [p \in Found \X (1..n) |-> ReadChunk(length, p[1], chunks[p[2]])]
<1>1. n \in Nat /\ DOMAIN chunks = 1..n /\ \A i \in 1..n : chunks[i] \in AllChunks
  BY LenProperties, ElementOfSeq
<1>2. F \in [Found \X (1..n) -> Found]
  <2>1. \A p \in Found \X (1..n) : ReadChunk(length, p[1], chunks[p[2]]) \in Found
    <3>1. TAKE p \in Found \X (1..n)
    <3>2. p[1] \in Found /\ chunks[p[2]] \in AllChunks
      BY <1>1
    <3>3. QED
      BY <3>2, StillFound
  <2>2. QED
    BY <2>1
<1>3. \A e \in Found, i \in 1..n : F[<<e, i>>] = ReadChunk(length, e, chunks[i])
  OBVIOUS
<1> HIDE DEF F, n
<1>4. PICK f \in [SUBSET (1..n) -> Found] :
        \A s \in SUBSET (1..n) :
          f[s] = IF s = {} THEN Nothing ELSE F[<<f[s \ {Max(s)}], Max(s)>>]
  <2>1. n \in Nat /\ IsFoldStep(F, n, Found)
    BY <1>1, <1>2 DEF IsFoldStep
  <2>2. \E f : IsFold(f, n, Found, Nothing, F)
    BY <2>1, FoldExists, NothingFound
  <2>3. QED
    BY <2>2 DEF IsFold
<1>5. ASSUME NEW s \in SUBSET (1..n)
      PROVE  f[s] = IF s = {} THEN Nothing ELSE ReadChunk(length, f[s \ {Max(s)}], chunks[Max(s)])
  <2>1. CASE s = {}
    BY <1>4, <2>1
  <2>2. CASE s # {}
    <3>1. Max(s) \in 1..n
      BY <1>1, <2>2, GreatestExists
    <3>2. f[s \ {Max(s)}] \in Found
      BY <1>4
    <3>3. f[s] = F[<<f[s \ {Max(s)}], Max(s)>>]
      BY <1>4, <2>2
    <3>4. QED
      BY <1>3, <2>2, <3>1, <3>2, <3>3
  <2>3. QED
    BY <2>1, <2>2
<1>6. f = [s \in SUBSET (1..n) |->
            IF s = {} THEN Nothing ELSE ReadChunk(length, f[s \ {Max(s)}], chunks[Max(s)])]
  <2>1. f = [s \in SUBSET (1..n) |-> f[s]]
    BY <1>4
  <2>2. QED
    BY <1>5, <2>1
<1>7. QED
  BY <1>1, <1>4, <1>6 DEF Reads

LEMMA FileRead ==
  ASSUME NEW file, file.chunks \in Seq(AllChunks), file.length \in Nat, Placed(file.chunks),
         Sized(file)
  PROVE  /\ ReadChunks(file) \in Found
         /\ Understood(file, Len(file.chunks), ReadChunks(file))
<1> DEFINE chunks == file.chunks
           length == file.length
           n == Len(chunks)
           h == CHOOSE f : Reads(f, length, chunks)
           T == {m \in Nat : m <= n => h[1..m] \in Found /\ Understood(file, m, h[1..m])}
<1>1. n \in Nat /\ DOMAIN chunks = 1..n /\ \A i \in 1..n : chunks[i] \in AllChunks
  BY LenProperties, ElementOfSeq
<1>2. ReadChunks(file) = h[DOMAIN chunks]
  BY DEF ReadChunks, Reads, FoldLeft, MapThenFoldSet
<1>3. \A s \in SUBSET (1..n) :
        h[s] = IF s = {} THEN Nothing ELSE ReadChunk(length, h[s \ {Max(s)}], chunks[Max(s)])
  <2>1. Reads(h, length, chunks)
    <3>1. \E f : Reads(f, length, chunks)
      BY ReadsExist
    <3>2. QED
      BY <3>1
  <2> HIDE DEF h, n
  <2>2. h = [s \in SUBSET (1..n) |->
              IF s = {} THEN Nothing ELSE ReadChunk(length, h[s \ {Max(s)}], chunks[Max(s)])]
    BY <1>1, <2>1 DEF Reads
  <2>3. QED
    BY <2>2
<1> HIDE DEF h, n
<1>4. 0 \in T
  <2>1. 1..0 = {} /\ {} \in SUBSET (1..n)
    OBVIOUS
  <2>2. h[1..0] = Nothing
    BY <1>3, <2>1
  <2>3. Understood(file, 0, Nothing)
    <3>1. ~BrokenIn(file, 0) /\ \A id : BegunOf(file, 0, id) = {}
      BY DEF BrokenIn, BegunOf
    <3>2. QED
      BY <3>1 DEF Understood, OffsetAfter, Nothing
  <2>4. QED
    BY <2>2, <2>3, NothingFound
<1>5. ASSUME NEW m \in T PROVE m + 1 \in T
  <2>1. m \in Nat /\ m + 1 \in Nat
    BY <1>5
  <2>2. SUFFICES ASSUME m + 1 <= n
                 PROVE  h[1..(m + 1)] \in Found /\ Understood(file, m + 1, h[1..(m + 1)])
    BY <2>1
  <2>3. m + 1 \in 1..n /\ (m + 1) - 1 = m
    BY <1>1, <2>1, <2>2
  <2>4. h[1..m] \in Found /\ Understood(file, m, h[1..m])
    BY <1>1, <1>5, <2>1, <2>2
  <2>5. h[1..(m + 1)] = ReadChunk(length, h[1..m], chunks[m + 1])
    <3>1. /\ 1..(m + 1) \in SUBSET (1..n) /\ 1..(m + 1) # {}
          /\ Max(1..(m + 1)) = m + 1 /\ (1..(m + 1)) \ {Max(1..(m + 1))} = 1..m
      BY <1>1, <2>3, LastOfPrefix
    <3>2. QED
      BY <1>3, <3>1
  <2> HIDE DEF T
  <2>6. h[1..(m + 1)] \in Found
    BY <1>1, <2>3, <2>4, <2>5, StillFound
  <2>7. Understood(file, m + 1, h[1..(m + 1)])
    BY <2>3, <2>4, <2>5, UnderstoodStep DEF n
  <2>8. QED
    BY <2>6, <2>7
<1>6. T = Nat
  <2>1. T \subseteq Nat
    OBVIOUS
  <2> HIDE DEF T
  <2>2. QED
    BY <1>4, <1>5, <2>1, NatSets
<1>7. h[1..n] \in Found /\ Understood(file, n, h[1..n])
  <2>1. n \in T
    BY <1>1, <1>6
  <2>2. QED
    BY <1>1, <2>1
<1>8. QED
  BY <1>1, <1>2, <1>7 DEF n

LEMMA FilesRead ==
  ASSUME FileInv PROVE ChunksFound
<1>1. SUFFICES ASSUME input.of = "file" PROVE ChunksFound
  BY DEF ChunksFound
<1> DEFINE file == input
           chunks == file.chunks
           length == file.length
           n == Len(chunks)
           found == ReadChunks(file)
           BegunC(c) == c.start + 8 <= length
           BrokenC(c) == c.start + 8 + c.size > length \/ (c.id = "fmt" /\ c.size < 16)
           broken == \E c \in Range(chunks) : BegunC(c) /\ BrokenC(c)
           Of(id) == BegunOf(file, n, id)
           LastOf(id) == SelectLastInSeq(chunks, LAMBDA c : BegunC(c) /\ c.id = id)
<1>2. chunks \in Seq(AllChunks) /\ length \in Nat /\ Placed(chunks) /\ Sized(file)
  BY <1>1 DEF FileInv, FileInput
<1>3. n \in Nat /\ DOMAIN chunks = 1..n /\ \A i \in 1..n : chunks[i] \in AllChunks
  BY <1>2, LenProperties, ElementOfSeq
<1>4. found \in Found /\ Understood(file, n, found)
  BY <1>2, FileRead
<1>5. broken <=> BrokenIn(file, n)
  BY <1>3 DEF BrokenIn, Range, Begun, Unfit, ChunkEnd
<1>6. \A id : LastOf(id) = IF Of(id) # {} THEN Max(Of(id)) ELSE 0
  BY DEF SelectLastInSeq, BegunOf, Begun
<1>7. \A id : Of(id) \subseteq 1..n /\ \A i \in Of(id) : chunks[i].id = id
  BY DEF BegunOf
<1> HIDE DEF found, n, broken, LastOf, Of
<1>8. CASE BrokenIn(file, n)
  <2>1. ~Supported(found)
    BY <1>4, <1>8 DEF Understood, Supported
  <2>2. QED
    BY <1>5, <1>8, <2>1 DEF ChunksFound, found, broken
<1>9. CASE ~BrokenIn(file, n)
  <2>1. /\ ~found.failed
        /\ \/ Of("data") = {} /\ found.pcm = <<>>
           \/ \E g : IsLast(g, Of("data")) /\ found.pcm = chunks[g].bytes
        /\ \/ Of("fmt") = {} /\ found.format = 0
           \/ \E g : IsLast(g, Of("fmt")) /\ SameFormat(chunks[g], found)
    BY <1>4, <1>9 DEF Understood, Of
  <2>2. ASSUME NEW id, NEW g, IsLast(g, Of(id))
        PROVE  LastOf(id) = g /\ g \in 1..n /\ g # 0 /\ chunks[g].id = id
    <3>1. g \in Of(id) /\ Of(id) \subseteq Int /\ \A i \in Of(id) : i <= g
      BY <1>7, <2>2 DEF IsLast
    <3>2. Max(Of(id)) = g
      BY <3>1, GreatestIs
    <3>3. QED
      BY <1>3, <1>6, <1>7, <3>1, <3>2
  <2>3. \A id : Of(id) = {} => LastOf(id) = 0
    BY <1>6
  <2>4. /\ found.pcm = IF LastOf("data") = 0 THEN <<>> ELSE chunks[LastOf("data")].bytes
        /\ LastOf("data") # 0 <=> found.pcm # <<>>
    <3>1. CASE Of("data") = {} /\ found.pcm = <<>>
      BY <2>3, <3>1
    <3>2. CASE \E g : IsLast(g, Of("data")) /\ found.pcm = chunks[g].bytes
      <4>1. PICK g : IsLast(g, Of("data")) /\ found.pcm = chunks[g].bytes
        BY <3>2
      <4>2. LastOf("data") = g /\ g # 0 /\ g \in 1..n /\ chunks[g].id = "data"
        BY <2>2, <4>1
      <4>3. chunks[g].bytes \in {<<1>>, <<2, 2>>}
        BY <1>3, <4>2, ChunkFields DEF DataChunks
      <4>4. <<1>> # <<>> /\ <<2, 2>> # <<>>
        BY EmptySeq
      <4>5. found.pcm # <<>>
        BY <4>1, <4>3, <4>4
      <4>6. QED
        BY <4>1, <4>2, <4>5
    <3>3. QED
      BY <2>1, <3>1, <3>2
  <2>5. /\ found.format = 1 /\ found.channels # 0 /\ found.rate # 0 /\ found.bits \in {8, 16}
             <=> LastOf("fmt") # 0 /\ chunks[LastOf("fmt")].bits = 8
    <3>1. CASE Of("fmt") = {} /\ found.format = 0
      BY <2>3, <3>1
    <3>2. CASE \E g : IsLast(g, Of("fmt")) /\ SameFormat(chunks[g], found)
      <4>1. PICK g : IsLast(g, Of("fmt")) /\ SameFormat(chunks[g], found)
        BY <3>2
      <4>2. LastOf("fmt") = g /\ g # 0 /\ g \in 1..n /\ chunks[g].id = "fmt"
        BY <2>2, <4>1
      <4>3. chunks[g] \in FmtChunks
        BY <1>3, <4>2, ChunkFields
      <4>4. QED
        BY <4>1, <4>2, <4>3 DEF SameFormat, FmtChunks
    <3>3. QED
      BY <2>1, <3>1, <3>2
  <2>6. Supported(found) <=> /\ LastOf("data") # 0 /\ LastOf("fmt") # 0
                             /\ chunks[LastOf("fmt")].bits = 8
    BY <2>1, <2>4, <2>5 DEF Supported
  <2>7. QED
    BY <1>5, <1>9, <2>4, <2>6 DEF ChunksFound, found, broken, LastOf
<1>10. QED
  BY <1>8, <1>9

(* wav.go: however many chunks a file has and wherever it is cut, it is        *)
(* refused if the contents of a chunk are cut or a format is short, and        *)
(* otherwise the last format and the last samples count.                       *)
THEOREM ChunksAreFound == Spec => []ChunksFound
<1>1. Init => FileInv
  BY FileFirst
<1>2. FileInv /\ [Next]_input => FileInv'
  BY FileStep
<1>3. FileInv => ChunksFound
  BY FilesRead
<1>4. QED
  BY <1>1, <1>2, <1>3, PTL DEF Spec

-----------------------------------------------------------------------------
(***************************************************************************)
(* Recordings.                                                             *)
(***************************************************************************)
RecordingInput == [of : {"recording"}, pcm : Seq(Octets), channels : 1..2, bits : {8, 16},
                   rate : Nat \ {0}]

RecordingInv ==
  /\ HasKind
  /\ input.of = "recording" => input \in RecordingInput

LEMMA RecordingFirst ==
  ASSUME Init PROVE RecordingInv
<1>1. HasKind
  BY KindFirst
<1>2. SUFFICES ASSUME input.of = "recording" PROVE input \in RecordingInput
  BY <1>1 DEF RecordingInv
<1>3. input \in [of : {"recording"}, pcm : {<<>>}, channels : 1..2, bits : {8, 16}, rate : Rates]
  BY <1>2 DEF Init, Recordings
<1>4. <<>> \in Seq(Octets) /\ Rates \subseteq Nat \ {0}
  BY EmptySeq, FormatsAssumption
<1>5. QED
  BY <1>3, <1>4 DEF RecordingInput

LEMMA RecordingStep ==
  ASSUME RecordingInv, [Next]_input PROVE RecordingInv'
<1>1. HasKind' /\ input'.of = input.of
  BY KindKept DEF RecordingInv
<1>2. SUFFICES ASSUME input.of = "recording" PROVE input' \in RecordingInput
  BY <1>1 DEF RecordingInv
<1>3. input \in RecordingInput
  BY <1>2 DEF RecordingInv
<1>4. NextByte \/ UNCHANGED input
  BY <1>2 DEF Next, NextSample, NextChunk, CutFile, NextLine, NextSpeech, NextRoute, NextSetting
<1>5. CASE NextByte
  <2>1. PICK b \in Bytes : input' = [input EXCEPT !.pcm = Append(input.pcm, b)]
    BY <1>5 DEF NextByte
  <2> DEFINE longer == Append(input.pcm, b)
  <2>2. longer \in Seq(Octets)
    <3>1. input.pcm \in Seq(Octets) /\ b \in Octets
      BY <1>3, FormatsAssumption DEF RecordingInput, Octets
    <3>2. QED
      BY <3>1, AppendProperties
  <2>3. input' = [input EXCEPT !.pcm = longer]
    BY <2>1
  <2> HIDE DEF longer
  <2>4. QED
    BY <1>3, <2>2, <2>3 DEF RecordingInput
<1>6. CASE UNCHANGED input
  BY <1>3, <1>6
<1>7. QED
  BY <1>4, <1>5, <1>6

(* The greatest and the smallest of a sequence of numbers. *)
LEMMA GreatestNumber ==
  ASSUME NEW k \in Nat, k # 0, NEW g \in [1..k -> Int]
  PROVE  \E j \in 1..k : \A l \in 1..k : g[l] <= g[j]
<1> DEFINE Has(m) == \E j \in 1..m : \A l \in 1..m : g[l] <= g[j]
           T == {m \in Nat : m + 1 <= k => Has(m + 1)}
<1>1. \A l \in 1..k : g[l] \in Int
  OBVIOUS
<1>2. 0 \in T
  <2>1. 1 \in 1..(0 + 1) /\ \A l \in 1..(0 + 1) : l = 1 /\ l \in 1..k
    OBVIOUS
  <2>2. g[1] <= g[1]
    BY <1>1
  <2>3. Has(0 + 1)
    BY <2>1, <2>2
  <2> HIDE DEF Has
  <2>4. QED
    BY <2>3
<1>3. ASSUME NEW m \in T PROVE m + 1 \in T
  <2>1. m \in Nat /\ m + 1 \in Nat
    BY <1>3
  <2> DEFINE n == m + 1
  <2>2. SUFFICES ASSUME n + 1 <= k PROVE Has(n + 1)
    <3> HIDE DEF Has
    <3>1. QED
      BY <2>1
  <2>3. n \in Nat /\ n + 1 \in 1..k /\ n + 1 \in 1..(n + 1)
    BY <2>1, <2>2
  <2>4. PICK j \in 1..n : \A l \in 1..n : g[l] <= g[j]
    <3>1. Has(n)
      <4> HIDE DEF Has
      <4>1. QED
        BY <1>3, <2>1, <2>2
    <3>2. QED
      BY <3>1
  <2> HIDE DEF n
  <2>5. /\ j \in 1..(n + 1) /\ g[j] \in Int /\ g[n + 1] \in Int
        /\ \A l \in 1..(n + 1) : g[l] \in Int /\ (l \in 1..n \/ l = n + 1)
    BY <1>1, <2>3
  <2>6. CASE g[n + 1] <= g[j]
    <3>1. ASSUME NEW l \in 1..(n + 1) PROVE g[l] <= g[j]
      <4>1. l \in 1..n \/ l = n + 1
        BY <2>5
      <4>2. QED
        BY <2>4, <2>6, <4>1
    <3>2. QED
      BY <2>5, <3>1
  <2>7. CASE g[j] <= g[n + 1]
    <3>1. ASSUME NEW l \in 1..(n + 1) PROVE g[l] <= g[n + 1]
      <4>1. CASE l \in 1..n
        <5>1. g[l] <= g[j] /\ g[l] \in Int
          BY <2>4, <2>5, <4>1
        <5>2. g[j] \in Int /\ g[n + 1] \in Int
          BY <2>5
        <5>3. QED
          BY <2>7, <5>1, <5>2
      <4>2. CASE l = n + 1
        BY <2>5, <4>2
      <4>3. l \in 1..n \/ l = n + 1
        BY <2>5
      <4>4. QED
        BY <4>1, <4>2, <4>3
    <3>2. QED
      BY <2>3, <3>1
  <2>8. g[n + 1] <= g[j] \/ g[j] <= g[n + 1]
    BY <2>5
  <2>9. QED
    BY <2>6, <2>7, <2>8
<1>4. T = Nat
  <2>1. T \subseteq Nat
    OBVIOUS
  <2> HIDE DEF T
  <2>2. QED
    BY <1>2, <1>3, <2>1, NatSets
<1> HIDE DEF Has
<1>5. k - 1 \in T
  <2>1. k - 1 \in Nat
    OBVIOUS
  <2> HIDE DEF T
  <2>2. QED
    BY <1>4, <2>1
<1>6. Has(k)
  <2>1. k - 1 \in Nat /\ (k - 1) + 1 = k
    OBVIOUS
  <2>2. (k - 1) + 1 <= k => Has((k - 1) + 1)
    BY <1>5
  <2>3. QED
    BY <2>1, <2>2
<1>7. QED
  BY <1>6 DEF Has

LEMMA Extremes ==
  ASSUME NEW k \in Nat, k # 0, NEW g \in [1..k -> Int]
  PROVE  LET all == {g[l] : l \in 1..k}
         IN  /\ Min(all) \in all /\ Max(all) \in all /\ all \subseteq Int
             /\ \A x \in all : Min(all) <= x /\ x <= Max(all)
<1> DEFINE all == {g[l] : l \in 1..k}
           minus == [l \in 1..k |-> -g[l]]
<1>1. \A l \in 1..k : g[l] \in Int /\ minus[l] = -g[l]
  OBVIOUS
<1>2. all \subseteq Int
  BY <1>1
<1>3. PICK j \in 1..k : \A l \in 1..k : g[l] <= g[j]
  BY GreatestNumber
<1>4. PICK i \in 1..k : \A l \in 1..k : g[i] <= g[l]
  <2>1. minus \in [1..k -> Int]
    BY <1>1
  <2> HIDE DEF minus
  <2>2. PICK i \in 1..k : \A l \in 1..k : minus[l] <= minus[i]
    BY <2>1, GreatestNumber
  <2>3. \A l \in 1..k : g[i] <= g[l]
    BY <1>1, <2>2
  <2>4. QED
    BY <2>3
<1>5. Max(all) = g[j]
  <2>1. g[j] \in all /\ \A x \in all : x <= g[j]
    BY <1>3
  <2> HIDE DEF all
  <2>2. QED
    BY <1>2, <2>1, GreatestIs
<1>6. Min(all) = g[i]
  <2>1. g[i] \in all /\ \A x \in all : g[i] <= x
    BY <1>4
  <2> HIDE DEF all
  <2>2. QED
    BY <1>2, <2>1, LeastIs
<1>7. QED
  BY <1>1, <1>2, <1>3, <1>4, <1>5, <1>6

(* The sum of the channels. *)
Sums(f, q) ==
  f = [s \in SUBSET DOMAIN q |-> IF s = {} THEN 0 ELSE Add(f[s \ {Max(s)}], q[Max(s)])]

LEMMA SumsExist ==
  ASSUME NEW k \in Nat, NEW q \in [1..k -> Int]
  PROVE  \E f \in [SUBSET (1..k) -> Int] : Sums(f, q)
<1> DEFINE F == [p \in Int \X (1..k) |-> p[1] + q[p[2]]]
<1>1. F \in [Int \X (1..k) -> Int]
  OBVIOUS
<1>2. \A e \in Int, i \in 1..k : F[<<e, i>>] = e + q[i]
  OBVIOUS
<1> HIDE DEF F
<1>3. PICK f \in [SUBSET (1..k) -> Int] :
        \A s \in SUBSET (1..k) :
          f[s] = IF s = {} THEN 0 ELSE F[<<f[s \ {Max(s)}], Max(s)>>]
  <2>1. IsFoldStep(F, k, Int) /\ 0 \in Int
    BY <1>1 DEF IsFoldStep
  <2>2. \E f : IsFold(f, k, Int, 0, F)
    BY <2>1, FoldExists
  <2>3. QED
    BY <2>2 DEF IsFold
<1>4. ASSUME NEW s \in SUBSET (1..k)
      PROVE  f[s] = IF s = {} THEN 0 ELSE f[s \ {Max(s)}] + q[Max(s)]
  <2>1. CASE s = {}
    BY <1>3, <2>1
  <2>2. CASE s # {}
    <3>1. Max(s) \in 1..k
      BY <2>2, GreatestExists
    <3>2. f[s \ {Max(s)}] \in Int
      BY <1>3
    <3>3. f[s] = F[<<f[s \ {Max(s)}], Max(s)>>]
      BY <1>3, <2>2
    <3>4. QED
      BY <1>2, <2>2, <3>1, <3>2, <3>3
  <2>3. QED
    BY <2>1, <2>2
<1>5. f = [s \in SUBSET (1..k) |-> IF s = {} THEN 0 ELSE f[s \ {Max(s)}] + q[Max(s)]]
  <2>1. f = [s \in SUBSET (1..k) |-> f[s]]
    BY <1>3
  <2>2. QED
    BY <1>4, <2>1
<1>6. QED
  BY <1>3, <1>5 DEF Sums, Add

LEMMA Summed ==
  ASSUME NEW k \in 1..2, NEW q \in [1..k -> Int]
  PROVE  FoldLeft(Add, 0, q) = IF k = 1 THEN q[1] ELSE q[1] + q[2]
<1> DEFINE h == CHOOSE f : Sums(f, q)
<1>1. FoldLeft(Add, 0, q) = h[1..k]
  <2>1. FoldLeft(Add, 0, q) = h[DOMAIN q]
    BY DEF FoldLeft, MapThenFoldSet, Sums
  <2>2. QED
    BY <2>1
<1>2. \A s \in SUBSET (1..k) : h[s] = IF s = {} THEN 0 ELSE h[s \ {Max(s)}] + q[Max(s)]
  <2>1. Sums(h, q)
    <3>1. k \in Nat
      OBVIOUS
    <3>2. \E f : Sums(f, q)
      BY <3>1, SumsExist
    <3>3. QED
      BY <3>2
  <2> HIDE DEF h
  <2>2. h = [s \in SUBSET (1..k) |-> IF s = {} THEN 0 ELSE h[s \ {Max(s)}] + q[Max(s)]]
    BY <2>1 DEF Sums, Add
  <2>3. QED
    BY <2>2
<1> HIDE DEF h
<1>3. ASSUME NEW m \in 1..k PROVE h[1..m] = h[1..(m - 1)] + q[m]
  <2>1. /\ 1..m \in SUBSET (1..k) /\ 1..m # {} /\ Max(1..m) = m
        /\ (1..m) \ {Max(1..m)} = 1..(m - 1)
    BY LastOfPrefix
  <2>2. QED
    BY <1>2, <2>1
<1>4. h[1..0] = 0
  <2>1. 1..0 = {}
    OBVIOUS
  <2>2. QED
    BY <1>2, <2>1
<1>5. q[1] \in Int /\ (k = 2 => q[2] \in Int)
  OBVIOUS
<1>6. h[1..1] = q[1]
  <2>1. 1 \in 1..k /\ 1 - 1 = 0
    OBVIOUS
  <2>2. h[1..1] = h[1..0] + q[1]
    BY <1>3, <2>1
  <2>3. QED
    BY <1>4, <1>5, <2>2
<1>7. CASE k = 1
  BY <1>1, <1>6, <1>7
<1>8. CASE k = 2
  <2>1. 2 \in 1..k /\ 2 - 1 = 1
    BY <1>8
  <2>2. h[1..2] = h[1..1] + q[2]
    BY <1>3, <2>1
  <2>3. QED
    BY <1>1, <1>6, <1>8, <2>2
<1>9. QED
  BY <1>7, <1>8

(* Every number that the reader and the resampler compute is between the   *)
(* smallest and the greatest sample, or next to them.                      *)
Samples == {x \in Int : -32768 <= x /\ x <= 32767}   \* int16

LEMMA InSixteenBits ==
  /\ \A x \in Samples : Int16(x) = x
  /\ \A x \in Int : Int16(x) \in Samples
<1>1. ASSUME NEW x \in Samples PROVE Int16(x) = x
  <2>1. x \in Int /\ -32768 <= x /\ x <= 32767
    BY DEF Samples
  <2>2. QED
    BY <2>1 DEF Int16
<1>2. ASSUME NEW x \in Int PROVE Int16(x) \in Samples
  <2>1. Int16(x) \in Int /\ -32768 <= Int16(x) /\ Int16(x) <= 32767
    BY DEF Int16
  <2>2. QED
    BY <2>1 DEF Samples
<1>3. QED
  BY <1>1, <1>2

LEMMA Sample ==
  ASSUME NEW pcm \in Seq(Octets), NEW bits \in {8, 16}, NEW pos \in 1..Len(pcm),
         bits = 16 => pos + 1 \in 1..Len(pcm)
  PROVE  SampleAt(pcm, pos, bits) \in Samples
<1> DEFINE x == pcm[pos]
           y == pcm[pos + 1]
<1>1. x \in 0..255 /\ (bits = 16 => y \in 0..255)
  BY ElementOfSeq DEF Octets
<1>2. SampleAt(pcm, pos, bits) = IF bits = 16 THEN Int16(x + 256 * y) ELSE (x - 128) * 256
  BY DEF SampleAt
<1> HIDE DEF x, y
<1>3. CASE bits = 16
  <2>1. y \in 0..255 /\ x \in 0..255
    BY <1>1, <1>3
  <2>2. x + 256 * y \in Int
    BY <2>1
  <2>3. QED
    BY <1>2, <1>3, <2>2, InSixteenBits
<1>4. CASE bits = 8
  <2> DEFINE louder == (x - 128) * 256
  <2>1. louder \in Int /\ -32768 <= louder /\ louder <= 32767
    BY <1>1
  <2> HIDE DEF louder
  <2>2. louder \in Samples
    BY <2>1 DEF Samples
  <2>3. SampleAt(pcm, pos, bits) = louder
    BY <1>2, <1>4 DEF louder
  <2>4. QED
    BY <2>2, <2>3
<1>5. QED
  BY <1>3, <1>4

LEMMA MeanBetween ==
  ASSUME NEW lo \in Samples, NEW hi \in Samples, NEW a \in lo..hi, NEW b \in lo..hi
  PROVE  /\ Int16(Quotient(a, 1)) \in lo..hi
         /\ Int16(Quotient(a + b, 2)) \in lo..hi
<1>1. /\ lo \in Int /\ -32768 <= lo /\ hi \in Int /\ hi <= 32767
      /\ a \in Int /\ lo <= a /\ a <= hi /\ b \in Int /\ lo <= b /\ b <= hi
  <2>1. lo \in Int /\ -32768 <= lo /\ hi \in Int /\ hi <= 32767
    BY DEF Samples
  <2>2. QED
    BY <2>1
<1>2. Quotient(a, 1) = a
  BY <1>1 DEF Quotient
<1>3. Quotient(a + b, 2) \in Int /\ lo <= Quotient(a + b, 2) /\ Quotient(a + b, 2) <= hi
  BY <1>1 DEF Quotient
<1>4. ASSUME NEW x \in Int, lo <= x, x <= hi PROVE x \in Samples /\ x \in lo..hi
  <2>1. -32768 <= x /\ x <= 32767
    BY <1>1, <1>4
  <2>2. x \in Samples
    BY <2>1 DEF Samples
  <2>3. x \in lo..hi
    BY <1>1, <1>4
  <2>4. QED
    BY <2>2, <2>3
<1>5. QED
  BY <1>1, <1>2, <1>3, <1>4, InSixteenBits

LEMMA Weighted ==
  ASSUME NEW lo \in Int, NEW hi \in Int, NEW a \in lo..hi, NEW b \in lo..hi,
         NEW p \in 0..(Target - 1)
  PROVE  LET exact == a * (Target - p) + b * p
         IN exact \in Int /\ Target * lo <= exact /\ exact <= Target * hi
<1>1. \A w \in Nat : \A x, y \in Int : x <= y => x * w <= y * w
  OBVIOUS
<1>2. p \in Nat /\ Target - p \in Nat /\ Target \in Nat
  BY DEF Target
<1>3. /\ lo * (Target - p) <= a * (Target - p) /\ a * (Target - p) <= hi * (Target - p)
      /\ lo * p <= b * p /\ b * p <= hi * p
  BY <1>1, <1>2
<1>4. \A x \in Int : x * (Target - p) + x * p = Target * x
  BY DEF Target
<1>5. \A x \in Int : x * (Target - p) \in Int /\ x * p \in Int
  BY <1>2
<1>6. QED
  BY <1>2, <1>3, <1>4, <1>5

LEMMA RoundedBetween ==
  ASSUME NEW lo \in Int, NEW hi \in Int, NEW exact \in Int,
         Target * lo <= exact, exact <= Target * hi
  PROVE  Quotient(exact, Target) \in lo..hi
BY DEF Quotient, Target

LEMMA BetweenTwo ==
  ASSUME NEW lo \in Int, NEW hi \in Int, NEW n \in Nat, n # 0, NEW frames \in [1..n -> lo..hi],
         NEW rate \in Nat, NEW i \in Nat
  PROVE  Interpolated(frames, rate, i) \subseteq (lo - 1)..(hi + 1)
<1> DEFINE left == (i * rate) \div Target
           part == (i * rate) % Target
           exact == frames[left + 1] * (Target - part) + frames[left + 2] * part
           whole == Quotient(exact, Target)
           less == whole - (IF whole > 0 THEN 1 ELSE IF whole < 0 THEN -1 ELSE 0)
<1>1. Len(frames) = n
  BY FunctionIsSeq
<1>2. left \in Nat /\ part \in 0..(Target - 1)
  <2>1. i * rate \in Nat /\ Target \in Nat \ {0}
    BY DEF Target
  <2>2. QED
    BY <2>1, Division
<1>3. Interpolated(frames, rate, i) \subseteq
        IF left >= n - 1 THEN {frames[n]} ELSE {whole, less}
  <2> HIDE DEF left, part
  <2>1. Interpolated(frames, rate, i)
          = CASE left >= n - 1 -> {frames[n]}
              [] left < n - 1 /\ (part = 0 \/ exact % Target # 0) -> {whole}
              [] OTHER -> {whole, less}
    BY <1>1 DEF Interpolated, left, part
  <2> HIDE DEF exact, whole, less
  <2>2. CASE left >= n - 1
    BY <1>2, <2>1, <2>2
  <2>3. CASE left < n - 1 /\ (part = 0 \/ exact % Target # 0)
    BY <1>2, <2>1, <2>3
  <2>4. CASE left < n - 1 /\ ~(part = 0 \/ exact % Target # 0)
    BY <1>2, <2>1, <2>4
  <2>5. QED
    BY <1>2, <2>2, <2>3, <2>4
<1>4. CASE left >= n - 1
  <2>1. frames[n] \in lo..hi
    OBVIOUS
  <2> HIDE DEF left
  <2>2. QED
    BY <1>3, <1>4, <2>1
<1>5. CASE left < n - 1
  <2> HIDE DEF left, part
  <2>1. frames[left + 1] \in lo..hi /\ frames[left + 2] \in lo..hi
    BY <1>2, <1>5
  <2> DEFINE a == frames[left + 1]
             b == frames[left + 2]
  <2>2. exact \in Int /\ Target * lo <= exact /\ exact <= Target * hi
    <3>1. a \in lo..hi /\ b \in lo..hi
      BY <2>1
    <3> HIDE DEF a, b
    <3>2. LET e == a * (Target - part) + b * part
          IN e \in Int /\ Target * lo <= e /\ e <= Target * hi
      BY <1>2, <3>1, Weighted
    <3>3. QED
      BY <3>2 DEF a, b
  <2> HIDE DEF exact
  <2>3. whole \in lo..hi
    BY <2>2, RoundedBetween
  <2> HIDE DEF whole
  <2>4. less \in (lo - 1)..(hi + 1)
    BY <2>3
  <2> HIDE DEF less
  <2>5. QED
    BY <1>3, <1>5, <2>3, <2>4
<1>6. QED
  <2>1. left \in Int
    BY <1>2
  <2> HIDE DEF left
  <2>2. QED
    BY <1>4, <1>5, <2>1

(* The samples of a frame, one for each channel. *)
ChannelsOf(r, n) ==
  [c \in 1..r.channels |->
    SampleAt(r.pcm, (n - 1) * ((r.bits \div 8) * r.channels) + (c - 1) * (r.bits \div 8) + 1,
             r.bits)]

(* The m-th sample of a recording, in any channel. *)
SampleOf(r, m) == SampleAt(r.pcm, (r.bits \div 8) * (m - 1) + 1, r.bits)

LEMMA FramesAre ==
  ASSUME NEW r \in RecordingInput
  PROVE  Frames(Sound(r))
           = [n \in 1..(Len(r.pcm) \div ((r.bits \div 8) * r.channels)) |->
                Int16(Quotient(FoldLeft(Add, 0, ChannelsOf(r, n)), r.channels))]
<1>1. /\ Sound(r).pcm = r.pcm /\ Sound(r).bits = r.bits /\ Sound(r).channels = r.channels
  BY DEF Sound, Nothing
<1>2. QED
  BY <1>1 DEF Frames, ChannelsOf

LEMMA Positions ==
  ASSUME NEW bytes \in {1, 2}, NEW channels \in 1..2, NEW length \in Nat,
         NEW n \in 1..(length \div (bytes * channels)), NEW c \in 1..channels
  PROVE  /\ (n - 1) * channels + c \in 1..(length \div bytes)
         /\ (n - 1) * (bytes * channels) + (c - 1) * bytes + 1
              = bytes * (((n - 1) * channels + c) - 1) + 1
<1>1. n \in Int /\ 1 <= n /\ c \in Int /\ 1 <= c
  OBVIOUS
<1>2. CASE bytes = 1 /\ channels = 1
  BY <1>1, <1>2
<1>3. CASE bytes = 1 /\ channels = 2
  BY <1>1, <1>3
<1>4. CASE bytes = 2 /\ channels = 1
  BY <1>1, <1>4
<1>5. CASE bytes = 2 /\ channels = 2
  <2>1. n \in 1..(length \div 4) /\ c \in 1..2
    BY <1>5
  <2>2. (n - 1) * 2 + c \in 1..(length \div 2)
    BY <1>1, <2>1
  <2>3. (n - 1) * 4 + (c - 1) * 2 + 1 = 2 * (((n - 1) * 2 + c) - 1) + 1
    BY <1>1
  <2>4. QED
    BY <1>5, <2>2, <2>3
<1>6. QED
  BY <1>2, <1>3, <1>4, <1>5

LEMMA FrameBetween ==
  ASSUME NEW r \in RecordingInput, NEW lo \in Samples, NEW hi \in Samples,
         \A m \in 1..(Len(r.pcm) \div (r.bits \div 8)) : SampleOf(r, m) \in lo..hi,
         NEW n \in 1..(Len(r.pcm) \div ((r.bits \div 8) * r.channels))
  PROVE  Int16(Quotient(FoldLeft(Add, 0, ChannelsOf(r, n)), r.channels)) \in lo..hi
<1> DEFINE bytes == r.bits \div 8
           q == ChannelsOf(r, n)
<1>1. bytes \in {1, 2} /\ r.channels \in 1..2 /\ Len(r.pcm) \in Nat
  BY LenProperties DEF RecordingInput
<1>2. ASSUME NEW c \in 1..r.channels PROVE q[c] \in lo..hi
  <2> DEFINE m == (n - 1) * r.channels + c
  <2>1. q[c] = SampleAt(r.pcm, (n - 1) * (bytes * r.channels) + (c - 1) * bytes + 1, r.bits)
    BY <1>2 DEF ChannelsOf
  <2>2. /\ m \in 1..(Len(r.pcm) \div bytes)
        /\ (n - 1) * (bytes * r.channels) + (c - 1) * bytes + 1 = bytes * (m - 1) + 1
    <3> HIDE DEF bytes
    <3>1. n \in 1..(Len(r.pcm) \div (bytes * r.channels))
      BY DEF bytes
    <3>2. QED
      BY <1>1, <1>2, <3>1, Positions
  <2>3. q[c] = SampleOf(r, m)
    BY <2>1, <2>2 DEF SampleOf
  <2>4. QED
    <3> HIDE DEF q, m
    <3>1. QED
      BY <2>2, <2>3
<1>3. q \in [1..r.channels -> Int]
  <2>1. q = [c \in 1..r.channels |-> q[c]]
    BY DEF ChannelsOf
  <2>2. lo..hi \subseteq Int
    OBVIOUS
  <2> HIDE DEF q
  <2>3. QED
    BY <1>2, <2>1, <2>2
<1> HIDE DEF q
<1>4. FoldLeft(Add, 0, q) = IF r.channels = 1 THEN q[1] ELSE q[1] + q[2]
  BY <1>1, <1>3, Summed
<1>5. CASE r.channels = 1
  <2>1. q[1] \in lo..hi
    BY <1>2, <1>5
  <2>2. QED
    BY <1>4, <1>5, <2>1, MeanBetween DEF q
<1>6. CASE r.channels = 2
  <2>1. q[1] \in lo..hi /\ q[2] \in lo..hi
    BY <1>2, <1>6
  <2>2. QED
    BY <1>4, <1>6, <2>1, MeanBetween DEF q
<1>7. QED
  BY <1>1, <1>5, <1>6

LEMMA SamplePositions ==
  ASSUME NEW bits \in {8, 16}, NEW length \in Nat, NEW m \in 1..(length \div (bits \div 8))
  PROVE  LET pos == (bits \div 8) * (m - 1) + 1
         IN  pos \in 1..length /\ (bits = 16 => pos + 1 \in 1..length)
<1>1. CASE bits = 8
  <2>1. 8 \div 8 = 1
    OBVIOUS
  <2> DEFINE n == length \div 1
  <2>2. m \in 1..n
    BY <1>1, <2>1
  <2>3. n = length
    OBVIOUS
  <2> HIDE DEF n
  <2>4. 1 * (m - 1) + 1 \in 1..length
    BY <2>2, <2>3
  <2>5. QED
    BY <1>1, <2>1, <2>4
<1>2. CASE bits = 16
  <2>1. 16 \div 8 = 2
    OBVIOUS
  <2> DEFINE n == length \div 2
  <2>2. m \in 1..n
    BY <1>2, <2>1
  <2>3. n \in Nat /\ 2 * n <= length
    OBVIOUS
  <2> HIDE DEF n
  <2>4. 2 * (m - 1) + 1 \in 1..length /\ (2 * (m - 1) + 1) + 1 \in 1..length
    BY <2>2, <2>3
  <2>5. QED
    BY <1>2, <2>1, <2>4
<1>3. QED
  BY <1>1, <1>2

LEMMA SamplesAre ==
  ASSUME NEW r \in RecordingInput, NEW m \in 1..(Len(r.pcm) \div (r.bits \div 8))
  PROVE  SampleOf(r, m) \in Samples
<1> DEFINE pos == (r.bits \div 8) * (m - 1) + 1
<1>1. r.pcm \in Seq(Octets) /\ r.bits \in {8, 16} /\ Len(r.pcm) \in Nat
  BY LenProperties DEF RecordingInput
<1>2. pos \in 1..Len(r.pcm) /\ (r.bits = 16 => pos + 1 \in 1..Len(r.pcm))
  BY <1>1, SamplePositions
<1>3. SampleOf(r, m) = SampleAt(r.pcm, pos, r.bits)
  BY DEF SampleOf
<1> HIDE DEF pos
<1>4. QED
  BY <1>1, <1>2, <1>3, Sample

(* The samples of a recording have a smallest and a greatest, and Span is  *)
(* from next to the one to next to the other.                              *)
LEMMA SpanIs ==
  ASSUME NEW r \in RecordingInput, Len(r.pcm) \div (r.bits \div 8) # 0
  PROVE  \E lo, hi \in Samples :
           /\ Span(r) = (lo - 1)..(hi + 1)
           /\ \A m \in 1..(Len(r.pcm) \div (r.bits \div 8)) : SampleOf(r, m) \in lo..hi
<1> DEFINE k == Len(r.pcm) \div (r.bits \div 8)
           g == [m \in 1..k |-> SampleOf(r, m)]
           all == {g[l] : l \in 1..k}
<1>1. k \in Nat /\ k # 0
  <2>1. Len(r.pcm) \in Nat /\ r.bits \div 8 \in Nat \ {0}
    BY LenProperties DEF RecordingInput
  <2>2. QED
    BY <2>1, Division
<1>2. \A m \in 1..k : SampleOf(r, m) \in Samples
  BY SamplesAre
<1>3. Span(r) = (Min(all) - 1)..(Max(all) + 1)
  <2>1. all = {SampleAt(r.pcm, (r.bits \div 8) * (n - 1) + 1, r.bits) : n \in 1..k}
    <3>1. \A m \in 1..k : g[m] = SampleAt(r.pcm, (r.bits \div 8) * (m - 1) + 1, r.bits)
      BY DEF SampleOf
    <3> HIDE DEF g, k
    <3>2. QED
      BY <3>1
  <2> HIDE DEF g
  <2>2. QED
    BY <2>1 DEF Span
<1> HIDE DEF k
<1>4. g \in [1..k -> Int] /\ \A m \in 1..k : g[m] = SampleOf(r, m)
  <2>1. \A m \in 1..k : SampleOf(r, m) \in Int
    BY <1>2 DEF Samples
  <2>2. QED
    BY <2>1
<1> HIDE DEF g
<1>5. /\ Min(all) \in all /\ Max(all) \in all /\ all \subseteq Int
      /\ \A x \in all : Min(all) <= x /\ x <= Max(all)
  BY <1>1, <1>4, Extremes
<1>6. all \subseteq Samples
  BY <1>2, <1>4
<1>7. \A m \in 1..k : SampleOf(r, m) \in all
  BY <1>4
<1> DEFINE lo == Min(all)
           hi == Max(all)
<1>8. lo \in Samples /\ hi \in Samples
  BY <1>5, <1>6
<1>9. \A m \in 1..k : SampleOf(r, m) \in lo..hi
  <2> HIDE DEF all
  <2>1. \A x \in all : x \in Int /\ lo <= x /\ x <= hi
    BY <1>5
  <2>2. lo \in Int /\ hi \in Int
    BY <1>5
  <2> HIDE DEF lo, hi
  <2>3. QED
    BY <1>7, <2>1, <2>2
<1>10. QED
  <2>1. Span(r) = (lo - 1)..(hi + 1)
    BY <1>3
  <2> HIDE DEF lo, hi, all
  <2>2. QED
    BY <1>8, <1>9, <2>1 DEF k

LEMMA RecordingRead ==
  ASSUME NEW r \in RecordingInput
  PROVE  LET output == Resample(Frames(Sound(r)), r.rate)
             frames == Len(r.pcm) \div (r.channels * (r.bits \div 8))
         IN  /\ \A s \in Range(output) : s \subseteq Span(r)
             /\ Len(output) * r.rate <= frames * Target
             /\ frames * Target < (Len(output) + 1) * r.rate
<1> DEFINE bytes == r.bits \div 8
           k == Len(r.pcm) \div (bytes * r.channels)
           frames == Frames(Sound(r))
           rate == r.rate
           output == Resample(frames, rate)
<1>1. /\ bytes \in {1, 2} /\ r.channels \in 1..2 /\ Len(r.pcm) \in Nat
      /\ rate \in Nat \ {0} /\ bytes * r.channels = r.channels * bytes
  <2>1. bytes \in {1, 2} /\ r.channels \in 1..2 /\ Len(r.pcm) \in Nat /\ rate \in Nat \ {0}
    BY LenProperties DEF RecordingInput
  <2>2. QED
    BY <2>1
<1>2. k \in Nat
  <2>1. bytes * r.channels \in Nat \ {0}
    BY <1>1
  <2> HIDE DEF bytes
  <2>2. QED
    BY <1>1, <2>1, Division
<1>3. frames = [n \in 1..k |-> frames[n]]
  BY FramesAre
<1>4. ASSUME k # 0
      PROVE  \E lo, hi \in Samples : /\ Span(r) = (lo - 1)..(hi + 1)
                                     /\ frames \in [1..k -> lo..hi]
  <2>1. Len(r.pcm) \div bytes # 0
    <3>1. 1 \in 1..k /\ 1 \in 1..r.channels
      BY <1>1, <1>2, <1>4
    <3> HIDE DEF bytes
    <3> DEFINE n == Len(r.pcm) \div bytes
    <3>2. (1 - 1) * r.channels + 1 \in 1..n
      BY <1>1, <3>1, Positions
    <3> HIDE DEF n
    <3>3. n # 0
      BY <3>2
    <3>4. QED
      BY <3>3 DEF n
  <2>2. PICK lo \in Samples, hi \in Samples :
          /\ Span(r) = (lo - 1)..(hi + 1)
          /\ \A m \in 1..(Len(r.pcm) \div (r.bits \div 8)) : SampleOf(r, m) \in lo..hi
    BY <2>1, SpanIs
  <2>3. \A n \in 1..k : frames[n] \in lo..hi
    <3>1. \A n \in 1..k :
            frames[n] = Int16(Quotient(FoldLeft(Add, 0, ChannelsOf(r, n)), r.channels))
      BY FramesAre
    <3>2. \A n \in 1..k :
            Int16(Quotient(FoldLeft(Add, 0, ChannelsOf(r, n)), r.channels)) \in lo..hi
      BY <2>2, FrameBetween
    <3> HIDE DEF frames, k
    <3>3. QED
      BY <3>1, <3>2
  <2> HIDE DEF frames, k
  <2>4. frames \in [1..k -> lo..hi]
    BY <1>3, <2>3
  <2>5. QED
    BY <2>2, <2>4
<1> HIDE DEF frames
<1>5. Len(frames) = k /\ (frames = <<>> <=> k = 0)
  <2> HIDE DEF k
  <2>1. frames \in [1..k -> {frames[n] : n \in 1..k}]
    BY <1>3
  <2>2. frames \in Seq({frames[n] : n \in 1..k}) /\ Len(frames) = k
    BY <1>2, <2>1, FunctionIsSeq
  <2>3. QED
    BY <2>2, EmptySeq
<1> HIDE DEF k
<1>6. k = Len(r.pcm) \div (r.channels * bytes)
  BY <1>1 DEF k
<1> HIDE DEF bytes, rate
<1>7. CASE rate = Target \/ frames = <<>>
  <2>1. output = [i \in 1..k |-> {frames[i]}]
    BY <1>5, <1>7 DEF Resample
  <2> HIDE DEF output
  <2>2. Len(output) = k
    <3>1. output \in [1..k -> {{frames[i]} : i \in 1..k}]
      BY <2>1
    <3>2. QED
      BY <1>2, <3>1, FunctionIsSeq
  <2>3. ASSUME NEW s \in Range(output) PROVE s \subseteq Span(r)
    <3>1. PICK i \in 1..k : s = {frames[i]}
      BY <2>1, <2>3 DEF Range
    <3>2. k # 0
      BY <1>2, <3>1
    <3>3. PICK lo \in Samples, hi \in Samples :
            Span(r) = (lo - 1)..(hi + 1) /\ frames \in [1..k -> lo..hi]
      BY <1>4, <3>2
    <3>4. frames[i] \in lo..hi /\ lo \in Int /\ hi \in Int
      BY <3>3 DEF Samples
    <3>5. frames[i] \in (lo - 1)..(hi + 1)
      BY <3>4
    <3>6. QED
      BY <3>1, <3>3, <3>5
  <2>4. k * rate <= k * Target /\ k * Target < (k + 1) * rate
    <3>1. CASE rate = Target
      BY <1>2, <3>1 DEF Target
    <3>2. CASE frames = <<>>
      BY <1>1, <1>5, <3>2 DEF Target
    <3>3. QED
      BY <1>7, <3>1, <3>2
  <2>5. QED
    BY <1>6, <2>2, <2>3, <2>4 DEF rate, bytes, output, frames
<1>8. CASE rate # Target /\ frames # <<>>
  <2> DEFINE l == OutputLength(frames, rate)
  <2>1. output = [i \in 1..l |-> Interpolated(frames, rate, i - 1)]
    BY <1>8 DEF Resample
  <2>2. /\ l \in Nat /\ k * Target \in Nat /\ (k * Target) % rate \in 0..(rate - 1)
        /\ k * Target = rate * l + ((k * Target) % rate)
    <3>1. k * Target \in Nat
      BY <1>2 DEF Target
    <3>2. l = (k * Target) \div rate
      BY <1>5 DEF OutputLength
    <3>3. QED
      BY <1>1, <3>1, <3>2, Division
  <2> HIDE DEF l, output
  <2>3. Len(output) = l
    <3>1. output \in [1..l -> {Interpolated(frames, rate, i - 1) : i \in 1..l}]
      BY <2>1
    <3>2. QED
      BY <2>2, <3>1, FunctionIsSeq
  <2>4. ASSUME NEW s \in Range(output) PROVE s \subseteq Span(r)
    <3>1. PICK i \in 1..l : s = Interpolated(frames, rate, i - 1)
      BY <2>1, <2>4 DEF Range
    <3>2. k # 0
      BY <1>5, <1>8
    <3>3. PICK lo \in Samples, hi \in Samples :
            Span(r) = (lo - 1)..(hi + 1) /\ frames \in [1..k -> lo..hi]
      BY <1>4, <3>2
    <3>4. lo \in Int /\ hi \in Int /\ i - 1 \in Nat /\ rate \in Nat
      BY <1>1, <2>2, <3>3 DEF Samples
    <3>5. Interpolated(frames, rate, i - 1) \subseteq (lo - 1)..(hi + 1)
      BY <1>2, <3>2, <3>3, <3>4, BetweenTwo
    <3>6. QED
      BY <3>1, <3>3, <3>5
  <2>5. l * rate <= k * Target /\ k * Target < (l + 1) * rate
    <3> DEFINE t == k * Target
               rest == t % rate
               played == rate * l
    <3>1. l * rate = played /\ (l + 1) * rate = played + rate /\ played \in Nat
      BY <1>1, <2>2
    <3>2. rest \in 0..(rate - 1) /\ t = played + rest /\ rate \in Nat
      BY <1>1, <2>2
    <3> HIDE DEF t, rest, played
    <3>3. played <= t /\ t < played + rate
      BY <3>1, <3>2
    <3>4. QED
      BY <3>1, <3>3 DEF t
  <2>6. QED
    BY <1>6, <2>3, <2>4, <2>5 DEF rate, bytes, output, frames
<1>9. QED
  BY <1>7, <1>8

LEMMA RecordingsRead ==
  ASSUME RecordingInv PROVE RecordingKept
<1>1. SUFFICES ASSUME input.of = "recording" PROVE RecordingKept
  BY DEF RecordingKept
<1>2. input \in RecordingInput
  BY <1>1 DEF RecordingInv
<1>3. QED
  BY <1>2, RecordingRead DEF RecordingKept

(* wav.go: a recording of any length, rate and width, with one channel or  *)
(* two, is played as long as it is, and no sample leaves its loudness.     *)
THEOREM RecordingsAreKept == Spec => []RecordingKept
<1>1. Init => RecordingInv
  BY RecordingFirst
<1>2. RecordingInv /\ [Next]_input => RecordingInv'
  BY RecordingStep
<1>3. RecordingInv => RecordingKept
  BY RecordingsRead
<1>4. QED
  BY <1>1, <1>2, <1>3, PTL DEF Spec

-----------------------------------------------------------------------------
(***************************************************************************)
(* Record-Route headers.                                                   *)
(***************************************************************************)
Characters == {"x", "<", ">", ",", Quote}
Texts == Seq(Characters)
Scans == [values : Seq(Texts), value : Texts, quoted : BOOLEAN, depth : Nat]

LEMMA StartTyped == Start \in Scans
<1>1. <<>> \in Seq(Texts) /\ <<>> \in Texts
  BY EmptySeq DEF Texts
<1>2. QED
  BY <1>1 DEF Start, Scans

LEMMA ScanTyped ==
  ASSUME NEW s \in Scans, NEW c \in Characters
  PROVE  Scan(s, c) \in Scans
<1> DEFINE longer == Append(s.value, c)
           more == Append(s.values, s.value)
           quoted == s.quoted # (c = Quote)
           depth == Depth(s, c)
<1>1. s.values \in Seq(Texts) /\ s.value \in Texts /\ s.quoted \in BOOLEAN /\ s.depth \in Nat
  BY DEF Scans
<1>2. longer \in Texts /\ more \in Seq(Texts) /\ <<>> \in Texts
  BY <1>1, AppendProperties, EmptySeq DEF Texts
<1>3. quoted \in BOOLEAN
  OBVIOUS
<1>4. depth \in Nat
  <2>1. CASE ~s.quoted /\ c = "<"
    BY <1>1, <2>1 DEF Depth
  <2>2. CASE ~s.quoted /\ c = ">" /\ s.depth > 0
    BY <1>1, <2>2 DEF Depth
  <2>3. CASE ~(~s.quoted /\ c = "<") /\ ~(~s.quoted /\ c = ">" /\ s.depth > 0)
    BY <1>1, <2>3 DEF Depth
  <2>4. QED
    BY <2>1, <2>2, <2>3
<1>5. Scan(s, c) = IF c = "," /\ ~Inside(s)
                     THEN [s EXCEPT !.values = more, !.value = <<>>]
                     ELSE [s EXCEPT !.value = longer, !.quoted = quoted, !.depth = depth]
  BY DEF Scan
<1> HIDE DEF longer, more, quoted, depth
<1>6. [s EXCEPT !.values = more, !.value = <<>>] \in Scans
  BY <1>2 DEF Scans
<1>7. [s EXCEPT !.value = longer, !.quoted = quoted, !.depth = depth] \in Scans
  BY <1>2, <1>3, <1>4 DEF Scans
<1>8. QED
  BY <1>5, <1>6, <1>7

LEMMA AddTyped ==
  ASSUME NEW routes \in Seq(Texts), NEW route \in Texts
  PROVE  AddRoute(routes, route) \in Seq(Texts)
BY AppendProperties DEF AddRoute

(* The scan of a header's value. *)
Scanner(text) == [p \in Scans \X (1..Len(text)) |-> Scan(p[1], text[p[2]])]

LEMMA ScannerTyped ==
  ASSUME NEW text \in Texts
  PROVE  IsFoldStep(Scanner(text), Len(text), Scans)
<1>1. \A i \in 1..Len(text) : text[i] \in Characters
  BY ElementOfSeq DEF Texts
<1>2. \A p \in Scans \X (1..Len(text)) : Scan(p[1], text[p[2]]) \in Scans
  <2>1. TAKE p \in Scans \X (1..Len(text))
  <2>2. p[1] \in Scans /\ text[p[2]] \in Characters
    BY <1>1
  <2>3. QED
    BY <2>2, ScanTyped
<1>3. QED
  BY <1>2 DEF Scanner, IsFoldStep

LEMMA ScanRuns ==
  ASSUME NEW text \in Texts
  PROVE  \E v : /\ IsRun(v, Len(text), Scans, Start, Scanner(text))
                /\ FoldLeft(Scan, Start, text) = v[Len(text)]
<1> DEFINE n == Len(text)
           Folds(f) == f = [s \in SUBSET DOMAIN text |->
                             IF s = {} THEN Start
                             ELSE Scan(f[s \ {Max(s)}], text[Max(s)])]
           h == CHOOSE f : Folds(f)
<1>1. n \in Nat /\ DOMAIN text = 1..n /\ Start \in Scans
  BY LenProperties, StartTyped DEF Texts
<1>2. FoldLeft(Scan, Start, text) = h[1..n]
  <2>1. FoldLeft(Scan, Start, text) = h[DOMAIN text]
    BY DEF FoldLeft, MapThenFoldSet
  <2>2. QED
    BY <1>1, <2>1
<1>3. PICK f : IsFold(f, n, Scans, Start, Scanner(text))
  <2>1. IsFoldStep(Scanner(text), n, Scans)
    BY ScannerTyped
  <2> HIDE DEF n
  <2>2. QED
    BY <1>1, <2>1, FoldExists
<1>4. ASSUME NEW a \in Scans, NEW m \in 1..n
      PROVE  Scanner(text)[<<a, m>>] = Scan(a, text[m])
  BY <1>4 DEF Scanner
<1>5. ASSUME NEW s \in SUBSET (1..n)
      PROVE  f[s] = IF s = {} THEN Start ELSE Scan(f[s \ {Max(s)}], text[Max(s)])
  <2>1. CASE s = {}
    BY <1>3, <2>1 DEF IsFold
  <2>2. CASE s # {}
    <3>1. Max(s) \in 1..n
      <4> HIDE DEF n
      <4>1. QED
        BY <1>1, <2>2, GreatestExists
    <3>2. f[s \ {Max(s)}] \in Scans /\ f[s] = Scanner(text)[<<f[s \ {Max(s)}], Max(s)>>]
      BY <1>3, <2>2 DEF IsFold
    <3>3. QED
      BY <1>4, <2>2, <3>1, <3>2
  <2>3. QED
    BY <2>1, <2>2
<1>6. Folds(h)
  <2>1. f = [s \in SUBSET (1..n) |-> f[s]]
    BY <1>3 DEF IsFold
  <2>2. Folds(f)
    <3> HIDE DEF n
    <3>1. QED
      BY <1>1, <1>5, <2>1
  <2> HIDE DEF Folds
  <2>3. QED
    BY <2>2
<1>7. \A s \in SUBSET (1..n) :
        h[s] = IF s = {} THEN Start ELSE Scan(h[s \ {Max(s)}], text[Max(s)])
  <2> HIDE DEF h, n
  <2>1. h = [s \in SUBSET (1..n) |->
              IF s = {} THEN Start ELSE Scan(h[s \ {Max(s)}], text[Max(s)])]
    BY <1>1, <1>6
  <2>2. QED
    BY <2>1
<1> DEFINE v == [m \in 0..n |-> f[1..m]]
           T == {m \in Nat : m <= n => h[1..m] = f[1..m]}
<1>8. T = Nat
  <2> HIDE DEF h, n
  <2>1. 0 \in T
    <3>1. 1..0 = {} /\ {} \in SUBSET (1..n)
      OBVIOUS
    <3>2. h[1..0] = f[1..0]
      BY <1>5, <1>7, <3>1
    <3>3. QED
      BY <3>2
  <2>2. ASSUME NEW m \in T PROVE m + 1 \in T
    <3>1. m \in Nat /\ m + 1 \in Nat /\ (m <= n => h[1..m] = f[1..m])
      BY <2>2
    <3>2. SUFFICES ASSUME m + 1 <= n PROVE h[1..(m + 1)] = f[1..(m + 1)]
      BY <3>1
    <3>3. m + 1 \in 1..n /\ (m + 1) - 1 = m /\ m <= n
      BY <1>1, <3>1, <3>2
    <3>4. /\ 1..(m + 1) \in SUBSET (1..n) /\ 1..(m + 1) # {}
          /\ Max(1..(m + 1)) = m + 1 /\ (1..(m + 1)) \ {Max(1..(m + 1))} = 1..m
      BY <1>1, <3>3, LastOfPrefix
    <3>5. /\ h[1..(m + 1)] = Scan(h[1..m], text[m + 1])
          /\ f[1..(m + 1)] = Scan(f[1..m], text[m + 1])
      BY <1>5, <1>7, <3>4
    <3> HIDE DEF T
    <3>6. QED
      BY <3>1, <3>3, <3>5
  <2>3. T \subseteq Nat
    OBVIOUS
  <2> HIDE DEF T
  <2>4. QED
    BY <2>1, <2>2, <2>3, NatSets
<1>9. h[1..n] = v[n]
  <2> HIDE DEF h, n, T
  <2>1. n \in T /\ n \in 0..n
    BY <1>1, <1>8
  <2>2. QED
    BY <2>1 DEF T
<1>10. IsRun(v, n, Scans, Start, Scanner(text))
  <2> HIDE DEF n
  <2>1. QED
    BY <1>1, <1>3, FoldRuns
<1> HIDE DEF v, h
<1>11. QED
  BY <1>2, <1>9, <1>10

(* The loop over the values of a header. *)
Adder(values) == [p \in Seq(Texts) \X (1..Len(values)) |-> AddRoute(p[1], values[p[2]])]

LEMMA AdderTyped ==
  ASSUME NEW routes \in Seq(Texts), NEW values \in Seq(Texts)
  PROVE  IsFoldStep(Adder(values), Len(values), Seq(Texts))
<1>1. \A i \in 1..Len(values) : values[i] \in Texts
  BY ElementOfSeq
<1>2. \A p \in Seq(Texts) \X (1..Len(values)) : AddRoute(p[1], values[p[2]]) \in Seq(Texts)
  <2>1. TAKE p \in Seq(Texts) \X (1..Len(values))
  <2>2. p[1] \in Seq(Texts) /\ values[p[2]] \in Texts
    BY <1>1
  <2>3. QED
    BY <2>2, AddTyped
<1>3. QED
  BY <1>2 DEF Adder, IsFoldStep

LEMMA AddRuns ==
  ASSUME NEW routes \in Seq(Texts), NEW values \in Seq(Texts)
  PROVE  \E v : /\ IsRun(v, Len(values), Seq(Texts), routes, Adder(values))
                /\ FoldLeft(AddRoute, routes, values) = v[Len(values)]
<1> DEFINE n == Len(values)
           Folds(f) == f = [s \in SUBSET DOMAIN values |->
                             IF s = {} THEN routes
                             ELSE AddRoute(f[s \ {Max(s)}], values[Max(s)])]
           h == CHOOSE f : Folds(f)
<1>1. n \in Nat /\ DOMAIN values = 1..n /\ routes \in Seq(Texts)
  BY LenProperties
<1>2. FoldLeft(AddRoute, routes, values) = h[1..n]
  <2>1. FoldLeft(AddRoute, routes, values) = h[DOMAIN values]
    BY DEF FoldLeft, MapThenFoldSet
  <2>2. QED
    BY <1>1, <2>1
<1>3. PICK f : IsFold(f, n, Seq(Texts), routes, Adder(values))
  <2>1. IsFoldStep(Adder(values), n, Seq(Texts))
    BY AdderTyped
  <2> HIDE DEF n
  <2>2. QED
    BY <1>1, <2>1, FoldExists
<1>4. ASSUME NEW a \in Seq(Texts), NEW m \in 1..n
      PROVE  Adder(values)[<<a, m>>] = AddRoute(a, values[m])
  BY <1>4 DEF Adder
<1>5. ASSUME NEW s \in SUBSET (1..n)
      PROVE  f[s] = IF s = {} THEN routes ELSE AddRoute(f[s \ {Max(s)}], values[Max(s)])
  <2>1. CASE s = {}
    BY <1>3, <2>1 DEF IsFold
  <2>2. CASE s # {}
    <3>1. Max(s) \in 1..n
      <4> HIDE DEF n
      <4>1. QED
        BY <1>1, <2>2, GreatestExists
    <3>2. f[s \ {Max(s)}] \in Seq(Texts) /\ f[s] = Adder(values)[<<f[s \ {Max(s)}], Max(s)>>]
      BY <1>3, <2>2 DEF IsFold
    <3>3. QED
      BY <1>4, <2>2, <3>1, <3>2
  <2>3. QED
    BY <2>1, <2>2
<1>6. Folds(h)
  <2>1. f = [s \in SUBSET (1..n) |-> f[s]]
    BY <1>3 DEF IsFold
  <2>2. Folds(f)
    <3> HIDE DEF n
    <3>1. QED
      BY <1>1, <1>5, <2>1
  <2> HIDE DEF Folds
  <2>3. QED
    BY <2>2
<1>7. \A s \in SUBSET (1..n) :
        h[s] = IF s = {} THEN routes ELSE AddRoute(h[s \ {Max(s)}], values[Max(s)])
  <2> HIDE DEF h, n
  <2>1. h = [s \in SUBSET (1..n) |->
              IF s = {} THEN routes ELSE AddRoute(h[s \ {Max(s)}], values[Max(s)])]
    BY <1>1, <1>6
  <2>2. QED
    BY <2>1
<1> DEFINE v == [m \in 0..n |-> f[1..m]]
           T == {m \in Nat : m <= n => h[1..m] = f[1..m]}
<1>8. T = Nat
  <2> HIDE DEF h, n
  <2>1. 0 \in T
    <3>1. 1..0 = {} /\ {} \in SUBSET (1..n)
      OBVIOUS
    <3>2. h[1..0] = f[1..0]
      BY <1>5, <1>7, <3>1
    <3>3. QED
      BY <3>2
  <2>2. ASSUME NEW m \in T PROVE m + 1 \in T
    <3>1. m \in Nat /\ m + 1 \in Nat /\ (m <= n => h[1..m] = f[1..m])
      BY <2>2
    <3>2. SUFFICES ASSUME m + 1 <= n PROVE h[1..(m + 1)] = f[1..(m + 1)]
      BY <3>1
    <3>3. m + 1 \in 1..n /\ (m + 1) - 1 = m /\ m <= n
      BY <1>1, <3>1, <3>2
    <3>4. /\ 1..(m + 1) \in SUBSET (1..n) /\ 1..(m + 1) # {}
          /\ Max(1..(m + 1)) = m + 1 /\ (1..(m + 1)) \ {Max(1..(m + 1))} = 1..m
      BY <1>1, <3>3, LastOfPrefix
    <3>5. /\ h[1..(m + 1)] = AddRoute(h[1..m], values[m + 1])
          /\ f[1..(m + 1)] = AddRoute(f[1..m], values[m + 1])
      BY <1>5, <1>7, <3>4
    <3> HIDE DEF T
    <3>6. QED
      BY <3>1, <3>3, <3>5
  <2>3. T \subseteq Nat
    OBVIOUS
  <2> HIDE DEF T
  <2>4. QED
    BY <2>1, <2>2, <2>3, NatSets
<1>9. h[1..n] = v[n]
  <2> HIDE DEF h, n, T
  <2>1. n \in T /\ n \in 0..n
    BY <1>1, <1>8
  <2>2. QED
    BY <2>1 DEF T
<1>10. IsRun(v, n, Seq(Texts), routes, Adder(values))
  <2> HIDE DEF n
  <2>1. QED
    BY <1>1, <1>3, FoldRuns
<1> HIDE DEF v, h
<1>11. QED
  BY <1>2, <1>9, <1>10

(* What splitHeaderValues and the inner loop return. *)
LEMMA SplitTyped ==
  ASSUME NEW text \in Texts
  PROVE  FoldLeft(Scan, Start, text) \in Scans /\ SplitHeaderValues(text) \in Seq(Texts)
<1>1. PICK v : /\ IsRun(v, Len(text), Scans, Start, Scanner(text))
               /\ FoldLeft(Scan, Start, text) = v[Len(text)]
  BY ScanRuns
<1>2. FoldLeft(Scan, Start, text) \in Scans
  <2>1. Len(text) \in Nat
    BY LenProperties DEF Texts
  <2>2. v \in [0..Len(text) -> Scans] /\ Len(text) \in 0..Len(text)
    BY <1>1, <2>1 DEF IsRun
  <2>3. QED
    BY <1>1, <2>2
<1> DEFINE s == FoldLeft(Scan, Start, text)
<1>3. s.values \in Seq(Texts) /\ s.value \in Texts
  <2> HIDE DEF s
  <2>1. s \in Scans
    BY <1>2 DEF s
  <2>2. QED
    BY <2>1 DEF Scans
<1>4. SplitHeaderValues(text) = Append(s.values, s.value)
  BY DEF SplitHeaderValues
<1> HIDE DEF s
<1>5. SplitHeaderValues(text) \in Seq(Texts)
  BY <1>3, <1>4, AppendProperties
<1>6. QED
  BY <1>2, <1>5

LEMMA ValuesTyped ==
  ASSUME NEW routes \in Seq(Texts), NEW values \in Seq(Texts)
  PROVE  FoldLeft(AddRoute, routes, values) \in Seq(Texts)
<1>1. PICK v : /\ IsRun(v, Len(values), Seq(Texts), routes, Adder(values))
               /\ FoldLeft(AddRoute, routes, values) = v[Len(values)]
  BY AddRuns
<1>2. Len(values) \in 0..Len(values)
  BY LenProperties
<1>3. QED
  BY <1>1, <1>2 DEF IsRun

LEMMA RecordTyped ==
  ASSUME NEW routes \in Seq(Texts), NEW record \in Texts
  PROVE  AddRecord(routes, record) \in Seq(Texts)
BY SplitTyped, ValuesTyped DEF AddRecord

(* The loop over the headers. *)
Collector(records) == [p \in Seq(Texts) \X (1..Len(records)) |-> AddRecord(p[1], records[p[2]])]

LEMMA CollectorTyped ==
  ASSUME NEW records \in Seq(Texts)
  PROVE  IsFoldStep(Collector(records), Len(records), Seq(Texts))
<1>1. \A i \in 1..Len(records) : records[i] \in Texts
  BY ElementOfSeq
<1>2. \A p \in Seq(Texts) \X (1..Len(records)) : AddRecord(p[1], records[p[2]]) \in Seq(Texts)
  <2>1. TAKE p \in Seq(Texts) \X (1..Len(records))
  <2>2. p[1] \in Seq(Texts) /\ records[p[2]] \in Texts
    BY <1>1
  <2>3. QED
    BY <2>2, RecordTyped
<1>3. QED
  BY <1>2 DEF Collector, IsFoldStep

LEMMA CollectRuns ==
  ASSUME NEW records \in Seq(Texts)
  PROVE  \E v : /\ IsRun(v, Len(records), Seq(Texts), <<>>, Collector(records))
                /\ FoldLeft(AddRecord, <<>>, records) = v[Len(records)]
<1> DEFINE n == Len(records)
           Folds(f) == f = [s \in SUBSET DOMAIN records |->
                             IF s = {} THEN <<>>
                             ELSE AddRecord(f[s \ {Max(s)}], records[Max(s)])]
           h == CHOOSE f : Folds(f)
<1>1. n \in Nat /\ DOMAIN records = 1..n /\ <<>> \in Seq(Texts)
  BY LenProperties, EmptySeq
<1>2. FoldLeft(AddRecord, <<>>, records) = h[1..n]
  <2>1. FoldLeft(AddRecord, <<>>, records) = h[DOMAIN records]
    BY DEF FoldLeft, MapThenFoldSet
  <2>2. QED
    BY <1>1, <2>1
<1>3. PICK f : IsFold(f, n, Seq(Texts), <<>>, Collector(records))
  <2>1. IsFoldStep(Collector(records), n, Seq(Texts))
    BY CollectorTyped
  <2> HIDE DEF n
  <2>2. QED
    BY <1>1, <2>1, FoldExists
<1>4. ASSUME NEW a \in Seq(Texts), NEW m \in 1..n
      PROVE  Collector(records)[<<a, m>>] = AddRecord(a, records[m])
  BY <1>4 DEF Collector
<1>5. ASSUME NEW s \in SUBSET (1..n)
      PROVE  f[s] = IF s = {} THEN <<>> ELSE AddRecord(f[s \ {Max(s)}], records[Max(s)])
  <2>1. CASE s = {}
    BY <1>3, <2>1 DEF IsFold
  <2>2. CASE s # {}
    <3>1. Max(s) \in 1..n
      <4> HIDE DEF n
      <4>1. QED
        BY <1>1, <2>2, GreatestExists
    <3>2. f[s \ {Max(s)}] \in Seq(Texts) /\ f[s] = Collector(records)[<<f[s \ {Max(s)}], Max(s)>>]
      BY <1>3, <2>2 DEF IsFold
    <3>3. QED
      BY <1>4, <2>2, <3>1, <3>2
  <2>3. QED
    BY <2>1, <2>2
<1>6. Folds(h)
  <2>1. f = [s \in SUBSET (1..n) |-> f[s]]
    BY <1>3 DEF IsFold
  <2>2. Folds(f)
    <3> HIDE DEF n
    <3>1. QED
      BY <1>1, <1>5, <2>1
  <2> HIDE DEF Folds
  <2>3. QED
    BY <2>2
<1>7. \A s \in SUBSET (1..n) :
        h[s] = IF s = {} THEN <<>> ELSE AddRecord(h[s \ {Max(s)}], records[Max(s)])
  <2> HIDE DEF h, n
  <2>1. h = [s \in SUBSET (1..n) |->
              IF s = {} THEN <<>> ELSE AddRecord(h[s \ {Max(s)}], records[Max(s)])]
    BY <1>1, <1>6
  <2>2. QED
    BY <2>1
<1> DEFINE v == [m \in 0..n |-> f[1..m]]
           T == {m \in Nat : m <= n => h[1..m] = f[1..m]}
<1>8. T = Nat
  <2> HIDE DEF h, n
  <2>1. 0 \in T
    <3>1. 1..0 = {} /\ {} \in SUBSET (1..n)
      OBVIOUS
    <3>2. h[1..0] = f[1..0]
      BY <1>5, <1>7, <3>1
    <3>3. QED
      BY <3>2
  <2>2. ASSUME NEW m \in T PROVE m + 1 \in T
    <3>1. m \in Nat /\ m + 1 \in Nat /\ (m <= n => h[1..m] = f[1..m])
      BY <2>2
    <3>2. SUFFICES ASSUME m + 1 <= n PROVE h[1..(m + 1)] = f[1..(m + 1)]
      BY <3>1
    <3>3. m + 1 \in 1..n /\ (m + 1) - 1 = m /\ m <= n
      BY <1>1, <3>1, <3>2
    <3>4. /\ 1..(m + 1) \in SUBSET (1..n) /\ 1..(m + 1) # {}
          /\ Max(1..(m + 1)) = m + 1 /\ (1..(m + 1)) \ {Max(1..(m + 1))} = 1..m
      BY <1>1, <3>3, LastOfPrefix
    <3>5. /\ h[1..(m + 1)] = AddRecord(h[1..m], records[m + 1])
          /\ f[1..(m + 1)] = AddRecord(f[1..m], records[m + 1])
      BY <1>5, <1>7, <3>4
    <3> HIDE DEF T
    <3>6. QED
      BY <3>1, <3>3, <3>5
  <2>3. T \subseteq Nat
    OBVIOUS
  <2> HIDE DEF T
  <2>4. QED
    BY <2>1, <2>2, <2>3, NatSets
<1>9. h[1..n] = v[n]
  <2> HIDE DEF h, n, T
  <2>1. n \in T /\ n \in 0..n
    BY <1>1, <1>8
  <2>2. QED
    BY <2>1 DEF T
<1>10. IsRun(v, n, Seq(Texts), <<>>, Collector(records))
  <2> HIDE DEF n
  <2>1. QED
    BY <1>1, <1>3, FoldRuns
<1> HIDE DEF v, h
<1>11. QED
  BY <1>2, <1>9, <1>10

(* One more value, one more header, another last header. *)
LEMMA ValueAdded ==
  ASSUME NEW routes \in Seq(Texts), NEW values \in Seq(Texts), NEW value \in Texts
  PROVE  FoldLeft(AddRoute, routes, Append(values, value))
           = AddRoute(FoldLeft(AddRoute, routes, values), value)
<1> DEFINE n == Len(values)
           longer == Append(values, value)
<1>1. /\ n \in Nat /\ longer \in Seq(Texts) /\ Len(longer) = n + 1
      /\ longer[n + 1] = value /\ \A i \in 1..n : longer[i] = values[i]
  BY LenProperties, AppendProperties
<1>2. PICK v : /\ IsRun(v, n, Seq(Texts), routes, Adder(values))
               /\ FoldLeft(AddRoute, routes, values) = v[n]
  BY AddRuns
<1> HIDE DEF n, longer
<1>3. PICK w : /\ IsRun(w, n + 1, Seq(Texts), routes, Adder(longer))
               /\ FoldLeft(AddRoute, routes, longer) = w[n + 1]
  BY <1>1, AddRuns
<1>4. ASSUME NEW a \in Seq(Texts), NEW m \in 1..n
      PROVE  Adder(values)[<<a, m>>] = Adder(longer)[<<a, m>>]
  <2>1. m \in 1..Len(values) /\ m \in 1..Len(longer)
    BY <1>1 DEF n
  <2>2. QED
    BY <1>1, <2>1 DEF Adder
<1>5. v[n] = w[n]
  <2>1. n + 1 \in Nat /\ n <= n + 1
    BY <1>1
  <2>2. QED
    BY <1>1, <1>2, <1>3, <1>4, <2>1, RunsAgree
<1>6. w[n + 1] = Adder(longer)[<<w[n], n + 1>>] /\ w[n] \in Seq(Texts)
  <2>1. n + 1 \in 1..(n + 1) /\ (n + 1) - 1 = n /\ n \in 0..(n + 1)
    BY <1>1
  <2>2. QED
    BY <1>3, <2>1 DEF IsRun
<1>7. Adder(longer)[<<w[n], n + 1>>] = AddRoute(w[n], value)
  <2>1. n + 1 \in 1..Len(longer)
    BY <1>1
  <2>2. QED
    BY <1>1, <1>6, <2>1 DEF Adder
<1>8. QED
  BY <1>2, <1>3, <1>5, <1>6, <1>7 DEF longer

LEMMA NoValue ==
  ASSUME NEW routes \in Seq(Texts)
  PROVE  FoldLeft(AddRoute, routes, <<>>) = routes
<1>1. <<>> \in Seq(Texts) /\ Len(<<>>) = 0
  BY EmptySeq
<1>2. PICK v : /\ IsRun(v, 0, Seq(Texts), routes, Adder(<<>>))
               /\ FoldLeft(AddRoute, routes, <<>>) = v[0]
  BY <1>1, AddRuns
<1>3. QED
  BY <1>2 DEF IsRun

(* What the headers before the n-th give. *)
LEMMA HeaderLast ==
  ASSUME NEW records \in Seq(Texts), NEW others \in Seq(Texts), NEW n \in Nat,
         n < Len(records), n < Len(others), \A i \in 1..n : records[i] = others[i],
         NEW v, IsRun(v, Len(records), Seq(Texts), <<>>, Collector(records)),
         NEW w, IsRun(w, Len(others), Seq(Texts), <<>>, Collector(others))
  PROVE  /\ v[n] = w[n] /\ v[n] \in Seq(Texts)
         /\ v[n + 1] = AddRecord(v[n], records[n + 1])
         /\ w[n + 1] = AddRecord(v[n], others[n + 1])
<1>1. Len(records) \in Nat /\ Len(others) \in Nat
  BY LenProperties
<1>2. /\ n \in 0..Len(records) /\ n + 1 \in 1..Len(records) /\ (n + 1) - 1 = n
      /\ n \in 0..Len(others) /\ n + 1 \in 1..Len(others)
      /\ \A m \in 1..n : m \in 1..Len(records) /\ m \in 1..Len(others)
  BY <1>1
<1>3. /\ v[n] \in Seq(Texts) /\ v[n + 1] = Collector(records)[<<v[n], n + 1>>]
      /\ w[n] \in Seq(Texts) /\ w[n + 1] = Collector(others)[<<w[n], n + 1>>]
  BY <1>2 DEF IsRun
<1>4. v[n] = w[n]
  <2>1. \A a \in Seq(Texts), m \in 1..n :
          Collector(records)[<<a, m>>] = Collector(others)[<<a, m>>]
    BY <1>2 DEF Collector
  <2> DEFINE x == [m \in 0..n |-> v[m]]
             C == Collector(records)
             D == Collector(others)
  <2>2. x \in [0..n -> Seq(Texts)] /\ x[0] = <<>> /\ x[n] = v[n]
    <3>1. \A m \in 0..n : m \in 0..Len(records)
      BY <1>1, <1>2
    <3>2. QED
      BY <3>1 DEF IsRun
  <2>3. \A m \in 1..n : x[m] = C[<<x[m - 1], m>>]
    <3>1. \A m \in 1..n : m \in 0..n /\ m - 1 \in 0..n /\ m \in 1..Len(records)
      BY <1>2
    <3>2. \A m \in 1..Len(records) : v[m] = C[<<v[m - 1], m>>]
      BY DEF IsRun
    <3> HIDE DEF C
    <3>3. QED
      BY <3>1, <3>2
  <2> HIDE DEF x, C, D
  <2>4. IsRun(x, n, Seq(Texts), <<>>, C)
    BY <2>2, <2>3 DEF IsRun
  <2>5. n <= Len(others) /\ IsRun(w, Len(others), Seq(Texts), <<>>, D)
    BY <1>1 DEF D
  <2>6. \A a \in Seq(Texts), m \in 1..n : C[<<a, m>>] = D[<<a, m>>]
    BY <2>1 DEF C, D
  <2>7. x[n] = w[n]
    BY <1>1, <2>4, <2>5, <2>6, RunsAgree
  <2>8. QED
    BY <2>2, <2>7
<1>5. QED
  BY <1>2, <1>3, <1>4 DEF Collector

LEMMA HeaderAdded ==
  ASSUME NEW records \in Seq(Texts), NEW text \in Texts
  PROVE  RouteSet(Append(records, text)) = AddRecord(RouteSet(records), text)
<1> DEFINE n == Len(records)
           longer == Append(records, text)
<1>1. /\ n \in Nat /\ longer \in Seq(Texts) /\ Len(longer) = n + 1
      /\ longer[n + 1] = text /\ \A i \in 1..n : longer[i] = records[i]
  BY LenProperties, AppendProperties
<1>2. PICK v : /\ IsRun(v, n, Seq(Texts), <<>>, Collector(records))
               /\ FoldLeft(AddRecord, <<>>, records) = v[n]
  BY CollectRuns
<1> HIDE DEF n, longer
<1>3. PICK w : /\ IsRun(w, n + 1, Seq(Texts), <<>>, Collector(longer))
               /\ FoldLeft(AddRecord, <<>>, longer) = w[n + 1]
  BY <1>1, CollectRuns
<1>4. ASSUME NEW a \in Seq(Texts), NEW m \in 1..n
      PROVE  Collector(records)[<<a, m>>] = Collector(longer)[<<a, m>>]
  <2>1. m \in 1..Len(records) /\ m \in 1..Len(longer)
    BY <1>1 DEF n
  <2>2. QED
    BY <1>1, <2>1 DEF Collector
<1>5. v[n] = w[n]
  <2>1. n + 1 \in Nat /\ n <= n + 1
    BY <1>1
  <2>2. QED
    BY <1>1, <1>2, <1>3, <1>4, <2>1, RunsAgree
<1>6. w[n + 1] = Collector(longer)[<<w[n], n + 1>>] /\ w[n] \in Seq(Texts)
  <2>1. n + 1 \in 1..(n + 1) /\ (n + 1) - 1 = n /\ n \in 0..(n + 1)
    BY <1>1
  <2>2. QED
    BY <1>3, <2>1 DEF IsRun
<1>7. Collector(longer)[<<w[n], n + 1>>] = AddRecord(w[n], text)
  <2>1. n + 1 \in 1..Len(longer)
    BY <1>1
  <2>2. QED
    BY <1>1, <1>6, <2>1 DEF Collector
<1>8. QED
  BY <1>2, <1>3, <1>5, <1>6, <1>7 DEF longer, RouteSet

LEMMA HeaderChanged ==
  ASSUME NEW records \in Seq(Texts), records # <<>>
  PROVE  \E before \in Seq(Texts) :
           /\ RouteSet(records) = AddRecord(before, records[Len(records)])
           /\ \A text \in Texts :
                RouteSet([records EXCEPT ![Len(records)] = text]) = AddRecord(before, text)
<1> DEFINE k == Len(records)
           n == k - 1
<1>1. k \in Nat /\ k # 0 /\ records \in [1..k -> Texts]
  BY LenProperties, EmptySeq
<1>2. n \in Nat /\ n + 1 = k /\ n < k /\ k \in 1..k
  <2> HIDE DEF k
  <2>1. QED
    BY <1>1
<1>3. PICK v : /\ IsRun(v, Len(records), Seq(Texts), <<>>, Collector(records))
               /\ FoldLeft(AddRecord, <<>>, records) = v[Len(records)]
  BY CollectRuns
<1> HIDE DEF n
<1>4. ASSUME NEW text \in Texts
      PROVE  /\ v[n] \in Seq(Texts) /\ RouteSet(records) = AddRecord(v[n], records[k])
             /\ RouteSet([records EXCEPT ![k] = text]) = AddRecord(v[n], text)
  <2> DEFINE others == [records EXCEPT ![k] = text]
  <2>1. /\ others \in Seq(Texts) /\ Len(others) = k
        /\ others[k] = text /\ \A i \in 1..n : others[i] = records[i]
    <3> HIDE DEF k
    <3>1. others \in [1..k -> Texts] /\ others[k] = text
      BY <1>1, <1>2
    <3>2. \A i \in 1..n : i \in 1..k /\ i # k
      BY <1>1, <1>2
    <3>3. \A i \in 1..n : others[i] = records[i]
      BY <1>1, <3>2
    <3> HIDE DEF others
    <3>4. QED
      BY <1>1, <3>1, <3>3, FunctionIsSeq
  <2> HIDE DEF others
  <2>2. PICK w : /\ IsRun(w, Len(others), Seq(Texts), <<>>, Collector(others))
                 /\ FoldLeft(AddRecord, <<>>, others) = w[Len(others)]
    BY <2>1, CollectRuns
  <2>3. /\ v[n] \in Seq(Texts) /\ v[n + 1] = AddRecord(v[n], records[n + 1])
        /\ w[n + 1] = AddRecord(v[n], others[n + 1])
    BY <1>2, <1>3, <2>1, <2>2, HeaderLast
  <2>4. /\ RouteSet(records) = AddRecord(v[n], records[k])
        /\ RouteSet(others) = AddRecord(v[n], text)
    BY <1>2, <1>3, <2>1, <2>2, <2>3 DEF RouteSet
  <2>5. QED
    BY <2>3, <2>4 DEF others
<1>5. records[k] \in Texts
  <2> HIDE DEF k
  <2>1. QED
    BY <1>1, <1>2
<1>6. QED
  BY <1>4, <1>5

(* A text that goes on is scanned on from where its beginning ended. *)
LEMMA ScanContinues ==
  ASSUME NEW text \in Texts, NEW more \in Texts
  PROVE  \E w : /\ w[0] = FoldLeft(Scan, Start, text)
                /\ \A k \in 1..Len(more) : w[k] = Scan(w[k - 1], more[k])
                /\ FoldLeft(Scan, Start, text \o more) = w[Len(more)]
<1> DEFINE n == Len(text)
           m == Len(more)
           whole == text \o more
<1>1. /\ n \in Nat /\ m \in Nat /\ whole \in Texts /\ Len(whole) = n + m
      /\ \A i \in 1..n : whole[i] = text[i]
      /\ \A k \in 1..m : whole[n + k] = more[k]
  <2>1. text \in Seq(Characters) /\ more \in Seq(Characters)
    BY DEF Texts
  <2>2. n \in Nat /\ m \in Nat /\ whole \in Texts /\ Len(whole) = n + m
    BY <2>1, LenProperties, ConcatProperties DEF Texts
  <2>3. \A i \in 1..(n + m) : whole[i] = IF i <= n THEN text[i] ELSE more[i - n]
    BY <2>1, ConcatProperties
  <2> HIDE DEF n, m, whole
  <2>4. \A i \in 1..n : i \in 1..(n + m) /\ i <= n
    BY <2>2
  <2>5. \A k \in 1..m : n + k \in 1..(n + m) /\ ~(n + k <= n) /\ (n + k) - n = k
    BY <2>2
  <2>6. QED
    BY <2>2, <2>3, <2>4, <2>5
<1>2. PICK v : /\ IsRun(v, n, Scans, Start, Scanner(text))
               /\ FoldLeft(Scan, Start, text) = v[n]
  BY ScanRuns
<1> HIDE DEF whole, n, m
<1>3. PICK u : /\ IsRun(u, n + m, Scans, Start, Scanner(whole))
               /\ FoldLeft(Scan, Start, whole) = u[n + m]
  BY <1>1, ScanRuns
<1>4. v[n] = u[n]
  <2>1. ASSUME NEW a \in Scans, NEW i \in 1..n
        PROVE  Scanner(text)[<<a, i>>] = Scanner(whole)[<<a, i>>]
    <3>1. i \in 1..Len(text) /\ i \in 1..Len(whole)
      BY <1>1 DEF n
    <3>2. QED
      BY <1>1, <3>1 DEF Scanner
  <2>2. n + m \in Nat /\ n <= n + m
    BY <1>1
  <2>3. QED
    BY <1>1, <1>2, <1>3, <2>1, <2>2, RunsAgree
<1> DEFINE w == [k \in 0..m |-> u[n + k]]
<1>5. w[0] = v[n] /\ w[m] = u[n + m]
  <2>1. 0 \in 0..m /\ m \in 0..m /\ n + 0 = n
    BY <1>1
  <2>2. QED
    BY <1>4, <2>1
<1>6. ASSUME NEW k \in 1..m PROVE w[k] = Scan(w[k - 1], more[k])
  <2>1. /\ k \in 0..m /\ k - 1 \in 0..m /\ n + (k - 1) = (n + k) - 1
        /\ n + k \in 1..(n + m) /\ n + (k - 1) \in 0..(n + m)
    BY <1>1
  <2>2. w[k] = u[n + k] /\ w[k - 1] = u[n + (k - 1)]
    BY <2>1
  <2>3. /\ u[n + k] = Scanner(whole)[<<u[n + (k - 1)], n + k>>]
        /\ u[n + (k - 1)] \in Scans
    BY <1>3, <2>1 DEF IsRun
  <2>4. Scanner(whole)[<<u[n + (k - 1)], n + k>>] = Scan(u[n + (k - 1)], whole[n + k])
    BY <1>1, <2>1, <2>3 DEF Scanner
  <2> HIDE DEF w
  <2>5. QED
    BY <1>1, <2>2, <2>3, <2>4
<1> HIDE DEF w
<1>7. /\ w[0] = FoldLeft(Scan, Start, text)
      /\ \A k \in 1..m : w[k] = Scan(w[k - 1], more[k])
      /\ FoldLeft(Scan, Start, whole) = w[m]
  BY <1>2, <1>3, <1>5, <1>6
<1>8. QED
  BY <1>7 DEF m, whole

LEMMA NothingScanned == FoldLeft(Scan, Start, <<>>) = Start
<1>1. <<>> \in Texts /\ Len(<<>>) = 0
  BY EmptySeq DEF Texts
<1>2. PICK v : /\ IsRun(v, 0, Scans, Start, Scanner(<<>>))
               /\ FoldLeft(Scan, Start, <<>>) = v[0]
  BY <1>1, ScanRuns
<1>3. QED
  BY <1>2 DEF IsRun

(* One character. *)
ScanAt(values, value, quoted, depth) ==
  [values |-> values, value |-> value, quoted |-> quoted, depth |-> depth]

LEMMA SameScan ==
  ASSUME NEW s \in Scans, NEW r \in Scans,
         s.values = r.values, s.value = r.value, s.quoted = r.quoted, s.depth = r.depth
  PROVE  s = r
BY DEF Scans

LEMMA ScanComma ==
  ASSUME NEW values \in Seq(Texts), NEW value \in Texts
  PROVE  Scan(ScanAt(values, value, FALSE, 0), ",")
           = ScanAt(Append(values, value), <<>>, FALSE, 0)
<1> DEFINE s == ScanAt(values, value, FALSE, 0)
           more == Append(values, value)
           r == Scan(s, ",")
           t == ScanAt(more, <<>>, FALSE, 0)
<1>1. more \in Seq(Texts) /\ <<>> \in Texts
  BY AppendProperties, EmptySeq DEF Texts
<1>2. /\ s \in Scans /\ s.values = values /\ s.value = value
      /\ s.quoted = FALSE /\ s.depth = 0
  BY DEF ScanAt, Scans
<1> HIDE DEF s
<1>3. r \in Scans
  BY <1>2, ScanTyped DEF Characters
<1>4. r = [s EXCEPT !.values = more, !.value = <<>>]
  BY <1>2 DEF Scan, Inside
<1> HIDE DEF more, r
<1>5. r.values = more /\ r.value = <<>> /\ r.quoted = FALSE /\ r.depth = 0
  BY <1>1, <1>2, <1>4 DEF Scans
<1>6. /\ t \in Scans /\ t.values = more /\ t.value = <<>>
      /\ t.quoted = FALSE /\ t.depth = 0
  BY <1>1 DEF ScanAt, Scans
<1> HIDE DEF t
<1>7. r = t
  BY <1>3, <1>5, <1>6, SameScan
<1>8. QED
  BY <1>7 DEF r, t, s, more

LEMMA InsideBrackets ==
  ASSUME NEW s, s.depth = 1
  PROVE  Inside(s)
<1>1. s.depth > 0
  OBVIOUS
<1>2. QED
  BY <1>1 DEF Inside

LEMMA ScanFields ==
  ASSUME NEW s \in Scans, NEW c \in Characters, c = "," => Inside(s)
  PROVE  /\ Scan(s, c) \in Scans
         /\ Scan(s, c).values = s.values
         /\ Scan(s, c).value = Append(s.value, c)
         /\ Scan(s, c).quoted = (s.quoted # (c = Quote))
         /\ Scan(s, c).depth = Depth(s, c)
<1> DEFINE longer == Append(s.value, c)
           q == s.quoted # (c = Quote)
           d == Depth(s, c)
           r == Scan(s, c)
<1>1. r \in Scans
  BY ScanTyped
<1>2. r = [s EXCEPT !.value = longer, !.quoted = q, !.depth = d]
  BY DEF Scan
<1> HIDE DEF longer, r, q, d
<1>3. r.values = s.values /\ r.value = longer /\ r.quoted = q /\ r.depth = d
  BY <1>2 DEF Scans
<1>4. QED
  BY <1>1, <1>3 DEF r, longer, q, d

LEMMA ScanOpens ==
  ASSUME NEW values \in Seq(Texts), NEW value \in Texts
  PROVE  Scan(ScanAt(values, value, FALSE, 0), "<")
           = ScanAt(values, Append(value, "<"), FALSE, 1)
<1> DEFINE s == ScanAt(values, value, FALSE, 0)
           longer == Append(value, "<")
           t == ScanAt(values, longer, FALSE, 1)
<1>1. "<" \in Characters /\ longer \in Texts
  BY AppendProperties DEF Texts, Characters
<1>2. /\ s \in Scans /\ s.values = values /\ s.value = value
      /\ s.quoted = FALSE /\ s.depth = 0
  BY DEF ScanAt, Scans
<1> HIDE DEF longer
<1>3. /\ t \in Scans /\ t.values = values /\ t.value = longer
      /\ t.quoted = FALSE /\ t.depth = 1
  BY <1>1 DEF ScanAt, Scans
<1> HIDE DEF s, t
<1>4. Depth(s, "<") = 1 /\ ("<" = "," => Inside(s)) /\ (s.quoted # ("<" = Quote)) = FALSE
  <2>1. Depth(s, "<") = 1
    BY <1>2 DEF Depth, Quote
  <2>2. "<" = "," => Inside(s)
    BY <1>2 DEF Inside, Quote
  <2>3. (s.quoted # ("<" = Quote)) = FALSE
    BY <1>2 DEF Quote
  <2>4. QED
    BY <2>1, <2>2, <2>3
<1>5. /\ Scan(s, "<") \in Scans
      /\ Scan(s, "<").values = values /\ Scan(s, "<").value = longer
      /\ Scan(s, "<").quoted = FALSE /\ Scan(s, "<").depth = 1
  BY <1>1, <1>2, <1>4, ScanFields DEF longer
<1>6. Scan(s, "<") = t
  BY <1>3, <1>5, SameScan
<1>7. QED
  BY <1>6 DEF s, t, longer

LEMMA ScanCloses ==
  ASSUME NEW values \in Seq(Texts), NEW value \in Texts
  PROVE  Scan(ScanAt(values, value, FALSE, 1), ">")
           = ScanAt(values, Append(value, ">"), FALSE, 0)
<1> DEFINE s == ScanAt(values, value, FALSE, 1)
           longer == Append(value, ">")
           t == ScanAt(values, longer, FALSE, 0)
<1>1. ">" \in Characters /\ longer \in Texts
  BY AppendProperties DEF Texts, Characters
<1>2. /\ s \in Scans /\ s.values = values /\ s.value = value
      /\ s.quoted = FALSE /\ s.depth = 1
  BY DEF ScanAt, Scans
<1> HIDE DEF longer
<1>3. /\ t \in Scans /\ t.values = values /\ t.value = longer
      /\ t.quoted = FALSE /\ t.depth = 0
  BY <1>1 DEF ScanAt, Scans
<1> HIDE DEF s, t
<1>4. Depth(s, ">") = 0 /\ (">" = "," => Inside(s)) /\ (s.quoted # (">" = Quote)) = FALSE
  <2>1. Depth(s, ">") = 0
    BY <1>2 DEF Depth, Quote
  <2>2. ">" = "," => Inside(s)
    BY <1>2 DEF Inside, Quote
  <2>3. (s.quoted # (">" = Quote)) = FALSE
    BY <1>2 DEF Quote
  <2>4. QED
    BY <2>1, <2>2, <2>3
<1>5. /\ Scan(s, ">") \in Scans
      /\ Scan(s, ">").values = values /\ Scan(s, ">").value = longer
      /\ Scan(s, ">").quoted = FALSE /\ Scan(s, ">").depth = 0
  BY <1>1, <1>2, <1>4, ScanFields DEF longer
<1>6. Scan(s, ">") = t
  BY <1>3, <1>5, SameScan
<1>7. QED
  BY <1>6 DEF s, t, longer

LEMMA ScanOutside ==
  ASSUME NEW values \in Seq(Texts), NEW value \in Texts
  PROVE  Scan(ScanAt(values, value, FALSE, 0), "x")
           = ScanAt(values, Append(value, "x"), FALSE, 0)
<1> DEFINE s == ScanAt(values, value, FALSE, 0)
           longer == Append(value, "x")
           t == ScanAt(values, longer, FALSE, 0)
<1>1. "x" \in Characters /\ longer \in Texts
  BY AppendProperties DEF Texts, Characters
<1>2. /\ s \in Scans /\ s.values = values /\ s.value = value
      /\ s.quoted = FALSE /\ s.depth = 0
  BY DEF ScanAt, Scans
<1> HIDE DEF longer
<1>3. /\ t \in Scans /\ t.values = values /\ t.value = longer
      /\ t.quoted = FALSE /\ t.depth = 0
  BY <1>1 DEF ScanAt, Scans
<1> HIDE DEF s, t
<1>4. Depth(s, "x") = 0 /\ ("x" = "," => Inside(s)) /\ (s.quoted # ("x" = Quote)) = FALSE
  <2>1. Depth(s, "x") = 0
    BY <1>2 DEF Depth, Quote
  <2>2. "x" = "," => Inside(s)
    BY <1>2 DEF Inside, Quote
  <2>3. (s.quoted # ("x" = Quote)) = FALSE
    BY <1>2 DEF Quote
  <2>4. QED
    BY <2>1, <2>2, <2>3
<1>5. /\ Scan(s, "x") \in Scans
      /\ Scan(s, "x").values = values /\ Scan(s, "x").value = longer
      /\ Scan(s, "x").quoted = FALSE /\ Scan(s, "x").depth = 0
  BY <1>1, <1>2, <1>4, ScanFields DEF longer
<1>6. Scan(s, "x") = t
  BY <1>3, <1>5, SameScan
<1>7. QED
  BY <1>6 DEF s, t, longer

LEMMA ScanInside ==
  ASSUME NEW values \in Seq(Texts), NEW value \in Texts, NEW c \in {"x", ","}
  PROVE  Scan(ScanAt(values, value, FALSE, 1), c)
           = ScanAt(values, Append(value, c), FALSE, 1)
<1> DEFINE s == ScanAt(values, value, FALSE, 1)
           longer == Append(value, c)
           t == ScanAt(values, longer, FALSE, 1)
<1>1. c \in Characters /\ longer \in Texts
  BY AppendProperties DEF Texts, Characters
<1>2. /\ s \in Scans /\ s.values = values /\ s.value = value
      /\ s.quoted = FALSE /\ s.depth = 1
  BY DEF ScanAt, Scans
<1> HIDE DEF longer
<1>3. /\ t \in Scans /\ t.values = values /\ t.value = longer
      /\ t.quoted = FALSE /\ t.depth = 1
  BY <1>1 DEF ScanAt, Scans
<1> HIDE DEF s, t
<1>4. Depth(s, c) = 1 /\ (c = "," => Inside(s)) /\ (s.quoted # (c = Quote)) = FALSE
  <2>1. Depth(s, c) = 1
    BY <1>2 DEF Depth, Quote
  <2>2. c = "," => Inside(s)
    <3>1. Inside(s)
      BY <1>2, InsideBrackets
    <3>2. QED
      BY <3>1
  <2>3. (s.quoted # (c = Quote)) = FALSE
    BY <1>2 DEF Quote
  <2>4. QED
    BY <2>1, <2>2, <2>3
<1>5. /\ Scan(s, c) \in Scans
      /\ Scan(s, c).values = values /\ Scan(s, c).value = longer
      /\ Scan(s, c).quoted = FALSE /\ Scan(s, c).depth = 1
  BY <1>1, <1>2, <1>4, ScanFields DEF longer
<1>6. Scan(s, c) = t
  BY <1>3, <1>5, SameScan
<1>7. QED
  BY <1>6 DEF s, t, longer

LEMMA ScanQuote ==
  ASSUME NEW values \in Seq(Texts), NEW value \in Texts
  PROVE  Scan(ScanAt(values, value, FALSE, 0), Quote)
           = ScanAt(values, Append(value, Quote), TRUE, 0)
<1> DEFINE s == ScanAt(values, value, FALSE, 0)
           longer == Append(value, Quote)
           t == ScanAt(values, longer, TRUE, 0)
<1>1. Quote \in Characters /\ longer \in Texts
  BY AppendProperties DEF Texts, Characters
<1>2. /\ s \in Scans /\ s.values = values /\ s.value = value
      /\ s.quoted = FALSE /\ s.depth = 0
  BY DEF ScanAt, Scans
<1> HIDE DEF longer
<1>3. /\ t \in Scans /\ t.values = values /\ t.value = longer
      /\ t.quoted = TRUE /\ t.depth = 0
  BY <1>1 DEF ScanAt, Scans
<1> HIDE DEF s, t
<1>4. Depth(s, Quote) = 0 /\ (Quote = "," => Inside(s)) /\ (s.quoted # (Quote = Quote)) = TRUE
  <2>1. Depth(s, Quote) = 0
    BY <1>2 DEF Depth, Quote
  <2>2. Quote = "," => Inside(s)
    BY <1>2 DEF Inside, Quote
  <2>3. (s.quoted # (Quote = Quote)) = TRUE
    BY <1>2 DEF Quote
  <2>4. QED
    BY <2>1, <2>2, <2>3
<1>5. /\ Scan(s, Quote) \in Scans
      /\ Scan(s, Quote).values = values /\ Scan(s, Quote).value = longer
      /\ Scan(s, Quote).quoted = TRUE /\ Scan(s, Quote).depth = 0
  BY <1>1, <1>2, <1>4, ScanFields DEF longer
<1>6. Scan(s, Quote) = t
  BY <1>3, <1>5, SameScan
<1>7. QED
  BY <1>6 DEF s, t, longer

LEMMA ScanUnquote ==
  ASSUME NEW values \in Seq(Texts), NEW value \in Texts
  PROVE  Scan(ScanAt(values, value, TRUE, 0), Quote)
           = ScanAt(values, Append(value, Quote), FALSE, 0)
<1> DEFINE s == ScanAt(values, value, TRUE, 0)
           longer == Append(value, Quote)
           t == ScanAt(values, longer, FALSE, 0)
<1>1. Quote \in Characters /\ longer \in Texts
  BY AppendProperties DEF Texts, Characters
<1>2. /\ s \in Scans /\ s.values = values /\ s.value = value
      /\ s.quoted = TRUE /\ s.depth = 0
  BY DEF ScanAt, Scans
<1> HIDE DEF longer
<1>3. /\ t \in Scans /\ t.values = values /\ t.value = longer
      /\ t.quoted = FALSE /\ t.depth = 0
  BY <1>1 DEF ScanAt, Scans
<1> HIDE DEF s, t
<1>4. Depth(s, Quote) = 0 /\ (Quote = "," => Inside(s)) /\ (s.quoted # (Quote = Quote)) = FALSE
  <2>1. Depth(s, Quote) = 0
    BY <1>2 DEF Depth, Quote
  <2>2. Quote = "," => Inside(s)
    BY <1>2 DEF Inside, Quote
  <2>3. (s.quoted # (Quote = Quote)) = FALSE
    BY <1>2 DEF Quote
  <2>4. QED
    BY <2>1, <2>2, <2>3
<1>5. /\ Scan(s, Quote) \in Scans
      /\ Scan(s, Quote).values = values /\ Scan(s, Quote).value = longer
      /\ Scan(s, Quote).quoted = FALSE /\ Scan(s, Quote).depth = 0
  BY <1>1, <1>2, <1>4, ScanFields DEF longer
<1>6. Scan(s, Quote) = t
  BY <1>3, <1>5, SameScan
<1>7. QED
  BY <1>6 DEF s, t, longer

LEMMA ScanQuoted ==
  ASSUME NEW values \in Seq(Texts), NEW value \in Texts, NEW c \in {",", "<", ">"}
  PROVE  Scan(ScanAt(values, value, TRUE, 0), c)
           = ScanAt(values, Append(value, c), TRUE, 0)
<1> DEFINE s == ScanAt(values, value, TRUE, 0)
           longer == Append(value, c)
           t == ScanAt(values, longer, TRUE, 0)
<1>1. c \in Characters /\ longer \in Texts
  BY AppendProperties DEF Texts, Characters
<1>2. /\ s \in Scans /\ s.values = values /\ s.value = value
      /\ s.quoted = TRUE /\ s.depth = 0
  BY DEF ScanAt, Scans
<1> HIDE DEF longer
<1>3. /\ t \in Scans /\ t.values = values /\ t.value = longer
      /\ t.quoted = TRUE /\ t.depth = 0
  BY <1>1 DEF ScanAt, Scans
<1> HIDE DEF s, t
<1>4. Depth(s, c) = 0 /\ (c = "," => Inside(s)) /\ (s.quoted # (c = Quote)) = TRUE
  <2>1. Depth(s, c) = 0
    BY <1>2 DEF Depth, Quote
  <2>2. c = "," => Inside(s)
    BY <1>2 DEF Inside, Quote
  <2>3. (s.quoted # (c = Quote)) = TRUE
    BY <1>2 DEF Quote
  <2>4. QED
    BY <2>1, <2>2, <2>3
<1>5. /\ Scan(s, c) \in Scans
      /\ Scan(s, c).values = values /\ Scan(s, c).value = longer
      /\ Scan(s, c).quoted = TRUE /\ Scan(s, c).depth = 0
  BY <1>1, <1>2, <1>4, ScanFields DEF longer
<1>6. Scan(s, c) = t
  BY <1>3, <1>5, SameScan
<1>7. QED
  BY <1>6 DEF s, t, longer

(* A comma outside ends a value; a route adds one. *)
Scanned(text, values, value) == FoldLeft(Scan, Start, text) = ScanAt(values, value, FALSE, 0)

LEMMA Single ==
  ASSUME NEW S, NEW a \in S
  PROVE  <<a>> \in Seq(S)
OBVIOUS

LEMMA Five ==
  ASSUME NEW S, NEW a \in S, NEW b \in S, NEW c \in S, NEW d \in S, NEW e \in S
  PROVE  <<a, b, c, d, e>> \in Seq(S)
OBVIOUS

LEMMA Seven ==
  ASSUME NEW S, NEW a \in S, NEW b \in S, NEW c \in S, NEW d \in S, NEW e \in S,
         NEW f \in S, NEW g \in S
  PROVE  <<a, b, c, d, e, f, g>> \in Seq(S)
OBVIOUS

LEMMA Joined ==
  ASSUME NEW text \in Texts, NEW more \in Texts
  PROVE  text \o more \in Texts
BY ConcatProperties DEF Texts

LEMMA CommaScanned ==
  ASSUME NEW text \in Texts, NEW values \in Seq(Texts), NEW value \in Texts,
         Scanned(text, values, value)
  PROVE  /\ text \o <<",">> \in Texts
         /\ Scanned(text \o <<",">>, Append(values, value), <<>>)
<1> DEFINE comma == <<",">>
<1>1. comma \in Texts /\ Len(comma) = 1 /\ comma[1] = ","
  <2>1. "," \in Characters
    BY DEF Characters
  <2>2. comma \in Texts
    BY <2>1, Single DEF Texts
  <2>3. QED
    BY <2>2
<1>2. PICK w : /\ w[0] = FoldLeft(Scan, Start, text)
               /\ \A k \in 1..Len(comma) : w[k] = Scan(w[k - 1], comma[k])
               /\ FoldLeft(Scan, Start, text \o comma) = w[Len(comma)]
  BY <1>1, ScanContinues
<1>3. w[1] = Scan(w[0], ",") /\ FoldLeft(Scan, Start, text \o comma) = w[1]
  <2> HIDE DEF comma
  <2>1. Len(comma) = 1
    BY <1>1
  <2>2. 1 \in 1..Len(comma) /\ 1 - 1 = 0
    BY <2>1
  <2>3. QED
    BY <1>1, <1>2, <2>2
<1>4. w[1] = ScanAt(Append(values, value), <<>>, FALSE, 0)
  BY <1>2, <1>3, ScanComma DEF Scanned
<1> HIDE DEF comma
<1>5. QED
  BY <1>1, <1>3, <1>4, Joined DEF Scanned, comma

(* The first k characters of a route. *)
Until(route, k) == SubSeq(route, 1, k)

LEMMA UntilGrows ==
  ASSUME NEW route \in Texts
  PROVE  /\ Until(route, 0) = <<>> /\ Until(route, Len(route)) = route
         /\ \A k \in 0..Len(route) : Until(route, k) \in Texts
         /\ \A k \in 1..Len(route) :
              Append(Until(route, k - 1), route[k]) = Until(route, k)
<1>1. route \in Seq(Characters) /\ Len(route) \in Nat
  BY LenProperties DEF Texts
<1>2. ASSUME NEW k \in 0..Len(route)
      PROVE  /\ Until(route, k) \in Seq(Characters) /\ Len(Until(route, k)) = k
             /\ \A i \in 1..k : Until(route, k)[i] = route[i]
  BY <1>1 DEF Until
<1>3. Until(route, 0) = <<>>
  BY <1>1 DEF Until
<1>4. Until(route, Len(route)) = route
  <2>1. Len(route) \in 0..Len(route)
    BY <1>1
  <2>2. QED
    BY <1>1, <1>2, <2>1, SeqEqual
<1>5. ASSUME NEW k \in 1..Len(route)
      PROVE  Append(Until(route, k - 1), route[k]) = Until(route, k)
  <2> DEFINE u == Until(route, k - 1)
             v == Until(route, k)
             a == Append(u, route[k])
  <2>1. k - 1 \in 0..Len(route) /\ k \in 0..Len(route) /\ route[k] \in Characters
    BY <1>1, ElementOfSeq
  <2>2. /\ u \in Seq(Characters) /\ Len(u) = k - 1
        /\ \A i \in 1..(k - 1) : u[i] = route[i]
    BY <1>2, <2>1
  <2>3. /\ v \in Seq(Characters) /\ Len(v) = k
        /\ \A i \in 1..k : v[i] = route[i]
    BY <1>2, <2>1
  <2> HIDE DEF u, v
  <2>4. /\ a \in Seq(Characters) /\ Len(a) = (k - 1) + 1
        /\ \A i \in 1..(k - 1) : a[i] = u[i]
        /\ a[(k - 1) + 1] = route[k]
    BY <2>1, <2>2, AppendProperties
  <2> HIDE DEF a
  <2>5. Len(a) = Len(v) /\ \A i \in 1..Len(a) : a[i] = v[i]
    <3>1. (k - 1) + 1 = k /\ \A i \in 1..k : i \in 1..(k - 1) \/ i = k
      BY <2>1
    <3>2. QED
      BY <2>2, <2>3, <2>4, <3>1
  <2>6. a = v
    BY <2>3, <2>4, <2>5, SeqEqual
  <2>7. QED
    BY <2>6 DEF a, u, v
<1>6. QED
  BY <1>2, <1>3, <1>4, <1>5 DEF Texts

LEMMA PlainScanned ==
  ASSUME NEW text \in Texts, NEW values \in Seq(Texts), Scanned(text, values, <<>>)
  PROVE  /\ <<"x">> \in Texts /\ <<"x">> # <<>>
         /\ Scanned(text \o <<"x">>, values, <<"x">>)
<1> DEFINE route == <<"x">>
           p(k) == Until(route, k)
<1>1. "x" \in Characters
  BY DEF Characters
<1>2. route \in Texts
  BY <1>1, Single DEF Texts
<1>3. Len(route) = 1 /\ route # <<>>
  OBVIOUS
<1>4. route[1] = "x"
  OBVIOUS
<1> HIDE DEF route
<1>5. PICK w : /\ w[0] = FoldLeft(Scan, Start, text)
               /\ \A k \in 1..Len(route) : w[k] = Scan(w[k - 1], route[k])
               /\ FoldLeft(Scan, Start, text \o route) = w[Len(route)]
  BY <1>2, ScanContinues
<1>6. /\ p(0) = <<>> /\ p(1) = route
      /\ p(0) \in Texts /\ p(1) \in Texts
  <2>1. 0 \in 0..Len(route) /\ 1 \in 0..Len(route)
    BY <1>3
  <2>2. p(0) = <<>>
    BY <1>2, UntilGrows
  <2>3. p(1) = route
    BY <1>2, <1>3, UntilGrows
  <2>4. p(0) \in Texts /\ p(1) \in Texts
    BY <1>2, <2>1, UntilGrows
  <2>5. QED
    BY <2>2, <2>3, <2>4
<1>7. w[1] = Scan(w[0], "x") /\ Append(p(0), "x") = p(1)
  <2>1. 1 \in 1..Len(route) /\ 1 - 1 = 0
    BY <1>3
  <2>2. w[1] = Scan(w[0], route[1])
    BY <1>5, <2>1
  <2>3. Append(p(1 - 1), route[1]) = p(1)
    BY <1>2, <2>1, UntilGrows
  <2>4. QED
    BY <1>4, <2>1, <2>2, <2>3
<1> HIDE DEF p
<1>8. w[0] = ScanAt(values, p(0), FALSE, 0)
  BY <1>5, <1>6 DEF Scanned
<1>9. w[1] = ScanAt(values, p(1), FALSE, 0)
  BY <1>6, <1>7, <1>8, ScanOutside
<1>10. Scanned(text \o route, values, route)
  BY <1>3, <1>5, <1>6, <1>9 DEF Scanned
<1>11. QED
  BY <1>2, <1>3, <1>10 DEF route

LEMMA BracketedScanned ==
  ASSUME NEW text \in Texts, NEW values \in Seq(Texts), Scanned(text, values, <<>>)
  PROVE  /\ <<"<", "x", ",", "x", ">">> \in Texts /\ <<"<", "x", ",", "x", ">">> # <<>>
         /\ Scanned(text \o <<"<", "x", ",", "x", ">">>, values, <<"<", "x", ",", "x", ">">>)
<1> DEFINE route == <<"<", "x", ",", "x", ">">>
           p(k) == Until(route, k)
<1>1. "," \in Characters /\ "<" \in Characters /\ ">" \in Characters /\ "x" \in Characters
  BY DEF Characters
<1>2. route \in Texts
  BY <1>1, Five DEF Texts
<1>3. Len(route) = 5 /\ route # <<>>
  OBVIOUS
<1>4. route[1] = "<" /\ route[2] = "x" /\ route[3] = "," /\ route[4] = "x" /\ route[5] = ">"
  OBVIOUS
<1> HIDE DEF route
<1>5. PICK w : /\ w[0] = FoldLeft(Scan, Start, text)
               /\ \A k \in 1..Len(route) : w[k] = Scan(w[k - 1], route[k])
               /\ FoldLeft(Scan, Start, text \o route) = w[Len(route)]
  BY <1>2, ScanContinues
<1>6. /\ p(0) = <<>> /\ p(5) = route
      /\ p(0) \in Texts /\ p(1) \in Texts /\ p(2) \in Texts /\ p(3) \in Texts /\ p(4) \in Texts /\ p(5) \in Texts
  <2>1. 0 \in 0..Len(route) /\ 1 \in 0..Len(route) /\ 2 \in 0..Len(route) /\ 3 \in 0..Len(route) /\ 4 \in 0..Len(route) /\ 5 \in 0..Len(route)
    BY <1>3
  <2>2. p(0) = <<>>
    BY <1>2, UntilGrows
  <2>3. p(5) = route
    BY <1>2, <1>3, UntilGrows
  <2>4. p(0) \in Texts /\ p(1) \in Texts /\ p(2) \in Texts /\ p(3) \in Texts /\ p(4) \in Texts /\ p(5) \in Texts
    BY <1>2, <2>1, UntilGrows
  <2>5. QED
    BY <2>2, <2>3, <2>4
<1>7. w[1] = Scan(w[0], "<") /\ Append(p(0), "<") = p(1)
  <2>1. 1 \in 1..Len(route) /\ 1 - 1 = 0
    BY <1>3
  <2>2. QED
    BY <1>2, <1>4, <1>5, <2>1, UntilGrows
<1>8. w[2] = Scan(w[1], "x") /\ Append(p(1), "x") = p(2)
  <2>1. 2 \in 1..Len(route) /\ 2 - 1 = 1
    BY <1>3
  <2>2. QED
    BY <1>2, <1>4, <1>5, <2>1, UntilGrows
<1>9. w[3] = Scan(w[2], ",") /\ Append(p(2), ",") = p(3)
  <2>1. 3 \in 1..Len(route) /\ 3 - 1 = 2
    BY <1>3
  <2>2. QED
    BY <1>2, <1>4, <1>5, <2>1, UntilGrows
<1>10. w[4] = Scan(w[3], "x") /\ Append(p(3), "x") = p(4)
  <2>1. 4 \in 1..Len(route) /\ 4 - 1 = 3
    BY <1>3
  <2>2. QED
    BY <1>2, <1>4, <1>5, <2>1, UntilGrows
<1>11. w[5] = Scan(w[4], ">") /\ Append(p(4), ">") = p(5)
  <2>1. 5 \in 1..Len(route) /\ 5 - 1 = 4
    BY <1>3
  <2>2. QED
    BY <1>2, <1>4, <1>5, <2>1, UntilGrows
<1> HIDE DEF p
<1>12. w[0] = ScanAt(values, p(0), FALSE, 0)
  BY <1>5, <1>6 DEF Scanned
<1>13. w[1] = ScanAt(values, p(1), FALSE, 1)
  BY <1>6, <1>7, <1>12, ScanOpens
<1>14. w[2] = ScanAt(values, p(2), FALSE, 1)
  BY <1>6, <1>8, <1>13, ScanInside
<1>15. w[3] = ScanAt(values, p(3), FALSE, 1)
  BY <1>6, <1>9, <1>14, ScanInside
<1>16. w[4] = ScanAt(values, p(4), FALSE, 1)
  BY <1>6, <1>10, <1>15, ScanInside
<1>17. w[5] = ScanAt(values, p(5), FALSE, 0)
  BY <1>6, <1>11, <1>16, ScanCloses
<1>18. Scanned(text \o route, values, route)
  BY <1>3, <1>5, <1>6, <1>17 DEF Scanned
<1>19. QED
  BY <1>2, <1>3, <1>18 DEF route

LEMMA NamedScanned ==
  ASSUME NEW text \in Texts, NEW values \in Seq(Texts), Scanned(text, values, <<>>)
  PROVE  /\ <<Quote, ",", "<", Quote, "<", "x", ">">> \in Texts /\ <<Quote, ",", "<", Quote, "<", "x", ">">> # <<>>
         /\ Scanned(text \o <<Quote, ",", "<", Quote, "<", "x", ">">>, values, <<Quote, ",", "<", Quote, "<", "x", ">">>)
<1> DEFINE route == <<Quote, ",", "<", Quote, "<", "x", ">">>
           p(k) == Until(route, k)
<1>1. "," \in Characters /\ "<" \in Characters /\ ">" \in Characters /\ "x" \in Characters /\ Quote \in Characters
  BY DEF Characters
<1>2. route \in Texts
  BY <1>1, Seven DEF Texts
<1>3. Len(route) = 7 /\ route # <<>>
  OBVIOUS
<1>4. route[1] = Quote /\ route[2] = "," /\ route[3] = "<" /\ route[4] = Quote /\ route[5] = "<" /\ route[6] = "x" /\ route[7] = ">"
  OBVIOUS
<1> HIDE DEF route
<1>5. PICK w : /\ w[0] = FoldLeft(Scan, Start, text)
               /\ \A k \in 1..Len(route) : w[k] = Scan(w[k - 1], route[k])
               /\ FoldLeft(Scan, Start, text \o route) = w[Len(route)]
  BY <1>2, ScanContinues
<1>6. /\ p(0) = <<>> /\ p(7) = route
      /\ p(0) \in Texts /\ p(1) \in Texts /\ p(2) \in Texts /\ p(3) \in Texts /\ p(4) \in Texts /\ p(5) \in Texts /\ p(6) \in Texts /\ p(7) \in Texts
  <2>1. 0 \in 0..Len(route) /\ 1 \in 0..Len(route) /\ 2 \in 0..Len(route) /\ 3 \in 0..Len(route) /\ 4 \in 0..Len(route) /\ 5 \in 0..Len(route) /\ 6 \in 0..Len(route) /\ 7 \in 0..Len(route)
    BY <1>3
  <2>2. p(0) = <<>>
    BY <1>2, UntilGrows
  <2>3. p(7) = route
    BY <1>2, <1>3, UntilGrows
  <2>4. p(0) \in Texts /\ p(1) \in Texts /\ p(2) \in Texts /\ p(3) \in Texts /\ p(4) \in Texts /\ p(5) \in Texts /\ p(6) \in Texts /\ p(7) \in Texts
    BY <1>2, <2>1, UntilGrows
  <2>5. QED
    BY <2>2, <2>3, <2>4
<1>7. w[1] = Scan(w[0], Quote) /\ Append(p(0), Quote) = p(1)
  <2>1. 1 \in 1..Len(route) /\ 1 - 1 = 0
    BY <1>3
  <2>2. QED
    BY <1>2, <1>4, <1>5, <2>1, UntilGrows
<1>8. w[2] = Scan(w[1], ",") /\ Append(p(1), ",") = p(2)
  <2>1. 2 \in 1..Len(route) /\ 2 - 1 = 1
    BY <1>3
  <2>2. QED
    BY <1>2, <1>4, <1>5, <2>1, UntilGrows
<1>9. w[3] = Scan(w[2], "<") /\ Append(p(2), "<") = p(3)
  <2>1. 3 \in 1..Len(route) /\ 3 - 1 = 2
    BY <1>3
  <2>2. QED
    BY <1>2, <1>4, <1>5, <2>1, UntilGrows
<1>10. w[4] = Scan(w[3], Quote) /\ Append(p(3), Quote) = p(4)
  <2>1. 4 \in 1..Len(route) /\ 4 - 1 = 3
    BY <1>3
  <2>2. QED
    BY <1>2, <1>4, <1>5, <2>1, UntilGrows
<1>11. w[5] = Scan(w[4], "<") /\ Append(p(4), "<") = p(5)
  <2>1. 5 \in 1..Len(route) /\ 5 - 1 = 4
    BY <1>3
  <2>2. QED
    BY <1>2, <1>4, <1>5, <2>1, UntilGrows
<1>12. w[6] = Scan(w[5], "x") /\ Append(p(5), "x") = p(6)
  <2>1. 6 \in 1..Len(route) /\ 6 - 1 = 5
    BY <1>3
  <2>2. QED
    BY <1>2, <1>4, <1>5, <2>1, UntilGrows
<1>13. w[7] = Scan(w[6], ">") /\ Append(p(6), ">") = p(7)
  <2>1. 7 \in 1..Len(route) /\ 7 - 1 = 6
    BY <1>3
  <2>2. QED
    BY <1>2, <1>4, <1>5, <2>1, UntilGrows
<1> HIDE DEF p
<1>14. w[0] = ScanAt(values, p(0), FALSE, 0)
  BY <1>5, <1>6 DEF Scanned
<1>15. w[1] = ScanAt(values, p(1), TRUE, 0)
  BY <1>6, <1>7, <1>14, ScanQuote
<1>16. w[2] = ScanAt(values, p(2), TRUE, 0)
  BY <1>6, <1>8, <1>15, ScanQuoted
<1>17. w[3] = ScanAt(values, p(3), TRUE, 0)
  BY <1>6, <1>9, <1>16, ScanQuoted
<1>18. w[4] = ScanAt(values, p(4), FALSE, 0)
  BY <1>6, <1>10, <1>17, ScanUnquote
<1>19. w[5] = ScanAt(values, p(5), FALSE, 1)
  BY <1>6, <1>11, <1>18, ScanOpens
<1>20. w[6] = ScanAt(values, p(6), FALSE, 1)
  BY <1>6, <1>12, <1>19, ScanInside
<1>21. w[7] = ScanAt(values, p(7), FALSE, 0)
  BY <1>6, <1>13, <1>20, ScanCloses
<1>22. Scanned(text \o route, values, route)
  BY <1>3, <1>5, <1>6, <1>21 DEF Scanned
<1>23. QED
  BY <1>2, <1>3, <1>22 DEF route

LEMMA QuotedScanned ==
  ASSUME NEW text \in Texts, NEW values \in Seq(Texts), Scanned(text, values, <<>>)
  PROVE  /\ <<Quote, ">", ",", Quote, "<", "x", ">">> \in Texts /\ <<Quote, ">", ",", Quote, "<", "x", ">">> # <<>>
         /\ Scanned(text \o <<Quote, ">", ",", Quote, "<", "x", ">">>, values, <<Quote, ">", ",", Quote, "<", "x", ">">>)
<1> DEFINE route == <<Quote, ">", ",", Quote, "<", "x", ">">>
           p(k) == Until(route, k)
<1>1. "," \in Characters /\ "<" \in Characters /\ ">" \in Characters /\ "x" \in Characters /\ Quote \in Characters
  BY DEF Characters
<1>2. route \in Texts
  BY <1>1, Seven DEF Texts
<1>3. Len(route) = 7 /\ route # <<>>
  OBVIOUS
<1>4. route[1] = Quote /\ route[2] = ">" /\ route[3] = "," /\ route[4] = Quote /\ route[5] = "<" /\ route[6] = "x" /\ route[7] = ">"
  OBVIOUS
<1> HIDE DEF route
<1>5. PICK w : /\ w[0] = FoldLeft(Scan, Start, text)
               /\ \A k \in 1..Len(route) : w[k] = Scan(w[k - 1], route[k])
               /\ FoldLeft(Scan, Start, text \o route) = w[Len(route)]
  BY <1>2, ScanContinues
<1>6. /\ p(0) = <<>> /\ p(7) = route
      /\ p(0) \in Texts /\ p(1) \in Texts /\ p(2) \in Texts /\ p(3) \in Texts /\ p(4) \in Texts /\ p(5) \in Texts /\ p(6) \in Texts /\ p(7) \in Texts
  <2>1. 0 \in 0..Len(route) /\ 1 \in 0..Len(route) /\ 2 \in 0..Len(route) /\ 3 \in 0..Len(route) /\ 4 \in 0..Len(route) /\ 5 \in 0..Len(route) /\ 6 \in 0..Len(route) /\ 7 \in 0..Len(route)
    BY <1>3
  <2>2. p(0) = <<>>
    BY <1>2, UntilGrows
  <2>3. p(7) = route
    BY <1>2, <1>3, UntilGrows
  <2>4. p(0) \in Texts /\ p(1) \in Texts /\ p(2) \in Texts /\ p(3) \in Texts /\ p(4) \in Texts /\ p(5) \in Texts /\ p(6) \in Texts /\ p(7) \in Texts
    BY <1>2, <2>1, UntilGrows
  <2>5. QED
    BY <2>2, <2>3, <2>4
<1>7. w[1] = Scan(w[0], Quote) /\ Append(p(0), Quote) = p(1)
  <2>1. 1 \in 1..Len(route) /\ 1 - 1 = 0
    BY <1>3
  <2>2. QED
    BY <1>2, <1>4, <1>5, <2>1, UntilGrows
<1>8. w[2] = Scan(w[1], ">") /\ Append(p(1), ">") = p(2)
  <2>1. 2 \in 1..Len(route) /\ 2 - 1 = 1
    BY <1>3
  <2>2. QED
    BY <1>2, <1>4, <1>5, <2>1, UntilGrows
<1>9. w[3] = Scan(w[2], ",") /\ Append(p(2), ",") = p(3)
  <2>1. 3 \in 1..Len(route) /\ 3 - 1 = 2
    BY <1>3
  <2>2. QED
    BY <1>2, <1>4, <1>5, <2>1, UntilGrows
<1>10. w[4] = Scan(w[3], Quote) /\ Append(p(3), Quote) = p(4)
  <2>1. 4 \in 1..Len(route) /\ 4 - 1 = 3
    BY <1>3
  <2>2. QED
    BY <1>2, <1>4, <1>5, <2>1, UntilGrows
<1>11. w[5] = Scan(w[4], "<") /\ Append(p(4), "<") = p(5)
  <2>1. 5 \in 1..Len(route) /\ 5 - 1 = 4
    BY <1>3
  <2>2. QED
    BY <1>2, <1>4, <1>5, <2>1, UntilGrows
<1>12. w[6] = Scan(w[5], "x") /\ Append(p(5), "x") = p(6)
  <2>1. 6 \in 1..Len(route) /\ 6 - 1 = 5
    BY <1>3
  <2>2. QED
    BY <1>2, <1>4, <1>5, <2>1, UntilGrows
<1>13. w[7] = Scan(w[6], ">") /\ Append(p(6), ">") = p(7)
  <2>1. 7 \in 1..Len(route) /\ 7 - 1 = 6
    BY <1>3
  <2>2. QED
    BY <1>2, <1>4, <1>5, <2>1, UntilGrows
<1> HIDE DEF p
<1>14. w[0] = ScanAt(values, p(0), FALSE, 0)
  BY <1>5, <1>6 DEF Scanned
<1>15. w[1] = ScanAt(values, p(1), TRUE, 0)
  BY <1>6, <1>7, <1>14, ScanQuote
<1>16. w[2] = ScanAt(values, p(2), TRUE, 0)
  BY <1>6, <1>8, <1>15, ScanQuoted
<1>17. w[3] = ScanAt(values, p(3), TRUE, 0)
  BY <1>6, <1>9, <1>16, ScanQuoted
<1>18. w[4] = ScanAt(values, p(4), FALSE, 0)
  BY <1>6, <1>10, <1>17, ScanUnquote
<1>19. w[5] = ScanAt(values, p(5), FALSE, 1)
  BY <1>6, <1>11, <1>18, ScanOpens
<1>20. w[6] = ScanAt(values, p(6), FALSE, 1)
  BY <1>6, <1>12, <1>19, ScanInside
<1>21. w[7] = ScanAt(values, p(7), FALSE, 0)
  BY <1>6, <1>13, <1>20, ScanCloses
<1>22. Scanned(text \o route, values, route)
  BY <1>3, <1>5, <1>6, <1>21 DEF Scanned
<1>23. QED
  BY <1>2, <1>3, <1>22 DEF route

LEMMA RouteScanned ==
  ASSUME NEW text \in Texts, NEW values \in Seq(Texts), Scanned(text, values, <<>>),
         NEW route \in Routes
  PROVE  /\ route \in Texts /\ route # <<>> /\ text \o route \in Texts
         /\ Scanned(text \o route, values, route)
<1>1. /\ route \in Texts /\ route # <<>>
      /\ Scanned(text \o route, values, route)
  BY PlainScanned, BracketedScanned, NamedScanned, QuotedScanned DEF Routes
<1>2. QED
  BY <1>1, Joined

(* What a header adds to the routes. *)
LEMMA RecordIs ==
  ASSUME NEW text \in Texts, NEW values \in Seq(Texts), NEW value \in Texts,
         Scanned(text, values, value), NEW routes \in Seq(Texts)
  PROVE  AddRecord(routes, text) = AddRoute(FoldLeft(AddRoute, routes, values), value)
<1> DEFINE s == ScanAt(values, value, FALSE, 0)
<1>1. s.values = values /\ s.value = value
  BY DEF ScanAt
<1> HIDE DEF s
<1>2. SplitHeaderValues(text) = Append(values, value)
  BY <1>1 DEF SplitHeaderValues, Scanned, s
<1>3. QED
  BY <1>2, ValueAdded DEF AddRecord

LEMMA RouteAdded ==
  ASSUME NEW routes \in Seq(Texts), NEW route \in Texts, route # <<>>
  PROVE  AddRoute(routes, route) = Append(routes, route)
BY DEF AddRoute

(* At the end of the header all quotes and brackets are closed.            *)
Outside(text) == \E values \in Seq(Texts), value \in Texts : Scanned(text, values, value)

LEMMA NewHeader ==
  ASSUME NEW route \in Routes, NEW routes \in Seq(Texts)
  PROVE  /\ route \in Texts /\ Outside(route)
         /\ AddRecord(routes, route) = Append(routes, route)
<1>1. <<>> \in Texts /\ <<>> \in Seq(Texts)
  BY EmptySeq DEF Texts
<1>2. Scanned(<<>>, <<>>, <<>>)
  BY NothingScanned DEF Scanned, Start, ScanAt
<1>3. /\ route \in Texts /\ route # <<>>
      /\ Scanned(<<>> \o route, <<>>, route)
  BY <1>1, <1>2, RouteScanned
<1>4. <<>> \o route = route
  BY <1>3, ConcatEmptySeq DEF Texts
<1>5. Scanned(route, <<>>, route)
  BY <1>3, <1>4
<1>6. AddRecord(routes, route) = AddRoute(FoldLeft(AddRoute, routes, <<>>), route)
  BY <1>1, <1>3, <1>5, RecordIs
<1>7. AddRecord(routes, route) = Append(routes, route)
  BY <1>3, <1>6, NoValue, RouteAdded
<1>8. QED
  BY <1>1, <1>3, <1>5, <1>7 DEF Outside

(* A route after a header that has been split off so far. *)
LEMMA RouteJoins ==
  ASSUME NEW text \in Texts, NEW values \in Seq(Texts), Scanned(text, values, <<>>),
         NEW route \in Routes, NEW routes \in Seq(Texts)
  PROVE  /\ text \o route \in Texts /\ Outside(text \o route)
         /\ AddRecord(routes, text \o route)
              = Append(FoldLeft(AddRoute, routes, values), route)
<1> DEFINE longer == text \o route
           added  == FoldLeft(AddRoute, routes, values)
<1>1. /\ route \in Texts /\ route # <<>> /\ longer \in Texts
      /\ Scanned(longer, values, route)
  BY RouteScanned
<1> HIDE DEF longer
<1>2. added \in Seq(Texts)
  BY ValuesTyped
<1>3. AddRecord(routes, longer) = AddRoute(added, route)
  BY <1>1, RecordIs
<1> HIDE DEF added
<1>4. AddRecord(routes, longer) = Append(added, route)
  BY <1>1, <1>2, <1>3, RouteAdded
<1>5. Outside(longer)
  BY <1>1 DEF Outside
<1>6. QED
  BY <1>1, <1>4, <1>5 DEF longer, added

LEMMA LongerHeader ==
  ASSUME NEW text \in Texts, Outside(text), NEW gap \in {<<>>, <<",">>},
         NEW route \in Routes, NEW routes \in Seq(Texts)
  PROVE  /\ text \o <<",">> \o gap \o route \in Texts
         /\ Outside(text \o <<",">> \o gap \o route)
         /\ AddRecord(routes, text \o <<",">> \o gap \o route)
              = Append(AddRecord(routes, text), route)
<1>1. PICK values \in Seq(Texts), value \in Texts : Scanned(text, values, value)
  BY DEF Outside
<1> DEFINE added == AddRecord(routes, text)
           ended == text \o <<",">>
           spaced == ended \o gap
           longer == spaced \o route
<1>2. added = AddRoute(FoldLeft(AddRoute, routes, values), value)
  BY <1>1, RecordIs
<1>3. added \in Seq(Texts)
  BY RecordTyped
<1>4. /\ ended \in Texts /\ Scanned(ended, Append(values, value), <<>>)
      /\ Append(values, value) \in Seq(Texts) /\ <<>> \in Texts
  BY <1>1, CommaScanned, AppendProperties, EmptySeq DEF Texts
<1>5. FoldLeft(AddRoute, routes, Append(values, value)) = added
  BY <1>2, ValueAdded
<1> HIDE DEF added, ended
<1>6. \E all \in Seq(Texts) : /\ Scanned(spaced, all, <<>>) /\ spaced \in Texts
                              /\ FoldLeft(AddRoute, routes, all) = added
  <2>1. CASE gap = <<>>
    <3>1. ended \o <<>> = ended
      BY <1>4, ConcatEmptySeq DEF Texts
    <3>2. spaced = ended
      BY <2>1, <3>1
    <3> HIDE DEF spaced
    <3>3. QED
      BY <1>4, <1>5, <3>2
  <2>2. CASE gap = <<",">>
    <3> DEFINE one == Append(values, value)
               all == Append(one, <<>>)
    <3>1. one \in Seq(Texts)
      BY <1>4
    <3>2. Scanned(ended, one, <<>>) /\ FoldLeft(AddRoute, routes, one) = added
      BY <1>4, <1>5
    <3> HIDE DEF one
    <3>3. /\ ended \o <<",">> \in Texts /\ Scanned(ended \o <<",">>, all, <<>>)
      BY <1>4, <3>1, <3>2, CommaScanned
    <3>4. all \in Seq(Texts)
      BY <1>4, <3>1, AppendProperties
    <3>5. FoldLeft(AddRoute, routes, all) = AddRoute(added, <<>>)
      BY <1>4, <3>1, <3>2, ValueAdded
    <3>6. AddRoute(added, <<>>) = added
      BY DEF AddRoute
    <3>7. spaced = ended \o <<",">>
      BY <2>2
    <3> HIDE DEF spaced, all
    <3>8. QED
      BY <3>3, <3>4, <3>5, <3>6, <3>7
  <2>3. QED
    BY <2>1, <2>2
<1>7. PICK all \in Seq(Texts) : /\ Scanned(spaced, all, <<>>) /\ spaced \in Texts
                                /\ FoldLeft(AddRoute, routes, all) = added
  BY <1>6
<1> HIDE DEF spaced
<1>8. /\ longer \in Texts /\ Outside(longer)
      /\ AddRecord(routes, longer) = Append(FoldLeft(AddRoute, routes, all), route)
  BY <1>7, RouteJoins
<1> HIDE DEF longer
<1>9. longer = text \o <<",">> \o gap \o route
  BY DEF longer, spaced, ended
<1>10. AddRecord(routes, longer) = Append(added, route)
  BY <1>7, <1>8
<1>11. QED
  BY <1>8, <1>9, <1>10 DEF added

(* The last header, of one more or after a change. *)
LEMMA LastAppended ==
  ASSUME NEW records \in Seq(Texts), NEW text \in Texts
  PROVE  LET longer == Append(records, text)
         IN  longer \in Seq(Texts) /\ longer[Len(longer)] = text
BY AppendProperties

LEMMA LastChanged ==
  ASSUME NEW records \in Seq(Texts), records # <<>>, NEW text \in Texts
  PROVE  LET n       == Len(records)
             changed == [records EXCEPT ![n] = text]
         IN  /\ records[n] \in Texts
             /\ changed \in Seq(Texts) /\ changed[Len(changed)] = text
<1> DEFINE n == Len(records)
           changed == [records EXCEPT ![n] = text]
<1>1. n \in Nat \ {0} /\ records \in [1..n -> Texts]
  BY LenProperties, EmptySeq
<1> HIDE DEF n
<1>2. n \in 1..n
  BY <1>1
<1>3. changed \in [1..n -> Texts] /\ changed[n] = text /\ records[n] \in Texts
  BY <1>1, <1>2
<1> HIDE DEF changed
<1>4. changed \in Seq(Texts) /\ Len(changed) = n
  BY <1>1, <1>3, FunctionIsSeq
<1>5. QED
  BY <1>3, <1>4 DEF changed, n

(* The headers received give the routes, and the last one can go on: its     *)
(* quotation marks and brackets are closed.                                  *)
RouteInput == [of : {"routes"}, records : Seq(Texts), routes : Seq(Texts)]

RoutesInv ==
  /\ HasKind
  /\ input.of = "routes" =>
       /\ input \in RouteInput
       /\ RouteSet(input.records) = input.routes
       /\ input.records # <<>> => Outside(input.records[Len(input.records)])

LEMMA RoutesFirst ==
  ASSUME Init PROVE RoutesInv
<1>1. HasKind
  BY KindFirst
<1>2. SUFFICES ASSUME input.of = "routes"
               PROVE  /\ input \in RouteInput
                      /\ RouteSet(input.records) = input.routes
                      /\ input.records = <<>>
  BY <1>1 DEF RoutesInv
<1>3. input = [of |-> "routes", records |-> <<>>, routes |-> <<>>]
  BY <1>2 DEF Init, Recordings
<1>4. input.records = <<>> /\ input.routes = <<>>
  BY <1>3
<1>5. <<>> \in Seq(Texts) /\ Len(<<>>) = 0
  BY EmptySeq
<1>6. RouteSet(<<>>) = <<>>
  <2>1. PICK v : /\ IsRun(v, 0, Seq(Texts), <<>>, Collector(<<>>))
                 /\ FoldLeft(AddRecord, <<>>, <<>>) = v[0]
    BY <1>5, CollectRuns
  <2>2. QED
    BY <2>1 DEF IsRun, RouteSet
<1>7. input \in RouteInput
  BY <1>3, <1>5 DEF RouteInput
<1>8. QED
  BY <1>4, <1>6, <1>7

LEMMA RoutesStep ==
  ASSUME RoutesInv, [Next]_input PROVE RoutesInv'
<1>1. HasKind' /\ input'.of = input.of
  BY KindKept DEF RoutesInv
<1>2. SUFFICES ASSUME input.of = "routes"
               PROVE  /\ input' \in RouteInput
                      /\ RouteSet(input'.records) = input'.routes
                      /\ input'.records # <<>> => Outside(input'.records[Len(input'.records)])
  BY <1>1 DEF RoutesInv
<1> DEFINE old == input.records
           routes == input.routes
           n == Len(old)
<1>3. /\ input \in RouteInput /\ RouteSet(old) = routes
      /\ old # <<>> => Outside(old[n])
  BY <1>2 DEF RoutesInv
<1>4. old \in Seq(Texts) /\ routes \in Seq(Texts)
  BY <1>3 DEF RouteInput
<1>5. CASE UNCHANGED input
  BY <1>3, <1>5
<1>6. CASE NextRoute
  <2>1. PICK route, records :
          /\ route \in Routes
          /\ \/ records = Append(old, route)
             \/ /\ old # <<>>
                /\ \E gap \in {<<>>, <<",">>} :
                     records = [old EXCEPT ![n] = @ \o <<",">> \o gap \o route]
          /\ input' = [input EXCEPT !.records = records, !.routes = Append(@, route)]
    BY <1>6 DEF NextRoute
  <2> route \in Routes
    BY <2>1
  <2> DEFINE more == Append(routes, route)
  <2>2. SUFFICES /\ records \in Seq(Texts) /\ more \in Seq(Texts)
                 /\ RouteSet(records) = more /\ Outside(records[Len(records)])
    <3> SUFFICES ASSUME records \in Seq(Texts), more \in Seq(Texts),
                        RouteSet(records) = more, Outside(records[Len(records)])
                 PROVE  /\ input' \in RouteInput
                        /\ RouteSet(input'.records) = input'.routes
                        /\ input'.records # <<>> =>
                             Outside(input'.records[Len(input'.records)])
      OBVIOUS
    <3>1. input' = [input EXCEPT !.records = records, !.routes = more]
      BY <2>1
    <3> HIDE DEF more
    <3>2. input' \in RouteInput /\ input'.records = records /\ input'.routes = more
      BY <1>3, <3>1 DEF RouteInput
    <3>3. QED
      BY <3>2
  <2> HIDE DEF old, routes, n
  <2>3. route \in Texts /\ Outside(route)
    BY <1>4, NewHeader
  <2>4. more \in Seq(Texts)
    BY <1>4, <2>3, AppendProperties
  <2>5. CASE records = Append(old, route)
    <3>1. records \in Seq(Texts) /\ records[Len(records)] = route
      BY <1>4, <2>3, <2>5, LastAppended
    <3>2. RouteSet(records) = AddRecord(routes, route)
      BY <1>3, <1>4, <2>3, <2>5, HeaderAdded
    <3>3. RouteSet(records) = more
      BY <1>4, <3>2, NewHeader
    <3>4. QED
      BY <2>3, <2>4, <3>1, <3>3
  <2>6. ASSUME old # <<>>, NEW gap \in {<<>>, <<",">>},
               records = [old EXCEPT ![n] = @ \o <<",">> \o gap \o route]
        PROVE  /\ records \in Seq(Texts) /\ more \in Seq(Texts)
               /\ RouteSet(records) = more /\ Outside(records[Len(records)])
    <3> DEFINE last == old[n]
               longer == last \o <<",">> \o gap \o route
    <3>1. n = Len(old) /\ last \in Texts
      BY <1>4, <2>3, <2>6, LastChanged DEF n
    <3>2. records = [old EXCEPT ![n] = longer]
      BY <2>6
    <3>3. PICK before \in Seq(Texts) :
            /\ RouteSet(old) = AddRecord(before, last)
            /\ \A text \in Texts :
                 RouteSet([old EXCEPT ![n] = text]) = AddRecord(before, text)
      BY <1>4, <2>6, <3>1, HeaderChanged
    <3>4. Outside(last)
      BY <1>3, <2>6
    <3> HIDE DEF last
    <3>5. /\ longer \in Texts /\ Outside(longer)
          /\ AddRecord(before, longer) = Append(AddRecord(before, last), route)
      BY <3>1, <3>4, LongerHeader
    <3> HIDE DEF longer
    <3>6. RouteSet(records) = more
      BY <1>3, <3>2, <3>3, <3>5
    <3>7. records \in Seq(Texts) /\ records[Len(records)] = longer
      <4>1. old # <<>> /\ records = [old EXCEPT ![Len(old)] = longer]
        BY <2>6, <3>1, <3>2
      <4>2. QED
        BY <1>4, <3>5, <4>1, LastChanged
    <3>8. QED
      BY <2>4, <3>5, <3>6, <3>7
  <2>7. QED
    BY <2>1, <2>5, <2>6
<1>7. QED
  BY <1>2, <1>5, <1>6 DEF Next, NextSample, NextByte, NextChunk, CutFile, NextLine,
                          NextSpeech, NextSetting

(* routeSet: however many headers and values the proxies make of their      *)
(* routes, with commas, brackets and quotation marks in them and empty      *)
(* values between them, the dialog has every route, in the order received.  *)
THEOREM RoutesAreKept == Spec => []RoutesKept
<1>1. Init => RoutesInv
  BY RoutesFirst
<1>2. RoutesInv /\ [Next]_input => RoutesInv'
  BY RoutesStep
<1>3. RoutesInv => RoutesKept
  BY DEF RoutesInv, RoutesKept
<1>4. QED
  BY <1>1, <1>2, <1>3, PTL DEF Spec

=============================================================================
