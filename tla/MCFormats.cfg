\* Every 16-bit sample, short recordings, small files, SDP answers, short speech
\* (counters of 2 and 5 bits), Record-Route headers, and settings.
SPECIFICATION Spec
CONSTANTS
  Addresses = {"session address", "media address"}
  Garbled = "no address"
  Rates = {4000, 6000, 8000, 12000, 16000}
  Bytes = {0, 127, 128, 255}
  MaxBytes = 5
  MaxChunks = 3
  PacketSize = 3
  SequenceLimit = 4
  TimestampLimit = 32
  MaxSpeech = 7
  MaxRoutes = 4
  Keys = {"RTP_PORT", "HTTP_ADDR"}
  Values = {"40000", "5066", "name"}
  Numbers = {"40000", "5066"}
  MaxLines = 3
INVARIANTS G711KeepsSound RecordingKept ChunksFound AnswerUnderstood SoundSent
           RoutesKept SettingsResolved
\* Every input has an end.
CHECK_DEADLOCK FALSE
