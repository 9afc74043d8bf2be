\* Two calls: media, announcements and uploads across them.
SPECIFICATION Spec
CONSTANTS
  Calls = {o1, o2}
  Clients = {c1}
  Nil = Nil
  Modes = {"microphone", "file"}
  Outside = {"closed", "rtp"}
  MaxByes = 0
  MaxUploads = 2
SYMMETRY Symmetry
INVARIANTS IdleIsClean ReadyOnce AnnouncementOwnData
PROPERTY SymmetricWins
