\* Refuted: an answered leg with an unusable SDP is never ended.
SPECIFICATION Spec
CONSTANTS
  Calls = {o1}
  Clients = {c1}
  Nil = Nil
  Modes = {"microphone"}
  Outside = {"closed"}
  MaxByes = 0
  MaxUploads = 0
SYMMETRY Symmetry
INVARIANT LegReleased
