\* Refuted: an event of a call that is over ends the next call.
SPECIFICATION Spec
CONSTANTS
  Calls = {o1, o2}
  Clients = {c1, c2}
  Nil = Nil
  Modes = {"microphone"}
  Outside = {"peer", "closed", "bye"}
  MaxByes = 1
  MaxUploads = 0
SYMMETRY Symmetry
PROPERTY StaleEventHarmless
