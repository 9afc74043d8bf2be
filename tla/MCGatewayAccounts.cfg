\* Two calls, two accounts: register, logout, keepalive and shutdown around them.
SPECIFICATION Spec
CONSTANTS
  Calls = {o1, o2}
  Clients = {c1, c2}
  Nil = Nil
  Modes = {"microphone"}
  Outside = {"bye", "loss", "account", "shutdown"}
  MaxByes = 1
  MaxUploads = 0
SYMMETRY Symmetry
INVARIANTS TypeOK OneSocket ActiveHasClient DialogViaSip
PROPERTIES ConnectedEndsWithBye AccountSpec
