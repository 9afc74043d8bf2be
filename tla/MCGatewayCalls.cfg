\* Two calls: hangups, failing browser legs, remote hangups and trace changes
\* across them.
SPECIFICATION Spec
CONSTANTS
  Calls = {o1, o2}
  Clients = {c1}
  Nil = Nil
  Modes = {"microphone"}
  Outside = {"peer", "closed", "bye", "trace"}
  MaxByes = 1
  MaxUploads = 0
SYMMETRY Symmetry
INVARIANTS ConnectedComplete PublishedPeerOwned ContextFollowsCall CallIDIsOwn
PROPERTY AbsSpec
