\* Two Call-IDs at once on one socket: registrations and calls.
SPECIFICATION Spec
CONSTANTS
  Dialogs = {d1, d2}
  MaxRetries = 1
  InboxSize = 2
  MaxCSeq = 3
SYMMETRY Symmetry
INVARIANTS OwnAnswer SuccessJustified CancelledNeverEstablished LegAccounted
PROPERTY CSeqOrdered
