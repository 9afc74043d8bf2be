\* Refuted: a REGISTER answered by 100 Trying counts as refused.
SPECIFICATION Spec
CONSTANTS
  Dialogs = {d1}
  MaxRetries = 1
  InboxSize = 2
  MaxCSeq = 2
INVARIANT RefusalJustified
