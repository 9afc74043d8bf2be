\* Two calls on one page, with a reload, after an earlier one; the history keeps two.
SPECIFICATION Spec
CONSTANTS
  Calls = {"c0", "c1", "c2"}
  Earlier = {"c0"}
  Nil = "none"
  HistoryLimit = 2
  MaxReloads = 1
INVARIANTS TypeOK HistoryComplete LockedDuringCall
PROPERTY EndShown
