\* A page and a trace that keeps the newest two of four entries.
SPECIFICATION Spec
CONSTANTS
  Calls = {"invite", "other"}
  NoCall = "none"
  Invites = {"invite"}
  Limit = 2
  PageLimit = 3
  MaxAdds = 4
  MaxReads = 2
INVARIANTS TypeOK TraceFollowed LatestIsNewest
