\* Two calls under fairness: what a call and its goroutines must come to.
SPECIFICATION FairSpec
CONSTANTS
  Calls = {o1, o2}
  Clients = {c1}
  Nil = Nil
  Modes = {"file"}
  Outside = {"closed"}
  MaxByes = 0
  MaxUploads = 1
PROPERTIES ConnectingEnds AnnouncementEnds LateAnswerHungUp
