\* Three rows at two times or without one, the queue of unreviewed alerts and of
\* all, a search over the newest two, pages of one row.
SPECIFICATION Spec
CONSTANTS
  MaxRows = 3
  MaxTime = 2
  CandidateLimit = 2
  PageLimit = 1
  Reviews = {"unreviewed", "agreed"}
  Filters = {"unreviewed", "any"}
  NoWindow = NoWindow
INVARIANTS
  QueueTypeOK
  NothingSkipped
  SearchFrozen
