\* A paged search beside a call of any kind, room for one open stream; up to
\* two matches in pages of one over up to three streams, so that a search
\* crosses two page boundaries and meets short and empty pages.
CONSTANTS
  c1 = c1
  c2 = c2
  Calls = {c1, c2}
  Kinds <- PagedBesideAny
  Capacity = 1
  PageSize = 1
  MaxMatches = 2
  MaxStreams = 3

SPECIFICATION FairSpec

INVARIANTS
  EntriesExact
  StreamsReleased
  AnswerTruthful

PROPERTIES
  CallsEnd
