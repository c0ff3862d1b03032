\* Local paging at the end of the list of runs.
CONSTANTS
  MaxRuns <- MCMaxRuns
  FetchLimit <- MCFetchLimit
  QueryInts <- MCQueryInts
  Junk = Junk
  NoQuery = NoQuery
  Panic = Panic
  FetchError = FetchError

SPECIFICATION Spec
INVARIANT PageMatchesComment
