\* Local paging against every query, the SVN round trip over every source
\* whose fields are empty or one value, and the cron check against every
\* outcome of its calls and every document with at most one div, over two
\* dates, the PipelineRun transformer on every kind of annotations and the
\* comparator on every run of three names and two times, one request at a
\* time.
CONSTANTS
  MaxRuns <- MCMaxRuns
  FetchLimit <- MCFetchLimit
  QueryInts <- MCQueryInts
  Junk = Junk
  NoQuery = NoQuery
  FetchError = FetchError
  Strs <- MCStrs
  Nil = Nil
  Dates = {d1, d2}
  Zones <- MCZones
  ZoneTokens <- MCZoneTokens
  NoDate = NoDate
  NoResponse = NoResponse
  Names <- MCNames
  Times <- MCTimes
  NoTime = NoTime
  Statuses = {s1}
  NilMap = NilMap
  NoStatus = NoStatus
  Panic = Panic
  MaxPipelines = 3
  CountLimit = 2
  Starts = {0, 1, 2}
  Limits = {1}
  NoResult = NoResult
  ListError = ListError
  Chars <- MCChars
  MaxOwner = 3
  MaxRepo = 2
  MaxAnswer = 5
  CheckError = CheckError

SPECIFICATION Spec
INVARIANT TypeOK
INVARIANT PageIsWindow
INVARIANT PanicOnlyOnNegativeQuery
INVARIANT RoundTrip
INVARIANT ErrorMeansInternalResult
INVARIANT OkCarriesMessageTimes
INVARIANT OneOrder
INVARIANT RepoSurvivesProjectPath
