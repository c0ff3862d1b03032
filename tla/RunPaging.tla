------------------------------ MODULE RunPaging ------------------------------
(***************************************************************************)
(* Local paging of pipeline runs (listPipelineRunsByLocalPaging in         *)
(* src/pkg/client/devops/jenkins/pipeline.go).  The handler reads start   *)
(* and limit from the query, asks Jenkins for every run (start 0, limit    *)
(* 10000), sets Total to the number returned and keeps the slice           *)
(* Items[start:end] of them.                                               *)
(*                                                                         *)
(* Runs are abstracted to their ids, newest first as Jenkins lists them;  *)
(* Jenkins gains runs over time.  A request's query values are strings:   *)
(* absent, not a number, or a decimal integer.  A Go slice expression      *)
(* with bounds outside 0 <= low <= high <= len panics, modelled as the     *)
(* result Panic.                                                           *)
(***************************************************************************)
EXTENDS Integers, Sequences

CONSTANTS
  MaxRuns,     \* bound on the runs Jenkins holds
  FetchLimit,  \* the limit of the request for all runs (10000 in the code)
  QueryInts,   \* integers a client may put in start or limit
  Junk,        \* model value: a query value that is not a number
  NoQuery,     \* model value: the query parameter is absent
  Panic,       \* model value: the handler panicked
  FetchError   \* model value: the request to Jenkins or its decoding failed

Queries == QueryInts \cup {Junk, NoQuery}

VARIABLES
  runs,      \* number of runs in Jenkins; run i is the i-th oldest
  request,   \* the last request: its start and limit query values and the
             \* number of runs Jenkins held when it was served
  response   \* its result: [total, items], Panic or FetchError

vars == <<runs, request, response>>

-----------------------------------------------------------------------------
(* The code.                                                               *)

\* strconv.Atoi with its error ignored: anything but an integer gives 0.
Atoi(q) == IF q \in Int THEN q ELSE 0

\* parsePaging: start and limit from the query.
ParsePaging(r) == [start |-> Atoi(r.start), limit |-> Atoi(r.limit)]

\* Mutant of FetchAll: the ids are counted off by one.
FetchAllOffByOne(n) ==
  LET k == IF n < FetchLimit THEN n ELSE FetchLimit IN
  [i \in 1 .. k |-> n - i]

\* The runs Jenkins returns for start 0 and limit FetchLimit: the newest
\* first, at most FetchLimit of them.
FetchAll(n) ==
  LET k == IF n < FetchLimit THEN n ELSE FetchLimit IN
  [i \in 1 .. k |-> n + 1 - i]

\* items[low:high] in Go.
GoSlice(items, low, high) ==
  IF 0 <= low /\ low <= high /\ high <= Len(items)
  THEN SubSeq(items, low + 1, high)
  ELSE Panic

\* Mutant of EndIndex: the end is not clamped to Total.
EndIndexUnclamped(total, start, limit) == start + limit

\* endIndex: start + limit, but no further than Total.
EndIndex(total, start, limit) ==
  IF start + limit < total THEN start + limit ELSE total

\* Mutant of LocalPaging: Total taken from the number of runs Jenkins
\* holds rather than from the runs it returned.
LocalPagingTotalFromCount(n, r) ==
  LET items == FetchAll(n)
      total == n
      p == ParsePaging(r)
      page == GoSlice(items, p.start, EndIndex(total, p.start, p.limit))
  IN
  IF p.start + 1 >= total THEN [total |-> total, items |-> items]
  ELSE IF page = Panic THEN Panic
  ELSE [total |-> total, items |-> page]

\* listPipelineRunsByLocalPaging: past the boundary test, the whole list is
\* returned; otherwise the slice from start to the end index.
LocalPaging(n, r) ==
  LET items == FetchAll(n)
      total == Len(items)
      p == ParsePaging(r)
      page == GoSlice(items, p.start, EndIndex(total, p.start, p.limit))
  IN
  IF p.start + 1 >= total THEN [total |-> total, items |-> items]
  ELSE IF page = Panic THEN Panic
  ELSE [total |-> total, items |-> page]

-----------------------------------------------------------------------------
(* Jenkins and the clients.                                                *)

Init ==
  /\ runs = 0
  /\ request = [start |-> NoQuery, limit |-> NoQuery, runs |-> 0]
  /\ response = [total |-> 0, items |-> << >>]

\* A pipeline run is started in Jenkins.
NewRun ==
  /\ runs < MaxRuns
  /\ runs' = runs + 1
  /\ UNCHANGED <<request, response>>

\* ListPipelineRuns, which pages locally.  SendPureRequest or the
\* decoding of its answer may fail, and the error is returned.
ListPipelineRuns(qs, ql) ==
  /\ request' = [start |-> qs, limit |-> ql, runs |-> runs]
  /\ \/ response' = LocalPaging(runs, request')
     \/ response' = FetchError
  /\ UNCHANGED runs

Next ==
  \/ NewRun
  \/ \E qs, ql \in Queries : ListPipelineRuns(qs, ql)

Spec == Init /\ [][Next]_vars

-----------------------------------------------------------------------------
(* Properties.                                                             *)

TypeOK ==
  /\ runs \in 0 .. MaxRuns
  /\ request \in [start: Queries, limit: Queries, runs: 0 .. MaxRuns]
  /\ \/ response \in {Panic, FetchError}
     \/ response \in [total: 0 .. MaxRuns, items: Seq(1 .. MaxRuns)]

\* The reference: drop the first k elements, take the first k elements.
RECURSIVE Drop(_, _)
Drop(s, k) == IF k <= 0 \/ s = << >> THEN s ELSE Drop(Tail(s), k - 1)

RECURSIVE Take(_, _)
Take(s, k) == IF k <= 0 \/ s = << >> THEN << >> ELSE <<Head(s)>> \o Take(Tail(s), k - 1)

\* The page the comments describe: the runs from position start (counted
\* from 0, newest first), at most limit of them, and none past the end
\* ("beyond the boundary, return an empty"); Total is the number of runs
\* returned by Jenkins.
ReferencePage(n, start, limit) ==
  [total |-> Len(FetchAll(n)), items |-> Take(Drop(FetchAll(n), start), limit)]

\* The last request gave start and limit as integers that are not negative,
\* and Jenkins answered it.
WellFormed ==
  /\ request.start \in Nat /\ request.limit \in Nat
  /\ response /= FetchError

\* Inside the list, local paging returns exactly the window of runs the
\* client asked for: the end index is clamped to Total, a zero limit gives
\* an empty page, and the slice never panics.
PageIsWindow ==
  (WellFormed /\ request.start + 1 < Len(FetchAll(request.runs)))
    => response = ReferencePage(request.runs, request.start, request.limit)

\* The slice Items[start:end] panics only on a query with a negative start
\* or limit (after Atoi): no number of runs in Jenkins, and no truncation of
\* the list at the fetch limit, makes a request with a start and limit that
\* are not negative panic the handler.
PanicOnlyOnNegativeQuery ==
  response = Panic =>
    \/ ParsePaging(request).start < 0
    \/ ParsePaging(request).limit < 0

\* Every well-formed request gets the page the comments describe, at the
\* boundary too: a start on the last run or past the end.
PageMatchesComment ==
  WellFormed => response = ReferencePage(request.runs, request.start, request.limit)

=============================================================================
