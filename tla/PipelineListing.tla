--------------------------- MODULE PipelineListing ---------------------------
(***************************************************************************)
(* ListPipelines of src/pkg/client/devops/jenkins/pipeline.go, which takes *)
(* a page and its total from two requests to Jenkins: first the page in   *)
(* the caller's query, then searchPipelineCount, which asks for everything *)
(* from 0 up to CountLimit (1000 in the code) on a copy of the query and   *)
(* counts it.  The pipelines in Jenkins change between the two requests.  *)
(* They are kept while a request is served: any number when it arrives,    *)
(* changing between its requests, and zero otherwise.  A pipeline is       *)
(* abstracted away: Jenkins's side is the number it holds, a page is the   *)
(* number of pipelines on it.  Every failure of a request or of the        *)
(* decoding of its answer returns an error; the messages are left out.     *)
(*                                                                         *)
(* The remote paging of runs (listPipelineRunsByRemotePaging with          *)
(* searchPipelineRunsCount and resetPaging) is not modelled: no code calls *)
(* it, ListPipelineRuns pages locally (RunPaging).                         *)
(***************************************************************************)
EXTENDS Integers

CONSTANTS
  MaxPipelines,  \* bound on the pipelines Jenkins holds
  CountLimit,    \* the limit of the count request (1000 in the code)
  Starts,        \* start values a caller may give
  Limits,        \* limit values a caller may give
  NoResult,      \* model value: the handler has not returned
  ListError      \* model value: the handler returned an error

Query == [start: Starts \cup {0}, limit: Limits \cup {CountLimit}]

VARIABLES
  pipelines,  \* the pipelines in Jenkins, while ListPipelines is served
  step,       \* "idle", "page", "count" or "done"
  caller,     \* the query the caller sent, on the Pipeline
  page,       \* the number of pipelines on the page Jenkins returned
  result      \* [total, items], ListError or NoResult

listingVars == <<step, caller, page, result>>
vars == <<pipelines, listingVars>>

-----------------------------------------------------------------------------
(* Jenkins.                                                                *)

\* BlueOcean's answer to a query on n items: those from start, at most
\* limit of them.
Served(n, q) == LET k == n - q.start IN
                IF k < 0 THEN 0 ELSE IF k < q.limit THEN k ELSE q.limit

\* A pipeline is created or deleted in Jenkins while ListPipelines is served.
PipelineChange ==
  /\ step \in {"page", "count"}
  /\ \/ pipelines < MaxPipelines /\ pipelines' = pipelines + 1
     \/ pipelines > 0 /\ pipelines' = pipelines - 1
  /\ UNCHANGED listingVars

-----------------------------------------------------------------------------
(* The code.                                                               *)

\* searchPipelineCount: a copy of the query with start 0 and limit 1000.
CountQuery(q) == [q EXCEPT !.start = 0, !.limit = CountLimit]

\* A ListPipelines request, on a new Pipeline.
Request(q) ==
  /\ step \in {"idle", "done"}
  /\ step' = "page" /\ caller' = q /\ page' = 0 /\ result' = NoResult
  /\ pipelines' \in 0 .. MaxPipelines

\* ListPipelines: SendPureRequestWithHeaderResp for the caller's page.
PipelinesPage ==
  /\ step = "page"
  /\ \/ page' = Served(pipelines, caller) /\ step' = "count" /\ UNCHANGED result
     \/ result' = ListError /\ step' = "done" /\ UNCHANGED page
  /\ UNCHANGED <<pipelines, caller>>

\* searchPipelineCount, then UnmarshalPipeline(count, res): the total is
\* the number of pipelines the count request returned.
PipelinesCount ==
  /\ step = "count"
  /\ \/ result' = [total |-> Served(pipelines, CountQuery(caller)), items |-> page]
     \/ result' = ListError
  /\ step' = "done"
  /\ UNCHANGED <<pipelines, caller, page>>

Step == PipelinesPage \/ PipelinesCount

\* No request is under way.
Free == step \in {"idle", "done"}

Init ==
  /\ pipelines = 0 /\ step = "idle"
  /\ caller = [start |-> 0, limit |-> CountLimit]
  /\ page = 0 /\ result = NoResult

Next ==
  \/ PipelineChange
  \/ \E q \in [start: Starts, limit: Limits] : Request(q)
  \/ Step

Spec == Init /\ [][Next]_vars

-----------------------------------------------------------------------------
(* Properties.                                                             *)

TypeOK ==
  /\ pipelines \in 0 .. MaxPipelines
  /\ step \in {"idle", "page", "count", "done"}
  /\ caller \in Query
  /\ page \in 0 .. CountLimit
  /\ \/ result \in {NoResult, ListError}
     \/ result \in [total: 0 .. CountLimit, items: 0 .. CountLimit]

=============================================================================
