------------------------------ MODULE PipelineHandlers ------------------------------
(***************************************************************************)
(* The request handlers on pipelines with logic of their own: the Jenkins  *)
(* client's ListPipelineRuns with its local paging (RunPaging) and         *)
(* CheckCron (CronCheck) of src/pkg/client/devops/jenkins/pipeline.go, the *)
(* SVN source conversions of the job XML (SvnSourceXml, internal/svn.go),  *)
(* the PipelineRun list handler's transformer and comparator              *)
(* (ListHandler, kapis/devops/v1alpha3/pipelinerun/listhandler.go), the   *)
(* two-request list handler ListPipelines (PipelineListing), the helpers  *)
(* of the pipeline API types (PipelineTypes,                              *)
(* api/devops/v1alpha3/pipeline_types.go), and the checks                 *)
(* CheckPipelineName and CheckScriptCompile (PipelineChecks).              *)
(*                                                                         *)
(* Every request is served on a value of its own (a Pipeline, an etree     *)
(* document): handlers share nothing but Jenkins, and a result depends     *)
(* only on its request and on Jenkins.  So the client is modelled serving  *)
(* one request at a time: a request to one handler finds the others idle,  *)
(* and the result of the last request is what the properties read.  Runs   *)
(* are added to Jenkins at any time, between and during requests, and     *)
(* pipelines are created and deleted while ListPipelines is served.  The   *)
(* list handler's requests, the type helpers' calls and the checks, whose *)
(* inputs are many, are served only when no other handler holds a result, *)
(* which leaves each of them reachable.                                    *)
(***************************************************************************)

CONSTANTS
  MaxRuns, FetchLimit, QueryInts, Junk, NoQuery, FetchError,  \* RunPaging
  Strs, Nil,                                                  \* SvnSourceXml
  Dates, Zones, ZoneTokens, NoDate, NoResponse,               \* CronCheck
  Names, Times, NoTime, Statuses, NilMap, NoStatus,           \* ListHandler
  MaxPipelines, CountLimit, Starts, Limits, NoResult, ListError, \* PipelineListing
  Chars, MaxOwner, MaxRepo,                                   \* PipelineTypes
  MaxAnswer, CheckError,                                      \* PipelineChecks
  Panic  \* model value: a handler panicked

VARIABLES
  runs, request, pagingResponse,  \* ListPipelineRuns and the runs in Jenkins
  kind, input, xml, output,       \* the SVN source conversions
  pc, response,                   \* CheckCron
  transformed, runSet, listed,    \* the PipelineRun list handler
  pipelines, step, caller, page, result,  \* ListPipelines
  pipeline, gitURL, gitlab, path, restored,  \* the API type helpers
  nameAnswer, nameResult, scriptAnswer, scriptResult  \* the checks

pagingVars == <<request, pagingResponse>>
svnVars == <<kind, input, xml, output>>
cronVars == <<pc, response>>
listVars == <<transformed, runSet, listed>>
listingVars == <<step, caller, page, result>>
typesVars == <<pipeline, gitURL, gitlab, path, restored>>
checksVars == <<nameAnswer, nameResult, scriptAnswer, scriptResult>>
vars == <<runs, pipelines, pagingVars, svnVars, cronVars, listVars, listingVars, typesVars,
          checksVars>>

Paging == INSTANCE RunPaging WITH response <- pagingResponse
Svn == INSTANCE SvnSourceXml
Cron == INSTANCE CronCheck
List == INSTANCE ListHandler
Listing == INSTANCE PipelineListing
Types == INSTANCE PipelineTypes
Checks == INSTANCE PipelineChecks

\* A handler with no request under way, as the specifications start.
PagingIdle ==
  /\ request' = [start |-> NoQuery, limit |-> NoQuery, runs |-> 0]
  /\ pagingResponse' = [total |-> 0, items |-> << >>]

SvnIdle ==
  /\ kind' = "svn" /\ input' = Nil /\ xml' = Svn!NewElement("source")
  /\ output' = Svn!GetSvnSourcefromEtree(xml')

CronIdle == pc' = "url" /\ response' = NoResponse

ListIdle == transformed' = NoStatus /\ runSet' = {} /\ listed' = << >>

ListingIdle ==
  /\ step' = "idle" /\ caller' = [start |-> 0, limit |-> CountLimit]
  /\ page' = 0 /\ result' = NoResult /\ pipelines' = 0

TypesIdle == Types!URLIdle /\ Types!PathIdle

ChecksIdle == Checks!NameIdle /\ Checks!ScriptIdle


\* CheckCron has no request under way.
CronFree == pc \in {"url", "done"}

\* Neither CheckCron nor ListPipelines has a request under way.
Free == CronFree /\ Listing!Free

\* A type helper holds a result.  The helpers read nothing of Jenkins, so
\* they are called with no runs in Jenkins, and none are added meanwhile.
TypesHold == pipeline /= Nil \/ gitlab /= Nil

\* A check holds a result.
ChecksHold == nameAnswer /= Nil \/ scriptAnswer /= Nil

\* No handler but the list handler holds a result.
OthersHold ==
  \/ request /= [start |-> NoQuery, limit |-> NoQuery, runs |-> 0]
  \/ pagingResponse /= [total |-> 0, items |-> << >>]
  \/ input /= Nil \/ kind /= "svn"
  \/ pc /= "url" \/ response /= NoResponse
  \/ step /= "idle"
  \/ TypesHold \/ ChecksHold

\* The list handler holds a result.
ListHolds == transformed /= NoStatus \/ runSet /= {} \/ listed /= << >>

Init ==
  /\ Paging!Init /\ Svn!Init /\ Cron!Init /\ List!Init /\ Listing!Init /\ Types!Init
  /\ Checks!Init

Next ==
  \/ ~TypesHold /\ ~ChecksHold /\ Paging!NewRun
     /\ UNCHANGED <<pipelines, svnVars, cronVars, listVars, listingVars, typesVars, checksVars>>
  \/ Listing!PipelineChange
     /\ UNCHANGED <<runs, pagingVars, svnVars, cronVars, listVars, typesVars, checksVars>>
  \/ /\ Free
     /\ \E qs, ql \in Paging!Queries : Paging!ListPipelineRuns(qs, ql)
     /\ SvnIdle /\ CronIdle /\ ListIdle /\ ListingIdle /\ TypesIdle /\ ChecksIdle
  \/ /\ Free
     /\ \/ \E s \in Svn!SvnSource \cup {Nil} : Svn!ConvertSvn(s)
        \/ \E s \in Svn!SingleSvnSource \cup {Nil} : Svn!ConvertSingleSvn(s)
     /\ PagingIdle /\ CronIdle /\ ListIdle /\ ListingIdle /\ TypesIdle /\ ChecksIdle
     /\ UNCHANGED runs
  \/ /\ Listing!Free
     /\ Cron!Next
     /\ PagingIdle /\ SvnIdle /\ ListIdle /\ ListingIdle /\ TypesIdle /\ ChecksIdle
     /\ UNCHANGED runs
  \/ /\ CronFree
     /\ \E q \in [start: Starts, limit: Limits] : Listing!Request(q)
     /\ PagingIdle /\ SvnIdle /\ CronIdle /\ ListIdle /\ TypesIdle /\ ChecksIdle
     /\ UNCHANGED runs
  \/ Listing!Step /\ UNCHANGED <<runs, pagingVars, svnVars, cronVars, listVars, typesVars, checksVars>>
  \/ /\ ~OthersHold
     /\ List!Next
     /\ UNCHANGED <<runs, pipelines, pagingVars, svnVars, cronVars, listingVars, typesVars,
                    checksVars>>
  \/ /\ ~OthersHold /\ ~ListHolds /\ runs = 0
     /\ Types!Next /\ ChecksIdle
     /\ UNCHANGED <<runs, pipelines, pagingVars, svnVars, cronVars, listVars, listingVars>>
  \/ /\ ~OthersHold /\ ~ListHolds /\ runs = 0
     /\ Checks!Next /\ TypesIdle
     /\ UNCHANGED <<runs, pipelines, pagingVars, svnVars, cronVars, listVars, listingVars>>

Spec == Init /\ [][Next]_vars

-----------------------------------------------------------------------------
(* Properties: those of the handlers, stated in their modules.             *)

TypeOK ==
  /\ Paging!TypeOK /\ Svn!TypeOK /\ Cron!TypeOK /\ List!TypeOK
  /\ Listing!TypeOK /\ Types!TypeOK /\ Checks!TypeOK

\* Inside the list, local paging returns exactly the window of runs asked
\* for (listPipelineRunsByLocalPaging's end index and slice).
PageIsWindow == Paging!PageIsWindow

\* The slice of listPipelineRunsByLocalPaging panics only on a negative
\* start or limit in the query, never because of the runs Jenkins holds.
PanicOnlyOnNegativeQuery == Paging!PanicOnlyOnNegativeQuery

\* The PipelineRun Comparator is a strict total order on runs with distinct
\* names ("the order result is stable forever").
OneOrder == List!OneOrder

\* Every field but ScmId of an SVN source survives the round trip through
\* the job XML (AppendSvnSourceToEtree / GetSvnSourcefromEtree and their
\* single-source counterparts).
RoundTrip == Svn!RoundTrip

\* CheckCron returns an error only with the internal-error result.
ErrorMeansInternalResult == Cron!ErrorMeansInternalResult

\* CheckCron's result "ok" carries the last and next run times of the
\* message (parseCronJobTime), in order.
OkCarriesMessageTimes == Cron!OkCarriesMessageTimes

\* SetRepoFromJenkinsProjectPath gives back the repository
\* GetJenkinsProjectPath wrote, for an owner in a subgroup too.
RepoSurvivesProjectPath == Types!RepoSurvivesProjectPath

=============================================================================
