# TLA+ models of the ks-devops Jenkins controllers

This directory holds TLA+ models of the parts of `src/` that have concurrent or
distributed behaviour, and of the Jenkins client's algorithms: paging, parsing
and the XML conversion. It also holds the TLC configurations that check them.
`PROJECT.json` lists:

- every component, modelled or not;
- every run and mutant;
- the source lines behind each definition (`map`);
- the findings;
- the hazards the code is exposed to.

## The system

ks-devops keeps Kubernetes objects and a Jenkins server in step. Two informer
controllers do this, and both follow the same shape:

1. An **informer** watches the API server and keeps a local cache, the
   *lister*. The cache lags the server. Its Add, Update and Delete handlers
   call `enqueue`, which puts `namespace/name` on a queue. The Update handler
   drops an event whose resourceVersion did not change, so periodic resyncs
   never enqueue anything (`devopscredential_controller.go:109`).
2. A **rate-limiting work queue** (client-go) gives each key to one worker at a
   time. It redelivers a key that was added while it was being processed. A
   failure parks the key in the rate limiter until its backoff expires.
3. `Run` starts **N workers**. Each loops over `processNextWorkItem`, which
   does Get, then `syncHandler(key)`, then `AddRateLimited` or `Forget`,
   then `Done`.
4. **`syncHandler`** reads the object from the lister and deep-copies it. It
   then makes calls to Jenkins. Finally it writes the copy back with an
   optimistic-concurrency `Update`: a stale resourceVersion makes the write
   fail with a conflict.

The **DevOpsCredential controller** (`devopscredential_controller.go`) does the
following with a Secret of a DevOps type:

- It puts the Secret into the Jenkins project of its namespace. It skips the
  work when the data hash stored in an annotation is unchanged and the Secret
  is already synced.
- It adds a finalizer.
- It creates the credential in Jenkins. If the credential exists, it updates
  it only when auto-sync is on.
- On delete, it removes the credential from Jenkins before it removes the
  finalizer. A 404 from Jenkins counts as success.

The **DevOpsProject controller** (`devopsproject_controller.go`) does the
following for a DevOpsProject, with a namespace lister that has no event
handler of its own:

- It finds or creates the admin namespace.
- It creates a Jenkins folder for the project.
- On delete, it removes the folder.

The **agent labels reconciler** (`config/labels_controller.go`) is a
controller-runtime reconciler. It copies the Jenkins agent labels into one
ConfigMap, and asks to be requeued every five minutes, because Jenkins sends no
event when its labels change.

The **Jenkins client** (`pkg/client/devops/jenkins`) makes HTTP calls for the
API server's handlers. Each request gets a `Pipeline` value of its own, so
handlers share no state. Four parts of the client hold logic of their own:

- the folder helpers of `project.go`, which the DevOpsProject controller
  calls;
- `listPipelineRunsByLocalPaging`, which fetches every run and cuts the
  requested page locally;
- `CheckCron` with `parseCronJobTime`, which reads Jenkins's cron validation
  HTML and parses the dates out of its message;
- `internal/svn.go`, which writes an SVN source into a job's config XML and
  reads it back;
- `ListPipelines`, which takes a page and its total from two requests to
  Jenkins (`listPipelineRunsByRemotePaging` does the same for runs, but
  nothing calls it: `ListPipelineRuns` pages locally);
- `CheckPipelineName`, which reports a name as taken when Jenkins's answer
  matches the regular expression `>[^<]+<`, and `CheckScriptCompile`, which
  decodes Jenkins's answer as one result or, failing that, as a list and
  returns its first element. Neither has a caller under `src/`.

The pipeline API types (`api/devops/v1alpha3/pipeline_types.go`) carry two
helpers that compute: `GetGitURL` of a multi-branch pipeline, and the Gitlab
source's Jenkins project path with its inverse,
`SetRepoFromJenkinsProjectPath`.

The PipelineRun list handler (`kapis/devops/v1alpha3/pipelinerun/listhandler.go`)
sorts the PipelineRuns it lists with `Comparator`, and copies the Jenkins
status annotation onto each one with its transformer.

## Modules

| Module | Models | State | Actions |
|---|---|---|---|
| `WorkQueue` | client-go rate-limiting queue, as spec §4.1 describes it. It is not in `src/`, so its operators are marked `spec_modelled`. | `queue`, `dirty`, `processing`, `waiting`, `shuttingDown` | Action fragments the controllers instantiate: `Add`, `Get`, `Done`, `Finish` (AddRateLimited or Forget, then Done) and `BackoffExpires`. |
| `CredentialController` | The whole credential controller: informer, queue (an `INSTANCE` of `WorkQueue`), N workers, the full `syncHandler`, the API server and Jenkins. | `store` is the API server's Secrets, each with data, autoSync, synced, hash, finalizer, deleting and rv. `cache` is the lister. `ext` is the credentials in Jenkins. `writes` counts the users' writes to each Secret. Per worker: `wpc` (the program counter), `orig` and `copy` (the lister object and the DeepCopy), and `failed`. `faults` and `restarts` are budgets. | Users: `CreateSecret`, `EditSecret`, `DeleteSecret`; `DeleteSecret` sets the deletionTimestamp, or removes the Secret when it has no finalizer. Informer: `InformerDeliver` and `BackoffExpires`. Worker steps, one per call of `syncHandler` that changes state: `ProcessNextWorkItem`, `Sync` (lines 208–262: namespace check, lister read, hash short-circuit, finalizer on the copy), `ExtGet`, `ExtCreate`, `ExtUpdate`, `ExtDelete`, `Synced`, `Update` and `FinishWorkItem`. Crash: `Restart` loses the queue and the workers, and the informer relists. |
| `ProjectController` | The whole DevOpsProject controller: the project informer, the namespace informer (which has no handler), the queue, N workers, the full `syncHandler`, the API server with garbage collection of owned namespaces, and Jenkins folders. | `store`, `rv` and `cache` hold the projects. Each project has an admin namespace, synced, finalizer, deleting, uid and rv. `nsStore` and `nsCache` hold the namespaces, each with its label and owner uid. `folder` is the set of Jenkins folders. Per worker: `orig` (the lister's object), `copy`, and `nsCopy` (the namespace from the lister). | Users: `CreateProject`, `DeleteProject`, `ResetSyncStatus`, `TouchProject`, `EditNamespace`. Cluster: `InformerDeliver`, `NsInformerDeliver`, `GarbageCollect`, `BackoffExpires`. Workers: `Sync` (lines 203–226), `AdminNamespace` (227–294, lister reads), `ClearStatus` (232–242), `Relabel` (243–256), `CreateNs` (266–280), `ExtGet`, `ExtCreate` (302–310), `Update` (312–323), `ExtDelete` with `RemoveFinalizer` (325–352), `Unfinalize` (354), `FinishWorkItem`. `ExtGet`, `ExtCreate` and `ExtDelete` branch on the status code that `project.go`'s `GetDevOpsProject`, `CreateDevOpsProject` and `DeleteDevOpsProject` return. Crash: `Restart`. |
| `LabelsController` | The agent labels reconciler: the event filter on its one ConfigMap, `Reconcile` and controller-runtime's handling of its result. One worker, since `MaxConcurrentReconciles` is left at 1. | `store`, `rv` and `cache` hold the ConfigMap: its labels key, the rest of its data and its rv. `jenkins` holds the labels Jenkins reports. The queue comes from `WorkQueue`, with the single request `Req`. `pc` and `cm` are the worker's step and the ConfigMap it works on. | Environment: `CreateConfigMap`, `DeleteConfigMap`, `EditConfigMap`, `JenkinsChange`, `InformerDeliver`, `BackoffExpires`. Worker: `ProcessNextWorkItem`, `GetConfigMap` (NotFound is an error), `GetLabels` (with `SetLabelsToConfigMap`), `Update`. Every exit goes through `FinishReconcile`: both an error and success park the request in the delaying queue. |
| `RunPaging` | `ListPipelineRuns` and `listPipelineRunsByLocalPaging` with `parsePaging`. | `runs` (the number of runs in Jenkins), `request` (the query values and the runs when it was served), `response`. | `NewRun`, and `ListPipelineRuns` over every pair of query values, including absent and non-numeric ones. `Atoi` ignores its error. `GoSlice` panics outside `0 <= low <= high <= len`. A fetch may fail. |
| `CronCheck` | `CheckCron`, `interanlErrorMessage` and `parseCronJobTime`. | `pc` (the handler's step), `response`. | One action per step: `ParseURL`, `Do`, `ReadBody` (status 200, 400 or another), `ReadDocumentAndParse` (last div, a pre, the parse of an ok message), and `NewRequest`. A message part is abstracted to its date and its zone name, and the parse is modelled by token counts. |
| `SvnSourceXml` | The four conversions of `internal/svn.go`, over a model of etree elements: tag, attributes, text and children, with `SelectElement` returning the first child with a tag. | `kind`, `input`, `xml`, `output` | `ConvertSvn`, `ConvertSingleSvn`: encode a source (or nil) into a fresh `<source>`, then decode it. |
| `ListHandler` | The list handler's `Comparator` (start time, or creation time when the run has not started, newest first, ties broken by name) and the status transformer. A name is its rank in `strings.Compare` order. | `transformed` (the annotations after the transformer, or `Panic`), `runSet` and `listed` (the PipelineRuns of a list request and the order they were listed in) | `Transform` (annotation status kept, store lookup failed, nil map, status copied), `ListRuns` (the runs of a request in any order `sort.Slice` may produce with `Comparator`) |
| `PipelineListing` | `ListPipelines` with `searchPipelineCount`, which counts on a copy of the query. A pipeline is abstracted away: Jenkins's side is a number of pipelines, and a page is the number on it. | `pipelines`, `step`, `caller` (the caller's query), `page`, `result` | `Request`, then `PipelinesPage` and `PipelinesCount`. Each request may fail. `PipelineChange`: Jenkins gains or loses a pipeline between the two requests. |
| `PipelineTypes` | `GetGitURL`, `GetJenkinsProjectPath` and `SetRepoFromJenkinsProjectPath`, with `strings.Split` as a recursive operator. A name is a sequence of characters. A Gitlab owner may hold "/" (a subgroup); a repository name never does. | `pipeline` and `gitURL`; `gitlab`, `path` and `restored` | `GitURL(b)`, and `ProjectPathRoundTrip(s)`: the path of a source, read back into a source of the same owner |
| `PipelineChecks` | `CheckPipelineName` and `CheckScriptCompile`. The regular expression's search is a recursive scan (`Scan`). An answer of `CheckPipelineName` is a sequence over "<", ">" and "x" (any other character). An answer of `CheckScriptCompile` is its JSON shape. | `nameAnswer`, `nameResult`, `scriptAnswer`, `scriptResult` | `CheckPipelineName(a)` over every answer of up to five characters and the answers `checkJobName` gives; `CheckScriptCompile(a)` over an object, null, something else, and every list of up to two objects and nulls. Each request may fail. |
| `PipelineHandlers` | `RunPaging`, `SvnSourceXml`, `CronCheck`, `ListHandler`, `PipelineListing`, `PipelineTypes` and `PipelineChecks` composed by `INSTANCE`. The handlers share nothing but Jenkins's runs, and a result depends only on its request. So the model serves one request at a time: a request to one handler finds the others idle (`PagingIdle`, `SvnIdle`, `CronIdle`, `ListIdle`), (and `ListingIdle`, `TypesIdle`, `ChecksIdle`), which keeps the state space the sum of the handlers rather than their product. A list request, a type helper call and a check are served only when no other handler holds a result (`OthersHold`), because they have many more inputs than the others. The type helpers and the checks read nothing of Jenkins's runs, so they are called with no runs in Jenkins. Runs are added to Jenkins at any time, and pipelines while `ListPipelines` is served. | all seven modules' variables | all seven modules' actions |
| `QueueContract` | What the Change Queue promises, abstractly (spec §4.1): each key is idle, queued, processing, or processing and added again. Weak fairness on `Get` and `Done`. `CredentialController` maps its queue onto it (`QueueStatus`) and is checked to implement it. | `status` | `Add`, `Get`, `Done`, and `Crash`, which loses the queue |
| `MCCredentialController`, `MCProjectController`, `MCLabelsController`, `MCRunPaging`, `MCPipelineHandlers` | Constants for TLC. | | |

Each Jenkins call and the final `Update` either succeeds or fails. A failure
may happen before the call takes effect, or after it (a lost reply or a
timeout). Failures are bounded by `MaxFaults`. A failure returns an error, so
the key is retried through the rate limiter. Any Jenkins error from `Get`
leads to the create path, as the code does at line 273. The hash annotation is
modelled as `ComputeHash(data)`: what matters is whether it equals the hash of
the current data.

The DevOpsProject model makes these choices:

- **Namespace names are project names.** `generateNewNamespace` names the
  namespace after the project, and a user edit only deletes the namespace or
  removes its label.
- **Informer delivery follows the resourceVersion.** It fires only when the
  lister's resourceVersion differs from the store's, so an object changed in
  the lister's memory is not re-delivered.
- **The enqueue after clearing the status adds nothing.** At line 240
  `enqueueDevOpsProject(key)` is given a plain string, which
  `MetaNamespaceKeyFunc` rejects, so the model leaves the queue unchanged.
  The informer's Update event re-enqueues the project, and the convergence
  run shows that this is enough.
- **The `reflect.DeepEqual` test at line 317 is left out.** It is always
  false there: a project read with the successful annotation was skipped at
  line 217.
- **Deleting an empty admin namespace gets a 404.** `DeleteDevOpsProject`
  with no admin namespace names no folder, and Jenkins answers 404.

## Runs

| Run | Checks | Result |
|---|---|---|
| `credential` | `TypeOK`. `SingleFlight`: no two workers hold one Secret key at once, whatever the interleaving of Adds, Get, Done, backoff and a restart. `FinalizerReleasedOnlyWhenGone`: the finalizer is removed only when the Jenkins credential is gone. `WorkersKeepUserData`: no reconcile step changes the Secret's data, so a user edit is never overwritten by a stale copy. `DeletionCompletes`: a Secret marked for deletion is eventually removed, even after a Jenkins delete that took effect and still reported an error. `Converges`: once edits stop, every live Secret is eventually finalized, synced with the hash of its data, and present in Jenkins (that Jenkins then holds its data is `SyncedHashMeansPushed`, the next run). `QueueRefinesContract`: the controller's queue, seen through `QueueStatus`, implements `QueueContract`, fairness included: every queued key is handed out and every processed key is finished. | pass, about 108,000 states, 12 seconds |
| `credential_lost_update` | `SyncedHashMeansPushed` (spec §3 invariant 3): a live auto-sync Secret that is marked synced with the hash of its data has that data in Jenkins. | **violation**, see below |
| `credential_drift` | `DriftRepaired`: under `DriftSpec`, where a Jenkins credential may also be deleted out of band (`ExternalDrift`) and the informer may resync (`Resync`), a live Secret of an admin namespace whose credential has gone is eventually pushed to Jenkins again. | **violation**, see below |
| `credential_orphan` | `NoOrphanCredential`: no Jenkins credential outlives its Secret. | **violation**, see below |
| `project_safety` | `TypeOK`. `SyncedMeansProvisioned`: a live project marked successful records an admin namespace whose Jenkins folder exists. This holds across deletes and re-creations of the same name, stale listers, namespace edits, garbage collection, a fault and a crash. `FinalizerReleasedOnlyWhenGone`: the finalizer is removed only when the folder of the recorded admin namespace is gone. | pass, about 1.7M states, under a minute |
| `project_convergence` | `Converges`: once users stop, every live project is eventually finalized, synced, and has an admin namespace with a Jenkins folder. This holds with faults, a crash and the garbage collector. | pass, about 455,000 states, under a minute |
| `project_deletion_stuck` | `DeletionCompletes` for projects. | **violation**, see below |
| `project_orphan_folder` | `NoOrphanFolder`: no Jenkins folder outlives its project. | **violation**, see below |
| `project_admin_namespace` | `SyncedAdminNamespaceExists`: with no user edits of namespaces, the admin namespace a synced project records exists. | **violation**, see below |
| `labels_sync` | `TypeOK`. `ReconcilerKeepsOtherData`: a write by the reconciler changes only the labels key of the ConfigMap as it is now. It never brings back data another writer has changed since the cache was read, and never recreates a deleted ConfigMap. `LabelsEventuallySynced`: once Jenkins and the users stop, the ConfigMap, while it exists, ends up holding Jenkins's labels, with no event from Jenkins. | pass, about 100,000 states |
| `paging_boundary` | `PageMatchesComment`: the same for every well-formed request, at the boundary too. | **violation**, see below |
| `pipeline_handlers` | The client's and the list handler's handlers, one request at a time. `TypeOK`. `PageIsWindow`: for a start and limit that are not negative, with start inside the list, local paging returns exactly the runs from start, at most limit of them. The end is clamped to Total, a zero limit gives an empty page, and the page is compared with a recursive reference definition (`Drop`, `Take`). `PanicOnlyOnNegativeQuery`: local paging panics only when the parsed start or limit is negative, never for an absent, non-numeric or too large value. `RoundTrip`: every field of an SVN source but `ScmId` survives the trip through the job XML, for both kinds of source, with empty fields and a nil source. `ErrorMeansInternalResult`: `CheckCron` returns an error only with the internal-error result, never with a half-filled one. `OkCarriesMessageTimes`: a result "ok" carries the last and next run times of Jenkins's message, in that order. `OneOrder`: `Comparator` is a strict total order on the runs of one request, so `sort.Slice` (which is not stable) lists them in one order only, whatever their times. `RepoSurvivesProjectPath`: `SetRepoFromJenkinsProjectPath` gives back the repository that `GetJenkinsProjectPath` wrote, for an owner in a subgroup too. | pass, about 12,500 states, 40 seconds |

Every property of a passing run has a mutant in `PROJECT.json`. Each mutant is
a plausible bug in the code, and TLC finds it violating the property:

- `Add` queues a key that is being processed;
- the whole Secret sent to Jenkins on create, or Jenkins errors ignored on
  delete;
- 404 treated as failure on delete;
- an Update without the resourceVersion check;
- the DevOpsProject controller's "skip when synced" rule used for Secrets;
- a successful reconcile not requeued, or its `Done` missing;
- the end index not clamped, or the runs counted off by one;
- the SVN remote read from the single source's element;
- an error of `url.Parse` that does not return;
- the half-filled result returned with a parse error;
- the next time parsed from the first part of the message;
- local paging's total taken from the runs fetched rather than from Jenkins;
- the comparator without its tie-break on the name;
- the repository read as the second part of the project path.

### Finding: a conflict leaves stale data in Jenkins for good

`syncHandler` skips a Secret that is marked synced and whose data-hash
annotation equals the hash of its data (`devopscredential_controller.go:251`).
It trusts the hash to be that of the data Jenkins holds, as spec §3
invariant 3 says. But the hash is persisted only by the final `Update`
(line 314), after Jenkins has been written. TLC's trace:

1. A Secret is created with data A and synced; its hash is that of A.
2. A user edits it to B. A worker reads B from the lister.
3. The user edits it back to A before the worker's `Update`.
4. The worker pushes B to Jenkins. Its `Update` is refused with a conflict.
5. The retry finds the Secret synced with the hash of A, which is its
   data, and returns at line 251.

Jenkins keeps B for good, though auto-sync is on. TLC's shortest trace gets
the lister's stale B from a restart's relist; a watch event that arrives
before the second edit does the same.

### Finding: a failed finalizer update leaves a DevOpsProject terminating forever

The delete path removes the finalizer from `project`, the object the lister
returned, and not from `copyProject` (`devopsproject_controller.go:345`). Then:

1. The Update at line 354 fails and leaves the stored object unchanged, for
   example on a timeout or a 5xx error.
2. The lister's object has lost its finalizer, but the stored object still
   has it.
3. The resourceVersion did not change, so the watch delivers nothing.
   Periodic resyncs are dropped by the same-resourceVersion filter.
4. Each retry reads the cached object, finds no finalizer and returns nil.

The project stays terminating until the controller restarts.

### Finding: the Jenkins folder is created before the finalizer is persisted

This has the same shape as the credential finding below. The finalizer is
added to `copyProject` (line 224), the folder is created (line 305), and both
are persisted only at line 318. A project deleted in that window is removed
at once, and its folder stays in Jenkins.

### Finding: a re-created project can lose its admin namespace for good

The new namespace's owner reference comes from the lister's project
(`generateNewNamespace`, line 424, called at line 268). TLC's trace:

1. A project is deleted and created again under the same name.
2. The lister still holds the old incarnation. The new namespace gets the old
   project's UID as its owner, or the old project's labelled namespace is
   adopted at line 260.
3. The garbage collector deletes that namespace.
4. By then the new project is marked successful.
5. Line 217 skips it from then on, so the recovery at lines 232–241 never
   runs.

### Finding: the Jenkins credential is created before its finalizer is persisted

Spec §3 invariant 2 says the finalizer is added before the first create.
The code does not do that:

- it adds the finalizer to the in-memory copy (line 260);
- it creates the Jenkins credential (line 274);
- it persists the finalizer only in the final `Update` (line 314).

TLC finds this trace:

1. A user creates a Secret and deletes it at once. The Secret has no
   finalizer, so the API server removes it.
2. The lister still shows the Secret. A worker creates the credential in
   Jenkins.
3. The `Update` fails.
4. Every later reconcile finds no Secret and returns.

The credential stays in Jenkins for good. A conflict or a crash between lines
274 and 314, followed by a delete, leads to the same result.

### Finding: a credential deleted in Jenkins is not restored

Spec §4.2 says a periodic full-list enqueue picks up drift, where Jenkins no
longer holds what the Secret describes. The code does not do that:

- the Update handler drops resyncs, whose resourceVersion is unchanged
  (line 109);
- a relist after a restart does enqueue the Secret, but `syncHandler`
  returns early at line 251: the hash annotation matches the data and the
  Secret is marked synced, and Jenkins is not asked.

TLC's trace: a Secret is created and synced, its credential is deleted in
Jenkins, the controller restarts and relists, and the reconcile returns at
line 251. The credential stays missing until the Secret's data changes.
Spec §9 lists drift detection as an open question, so this may be a known
limit of the design.

### Finding: local paging returns every run at the end of the list

`listPipelineRunsByLocalPaging` returns the whole list when
`desiredStart+1 >= Total` (`pipeline.go:260`). Its comment there says "beyond
the boundary, return an empty". So a start on the last run gets every run
instead of that one run, and a start past the end gets every run instead of
none. TLC's shortest traces:

- one run, start 0 and limit 0, returns the run;
- three runs, start 2, return all three.

### Observed, and not asserted

The models reach more behaviours that no statement of the code or the
spec settles. `PROJECT.json` lists them as hazards:

- `parseCronJobTime` takes the six tokens before the last one of each part
  as the date. This is right only for a one-word zone name after the
  replacement of "Coordinated Universal Time" by "UTC". A Jenkins server in
  "China Standard Time" makes every valid cron check report an internal
  error.
- `CheckCron` panics on an ok message without ";".
- The list transformer panics on a PipelineRun with no annotations map when
  the store lookup succeeds (`listhandler.go:85`).
- `ListPipelines` takes its page and its total from two requests. A pipeline
  created or deleted between them makes the total disagree with the page.
  The count request asks for at most 1000 pipelines, so the total never
  exceeds 1000, though a later page can still be fetched.
- `CheckScriptCompile` panics on an empty list from Jenkins, and returns a
  nil result with a nil error for a list whose first element is null. It
  has no caller under `src/`, so nothing says what a caller needs.
- For a status other than 200 or 400, `CheckCron` returns the internal-error
  result with a nil error.

## Bounds

The DevOpsProject runs use one project, `p1`, and two workers:

- Projects share nothing but the workers, since each has its own namespace
  name and folder.
- `MaxRV=6` allows a create, the controller's update, a delete, the finalizer
  removal, a re-creation and its update.
- `MaxNsEdits=1` allows one namespace deletion or unlabelling. It is 0 in
  the convergence and admin-namespace runs.
- One fault and one crash are allowed.

For the credential controller:

Model values are used for keys, workers and data: `Keys={k1}` (a Secret
in an admin namespace), `Workers={w1,w2}` and `Data={d1,d2}`.

- `MaxWrites` bounds the users' writes to each Secret, apart from the
  controller's own updates, which the resourceVersion `rv` also counts.
  It is 3: a create and two edits (an edit and its undo, which is the lost
  update), or a create, an edit and a delete.
- `MaxFaults=1` allows one failed call, before or after its effect, in the
  runs that check the code's claims. The `credential` run allows two, so that
  a failed create and a failed update can both happen in one reconcile, or
  one fault in each of two, and liveness must survive both.
- `MaxRestarts=1` allows one crash.

Two workers are enough to race on the queue. Two data values make an edit
visible. Three writes let an edit land between a worker's read and its
update, and be undone. One fault covers each error path, since the fault can
happen at any step. Secrets share nothing but the queue and the workers, and
each key reconciles on its own, so one key is enough; a second key, outside
an admin namespace, only exercises the early return at line 223, and
without symmetry (liveness rules it out) it takes the run past 15 minutes.

The agent labels run uses two label lists and two values for the rest of
the ConfigMap's data:

- `MaxEdits=3` allows a create, an edit and a delete, or an edit racing the
  reconciler's read and write.
- `MaxJenkinsChanges=2` lets Jenkins's labels change while a reconcile is
  under way, and again after it.
- `MaxFaults=1` lets one call to Jenkins or the API server fail, before or
  after its effect.

The paging runs allow up to five runs, and the fetch limit is 4, so the
truncation at `FetchLimit` (10000 in the code) happens. Query integers range
from -1 to 6, which covers every boundary of a list of that size: a negative
start, zero, the last run, one past the end and beyond. Absent and
non-numeric query values are included too.

The list handler's requests hold up to three runs with names 1..3,
creation and start times in 1..2 and a start no earlier than the creation.
This gives equal times on different runs, a started run against one that has
not started, and ties between creation and start times, which are the cases
the tie-break is for. The transformer is tried on every kind of annotations
and both outcomes of the store lookup.

The listing part allows up to three pipelines against a count limit of
two, so the count is cut short. Starts are 0, 1 and 2, which fall on,
inside and past a short list. The limit is 1, which differs from the count
query's. The type helpers draw a Gitlab owner of up to three characters
over "a", "b" and "/", which covers an owner in a subgroup ("a/b"), and a
repository of up to two characters. `GetGitURL` gets every source type with
each source absent or set, and two sources of different names.
`CheckPipelineName` gets every answer of up to five characters over "<",
">" and "x" (364 answers). That length holds the shortest match (">x<"),
the empty div ("<x>" and "><"), and a match behind a "<" (">x<<").
It also gets the ok div and two error divs of eleven and twelve
characters. `CheckScriptCompile` gets lists of up to two elements, which
covers the empty list, a null first element, and a second element that
differs from the first.

The SVN part draws each SVN field from {"", "a"}. That exercises every
`!= ""` guard, and a field read from the wrong element shows as soon as one
of the two fields is set and the other is not. The cron check covers every
outcome of each call, statuses 200, 400 and 503, every document with no div
or one div and with or without a pre, and messages of one or two parts. Each
part has one of two dates or none, and one of two zones: the UTC name, which
is replaced by "UTC", and a three-word name.

## Fairness

The model assumes weak fairness for:

- each worker step;
- informer delivery;
- backoff expiry.

The code justifies each of these:

- Workers loop forever (`wait.Until(c.worker, time.Second, ...)`).
- The garbage collector runs (DevOpsProject model only).
- The informer delivers every change.
- The rate limiter always re-adds a parked key.

The agent labels reconciler has the same three, from controller-runtime: its
one worker loops while the manager runs, the cache's informer delivers every
change, and the delaying queue's timer fires. The timer is the five-minute
`RequeueAfter` on success, or the rate limiter's backoff on error.

Nothing assumes fairness for users, for Jenkins, for faults or for restarts.
They are bounded, so every behaviour eventually runs without them.

Deadlock checking is off in the controller runs and the labels run. The real
controller blocks in `Get` once it has no work. The `pipeline_handlers` run
has no end state: a new request can always come.

## Not modelled, and the plan

These parts are not modelled. `PROJECT.json` gives the reason for each.

- The rest of `pipeline.go`, beyond the calls named above. Each of those
  calls sends one request to Jenkins and decodes its JSON, with no state and
  no logic of its own. A model of them would restate "request, then decode"
  once per call and could check nothing about them. Spec section 1 leaves
  request building and response parsing out of scope.
- The list handler's HTTP plumbing (query parsing, the paging of the
  sorted list by the generic resources handler), and the step template
  routes.
- The API types other than the sources `GetGitURL` and the SVN conversions
  read. They are data definitions with no operation. `IsMultiBranch` has no
  caller in the repository.
- The generated clientset, the null informers and the fake client.
- The work queue's ShutDown. No controller step depends on it.

The drift fault model lives in `DriftSpec`, apart from `Spec`, so that the
passing runs do not include out-of-band deletions they make no claim about.

Open:

1. Namespace labels as state shared by the two controllers, so that a
   credential's namespace losing its DevOps label is modelled
   (`devopscredential_controller.go:223`). The hazard is about liveness:
   the Secret stays terminating. Checking it needs a liveness run of its
   own with label edits, which the existing credential runs leave out.
2. DevOpsProject liveness with namespace edits. With one edit, TLC finds
   `Converges` broken by the AlreadyExists loop
   (`devopsproject_controller.go:272`) only after about 690,000 states,
   which is longer than a run here may take. A smaller instance is needed.
