-------------------------- MODULE ProjectController --------------------------
(***************************************************************************)
(* The DevOpsProject controller                                            *)
(* (src/controllers/jenkins/devopsproject/devopsproject_controller.go)     *)
(* gives every DevOpsProject an admin namespace and a Jenkins folder named *)
(* after it, and removes the folder before the project goes away.          *)
(*                                                                         *)
(* Actors and state:                                                       *)
(*  - the API server: store[p] is the DevOpsProject named p (or Absent),   *)
(*    rv[p] its resourceVersion counter, uid its incarnation; nsStore[n]   *)
(*    is the namespace named n, with its devops-project label and the uid  *)
(*    of the project that owns it (the controller reference set by         *)
(*    generateNewNamespace);                                               *)
(*  - the garbage collector deletes a namespace whose owner incarnation is *)
(*    gone;                                                                *)
(*  - two informers: cache[p] is the project lister, whose handlers Add    *)
(*    the key; nsCache[n] is the namespace lister, which has no handler;   *)
(*  - Jenkins: folder[n] says a folder named after admin namespace n       *)
(*    exists; each call may fail before or after taking effect;            *)
(*  - users create and delete projects, clear the sync-status annotation   *)
(*    to force a new sync, and delete or unlabel admin namespaces;         *)
(*  - the work queue (module WorkQueue) and the workers, one step per call *)
(*    to the API server or Jenkins and per lister read;                    *)
(*  - crash and restart of the controller (MaxRestarts).                   *)
(*                                                                         *)
(* generateNewNamespace names the admin namespace after the project, so    *)
(* namespace names are project names; users only remove the label.        *)
(***************************************************************************)
EXTENDS Naturals, Sequences, FiniteSets

CONSTANTS
  Projects,     \* DevOpsProject names (cluster scoped), also namespace names
  Workers,      \* worker goroutines started by Run
  MaxRV,        \* user writes to a project happen while rv[p] < MaxRV
  MaxNsEdits,   \* user deletions and relabellings of namespaces
  MaxFaults,    \* failed calls to Jenkins or the API server
  MaxRestarts,  \* controller crashes
  Absent,       \* model value: no object
  NoNs,         \* model value: an empty Status.AdminNamespace
  NoLabel,      \* model value: a namespace without the devops-project label
  NoKey         \* model value: a worker holding no key

VARIABLES
  store, rv, cache, nsStore, nsCache, folder,
  queue, dirty, processing, waiting,
  wpc, wkey, orig, copy, nsCopy, failed,
  nsEdits, faults, restarts

envVars    == <<store, rv, cache, nsStore, nsCache, folder>>
queueVars  == <<queue, dirty, processing, waiting>>
workerVars == <<wpc, wkey, orig, copy, nsCopy, failed>>
vars == <<envVars, queueVars, workerVars, nsEdits, faults, restarts>>

WQ == INSTANCE WorkQueue WITH shuttingDown <- FALSE

-----------------------------------------------------------------------------
(* Objects.                                                                *)

\* The fields of a DevOpsProject the controller reads or writes:
\* Status.AdminNamespace, the sync-status annotation, its finalizer, the
\* deletion timestamp, the uid and the resourceVersion.
Project == [adminNs: Projects \cup {NoNs}, synced: BOOLEAN, fin: BOOLEAN,
            deleting: BOOLEAN, uid: Nat, rv: Nat]

\* A namespace: its devops-project label and the uid of its owner.
Namespace == [label: Projects \cup {NoLabel}, owner: Nat]

\* The resourceVersion the informer last saw: an object changed in the
\* lister's memory keeps it, so the watch has nothing new to deliver.
Version(o) == IF o = Absent THEN 0 ELSE o.rv

\* The API server's side of an update of project p.
Persist(p, obj) ==
  /\ rv' = [rv EXCEPT ![p] = @ + 1]
  /\ store' = [store EXCEPT ![p] =
                 IF obj.deleting /\ ~obj.fin THEN Absent
                 ELSE [obj EXCEPT !.rv = rv[p] + 1]]

\* The API server accepts an update of p carrying obj's resourceVersion.
CurrentVersion(p, obj) == store[p] /= Absent /\ store[p].rv = obj.rv

-----------------------------------------------------------------------------
(* Users, the informers and the garbage collector.                         *)

\* A user creates a project: no status, no annotations, no finalizer.
CreateProject(p) ==
  /\ store[p] = Absent
  /\ rv[p] < MaxRV
  /\ Persist(p, [adminNs |-> NoNs, synced |-> FALSE, fin |-> FALSE,
                 deleting |-> FALSE, uid |-> rv[p] + 1, rv |-> 0])
  /\ UNCHANGED <<cache, nsStore, nsCache, folder, queueVars, workerVars,
                 nsEdits, faults, restarts>>

\* A user deletes a project: with the finalizer it only gets a deletion
\* timestamp, without it it is removed at once.
DeleteProject(p) ==
  /\ store[p] /= Absent
  /\ ~store[p].deleting
  /\ rv[p] < MaxRV
  /\ Persist(p, [store[p] EXCEPT !.deleting = TRUE])
  /\ UNCHANGED <<cache, nsStore, nsCache, folder, queueVars, workerVars,
                 nsEdits, faults, restarts>>

\* A user removes the sync-status annotation to have the project synced
\* again.
ResetSyncStatus(p) ==
  /\ store[p] /= Absent
  /\ ~store[p].deleting /\ store[p].synced
  /\ rv[p] < MaxRV
  /\ Persist(p, [store[p] EXCEPT !.synced = FALSE])
  /\ UNCHANGED <<cache, nsStore, nsCache, folder, queueVars, workerVars,
                 nsEdits, faults, restarts>>

\* A user, or another controller, changes something of the project the
\* controller does not look at (a label, an annotation, another
\* finalizer), also while it is being deleted.
TouchProject(p) ==
  /\ store[p] /= Absent
  /\ rv[p] < MaxRV
  /\ Persist(p, store[p])
  /\ UNCHANGED <<cache, nsStore, nsCache, folder, queueVars, workerVars,
                 nsEdits, faults, restarts>>

\* A user deletes a namespace, or removes its devops-project label.
EditNamespace(n) ==
  /\ nsStore[n] /= Absent
  /\ nsEdits < MaxNsEdits
  /\ nsEdits' = nsEdits + 1
  /\ nsStore' \in {[nsStore EXCEPT ![n] = Absent],
                   [nsStore EXCEPT ![n].label = NoLabel]}
  /\ nsStore' /= nsStore
  /\ UNCHANGED <<store, rv, cache, nsCache, folder, queueVars, workerVars,
                 faults, restarts>>

\* The project informer delivers the latest state of p: the lister cache
\* is replaced and the handler enqueues the key (UpdateFunc drops events
\* whose resourceVersion did not change).
InformerDeliver(p) ==
  /\ Version(cache[p]) /= Version(store[p])
  /\ cache' = [cache EXCEPT ![p] = store[p]]
  /\ WQ!Add(p)
  /\ UNCHANGED <<store, rv, nsStore, nsCache, folder, waiting, workerVars,
                 nsEdits, faults, restarts>>

\* The namespace informer refreshes its lister; no handler is registered.
NsInformerDeliver(n) ==
  /\ nsCache[n] /= nsStore[n]
  /\ nsCache' = [nsCache EXCEPT ![n] = nsStore[n]]
  /\ UNCHANGED <<store, rv, cache, nsStore, folder, queueVars, workerVars,
                 nsEdits, faults, restarts>>

\* The garbage collector deletes a namespace whose owner, the project
\* incarnation that created it, no longer exists.
GarbageCollect(n) ==
  /\ nsStore[n] /= Absent
  /\ IF store[n] = Absent THEN TRUE ELSE store[n].uid /= nsStore[n].owner
  /\ nsStore' = [nsStore EXCEPT ![n] = Absent]
  /\ UNCHANGED <<store, rv, cache, nsCache, folder, queueVars, workerVars,
                 nsEdits, faults, restarts>>

\* The rate limiter's backoff for p expires and p is added again.
BackoffExpires(p) ==
  /\ WQ!BackoffExpires(p)
  /\ UNCHANGED <<envVars, workerVars, nsEdits, faults, restarts>>

-----------------------------------------------------------------------------
(* Workers: processNextWorkItem and syncHandler.                           *)

Goto(w, pc) == wpc' = [wpc EXCEPT ![w] = pc]

\* syncHandler returns; err is whether it returned an error.
Return(w, err) ==
  /\ Goto(w, "finish")
  /\ failed' = [failed EXCEPT ![w] = err]

\* A call that fails, with or without having taken effect, uses the budget.
Fault == /\ faults < MaxFaults
         /\ faults' = faults + 1

\* processNextWorkItem: Get hands the worker a key.
ProcessNextWorkItem(w) ==
  /\ wpc[w] = "idle"
  /\ \E p \in Projects : /\ WQ!Get(p)
                         /\ wkey' = [wkey EXCEPT ![w] = p]
  /\ Goto(w, "sync")
  /\ UNCHANGED <<envVars, waiting, orig, copy, nsCopy, failed, nsEdits,
                 faults, restarts>>

\* syncHandler reads the project from the lister: a missing project is
\* done with; a live project whose sync-status annotation says successful
\* is skipped; otherwise the copy gets the finalizer and the admin
\* namespace is looked at; a deleting project with the finalizer goes to
\* the delete path, one without it is left alone.
Sync(w) ==
  LET p == wkey[w]
      o == cache[p]
  IN
  /\ wpc[w] = "sync"
  /\ CASE o = Absent -> Return(w, FALSE) /\ UNCHANGED <<orig, copy>>
       [] ~o.deleting /\ o.synced -> Return(w, FALSE) /\ UNCHANGED <<orig, copy>>
       [] ~o.deleting ->
            /\ Goto(w, "namespace")
            /\ orig' = [orig EXCEPT ![w] = o]
            /\ copy' = [copy EXCEPT ![w] = [o EXCEPT !.fin = TRUE]]
            /\ UNCHANGED failed
       [] o.fin ->
            /\ Goto(w, "extDelete")
            /\ orig' = [orig EXCEPT ![w] = o]
            /\ UNCHANGED <<copy, failed>>
       [] OTHER -> Return(w, FALSE) /\ UNCHANGED <<orig, copy>>
  /\ UNCHANGED <<envVars, queueVars, wkey, nsCopy, nsEdits, faults, restarts>>

\* The namespaces in the lister labelled for project p.
LabelledFor(p) ==
  {n \in Projects : nsCache[n] /= Absent /\ nsCache[n].label = p}

\* The admin namespace, read from the namespace lister.  A recorded one
\* that is gone is cleared from the status; one that lost its label is
\* relabelled.  Without one, a namespace labelled for the project is
\* adopted (namespaces[0], in the lister's arbitrary order), or a new one
\* is created.
AdminNamespace(w) ==
  LET p == wkey[w]
      a == copy[w].adminNs
      ns == IF a = NoNs THEN Absent ELSE nsCache[a]
  IN
  /\ wpc[w] = "namespace"
  /\ IF a /= NoNs
     THEN CASE ns = Absent ->
                 /\ copy' = [copy EXCEPT ![w].adminNs = NoNs]
                 /\ Goto(w, "clearStatus") /\ UNCHANGED nsCopy
            [] ns.label /= p ->
                 /\ nsCopy' = [nsCopy EXCEPT ![w] = ns]
                 /\ Goto(w, "relabel") /\ UNCHANGED copy
            [] OTHER -> Goto(w, "extGet") /\ UNCHANGED <<copy, nsCopy>>
     ELSE IF LabelledFor(p) = {}
     THEN Goto(w, "createNs") /\ UNCHANGED <<copy, nsCopy>>
     ELSE \E n \in LabelledFor(p) :
            /\ copy' = [copy EXCEPT ![w].adminNs = n]
            /\ Goto(w, "extGet") /\ UNCHANGED nsCopy
  /\ UNCHANGED <<envVars, queueVars, wkey, orig, failed, nsEdits, faults,
                 restarts>>

\* The project's status is cleared and updated; the enqueue that follows
\* is given the key string, which MetaNamespaceKeyFunc rejects, so it
\* adds nothing: the informer's Update event brings the project back.
ClearStatus(w) ==
  LET p == wkey[w] IN
  /\ wpc[w] = "clearStatus"
  /\ \/ /\ CurrentVersion(p, copy[w])
        /\ Persist(p, copy[w])
        /\ Return(w, FALSE)
        /\ UNCHANGED faults
     \/ /\ ~CurrentVersion(p, copy[w])
        /\ Return(w, TRUE)
        /\ UNCHANGED <<store, rv, faults>>
     \/ /\ Fault
        /\ Return(w, TRUE)
        /\ UNCHANGED <<store, rv>>
  /\ UNCHANGED <<cache, nsStore, nsCache, folder, queueVars, wkey, orig, copy,
                 nsCopy, nsEdits, restarts>>

\* The label is put back with Namespaces().Update of the lister's copy,
\* refused if the namespace changed or went away since.
Relabel(w) ==
  LET p == wkey[w]
      n == copy[w].adminNs
  IN
  /\ wpc[w] = "relabel"
  /\ \/ /\ nsStore[n] = nsCopy[w]
        /\ nsStore' = [nsStore EXCEPT ![n].label = p]
        /\ Goto(w, "extGet")
        /\ UNCHANGED <<failed, faults>>
     \/ /\ nsStore[n] /= nsCopy[w]
        /\ Return(w, TRUE)
        /\ UNCHANGED <<nsStore, faults>>
     \/ /\ Fault
        /\ Return(w, TRUE)
        /\ UNCHANGED nsStore
  /\ UNCHANGED <<store, rv, cache, nsCache, folder, queueVars, wkey, orig,
                 copy, nsCopy, nsEdits, restarts>>

\* generateNewNamespace: named after the project (the namespace's name is
\* its index), labelled for it, and owned by it through the controller
\* reference; the workspace label and creator annotation are left out.
GenerateNewNamespace(p, uid) == [label |-> p, owner |-> uid]

\* Mutant of CreateNs: the status records the namespace object, not its
\* name.
CreateNsRecordsObject(w) ==
  LET p == wkey[w]
      ns == GenerateNewNamespace(p, copy[w].uid)
  IN
  /\ wpc[w] = "createNs"
  /\ nsStore[p] = Absent
  /\ nsStore' = [nsStore EXCEPT ![p] = ns]
  /\ copy' = [copy EXCEPT ![w].adminNs = ns]
  /\ Goto(w, "extGet")
  /\ UNCHANGED <<store, rv, cache, nsCache, folder, queueVars, wkey, orig,
                 nsCopy, failed, nsEdits, faults, restarts>>

\* generateNewNamespace and Namespaces().Create: the namespace is named
\* after the project, labelled for it and owned by it; AlreadyExists and
\* other errors are returned.
CreateNs(w) ==
  LET p == wkey[w]
      ns == GenerateNewNamespace(p, copy[w].uid)
  IN
  /\ wpc[w] = "createNs"
  /\ \/ /\ nsStore[p] = Absent
        /\ nsStore' = [nsStore EXCEPT ![p] = ns]
        /\ copy' = [copy EXCEPT ![w].adminNs = p]
        /\ Goto(w, "extGet")
        /\ UNCHANGED <<failed, faults>>
     \/ /\ nsStore[p] /= Absent
        /\ Return(w, TRUE)
        /\ UNCHANGED <<nsStore, copy, faults>>
     \/ /\ nsStore[p] = Absent
        /\ Fault
        /\ nsStore' \in {nsStore, [nsStore EXCEPT ![p] = ns]}
        /\ Return(w, TRUE)
        /\ UNCHANGED copy
  /\ UNCHANGED <<store, rv, cache, nsCache, folder, queueVars, wkey, orig,
                 nsCopy, nsEdits, restarts>>


\* The Jenkins project helpers (project.go).  Each wraps the client's error
\* in a restful.ServiceError carrying GetDevOpsStatusCode of it; here a
\* call's outcome is that status code when Jenkins answers (a failed call,
\* Fault, has some other code and is an action of its own).

\* GetDevOpsProject: GetJob of the folder; 404 when there is none.
GetDevOpsProject(n) == IF folder[n] THEN 200 ELSE 404

\* CreateDevOpsProject: CreateFolder; Jenkins refuses a name already taken.
CreateDevOpsProject(n) == IF folder[n] THEN 400 ELSE 200

\* DeleteDevOpsProject: DeleteJob of the folder; 404 when there is none (an
\* empty admin namespace names no folder).
DeleteDevOpsProject(n) == IF n /= NoNs /\ folder[n] THEN 200 ELSE 404

\* Mutant of ExtGet: an error other than "not found" is taken to mean the
\* folder exists.
ExtGetTrustsErrors(w) ==
  LET n == copy[w].adminNs IN
  /\ wpc[w] = "extGet"
  /\ \/ folder[n] /\ Goto(w, "update") /\ UNCHANGED faults
     \/ ~folder[n] /\ Goto(w, "extCreate") /\ UNCHANGED faults
     \/ ~folder[n] /\ Fault /\ Goto(w, "update")
  /\ UNCHANGED <<envVars, queueVars, wkey, orig, copy, nsCopy, failed,
                 nsEdits, restarts>>

\* GetDevOpsProject: any error, not only "not found", takes the create
\* path.
ExtGet(w) ==
  LET code == GetDevOpsProject(copy[w].adminNs) IN
  /\ wpc[w] = "extGet"
  /\ \/ code = 200 /\ Goto(w, "update") /\ UNCHANGED faults
     \/ code /= 200 /\ Goto(w, "extCreate") /\ UNCHANGED faults
     \/ code = 200 /\ Fault /\ Goto(w, "extCreate")
  /\ UNCHANGED <<envVars, queueVars, wkey, orig, copy, nsCopy, failed,
                 nsEdits, restarts>>

\* CreateDevOpsProject: CreateFolder, refused if the folder exists; a
\* failure may come after the folder was made.
ExtCreate(w) ==
  LET n == copy[w].adminNs
      code == CreateDevOpsProject(n)
  IN
  /\ wpc[w] = "extCreate"
  /\ \/ /\ code = 200
        /\ folder' = [folder EXCEPT ![n] = TRUE]
        /\ Goto(w, "update")
        /\ UNCHANGED <<failed, faults>>
     \/ /\ code /= 200
        /\ Return(w, TRUE)
        /\ UNCHANGED <<folder, faults>>
     \/ /\ code = 200
        /\ Fault
        /\ folder' \in {folder, [folder EXCEPT ![n] = TRUE]}
        /\ Return(w, TRUE)
  /\ UNCHANGED <<store, rv, cache, nsStore, nsCache, queueVars, wkey, orig,
                 copy, nsCopy, nsEdits, restarts>>

\* The sync-status annotation is set to successful and the copy is
\* written with DevOpsProjects().Update.  The code writes only if the copy
\* differs from what was read (reflect.DeepEqual), which it always does:
\* a project read with the annotation already successful was skipped.
Update(w) ==
  LET p == wkey[w]
      c == [copy[w] EXCEPT !.synced = TRUE]
  IN
  /\ wpc[w] = "update"
  /\ \/ /\ CurrentVersion(p, c)
        /\ Persist(p, c)
        /\ Return(w, FALSE)
        /\ UNCHANGED faults
     \/ /\ ~CurrentVersion(p, c)
        /\ Return(w, TRUE)
        /\ UNCHANGED <<store, rv, faults>>
     \/ /\ Fault
        /\ Return(w, TRUE)
        /\ UNCHANGED <<store, rv>>
  /\ copy' = [copy EXCEPT ![w] = c]
  /\ UNCHANGED <<cache, nsStore, nsCache, folder, queueVars, wkey, orig,
                 nsCopy, nsEdits, restarts>>

\* The finalizer is removed from project, the object the lister handed
\* out, not from a copy: if the lister still holds that object, its cache
\* entry loses the finalizer too.
RemoveFinalizer(w) ==
  LET p == wkey[w] IN
  /\ cache' = IF cache[p] = orig[w] THEN [cache EXCEPT ![p].fin = FALSE]
              ELSE cache
  /\ orig' = [orig EXCEPT ![w].fin = FALSE]
  /\ Goto(w, "unfinalize")

\* Mutant of ExtDelete: the finalizer is removed whatever Jenkins answers.
ExtDeleteIgnoresErrors(w) ==
  LET a == orig[w].adminNs
      exists == a /= NoNs /\ folder[a]
  IN
  /\ wpc[w] = "extDelete"
  /\ \/ /\ exists
        /\ folder' = [folder EXCEPT ![a] = FALSE]
        /\ UNCHANGED faults
     \/ /\ Fault
        /\ UNCHANGED folder
     \/ /\ ~exists
        /\ UNCHANGED <<folder, faults>>
  /\ RemoveFinalizer(w)
  /\ UNCHANGED <<store, rv, nsStore, nsCache, queueVars, wkey, copy, nsCopy,
                 failed, nsEdits, restarts>>

\* deleteDevOpsProjectInDevOps: DeleteDevOpsProject of the recorded admin
\* namespace; success and 404 both count as deleted, any other error keeps
\* the finalizer and is returned.  An empty admin namespace names no
\* folder and gets a 404.
ExtDelete(w) ==
  LET a == orig[w].adminNs
      exists == DeleteDevOpsProject(a) = 200
  IN
  /\ wpc[w] = "extDelete"
  /\ \/ /\ exists
        /\ folder' = [folder EXCEPT ![a] = FALSE]
        /\ RemoveFinalizer(w)
        /\ UNCHANGED <<failed, faults>>
     \/ /\ exists
        /\ Fault
        /\ folder' \in {folder, [folder EXCEPT ![a] = FALSE]}
        /\ Return(w, TRUE)
        /\ UNCHANGED <<cache, orig>>
     \/ /\ ~exists
        /\ RemoveFinalizer(w)
        /\ UNCHANGED <<folder, failed, faults>>
     \/ /\ ~exists
        /\ Fault
        /\ Return(w, TRUE)
        /\ UNCHANGED <<folder, cache, orig>>
  /\ UNCHANGED <<store, rv, nsStore, nsCache, queueVars, wkey, copy, nsCopy,
                 nsEdits, restarts>>

\* DevOpsProjects().Update(project) after the finalizer was removed.
Unfinalize(w) ==
  LET p == wkey[w] IN
  /\ wpc[w] = "unfinalize"
  /\ \/ /\ CurrentVersion(p, orig[w])
        /\ Persist(p, orig[w])
        /\ Return(w, FALSE)
        /\ UNCHANGED faults
     \/ /\ ~CurrentVersion(p, orig[w])
        /\ Return(w, TRUE)
        /\ UNCHANGED <<store, rv, faults>>
     \/ /\ Fault
        /\ Return(w, TRUE)
        /\ UNCHANGED <<store, rv>>
  /\ UNCHANGED <<cache, nsStore, nsCache, folder, queueVars, wkey, orig, copy,
                 nsCopy, nsEdits, restarts>>

\* Mutant of FinishWorkItem: an error is logged and the key forgotten,
\* Forget in place of AddRateLimited.
FinishWorkItemForgets(w) ==
  /\ wpc[w] = "finish"
  /\ WQ!Finish(wkey[w], FALSE)
  /\ Goto(w, "idle")
  /\ wkey' = [wkey EXCEPT ![w] = NoKey]
  /\ orig' = [orig EXCEPT ![w] = Absent]
  /\ copy' = [copy EXCEPT ![w] = Absent]
  /\ nsCopy' = [nsCopy EXCEPT ![w] = Absent]
  /\ failed' = [failed EXCEPT ![w] = FALSE]
  /\ UNCHANGED <<envVars, nsEdits, faults, restarts>>

\* The end of processNextWorkItem: AddRateLimited on error, Forget on
\* success, then the deferred Done.
FinishWorkItem(w) ==
  /\ wpc[w] = "finish"
  /\ WQ!Finish(wkey[w], failed[w])
  /\ Goto(w, "idle")
  /\ wkey' = [wkey EXCEPT ![w] = NoKey]
  /\ orig' = [orig EXCEPT ![w] = Absent]
  /\ copy' = [copy EXCEPT ![w] = Absent]
  /\ nsCopy' = [nsCopy EXCEPT ![w] = Absent]
  /\ failed' = [failed EXCEPT ![w] = FALSE]
  /\ UNCHANGED <<envVars, nsEdits, faults, restarts>>


-----------------------------------------------------------------------------
(* Crash and restart of the controller process.                            *)

IdleWorkers ==
  /\ wpc' = [w \in Workers |-> "idle"]
  /\ wkey' = [w \in Workers |-> NoKey]
  /\ orig' = [w \in Workers |-> Absent]
  /\ copy' = [w \in Workers |-> Absent]
  /\ nsCopy' = [w \in Workers |-> Absent]
  /\ failed' = [w \in Workers |-> FALSE]

\* The process dies between two calls and starts again: both informers
\* list afresh (which also discards what a worker wrote into the lister's
\* objects), the project handler Adds every listed key in list order, and
\* the queue, the backoff and the workers start empty.
Restart ==
  LET listed == {p \in Projects : store[p] /= Absent} IN
  /\ restarts < MaxRestarts
  /\ restarts' = restarts + 1
  /\ cache' = store
  /\ nsCache' = nsStore
  /\ \E order \in [1 .. Cardinality(listed) -> listed] :
       /\ \A i, j \in DOMAIN order : i /= j => order[i] /= order[j]
       /\ queue' = order
  /\ dirty' = listed
  /\ processing' = {}
  /\ waiting' = {}
  /\ IdleWorkers
  /\ UNCHANGED <<store, rv, nsStore, folder, nsEdits, faults>>

-----------------------------------------------------------------------------

Init ==
  /\ store = [p \in Projects |-> Absent]
  /\ rv = [p \in Projects |-> 0]
  /\ cache = [p \in Projects |-> Absent]
  /\ nsStore = [n \in Projects |-> Absent]
  /\ nsCache = [n \in Projects |-> Absent]
  /\ folder = [n \in Projects |-> FALSE]
  /\ queue = << >>
  /\ dirty = {}
  /\ processing = {}
  /\ waiting = {}
  /\ wpc = [w \in Workers |-> "idle"]
  /\ wkey = [w \in Workers |-> NoKey]
  /\ orig = [w \in Workers |-> Absent]
  /\ copy = [w \in Workers |-> Absent]
  /\ nsCopy = [w \in Workers |-> Absent]
  /\ failed = [w \in Workers |-> FALSE]
  /\ nsEdits = 0
  /\ faults = 0
  /\ restarts = 0

UserNext ==
  \E p \in Projects :
    CreateProject(p) \/ DeleteProject(p) \/ ResetSyncStatus(p)
    \/ TouchProject(p) \/ EditNamespace(p)

WorkerNext(w) ==
  \/ ProcessNextWorkItem(w)
  \/ Sync(w)
  \/ AdminNamespace(w)
  \/ ClearStatus(w)
  \/ Relabel(w)
  \/ CreateNs(w)
  \/ ExtGet(w)
  \/ ExtCreate(w)
  \/ Update(w)
  \/ ExtDelete(w)
  \/ Unfinalize(w)
  \/ FinishWorkItem(w)

ClusterNext(p) ==
  InformerDeliver(p) \/ NsInformerDeliver(p) \/ GarbageCollect(p)
  \/ BackoffExpires(p)

Next ==
  \/ UserNext
  \/ \E p \in Projects : ClusterNext(p)
  \/ \E w \in Workers : WorkerNext(w)
  \/ Restart

\* Workers loop (wait.Until), both watches deliver, the garbage collector
\* runs and backoff timers fire; users need not act, and crashes and
\* faults are bounded.
Fairness ==
  /\ \A w \in Workers : WF_vars(WorkerNext(w))
  /\ \A p \in Projects :
       /\ WF_vars(InformerDeliver(p)) /\ WF_vars(NsInformerDeliver(p))
       /\ WF_vars(GarbageCollect(p)) /\ WF_vars(BackoffExpires(p))

Spec == Init /\ [][Next]_vars /\ Fairness

-----------------------------------------------------------------------------
(* Properties.                                                             *)

TypeOK ==
  /\ store \in [Projects -> Project \cup {Absent}]
  /\ cache \in [Projects -> Project \cup {Absent}]
  /\ rv \in [Projects -> Nat]
  /\ nsStore \in [Projects -> Namespace \cup {Absent}]
  /\ nsCache \in [Projects -> Namespace \cup {Absent}]
  /\ folder \in [Projects -> BOOLEAN]
  /\ queue \in Seq(Projects)
  /\ dirty \subseteq Projects /\ processing \subseteq Projects
  /\ waiting \subseteq Projects
  /\ wpc \in [Workers -> {"idle", "sync", "namespace", "clearStatus",
                          "relabel", "createNs", "extGet", "extCreate",
                          "update", "extDelete", "unfinalize", "finish"}]
  /\ wkey \in [Workers -> Projects \cup {NoKey}]
  /\ orig \in [Workers -> Project \cup {Absent}]
  /\ copy \in [Workers -> Project \cup {Absent}]
  /\ nsCopy \in [Workers -> Namespace \cup {Absent}]
  /\ failed \in [Workers -> BOOLEAN]
  /\ nsEdits \in 0 .. MaxNsEdits
  /\ faults \in 0 .. MaxFaults /\ restarts \in 0 .. MaxRestarts

\* Two-phase delete (spec section 3, invariant 2): the step that drops the
\* finalizer of a project, or lets the API server remove it, leaves no
\* Jenkins folder for the admin namespace the project records.  The delete
\* path drops it only after DeleteDevOpsProject succeeded or answered 404,
\* whatever stale lister copy, lost reply or crash came in between.
FinalizerReleasedOnlyWhenGone ==
  [][\A p \in Projects :
       (store[p] /= Absent /\ store[p].fin
        /\ (store'[p] = Absent \/ ~store'[p].fin)
        /\ store[p].adminNs /= NoNs) => ~folder'[store[p].adminNs]]_vars

\* A live project whose sync-status annotation says successful records an
\* admin namespace whose Jenkins folder exists: the annotation is written
\* in the same update as the namespace, after the folder was found or
\* made, and no other project's delete path removes that folder, across
\* deletes and re-creations of the same name.
SyncedMeansProvisioned ==
  \A p \in Projects :
    (store[p] /= Absent /\ ~store[p].deleting /\ store[p].synced)
      => store[p].adminNs /= NoNs /\ folder[store[p].adminNs]

\* Convergence: once users stop, every live project ends up with the
\* finalizer, the successful annotation, an admin namespace in its status
\* and a Jenkins folder for it.
Converges ==
  <>[](\A p \in Projects :
         LET o == store[p] IN
         (o /= Absent /\ ~o.deleting) =>
           /\ o.fin /\ o.synced /\ o.adminNs /= NoNs /\ folder[o.adminNs])

\* A project marked for deletion is eventually removed from the API server
\* (its finalizer is dropped), once Jenkins and the API server stop failing.
DeletionCompletes ==
  \A p \in Projects :
    (store[p] /= Absent /\ store[p].deleting) ~> (store[p] = Absent)

\* No orphan folder (spec section 3, invariant 2): a project that is gone
\* from the API server has no Jenkins folder left under its name.
NoOrphanFolder ==
  \A p \in Projects : store[p] = Absent => ~folder[p]

\* The admin namespace a synced project records exists, as long as users
\* leave namespaces alone: the code clears a missing one from the status
\* to have it created again (the comment at line 233).
SyncedAdminNamespaceExists ==
  \A p \in Projects :
    (store[p] /= Absent /\ ~store[p].deleting /\ store[p].synced)
      => nsStore[store[p].adminNs] /= Absent

=============================================================================
