------------------------- MODULE CredentialController -------------------------
(***************************************************************************)
(* The DevOpsCredential controller                                         *)
(* (src/controllers/jenkins/devopscredential/devopscredential_controller.go)*)
(* keeps credential Secrets in sync with credentials in Jenkins.           *)
(*                                                                         *)
(* Actors and state:                                                       *)
(*  - the API server: store[k] is the authoritative Secret (or Absent),    *)
(*    rv[k] its resourceVersion counter; users create, edit and delete    *)
(*    Secrets, making writes[k] of at most MaxWrites[k] writes; an update *)
(*    carries the resourceVersion it was read at and is refused on a      *)
(*    mismatch; a deleting object whose last finalizer is removed        *)
(*    disappears;                                                          *)
(*  - the informer: cache[k] is the lister's copy, which lags the store;  *)
(*    delivering a change replaces it and runs the event handler, which   *)
(*    Adds the key to the work queue;                                      *)
(*  - Jenkins: ext[k] is the data of the credential named after the       *)
(*    Secret, or Absent; each call may fail before or after taking effect *)
(*    (a lost reply), within the budget MaxFaults;                         *)
(*  - the work queue (module WorkQueue);                                   *)
(*  - the workers: each runs processNextWorkItem and syncHandler, one     *)
(*    step per call to the API server or Jenkins, holding the object it   *)
(*    read (orig) and the copy it changes (copy);                          *)
(*  - the controller process may crash and restart (MaxRestarts): queue,  *)
(*    workers and backoff are lost, the informer relists and Adds every   *)
(*    key it lists.                                                        *)
(***************************************************************************)
EXTENDS Naturals, Sequences, FiniteSets

CONSTANTS
  Keys,         \* credential Secrets (namespace/name)
  AdminKeys,    \* Secrets whose namespace carries the DevOps project label
  Workers,      \* worker goroutines started by Run
  Data,         \* Secret payloads
  MaxWrites,    \* the most writes users make to Secret k
  MaxFaults,    \* failed calls to Jenkins or the API server
  MaxRestarts,  \* controller crashes
  Absent,       \* model value: no object
  NoKey         \* model value: a worker holding no key

ASSUME AdminKeys \subseteq Keys

VARIABLES
  store, rv, writes, cache, ext,
  queue, dirty, processing, waiting,
  wpc, wkey, orig, copy, failed,
  faults, restarts

envVars    == <<store, rv, writes, cache, ext>>
queueVars  == <<queue, dirty, processing, waiting>>
workerVars == <<wpc, wkey, orig, copy, failed>>
vars == <<envVars, queueVars, workerVars, faults, restarts>>

\* The controller never calls ShutDown before it stops: Run returns only
\* when the process ends, which the model treats as a crash.
WQ == INSTANCE WorkQueue WITH shuttingDown <- FALSE

-----------------------------------------------------------------------------
(* Objects.                                                                *)

\* utils.ComputeHash(secret.Data): a digest, distinct for distinct payloads.
ComputeHash(d) == <<"hash", d>>
NoHash == <<"hash">>

\* The fields of a Secret the controller reads or writes: Data, the
\* annotations sync-status, data-hash and auto-sync, its own finalizer,
\* the deletion timestamp and the resourceVersion.
Secret == [data: Data, autoSync: BOOLEAN, synced: BOOLEAN,
           hash: {ComputeHash(d) : d \in Data} \cup {NoHash},
           fin: BOOLEAN, deleting: BOOLEAN, rv: Nat]

\* The API server's side of an update: the object is stored with a new
\* resourceVersion, and removed if it is deleting and has no finalizer.
Persist(k, obj) ==
  /\ rv' = [rv EXCEPT ![k] = @ + 1]
  /\ store' = [store EXCEPT ![k] =
                 IF obj.deleting /\ ~obj.fin THEN Absent
                 ELSE [obj EXCEPT !.rv = rv[k] + 1]]

-----------------------------------------------------------------------------
(* Users and the informer.                                                 *)

\* A user's write to Secret k, within its budget.
UserWrite(k) ==
  /\ writes[k] < MaxWrites[k]
  /\ writes' = [writes EXCEPT ![k] = @ + 1]

\* A user creates a credential Secret, with or without auto-sync.
CreateSecret(k, d, auto) ==
  /\ store[k] = Absent
  /\ UserWrite(k)
  /\ Persist(k, [data |-> d, autoSync |-> auto, synced |-> FALSE,
                 hash |-> NoHash, fin |-> FALSE, deleting |-> FALSE, rv |-> 0])
  /\ UNCHANGED <<cache, ext, queueVars, workerVars, faults, restarts>>

\* A user changes the Secret's data.
EditSecret(k, d) ==
  /\ store[k] /= Absent
  /\ store[k].data /= d
  /\ UserWrite(k)
  /\ Persist(k, [store[k] EXCEPT !.data = d])
  /\ UNCHANGED <<cache, ext, queueVars, workerVars, faults, restarts>>

\* A user deletes the Secret: with a finalizer it only gets a deletion
\* timestamp, without one it is removed at once.
DeleteSecret(k) ==
  /\ store[k] /= Absent
  /\ ~store[k].deleting
  /\ UserWrite(k)
  /\ Persist(k, [store[k] EXCEPT !.deleting = TRUE])
  /\ UNCHANGED <<cache, ext, queueVars, workerVars, faults, restarts>>

\* The informer delivers the latest state of k: the lister cache is
\* replaced, and the Add, Update or Delete handler enqueues the key (the
\* Update handler drops only events whose resourceVersion did not change,
\* such as periodic resyncs, which therefore never reach the queue).
InformerDeliver(k) ==
  /\ cache[k] /= store[k]
  /\ cache' = [cache EXCEPT ![k] = store[k]]
  /\ WQ!Add(k)
  /\ UNCHANGED <<store, rv, writes, ext, waiting, workerVars, faults, restarts>>

\* The rate limiter's backoff for k expires and k is added again.
BackoffExpires(k) ==
  /\ WQ!BackoffExpires(k)
  /\ UNCHANGED <<envVars, workerVars, faults, restarts>>

-----------------------------------------------------------------------------
(* Workers: processNextWorkItem and syncHandler.                           *)

Goto(w, pc) == wpc' = [wpc EXCEPT ![w] = pc]

\* syncHandler returns; err is whether it returned an error.
Return(w, err) ==
  /\ Goto(w, "finish")
  /\ failed' = [failed EXCEPT ![w] = err]

\* A call that fails, with or without having taken effect, uses the budget.
Fault == /\ faults < MaxFaults
         /\ faults' = faults + 1

\* processNextWorkItem: Get hands the worker a key.
ProcessNextWorkItem(w) ==
  /\ wpc[w] = "idle"
  /\ \E k \in Keys : /\ WQ!Get(k)
                     /\ wkey' = [wkey EXCEPT ![w] = k]
  /\ Goto(w, "sync")
  /\ UNCHANGED <<envVars, waiting, orig, copy, failed, faults, restarts>>

\* Mutant of Sync: a synced Secret is skipped whatever its hash, as the
\* DevOpsProject controller does with its own sync-status annotation.
SyncSkipsSynced(w) ==
  LET k == wkey[w]
      s == cache[k]
  IN
  /\ wpc[w] = "sync"
  /\ CASE k \notin AdminKeys -> Return(w, TRUE) /\ UNCHANGED <<orig, copy>>
       [] s = Absent -> Return(w, FALSE) /\ UNCHANGED <<orig, copy>>
       [] ~s.deleting /\ s.synced -> Return(w, FALSE) /\ UNCHANGED <<orig, copy>>
       [] ~s.deleting ->
            /\ Goto(w, "extGet")
            /\ orig' = [orig EXCEPT ![w] = s]
            /\ copy' = [copy EXCEPT ![w] = [s EXCEPT !.fin = TRUE]]
            /\ UNCHANGED failed
       [] s.fin ->
            /\ Goto(w, "extDelete")
            /\ orig' = [orig EXCEPT ![w] = s]
            /\ copy' = [copy EXCEPT ![w] = s]
            /\ UNCHANGED failed
       [] OTHER -> Return(w, FALSE) /\ UNCHANGED <<orig, copy>>
  /\ UNCHANGED <<envVars, queueVars, wkey, faults, restarts>>

\* syncHandler up to its first call to Jenkins: the namespace and Secret
\* are read from the listers; a missing Secret is done with; outside a
\* DevOps namespace it is an error; a live Secret that is synced with an
\* unchanged hash is skipped; otherwise the copy gets the new hash (only if
\* already synced) and the finalizer, and the create/update path starts;
\* a deleting Secret with the finalizer goes to the delete path, one
\* without it is left alone.
Sync(w) ==
  LET k == wkey[w]
      s == cache[k]
      c == [s EXCEPT !.fin = TRUE,
                     !.hash = IF s.synced THEN ComputeHash(s.data) ELSE @]
  IN
  /\ wpc[w] = "sync"
  /\ CASE k \notin AdminKeys -> Return(w, TRUE) /\ UNCHANGED <<orig, copy>>
       [] s = Absent -> Return(w, FALSE) /\ UNCHANGED <<orig, copy>>
       [] ~s.deleting /\ s.synced /\ s.hash = ComputeHash(s.data) ->
            Return(w, FALSE) /\ UNCHANGED <<orig, copy>>
       [] ~s.deleting ->
            /\ Goto(w, "extGet")
            /\ orig' = [orig EXCEPT ![w] = s]
            /\ copy' = [copy EXCEPT ![w] = c]
            /\ UNCHANGED failed
       [] s.fin ->
            /\ Goto(w, "extDelete")
            /\ orig' = [orig EXCEPT ![w] = s]
            /\ copy' = [copy EXCEPT ![w] = s]
            /\ UNCHANGED failed
       [] OTHER -> Return(w, FALSE) /\ UNCHANGED <<orig, copy>>
  /\ UNCHANGED <<envVars, queueVars, wkey, faults, restarts>>

\* The copy is marked synced and goes to the final update.
Synced(w) ==
  /\ copy' = [copy EXCEPT ![w].synced = TRUE]
  /\ Goto(w, "update")
  /\ UNCHANGED failed

\* GetCredentialInProject: any error, not only "not found", takes the
\* create path.  A found credential is updated only under auto-sync.
ExtGet(w) ==
  LET k == wkey[w] IN
  /\ wpc[w] = "extGet"
  /\ \/ /\ ext[k] /= Absent
        /\ IF copy[w].autoSync
           THEN Goto(w, "extUpdate") /\ UNCHANGED <<copy, failed>>
           ELSE Synced(w)
        /\ UNCHANGED faults
     \/ /\ ext[k] = Absent
        /\ Goto(w, "extCreate")
        /\ UNCHANGED <<copy, failed, faults>>
     \/ /\ ext[k] /= Absent
        /\ Fault
        /\ Goto(w, "extCreate")
        /\ UNCHANGED <<copy, failed>>
  /\ UNCHANGED <<envVars, queueVars, wkey, orig, restarts>>

\* A write to Jenkins of ext[k] to v: it succeeds and the handler goes
\* on with Then, or it fails (an error is returned) having taken effect
\* or not.
ExtWrite(w, v, Then) ==
  LET k == wkey[w] IN
  \/ /\ ext' = [ext EXCEPT ![k] = v]
     /\ Then
     /\ UNCHANGED faults
  \/ /\ Fault
     /\ ext' \in {ext, [ext EXCEPT ![k] = v]}
     /\ Return(w, TRUE)
     /\ UNCHANGED copy

\* Mutant of ExtCreate: the credential is created from the whole Secret
\* object rather than from its data.
ExtCreateWholeSecret(w) ==
  LET k == wkey[w] IN
  /\ wpc[w] = "extCreate"
  /\ IF ext[k] = Absent
     THEN ext' = [ext EXCEPT ![k] = copy[w]] /\ Synced(w) /\ UNCHANGED faults
     ELSE Return(w, TRUE) /\ UNCHANGED <<ext, copy, faults>>
  /\ UNCHANGED <<store, rv, writes, cache, queueVars, wkey, orig, restarts>>

\* CreateCredentialInProject: refused if the credential already exists.
ExtCreate(w) ==
  LET k == wkey[w] IN
  /\ wpc[w] = "extCreate"
  /\ IF ext[k] = Absent
     THEN ExtWrite(w, copy[w].data, Synced(w))
     ELSE Return(w, TRUE) /\ UNCHANGED <<ext, copy, faults>>
  /\ UNCHANGED <<store, rv, writes, cache, queueVars, wkey, orig, restarts>>

\* UpdateCredentialInProject: refused if the credential is gone.
ExtUpdate(w) ==
  LET k == wkey[w] IN
  /\ wpc[w] = "extUpdate"
  /\ IF ext[k] /= Absent
     THEN ExtWrite(w, copy[w].data, Synced(w))
     ELSE Return(w, TRUE) /\ UNCHANGED <<ext, copy, faults>>
  /\ UNCHANGED <<store, rv, writes, cache, queueVars, wkey, orig, restarts>>

\* Mutant of ExtDelete: the finalizer is dropped whatever Jenkins answers.
ExtDeleteIgnoresErrors(w) ==
  LET k == wkey[w] IN
  /\ wpc[w] = "extDelete"
  /\ copy' = [copy EXCEPT ![w].fin = FALSE]
  /\ Goto(w, "update")
  /\ \/ ext' = [ext EXCEPT ![k] = Absent] /\ UNCHANGED faults
     \/ Fault /\ UNCHANGED ext
  /\ UNCHANGED <<store, rv, writes, cache, queueVars, wkey, orig, failed, restarts>>

\* Mutant of ExtDelete: only a nil error counts as deleted, a 404 fails.
ExtDelete404Fails(w) ==
  LET k == wkey[w] IN
  /\ wpc[w] = "extDelete"
  /\ IF ext[k] /= Absent
     THEN ExtWrite(w, Absent, /\ copy' = [copy EXCEPT ![w].fin = FALSE]
                              /\ Goto(w, "update")
                              /\ UNCHANGED failed)
     ELSE Return(w, TRUE) /\ UNCHANGED <<ext, copy, faults>>
  /\ UNCHANGED <<store, rv, writes, cache, queueVars, wkey, orig, restarts>>

\* DeleteCredentialInProject: success and 404 both count as deleted and
\* the finalizer is dropped from the copy; any other error keeps it.
ExtDelete(w) ==
  LET k == wkey[w]
      Unfinalize == /\ copy' = [copy EXCEPT ![w].fin = FALSE]
                    /\ Goto(w, "update")
                    /\ UNCHANGED failed
  IN
  /\ wpc[w] = "extDelete"
  /\ IF ext[k] /= Absent
     THEN ExtWrite(w, Absent, Unfinalize)
     ELSE /\ \/ Unfinalize /\ UNCHANGED faults
             \/ Fault /\ Return(w, TRUE) /\ UNCHANGED copy
          /\ UNCHANGED ext
  /\ UNCHANGED <<store, rv, writes, cache, queueVars, wkey, orig, restarts>>

\* Mutant of CurrentVersion: the update does not check resourceVersion.
AnyVersion(k, obj) == store[k] /= Absent

\* The API server accepts an update of k carrying obj's resourceVersion.
CurrentVersion(k, obj) == store[k] /= Absent /\ store[k].rv = obj.rv

\* The final Secrets().Update, issued only if the copy differs from what
\* was read; it fails on a resourceVersion conflict, on a missing object,
\* or on an API server error.
Update(w) ==
  LET k == wkey[w] IN
  /\ wpc[w] = "update"
  /\ \/ /\ copy[w] = orig[w]
        /\ Return(w, FALSE)
        /\ UNCHANGED <<store, rv, faults>>
     \/ /\ copy[w] /= orig[w]
        /\ CurrentVersion(k, copy[w])
        /\ Persist(k, copy[w])
        /\ Return(w, FALSE)
        /\ UNCHANGED faults
     \/ /\ copy[w] /= orig[w]
        /\ ~CurrentVersion(k, copy[w])
        /\ Return(w, TRUE)
        /\ UNCHANGED <<store, rv, faults>>
     \/ /\ copy[w] /= orig[w]
        /\ Fault
        /\ Return(w, TRUE)
        /\ UNCHANGED <<store, rv>>
  /\ UNCHANGED <<writes, cache, ext, queueVars, wkey, orig, copy, restarts>>

\* The end of processNextWorkItem: AddRateLimited on error, Forget on
\* success, then the deferred Done.
FinishWorkItem(w) ==
  /\ wpc[w] = "finish"
  /\ WQ!Finish(wkey[w], failed[w])
  /\ Goto(w, "idle")
  /\ wkey' = [wkey EXCEPT ![w] = NoKey]
  /\ orig' = [orig EXCEPT ![w] = Absent]
  /\ copy' = [copy EXCEPT ![w] = Absent]
  /\ failed' = [failed EXCEPT ![w] = FALSE]
  /\ UNCHANGED <<envVars, faults, restarts>>

-----------------------------------------------------------------------------
(* Crash and restart of the controller process.                            *)

IdleWorkers ==
  /\ wpc' = [w \in Workers |-> "idle"]
  /\ wkey' = [w \in Workers |-> NoKey]
  /\ orig' = [w \in Workers |-> Absent]
  /\ copy' = [w \in Workers |-> Absent]
  /\ failed' = [w \in Workers |-> FALSE]

\* The process dies between two calls and starts again: the informer
\* lists every Secret, fills its cache and runs AddFunc for each, in
\* list order; the queue, the backoff and the workers start empty.
Restart ==
  LET listed == {k \in Keys : store[k] /= Absent} IN
  /\ restarts < MaxRestarts
  /\ restarts' = restarts + 1
  /\ cache' = store
  /\ \E order \in [1 .. Cardinality(listed) -> listed] :
       /\ \A i, j \in DOMAIN order : i /= j => order[i] /= order[j]
       /\ queue' = order
  /\ dirty' = listed
  /\ processing' = {}
  /\ waiting' = {}
  /\ IdleWorkers
  /\ UNCHANGED <<store, rv, writes, ext, faults>>

-----------------------------------------------------------------------------

Init ==
  /\ store = [k \in Keys |-> Absent]
  /\ rv = [k \in Keys |-> 0]
  /\ writes = [k \in Keys |-> 0]
  /\ cache = [k \in Keys |-> Absent]
  /\ ext = [k \in Keys |-> Absent]
  /\ queue = << >>
  /\ dirty = {}
  /\ processing = {}
  /\ waiting = {}
  /\ wpc = [w \in Workers |-> "idle"]
  /\ wkey = [w \in Workers |-> NoKey]
  /\ orig = [w \in Workers |-> Absent]
  /\ copy = [w \in Workers |-> Absent]
  /\ failed = [w \in Workers |-> FALSE]
  /\ faults = 0
  /\ restarts = 0

UserNext ==
  \E k \in Keys :
    \/ \E d \in Data, auto \in BOOLEAN : CreateSecret(k, d, auto)
    \/ \E d \in Data : EditSecret(k, d)
    \/ DeleteSecret(k)

WorkerNext(w) ==
  \/ ProcessNextWorkItem(w)
  \/ Sync(w)
  \/ ExtGet(w)
  \/ ExtCreate(w)
  \/ ExtUpdate(w)
  \/ ExtDelete(w)
  \/ Update(w)
  \/ FinishWorkItem(w)

Next ==
  \/ UserNext
  \/ \E k \in Keys : InformerDeliver(k) \/ BackoffExpires(k)
  \/ \E w \in Workers : WorkerNext(w)
  \/ Restart

\* Workers, the informer and the backoff timers keep running (wait.Until
\* restarts a worker loop, the watch delivers, timers fire); users need not
\* act, and crashes and faults are bounded.
Fairness ==
  /\ \A w \in Workers : WF_vars(WorkerNext(w))
  /\ \A k \in Keys : WF_vars(InformerDeliver(k)) /\ WF_vars(BackoffExpires(k))

Spec == Init /\ [][Next]_vars /\ Fairness

-----------------------------------------------------------------------------
(* Drift in Jenkins.                                                       *)

\* A Jenkins administrator deletes a credential out of band; Jenkins sends
\* no notification.  Counted in the fault budget.
ExternalDrift(k) ==
  /\ ext[k] /= Absent
  /\ Fault
  /\ ext' = [ext EXCEPT ![k] = Absent]
  /\ UNCHANGED <<store, rv, writes, cache, queueVars, workerVars, restarts>>

\* The informer's periodic resync re-delivers each cached Secret as an
\* update from itself to itself; UpdateFunc returns on the equal
\* resourceVersions, so the resync enqueues nothing and changes nothing.
Resync(k) ==
  /\ cache[k] /= Absent
  /\ UNCHANGED vars

\* The controller with Jenkins drifting and the informer resyncing.
DriftNext == Next \/ \E k \in Keys : ExternalDrift(k) \/ Resync(k)

DriftSpec == Init /\ [][DriftNext]_vars /\ Fairness

-----------------------------------------------------------------------------
(* Properties.                                                             *)

TypeOK ==
  /\ store \in [Keys -> Secret \cup {Absent}]
  /\ cache \in [Keys -> Secret \cup {Absent}]
  /\ rv \in [Keys -> Nat]
  /\ writes \in [Keys -> Nat] /\ \A k \in Keys : writes[k] <= MaxWrites[k]
  /\ ext \in [Keys -> Data \cup {Absent}]
  /\ queue \in Seq(Keys)
  /\ dirty \subseteq Keys /\ processing \subseteq Keys /\ waiting \subseteq Keys
  /\ wpc \in [Workers -> {"idle", "sync", "extGet", "extCreate", "extUpdate",
                          "extDelete", "update", "finish"}]
  /\ wkey \in [Workers -> Keys \cup {NoKey}]
  /\ orig \in [Workers -> Secret \cup {Absent}]
  /\ copy \in [Workers -> Secret \cup {Absent}]
  /\ failed \in [Workers -> BOOLEAN]
  /\ faults \in 0 .. MaxFaults /\ restarts \in 0 .. MaxRestarts

\* Two-phase delete (spec section 3, invariant 2): the step that drops the
\* controller's finalizer from a Secret, or lets the API server remove
\* it, leaves no credential in Jenkins.  syncHandler drops the finalizer
\* only when DeleteCredentialInProject succeeded or answered 404, and a
\* lost reply, a conflict or a crash between the delete and the update
\* must not change that.
FinalizerReleasedOnlyWhenGone ==
  [][\A k \in Keys :
       (store[k] /= Absent /\ store[k].fin
        /\ (store'[k] = Absent \/ ~store'[k].fin)) => ext'[k] = Absent]_vars

\* Single flight (spec section 3, invariant 4): two workers never hold the
\* same Secret key at once, whatever the interleaving of the informer's
\* Adds, the workers' Get and Done, the backoff and a restart.
SingleFlight ==
  \A v, w \in Workers :
    v /= w /\ wpc[v] /= "idle" /\ wpc[w] /= "idle" => wkey[v] /= wkey[w]

\* Spec section 3, invariant 3: a Secret whose sync-status says successful
\* carries the hash of the data Jenkins last accepted.  Stated for a live
\* auto-sync Secret whose hash is that of its current data (the case the
\* skip at line 251 trusts): Jenkins holds exactly that data.  The hash is
\* written into the copy before Jenkins is called and persisted only by the
\* final update; a conflict there leaves Jenkins with newer data than the
\* hash records, and an edit back to the hashed data is then skipped.
SyncedHashMeansPushed ==
  \A k \in Keys :
    LET s == store[k] IN
    (s /= Absent /\ ~s.deleting /\ s.autoSync /\ s.synced
     /\ s.hash = ComputeHash(s.data)) => ext[k] = s.data

\* No lost update (spec section 8, conflict retry): a step of a worker
\* never changes a Secret's data, so an edit made while a reconcile was
\* working from an older copy survives the reconcile's update.
WorkersKeepUserData ==
  [][\A w \in Workers :
       WorkerNext(w) =>
         \A k \in Keys : (store[k] /= Absent /\ store'[k] /= Absent)
                           => store'[k].data = store[k].data]_vars

\* The queue's state of each key, as the contract of spec section 4.1
\* sees it: being processed (and added again meanwhile, if dirty), or
\* waiting in the FIFO, or idle (parked keys included).
QueueStatus ==
  [k \in Keys |->
     IF k \in processing
     THEN IF k \in dirty THEN "addedWhileProcessing" ELSE "processing"
     ELSE IF \E i \in DOMAIN queue : queue[i] = k THEN "queued" ELSE "idle"]

Contract == INSTANCE QueueContract WITH status <- QueueStatus

\* The controller's use of the work queue (the informer's Adds, the workers'
\* Get, Done and AddRateLimited, the backoff and the relist of a restart)
\* implements the queue contract: one worker per key, an Add during
\* processing delivered once more after Done, every queued key eventually
\* handed out and every handed-out key eventually Done.
QueueRefinesContract == Contract!Spec

\* A Secret marked for deletion is eventually removed from the API server
\* (its finalizer is dropped), once Jenkins stops failing.
DeletionCompletes ==
  \A k \in Keys :
    (store[k] /= Absent /\ store[k].deleting) ~> (store[k] = Absent)

\* Convergence: once users stop, every live Secret in a DevOps namespace
\* ends up finalized and synced with the hash of its data, with a
\* credential in Jenkins.  That the credential then holds the Secret's
\* data is SyncedHashMeansPushed, which a conflict breaks for good.
Converges ==
  <>[](\A k \in AdminKeys :
         LET s == store[k] IN
         (s /= Absent /\ ~s.deleting) =>
           /\ s.fin /\ s.synced /\ s.hash = ComputeHash(s.data)
           /\ ext[k] /= Absent)

\* No orphan (spec section 3, invariant 2: the finalizer is added before
\* the first attempt to create the credential): a Secret that is gone
\* from the API server has no credential left in Jenkins.
NoOrphanCredential ==
  \A k \in Keys : store[k] = Absent => ext[k] = Absent

\* Drift is corrected (spec section 4.2: the periodic full-list enqueue
\* picks up external drift the external system does not notify about): a
\* live Secret in a DevOps namespace whose credential is missing from
\* Jenkins eventually has it back, unless it is deleted.  The resync and
\* the hash short-circuit of syncHandler decide whether this holds.
DriftRepaired ==
  \A k \in AdminKeys :
    (store[k] /= Absent /\ ~store[k].deleting /\ ext[k] = Absent)
      ~> (ext[k] /= Absent \/ store[k] = Absent \/ store[k].deleting)

=============================================================================
