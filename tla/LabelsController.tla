--------------------------- MODULE LabelsController ---------------------------
(***************************************************************************)
(* The Jenkins agent labels reconciler (AgentLabelsReconciler in           *)
(* src/controllers/jenkins/config/labels_controller.go).  It watches one   *)
(* ConfigMap (the event filter keeps only that name and namespace), and on *)
(* every request reads the ConfigMap from the manager's cache, asks        *)
(* Jenkins for its agent labels, and when the joined labels differ from    *)
(* the ConfigMap's labels key writes them with a conditional Update.  It   *)
(* always asks to be requeued after five minutes, "to always get the       *)
(* latest Jenkins labels": Jenkins sends no events.                        *)
(*                                                                         *)
(* The ConfigMap is its labels key (a joined label list, or NoData when    *)
(* the key is missing), the rest of its data (owned by whoever installed   *)
(* it) and its resourceVersion.  controller-runtime's queue is the         *)
(* WorkQueue module with the single request; MaxConcurrentReconciles is   *)
(* left at its default of one, so there is one worker.  On error the       *)
(* request is requeued rate-limited and the result is ignored; on success  *)
(* it is requeued after RequeueAfter: both park it in the delaying queue.  *)
(***************************************************************************)
EXTENDS Naturals, Sequences, FiniteSets

CONSTANTS
  LabelVals,          \* joined label lists Jenkins may report
  OtherVals,          \* contents of the rest of the ConfigMap's data
  MaxEdits,           \* bound on user creates, deletes and edits
  MaxJenkinsChanges,  \* bound on changes of the labels in Jenkins
  MaxFaults,          \* bound on failed calls to Jenkins or the API server
  Req,                \* model value: the request for the target ConfigMap
  Absent,             \* model value: no ConfigMap
  NoData              \* model value: the labels key is missing

VARIABLES
  store,     \* the ConfigMap in the API server, or Absent
  rv,        \* the API server's resourceVersion counter
  cache,     \* the manager's informer copy of the ConfigMap
  jenkins,   \* the joined agent labels Jenkins reports
  queue, dirty, processing, waiting,  \* controller-runtime's work queue
  pc,        \* the worker: "idle", "reconcile", "getLabels" or "update"
  cm,        \* the ConfigMap the running Reconcile works on
  edits, jenkinsChanges, faults

clusterVars == <<store, rv, cache, jenkins>>
queueVars == <<queue, dirty, processing, waiting>>
workerVars == <<pc, cm>>
budgetVars == <<edits, jenkinsChanges, faults>>
vars == <<clusterVars, queueVars, workerVars, budgetVars>>

WQ == INSTANCE WorkQueue WITH shuttingDown <- FALSE

ConfigMap == [labels: LabelVals \cup {NoData}, other: OtherVals, rv: Nat]

Version(o) == IF o = Absent THEN 0 ELSE o.rv

-----------------------------------------------------------------------------
(* Users, Jenkins and the manager's informer.                              *)

\* The ConfigMap is created (by the installer) without the labels key.
CreateConfigMap(o) ==
  /\ store = Absent /\ edits < MaxEdits
  /\ store' = [labels |-> NoData, other |-> o, rv |-> rv + 1]
  /\ rv' = rv + 1 /\ edits' = edits + 1
  /\ UNCHANGED <<cache, jenkins, queueVars, workerVars, jenkinsChanges, faults>>

DeleteConfigMap ==
  /\ store /= Absent /\ edits < MaxEdits
  /\ store' = Absent /\ edits' = edits + 1
  /\ UNCHANGED <<rv, cache, jenkins, queueVars, workerVars, jenkinsChanges,
                 faults>>

\* A user or another controller rewrites the ConfigMap's data.
EditConfigMap(l, o) ==
  /\ store /= Absent /\ edits < MaxEdits
  /\ <<l, o>> /= <<store.labels, store.other>>
  /\ store' = [labels |-> l, other |-> o, rv |-> rv + 1]
  /\ rv' = rv + 1 /\ edits' = edits + 1
  /\ UNCHANGED <<cache, jenkins, queueVars, workerVars, jenkinsChanges, faults>>

\* An agent template is added or removed in Jenkins; no event follows.
JenkinsChange(l) ==
  /\ jenkinsChanges < MaxJenkinsChanges /\ l /= jenkins
  /\ jenkins' = l /\ jenkinsChanges' = jenkinsChanges + 1
  /\ UNCHANGED <<store, rv, cache, queueVars, workerVars, edits, faults>>

\* The informer applies the latest change to the cache, and the handler
\* enqueues the request: getSpecificConfigMapPredicate lets create, update
\* and delete events of the target ConfigMap through.
InformerDeliver ==
  /\ Version(cache) /= Version(store)
  /\ cache' = store
  /\ WQ!Add(Req)
  /\ UNCHANGED <<store, rv, jenkins, waiting, workerVars, budgetVars>>

\* The rate limiter's or RequeueAfter's delay passes.
BackoffExpires ==
  /\ WQ!BackoffExpires(Req)
  /\ UNCHANGED <<clusterVars, workerVars, budgetVars>>

-----------------------------------------------------------------------------
(* The worker.                                                             *)

Fault == faults < MaxFaults /\ faults' = faults + 1

\* Mutant of FinishReconcile: the deferred Done is missing.
FinishReconcileSkipsDone(err) ==
  /\ waiting' = waiting \cup {Req}
  /\ UNCHANGED <<queue, dirty, processing>>
  /\ pc' = "idle" /\ cm' = Absent

\* Mutant of FinishReconcile: a successful Reconcile is not requeued.
FinishReconcileForgets(err) ==
  /\ WQ!Finish(Req, err)
  /\ pc' = "idle" /\ cm' = Absent

\* The end of Reconcile as controller-runtime handles it: an error is
\* requeued rate-limited (the RequeueAfter set for a missing ConfigMap is
\* ignored), and success sets RequeueAfter five minutes; either way the
\* request waits in the delaying queue, then Done.
FinishReconcile(err) ==
  /\ WQ!Finish(Req, TRUE)
  /\ pc' = "idle" /\ cm' = Absent

\* processNextWorkItem hands the request to Reconcile.
ProcessNextWorkItem ==
  /\ pc = "idle"
  /\ WQ!Get(Req)
  /\ pc' = "reconcile"
  /\ UNCHANGED <<clusterVars, waiting, cm, budgetVars>>

\* getConfigMap reads the cache: NotFound is returned as the error.
GetConfigMap ==
  /\ pc = "reconcile"
  /\ IF cache = Absent
     THEN FinishReconcile(TRUE)
     ELSE /\ cm' = cache /\ pc' = "getLabels"
          /\ UNCHANGED queueVars
  /\ UNCHANGED <<clusterVars, budgetVars>>

\* setLabelsToConfigMap: the labels key is set to the joined labels;
\* changed is whether it differed.
SetLabelsToConfigMap(labels, c) == [c EXCEPT !.labels = labels]

\* getLabels asks Jenkins; then the ConfigMap is updated only if changed.
GetLabels ==
  /\ pc = "getLabels"
  /\ \/ /\ Fault
        /\ FinishReconcile(TRUE)
     \/ /\ cm.labels /= jenkins
        /\ cm' = SetLabelsToConfigMap(jenkins, cm) /\ pc' = "update"
        /\ UNCHANGED <<queueVars, faults>>
     \/ /\ cm.labels = jenkins
        /\ FinishReconcile(FALSE)
        /\ UNCHANGED faults
  /\ UNCHANGED <<clusterVars, edits, jenkinsChanges>>

\* Whether an Update of c succeeds: the ConfigMap exists and c carries its
\* current resourceVersion.
Current(c) == store /= Absent /\ store.rv = c.rv

\* Mutant of Update: the write ignores the resourceVersion it read.
UpdateIgnoresVersion ==
  /\ pc = "update"
  /\ \/ /\ store /= Absent
        /\ store' = [cm EXCEPT !.rv = rv + 1] /\ rv' = rv + 1
        /\ FinishReconcile(FALSE)
        /\ UNCHANGED faults
     \/ /\ store = Absent
        /\ FinishReconcile(TRUE)
        /\ UNCHANGED <<store, rv, faults>>
  /\ UNCHANGED <<cache, jenkins, edits, jenkinsChanges>>

\* r.Update: a conditional write of the changed ConfigMap.  A conflict or
\* NotFound is an error; a failed call may or may not have taken effect.
Update ==
  /\ pc = "update"
  /\ \/ /\ Current(cm)
        /\ store' = [cm EXCEPT !.rv = rv + 1] /\ rv' = rv + 1
        /\ \/ FinishReconcile(FALSE) /\ UNCHANGED faults
           \/ Fault /\ FinishReconcile(TRUE)
     \/ /\ ~Current(cm)
        /\ FinishReconcile(TRUE)
        /\ UNCHANGED <<store, rv, faults>>
     \/ /\ Fault
        /\ FinishReconcile(TRUE)
        /\ UNCHANGED <<store, rv>>
  /\ UNCHANGED <<cache, jenkins, edits, jenkinsChanges>>

-----------------------------------------------------------------------------

Init ==
  /\ store = Absent /\ rv = 0 /\ cache = Absent
  /\ jenkins \in LabelVals
  /\ queue = << >> /\ dirty = {} /\ processing = {} /\ waiting = {}
  /\ pc = "idle" /\ cm = Absent
  /\ edits = 0 /\ jenkinsChanges = 0 /\ faults = 0

EnvNext ==
  \/ \E o \in OtherVals : CreateConfigMap(o)
  \/ DeleteConfigMap
  \/ \E l \in LabelVals \cup {NoData}, o \in OtherVals : EditConfigMap(l, o)
  \/ \E l \in LabelVals : JenkinsChange(l)

WorkerNext == ProcessNextWorkItem \/ GetConfigMap \/ GetLabels \/ Update

Next ==
  \/ EnvNext
  \/ InformerDeliver \/ BackoffExpires
  \/ WorkerNext

\* The worker loops while the manager runs, the informer keeps watching
\* and the delaying queue's timers fire.
Fairness ==
  /\ WF_vars(WorkerNext)
  /\ WF_vars(InformerDeliver)
  /\ WF_vars(BackoffExpires)

Spec == Init /\ [][Next]_vars /\ Fairness

-----------------------------------------------------------------------------
(* Properties.                                                             *)

TypeOK ==
  /\ store \in ConfigMap \cup {Absent} /\ cache \in ConfigMap \cup {Absent}
  /\ rv \in Nat /\ jenkins \in LabelVals
  /\ pc \in {"idle", "reconcile", "getLabels", "update"}
  /\ cm \in ConfigMap \cup {Absent}
  /\ (pc \in {"getLabels", "update"}) = (cm /= Absent)
  /\ queue \in Seq({Req}) /\ processing = IF pc = "idle" THEN {} ELSE {Req}
  /\ edits \in 0 .. MaxEdits /\ jenkinsChanges \in 0 .. MaxJenkinsChanges
  /\ faults \in 0 .. MaxFaults

\* No lost update: a write by the reconciler (which works on a ConfigMap it
\* read from a cache that may lag) changes only the labels key of the
\* ConfigMap as it is now; it never brings back data another writer has
\* since changed, nor recreates a deleted ConfigMap.
ReconcilerKeepsOtherData ==
  [][pc = "update" /\ pc' = "idle" /\ store' /= store =>
       /\ store /= Absent /\ store' /= Absent
       /\ store'.other = store.other]_vars

\* Once Jenkins and the users stop changing things, the ConfigMap, while it
\* exists, ends up holding exactly the labels Jenkins reports, although
\* Jenkins sends no event when its labels change.
LabelsEventuallySynced ==
  <>[](store /= Absent => store.labels = jenkins)

=============================================================================
