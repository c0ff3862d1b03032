----------------------------- MODULE ListHandler -----------------------------
(***************************************************************************)
(* The PipelineRun list handler                                            *)
(* (src/pkg/kapis/devops/v1alpha3/pipelinerun/listhandler.go): the         *)
(* comparator the list is sorted with, and the transformer applied to      *)
(* each listed PipelineRun.                                                *)
(*                                                                         *)
(* A PipelineRun is abstracted to what the comparator reads: its name      *)
(* (as its rank in strings.Compare order), its creation time and its       *)
(* start time, which is nil or zero until the run starts (NoTime).  For    *)
(* the transformer, to its annotations: no map at all (NilMap), a map      *)
(* without the status key (NoStatus), or the status it holds.              *)
(***************************************************************************)
EXTENDS Integers, FiniteSets

CONSTANTS
  Names,     \* PipelineRun names, as integers in strings.Compare order
  Times,     \* creation and start times, as integers
  NoTime,    \* model value: Status.StartTime is nil or zero
  Statuses,  \* values of the Jenkins run status annotation
  NilMap,    \* model value: the PipelineRun has no annotations map
  NoStatus,  \* model value: the map has no status key
  Panic      \* model value: the handler panicked

PipelineRun == [name: Names, created: Times, start: Times \cup {NoTime}]

Annotations == {NilMap, NoStatus} \cup Statuses

VARIABLES
  transformed,  \* the annotations of the last PipelineRun transformed, or Panic
  runSet,       \* the PipelineRuns of the last list request
  listed        \* the order they were listed in

vars == <<transformed, runSet, listed>>

-----------------------------------------------------------------------------
(* The code.                                                               *)

\* The time a run is ordered by: its start time, or its creation time when
\* the start time is nil or zero.
OrderTime(pr) == IF pr.start = NoTime THEN pr.created ELSE pr.start

\* Mutant of Comparator: times only, no tie-break on the name.
ComparatorNoTieBreak(left, right) == OrderTime(left) > OrderTime(right)

\* Comparator: later times first; equal times are ordered by name.
Comparator(left, right) ==
  IF OrderTime(left) /= OrderTime(right)
  THEN OrderTime(left) > OrderTime(right)
  ELSE left.name < right.name

\* Transformer, on a PipelineRun with annotations a: without a status
\* annotation, the status is read from the run's ConfigMap store (opening
\* the store may fail, and the error is only logged) and written into the
\* annotations map, which panics when there is no map.
Transform(a, storeOk, status) ==
  transformed' =
    CASE a \in Statuses -> a
      [] ~storeOk -> a
      [] a = NilMap -> Panic
      [] OTHER -> status

\* The orders a list of the runs rs can be put in.
Orderings(rs) ==
  {s \in [1 .. Cardinality(rs) -> rs] : \A i, j \in DOMAIN s : i /= j => s[i] /= s[j]}

\* An order sort.Slice may leave the runs in: no run is placed after one
\* the comparator puts behind it.
Sorted(s) == \A i, j \in DOMAIN s : i < j => ~Comparator(s[j], s[i])

-----------------------------------------------------------------------------

\* Sets of PipelineRuns with distinct names: for each name, no run or the
\* times of the one run of that name, which starts no earlier than it is
\* created.
RunTimes ==
  {t \in [created: Times, start: Times \cup {NoTime}] :
     t.start = NoTime \/ t.start >= t.created}

RunSets ==
  {{[name |-> n, created |-> f[n].created, start |-> f[n].start] :
      n \in {m \in Names : f[m] /= NoTime}} : f \in [Names -> RunTimes \cup {NoTime}]}

\* A list request on the runs rs (names are unique in a namespace): they
\* are sorted with the Comparator, newest first, by sort.Slice, which is
\* not stable and may leave equal elements in any order.
ListRuns(rs) ==
  /\ runSet' = rs
  /\ listed' \in {s \in Orderings(rs) : Sorted(s)}
  /\ UNCHANGED transformed

Init == transformed = NoStatus /\ runSet = {} /\ listed = << >>

Next ==
  \/ \E a \in Annotations, ok \in BOOLEAN, s \in Statuses :
       Transform(a, ok, s) /\ UNCHANGED <<runSet, listed>>
  \/ \E rs \in RunSets : ListRuns(rs)

Spec == Init /\ [][Next]_vars

-----------------------------------------------------------------------------
(* Properties.                                                             *)

TypeOK ==
  /\ transformed \in Annotations \cup {Panic}
  /\ runSet \subseteq PipelineRun
  /\ listed \in Orderings(runSet)

\* "the order result is stable forever" (the Comparator's comment): the
\* runs of a list request are listed in the one order every sort by the
\* Comparator gives, whatever order the cache lists them in and however
\* sort.Slice moves elements it finds equal, so pages of the same runs
\* neither repeat nor skip runs between requests.
OneOrder ==
  \A s \in Orderings(runSet) : Sorted(s) => s = listed

=============================================================================
