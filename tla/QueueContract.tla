---------------------------- MODULE QueueContract ----------------------------
(***************************************************************************)
(* What the Change Queue promises its users (spec section 4.1), abstractly: *)
(* each key is idle, queued, being processed, or being processed and added  *)
(* again meanwhile.  A key is handed to one worker at a time, an Add while  *)
(* it is processed is delivered once more after Done, a queued key is       *)
(* eventually handed out and a processed key is eventually Done.  A crash   *)
(* of the process loses the queue, and the relist queues some keys again.   *)
(***************************************************************************)

CONSTANT Keys

VARIABLE status

Status == {"idle", "queued", "processing", "addedWhileProcessing"}

Init == status = [k \in Keys |-> "idle"]

\* Add(k): an idle key is queued; a key being processed is marked to be
\* delivered again; a queued key stays queued once.
Add(k) ==
  \/ status[k] = "idle" /\ status' = [status EXCEPT ![k] = "queued"]
  \/ status[k] = "processing"
     /\ status' = [status EXCEPT ![k] = "addedWhileProcessing"]

\* Get hands a queued key to a worker.
Get(k) ==
  /\ status[k] = "queued"
  /\ status' = [status EXCEPT ![k] = "processing"]

\* Done(k): the key is idle again, or queued if it was added meanwhile.
Done(k) ==
  \/ status[k] = "processing" /\ status' = [status EXCEPT ![k] = "idle"]
  \/ status[k] = "addedWhileProcessing"
     /\ status' = [status EXCEPT ![k] = "queued"]

\* The process restarts: the queue is lost and some keys are queued again.
Crash == status' \in [Keys -> {"idle", "queued"}]

Next == Crash \/ \E k \in Keys : Add(k) \/ Get(k) \/ Done(k)

Spec ==
  /\ Init /\ [][Next]_status
  /\ \A k \in Keys : WF_status(Get(k)) /\ WF_status(Done(k))

=============================================================================
