------------------------------ MODULE WorkQueue ------------------------------
(***************************************************************************)
(* The rate-limiting work queue every controller of this repository is     *)
(* built on (workqueue.NewNamedRateLimitingQueue).  Its code is the        *)
(* client-go library, not this repository, so the operators below follow   *)
(* the queue contract of spec section 4.1: a FIFO of keys with a dirty set  *)
(* (keys added and not yet handed out) and a processing set (keys handed    *)
(* out and not yet Done), so that a key is processed by one worker at a    *)
(* time and an Add during processing is redelivered exactly once after     *)
(* Done.  AddRateLimited parks the key in the rate limiter's waiting set;   *)
(* the backoff delay itself is time and is not modelled.                   *)
(*                                                                         *)
(* The operators are action fragments over the queue variables, used by   *)
(* the controller modules through INSTANCE.                                *)
(***************************************************************************)
EXTENDS Sequences

VARIABLES
  queue,         \* FIFO of keys ready to be handed out
  dirty,         \* keys added and not yet handed out by Get
  processing,    \* keys handed out by Get and not yet Done
  waiting,       \* keys parked by AddRateLimited until their backoff expires
  shuttingDown   \* ShutDown has been called

-----------------------------------------------------------------------------
(* Queue operations, as action fragments on queue, dirty and processing.   *)

\* Mutant of Add: a key being processed is queued at once.
AddWhileProcessing(k) ==
  IF shuttingDown \/ k \in dirty
  THEN UNCHANGED <<queue, dirty, processing>>
  ELSE /\ dirty' = dirty \cup {k}
       /\ queue' = Append(queue, k)
       /\ UNCHANGED processing

\* Add(k): a no-op once shutting down or while k is already dirty; a key
\* being processed is only marked dirty and is queued again by Done.
Add(k) ==
  IF shuttingDown \/ k \in dirty
  THEN UNCHANGED <<queue, dirty, processing>>
  ELSE /\ dirty' = dirty \cup {k}
       /\ queue' = IF k \in processing THEN queue ELSE Append(queue, k)
       /\ UNCHANGED processing

\* Get returning k: the head of the queue moves to processing.
Get(k) ==
  /\ queue /= << >>
  /\ k = Head(queue)
  /\ queue' = Tail(queue)
  /\ processing' = processing \cup {k}
  /\ dirty' = dirty \ {k}

\* Done(k): k leaves processing; if it was added meanwhile, it is queued.
Done(k) ==
  /\ processing' = processing \ {k}
  /\ queue' = IF k \in dirty THEN Append(queue, k) ELSE queue
  /\ UNCHANGED dirty

\* The end of processNextWorkItem: AddRateLimited on failure (ignored once
\* shutting down), Forget on success (it resets the backoff, which is not
\* modelled), and the deferred Done in every case.
Finish(k, failed) ==
  /\ waiting' = IF failed /\ ~shuttingDown THEN waiting \cup {k} ELSE waiting
  /\ Done(k)

\* The backoff of a parked key expires and the delaying queue Adds it.
BackoffExpires(k) ==
  /\ k \in waiting
  /\ waiting' = waiting \ {k}
  /\ Add(k)

=============================================================================
