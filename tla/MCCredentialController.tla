------------------------ MODULE MCCredentialController ------------------------
(* Model-checking instance of CredentialController.  One Secret in a      *)
(* DevOps namespace contended by two workers (Run accepts any worker      *)
(* count; Secrets share nothing but the queue and the workers), two       *)
(* payloads so that edits are real, three writes by users (a create and  *)
(* two edits, which is an edit and its undo, or a create, an edit and a   *)
(* delete), and one crash.                                                 *)
EXTENDS CredentialController

MCMaxWrites == [k \in Keys |-> 3]
MCMaxRestarts == 1

\* The runs that check the code's own claims let one call fail.
MCMaxFaults == 1

\* The run of the properties that hold lets two calls fail, so that a lost
\* reply can meet a conflict or a second failure in the same reconcile, and
\* a deletion or a convergence must still complete after both.
MCPassMaxFaults == 2

=============================================================================
