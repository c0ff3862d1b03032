------------------------- MODULE MCProjectController -------------------------
(* Model-checking instance of ProjectController: one project (projects    *)
(* share no state but the workers: each has its own namespace name and    *)
(* folder), two workers, enough resourceVersions for a create, the        *)
(* controller's update, a delete, the finalizer removal and a re-creation *)
(* with its update; one namespace edit, one fault, one crash.             *)
EXTENDS ProjectController, TLC

MCMaxRV == 6
MCMaxNsEdits == 1
MCNoNsEdits == 0
MCMaxFaults == 1
MCMaxRestarts == 1

=============================================================================
