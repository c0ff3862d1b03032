------------------------- MODULE MCLabelsController -------------------------
(* Model-checking instance of LabelsController: two label lists and two   *)
(* contents of the rest of the data, so that a stale write is visible.    *)
EXTENDS LabelsController, TLC

MCLabelVals == {"l1", "l2"}
MCOtherVals == {"o1", "o2"}
MCMaxEdits == 3
MCMaxJenkinsChanges == 2
MCMaxFaults == 1

=============================================================================
