\* The Jenkins agent labels reconciler: a ConfigMap created, edited and
\* deleted by users, labels changing in Jenkins, one failed call.
CONSTANTS
  LabelVals <- MCLabelVals
  OtherVals <- MCOtherVals
  MaxEdits <- MCMaxEdits
  MaxJenkinsChanges <- MCMaxJenkinsChanges
  MaxFaults <- MCMaxFaults
  Req = Req
  Absent = Absent
  NoData = NoData

SPECIFICATION Spec
INVARIANT TypeOK
PROPERTY ReconcilerKeepsOtherData
PROPERTY LabelsEventuallySynced

\* With the ConfigMap deleted and the users' budget used up, no request is
\* ever queued and the worker blocks in Get, as the real controller idles.
CHECK_DEADLOCK FALSE
