\* Deletion of a DevOpsProject when the finalizer update fails once.
CONSTANTS
  Projects = {p1}
  Workers = {w1, w2}
  MaxRV <- MCMaxRV
  MaxNsEdits <- MCMaxNsEdits
  MaxFaults <- MCMaxFaults
  MaxRestarts <- MCMaxRestarts
  Absent = Absent
  NoNs = NoNs
  NoLabel = NoLabel
  NoKey = NoKey

SPECIFICATION Spec
PROPERTY DeletionCompletes

\* With the users' writes, the faults and the crashes used up, the workers
\* block in Get on an empty queue, as the real controller idles.
CHECK_DEADLOCK FALSE
