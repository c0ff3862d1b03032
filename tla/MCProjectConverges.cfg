\* Liveness of the DevOpsProject controller: one project, two workers, no
\* user edits of namespaces (a namespace that keeps the project's name but
\* loses its label makes every later create fail with AlreadyExists).
CONSTANTS
  Projects = {p1}
  Workers = {w1, w2}
  MaxRV <- MCMaxRV
  MaxNsEdits <- MCNoNsEdits
  MaxFaults <- MCMaxFaults
  MaxRestarts <- MCMaxRestarts
  Absent = Absent
  NoNs = NoNs
  NoLabel = NoLabel
  NoKey = NoKey

SPECIFICATION Spec
PROPERTY Converges

\* With the users' writes, the faults and the crashes used up, the workers
\* block in Get on an empty queue, as the real controller idles.
CHECK_DEADLOCK FALSE
