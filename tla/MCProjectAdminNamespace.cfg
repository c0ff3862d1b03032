\* The admin namespace of a project deleted and created again, with no
\* user edits of namespaces.
CONSTANTS
  Projects = {p1}
  Workers = {w1, w2}
  MaxRV <- MCMaxRV
  MaxNsEdits <- MCNoNsEdits
  MaxFaults <- MCMaxFaults
  MaxRestarts <- MCMaxRestarts
  Absent = Absent
  NoNs = NoNs
  NoLabel = NoLabel
  NoKey = NoKey

SPECIFICATION Spec
INVARIANT SyncedAdminNamespaceExists

\* With the users' writes, the faults and the crashes used up, the workers
\* block in Get on an empty queue, as the real controller idles.
CHECK_DEADLOCK FALSE
