\* A project deleted while its first sync is under way.
CONSTANTS
  Projects = {p1}
  Workers = {w1, w2}
  MaxRV <- MCMaxRV
  MaxNsEdits <- MCMaxNsEdits
  MaxFaults <- MCMaxFaults
  MaxRestarts <- MCMaxRestarts
  Absent = Absent
  NoNs = NoNs
  NoLabel = NoLabel
  NoKey = NoKey

SPECIFICATION Spec
INVARIANT NoOrphanFolder

\* With the users' writes, the faults and the crashes used up, the workers
\* block in Get on an empty queue, as the real controller idles.
CHECK_DEADLOCK FALSE
