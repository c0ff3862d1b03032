\* Checks the spec's claim (section 3, invariant 3) that a synced Secret's
\* hash is that of the data Jenkins last accepted.
CONSTANTS
  Keys = {k1}
  AdminKeys = {k1}
  Workers = {w1, w2}
  Data = {d1, d2}
  MaxWrites <- MCMaxWrites
  MaxFaults <- MCMaxFaults
  MaxRestarts <- MCMaxRestarts
  Absent = Absent
  NoKey = NoKey

SPECIFICATION Spec

INVARIANT SyncedHashMeansPushed

CHECK_DEADLOCK FALSE
