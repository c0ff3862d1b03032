\* The credential controller's safety and liveness: one Secret in a DevOps
\* namespace, two workers, two faults, one crash.
CONSTANTS
  Keys = {k1}
  AdminKeys = {k1}
  Data = {d1, d2}
  Workers = {w1, w2}
  MaxWrites <- MCMaxWrites
  MaxFaults <- MCPassMaxFaults
  MaxRestarts <- MCMaxRestarts
  Absent = Absent
  NoKey = NoKey

SPECIFICATION Spec
INVARIANT TypeOK
INVARIANT SingleFlight
PROPERTY FinalizerReleasedOnlyWhenGone
PROPERTY WorkersKeepUserData
PROPERTY DeletionCompletes
PROPERTY Converges
PROPERTY QueueRefinesContract

\* With the users' writes, the faults and the crash used up, the workers
\* block in Get on an empty queue, as the real controller idles.
CHECK_DEADLOCK FALSE
