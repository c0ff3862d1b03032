\* Checks the spec's claim that the finalizer is in place before the first
\* create in Jenkins, in the form that matters: no credential outlives its
\* Secret.
CONSTANTS
  Keys = {k1}
  AdminKeys = {k1}
  Workers = {w1, w2}
  Data = {d1, d2}
  MaxWrites <- MCMaxWrites
  MaxFaults <- MCMaxFaults
  MaxRestarts <- MCMaxRestarts
  Absent = Absent
  NoKey = NoKey

SPECIFICATION Spec

INVARIANT NoOrphanCredential

CHECK_DEADLOCK FALSE
