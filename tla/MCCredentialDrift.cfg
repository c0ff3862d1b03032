\* Checks the spec's claim that the periodic resync corrects a credential
\* deleted from Jenkins out of band (the one fault of the budget).
CONSTANTS
  Keys = {k1}
  AdminKeys = {k1}
  Workers = {w1, w2}
  Data = {d1, d2}
  MaxWrites <- MCMaxWrites
  MaxFaults <- MCMaxFaults
  MaxRestarts <- MCMaxRestarts
  Absent = Absent
  NoKey = NoKey

SPECIFICATION DriftSpec

PROPERTY DriftRepaired

\* With the users' writes, the fault and the crash used up, the workers
\* block in Get on an empty queue, as the real controller idles.
CHECK_DEADLOCK FALSE
