\* Two schedules, one with an expression the queue rejects, two removals, a
\* starting worker, and a call that fails or a process that dies.
SPECIFICATION FairSpec
CONSTANTS
  Schedules = {good, bad}
  BadCron = {bad}
  Legacy = {old}
  Removers = {m1, m2}
  Workers = {w1}
  None = None
  MaxFailures = 1
INVARIANTS
  OrphanNeedsOverlap
  SilentNeedsCause
PROPERTIES
  JobRemovedForCause
  OrphansCleaned
