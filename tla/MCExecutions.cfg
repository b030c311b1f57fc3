\* One execution, made by a request or by the attempts of one scheduled job,
\* with a failed call, a crash and a lost lock in any order: enough to strand
\* it, to run it twice at once and to use up its stalls.
SPECIFICATION FairSpec
CONSTANTS
  e1 = e1
  t1 = t1
  api = api
  worker = worker
  sa = sa
  sw = sw
  None = None
  Execs = {e1}
  Ticks = {t1}
  Procs = {api, worker}
  Slots = {sa, sw}
  ProcOf <- OneSlotEach
  ApiProc = api
  MaxAttempts = 3
  MaxStalled = 1
  MaxFailedCalls = 1
  MaxCrashes = 1
  MaxLockLosses = 1
INVARIANTS
  QueueAndRowAgree
  StrandedNeedsFailure
  RunsBounded
  OrphanNeedsFailure
  TickServed
  OneExecutionPerTick
  StaleColumnsNeedRetry
PROPERTIES
  ImplementsLifecycle
  JobsSettle
