\* Where a retry stores a chunk a second time.
SPECIFICATION Spec
CONSTANTS
  d1 = d1
  api = api
  worker = worker
  sa = sa
  sw = sw
  None = None
  Docs = {d1}
  NumChunks = 2
  Procs = {api, worker}
  Slots = {sa, sw}
  ProcOf <- OneSlotEach
  ApiProc = api
  MaxAttempts = 3
  MaxStalled = 1
  MaxFailedCalls = 1
  MaxCrashes = 0
  MaxLockLosses = 0
INVARIANT RetriesIdempotent
