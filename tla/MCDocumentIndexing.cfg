\* One document of two chunks, with two failed calls, a crash and a lost lock.
SPECIFICATION FairSpec
CONSTANTS
  d1 = d1
  api = api
  worker = worker
  sa = sa
  sw = sw
  None = None
  Docs = {d1}
  NumChunks = 2
  Procs = {api, worker}
  Slots = {sa, sw}
  ProcOf <- OneSlotEach
  ApiProc = api
  MaxAttempts = 3
  MaxStalled = 1
  MaxFailedCalls = 2
  MaxCrashes = 1
  MaxLockLosses = 1
INVARIANTS
  ReadyIsComplete
  DocumentHasFile
  LeftoverNeedsFailure
  SearchFollowsStatus
PROPERTY
  ImplementsLifecycle
  AcceptedGetsOutcome
