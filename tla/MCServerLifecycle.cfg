\* A request, a client and a job in two processes that are signalled or run
\* into the timer at any point; the job is handed out twice, and two calls
\* fail.
SPECIFICATION Spec
CONSTANTS
  r1 = r1
  c1 = c1
  j1 = j1
  Api = Api
  Worker = Worker
  None = None
  Requests = {r1}
  Clients = {c1}
  Jobs = {j1}
  LastEntry = 3
  Patient = FALSE
  MaxRuns = 2
  MaxFailures = 2
INVARIANTS
  ResourcesOutliveUsers
  CleanExitCutsNothing
  CleanExitKeepsOutcome
  ToldIsOnRecord
  ToldHowItEnds
PROPERTY
  SignalEndsProcess
