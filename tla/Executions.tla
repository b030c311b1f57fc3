----------------------------- MODULE Executions -----------------------------
(***************************************************************************)
(* Workflow executions: the API handler that creates one and enqueues its  *)
(* job, the scheduler's jobs that do the same from inside a worker, and    *)
(* the processor that runs a job and writes the outcome to the row.        *)
(*                                                                         *)
(* One action is one awaited call (a Prisma statement, a queue command) of *)
(* triggerExecution or processWorkflowJob, with the code up to the next    *)
(* await.  A call may be refused, or take effect and lose its reply; a     *)
(* process may die between two calls (see Platform).                       *)
(***************************************************************************)
EXTENDS Platform

CONSTANTS
  Execs,           \* execution ids; the execute-workflow job of e is named e
  Ticks            \* firings of repeatable schedules: scheduled-workflow jobs

JobIds == Execs \cup Ticks

User == "user"

ASSUME ConstantsAssumption ==
  /\ Execs \cap Ticks = {}
  /\ None \notin JobIds
  /\ User \notin Ticks

VARIABLES
  row,          \* row[e]: the workflow_executions row of e
  trigger,      \* trigger[e]: the request handler creating e
  published,    \* does the workflow have a published version?
  warned,       \* ticks that logged "No published version found"
  slot,         \* slot[s]: the processor in slot s
  runs          \* runs[e]: how often the engine was started for e

vars == <<row, trigger, published, warned, job, slot, runs,
          failedCalls, crashes, lockLosses>>

-----------------------------------------------------------------------------
(* State.                                                                  *)

Status   == {"NONE", "PENDING", "RUNNING", "SUCCESS", "FAILED"}
Outcomes == {"SUCCESS", "FAILED"}

(* started, completed and error say whether startedAt, completedAt and     *)
(* errorMessage are non-null; by is triggeredBy, which for a scheduled     *)
(* execution is refined here to the tick that created it.                  *)
Row == [status : Status, started : BOOLEAN, completed : BOOLEAN,
        error : BOOLEAN, by : Ticks \cup {User, None}]

NoRow == [status |-> "NONE", started |-> FALSE, completed |-> FALSE,
          error |-> FALSE, by |-> None]

PendingRow(who) == [NoRow EXCEPT !.status = "PENDING", !.by = who]

(* pc of a processor: the call it is about to make.                        *)
ScheduledPc == {"findPublished", "createExecution", "enqueue"}
RunPc       == {"loadVersion", "engine", "markSuccess", "markFailed", "catch"}
EndPc       == {"complete", "throw"}
SlotPc      == {"idle", "markRunning"} \cup ScheduledPc \cup RunPc \cup EndPc

(* fresh is the execution a scheduled-workflow job has created.            *)
Slot == [pc : SlotPc, job : JobIds \cup {None}, fresh : Execs \cup {None}]

Idle == [pc |-> "idle", job |-> None, fresh |-> None]

Busy(s) == slot[s].pc # "idle"

Holds(s) == HasLock(s, slot[s].job)

Init ==
  /\ row = [e \in Execs |-> NoRow]
  /\ trigger = [e \in Execs |-> "idle"]
  /\ published \in BOOLEAN
  /\ warned = {}
  /\ job = [j \in JobIds |-> NoJob]
  /\ slot = [s \in Slots |-> Idle]
  /\ runs = [e \in Execs |-> 0]
  /\ failedCalls = 0 /\ crashes = 0 /\ lockLosses = 0

-----------------------------------------------------------------------------
UpdateRow(r, e, new) ==
  row' = IF r = "refused" THEN row ELSE [row EXCEPT ![e] = new]

GoTo(s, pc) == slot' = [slot EXCEPT ![s].pc = pc]

(* An id no row has yet: what a uuid default gives an insert.              *)
Unused(e) == row[e].status = "NONE" /\ trigger[e] = "idle"

-----------------------------------------------------------------------------
(* publishVersion, as far as executions see it (WorkflowVersions has the   *)
(* rest): once a version is published there is always one.                 *)

Publish ==
  /\ ~published
  /\ published' = TRUE
  /\ UNCHANGED <<row, trigger, warned, job, slot, runs>>
  /\ UNCHANGED disturbances

-----------------------------------------------------------------------------
(* triggerExecution: the checks, the insert, and then the queue command.   *)

(* Mutant: the insert answers the request, the queue command is forgotten. *)
TriggerCreateOnly(e, r) ==
  /\ Unused(e)
  /\ published
  /\ Call(r)
  /\ UpdateRow(r, e, PendingRow(User))
  /\ trigger' = [trigger EXCEPT ![e] = OnReply(r, "accepted", "error")]
  /\ UNCHANGED <<published, warned, job, slot, runs>>

TriggerCreate(e, r) ==
  /\ Unused(e)
  /\ published
  /\ Call(r)
  /\ UpdateRow(r, e, PendingRow(User))
  /\ trigger' = [trigger EXCEPT ![e] = OnReply(r, "enqueue", "error")]
  /\ UNCHANGED <<published, warned, job, slot, runs>>

TriggerEnqueue(e, r) ==
  /\ trigger[e] = "enqueue"
  /\ Call(r)
  /\ AddJob(r, e)
  /\ trigger' = [trigger EXCEPT ![e] = OnReply(r, "accepted", "error")]
  /\ UNCHANGED <<row, published, warned, slot, runs>>

-----------------------------------------------------------------------------
(* BullMQ: a schedule fires, a worker takes a job, a failed attempt's      *)
(* backoff ends, a job whose lock has expired is handed out again.         *)

ScheduleFires(t) ==
  /\ job[t].state = "none"
  /\ job' = [job EXCEPT ![t] = NewJob]
  /\ UNCHANGED <<row, trigger, published, warned, slot, runs>>
  /\ UNCHANGED disturbances

TakeJob(s, j) ==
  /\ ~Busy(s)
  /\ job[j].state = "wait"
  /\ GiveJob(j, s)
  /\ slot' = [slot EXCEPT ![s] =
       [pc |-> IF j \in Ticks THEN "findPublished" ELSE "markRunning",
        job |-> j, fresh |-> None]]
  /\ UNCHANGED <<row, trigger, published, warned, runs>>
  /\ UNCHANGED disturbances

PromoteDelayed(j) ==
  /\ Promote(j)
  /\ UNCHANGED <<row, trigger, published, warned, slot, runs>>
  /\ UNCHANGED disturbances

(* The stalled-job check, after the process holding the lock has died.     *)
RecoverStalled(j) ==
  /\ job[j].state = "active"
  /\ slot[job[j].lock].job # j
  /\ Stall(j)
  /\ UNCHANGED <<row, trigger, published, warned, slot, runs>>
  /\ UNCHANGED disturbances

(* The same while its processor lives on: a blocked event loop, or Redis   *)
(* out of reach for longer than the lock lasts.                            *)
LoseLock(j) ==
  /\ lockLosses < MaxLockLosses
  /\ job[j].state = "active"
  /\ slot[job[j].lock].job = j
  /\ Stall(j)
  /\ lockLosses' = lockLosses + 1
  /\ UNCHANGED <<row, trigger, published, warned, slot, runs,
                 failedCalls, crashes>>

-----------------------------------------------------------------------------
(* processWorkflowJob for a scheduled-workflow job.                        *)

FindPublished(s, r) ==
  /\ slot[s].pc = "findPublished"
  /\ Call(r)
  /\ GoTo(s, OnReply(r, IF published THEN "createExecution" ELSE "complete",
                     "throw"))
  /\ warned' = IF r = "ok" /\ ~published THEN warned \cup {slot[s].job}
                                         ELSE warned
  /\ UNCHANGED <<row, trigger, published, job, runs>>

(* Mutant: the scheduled job returns after its insert.                     *)
CreateScheduledOnly(s, e, r) ==
  /\ slot[s].pc = "createExecution"
  /\ Unused(e)
  /\ Call(r)
  /\ UpdateRow(r, e, PendingRow(slot[s].job))
  /\ GoTo(s, OnReply(r, "complete", "throw"))
  /\ UNCHANGED <<trigger, published, warned, job, runs>>

CreateScheduled(s, e, r) ==
  /\ slot[s].pc = "createExecution"
  /\ Unused(e)
  /\ Call(r)
  /\ UpdateRow(r, e, PendingRow(slot[s].job))
  /\ slot' = [slot EXCEPT ![s] = [@ EXCEPT !.pc = OnReply(r, "enqueue", "throw"),
                                           !.fresh = OnReply(r, e, None)]]
  /\ UNCHANGED <<trigger, published, warned, job, runs>>

(* Mutant: no return after the queue command, so that the job goes on to   *)
(* mark an execution it does not name, and throws.                         *)
EnqueueAndFallThrough(s, r) ==
  /\ slot[s].pc = "enqueue"
  /\ Call(r)
  /\ AddJob(r, slot[s].fresh)
  /\ slot' = [slot EXCEPT ![s] = [@ EXCEPT !.pc = "throw", !.fresh = None]]
  /\ UNCHANGED <<row, trigger, published, warned, runs>>

EnqueueScheduled(s, r) ==
  /\ slot[s].pc = "enqueue"
  /\ Call(r)
  /\ AddJob(r, slot[s].fresh)
  /\ slot' = [slot EXCEPT ![s] = [@ EXCEPT !.pc = OnReply(r, "complete", "throw"),
                                           !.fresh = None]]
  /\ UNCHANGED <<row, trigger, published, warned, runs>>

-----------------------------------------------------------------------------
(* processWorkflowJob for an execute-workflow job.                         *)

(* Outside the try block: a failure here goes straight to BullMQ.          *)
MarkRunning(s, r) ==
  LET e == slot[s].job IN
  /\ slot[s].pc = "markRunning"
  /\ Call(r)
  /\ UpdateRow(r, e, [row[e] EXCEPT !.status = "RUNNING", !.started = TRUE])
  /\ GoTo(s, OnReply(r, "loadVersion", "throw"))
  /\ UNCHANGED <<trigger, published, warned, job, runs>>

LoadVersion(s, r) ==
  LET e == slot[s].job IN
  /\ slot[s].pc = "loadVersion"
  /\ Call(r)
  /\ GoTo(s, OnReply(r, "engine", "catch"))
  /\ runs' = IF r = "ok" THEN [runs EXCEPT ![e] = @ + 1] ELSE runs
  /\ UNCHANGED <<row, trigger, published, warned, job>>

(* Mutant: a node waits for an answer without a time limit.                *)
EngineHangs(s) ==
  /\ slot[s].pc = "engine"
  /\ UNCHANGED vars

(* executeWorkflow returns success or failure, or throws on a definition   *)
(* it cannot read.  It returns, because it visits no node twice and the    *)
(* executors that wait have time limits.                                   *)
EngineReturns(s) ==
  /\ slot[s].pc = "engine"
  /\ \E next \in {"markSuccess", "markFailed", "catch"} : GoTo(s, next)
  /\ UNCHANGED <<row, trigger, published, warned, job, runs>>
  /\ UNCHANGED disturbances

(* Mutant: an exception after the outcome is written escapes to BullMQ.    *)
MarkSuccessThenThrow(s, r) ==
  LET e == slot[s].job IN
  /\ slot[s].pc = "markSuccess"
  /\ Call(r)
  /\ UpdateRow(r, e, [row[e] EXCEPT !.status = "SUCCESS", !.completed = TRUE])
  /\ GoTo(s, "throw")
  /\ UNCHANGED <<trigger, published, warned, job, runs>>

MarkSuccess(s, r) ==
  LET e == slot[s].job IN
  /\ slot[s].pc = "markSuccess"
  /\ Call(r)
  /\ UpdateRow(r, e, [row[e] EXCEPT !.status = "SUCCESS", !.completed = TRUE])
  /\ GoTo(s, OnReply(r, "complete", "catch"))
  /\ UNCHANGED <<trigger, published, warned, job, runs>>

(* Mutant: markExecutionFailed writes the message and not the status.      *)
FailedRowKeepingStatus(e) ==
  [row[e] EXCEPT !.completed = TRUE, !.error = TRUE]

FailedRow(e) ==
  [row[e] EXCEPT !.status = "FAILED", !.completed = TRUE, !.error = TRUE]

(* Mutant: no return after a reported failure, and SUCCESS is written next.*)
MarkFailedThenSuccess(s, r) ==
  /\ slot[s].pc = "markFailed"
  /\ Call(r)
  /\ UpdateRow(r, slot[s].job, FailedRow(slot[s].job))
  /\ GoTo(s, OnReply(r, "markSuccess", "catch"))
  /\ UNCHANGED <<trigger, published, warned, job, runs>>

(* A failure the engine reports is an outcome: the job completes.          *)
MarkFailed(s, r) ==
  /\ slot[s].pc = "markFailed"
  /\ Call(r)
  /\ UpdateRow(r, slot[s].job, FailedRow(slot[s].job))
  /\ GoTo(s, OnReply(r, "complete", "catch"))
  /\ UNCHANGED <<trigger, published, warned, job, runs>>

(* Mutant: the catch block only throws again.                              *)
CatchRethrow(s, r) ==
  /\ slot[s].pc = "catch"
  /\ Call(r)
  /\ GoTo(s, "throw")
  /\ UNCHANGED <<row, trigger, published, warned, job, runs>>

(* The catch block records the exception and throws it again; if recording *)
(* fails, that exception leaves the processor instead.                     *)
CatchMarkFailed(s, r) ==
  /\ slot[s].pc = "catch"
  /\ Call(r)
  /\ UpdateRow(r, slot[s].job, FailedRow(slot[s].job))
  /\ GoTo(s, "throw")
  /\ UNCHANGED <<trigger, published, warned, job, runs>>

-----------------------------------------------------------------------------
(* BullMQ, when the processor returns or throws.  Without the lock the     *)
(* result is dropped.                                                      *)

Return(s, pc, state) ==
  /\ slot[s].pc = pc
  /\ EndAttempt(s, slot[s].job, state)
  /\ slot' = [slot EXCEPT ![s] = Idle]
  /\ UNCHANGED <<row, trigger, published, warned, runs>>
  /\ UNCHANGED disturbances

CompleteJob(s) == Return(s, "complete", "completed")

FailAttempt(s) == Return(s, "throw", RetryOrFail(slot[s].job))

-----------------------------------------------------------------------------
(* A process dies: its processors are gone, their jobs stay locked until   *)
(* the stalled check; requests in the API process are cut off.             *)

Crash(p) ==
  /\ crashes < MaxCrashes
  /\ \/ \E s \in Slots : ProcOf[s] = p /\ Busy(s)
     \/ p = ApiProc /\ \E e \in Execs : trigger[e] = "enqueue"
  /\ slot' = [s \in Slots |-> IF ProcOf[s] = p THEN Idle ELSE slot[s]]
  /\ trigger' = [e \in Execs |->
       IF p = ApiProc /\ trigger[e] = "enqueue" THEN "error" ELSE trigger[e]]
  /\ crashes' = crashes + 1
  /\ UNCHANGED <<row, published, warned, job, runs, failedCalls, lockLosses>>

(* The bounded instance has no execution id left for a scheduled job.      *)
OutOfIds ==
  /\ \E s \in Slots : slot[s].pc = "createExecution"
  /\ \A e \in Execs : ~Unused(e)

(* The run is over: every job is settled and no request is open.           *)
Quiescent ==
  /\ \A e \in Execs : trigger[e] # "enqueue"
  /\ \/ /\ \A j \in JobIds : job[j].state = "none" \/ Settled(j)
        /\ \A s \in Slots : ~Busy(s)
     \/ OutOfIds
  /\ UNCHANGED vars

-----------------------------------------------------------------------------
Triggering(e) ==
  \E r \in Replies : TriggerCreate(e, r) \/ TriggerEnqueue(e, r)

Processing(s) ==
  \/ \E r \in Replies :
       \/ FindPublished(s, r) \/ EnqueueScheduled(s, r)
       \/ \E e \in Execs : CreateScheduled(s, e, r)
       \/ MarkRunning(s, r) \/ LoadVersion(s, r)
       \/ MarkSuccess(s, r) \/ MarkFailed(s, r) \/ CatchMarkFailed(s, r)
  \/ EngineReturns(s) \/ CompleteJob(s) \/ FailAttempt(s)

Queueing(j) ==
  \/ j \in Ticks /\ ScheduleFires(j)
  \/ \E s \in Slots : TakeJob(s, j)
  \/ PromoteDelayed(j) \/ RecoverStalled(j) \/ LoseLock(j)

Next ==
  \/ Publish
  \/ \E e \in Execs : Triggering(e)
  \/ \E s \in Slots : Processing(s)
  \/ \E j \in JobIds : Queueing(j)
  \/ \E p \in Procs : Crash(p)
  \/ Quiescent

(* A live process goes on making its calls and a waiting job is taken when *)
(* a slot is free; backoff timers and the stalled check fire.  Nobody has  *)
(* to publish, trigger or schedule, and nothing has to go wrong.           *)
Fairness ==
  /\ \A e \in Execs : WF_vars(\E r \in Replies : TriggerEnqueue(e, r))
  /\ \A s \in Slots : WF_vars(Processing(s))
  /\ \A j \in JobIds : /\ WF_vars(\E s \in Slots : TakeJob(s, j))
                       /\ WF_vars(PromoteDelayed(j))
                       /\ WF_vars(RecoverStalled(j))

Spec == Init /\ [][Next]_vars

FairSpec == Spec /\ Fairness
-----------------------------------------------------------------------------
(* Properties.                                                             *)

(* Every variable holds values of the shape the row, the queue and the     *)
(* processors can have.                                                    *)
TypeOK ==
  /\ row \in [Execs -> Row]
  /\ trigger \in [Execs -> {"idle", "enqueue", "accepted", "error"}]
  /\ published \in BOOLEAN
  /\ warned \subseteq Ticks
  /\ job \in [JobIds -> Job]
  /\ slot \in [Slots -> Slot]
  /\ runs \in [Execs -> Nat]
  /\ failedCalls \in Nat /\ crashes \in Nat /\ lockLosses \in Nat

(* A job is in the queue only once its row is committed, and no processor  *)
(* reports an outcome for an execution it has not marked RUNNING: the      *)
(* order of the awaits in triggerExecution and processWorkflowJob, over    *)
(* every interleaving, crash and retry.                                    *)
WorkFollowsRow ==
  /\ \A e \in Execs : job[e].state # "none" => row[e].status # "NONE"
  /\ \A s \in Slots : slot[s].pc \in RunPc =>
       row[slot[s].job].status \in {"RUNNING"} \cup Outcomes

(* While nothing has gone wrong, a job's state and its row agree: a        *)
(* completed job left an outcome, a job out of attempts left FAILED, and   *)
(* a job still to run has a row that says PENDING, or FAILED on a retry.   *)
QueueAndRowAgree ==
  ~Disturbed =>
    \A e \in Execs :
      /\ job[e].state = "completed" => row[e].status \in Outcomes
      /\ job[e].state = "failed" => row[e].status = "FAILED"
      /\ job[e].state \in {"wait", "delayed"} =>
           row[e].status \in {"PENDING", "FAILED"}

(* A settled job whose row never got an outcome needs a failed call, a     *)
(* lost lock, or more crashes than maxStalledCount: a single crash of a    *)
(* worker never strands an execution that reached the queue.               *)
StrandedNeedsFailure ==
  \A e \in Execs :
    Settled(e) /\ row[e].status \notin Outcomes
      => failedCalls > 0 \/ lockLosses > 0 \/ crashes > MaxStalled

(* A PENDING row that no request and no job will ever pick up needs a      *)
(* failed call or a crash between createExecution and the queue command.   *)
OrphanNeedsFailure ==
  \A e \in Execs :
    /\ row[e].status = "PENDING" /\ job[e].state = "none"
    /\ trigger[e] # "enqueue"
    /\ \A s \in Slots : slot[s].fresh # e
    => failedCalls > 0 \/ crashes > 0

(* The nodes of a workflow, with their effects outside the database, run   *)
(* at most once per attempt and once per tolerated stall: attempts bounds  *)
(* the retries of everything a job can do.                                 *)
RunsBounded == \A e \in Execs : runs[e] <= MaxAttempts + MaxStalled

(* A firing whose job completed was either reported as having no published *)
(* version or has put an execution into the queue.                         *)
TickServed ==
  \A t \in Ticks : job[t].state = "completed" =>
    t \in warned \/ \E e \in Execs : row[e].by = t /\ job[e].state # "none"

(* One firing makes one execution: no processor is about to insert a second *)
(* one for its tick, unless a failure between the insert and the queue     *)
(* command of another attempt made BullMQ retry the scheduled job.         *)
OneExecutionPerTick ==
  ~Disturbed => \A s \in Slots : slot[s].pc = "createExecution" =>
    \A e \in Execs : row[e].by # slot[s].job

(* The status column implements the lifecycle a polling client is promised.*)
Lifecycle == INSTANCE RowLifecycle
  WITH Items <- Execs, status <- [e \in Execs |-> row[e].status], disturbed <- Disturbed

ImplementsLifecycle == Lifecycle!Spec

(* Whatever goes wrong, no job stays in the queue for ever: it completes   *)
(* or fails.  A job may have to wait for the bounded instance's execution  *)
(* ids, never for anything in the code.                                    *)
JobsSettle == \A j \in JobIds : job[j].state = "wait" ~> Settled(j) \/ OutOfIds

(* How many calls of its processor are before a slot.                      *)
CallsLeft(pc) ==
  CASE pc = "idle" -> 0
    [] pc \in EndPc -> 1
    [] pc \in {"enqueue", "catch"} -> 2
    [] pc \in {"createExecution", "markSuccess", "markFailed"} -> 3
    [] pc \in {"findPublished", "engine"} -> 4
    [] pc = "loadVersion" -> 5
    [] pc = "markRunning" -> 6

(* Nothing is done over and over: no job is put back to what it has been,  *)
(* not by a second enqueue either, and a processor's steps lead to its end *)
(* until a job is handed to its slot, which is a step down for that job.   *)
WorkRunsOut ==
  [][ /\ \A j \in JobIds : job'[j] # job[j] => Lower(job'[j], job[j])
      /\ \A s \in Slots : slot'[s] # slot[s] =>
           \/ CallsLeft(slot'[s].pc) < CallsLeft(slot[s].pc)
           \/ \E j \in JobIds : job'[j] # job[j] /\ job'[j].lock = s ]_vars

(* The columns of a row contradict its status (an error message on a row   *)
(* that is not FAILED, both timestamps on one that has no outcome) only    *)
(* after a job has been run more than once: markExecutionRunning and       *)
(* markExecutionSuccess keep what an earlier attempt wrote.                *)
StaleColumns(e) ==
  \/ row[e].error /\ row[e].status # "FAILED"
  \/ row[e].started /\ row[e].completed /\ row[e].status \notin Outcomes

StaleColumnsNeedRetry ==
  \A e \in Execs : StaleColumns(e) => job[e].made > 0 \/ job[e].stalls > 0

-----------------------------------------------------------------------------
(* The inductive invariant behind the theorems of ExecutionsProofs.        *)

(* A job that may still run has an attempt and a stall left, and an active *)
(* one was given to a slot.                                                *)
Budgets ==
  \A j \in JobIds :
    /\ job[j].state \in {"wait", "active", "delayed"} =>
         job[j].made < MaxAttempts /\ job[j].stalls <= MaxStalled
    /\ job[j].state = "active" => job[j].lock \in Slots

(* Whoever is about to enqueue e, a request or a slot, is the only one,    *)
(* and e has a row that says PENDING and no job.                           *)
Pending(e) == row[e].status = "PENDING" /\ job[e].state = "none"

Enqueuers ==
  /\ \A e \in Execs : trigger[e] = "enqueue" => Pending(e)
  /\ \A s \in Slots : slot[s].fresh # None =>
       Pending(slot[s].fresh) /\ trigger[slot[s].fresh] # "enqueue"
  /\ \A s1, s2 \in Slots :
       slot[s1].fresh # None /\ slot[s1].fresh = slot[s2].fresh => s1 = s2

(* What a slot works on, by where it is.                                   *)
Processors ==
  \A s \in Slots :
    /\ ~Busy(s) <=> slot[s].job = None
    /\ Busy(s) => job[slot[s].job].state # "none"
    /\ slot[s].pc \in {"markRunning"} \cup RunPc => slot[s].job \in Execs
    /\ slot[s].pc \in ScheduledPc => slot[s].job \in Ticks
    /\ slot[s].pc = "enqueue" <=> slot[s].fresh # None

(* Without disturbances locks and slots match one to one, so an execution  *)
(* has one processor at a time, and its row is what that processor's       *)
(* position says.                                                          *)
OneProcessor ==
  ~Disturbed =>
    /\ \A s \in Slots : Busy(s) => Holds(s)
    /\ \A j \in JobIds : job[j].state = "active" => slot[job[j].lock].job = j

RowFollowsSlot ==
  ~Disturbed => \A s \in Slots : slot[s].job \in Execs =>
    LET status == row[slot[s].job].status IN
    /\ slot[s].pc = "markRunning" => status \in {"PENDING", "FAILED"}
    /\ slot[s].pc \in RunPc => status = "RUNNING"
    /\ slot[s].pc = "complete" => status \in Outcomes
    /\ slot[s].pc = "throw" => status = "FAILED"

(* Queue, rows and processors are consistent: the strengthening of the     *)
(* safety properties above that every step preserves.                      *)
Consistent ==
  /\ TypeOK
  /\ Budgets
  /\ Enqueuers
  /\ Processors
  /\ WorkFollowsRow
  /\ OneProcessor
  /\ RowFollowsSlot
  /\ QueueAndRowAgree

-----------------------------------------------------------------------------
(* On top of Consistent: what the properties about failures, ticks and     *)
(* stale columns rest on.                                                  *)

(* Until a job has ended an attempt or stalled, one slot has worked on it  *)
(* and has written its columns once.                                       *)
FirstAttempt(e) ==
  job[e].made = 0 /\ job[e].stalls = 0 =>
    /\ \A s \in Slots : slot[s].job = e =>
         /\ HasLock(s, e)
         /\ slot[s].pc = "markRunning" =>
              ~row[e].started /\ ~row[e].completed /\ ~row[e].error
         /\ slot[s].pc \in RunPc \ {"catch"} => ~row[e].completed /\ ~row[e].error
    /\ job[e].state \in {"none", "wait"} =>
         ~row[e].started /\ ~row[e].completed /\ ~row[e].error
    /\ ~StaleColumns(e)

FirstAttempts ==
  /\ \A e \in Execs : FirstAttempt(e)
  /\ \A j \in JobIds :
       /\ job[j].state = "none" => job[j].made = 0 /\ job[j].stalls = 0
       /\ job[j].state = "delayed" => job[j].made > 0

(* A firing that needs no more attempts was served.                        *)
Served(t) ==
  t \in warned \/ \E e \in Execs : row[e].by = t /\ job[e].state # "none"

TicksServed ==
  /\ \A s \in Slots : slot[s].pc = "enqueue" => row[slot[s].fresh].by = slot[s].job
  /\ \A s \in Slots : slot[s].pc = "complete" /\ slot[s].job \in Ticks =>
       Served(slot[s].job)
  /\ \A t \in Ticks : job[t].state = "completed" => Served(t)

(* Without disturbances the execution of a firing is there when its job is *)
(* past the insert, and not before.                                        *)
TickOnce(t) ==
  (\E e \in Execs : row[e].by = t) =>
    /\ job[t].state \in {"active", "completed"}
    /\ \A s \in Slots : slot[s].job = t => slot[s].pc \in {"enqueue", "complete"}

TicksOnce == ~Disturbed => \A t \in Ticks : TickOnce(t)

(* As long as no lock is lost under a live processor, a slot that works on *)
(* a job holds it, and each of its stalls, the next one included, took a   *)
(* crash.                                                                  *)
Abandoned(j) == job[j].state = "active" /\ slot[job[j].lock].job # j

StallsTakeCrashes ==
  lockLosses = 0 =>
    /\ \A s \in Slots : Busy(s) => Holds(s)
    /\ \A j \in JobIds : /\ job[j].stalls <= crashes
                         /\ Abandoned(j) => job[j].stalls < crashes

(* And if no call fails either, an attempt ends with an outcome written.   *)
EndsWithOutcome ==
  failedCalls = 0 /\ lockLosses = 0 =>
    /\ \A s \in Slots : slot[s].job \in Execs /\ slot[s].pc \in EndPc =>
         row[slot[s].job].status \in Outcomes
    /\ \A e \in Execs : Settled(e) =>
         row[e].status \in Outcomes \/ job[e].stalls > MaxStalled

(* Each time e's job was given out, the engine was started for it at most  *)
(* once: it was, or the slot it went to may yet start it.                  *)
Starters(e) ==
  {s \in Slots : slot[s].job = e /\ slot[s].pc \in {"markRunning", "loadVersion"}}

Given(e) ==
  job[e].made + job[e].stalls + (IF job[e].state = "active" THEN 1 ELSE 0)

RunsCount(e) ==
  /\ IsFiniteSet(Starters(e))
  /\ runs[e] + Cardinality(Starters(e)) <= Given(e)
  /\ Given(e) <= MaxAttempts + MaxStalled

RunsCounted == \A e \in Execs : RunsCount(e)

Accountable ==
  /\ FirstAttempts
  /\ RunsCounted
  /\ OrphanNeedsFailure
  /\ TicksServed
  /\ TicksOnce
  /\ StallsTakeCrashes
  /\ EndsWithOutcome
=============================================================================
