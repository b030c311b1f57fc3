------------------------------ MODULE Platform ------------------------------
(***************************************************************************)
(* What the code runs on, as far as it relies on it: awaited calls to      *)
(* PostgreSQL, Redis and other services, which may fail; processes, which  *)
(* may die; and BullMQ, which is not part of the repository and is         *)
(* modelled from how the code uses it: attempts, backoff, a lock per       *)
(* active job, and stalled jobs handed out again.  The modules of the      *)
(* components that enqueue and process jobs extend this one.               *)
(***************************************************************************)
EXTENDS Naturals, FiniteSets

CONSTANTS
  Procs,           \* operating system processes: the API and the workers
  Slots,           \* concurrent job processors over all processes
  ProcOf,          \* ProcOf[s]: the process slot s lives in
  ApiProc,         \* the process serving HTTP requests
  None,            \* no job, no slot
  MaxAttempts,     \* attempts of the queue (3 in the code)
  MaxStalled,      \* BullMQ's maxStalledCount (its default is 1)
  MaxFailedCalls,  \* bound: calls that fail or lose their reply
  MaxCrashes,      \* bound: process crashes
  MaxLockLosses    \* bound: locks that expire under a live processor

ASSUME PlatformAssumption ==
  /\ None \notin Slots
  /\ ProcOf \in [Slots -> Procs]
  /\ ApiProc \in Procs
  /\ MaxAttempts \in Nat \ {0}
  /\ MaxStalled \in Nat
  /\ MaxFailedCalls \in Nat
  /\ MaxCrashes \in Nat
  /\ MaxLockLosses \in Nat

VARIABLES
  job,          \* job[j]: BullMQ's state of job j
  failedCalls, crashes, lockLosses     \* disturbances so far

disturbances == <<failedCalls, crashes, lockLosses>>

Disturbed == failedCalls > 0 \/ crashes > 0 \/ lockLosses > 0

-----------------------------------------------------------------------------
(* Calls.  A reply is "ok", "refused" (no effect, an exception) or "lost"  *)
(* (the effect took place, the caller sees an exception).                  *)

Replies == {"ok", "refused", "lost"}

Call(r) ==
  /\ r # "ok" => failedCalls < MaxFailedCalls
  /\ failedCalls' = IF r = "ok" THEN failedCalls ELSE failedCalls + 1
  /\ UNCHANGED <<crashes, lockLosses>>

OnReply(r, then, else) == IF r = "ok" THEN then ELSE else

-----------------------------------------------------------------------------
(* Jobs.  made counts finished attempts, stalls how often the job lost its *)
(* worker, lock is the slot an active job was given to.                    *)

JobState == {"none", "wait", "active", "delayed", "completed", "failed"}
Job == [state : JobState, made : 0..MaxAttempts, stalls : 0..(MaxStalled + 1),
        lock : Slots \cup {None}]

NoJob  == [state |-> "none", made |-> 0, stalls |-> 0, lock |-> None]
NewJob == [NoJob EXCEPT !.state = "wait"]

Settled(j) == job[j].state \in {"completed", "failed"}

AddJob(r, j) ==
  job' = IF r = "refused" THEN job ELSE [job EXCEPT ![j] = NewJob]

GiveJob(j, s) ==
  job' = [job EXCEPT ![j] = [@ EXCEPT !.state = "active", !.lock = s]]

Promote(j) ==
  /\ job[j].state = "delayed"
  /\ job' = [job EXCEPT ![j].state = "wait"]

Stall(j) ==
  job' = [job EXCEPT ![j] = [@ EXCEPT
    !.stalls = job[j].stalls + 1, !.lock = None,
    !.state = IF job[j].stalls < MaxStalled THEN "wait" ELSE "failed"]]

(* An attempt of j made by slot s ends; without the lock its result is     *)
(* dropped.                                                                *)
HasLock(s, j) == job[j].state = "active" /\ job[j].lock = s

EndAttempt(s, j, state) ==
  job' = IF HasLock(s, j)
           THEN [job EXCEPT ![j] =
                   [@ EXCEPT !.state = state, !.made = job[j].made + 1, !.lock = None]]
           ELSE job

(* Mutant: one attempt too many.                                           *)
RetryOnceMore(j) == IF job[j].made < MaxAttempts THEN "delayed" ELSE "failed"

RetryOrFail(j) == IF job[j].made + 1 < MaxAttempts THEN "delayed" ELSE "failed"

-----------------------------------------------------------------------------
(* How much may still become of a job: a step down for each attempt made,  *)
(* for each stall, and within these from backoff to waiting to a slot.     *)
Standing(state) ==
  CASE state = "none" -> 3 [] state = "delayed" -> 2 [] state = "wait" -> 1 [] OTHER -> 0

JobRank(jb) ==
  3 * ((MaxAttempts - jb.made) + (MaxStalled + 1 - jb.stalls)) + Standing(jb.state)

Lower(new, old) == JobRank(new) \in 0 .. (JobRank(old) - 1)
=============================================================================
