-------------------------- MODULE ExecutionsProofs --------------------------
(***************************************************************************)
(* For any number of executions, schedules, processors and processes, any  *)
(* attempt and stall limits and any bounds on what goes wrong:             *)
(*                                                                         *)
(*   - Consistent, and with it TypeOK, WorkFollowsRow and QueueAndRowAgree,*)
(*     is an invariant of Executions;                                      *)
(*   - so is Accountable, which says what each failure, crash and retry    *)
(*     can account for, and with it the properties whose names say what    *)
(*     something needs, RunsBounded, TickServed and OneExecutionPerTick;   *)
(*   - Executions implements RowLifecycle.                                 *)
(*                                                                         *)
(* Consistent is inductive.  WorkFollowsRow alone is not: that a processor *)
(* never meets an absent row needs Enqueuers (who may add a job, and to    *)
(* what row), and that an undisturbed execution's row is where its         *)
(* processor left it needs OneProcessor (locks and slots match).  One      *)
(* lemma below per action, one step in it per conjunct of Consistent.      *)
(***************************************************************************)
EXTENDS Executions, FiniteSetTheorems, TLAPS

USE ConstantsAssumption, PlatformAssumption DEF JobIds

-----------------------------------------------------------------------------

(* A job that is given out, loses its lock or ends an attempt keeps its    *)
(* type.                                                                   *)
LEMMA GivenTyped ==
  ASSUME TypeOK, NEW j \in JobIds, NEW s \in Slots, GiveJob(j, s)
  PROVE  job' \in [JobIds -> Job]
<1>1. job[j] \in Job
  BY DEF TypeOK
<1>2. [job[j] EXCEPT !.state = "active", !.lock = s] \in Job
  BY <1>1 DEF Job, JobState
<1>3. QED  BY <1>2 DEF TypeOK, GiveJob

LEMMA StalledTyped ==
  ASSUME TypeOK, Budgets, NEW j \in JobIds, job[j].state = "active", Stall(j)
  PROVE  job' \in [JobIds -> Job]
<1>1. job[j] \in Job
  BY DEF TypeOK
<1>2. ASSUME NEW n \in 0..(MaxStalled + 1), NEW state \in {"wait", "failed"}
      PROVE  [job[j] EXCEPT !.stalls = n, !.lock = None, !.state = state] \in Job
  BY <1>1, <1>2 DEF Job, JobState
<1>3. job[j].stalls + 1 \in 0..(MaxStalled + 1)
  BY <1>1, PlatformAssumption DEF Job, Budgets
<1>4. (IF job[j].stalls < MaxStalled THEN "wait" ELSE "failed") \in {"wait", "failed"}
  OBVIOUS
<1>5. [job[j] EXCEPT !.stalls = job[j].stalls + 1, !.lock = None,
         !.state = IF job[j].stalls < MaxStalled THEN "wait" ELSE "failed"] \in Job
  BY <1>2, <1>3, <1>4
<1>6. QED  BY <1>5 DEF TypeOK, Stall

LEMMA EndedTyped ==
  ASSUME TypeOK, Budgets, NEW s \in Slots, NEW j \in JobIds,
         NEW state \in JobState, EndAttempt(s, j, state)
  PROVE  job' \in [JobIds -> Job]
<1>1. job[j] \in Job
  BY DEF TypeOK
<1>2. CASE ~HasLock(s, j)
  BY <1>2 DEF TypeOK, EndAttempt
<1>3. CASE HasLock(s, j)
  <2>1. ASSUME NEW n \in 0..MaxAttempts
        PROVE  [job[j] EXCEPT !.state = state, !.made = n, !.lock = None] \in Job
    BY <1>1 DEF Job
  <2>2. job[j].made + 1 \in 0..MaxAttempts
    BY <1>1, <1>3, PlatformAssumption DEF Job, Budgets, HasLock
  <2>3. [job[j] EXCEPT !.state = state, !.made = job[j].made + 1, !.lock = None] \in Job
    BY <2>1, <2>2
  <2>4. QED  BY <1>3, <2>3 DEF TypeOK, EndAttempt
<1>4. QED  BY <1>2, <1>3

(* Publishing touches nothing the invariant speaks of. *)
LEMMA PublishStep ==
  ASSUME Consistent, Publish
  PROVE  Consistent'
<1> USE DEF Publish, disturbances
<1>1. TypeOK'
  BY DEF Consistent, TypeOK
<1>2. Budgets'
  BY DEF Consistent, Budgets
<1>3. Enqueuers'
  BY DEF Consistent, Enqueuers, Pending
<1>4. Processors'
  BY DEF Consistent, Processors, Busy
<1>5. WorkFollowsRow'
  BY DEF Consistent, WorkFollowsRow
<1>6. OneProcessor'
  BY DEF Consistent, OneProcessor, Busy, Holds, HasLock, Disturbed
<1>7. RowFollowsSlot'
  BY DEF Consistent, RowFollowsSlot, Disturbed
<1>8. QueueAndRowAgree'
  BY DEF Consistent, QueueAndRowAgree, Disturbed
<1>9. QED  BY <1>1, <1>2, <1>3, <1>4, <1>5, <1>6, <1>7, <1>8 DEF Consistent

(* A request's insert makes a PENDING row nobody else is creating. *)
LEMMA TriggerCreateStep ==
  ASSUME Consistent, NEW e \in Execs, NEW r \in Replies, TriggerCreate(e, r)
  PROVE  Consistent'
<1> USE DEF TriggerCreate, Call, UpdateRow, PendingRow, NoRow, OnReply,
            Unused, Replies
<1>1. TypeOK'
  <2>1. PendingRow(User) \in Row
    BY DEF Row, Status
  <2>2. row' \in [Execs -> Row]
    BY <2>1 DEF Consistent, TypeOK
  <2>3. QED  BY <2>2 DEF Consistent, TypeOK
<1>2. Budgets'
  BY DEF Consistent, Budgets
<1>3. Enqueuers'
  BY DEF Consistent, TypeOK, Row, Slot, Enqueuers, Pending, WorkFollowsRow
<1>4. Processors'
  BY DEF Consistent, Processors, Busy
<1>5. WorkFollowsRow'
  BY DEF Consistent, TypeOK, Row, WorkFollowsRow, Processors, RunPc,
         Outcomes, Busy
<1>6. OneProcessor'
  BY DEF Consistent, OneProcessor, Busy, Holds, HasLock, Disturbed, TypeOK
<1>7. RowFollowsSlot'
  BY DEF Consistent, TypeOK, Row, RowFollowsSlot, Processors, OneProcessor,
         Busy, Holds, HasLock, Disturbed, RunPc, Outcomes
<1>8. QueueAndRowAgree'
  BY DEF Consistent, TypeOK, Row, QueueAndRowAgree, Processors,
         OneProcessor, Busy, Holds, HasLock, RowFollowsSlot, Disturbed, RunPc,
         Outcomes
<1>9. QED  BY <1>1, <1>2, <1>3, <1>4, <1>5, <1>6, <1>7, <1>8 DEF Consistent

(* A request's queue command gives its PENDING row its only job. *)
LEMMA TriggerEnqueueStep ==
  ASSUME Consistent, NEW e \in Execs, NEW r \in Replies, TriggerEnqueue(e, r)
  PROVE  Consistent'
<1> USE DEF TriggerEnqueue, Call, AddJob, NewJob, NoJob, OnReply, Replies
<1>1. TypeOK'
  BY DEF Consistent, TypeOK, Job, JobState
<1>2. Budgets'
  BY DEF Consistent, TypeOK, Job, Budgets
<1>3. Enqueuers'
  BY DEF Consistent, TypeOK, Job, Enqueuers, Pending, Processors, Busy
<1>4. Processors'
  BY DEF Consistent, TypeOK, Job, Processors, Busy, ScheduledPc, RunPc
<1>5. WorkFollowsRow'
  BY DEF Consistent, TypeOK, Job, WorkFollowsRow, Processors, RunPc,
         Outcomes, Busy, Enqueuers, Pending
<1>6. OneProcessor'
  BY DEF Consistent, TypeOK, Job, OneProcessor, Processors, Busy, Holds, HasLock,
         Disturbed, Enqueuers, Pending
<1>7. RowFollowsSlot'
  BY DEF Consistent, RowFollowsSlot, Disturbed, TypeOK
<1>8. QueueAndRowAgree'
  BY DEF Consistent, TypeOK, Job, QueueAndRowAgree, Processors,
         OneProcessor, Busy, Holds, HasLock, RowFollowsSlot, Disturbed, RunPc,
         Outcomes, Enqueuers, Pending
<1>9. QED  BY <1>1, <1>2, <1>3, <1>4, <1>5, <1>6, <1>7, <1>8 DEF Consistent

(* A schedule's firing adds a job that names no execution. *)
LEMMA ScheduleFiresStep ==
  ASSUME Consistent, NEW t \in Ticks, ScheduleFires(t)
  PROVE  Consistent'
<1> USE DEF ScheduleFires, NewJob, NoJob, disturbances
<1>1. TypeOK'
  BY DEF Consistent, TypeOK, Job, JobState
<1>2. Budgets'
  BY DEF Consistent, TypeOK, Job, Budgets
<1>3. Enqueuers'
  BY DEF Consistent, TypeOK, Enqueuers, Pending, Slot
<1>4. Processors'
  BY DEF Consistent, TypeOK, Job, Processors, Busy, ScheduledPc, RunPc
<1>5. WorkFollowsRow'
  BY DEF Consistent, TypeOK, Job, WorkFollowsRow, Processors, RunPc,
         Outcomes, Busy
<1>6. OneProcessor'
  BY DEF Consistent, TypeOK, Job, OneProcessor, Processors, Busy, Holds, HasLock,
         Disturbed
<1>7. RowFollowsSlot'
  BY DEF Consistent, RowFollowsSlot, Disturbed
<1>8. QueueAndRowAgree'
  BY DEF Consistent, TypeOK, Job, QueueAndRowAgree, Processors,
         OneProcessor, Busy, Holds, HasLock, RowFollowsSlot, Disturbed, RunPc,
         Outcomes, Enqueuers, Pending
<1>9. QED  BY <1>1, <1>2, <1>3, <1>4, <1>5, <1>6, <1>7, <1>8 DEF Consistent

(* Taking a job gives it to one slot, at the position its name calls for. *)
LEMMA TakeJobStep ==
  ASSUME Consistent, NEW s \in Slots, NEW j \in JobIds, TakeJob(s, j)
  PROVE  Consistent'
<1> USE DEF TakeJob, GiveJob, disturbances
<1>1. TypeOK'
  <2>1. job' \in [JobIds -> Job]
    BY GivenTyped DEF Consistent
  <2>2. slot' \in [Slots -> Slot]
    BY DEF Consistent, TypeOK, Slot, SlotPc, ScheduledPc, RunPc, EndPc
  <2>3. QED  BY <2>1, <2>2 DEF Consistent, TypeOK
<1>2. Budgets'
  BY DEF Consistent, TypeOK, Job, Slot, Budgets
<1>3. Enqueuers'
  BY DEF Consistent, TypeOK, Job, Slot, Enqueuers, Pending, Processors,
         Busy, ScheduledPc, RunPc
<1>4. Processors'
  BY DEF Consistent, TypeOK, Job, Slot, Processors, Busy, ScheduledPc, RunPc
<1>5. WorkFollowsRow'
  BY DEF Consistent, TypeOK, Job, Slot, WorkFollowsRow, Processors, RunPc,
         Outcomes, Busy
<1>6. OneProcessor'
  BY DEF Consistent, TypeOK, Job, Slot, OneProcessor, Processors, Busy,
         Holds, HasLock, Disturbed
<1>7. RowFollowsSlot'
  BY DEF Consistent, TypeOK, Job, Slot, RowFollowsSlot, Processors,
         OneProcessor, Busy, Holds, HasLock, Disturbed, RunPc, Outcomes,
         QueueAndRowAgree
<1>8. QueueAndRowAgree'
  BY DEF Consistent, TypeOK, Job, Slot, QueueAndRowAgree, Processors,
         OneProcessor, Busy, Holds, HasLock, RowFollowsSlot, Disturbed, RunPc,
         Outcomes, Enqueuers, Pending
<1>9. QED  BY <1>1, <1>2, <1>3, <1>4, <1>5, <1>6, <1>7, <1>8 DEF Consistent

(* A job back from its backoff waits as it did before. *)
LEMMA PromoteDelayedStep ==
  ASSUME Consistent, NEW j \in JobIds, PromoteDelayed(j)
  PROVE  Consistent'
<1> USE DEF PromoteDelayed, Promote, disturbances
<1>1. TypeOK'
  BY SMTT(20) DEF Consistent, TypeOK, Job, JobState
<1>2. Budgets'
  BY DEF Consistent, TypeOK, Job, Budgets
<1>3. Enqueuers'
  BY DEF Consistent, TypeOK, Job, Enqueuers, Pending, Processors, Busy
<1>4. Processors'
  BY DEF Consistent, TypeOK, Job, Processors, Busy, ScheduledPc, RunPc
<1>5. WorkFollowsRow'
  BY DEF Consistent, TypeOK, Job, WorkFollowsRow, Processors, RunPc,
         Outcomes, Busy
<1>6. OneProcessor'
  BY DEF Consistent, TypeOK, Job, OneProcessor, Processors, Busy, Holds, HasLock,
         Disturbed
<1>7. RowFollowsSlot'
  BY DEF Consistent, RowFollowsSlot, Disturbed
<1>8. QueueAndRowAgree'
  BY DEF Consistent, TypeOK, Job, QueueAndRowAgree, Processors,
         OneProcessor, Busy, Holds, HasLock, RowFollowsSlot, Disturbed, RunPc,
         Outcomes, Enqueuers, Pending
<1>9. QED  BY <1>1, <1>2, <1>3, <1>4, <1>5, <1>6, <1>7, <1>8 DEF Consistent

(* Only a disturbed queue has an active job without a processor. *)
LEMMA RecoverStalledStep ==
  ASSUME Consistent, NEW j \in JobIds, RecoverStalled(j)
  PROVE  Consistent'
<1> USE DEF RecoverStalled, Stall, disturbances
<1>1. TypeOK'
  <2>1. job' \in [JobIds -> Job]
    BY StalledTyped DEF Consistent
  <2>2. QED  BY <2>1 DEF Consistent, TypeOK
<1>2. Budgets'
  BY DEF Consistent, TypeOK, Budgets, Job
<1>3. Enqueuers'
  BY DEF Consistent, TypeOK, Job, Enqueuers, Pending, Processors, Busy
<1>4. Processors'
  BY DEF Consistent, TypeOK, Job, Processors, Busy, ScheduledPc, RunPc
<1>5. WorkFollowsRow'
  BY DEF Consistent, TypeOK, Job, WorkFollowsRow, Processors, RunPc,
         Outcomes, Busy
<1>6. OneProcessor'
  BY DEF Consistent, TypeOK, Job, OneProcessor, Processors, Busy, Holds, HasLock,
         Disturbed
<1>7. RowFollowsSlot'
  BY DEF Consistent, TypeOK, Budgets, Enqueuers, Processors, WorkFollowsRow,
         OneProcessor, RowFollowsSlot, QueueAndRowAgree, Pending, Busy,
         Holds, HasLock, Disturbed, Row, Status, Outcomes, User, Job, JobState, Slot,
         SlotPc, ScheduledPc, RunPc, EndPc, Idle
<1>8. QueueAndRowAgree'
  BY DEF Consistent, TypeOK, Job, QueueAndRowAgree, Processors,
         OneProcessor, Busy, Holds, HasLock, RowFollowsSlot, Disturbed, RunPc,
         Outcomes, Enqueuers, Pending
<1>9. QED  BY <1>1, <1>2, <1>3, <1>4, <1>5, <1>6, <1>7, <1>8 DEF Consistent

(* Losing a lock is a disturbance; the budget of stalls is respected. *)
LEMMA LoseLockStep ==
  ASSUME Consistent, NEW j \in JobIds, LoseLock(j)
  PROVE  Consistent'
<1> USE DEF LoseLock, Stall
<1>1. TypeOK'
  <2>1. job' \in [JobIds -> Job]
    BY StalledTyped DEF Consistent
  <2>2. QED  BY <2>1 DEF Consistent, TypeOK
<1>2. Budgets'
  BY DEF Consistent, TypeOK, Budgets, Job
<1>3. Enqueuers'
  BY DEF Consistent, TypeOK, Job, Enqueuers, Pending, Processors, Busy
<1>4. Processors'
  BY DEF Consistent, TypeOK, Job, Processors, Busy, ScheduledPc, RunPc
<1>5. WorkFollowsRow'
  BY DEF Consistent, TypeOK, Job, WorkFollowsRow, Processors, RunPc,
         Outcomes, Busy
<1>6. OneProcessor'
  BY DEF Consistent, TypeOK, Job, OneProcessor, Processors, Busy, Holds, HasLock,
         Disturbed
<1>7. RowFollowsSlot'
  BY DEF Consistent, RowFollowsSlot, Disturbed, TypeOK
<1>8. QueueAndRowAgree'
  BY DEF Consistent, TypeOK, Job, QueueAndRowAgree, Processors,
         OneProcessor, Busy, Holds, HasLock, RowFollowsSlot, Disturbed, RunPc,
         Outcomes, Enqueuers, Pending
<1>9. QED  BY <1>1, <1>2, <1>3, <1>4, <1>5, <1>6, <1>7, <1>8 DEF Consistent

(* Looking for the published version moves its own slot only. *)
LEMMA FindPublishedStep ==
  ASSUME Consistent, NEW s \in Slots, NEW r \in Replies, FindPublished(s, r)
  PROVE  Consistent'
<1> USE DEF FindPublished, Call, GoTo, OnReply, Replies
<1>1. TypeOK'
  BY DEF Consistent, TypeOK, Slot, SlotPc, ScheduledPc, RunPc, EndPc,
         Processors, Busy
<1>2. Budgets'
  BY DEF Consistent, Budgets
<1>3. Enqueuers'
  BY DEF Consistent, TypeOK, Slot, Enqueuers, Pending, Processors, Busy,
         ScheduledPc, RunPc
<1>4. Processors'
  BY DEF Consistent, TypeOK, Slot, Processors, Busy, ScheduledPc, RunPc
<1>5. WorkFollowsRow'
  BY DEF Consistent, TypeOK, Slot, WorkFollowsRow, Processors, RunPc,
         Outcomes, Busy
<1>6. OneProcessor'
  BY DEF Consistent, TypeOK, Slot, OneProcessor, Processors, Busy, Holds, HasLock,
         Disturbed
<1>7. RowFollowsSlot'
  BY DEF Consistent, TypeOK, Slot, RowFollowsSlot, Processors, ScheduledPc,
         RunPc, Disturbed
<1>8. QueueAndRowAgree'
  BY DEF Consistent, QueueAndRowAgree, Disturbed, TypeOK
<1>9. QED  BY <1>1, <1>2, <1>3, <1>4, <1>5, <1>6, <1>7, <1>8 DEF Consistent

(* A scheduled job's insert makes a PENDING row it alone will enqueue. *)
LEMMA CreateScheduledStep ==
  ASSUME Consistent, NEW s \in Slots, NEW e \in Execs, NEW r \in Replies,
         CreateScheduled(s, e, r)
  PROVE  Consistent'
<1> USE DEF CreateScheduled, Call, UpdateRow, PendingRow, NoRow, OnReply,
            Unused, Replies
<1>1. TypeOK'
  <2>1. slot[s].job \in Ticks
    BY DEF Consistent, Processors, ScheduledPc
  <2>2. PendingRow(slot[s].job) \in Row
    BY <2>1 DEF Row, Status
  <2>3. row' \in [Execs -> Row]
    BY <2>2 DEF Consistent, TypeOK
  <2>4. slot' \in [Slots -> Slot]
    <3>1. slot[s] \in Slot /\ OnReply(r, e, None) \in Execs \cup {None}
      BY DEF Consistent, TypeOK
    <3>2. OnReply(r, "enqueue", "throw") \in SlotPc
      BY DEF SlotPc, ScheduledPc, EndPc
    <3>3. ASSUME NEW pc \in SlotPc, NEW fresh \in Execs \cup {None}
          PROVE  [slot[s] EXCEPT !.pc = pc, !.fresh = fresh] \in Slot
      BY <3>1 DEF Slot
    <3>4. [slot[s] EXCEPT !.pc = OnReply(r, "enqueue", "throw"),
                          !.fresh = OnReply(r, e, None)] \in Slot
      BY <3>1, <3>2, <3>3
    <3>5. QED  BY <3>4 DEF Consistent, TypeOK
  <2>5. QED  BY <2>3, <2>4 DEF Consistent, TypeOK
<1>2. Budgets'
  BY DEF Consistent, Budgets
<1>3. Enqueuers'
  <2>1. /\ slot'[s].fresh = OnReply(r, e, None)
        /\ \A t \in Slots : t # s => slot'[t] = slot[t]
    BY DEF Consistent, TypeOK, Slot
  <2>2. /\ job[e].state = "none" /\ trigger[e] # "enqueue"
        /\ \A t \in Slots : slot[t].fresh # e
    BY DEF Consistent, WorkFollowsRow, Enqueuers, Pending
  <2>3. r # "refused" => row'[e].status = "PENDING"
    BY DEF Consistent, TypeOK
  <2>4. \A f \in Execs : Pending(f) => Pending(f)'
    BY <2>3 DEF Consistent, TypeOK, Pending
  <2>5. slot'[s].fresh # None => slot'[s].fresh = e /\ Pending(e)'
    BY <2>1, <2>2, <2>3 DEF Pending
  <2>6. \A t \in Slots : slot[t].fresh \in Execs \cup {None}
    BY DEF Consistent, TypeOK, Slot
  <2>7. ASSUME NEW t \in Slots, slot'[t].fresh # None
        PROVE  (Pending(slot[t].fresh) /\ trigger[slot[t].fresh] # "enqueue")'
    <3>1. CASE t = s
      BY <2>2, <2>5, <2>7, <3>1 DEF Pending
    <3>2. CASE t # s
      <4>1. Pending(slot[t].fresh) /\ trigger[slot[t].fresh] # "enqueue"
        BY <2>1, <2>7, <3>2 DEF Consistent, Enqueuers
      <4>2. slot'[t].fresh = slot[t].fresh /\ slot[t].fresh \in Execs
        BY <2>1, <2>6, <2>7, <3>2
      <4>3. QED  BY <2>4, <4>1, <4>2 DEF Pending
    <3>3. QED  BY <3>1, <3>2
  <2>8. \A f \in Execs : trigger'[f] = "enqueue" => Pending(f)'
    BY <2>4 DEF Consistent, Enqueuers
  <2>9. \A t1, t2 \in Slots :
          slot'[t1].fresh # None /\ slot'[t1].fresh = slot'[t2].fresh => t1 = t2
    BY <2>1, <2>2, <2>5 DEF Consistent, Enqueuers
  <2>10. QED  BY <2>7, <2>8, <2>9 DEF Enqueuers
<1>4. Processors'
  BY DEF Consistent, TypeOK, Slot, Row, Processors, Busy, ScheduledPc, RunPc
<1>5. WorkFollowsRow'
  BY DEF Consistent, TypeOK, Slot, Row, WorkFollowsRow, Processors, RunPc,
         Outcomes, Busy
<1>6. OneProcessor'
  BY DEF Consistent, TypeOK, Slot, Row, OneProcessor, Processors, Busy,
         Holds, HasLock, Disturbed
<1>7. RowFollowsSlot'
  BY DEF Consistent, TypeOK, Slot, Row, RowFollowsSlot, Processors,
         OneProcessor, Busy, Holds, HasLock, Disturbed, RunPc, Outcomes
<1>8. QueueAndRowAgree'
  BY DEF Consistent, TypeOK, Slot, Row, QueueAndRowAgree, Processors,
         OneProcessor, Busy, Holds, HasLock, RowFollowsSlot, Disturbed, RunPc,
         Outcomes
<1>9. QED  BY <1>1, <1>2, <1>3, <1>4, <1>5, <1>6, <1>7, <1>8 DEF Consistent

(* A scheduled job's queue command gives that row its only job. *)
LEMMA EnqueueScheduledStep ==
  ASSUME Consistent, NEW s \in Slots, NEW r \in Replies, EnqueueScheduled(s, r)
  PROVE  Consistent'
<1> USE DEF EnqueueScheduled, Call, AddJob, NewJob, NoJob, OnReply, Replies
<1>1. TypeOK'
  <2>1. slot[s] \in Slot
    BY DEF Consistent, TypeOK
  <2>2. [slot[s] EXCEPT !.pc = OnReply(r, "complete", "throw"),
                        !.fresh = None] \in Slot
    BY <2>1 DEF Slot, SlotPc, ScheduledPc, EndPc
  <2>3. slot' \in [Slots -> Slot]
    BY <2>2 DEF Consistent, TypeOK
  <2>4. job' \in [JobIds -> Job]
    <3>1. NewJob \in Job
      BY DEF Job, JobState
    <3>2. QED  BY <3>1 DEF Consistent, TypeOK
  <2>5. QED  BY <2>3, <2>4 DEF Consistent, TypeOK
<1>2. Budgets'
  BY DEF Consistent, TypeOK, Job, Slot, Budgets
<1>3. Enqueuers'
  BY DEF Consistent, TypeOK, Job, Slot, Enqueuers, Pending, Processors,
         Busy, ScheduledPc, RunPc
<1>4. Processors'
  BY DEF Consistent, TypeOK, Job, Slot, Processors, Busy, ScheduledPc,
         RunPc, Enqueuers, Pending
<1>5. WorkFollowsRow'
  BY DEF Consistent, TypeOK, Job, Slot, WorkFollowsRow, Processors, RunPc,
         Outcomes, Busy, Enqueuers, Pending
<1>6. OneProcessor'
  BY DEF Consistent, TypeOK, Job, Slot, OneProcessor, Processors, Busy,
         Holds, HasLock, Disturbed, Enqueuers, Pending
<1>7. RowFollowsSlot'
  <2>1. slot[s].job \notin Execs
    BY DEF Consistent, Processors, ScheduledPc
  <2>2. /\ slot'[s].job = slot[s].job
        /\ \A t \in Slots : t # s => slot'[t] = slot[t]
    BY DEF Consistent, TypeOK, Slot
  <2>3. Disturbed => Disturbed'
    BY DEF Consistent, TypeOK, Disturbed
  <2>4. QED  BY <2>1, <2>2, <2>3 DEF Consistent, RowFollowsSlot
<1>8. QueueAndRowAgree'
  BY DEF Consistent, TypeOK, Job, Slot, QueueAndRowAgree, Processors,
         OneProcessor, Busy, Holds, HasLock, RowFollowsSlot, Disturbed, RunPc,
         Outcomes, Enqueuers, Pending
<1>9. QED  BY <1>1, <1>2, <1>3, <1>4, <1>5, <1>6, <1>7, <1>8 DEF Consistent

(* The row says RUNNING before the processor goes on. *)
LEMMA MarkRunningStep ==
  ASSUME Consistent, NEW s \in Slots, NEW r \in Replies, MarkRunning(s, r)
  PROVE  Consistent'
<1> USE DEF MarkRunning, Call, UpdateRow, GoTo, OnReply, Replies
<1>1. TypeOK'
  <2>1. slot[s].job \in Execs
    BY DEF Consistent, Processors, RunPc
  <2>2. [row[slot[s].job] EXCEPT !.status = "RUNNING", !.started = TRUE] \in Row
    <3>1. row[slot[s].job] \in Row
      BY <2>1 DEF Consistent, TypeOK
    <3>2. QED  BY <3>1 DEF Row, Status
  <2>3. row' \in [Execs -> Row]
    BY <2>1, <2>2 DEF Consistent, TypeOK
  <2>4. slot' \in [Slots -> Slot]
    <3>1. PICK pc \in {"loadVersion", "throw"} :
            slot' = [slot EXCEPT ![s].pc = pc]
      OBVIOUS
    <3>2. slot \in [Slots -> Slot] /\ pc \in SlotPc
      BY DEF Consistent, TypeOK, SlotPc, RunPc, EndPc
    <3>3. QED  BY <3>1, <3>2 DEF Slot
  <2>5. QED  BY <2>3, <2>4 DEF Consistent, TypeOK
<1>2. Budgets'
  BY DEF Consistent, Budgets
<1>3. Enqueuers'
  BY DEF Consistent, TypeOK, Slot, Row, Enqueuers, Pending, Processors,
         Busy, ScheduledPc, RunPc
<1>4. Processors'
  BY DEF Consistent, TypeOK, Slot, Row, Processors, Busy, ScheduledPc, RunPc
<1>5. WorkFollowsRow'
  BY DEF Consistent, TypeOK, Slot, Row, WorkFollowsRow, Processors, RunPc,
         Outcomes, Busy
<1>6. OneProcessor'
  BY DEF Consistent, TypeOK, Slot, Row, OneProcessor, Processors, Busy,
         Holds, HasLock, Disturbed
<1>7. RowFollowsSlot'
  <2> SUFFICES ASSUME ~Disturbed'  PROVE RowFollowsSlot'
    BY DEF RowFollowsSlot
  <2>1. ~Disturbed /\ r = "ok"
    BY DEF Consistent, TypeOK, Disturbed
  <2>2. /\ slot'[s].pc = "loadVersion" /\ slot'[s].job = slot[s].job
        /\ \A q \in Slots : q # s => slot'[q] = slot[q]
    BY <2>1 DEF Consistent, TypeOK, Slot
  <2>3. slot[s].job \in Execs /\ Busy(s)
    BY DEF Consistent, Processors, Busy
  <2>4. /\ row'[slot[s].job].status = "RUNNING"
        /\ \A e \in Execs : e # slot[s].job => row'[e] = row[e]
    BY <2>1, <2>3 DEF Consistent, TypeOK, Row
  <2>5. \A q \in Slots : slot[q].job = slot[s].job => q = s
    BY <2>1, <2>3 DEF Consistent, OneProcessor, Processors, Holds, HasLock
  <2>6. QED
    BY <2>1, <2>2, <2>4, <2>5 DEF Consistent, RowFollowsSlot, RunPc
<1>8. QueueAndRowAgree'
  BY DEF Consistent, TypeOK, Slot, Row, QueueAndRowAgree, Processors,
         OneProcessor, Busy, Holds, HasLock, RowFollowsSlot, Disturbed, RunPc,
         Outcomes
<1>9. QED  BY <1>1, <1>2, <1>3, <1>4, <1>5, <1>6, <1>7, <1>8 DEF Consistent

(* Loading the version leaves the row RUNNING. *)
LEMMA LoadVersionStep ==
  ASSUME Consistent, NEW s \in Slots, NEW r \in Replies, LoadVersion(s, r)
  PROVE  Consistent'
<1> USE DEF LoadVersion, Call, GoTo, OnReply, Replies
<1>1. TypeOK'
  BY DEF Consistent, TypeOK, Slot, SlotPc, ScheduledPc, RunPc, EndPc,
         Processors, Busy
<1>2. Budgets'
  BY DEF Consistent, Budgets
<1>3. Enqueuers'
  BY DEF Consistent, TypeOK, Slot, Enqueuers, Pending, Processors, Busy,
         ScheduledPc, RunPc
<1>4. Processors'
  BY DEF Consistent, TypeOK, Slot, Processors, Busy, ScheduledPc, RunPc
<1>5. WorkFollowsRow'
  BY DEF Consistent, TypeOK, Slot, WorkFollowsRow, Processors, RunPc,
         Outcomes, Busy
<1>6. OneProcessor'
  BY DEF Consistent, TypeOK, Slot, OneProcessor, Processors, Busy, Holds, HasLock,
         Disturbed
<1>7. RowFollowsSlot'
  BY DEF Consistent, TypeOK, Slot, RowFollowsSlot, Processors, OneProcessor,
         Busy, Holds, HasLock, Disturbed, RunPc, Outcomes
<1>8. QueueAndRowAgree'
  BY DEF Consistent, QueueAndRowAgree, Disturbed, TypeOK
<1>9. QED  BY <1>1, <1>2, <1>3, <1>4, <1>5, <1>6, <1>7, <1>8 DEF Consistent

(* Whatever the engine returns, the row still says RUNNING. *)
LEMMA EngineReturnsStep ==
  ASSUME Consistent, NEW s \in Slots, EngineReturns(s)
  PROVE  Consistent'
<1> USE DEF EngineReturns, GoTo, disturbances
<1>1. TypeOK'
  BY DEF Consistent, TypeOK, Slot, SlotPc, ScheduledPc, RunPc, EndPc
<1>2. Budgets'
  BY DEF Consistent, Budgets
<1>3. Enqueuers'
  BY DEF Consistent, TypeOK, Slot, Enqueuers, Pending, Processors, Busy,
         ScheduledPc, RunPc
<1>4. Processors'
  BY DEF Consistent, TypeOK, Slot, Processors, Busy, ScheduledPc, RunPc
<1>5. WorkFollowsRow'
  BY DEF Consistent, TypeOK, Slot, WorkFollowsRow, Processors, RunPc,
         Outcomes, Busy
<1>6. OneProcessor'
  BY DEF Consistent, TypeOK, Slot, OneProcessor, Processors, Busy, Holds, HasLock,
         Disturbed
<1>7. RowFollowsSlot'
  BY DEF Consistent, TypeOK, Slot, RowFollowsSlot, Processors, OneProcessor,
         Busy, Holds, HasLock, Disturbed, RunPc, Outcomes
<1>8. QueueAndRowAgree'
  BY DEF Consistent, QueueAndRowAgree, Disturbed
<1>9. QED  BY <1>1, <1>2, <1>3, <1>4, <1>5, <1>6, <1>7, <1>8 DEF Consistent

(* Recording success leaves SUCCESS, or a disturbance. *)
LEMMA MarkSuccessStep ==
  ASSUME Consistent, NEW s \in Slots, NEW r \in Replies, MarkSuccess(s, r)
  PROVE  Consistent'
<1> USE DEF MarkSuccess, Call, UpdateRow, GoTo, OnReply, Replies
<1>1. TypeOK'
  <2>1. slot[s].job \in Execs
    BY DEF Consistent, Processors, RunPc
  <2>2. [row[slot[s].job] EXCEPT !.status = "SUCCESS", !.completed = TRUE] \in Row
    <3>1. row[slot[s].job] \in Row
      BY <2>1 DEF Consistent, TypeOK
    <3>2. QED  BY <3>1 DEF Row, Status
  <2>3. row' \in [Execs -> Row]
    BY <2>1, <2>2 DEF Consistent, TypeOK
  <2>4. slot' \in [Slots -> Slot]
    BY DEF Consistent, TypeOK, Slot, SlotPc, RunPc, EndPc
  <2>5. QED  BY <2>3, <2>4 DEF Consistent, TypeOK
<1>2. Budgets'
  BY DEF Consistent, Budgets
<1>3. Enqueuers'
  BY DEF Consistent, TypeOK, Slot, Row, Enqueuers, Pending, Processors,
         Busy, ScheduledPc, RunPc
<1>4. Processors'
  BY DEF Consistent, TypeOK, Slot, Row, Processors, Busy, ScheduledPc, RunPc
<1>5. WorkFollowsRow'
  BY DEF Consistent, TypeOK, Slot, Row, WorkFollowsRow, Processors, RunPc,
         Outcomes, Busy
<1>6. OneProcessor'
  BY DEF Consistent, TypeOK, Slot, Row, OneProcessor, Processors, Busy,
         Holds, HasLock, Disturbed
<1>7. RowFollowsSlot'
  BY SMTT(20) DEF Consistent, TypeOK, Slot, Row, RowFollowsSlot, Processors,
         OneProcessor, Busy, Holds, HasLock, Disturbed, RunPc, Outcomes
<1>8. QueueAndRowAgree'
  BY DEF Consistent, TypeOK, Slot, Row, QueueAndRowAgree, Processors,
         OneProcessor, Busy, Holds, HasLock, RowFollowsSlot, Disturbed, RunPc,
         Outcomes
<1>9. QED  BY <1>1, <1>2, <1>3, <1>4, <1>5, <1>6, <1>7, <1>8 DEF Consistent

(* Recording a failure leaves FAILED, or a disturbance. *)
LEMMA MarkFailedStep ==
  ASSUME Consistent, NEW s \in Slots, NEW r \in Replies, MarkFailed(s, r)
  PROVE  Consistent'
<1> USE DEF MarkFailed, Call, UpdateRow, FailedRow, GoTo, OnReply, Replies
<1>1. TypeOK'
  <2>1. slot[s].job \in Execs
    BY DEF Consistent, Processors, RunPc
  <2>2. FailedRow(slot[s].job) \in Row
    <3>1. row[slot[s].job] \in Row
      BY <2>1 DEF Consistent, TypeOK
    <3>2. QED  BY <3>1 DEF Row, Status
  <2>3. row' \in [Execs -> Row]
    BY <2>1, <2>2 DEF Consistent, TypeOK
  <2>4. slot' \in [Slots -> Slot]
    BY DEF Consistent, TypeOK, Slot, SlotPc, RunPc, EndPc
  <2>5. QED  BY <2>3, <2>4 DEF Consistent, TypeOK
<1>2. Budgets'
  BY DEF Consistent, Budgets
<1>3. Enqueuers'
  BY DEF Consistent, TypeOK, Slot, Row, Enqueuers, Pending, Processors,
         Busy, ScheduledPc, RunPc
<1>4. Processors'
  BY DEF Consistent, TypeOK, Slot, Row, Processors, Busy, ScheduledPc, RunPc
<1>5. WorkFollowsRow'
  BY DEF Consistent, TypeOK, Slot, Row, WorkFollowsRow, Processors, RunPc,
         Outcomes, Busy
<1>6. OneProcessor'
  BY DEF Consistent, TypeOK, Slot, Row, OneProcessor, Processors, Busy,
         Holds, HasLock, Disturbed
<1>7. RowFollowsSlot'
  <2>1. SUFFICES ASSUME ~Disturbed', NEW q \in Slots, slot'[q].job \in Execs
                 PROVE  /\ slot'[q].pc = "markRunning" =>
                             row'[slot'[q].job].status \in {"PENDING", "FAILED"}
                        /\ slot'[q].pc \in RunPc => row'[slot'[q].job].status = "RUNNING"
                        /\ slot'[q].pc = "complete" => row'[slot'[q].job].status \in Outcomes
                        /\ slot'[q].pc = "throw" => row'[slot'[q].job].status = "FAILED"
    BY DEF RowFollowsSlot
  <2>2. r = "ok" /\ ~Disturbed
    BY <2>1 DEF Disturbed, Consistent, TypeOK
  <2>3. slot[s].job \in Execs /\ Holds(s) /\ Busy(s)
    BY <2>2 DEF Consistent, Processors, OneProcessor, Busy, RunPc
  <2>4. row' = [row EXCEPT ![slot[s].job] = FailedRow(slot[s].job)]
    BY <2>2 DEF FailedRow
  <2>5. CASE q = s
    <3>1. slot'[q].pc = "complete" /\ slot'[q].job = slot[s].job
      BY <2>2, <2>5 DEF Consistent, TypeOK, Slot
    <3>2. row'[slot[s].job].status = "FAILED"
      <4>1. row[slot[s].job] \in Row /\ row'[slot[s].job] = FailedRow(slot[s].job)
        BY <2>3, <2>4 DEF Consistent, TypeOK
      <4>2. QED  BY <4>1 DEF Row
    <3>3. QED  BY <3>1, <3>2 DEF RunPc, Outcomes
  <2>6. CASE q # s
    <3>1. slot'[q] = slot[q]
      BY <2>6 DEF Consistent, TypeOK
    <3>2. Busy(q) /\ Holds(q)
      BY <2>1, <2>2, <3>1 DEF Consistent, Processors, OneProcessor
    <3>3. slot[q].job # slot[s].job
      BY <2>3, <2>6, <3>2 DEF Holds, HasLock
    <3>4. row'[slot[q].job] = row[slot[q].job]
      BY <2>1, <2>4, <3>1, <3>3 DEF Consistent, TypeOK
    <3>5. QED  BY <2>1, <2>2, <3>1, <3>4 DEF Consistent, RowFollowsSlot
  <2>7. QED  BY <2>5, <2>6
<1>8. QueueAndRowAgree'
  BY DEF Consistent, TypeOK, Slot, Row, QueueAndRowAgree, Processors,
         OneProcessor, Busy, Holds, HasLock, RowFollowsSlot, Disturbed, RunPc,
         Outcomes
<1>9. QED  BY <1>1, <1>2, <1>3, <1>4, <1>5, <1>6, <1>7, <1>8 DEF Consistent

(* The catch block leaves FAILED, or a disturbance. *)
LEMMA CatchMarkFailedStep ==
  ASSUME Consistent, NEW s \in Slots, NEW r \in Replies, CatchMarkFailed(s, r)
  PROVE  Consistent'
<1> USE DEF CatchMarkFailed, Call, UpdateRow, FailedRow, GoTo, OnReply,
            Replies
<1>1. TypeOK'
  <2>1. slot[s].job \in Execs
    BY DEF Consistent, Processors, RunPc
  <2>2. FailedRow(slot[s].job) \in Row
    <3>1. row[slot[s].job] \in Row
      BY <2>1 DEF Consistent, TypeOK
    <3>2. QED  BY <3>1 DEF Row, Status
  <2>3. row' \in [Execs -> Row]
    BY <2>1, <2>2 DEF Consistent, TypeOK
  <2>4. slot' \in [Slots -> Slot]
    BY DEF Consistent, TypeOK, Slot, SlotPc, RunPc, EndPc
  <2>5. QED  BY <2>3, <2>4 DEF Consistent, TypeOK
<1>2. Budgets'
  BY DEF Consistent, Budgets
<1>3. Enqueuers'
  BY DEF Consistent, TypeOK, Slot, Row, Enqueuers, Pending, Processors,
         Busy, ScheduledPc, RunPc
<1>4. Processors'
  BY DEF Consistent, TypeOK, Slot, Row, Processors, Busy, ScheduledPc, RunPc
<1>5. WorkFollowsRow'
  BY DEF Consistent, TypeOK, Slot, Row, WorkFollowsRow, Processors, RunPc,
         Outcomes, Busy
<1>6. OneProcessor'
  BY DEF Consistent, TypeOK, Slot, Row, OneProcessor, Processors, Busy,
         Holds, HasLock, Disturbed
<1>7. RowFollowsSlot'
  BY DEF Consistent, TypeOK, Slot, Row, RowFollowsSlot, Processors,
         OneProcessor, Busy, Holds, HasLock, Disturbed, RunPc, Outcomes
<1>8. QueueAndRowAgree'
  BY DEF Consistent, TypeOK, Slot, Row, QueueAndRowAgree, Processors,
         OneProcessor, Busy, Holds, HasLock, RowFollowsSlot, Disturbed, RunPc,
         Outcomes
<1>9. QED  BY <1>1, <1>2, <1>3, <1>4, <1>5, <1>6, <1>7, <1>8 DEF Consistent

(* A completed job's slot is free and its row has an outcome. *)
LEMMA CompleteJobStep ==
  ASSUME Consistent, NEW s \in Slots, CompleteJob(s)
  PROVE  Consistent'
<1> USE DEF CompleteJob, Return, EndAttempt, Holds, HasLock, Idle, disturbances
<1>1. TypeOK'
  <2>1. slot[s].job \in JobIds
    BY DEF Consistent, TypeOK, Processors, Busy, Slot
  <2>2. "completed" \in JobState
    BY DEF JobState
  <2>3. job' \in [JobIds -> Job]
    BY <2>1, <2>2, EndedTyped DEF Consistent
  <2>4. slot' \in [Slots -> Slot]
    BY DEF Consistent, TypeOK, Slot, SlotPc
  <2>5. QED  BY <2>3, <2>4 DEF Consistent, TypeOK
<1>2. Budgets'
  BY DEF Consistent, TypeOK, Budgets, Processors, Busy, Job, Slot
<1>3. Enqueuers'
  BY DEF Consistent, TypeOK, Job, Slot, Enqueuers, Pending, Processors,
         Busy, ScheduledPc, RunPc
<1>4. Processors'
  BY DEF Consistent, TypeOK, Job, Slot, Processors, Busy, ScheduledPc, RunPc
<1>5. WorkFollowsRow'
  BY DEF Consistent, TypeOK, Job, Slot, WorkFollowsRow, Processors, RunPc,
         Outcomes, Busy
<1>6. OneProcessor'
  <2>1. /\ slot[s].job \in JobIds
        /\ \A k \in JobIds : k # slot[s].job => job'[k] = job[k]
    BY DEF Consistent, TypeOK, Processors, Busy, Slot
  <2>2. /\ slot'[s] = Idle
        /\ \A q \in Slots : q # s => slot'[q] = slot[q]
    BY DEF Consistent, TypeOK
  <2>3. Holds(s) => job'[slot[s].job].state # "active"
    BY <2>1 DEF Consistent, TypeOK, Job
  <2>4. Disturbed' = Disturbed
    BY DEF Disturbed
  <2>5. \A q \in Slots : slot[q].job \in JobIds \cup {None}
    BY DEF Consistent, TypeOK, Slot
  <2> SUFFICES ASSUME ~Disturbed
               PROVE  /\ \A q \in Slots : Busy(q)' => Holds(q)'
                      /\ \A k \in JobIds :
                           job'[k].state = "active" => slot'[job'[k].lock].job = k
    BY <2>4 DEF OneProcessor
  <2>6. Holds(s) /\ job[slot[s].job].lock = s
    BY DEF Consistent, OneProcessor, Busy
  <2>7. \A q \in Slots : Busy(q)' => Holds(q)'
    <3> SUFFICES ASSUME NEW q \in Slots, Busy(q)'
                 PROVE  Holds(q)'
      OBVIOUS
    <3>1. q # s /\ slot'[q] = slot[q]
      BY <2>2 DEF Busy
    <3>2. Busy(q) /\ Holds(q) /\ slot[q].job \in JobIds
      BY <2>5, <3>1 DEF Consistent, OneProcessor, Processors, Busy
    <3>3. slot[q].job # slot[s].job
      BY <2>6, <3>1, <3>2
    <3>4. QED  BY <2>1, <3>1, <3>2, <3>3
  <2>8. ASSUME NEW k \in JobIds, job'[k].state = "active"
        PROVE  slot'[job'[k].lock].job = k
    <3>1. k # slot[s].job /\ job'[k] = job[k]
      BY <2>1, <2>3, <2>6, <2>8
    <3>2. slot[job[k].lock].job = k /\ job[k].lock \in Slots
      BY <2>8, <3>1 DEF Consistent, OneProcessor, Budgets
    <3>3. QED  BY <2>2, <3>1, <3>2
  <2>9. QED  BY <2>7, <2>8
<1>7. RowFollowsSlot'
  BY DEF Consistent, TypeOK, Job, Slot, RowFollowsSlot, Processors,
         OneProcessor, Busy, Holds, HasLock, Disturbed, RunPc, Outcomes
<1>8. QueueAndRowAgree'
  BY DEF Consistent, TypeOK, Job, Slot, QueueAndRowAgree, Processors,
         OneProcessor, Busy, Holds, HasLock, RowFollowsSlot, Disturbed, RunPc,
         Outcomes, Enqueuers, Pending
<1>9. QED  BY <1>1, <1>2, <1>3, <1>4, <1>5, <1>6, <1>7, <1>8 DEF Consistent

(* A failed attempt is counted, its slot is free and its row FAILED. *)
LEMMA FailAttemptStep ==
  ASSUME Consistent, NEW s \in Slots, FailAttempt(s)
  PROVE  Consistent'
<1> USE DEF FailAttempt, Return, EndAttempt, RetryOrFail, Holds, HasLock, Idle, disturbances
<1>1. TypeOK'
  <2>1. slot[s].job \in JobIds
    BY DEF Consistent, TypeOK, Processors, Busy, Slot
  <2>2. RetryOrFail(slot[s].job) \in JobState
    BY DEF JobState
  <2>3. job' \in [JobIds -> Job]
    BY <2>1, <2>2, EndedTyped DEF Consistent
  <2>4. slot' \in [Slots -> Slot]
    BY DEF Consistent, TypeOK, Slot, SlotPc
  <2>5. QED  BY <2>3, <2>4 DEF Consistent, TypeOK
<1>2. Budgets'
  <2>1. /\ slot[s].job \in JobIds
        /\ \A k \in JobIds : k # slot[s].job => job'[k] = job[k]
    BY DEF Consistent, TypeOK, Processors, Busy, Slot
  <2>2. CASE ~Holds(s)
    BY <2>2 DEF Consistent, Budgets
  <2>3. CASE Holds(s)
    <3>1. /\ job'[slot[s].job].state = RetryOrFail(slot[s].job)
          /\ job'[slot[s].job].made = job[slot[s].job].made + 1
          /\ job'[slot[s].job].stalls = job[slot[s].job].stalls
      BY <2>1, <2>3 DEF Consistent, TypeOK, Job
    <3>2. /\ job[slot[s].job].made \in Nat
          /\ job[slot[s].job].stalls <= MaxStalled
      BY <2>1, <2>3 DEF Consistent, TypeOK, Job, Budgets
    <3>3. ASSUME NEW k \in JobIds
          PROVE  /\ job'[k].state \in {"wait", "active", "delayed"} =>
                      job'[k].made < MaxAttempts /\ job'[k].stalls <= MaxStalled
                 /\ job'[k].state = "active" => job'[k].lock \in Slots
      <4>1. CASE k = slot[s].job
        BY <3>1, <3>2, <4>1
      <4>2. CASE k # slot[s].job
        BY <2>1, <4>2 DEF Consistent, Budgets
      <4>3. QED  BY <4>1, <4>2
    <3>4. QED  BY <3>3 DEF Budgets
  <2>4. QED  BY <2>2, <2>3
<1>3. Enqueuers'
  BY DEF Consistent, TypeOK, Job, Slot, Enqueuers, Pending, Processors,
         Busy, ScheduledPc, RunPc
<1>4. Processors'
  BY DEF Consistent, TypeOK, Job, Slot, Processors, Busy, ScheduledPc, RunPc
<1>5. WorkFollowsRow'
  BY DEF Consistent, TypeOK, Job, Slot, WorkFollowsRow, Processors, RunPc,
         Outcomes, Busy
<1>6. OneProcessor'
  <2>1. /\ slot[s].job \in JobIds
        /\ \A k \in JobIds : k # slot[s].job => job'[k] = job[k]
    BY DEF Consistent, TypeOK, Processors, Busy, Slot
  <2>2. /\ slot'[s] = Idle
        /\ \A q \in Slots : q # s => slot'[q] = slot[q]
    BY DEF Consistent, TypeOK
  <2>3. Holds(s) => job'[slot[s].job].state # "active"
    BY <2>1 DEF Consistent, TypeOK, Job
  <2>4. Disturbed' = Disturbed
    BY DEF Disturbed
  <2>5. \A q \in Slots : slot[q].job \in JobIds \cup {None}
    BY DEF Consistent, TypeOK, Slot
  <2> SUFFICES ASSUME ~Disturbed
               PROVE  /\ \A q \in Slots : Busy(q)' => Holds(q)'
                      /\ \A k \in JobIds :
                           job'[k].state = "active" => slot'[job'[k].lock].job = k
    BY <2>4 DEF OneProcessor
  <2>6. Holds(s) /\ job[slot[s].job].lock = s
    BY DEF Consistent, OneProcessor, Busy
  <2>7. \A q \in Slots : Busy(q)' => Holds(q)'
    <3> SUFFICES ASSUME NEW q \in Slots, Busy(q)'
                 PROVE  Holds(q)'
      OBVIOUS
    <3>1. q # s /\ slot'[q] = slot[q]
      BY <2>2 DEF Busy
    <3>2. Busy(q) /\ Holds(q) /\ slot[q].job \in JobIds
      BY <2>5, <3>1 DEF Consistent, OneProcessor, Processors, Busy
    <3>3. slot[q].job # slot[s].job
      BY <2>6, <3>1, <3>2
    <3>4. QED  BY <2>1, <3>1, <3>2, <3>3
  <2>8. ASSUME NEW k \in JobIds, job'[k].state = "active"
        PROVE  slot'[job'[k].lock].job = k
    <3>1. k # slot[s].job /\ job'[k] = job[k]
      BY <2>1, <2>3, <2>6, <2>8
    <3>2. slot[job[k].lock].job = k /\ job[k].lock \in Slots
      BY <2>8, <3>1 DEF Consistent, OneProcessor, Budgets
    <3>3. QED  BY <2>2, <3>1, <3>2
  <2>9. QED  BY <2>7, <2>8
<1>7. RowFollowsSlot'
  BY DEF Consistent, TypeOK, Job, Slot, RowFollowsSlot, Processors,
         OneProcessor, Busy, Holds, HasLock, Disturbed, RunPc, Outcomes
<1>8. QueueAndRowAgree'
  BY DEF Consistent, TypeOK, Job, Slot, QueueAndRowAgree, Processors,
         OneProcessor, Busy, Holds, HasLock, RowFollowsSlot, Disturbed, RunPc,
         Outcomes, Enqueuers, Pending
<1>9. QED  BY <1>1, <1>2, <1>3, <1>4, <1>5, <1>6, <1>7, <1>8 DEF Consistent

(* A crash is a disturbance; processors vanish, rows and jobs stay. *)
LEMMA CrashStep ==
  ASSUME Consistent, NEW p \in Procs, Crash(p)
  PROVE  Consistent'
<1> USE DEF Crash, Idle
<1>1. TypeOK'
  BY DEF Consistent, TypeOK, Slot, SlotPc, ScheduledPc, RunPc, EndPc
<1>2. Budgets'
  BY DEF Consistent, Budgets
<1>3. Enqueuers'
  BY DEF Consistent, TypeOK, Slot, Enqueuers, Pending, Processors, Busy,
         ScheduledPc, RunPc
<1>4. Processors'
  BY DEF Consistent, TypeOK, Slot, Processors, Busy, ScheduledPc, RunPc
<1>5. WorkFollowsRow'
  BY DEF Consistent, TypeOK, Slot, WorkFollowsRow, Processors, RunPc,
         Outcomes, Busy
<1>6. OneProcessor'
  BY DEF Consistent, TypeOK, Slot, OneProcessor, Processors, Busy, Holds, HasLock,
         Disturbed
<1>7. RowFollowsSlot'
  BY DEF Consistent, TypeOK, Slot, RowFollowsSlot, Processors, OneProcessor,
         Busy, Holds, HasLock, Disturbed, RunPc, Outcomes
<1>8. QueueAndRowAgree'
  BY DEF Consistent, QueueAndRowAgree, Disturbed, TypeOK
<1>9. QED  BY <1>1, <1>2, <1>3, <1>4, <1>5, <1>6, <1>7, <1>8 DEF Consistent

-----------------------------------------------------------------------------
(* The code starts with no rows, no jobs and idle processors, which is     *)
(* consistent.                                                             *)
LEMMA InitConsistent == Init => Consistent
<1> SUFFICES ASSUME Init PROVE Consistent
  OBVIOUS
<1> USE DEF Init, NoRow, NoJob, Idle
<1>1. TypeOK
  BY DEF TypeOK, Row, Status, Job, JobState, Slot, SlotPc
<1>2. Budgets /\ Enqueuers /\ Processors
  BY DEF Budgets, Enqueuers, Processors, Busy, RunPc, ScheduledPc
<1>3. WorkFollowsRow /\ OneProcessor /\ RowFollowsSlot /\ QueueAndRowAgree
  BY DEF WorkFollowsRow, OneProcessor, RowFollowsSlot, QueueAndRowAgree,
         RunPc, Busy
<1>4. QED  BY <1>1, <1>2, <1>3 DEF Consistent

(* Consistent depends on nothing but the variables.                        *)
LEMMA Stuttering ==
  ASSUME Consistent, UNCHANGED vars
  PROVE  Consistent'
BY DEF vars, Consistent, TypeOK, Budgets, Enqueuers, Pending, Processors,
       Busy, WorkFollowsRow, OneProcessor, Holds, HasLock, RowFollowsSlot,
       QueueAndRowAgree, Disturbed

(* Every awaited call of the handlers and every move of the queue leaves   *)
(* rows, jobs and processors consistent.                                   *)
LEMMA NextConsistent ==
  ASSUME Consistent, [Next]_vars
  PROVE  Consistent'
<1>1. CASE Publish
  BY <1>1, PublishStep
<1>2. ASSUME NEW e \in Execs, Triggering(e)
      PROVE  Consistent'
  BY <1>2, TriggerCreateStep, TriggerEnqueueStep DEF Triggering
<1>3. ASSUME NEW s \in Slots, Processing(s)
      PROVE  Consistent'
  <2>1. ASSUME NEW r \in Replies,
               \/ FindPublished(s, r) \/ EnqueueScheduled(s, r)
               \/ \E e \in Execs : CreateScheduled(s, e, r)
               \/ MarkRunning(s, r) \/ LoadVersion(s, r)
               \/ MarkSuccess(s, r) \/ MarkFailed(s, r) \/ CatchMarkFailed(s, r)
        PROVE  Consistent'
    BY <2>1, FindPublishedStep, EnqueueScheduledStep, CreateScheduledStep,
       MarkRunningStep, LoadVersionStep, MarkSuccessStep, MarkFailedStep,
       CatchMarkFailedStep
  <2>2. QED
    BY <1>3, <2>1, EngineReturnsStep, CompleteJobStep, FailAttemptStep
    DEF Processing
<1>4. ASSUME NEW j \in JobIds, Queueing(j)
      PROVE  Consistent'
  BY <1>4, ScheduleFiresStep, TakeJobStep, PromoteDelayedStep,
     RecoverStalledStep, LoseLockStep DEF Queueing
<1>5. ASSUME NEW p \in Procs, Crash(p)
      PROVE  Consistent'
  BY <1>5, CrashStep
<1>6. CASE UNCHANGED vars
  BY <1>6, Stuttering
<1>7. QED  BY <1>1, <1>2, <1>3, <1>4, <1>5, <1>6 DEF Next, Quiescent

(* Rows, jobs and processors are consistent in every reachable state.      *)
THEOREM AlwaysConsistent == Spec => []Consistent
<1>1. Init => Consistent
  BY InitConsistent
<1>2. Consistent /\ [Next]_vars => Consistent'
  BY NextConsistent
<1>3. QED  BY <1>1, <1>2, PTL DEF Spec

(* The rows, the queue and the processors keep their types.                *)
THEOREM TypeCorrect == Spec => []TypeOK
<1>1. Consistent => TypeOK
  BY DEF Consistent
<1>2. QED  BY <1>1, AlwaysConsistent, PTL

(* triggerExecution enqueues no job before its row is there, and no        *)
(* processor decides an execution it has not marked RUNNING.               *)
THEOREM WorkAlwaysFollowsRow == Spec => []WorkFollowsRow
<1>1. Consistent => WorkFollowsRow
  BY DEF Consistent
<1>2. QED  BY <1>1, AlwaysConsistent, PTL

(* With no failed call, crash or lost lock, whatever the interleaving of   *)
(* requests and processors: a completed job has left an outcome, a job out *)
(* of attempts has left FAILED.                                            *)
THEOREM QueueAlwaysAgreesWithRow == Spec => []QueueAndRowAgree
<1>1. Consistent => QueueAndRowAgree
  BY DEF Consistent
<1>2. QED  BY <1>1, AlwaysConsistent, PTL

-----------------------------------------------------------------------------
(* The refinement: each action is an action of the lifecycle, or leaves    *)
(* its variables alone.                                                    *)

(* Disturbances are never forgotten.                                       *)
LEMMA DisturbedStays ==
  ASSUME Consistent, Next
  PROVE  Disturbed => Disturbed'
<1>1. failedCalls \in Nat /\ crashes \in Nat /\ lockLosses \in Nat
  BY DEF Consistent, TypeOK
<1> DEFINE Grows == /\ failedCalls' \in {failedCalls, failedCalls + 1}
                    /\ crashes' \in {crashes, crashes + 1}
                    /\ lockLosses' \in {lockLosses, lockLosses + 1}
<1>2. ASSUME NEW e \in Execs, Triggering(e) PROVE Grows
  BY <1>2 DEF Triggering, TriggerCreate, TriggerEnqueue, Call
<1>3. ASSUME NEW s \in Slots, Processing(s) PROVE Grows
  <2>1. ASSUME NEW r \in Replies, Call(r) PROVE Grows
    BY <2>1 DEF Call
  <2>2. CASE UNCHANGED disturbances
    BY <2>2 DEF disturbances
  <2>3. QED
    BY <1>3, <2>1, <2>2
    DEF Processing, FindPublished, EnqueueScheduled, CreateScheduled,
        MarkRunning, LoadVersion, MarkSuccess, MarkFailed, CatchMarkFailed,
        EngineReturns, CompleteJob, FailAttempt, Return, EndAttempt
<1>4. ASSUME NEW j \in JobIds, Queueing(j) PROVE Grows
  BY <1>4 DEF Queueing, ScheduleFires, TakeJob, GiveJob, PromoteDelayed, Promote,
              RecoverStalled, LoseLock, disturbances
<1>5. ASSUME NEW p \in Procs, Crash(p) PROVE Grows
  BY <1>5 DEF Crash
<1>6. ASSUME Publish PROVE Grows
  BY <1>6 DEF Publish, disturbances
<1>7. ASSUME UNCHANGED vars PROVE Grows
  BY <1>7 DEF vars
<1> HIDE DEF Grows
<1>8. Grows
  BY <1>2, <1>3, <1>4, <1>5, <1>6, <1>7 DEF Next, Quiescent
<1> USE DEF Grows
<1>9. QED  BY <1>1, <1>8 DEF Disturbed

(* What one row of the status column does in a lifecycle step.             *)
LEMMA LifecycleMove ==
  ASSUME Consistent, NEW e \in Execs, NEW new \in Row,
         row' = [row EXCEPT ![e] = new],
         Disturbed => Disturbed',
         \/ row[e].status = "NONE" /\ new.status = "PENDING"
         \/ row[e].status \in {"PENDING", "FAILED"} /\ new.status = "RUNNING"
         \/ row[e].status = "RUNNING" /\ new.status \in Outcomes
         \/ Disturbed' /\ row[e].status \in {"RUNNING"} \cup Outcomes
                       /\ new.status \in {"RUNNING"} \cup Outcomes
  PROVE  Lifecycle!Next
<1> DEFINE status == [x \in Execs |-> row[x].status]
<1>1. status' = [status EXCEPT ![e] = new.status]
  BY DEF Consistent, TypeOK
<1>2. Disturbed' \in {Disturbed, TRUE}
  BY DEF Disturbed
<1>3. status[e] = row[e].status
  OBVIOUS
<1>4. \/ Lifecycle!Create(e) \/ Lifecycle!Start(e) \/ Lifecycle!Finish(e)
      \/ Lifecycle!Revise(e)
  BY <1>1, <1>3
  DEF Outcomes, Lifecycle!Create, Lifecycle!Start, Lifecycle!Finish,
      Lifecycle!Revise, Lifecycle!Move, Lifecycle!Outcomes, Lifecycle!Started
<1>5. QED  BY <1>2, <1>4 DEF Lifecycle!Next

(* An awaited call that reaches a row moves its status as the lifecycle    *)
(* allows; one that is refused, or no such call, leaves it.                *)
LEMMA StepImplements ==
  ASSUME Consistent, Next
  PROVE  Lifecycle!Next
<1>1. Disturbed => Disturbed'
  BY DisturbedStays
<1>2. CASE UNCHANGED row
  BY <1>1, <1>2 DEF Lifecycle!Next, Disturbed
<1>3. ASSUME NEW e \in Execs, NEW r \in Replies, TriggerCreate(e, r)
      PROVE  Lifecycle!Next
  <2>1. PendingRow(User) \in Row /\ PendingRow(User).status = "PENDING"
    BY DEF PendingRow, NoRow, Row, Status
  <2>2. CASE row' = [row EXCEPT ![e] = PendingRow(User)]
    BY <1>1, <1>3, <2>1, <2>2, LifecycleMove DEF TriggerCreate, Unused
  <2>3. QED  BY <1>2, <1>3, <2>2 DEF TriggerCreate, UpdateRow
<1>4. ASSUME NEW s \in Slots, NEW e \in Execs, NEW r \in Replies,
             CreateScheduled(s, e, r)
      PROVE  Lifecycle!Next
  <2> DEFINE new == PendingRow(slot[s].job)
  <2>1. slot[s].job \in Ticks
    BY <1>4 DEF CreateScheduled, Consistent, Processors, ScheduledPc
  <2>2. new \in Row /\ new.status = "PENDING"
    BY <2>1 DEF PendingRow, NoRow, Row, Status
  <2>3. CASE row' = [row EXCEPT ![e] = new]
    <3> HIDE DEF new
    <3>1. QED
      BY <1>1, <1>4, <2>2, <2>3, LifecycleMove DEF CreateScheduled, Unused
  <2>4. QED  BY <1>2, <1>4, <2>3 DEF CreateScheduled, UpdateRow
<1>5. ASSUME NEW s \in Slots, NEW r \in Replies, MarkRunning(s, r)
      PROVE  Lifecycle!Next
  <2> DEFINE e == slot[s].job
             new == [row[e] EXCEPT !.status = "RUNNING", !.started = TRUE]
  <2>1. e \in Execs /\ row[e].status # "NONE" /\ row[e] \in Row
    BY <1>5 DEF MarkRunning, Consistent, TypeOK, Processors, Busy, WorkFollowsRow
  <2>2. new \in Row /\ new.status = "RUNNING"
    BY <2>1 DEF Row, Status
  <2>3. Disturbed' \/ row[e].status \in {"PENDING", "FAILED"}
    BY <1>1, <1>5, <2>1 DEF MarkRunning, Consistent, RowFollowsSlot
  <2>4. row[e].status \in {"PENDING", "RUNNING"} \cup Outcomes
    BY <2>1 DEF Row, Status, Outcomes
  <2>5. CASE row' = [row EXCEPT ![e] = new]
    <3> HIDE DEF e, new
    <3>1. QED
      BY <1>1, <2>1, <2>2, <2>3, <2>4, <2>5, LifecycleMove
  <2>6. QED  BY <1>2, <1>5, <2>5 DEF MarkRunning, UpdateRow
<1>6. ASSUME NEW s \in Slots, slot[s].pc \in RunPc,
             NEW new \in Row, new.status \in Outcomes,
             row' = [row EXCEPT ![slot[s].job] = new]
      PROVE  Lifecycle!Next
  <2>1. slot[s].job \in Execs
    BY <1>6 DEF Consistent, Processors
  <2>2. row[slot[s].job].status \in {"RUNNING"} \cup Outcomes
    BY <1>6 DEF Consistent, WorkFollowsRow
  <2>3. Disturbed' \/ row[slot[s].job].status = "RUNNING"
    BY <1>1, <1>6, <2>1 DEF Consistent, RowFollowsSlot
  <2>4. QED  BY <1>1, <1>6, <2>1, <2>2, <2>3, LifecycleMove
<1>7. ASSUME NEW s \in Slots, slot[s].pc \in RunPc
      PROVE  /\ FailedRow(slot[s].job) \in Row
             /\ FailedRow(slot[s].job).status = "FAILED"
  <2>1. row[slot[s].job] \in Row
    BY <1>7 DEF Consistent, TypeOK, Processors
  <2>2. QED  BY <2>1 DEF FailedRow, Row, Status
<1>8. ASSUME NEW s \in Slots, NEW r \in Replies, MarkSuccess(s, r)
      PROVE  Lifecycle!Next
  <2> DEFINE new == [row[slot[s].job] EXCEPT !.status = "SUCCESS",
                                             !.completed = TRUE]
  <2>1. slot[s].pc \in RunPc
    BY <1>8 DEF MarkSuccess, RunPc
  <2>2. row[slot[s].job] \in Row
    BY <2>1 DEF Consistent, TypeOK, Processors
  <2>3. new \in Row /\ new.status \in Outcomes
    BY <2>2 DEF Row, Status, Outcomes
  <2>4. CASE row' = [row EXCEPT ![slot[s].job] = new]
    <3> HIDE DEF new
    <3>1. QED  BY <1>6, <2>1, <2>3, <2>4
  <2>5. QED  BY <1>2, <1>8, <2>4 DEF MarkSuccess, UpdateRow
<1>9. ASSUME NEW s \in Slots, NEW r \in Replies,
             MarkFailed(s, r) \/ CatchMarkFailed(s, r)
      PROVE  Lifecycle!Next
  <2>1. slot[s].pc \in RunPc
    BY <1>9 DEF MarkFailed, CatchMarkFailed, RunPc
  <2>2. /\ FailedRow(slot[s].job) \in Row
        /\ FailedRow(slot[s].job).status \in Outcomes
    BY <1>7, <2>1 DEF Outcomes
  <2>3. CASE row' = [row EXCEPT ![slot[s].job] = FailedRow(slot[s].job)]
    BY <1>6, <2>1, <2>2, <2>3
  <2>4. QED  BY <1>2, <1>9, <2>3 DEF MarkFailed, CatchMarkFailed, UpdateRow
<1>10. ASSUME NEW e \in Execs, Triggering(e)
       PROVE  Lifecycle!Next
  BY <1>2, <1>3, <1>10 DEF Triggering, TriggerEnqueue
<1>11. ASSUME NEW s \in Slots, Processing(s)
       PROVE  Lifecycle!Next
  <2>1. CASE EngineReturns(s) \/ CompleteJob(s) \/ FailAttempt(s)
    BY <1>2, <2>1 DEF EngineReturns, CompleteJob, FailAttempt, Return, EndAttempt
  <2>2. ASSUME NEW r \in Replies,
               FindPublished(s, r) \/ EnqueueScheduled(s, r) \/ LoadVersion(s, r)
        PROVE  Lifecycle!Next
    BY <1>2, <2>2 DEF FindPublished, EnqueueScheduled, LoadVersion
  <2>3. QED
    BY <1>4, <1>5, <1>8, <1>9, <1>11, <2>1, <2>2 DEF Processing
<1>12. ASSUME NEW j \in JobIds, Queueing(j)
       PROVE  Lifecycle!Next
  BY <1>2, <1>12 DEF Queueing, ScheduleFires, TakeJob, GiveJob, PromoteDelayed, Promote,
                     RecoverStalled, LoseLock
<1>13. CASE Publish \/ (\E p \in Procs : Crash(p)) \/ Quiescent
  BY <1>2, <1>13 DEF Publish, Crash, Quiescent, vars
<1>14. QED  BY <1>10, <1>11, <1>12, <1>13 DEF Next

(* The status column keeps the promise of RowLifecycle: while              *)
(* nothing has gone wrong SUCCESS is final and every outcome follows       *)
(* RUNNING; whatever goes wrong, a started execution never looks unstarted *)
(* and none gets an outcome without having been started.                   *)
THEOREM Refinement == Spec => ImplementsLifecycle
<1>1. Init => Lifecycle!Init
  BY DEF Init, NoRow, Lifecycle!Init, Disturbed
<1>2. Consistent /\ [Next]_vars => [Lifecycle!Next]_(Lifecycle!vars)
  <2>1. CASE UNCHANGED vars
    BY <2>1 DEF vars, Lifecycle!vars, Disturbed
  <2>2. QED  BY <2>1, StepImplements
<1>3. QED
  BY <1>1, <1>2, AlwaysConsistent, PTL DEF Spec, ImplementsLifecycle, Lifecycle!Spec

-----------------------------------------------------------------------------
(* What failures, crashes and retries account for: one lemma per conjunct  *)
(* of Accountable, one step in it per action.                              *)

(* A processor that goes on keeps its job and the execution it made.       *)
LEMMA SlotGoes ==
  ASSUME TypeOK, NEW s \in Slots, NEW pc, GoTo(s, pc)
  PROVE  /\ slot'[s].pc = pc /\ slot'[s].job = slot[s].job
         /\ slot'[s].fresh = slot[s].fresh
         /\ \A q \in Slots : q # s => slot'[q] = slot[q]
BY DEF TypeOK, Slot, GoTo

(* An outcome written by the only processor of a first attempt.            *)
LEMMA OutcomeOnFirst ==
  ASSUME Consistent, FirstAttempts, NEW s \in Slots, slot[s].pc \in RunPc,
         NEW pc \in {"catch"} \cup EndPc, GoTo(s, pc),
         NEW new, row' = row \/ row' = [row EXCEPT ![slot[s].job] = new],
         new.status \in Outcomes,
         new.error => new.status = "FAILED" \/ row[slot[s].job].error,
         slot[s].pc # "catch" \/ new.status = "FAILED",
         UNCHANGED job
  PROVE  FirstAttempts'
<1>1. slot[s].job \in Execs /\ row \in [Execs -> Row]
  BY DEF Consistent, Processors, TypeOK
<1>2. /\ slot'[s].pc = pc /\ slot'[s].job = slot[s].job
      /\ \A q \in Slots : q # s => slot'[q] = slot[q]
  BY SlotGoes DEF Consistent
<1>3. ASSUME NEW e \in Execs  PROVE FirstAttempt(e)'
  <2>1. FirstAttempt(e)
    BY DEF FirstAttempts
  <2>2. CASE e # slot[s].job
    <3>1. row'[e] = row[e]
      BY <1>1, <2>2
    <3>2. QED  BY <1>2, <2>1, <2>2, <3>1 DEF FirstAttempt, HasLock, StaleColumns
  <2>3. CASE e = slot[s].job
    <3> SUFFICES ASSUME job[e].made = 0, job[e].stalls = 0
                 PROVE  FirstAttempt(e)'
      BY DEF FirstAttempt
    <3>1. HasLock(s, e)
      BY <2>1, <2>3 DEF FirstAttempt
    <3>2. \A q \in Slots : slot'[q].job = e => q = s
      BY <1>2, <2>1, <3>1 DEF FirstAttempt, HasLock
    <3>3. row'[e] = row[e] \/ row'[e] = new
      BY <1>1, <2>3
    <3>4. ~StaleColumns(e)'
      <4>1. CASE row'[e] = row[e]
        BY <2>1, <4>1 DEF FirstAttempt, StaleColumns
      <4>2. CASE row'[e] = new
        BY <2>1, <2>3, <4>2 DEF FirstAttempt, StaleColumns
      <4>3. QED  BY <3>3, <4>1, <4>2
    <3>5. job[e].state = "active"
      BY <3>1 DEF HasLock
    <3>6. QED
      BY <1>2, <2>3, <3>1, <3>2, <3>4, <3>5 DEF FirstAttempt, HasLock, RunPc, EndPc
  <2>4. QED  BY <2>2, <2>3
<1>4. QED  BY <1>3 DEF FirstAttempts

(* A firing that was served stays served.                                  *)
LEMMA ServedKept ==
  ASSUME NEW t, Served(t), warned \subseteq warned',
         \A e \in Execs : job[e].state # "none" =>
            job'[e].state # "none" /\ row'[e].by = row[e].by
  PROVE  Served(t)'
BY DEF Served

(* A processor at an outcome serves no firing.                             *)
LEMMA OutcomeServes ==
  ASSUME Consistent, TicksServed, NEW s \in Slots, slot[s].job \in Execs,
         NEW pc \in SlotPc \ {"enqueue"}, GoTo(s, pc), UNCHANGED <<job, warned>>,
         \A e \in Execs : row'[e].by = row[e].by
  PROVE  TicksServed'
<1>1. /\ slot'[s].pc = pc /\ slot'[s].job = slot[s].job
      /\ \A q \in Slots : q # s => slot'[q] = slot[q]
  BY SlotGoes DEF Consistent
<1>2. \A t : Served(t) => Served(t)'
  BY DEF Served
<1>3. ASSUME NEW q \in Slots, slot'[q].pc = "enqueue"
      PROVE  (row[slot[q].fresh].by = slot[q].job)'
  <2>1. q # s /\ slot'[q] = slot[q]
    BY <1>1, <1>3
  <2>2. slot[q].fresh \in Execs
    BY <1>3, <2>1 DEF Consistent, Processors, TypeOK, Slot
  <2>3. QED  BY <1>3, <2>1, <2>2 DEF TicksServed
<1>4. QED  BY <1>1, <1>2, <1>3 DEF TicksServed

(* Nothing is given out, and no slot comes to the engine or starts it.     *)
LEMMA CountKept ==
  ASSUME Consistent, RunsCounted, \A s \in Slots : \/ slot'[s] = slot[s]
                                                   \/ slot'[s].pc \notin {"markRunning", "loadVersion"}
                                                   \/ /\ slot'[s].job = slot[s].job
                                                      /\ slot[s].pc = "markRunning",
         UNCHANGED runs, \A e \in Execs : Given(e)' = Given(e)
  PROVE  RunsCounted'
<1> SUFFICES ASSUME NEW e \in Execs  PROVE RunsCount(e)'
  BY DEF RunsCounted
<1>1. RunsCount(e)
  BY DEF RunsCounted
<1>2. Starters(e)' \subseteq Starters(e)
  BY DEF Starters
<1>3. IsFiniteSet(Starters(e)) /\ IsFiniteSet(Starters(e)')
      /\ Cardinality(Starters(e)') <= Cardinality(Starters(e))
  BY <1>1, <1>2, FS_Subset DEF RunsCount
<1>4. Cardinality(Starters(e)) \in Nat /\ Cardinality(Starters(e)') \in Nat
  BY <1>3, FS_CardinalityType
<1>5. runs[e] \in Nat /\ Given(e) \in Nat
  BY DEF Consistent, TypeOK, Job, Given
<1>6. QED  BY <1>1, <1>3, <1>4, <1>5 DEF RunsCount

(* Only giving a job out adds to what may be run.                          *)
LEMMA RunsCountedKept ==
  ASSUME Consistent, Accountable, [Next]_vars
  PROVE  RunsCounted'
<1>1. ASSUME Publish  PROVE RunsCounted'
  <2> USE <1>1 DEF Publish, disturbances
  <2>1. \A q \in Slots : \/ slot'[q] = slot[q]
                         \/ slot'[q].pc \notin {"markRunning", "loadVersion"}
                         \/ slot'[q].job = slot[q].job /\ slot[q].pc = "markRunning"
    OBVIOUS
  <2>2. \A x \in Execs : Given(x)' = Given(x)
    BY DEF Given
  <2>3. QED  BY <2>1, <2>2, CountKept DEF Accountable
<1>2. ASSUME NEW e \in Execs, NEW r \in Replies, TriggerCreate(e, r)  PROVE RunsCounted'
  <2> USE <1>2 DEF TriggerCreate, UpdateRow, PendingRow, NoRow, Unused, Call, OnReply, Replies
  <2>1. \A q \in Slots : \/ slot'[q] = slot[q]
                         \/ slot'[q].pc \notin {"markRunning", "loadVersion"}
                         \/ slot'[q].job = slot[q].job /\ slot[q].pc = "markRunning"
    OBVIOUS
  <2>2. \A x \in Execs : Given(x)' = Given(x)
    BY DEF Given
  <2>3. QED  BY <2>1, <2>2, CountKept DEF Accountable
<1>3. ASSUME NEW e \in Execs, NEW r \in Replies, TriggerEnqueue(e, r)  PROVE RunsCounted'
  <2> USE <1>3 DEF TriggerEnqueue, AddJob, NewJob, NoJob, Enqueuers, Pending, Call, OnReply, Replies
  <2>1. \A q \in Slots : \/ slot'[q] = slot[q]
                         \/ slot'[q].pc \notin {"markRunning", "loadVersion"}
                         \/ slot'[q].job = slot[q].job /\ slot[q].pc = "markRunning"
    OBVIOUS
  <2>2. \A x \in Execs : Given(x)' = Given(x)
    BY DEF Consistent, TypeOK, Job, Given, Accountable, FirstAttempts, Processors, Busy, Slot
  <2>3. QED  BY <2>1, <2>2, CountKept DEF Accountable
<1>4. ASSUME NEW t \in Ticks, ScheduleFires(t)  PROVE RunsCounted'
  <2> USE <1>4 DEF ScheduleFires, NewJob, NoJob, disturbances
  <2>1. \A q \in Slots : \/ slot'[q] = slot[q]
                         \/ slot'[q].pc \notin {"markRunning", "loadVersion"}
                         \/ slot'[q].job = slot[q].job /\ slot[q].pc = "markRunning"
    OBVIOUS
  <2>2. \A x \in Execs : Given(x)' = Given(x)
    BY DEF Consistent, TypeOK, Job, Given, Accountable, FirstAttempts, Processors, Busy, Slot
  <2>3. QED  BY <2>1, <2>2, CountKept DEF Accountable
<1>5. ASSUME NEW s \in Slots, NEW j \in JobIds, TakeJob(s, j)  PROVE RunsCounted'
  <2> USE <1>5 DEF TakeJob, GiveJob, disturbances
  <2> SUFFICES ASSUME NEW e \in Execs  PROVE RunsCount(e)'
    BY DEF RunsCounted
  <2>1. /\ slot'[s].job = j /\ \A q \in Slots : q # s => slot'[q] = slot[q]
        /\ \A k \in JobIds : k # j => job'[k] = job[k]
        /\ job'[j].state = "active" /\ job'[j].made = job[j].made
        /\ job'[j].stalls = job[j].stalls
    BY DEF Consistent, TypeOK, Job
  <2>2. RunsCount(e) /\ runs[e] \in Nat /\ Given(e) \in Nat
    BY DEF Accountable, RunsCounted, Consistent, TypeOK, Job, Given
  <2>3. CASE e # j
    <3>1. Starters(e)' = Starters(e)
      BY <2>1, <2>3 DEF Starters, Busy, Consistent, Processors
    <3>2. Given(e)' = Given(e)
      BY <2>1, <2>3 DEF Given
    <3>3. QED  BY <2>2, <3>1, <3>2 DEF RunsCount
  <2>4. CASE e = j
    <3>1. Given(e)' = Given(e) + 1 /\ Given(e) + 1 <= MaxAttempts + MaxStalled
      BY <2>1, <2>4 DEF Given, Consistent, Budgets, TypeOK, Job
    <3>2. Starters(e)' \subseteq Starters(e) \cup {s}
      BY <2>1 DEF Starters
    <3>3. /\ IsFiniteSet(Starters(e)) /\ IsFiniteSet(Starters(e) \cup {s})
          /\ Cardinality(Starters(e) \cup {s}) \in Nat
          /\ Cardinality(Starters(e)) \in Nat
          /\ Cardinality(Starters(e) \cup {s}) <= Cardinality(Starters(e)) + 1
      <4>1. IsFiniteSet(Starters(e)) /\ Cardinality(Starters(e)) \in Nat
        BY <2>2, FS_CardinalityType DEF RunsCount
      <4>2. /\ IsFiniteSet(Starters(e) \cup {s})
            /\ Cardinality(Starters(e) \cup {s}) =
                 IF s \in Starters(e) THEN Cardinality(Starters(e))
                                      ELSE Cardinality(Starters(e)) + 1
        BY <4>1, FS_AddElement
      <4>3. QED  BY <4>1, <4>2
    <3>4. /\ IsFiniteSet(Starters(e)')
          /\ Cardinality(Starters(e)') <= Cardinality(Starters(e) \cup {s})
      BY <3>2, <3>3, FS_Subset
    <3>5. Cardinality(Starters(e)') \in Nat
      BY <3>4, FS_CardinalityType
    <3>6. QED  BY <2>2, <3>1, <3>3, <3>4, <3>5 DEF RunsCount
  <2>5. QED  BY <2>3, <2>4
<1>6. ASSUME NEW j \in JobIds, PromoteDelayed(j)  PROVE RunsCounted'
  <2> USE <1>6 DEF PromoteDelayed, Promote, disturbances
  <2>1. \A q \in Slots : \/ slot'[q] = slot[q]
                         \/ slot'[q].pc \notin {"markRunning", "loadVersion"}
                         \/ slot'[q].job = slot[q].job /\ slot[q].pc = "markRunning"
    OBVIOUS
  <2>2. \A x \in Execs : Given(x)' = Given(x)
    BY DEF Consistent, TypeOK, Job, Given, Accountable, FirstAttempts, Processors, Busy, Slot
  <2>3. QED  BY <2>1, <2>2, CountKept DEF Accountable
<1>7. ASSUME NEW j \in JobIds, RecoverStalled(j)  PROVE RunsCounted'
  <2> USE <1>7 DEF RecoverStalled, Stall, disturbances
  <2>1. \A q \in Slots : \/ slot'[q] = slot[q]
                         \/ slot'[q].pc \notin {"markRunning", "loadVersion"}
                         \/ slot'[q].job = slot[q].job /\ slot[q].pc = "markRunning"
    OBVIOUS
  <2>2. \A x \in Execs : Given(x)' = Given(x)
    BY DEF Consistent, TypeOK, Job, Given, Accountable, FirstAttempts, Processors, Busy, Slot
  <2>3. QED  BY <2>1, <2>2, CountKept DEF Accountable
<1>8. ASSUME NEW j \in JobIds, LoseLock(j)  PROVE RunsCounted'
  <2> USE <1>8 DEF LoseLock, Stall
  <2>1. \A q \in Slots : \/ slot'[q] = slot[q]
                         \/ slot'[q].pc \notin {"markRunning", "loadVersion"}
                         \/ slot'[q].job = slot[q].job /\ slot[q].pc = "markRunning"
    OBVIOUS
  <2>2. \A x \in Execs : Given(x)' = Given(x)
    BY DEF Consistent, TypeOK, Job, Given, Accountable, FirstAttempts, Processors, Busy, Slot
  <2>3. QED  BY <2>1, <2>2, CountKept DEF Accountable
<1>9. ASSUME NEW s \in Slots, NEW r \in Replies, FindPublished(s, r)  PROVE RunsCounted'
  <2> USE <1>9 DEF FindPublished, GoTo, Call, OnReply, Replies
  <2>1. \A q \in Slots : \/ slot'[q] = slot[q]
                         \/ slot'[q].pc \notin {"markRunning", "loadVersion"}
                         \/ slot'[q].job = slot[q].job /\ slot[q].pc = "markRunning"
    BY DEF Consistent, TypeOK, Slot
  <2>2. \A x \in Execs : Given(x)' = Given(x)
    BY DEF Given
  <2>3. QED  BY <2>1, <2>2, CountKept DEF Accountable
<1>10. ASSUME NEW s \in Slots, NEW e \in Execs, NEW r \in Replies, CreateScheduled(s, e, r)  PROVE RunsCounted'
  <2> USE <1>10 DEF CreateScheduled, UpdateRow, PendingRow, NoRow, Unused, Call, OnReply, Replies
  <2>1. \A q \in Slots : \/ slot'[q] = slot[q]
                         \/ slot'[q].pc \notin {"markRunning", "loadVersion"}
                         \/ slot'[q].job = slot[q].job /\ slot[q].pc = "markRunning"
    BY DEF Consistent, TypeOK, Slot
  <2>2. \A x \in Execs : Given(x)' = Given(x)
    BY DEF Given
  <2>3. QED  BY <2>1, <2>2, CountKept DEF Accountable
<1>11. ASSUME NEW s \in Slots, NEW r \in Replies, EnqueueScheduled(s, r)  PROVE RunsCounted'
  <2> USE <1>11 DEF EnqueueScheduled, AddJob, NewJob, NoJob, Enqueuers, Pending, Call, OnReply, Replies
  <2>1. \A q \in Slots : \/ slot'[q] = slot[q]
                         \/ slot'[q].pc \notin {"markRunning", "loadVersion"}
                         \/ slot'[q].job = slot[q].job /\ slot[q].pc = "markRunning"
    BY DEF Consistent, TypeOK, Slot
  <2>2. \A x \in Execs : Given(x)' = Given(x)
    BY DEF Consistent, TypeOK, Job, Given, Accountable, FirstAttempts, Processors, Busy, Slot
  <2>3. QED  BY <2>1, <2>2, CountKept DEF Accountable
<1>12. ASSUME NEW s \in Slots, NEW r \in Replies, MarkRunning(s, r)  PROVE RunsCounted'
  <2> USE <1>12 DEF MarkRunning, UpdateRow, GoTo, Call, OnReply, Replies
  <2>1. \A q \in Slots : \/ slot'[q] = slot[q]
                         \/ slot'[q].pc \notin {"markRunning", "loadVersion"}
                         \/ slot'[q].job = slot[q].job /\ slot[q].pc = "markRunning"
    BY DEF Consistent, TypeOK, Slot
  <2>2. \A x \in Execs : Given(x)' = Given(x)
    BY DEF Given
  <2>3. QED  BY <2>1, <2>2, CountKept DEF Accountable
<1>13. ASSUME NEW s \in Slots, NEW r \in Replies, LoadVersion(s, r)  PROVE RunsCounted'
  <2> USE <1>13 DEF LoadVersion, GoTo, Call, OnReply, Replies
  <2> SUFFICES ASSUME NEW e \in Execs  PROVE RunsCount(e)'
    BY DEF RunsCounted
  <2>1. /\ slot'[s].pc \notin {"markRunning", "loadVersion"}
        /\ \A q \in Slots : q # s => slot'[q] = slot[q]
    BY DEF Consistent, TypeOK, Slot
  <2>2. RunsCount(e) /\ runs[e] \in Nat /\ Given(e) \in Nat
    BY DEF Accountable, RunsCounted, Consistent, TypeOK, Job, Given
  <2>3. Starters(e)' = Starters(e) \ {s} /\ Given(e)' = Given(e)
    BY <2>1 DEF Starters, Given
  <2>4. /\ IsFiniteSet(Starters(e)) /\ Cardinality(Starters(e)) \in Nat
        /\ IsFiniteSet(Starters(e) \ {s})
        /\ Cardinality(Starters(e) \ {s}) =
             IF s \in Starters(e) THEN Cardinality(Starters(e)) - 1
                                  ELSE Cardinality(Starters(e))
    BY <2>2, FS_RemoveElement, FS_CardinalityType DEF RunsCount
  <2>5. CASE e = slot[s].job
    <3>1. s \in Starters(e) /\ runs'[e] \in {runs[e], runs[e] + 1}
      BY <2>5 DEF Starters, Consistent, TypeOK
    <3>2. QED  BY <2>2, <2>3, <2>4, <3>1 DEF RunsCount
  <2>6. CASE e # slot[s].job
    <3>1. s \notin Starters(e) /\ runs'[e] = runs[e]
      BY <2>6 DEF Starters, Consistent, TypeOK
    <3>2. QED  BY <2>2, <2>3, <2>4, <3>1 DEF RunsCount
  <2>7. QED  BY <2>5, <2>6
<1>14. ASSUME NEW s \in Slots, EngineReturns(s)  PROVE RunsCounted'
  <2> USE <1>14 DEF EngineReturns, GoTo, disturbances
  <2>1. \A q \in Slots : \/ slot'[q] = slot[q]
                         \/ slot'[q].pc \notin {"markRunning", "loadVersion"}
                         \/ slot'[q].job = slot[q].job /\ slot[q].pc = "markRunning"
    BY DEF Consistent, TypeOK, Slot
  <2>2. \A x \in Execs : Given(x)' = Given(x)
    BY DEF Given
  <2>3. QED  BY <2>1, <2>2, CountKept DEF Accountable
<1>15. ASSUME NEW s \in Slots, NEW r \in Replies, MarkSuccess(s, r)  PROVE RunsCounted'
  <2> USE <1>15 DEF MarkSuccess, UpdateRow, GoTo, Call, OnReply, Replies
  <2>1. \A q \in Slots : \/ slot'[q] = slot[q]
                         \/ slot'[q].pc \notin {"markRunning", "loadVersion"}
                         \/ slot'[q].job = slot[q].job /\ slot[q].pc = "markRunning"
    BY DEF Consistent, TypeOK, Slot
  <2>2. \A x \in Execs : Given(x)' = Given(x)
    BY DEF Given
  <2>3. QED  BY <2>1, <2>2, CountKept DEF Accountable
<1>16. ASSUME NEW s \in Slots, NEW r \in Replies, MarkFailed(s, r)  PROVE RunsCounted'
  <2> USE <1>16 DEF MarkFailed, UpdateRow, FailedRow, GoTo, Call, OnReply, Replies
  <2>1. \A q \in Slots : \/ slot'[q] = slot[q]
                         \/ slot'[q].pc \notin {"markRunning", "loadVersion"}
                         \/ slot'[q].job = slot[q].job /\ slot[q].pc = "markRunning"
    BY DEF Consistent, TypeOK, Slot
  <2>2. \A x \in Execs : Given(x)' = Given(x)
    BY DEF Given
  <2>3. QED  BY <2>1, <2>2, CountKept DEF Accountable
<1>17. ASSUME NEW s \in Slots, NEW r \in Replies, CatchMarkFailed(s, r)  PROVE RunsCounted'
  <2> USE <1>17 DEF CatchMarkFailed, UpdateRow, FailedRow, GoTo, Call, OnReply, Replies
  <2>1. \A q \in Slots : \/ slot'[q] = slot[q]
                         \/ slot'[q].pc \notin {"markRunning", "loadVersion"}
                         \/ slot'[q].job = slot[q].job /\ slot[q].pc = "markRunning"
    BY DEF Consistent, TypeOK, Slot
  <2>2. \A x \in Execs : Given(x)' = Given(x)
    BY DEF Given
  <2>3. QED  BY <2>1, <2>2, CountKept DEF Accountable
<1>18. ASSUME NEW s \in Slots, CompleteJob(s)  PROVE RunsCounted'
  <2> USE <1>18 DEF CompleteJob, Return, EndAttempt, HasLock, Idle, disturbances
  <2>1. \A q \in Slots : \/ slot'[q] = slot[q]
                         \/ slot'[q].pc \notin {"markRunning", "loadVersion"}
                         \/ slot'[q].job = slot[q].job /\ slot[q].pc = "markRunning"
    BY DEF Consistent, TypeOK, Slot
  <2>2. \A x \in Execs : Given(x)' = Given(x)
    BY DEF Consistent, TypeOK, Job, Given, Accountable, FirstAttempts, Processors, Busy, Slot
  <2>3. QED  BY <2>1, <2>2, CountKept DEF Accountable
<1>19. ASSUME NEW s \in Slots, FailAttempt(s)  PROVE RunsCounted'
  <2> USE <1>19 DEF FailAttempt, Return, EndAttempt, RetryOrFail, HasLock, Idle, disturbances
  <2>1. \A q \in Slots : \/ slot'[q] = slot[q]
                         \/ slot'[q].pc \notin {"markRunning", "loadVersion"}
                         \/ slot'[q].job = slot[q].job /\ slot[q].pc = "markRunning"
    BY DEF Consistent, TypeOK, Slot
  <2>2. \A x \in Execs : Given(x)' = Given(x)
    BY DEF Consistent, TypeOK, Job, Given, Accountable, FirstAttempts, Processors, Busy, Slot
  <2>3. QED  BY <2>1, <2>2, CountKept DEF Accountable
<1>20. ASSUME NEW p \in Procs, Crash(p)  PROVE RunsCounted'
  <2> USE <1>20 DEF Crash, Idle
  <2>1. \A q \in Slots : \/ slot'[q] = slot[q]
                         \/ slot'[q].pc \notin {"markRunning", "loadVersion"}
                         \/ slot'[q].job = slot[q].job /\ slot[q].pc = "markRunning"
    BY DEF Consistent, TypeOK, Slot
  <2>2. \A x \in Execs : Given(x)' = Given(x)
    BY DEF Given
  <2>3. QED  BY <2>1, <2>2, CountKept DEF Accountable
<1>21. ASSUME UNCHANGED vars  PROVE RunsCounted'
  <2> USE <1>21 DEF vars
  <2>1. \A q \in Slots : \/ slot'[q] = slot[q]
                         \/ slot'[q].pc \notin {"markRunning", "loadVersion"}
                         \/ slot'[q].job = slot[q].job /\ slot[q].pc = "markRunning"
    OBVIOUS
  <2>2. \A x \in Execs : Given(x)' = Given(x)
    BY DEF Given
  <2>3. QED  BY <2>1, <2>2, CountKept DEF Accountable
<1>22. QED
  BY <1>1, <1>2, <1>3, <1>4, <1>5, <1>6, <1>7, <1>8, <1>9, <1>10, <1>11,
     <1>12, <1>13, <1>14, <1>15, <1>16, <1>17, <1>18, <1>19, <1>20, <1>21
  DEF Next, Triggering, Processing, Queueing, Quiescent

(* A first attempt writes its columns in one order, alone.                 *)
LEMMA FirstAttemptsKept ==
  ASSUME Consistent, Accountable, [Next]_vars
  PROVE  FirstAttempts'
<1>1. ASSUME Publish  PROVE FirstAttempts'
  BY <1>1 DEF Consistent, Accountable, FirstAttempts, FirstAttempt, StaleColumns, HasLock,
         RunPc, TypeOK, Row, Job, Slot, Processors, Busy, Publish, disturbances
<1>2. ASSUME NEW e \in Execs, NEW r \in Replies, TriggerCreate(e, r)  PROVE FirstAttempts'
  BY <1>2 DEF Consistent, Accountable, FirstAttempts, FirstAttempt, StaleColumns, HasLock,
         RunPc, TypeOK, Row, Job, Slot, Processors, Busy, TriggerCreate, UpdateRow,
         PendingRow, NoRow, Unused, Call, OnReply, Replies
<1>3. ASSUME NEW e \in Execs, NEW r \in Replies, TriggerEnqueue(e, r)  PROVE FirstAttempts'
  BY <1>3 DEF Consistent, Accountable, FirstAttempts, FirstAttempt, StaleColumns, HasLock,
         RunPc, TypeOK, Row, Job, Slot, Processors, Busy, TriggerEnqueue, AddJob,
         NewJob, NoJob, Enqueuers, Pending, Call, OnReply, Replies
<1>4. ASSUME NEW t \in Ticks, ScheduleFires(t)  PROVE FirstAttempts'
  BY <1>4 DEF Consistent, Accountable, FirstAttempts, FirstAttempt, StaleColumns, HasLock,
         RunPc, TypeOK, Row, Job, Slot, Processors, Busy, ScheduleFires, NewJob,
         NoJob, disturbances
<1>5. ASSUME NEW s \in Slots, NEW j \in JobIds, TakeJob(s, j)  PROVE FirstAttempts'
  BY <1>5 DEF Consistent, Accountable, FirstAttempts, FirstAttempt, StaleColumns, HasLock,
         RunPc, TypeOK, Row, Job, Slot, Processors, Busy, TakeJob, GiveJob,
         disturbances
<1>6. ASSUME NEW j \in JobIds, PromoteDelayed(j)  PROVE FirstAttempts'
  BY <1>6 DEF Consistent, Accountable, FirstAttempts, FirstAttempt, StaleColumns, HasLock,
         RunPc, TypeOK, Row, Job, Slot, Processors, Busy, PromoteDelayed, Promote,
         disturbances
<1>7. ASSUME NEW j \in JobIds, RecoverStalled(j)  PROVE FirstAttempts'
  BY <1>7 DEF Consistent, Accountable, FirstAttempts, FirstAttempt, StaleColumns, HasLock,
         RunPc, TypeOK, Row, Job, Slot, Processors, Busy, RecoverStalled, Stall,
         disturbances
<1>8. ASSUME NEW j \in JobIds, LoseLock(j)  PROVE FirstAttempts'
  BY <1>8 DEF Consistent, Accountable, FirstAttempts, FirstAttempt, StaleColumns, HasLock,
         RunPc, TypeOK, Row, Job, Slot, Processors, Busy, LoseLock, Stall
<1>9. ASSUME NEW s \in Slots, NEW r \in Replies, FindPublished(s, r)  PROVE FirstAttempts'
  BY <1>9 DEF Consistent, Accountable, FirstAttempts, FirstAttempt, StaleColumns, HasLock,
         RunPc, TypeOK, Row, Job, Slot, Processors, Busy, FindPublished, GoTo, Call,
         OnReply, Replies
<1>10. ASSUME NEW s \in Slots, NEW e \in Execs, NEW r \in Replies, CreateScheduled(s, e, r)  PROVE FirstAttempts'
  BY <1>10 DEF Consistent, Accountable, FirstAttempts, FirstAttempt, StaleColumns, HasLock,
         RunPc, TypeOK, Row, Job, Slot, Processors, Busy, CreateScheduled, UpdateRow,
         PendingRow, NoRow, Unused, Call, OnReply, Replies
<1>11. ASSUME NEW s \in Slots, NEW r \in Replies, EnqueueScheduled(s, r)  PROVE FirstAttempts'
  BY <1>11 DEF Consistent, Accountable, FirstAttempts, FirstAttempt, StaleColumns, HasLock,
         RunPc, TypeOK, Row, Job, Slot, Processors, Busy, EnqueueScheduled, AddJob,
         NewJob, NoJob, Enqueuers, Pending, Call, OnReply, Replies
<1>12. ASSUME NEW s \in Slots, NEW r \in Replies, MarkRunning(s, r)  PROVE FirstAttempts'
  BY <1>12 DEF Consistent, Accountable, FirstAttempts, FirstAttempt, StaleColumns, HasLock,
         RunPc, TypeOK, Row, Job, Slot, Processors, Busy, MarkRunning, UpdateRow,
         GoTo, Call, OnReply, Replies
<1>13. ASSUME NEW s \in Slots, NEW r \in Replies, LoadVersion(s, r)  PROVE FirstAttempts'
  BY <1>13 DEF Consistent, Accountable, FirstAttempts, FirstAttempt, StaleColumns, HasLock,
         RunPc, TypeOK, Row, Job, Slot, Processors, Busy, LoadVersion, GoTo, Call,
         OnReply, Replies
<1>14. ASSUME NEW s \in Slots, EngineReturns(s)  PROVE FirstAttempts'
  BY <1>14 DEF Consistent, Accountable, FirstAttempts, FirstAttempt, StaleColumns, HasLock,
         RunPc, TypeOK, Row, Job, Slot, Processors, Busy, EngineReturns, GoTo,
         disturbances
<1>15. ASSUME NEW s \in Slots, NEW r \in Replies, MarkSuccess(s, r)  PROVE FirstAttempts'
  <2> USE <1>15 DEF MarkSuccess, UpdateRow, GoTo, Call, OnReply, Replies
  <2> DEFINE new == [row[slot[s].job] EXCEPT !.status = "SUCCESS", !.completed = TRUE]
             pc  == OnReply(r, "complete", "catch")
  <2>1. slot[s].pc = "markSuccess" /\ slot[s].pc \in RunPc /\ slot[s].job \in Execs
    BY DEF RunPc, Consistent, Processors
  <2>2. /\ new.status = "SUCCESS" /\ new.error = row[slot[s].job].error
    BY <2>1 DEF Consistent, TypeOK, Row
  <2>3. row' = row \/ row' = [row EXCEPT ![slot[s].job] = new]
    OBVIOUS
  <2>4. GoTo(s, pc) /\ pc \in {"catch"} \cup EndPc
    BY DEF EndPc
  <2> HIDE DEF new, pc
  <2>5. QED  BY <2>1, <2>2, <2>3, <2>4, OutcomeOnFirst DEF Accountable, Outcomes
<1>16. ASSUME NEW s \in Slots, NEW r \in Replies, MarkFailed(s, r)  PROVE FirstAttempts'
  <2> USE <1>16 DEF MarkFailed, UpdateRow, FailedRow, GoTo, Call, OnReply, Replies
  <2> DEFINE new == FailedRow(slot[s].job)
             pc  == OnReply(r, "complete", "catch")
  <2>1. slot[s].pc = "markFailed" /\ slot[s].pc \in RunPc /\ slot[s].job \in Execs
    BY DEF RunPc, Consistent, Processors
  <2>2. new.status = "FAILED"
    BY <2>1 DEF Consistent, TypeOK, Row
  <2>3. row' = row \/ row' = [row EXCEPT ![slot[s].job] = new]
    OBVIOUS
  <2>4. GoTo(s, pc) /\ pc \in {"catch"} \cup EndPc
    BY DEF EndPc
  <2> HIDE DEF new, pc
  <2>5. QED  BY <2>1, <2>2, <2>3, <2>4, OutcomeOnFirst DEF Accountable, Outcomes
<1>17. ASSUME NEW s \in Slots, NEW r \in Replies, CatchMarkFailed(s, r)  PROVE FirstAttempts'
  <2> USE <1>17 DEF CatchMarkFailed, UpdateRow, FailedRow, GoTo, Call, OnReply, Replies
  <2> DEFINE new == FailedRow(slot[s].job)
             pc  == "throw"
  <2>1. slot[s].pc = "catch" /\ slot[s].pc \in RunPc /\ slot[s].job \in Execs
    BY DEF RunPc, Consistent, Processors
  <2>2. new.status = "FAILED"
    BY <2>1 DEF Consistent, TypeOK, Row
  <2>3. row' = row \/ row' = [row EXCEPT ![slot[s].job] = new]
    OBVIOUS
  <2>4. GoTo(s, pc) /\ pc \in {"catch"} \cup EndPc
    BY DEF EndPc
  <2> HIDE DEF new, pc
  <2>5. QED  BY <2>1, <2>2, <2>3, <2>4, OutcomeOnFirst DEF Accountable, Outcomes
<1>18. ASSUME NEW s \in Slots, CompleteJob(s)  PROVE FirstAttempts'
  BY <1>18 DEF Consistent, Accountable, FirstAttempts, FirstAttempt, StaleColumns, HasLock,
         RunPc, TypeOK, Row, Job, Slot, Processors, Busy, CompleteJob, Return,
         EndAttempt, Idle, disturbances
<1>19. ASSUME NEW s \in Slots, FailAttempt(s)  PROVE FirstAttempts'
  BY SMTT(20), <1>19
  DEF Consistent, Accountable, FirstAttempts, FirstAttempt, StaleColumns, HasLock,
         RunPc, TypeOK, Row, Job, Slot, Processors, Busy, FailAttempt, Return,
         EndAttempt, RetryOrFail, Idle, disturbances
<1>20. ASSUME NEW p \in Procs, Crash(p)  PROVE FirstAttempts'
  BY <1>20 DEF Consistent, Accountable, FirstAttempts, FirstAttempt, StaleColumns, HasLock,
         RunPc, TypeOK, Row, Job, Slot, Processors, Busy, Crash, Idle
<1>21. ASSUME UNCHANGED vars  PROVE FirstAttempts'
  BY <1>21 DEF Consistent, Accountable, FirstAttempts, FirstAttempt, StaleColumns, HasLock,
         RunPc, TypeOK, Row, Job, Slot, Processors, Busy, vars
<1>22. QED
  BY <1>1, <1>2, <1>3, <1>4, <1>5, <1>6, <1>7, <1>8, <1>9, <1>10, <1>11,
     <1>12, <1>13, <1>14, <1>15, <1>16, <1>17, <1>18, <1>19, <1>20, <1>21
  DEF Next, Triggering, Processing, Queueing, Quiescent

(* A row is orphaned between insert and queue command, or never.           *)
LEMMA OrphanNeedsFailureKept ==
  ASSUME Consistent, Accountable, [Next]_vars
  PROVE  OrphanNeedsFailure'
<1>1. ASSUME Publish  PROVE OrphanNeedsFailure'
  BY <1>1 DEF Consistent, Accountable, OrphanNeedsFailure, TypeOK, Row, Job, Slot,
         Processors, Busy, WorkFollowsRow, RunPc, Publish, disturbances
<1>2. ASSUME NEW e \in Execs, NEW r \in Replies, TriggerCreate(e, r)  PROVE OrphanNeedsFailure'
  BY <1>2 DEF Consistent, Accountable, OrphanNeedsFailure, TypeOK, Row, Job, Slot,
         Processors, Busy, WorkFollowsRow, RunPc, TriggerCreate, UpdateRow,
         PendingRow, NoRow, Unused, Call, OnReply, Replies
<1>3. ASSUME NEW e \in Execs, NEW r \in Replies, TriggerEnqueue(e, r)  PROVE OrphanNeedsFailure'
  BY <1>3 DEF Consistent, Accountable, OrphanNeedsFailure, TypeOK, Row, Job, Slot,
         Processors, Busy, WorkFollowsRow, RunPc, TriggerEnqueue, AddJob, NewJob,
         NoJob, Enqueuers, Pending, Call, OnReply, Replies
<1>4. ASSUME NEW t \in Ticks, ScheduleFires(t)  PROVE OrphanNeedsFailure'
  BY <1>4 DEF Consistent, Accountable, OrphanNeedsFailure, TypeOK, Row, Job, Slot,
         Processors, Busy, WorkFollowsRow, RunPc, ScheduleFires, NewJob, NoJob,
         disturbances
<1>5. ASSUME NEW s \in Slots, NEW j \in JobIds, TakeJob(s, j)  PROVE OrphanNeedsFailure'
  BY <1>5 DEF Consistent, Accountable, OrphanNeedsFailure, TypeOK, Row, Job, Slot,
         Processors, Busy, WorkFollowsRow, RunPc, TakeJob, GiveJob, disturbances
<1>6. ASSUME NEW j \in JobIds, PromoteDelayed(j)  PROVE OrphanNeedsFailure'
  BY <1>6 DEF Consistent, Accountable, OrphanNeedsFailure, TypeOK, Row, Job, Slot,
         Processors, Busy, WorkFollowsRow, RunPc, PromoteDelayed, Promote,
         disturbances
<1>7. ASSUME NEW j \in JobIds, RecoverStalled(j)  PROVE OrphanNeedsFailure'
  BY <1>7 DEF Consistent, Accountable, OrphanNeedsFailure, TypeOK, Row, Job, Slot,
         Processors, Busy, WorkFollowsRow, RunPc, RecoverStalled, Stall, disturbances
<1>8. ASSUME NEW j \in JobIds, LoseLock(j)  PROVE OrphanNeedsFailure'
  BY <1>8 DEF Consistent, Accountable, OrphanNeedsFailure, TypeOK, Row, Job, Slot,
         Processors, Busy, WorkFollowsRow, RunPc, LoseLock, Stall
<1>9. ASSUME NEW s \in Slots, NEW r \in Replies, FindPublished(s, r)  PROVE OrphanNeedsFailure'
  BY <1>9 DEF Consistent, Accountable, OrphanNeedsFailure, TypeOK, Row, Job, Slot,
         Processors, Busy, WorkFollowsRow, RunPc, FindPublished, GoTo, Call, OnReply,
         Replies
<1>10. ASSUME NEW s \in Slots, NEW e \in Execs, NEW r \in Replies, CreateScheduled(s, e, r)  PROVE OrphanNeedsFailure'
  BY <1>10 DEF Consistent, Accountable, OrphanNeedsFailure, TypeOK, Row, Job, Slot,
         Processors, Busy, WorkFollowsRow, RunPc, CreateScheduled, UpdateRow,
         PendingRow, NoRow, Unused, Call, OnReply, Replies
<1>11. ASSUME NEW s \in Slots, NEW r \in Replies, EnqueueScheduled(s, r)  PROVE OrphanNeedsFailure'
  BY <1>11 DEF Consistent, Accountable, OrphanNeedsFailure, TypeOK, Row, Job, Slot,
         Processors, Busy, WorkFollowsRow, RunPc, EnqueueScheduled, AddJob, NewJob,
         NoJob, Enqueuers, Pending, Call, OnReply, Replies
<1>12. ASSUME NEW s \in Slots, NEW r \in Replies, MarkRunning(s, r)  PROVE OrphanNeedsFailure'
  BY <1>12 DEF Consistent, Accountable, OrphanNeedsFailure, TypeOK, Row, Job, Slot,
         Processors, Busy, WorkFollowsRow, RunPc, MarkRunning, UpdateRow, GoTo, Call,
         OnReply, Replies
<1>13. ASSUME NEW s \in Slots, NEW r \in Replies, LoadVersion(s, r)  PROVE OrphanNeedsFailure'
  BY <1>13 DEF Consistent, Accountable, OrphanNeedsFailure, TypeOK, Row, Job, Slot,
         Processors, Busy, WorkFollowsRow, RunPc, LoadVersion, GoTo, Call, OnReply,
         Replies
<1>14. ASSUME NEW s \in Slots, EngineReturns(s)  PROVE OrphanNeedsFailure'
  BY <1>14 DEF Consistent, Accountable, OrphanNeedsFailure, TypeOK, Row, Job, Slot,
         Processors, Busy, WorkFollowsRow, RunPc, EngineReturns, GoTo, disturbances
<1>15. ASSUME NEW s \in Slots, NEW r \in Replies, MarkSuccess(s, r)  PROVE OrphanNeedsFailure'
  BY <1>15 DEF Consistent, Accountable, OrphanNeedsFailure, TypeOK, Row, Job, Slot,
         Processors, Busy, WorkFollowsRow, RunPc, MarkSuccess, UpdateRow, GoTo, Call,
         OnReply, Replies
<1>16. ASSUME NEW s \in Slots, NEW r \in Replies, MarkFailed(s, r)  PROVE OrphanNeedsFailure'
  BY <1>16 DEF Consistent, Accountable, OrphanNeedsFailure, TypeOK, Row, Job, Slot,
         Processors, Busy, WorkFollowsRow, RunPc, MarkFailed, UpdateRow, FailedRow,
         GoTo, Call, OnReply, Replies
<1>17. ASSUME NEW s \in Slots, NEW r \in Replies, CatchMarkFailed(s, r)  PROVE OrphanNeedsFailure'
  BY <1>17 DEF Consistent, Accountable, OrphanNeedsFailure, TypeOK, Row, Job, Slot,
         Processors, Busy, WorkFollowsRow, RunPc, CatchMarkFailed, UpdateRow,
         FailedRow, GoTo, Call, OnReply, Replies
<1>18. ASSUME NEW s \in Slots, CompleteJob(s)  PROVE OrphanNeedsFailure'
  BY <1>18 DEF Consistent, Accountable, OrphanNeedsFailure, TypeOK, Row, Job, Slot,
         Processors, Busy, WorkFollowsRow, RunPc, CompleteJob, Return, EndAttempt,
         HasLock, Idle, disturbances
<1>19. ASSUME NEW s \in Slots, FailAttempt(s)  PROVE OrphanNeedsFailure'
  BY <1>19 DEF Consistent, Accountable, OrphanNeedsFailure, TypeOK, Row, Job, Slot,
         Processors, Busy, WorkFollowsRow, RunPc, FailAttempt, Return, EndAttempt,
         RetryOrFail, HasLock, Idle, disturbances
<1>20. ASSUME NEW p \in Procs, Crash(p)  PROVE OrphanNeedsFailure'
  BY <1>20 DEF Consistent, Accountable, OrphanNeedsFailure, TypeOK, Row, Job, Slot,
         Processors, Busy, WorkFollowsRow, RunPc, Crash, Idle
<1>21. ASSUME UNCHANGED vars  PROVE OrphanNeedsFailure'
  BY <1>21 DEF Consistent, Accountable, OrphanNeedsFailure, TypeOK, Row, Job, Slot,
         Processors, Busy, WorkFollowsRow, RunPc, vars
<1>22. QED
  BY <1>1, <1>2, <1>3, <1>4, <1>5, <1>6, <1>7, <1>8, <1>9, <1>10, <1>11,
     <1>12, <1>13, <1>14, <1>15, <1>16, <1>17, <1>18, <1>19, <1>20, <1>21
  DEF Next, Triggering, Processing, Queueing, Quiescent

(* A firing's job ends at "complete" once it has been served.              *)
LEMMA TicksServedKept ==
  ASSUME Consistent, Accountable, [Next]_vars
  PROVE  TicksServed'
<1>1. ASSUME Publish  PROVE TicksServed'
  BY <1>1 DEF Consistent, Accountable, TicksServed, Served, TypeOK, Row, Job, Slot,
         Processors, Busy, ScheduledPc, Publish, disturbances
<1>2. ASSUME NEW e \in Execs, NEW r \in Replies, TriggerCreate(e, r)  PROVE TicksServed'
  <2> USE <1>2 DEF TriggerCreate, UpdateRow, PendingRow, NoRow, Unused, Call, OnReply, Replies
  <2>1. job[e].state = "none"
    BY DEF Consistent, WorkFollowsRow
  <2>2. \A x \in Execs : x # e => row'[x] = row[x]
    BY DEF Consistent, TypeOK
  <2>3. \A t : Served(t) => Served(t)'
    BY <2>1, <2>2 DEF Served
  <2>4. ASSUME NEW q \in Slots, slot[q].pc = "enqueue"
        PROVE  row'[slot[q].fresh] = row[slot[q].fresh]
    BY <2>2, <2>4 DEF Consistent, TypeOK, Slot, Processors, Enqueuers, Pending
  <2>5. QED  BY <2>3, <2>4 DEF Accountable, TicksServed
<1>3. ASSUME NEW e \in Execs, NEW r \in Replies, TriggerEnqueue(e, r)  PROVE TicksServed'
  BY <1>3 DEF Consistent, Accountable, TicksServed, Served, TypeOK, Row, Job, Slot,
         Processors, Busy, ScheduledPc, TriggerEnqueue, AddJob, NewJob, NoJob,
         Enqueuers, Pending, Call, OnReply, Replies
<1>4. ASSUME NEW t \in Ticks, ScheduleFires(t)  PROVE TicksServed'
  BY <1>4 DEF Consistent, Accountable, TicksServed, Served, TypeOK, Row, Job, Slot,
         Processors, Busy, ScheduledPc, ScheduleFires, NewJob, NoJob, disturbances
<1>5. ASSUME NEW s \in Slots, NEW j \in JobIds, TakeJob(s, j)  PROVE TicksServed'
  BY <1>5 DEF Consistent, Accountable, TicksServed, Served, TypeOK, Row, Job, Slot,
         Processors, Busy, ScheduledPc, TakeJob, GiveJob, disturbances
<1>6. ASSUME NEW j \in JobIds, PromoteDelayed(j)  PROVE TicksServed'
  BY <1>6 DEF Consistent, Accountable, TicksServed, Served, TypeOK, Row, Job, Slot,
         Processors, Busy, ScheduledPc, PromoteDelayed, Promote, disturbances
<1>7. ASSUME NEW j \in JobIds, RecoverStalled(j)  PROVE TicksServed'
  BY <1>7 DEF Consistent, Accountable, TicksServed, Served, TypeOK, Row, Job, Slot,
         Processors, Busy, ScheduledPc, RecoverStalled, Stall, disturbances
<1>8. ASSUME NEW j \in JobIds, LoseLock(j)  PROVE TicksServed'
  BY <1>8 DEF Consistent, Accountable, TicksServed, Served, TypeOK, Row, Job, Slot,
         Processors, Busy, ScheduledPc, LoseLock, Stall
<1>9. ASSUME NEW s \in Slots, NEW r \in Replies, FindPublished(s, r)  PROVE TicksServed'
  BY <1>9 DEF Consistent, Accountable, TicksServed, Served, TypeOK, Row, Job, Slot,
         Processors, Busy, ScheduledPc, FindPublished, GoTo, Call, OnReply, Replies
<1>10. ASSUME NEW s \in Slots, NEW e \in Execs, NEW r \in Replies, CreateScheduled(s, e, r)  PROVE TicksServed'
  <2> USE <1>10 DEF CreateScheduled, UpdateRow, PendingRow, NoRow, Unused, Call, OnReply, Replies
  <2>1. job[e].state = "none"
    BY DEF Consistent, WorkFollowsRow
  <2>2. /\ \A x \in Execs : x # e => row'[x] = row[x]
        /\ r # "refused" => row'[e].by = slot[s].job
    BY DEF Consistent, TypeOK
  <2>3. \A t : Served(t) => Served(t)'
    BY <2>1, <2>2 DEF Served
  <2>4. /\ slot'[s].pc = OnReply(r, "enqueue", "throw")
        /\ slot'[s].fresh = OnReply(r, e, None)
        /\ slot'[s].job = slot[s].job /\ slot[s].job \in Ticks
        /\ \A q \in Slots : q # s => slot'[q] = slot[q]
    BY DEF Consistent, TypeOK, Slot, Processors, ScheduledPc
  <2>5. ASSUME NEW q \in Slots, slot'[q].pc = "enqueue"
        PROVE  (row[slot[q].fresh].by = slot[q].job)'
    <3>1. CASE q = s
      BY <2>2, <2>4, <2>5, <3>1
    <3>2. CASE q # s
      <4>1. slot'[q] = slot[q] /\ slot[q].pc = "enqueue"
        BY <2>4, <2>5, <3>2
      <4>2. slot[q].fresh \in Execs /\ slot[q].fresh # e
        BY <4>1 DEF Consistent, TypeOK, Slot, Processors, Enqueuers, Pending
      <4>3. QED  BY <2>2, <4>1, <4>2 DEF Accountable, TicksServed
    <3>3. QED  BY <3>1, <3>2
  <2>6. ASSUME NEW q \in Slots, slot'[q].pc = "complete", slot'[q].job \in Ticks
        PROVE  (Served(slot[q].job))'
    <3>1. q # s /\ slot'[q] = slot[q]
      BY <2>4, <2>6
    <3>2. Served(slot[q].job)
      BY <2>6, <3>1 DEF Accountable, TicksServed
    <3>3. QED  BY <2>3, <3>1, <3>2 DEF Served
  <2>7. \A t \in Ticks : job'[t].state = "completed" => Served(t)'
    BY <2>3 DEF Accountable, TicksServed
  <2>8. QED  BY <2>5, <2>6, <2>7 DEF TicksServed
<1>11. ASSUME NEW s \in Slots, NEW r \in Replies, EnqueueScheduled(s, r)  PROVE TicksServed'
  BY <1>11 DEF Consistent, Accountable, TicksServed, Served, TypeOK, Row, Job, Slot,
         Processors, Busy, ScheduledPc, EnqueueScheduled, AddJob, NewJob, NoJob,
         Enqueuers, Pending, Call, OnReply, Replies
<1>12. ASSUME NEW s \in Slots, NEW r \in Replies, MarkRunning(s, r)  PROVE TicksServed'
  BY <1>12 DEF Consistent, Accountable, TicksServed, Served, TypeOK, Row, Job, Slot,
         Processors, Busy, ScheduledPc, MarkRunning, UpdateRow, GoTo, Call, OnReply,
         Replies
<1>13. ASSUME NEW s \in Slots, NEW r \in Replies, LoadVersion(s, r)  PROVE TicksServed'
  BY <1>13 DEF Consistent, Accountable, TicksServed, Served, TypeOK, Row, Job, Slot,
         Processors, Busy, ScheduledPc, LoadVersion, GoTo, Call, OnReply, Replies
<1>14. ASSUME NEW s \in Slots, EngineReturns(s)  PROVE TicksServed'
  BY <1>14 DEF Consistent, Accountable, TicksServed, Served, TypeOK, Row, Job, Slot,
         Processors, Busy, ScheduledPc, EngineReturns, GoTo, disturbances
<1>15. ASSUME NEW s \in Slots, NEW r \in Replies, MarkSuccess(s, r)  PROVE TicksServed'
  <2> USE <1>15 DEF MarkSuccess, UpdateRow, GoTo, Call, OnReply, Replies
  <2> DEFINE pc == OnReply(r, "complete", "catch")
  <2>1. slot[s].job \in Execs
    BY DEF Consistent, Processors, RunPc
  <2>2. \A e \in Execs : row'[e].by = row[e].by
    BY <2>1 DEF Consistent, TypeOK, Row
  <2>3. GoTo(s, pc) /\ pc \in SlotPc \ {"enqueue"}
    BY DEF SlotPc, EndPc, RunPc
  <2> HIDE DEF pc
  <2>4. QED  BY <2>1, <2>2, <2>3, OutcomeServes DEF Accountable
<1>16. ASSUME NEW s \in Slots, NEW r \in Replies, MarkFailed(s, r)  PROVE TicksServed'
  <2> USE <1>16 DEF MarkFailed, UpdateRow, FailedRow, GoTo, Call, OnReply, Replies
  <2> DEFINE pc == OnReply(r, "complete", "catch")
  <2>1. slot[s].job \in Execs
    BY DEF Consistent, Processors, RunPc
  <2>2. \A e \in Execs : row'[e].by = row[e].by
    BY <2>1 DEF Consistent, TypeOK, Row
  <2>3. GoTo(s, pc) /\ pc \in SlotPc \ {"enqueue"}
    BY DEF SlotPc, EndPc, RunPc
  <2> HIDE DEF pc
  <2>4. QED  BY <2>1, <2>2, <2>3, OutcomeServes DEF Accountable
<1>17. ASSUME NEW s \in Slots, NEW r \in Replies, CatchMarkFailed(s, r)  PROVE TicksServed'
  BY <1>17 DEF Consistent, Accountable, TicksServed, Served, TypeOK, Row, Job, Slot,
         Processors, Busy, ScheduledPc, CatchMarkFailed, UpdateRow, FailedRow, GoTo,
         Call, OnReply, Replies
<1>18. ASSUME NEW s \in Slots, CompleteJob(s)  PROVE TicksServed'
  BY <1>18 DEF Consistent, Accountable, TicksServed, Served, TypeOK, Row, Job, Slot,
         Processors, Busy, ScheduledPc, CompleteJob, Return, EndAttempt, HasLock,
         Idle, disturbances
<1>19. ASSUME NEW s \in Slots, FailAttempt(s)  PROVE TicksServed'
  BY <1>19 DEF Consistent, Accountable, TicksServed, Served, TypeOK, Row, Job, Slot,
         Processors, Busy, ScheduledPc, FailAttempt, Return, EndAttempt, RetryOrFail,
         HasLock, Idle, disturbances
<1>20. ASSUME NEW p \in Procs, Crash(p)  PROVE TicksServed'
  BY <1>20 DEF Consistent, Accountable, TicksServed, Served, TypeOK, Row, Job, Slot,
         Processors, Busy, ScheduledPc, Crash, Idle
<1>21. ASSUME UNCHANGED vars  PROVE TicksServed'
  BY <1>21 DEF Consistent, Accountable, TicksServed, Served, TypeOK, Row, Job, Slot,
         Processors, Busy, ScheduledPc, vars
<1>22. QED
  BY <1>1, <1>2, <1>3, <1>4, <1>5, <1>6, <1>7, <1>8, <1>9, <1>10, <1>11,
     <1>12, <1>13, <1>14, <1>15, <1>16, <1>17, <1>18, <1>19, <1>20, <1>21
  DEF Next, Triggering, Processing, Queueing, Quiescent

(* Only an undisturbed job past its insert has an execution.               *)
LEMMA TicksOnceKept ==
  ASSUME Consistent, Accountable, [Next]_vars
  PROVE  TicksOnce'
<1>1. ASSUME Publish  PROVE TicksOnce'
  BY <1>1 DEF Consistent, Accountable, TicksOnce, TickOnce, Disturbed, TypeOK, Row, Job,
         Slot, Processors, Busy, ScheduledPc, Publish, disturbances
<1>2. ASSUME NEW e \in Execs, NEW r \in Replies, TriggerCreate(e, r)  PROVE TicksOnce'
  <2> USE <1>2 DEF TriggerCreate, UpdateRow, PendingRow, NoRow, Unused, Call, OnReply, Replies
  <2> SUFFICES ASSUME ~Disturbed', NEW t \in Ticks, NEW x \in Execs, row'[x].by = t
               PROVE  TickOnce(t)'
    BY DEF TicksOnce, TickOnce
  <2>1. ~Disturbed
    BY DEF Consistent, TypeOK, Disturbed
  <2>2. row[x].by = t
    BY DEF Consistent, TypeOK, Row
  <2>3. TickOnce(t)
    BY <2>1 DEF Accountable, TicksOnce
  <2>4. QED  BY <2>2, <2>3 DEF TickOnce
<1>3. ASSUME NEW e \in Execs, NEW r \in Replies, TriggerEnqueue(e, r)  PROVE TicksOnce'
  BY <1>3 DEF Consistent, Accountable, TicksOnce, TickOnce, Disturbed, TypeOK, Row, Job,
         Slot, Processors, Busy, ScheduledPc, TriggerEnqueue, AddJob, NewJob, NoJob,
         Enqueuers, Pending, Call, OnReply, Replies
<1>4. ASSUME NEW t \in Ticks, ScheduleFires(t)  PROVE TicksOnce'
  BY <1>4 DEF Consistent, Accountable, TicksOnce, TickOnce, Disturbed, TypeOK, Row, Job,
         Slot, Processors, Busy, ScheduledPc, ScheduleFires, NewJob, NoJob,
         disturbances
<1>5. ASSUME NEW s \in Slots, NEW j \in JobIds, TakeJob(s, j)  PROVE TicksOnce'
  BY <1>5 DEF Consistent, Accountable, TicksOnce, TickOnce, Disturbed, TypeOK, Row, Job,
         Slot, Processors, Busy, ScheduledPc, TakeJob, GiveJob, disturbances
<1>6. ASSUME NEW j \in JobIds, PromoteDelayed(j)  PROVE TicksOnce'
  BY <1>6 DEF Consistent, Accountable, TicksOnce, TickOnce, Disturbed, TypeOK, Row, Job,
         Slot, Processors, Busy, ScheduledPc, PromoteDelayed, Promote, disturbances
<1>7. ASSUME NEW j \in JobIds, RecoverStalled(j)  PROVE TicksOnce'
  <2> USE <1>7 DEF RecoverStalled, Stall, disturbances
  <2>1. Disturbed'
    BY DEF Consistent, OneProcessor, Disturbed
  <2>2. QED  BY <2>1 DEF TicksOnce
<1>8. ASSUME NEW j \in JobIds, LoseLock(j)  PROVE TicksOnce'
  BY <1>8 DEF Consistent, Accountable, TicksOnce, TickOnce, Disturbed, TypeOK, Row, Job,
         Slot, Processors, Busy, ScheduledPc, LoseLock, Stall
<1>9. ASSUME NEW s \in Slots, NEW r \in Replies, FindPublished(s, r)  PROVE TicksOnce'
  BY <1>9 DEF Consistent, Accountable, TicksOnce, TickOnce, Disturbed, TypeOK, Row, Job,
         Slot, Processors, Busy, ScheduledPc, FindPublished, GoTo, Call, OnReply,
         Replies
<1>10. ASSUME NEW s \in Slots, NEW e \in Execs, NEW r \in Replies, CreateScheduled(s, e, r)  PROVE TicksOnce'
  <2> USE <1>10 DEF CreateScheduled, UpdateRow, PendingRow, NoRow, Unused, Call, OnReply, Replies
  <2> SUFFICES ASSUME ~Disturbed', NEW t \in Ticks, NEW x \in Execs, row'[x].by = t
               PROVE  TickOnce(t)'
    BY DEF TicksOnce, TickOnce
  <2>1. ~Disturbed /\ r = "ok"
    BY DEF Consistent, TypeOK, Disturbed
  <2>2. /\ slot'[s].pc = "enqueue" /\ slot'[s].job = slot[s].job
        /\ \A q \in Slots : q # s => slot'[q] = slot[q]
    BY <2>1 DEF Consistent, TypeOK, Slot
  <2>3. \A q \in Slots : Busy(q) => HasLock(q, slot[q].job)
    BY <2>1 DEF Consistent, OneProcessor, Holds
  <2>4. Busy(s) /\ slot[s].job \in Ticks
    BY DEF Busy, Consistent, Processors, ScheduledPc
  <2>5. \A q \in Slots : slot[q].job \in Ticks => Busy(q)
    BY DEF Consistent, Processors
  <2>6. CASE t = slot[s].job
    <3>1. job[t].state = "active"
      BY <2>3, <2>4, <2>6 DEF HasLock
    <3>2. \A q \in Slots : slot[q].job = t => q = s
      BY <2>3, <2>4, <2>5, <2>6 DEF HasLock
    <3>3. QED  BY <2>2, <3>1, <3>2 DEF TickOnce
  <2>7. CASE t # slot[s].job
    <3>1. row[x].by = t
      BY <2>7 DEF Consistent, TypeOK, Row
    <3>2. TickOnce(t)
      BY <2>1 DEF Accountable, TicksOnce
    <3>3. QED  BY <2>2, <2>7, <3>1, <3>2 DEF TickOnce
  <2>8. QED  BY <2>6, <2>7
<1>11. ASSUME NEW s \in Slots, NEW r \in Replies, EnqueueScheduled(s, r)  PROVE TicksOnce'
  BY <1>11 DEF Consistent, Accountable, TicksOnce, TickOnce, Disturbed, TypeOK, Row, Job,
         Slot, Processors, Busy, ScheduledPc, EnqueueScheduled, AddJob, NewJob, NoJob,
         Enqueuers, Pending, Call, OnReply, Replies
<1>12. ASSUME NEW s \in Slots, NEW r \in Replies, MarkRunning(s, r)  PROVE TicksOnce'
  BY <1>12 DEF Consistent, Accountable, TicksOnce, TickOnce, Disturbed, TypeOK, Row, Job,
         Slot, Processors, Busy, ScheduledPc, MarkRunning, UpdateRow, GoTo, Call,
         OnReply, Replies
<1>13. ASSUME NEW s \in Slots, NEW r \in Replies, LoadVersion(s, r)  PROVE TicksOnce'
  BY <1>13 DEF Consistent, Accountable, TicksOnce, TickOnce, Disturbed, TypeOK, Row, Job,
         Slot, Processors, Busy, ScheduledPc, LoadVersion, GoTo, Call, OnReply,
         Replies
<1>14. ASSUME NEW s \in Slots, EngineReturns(s)  PROVE TicksOnce'
  BY <1>14 DEF Consistent, Accountable, TicksOnce, TickOnce, Disturbed, TypeOK, Row, Job,
         Slot, Processors, Busy, ScheduledPc, EngineReturns, GoTo, disturbances
<1>15. ASSUME NEW s \in Slots, NEW r \in Replies, MarkSuccess(s, r)  PROVE TicksOnce'
  BY <1>15 DEF Consistent, Accountable, TicksOnce, TickOnce, Disturbed, TypeOK, Row, Job,
         Slot, Processors, Busy, ScheduledPc, MarkSuccess, UpdateRow, GoTo, Call,
         OnReply, Replies
<1>16. ASSUME NEW s \in Slots, NEW r \in Replies, MarkFailed(s, r)  PROVE TicksOnce'
  BY <1>16 DEF Consistent, Accountable, TicksOnce, TickOnce, Disturbed, TypeOK, Row, Job,
         Slot, Processors, Busy, ScheduledPc, MarkFailed, UpdateRow, FailedRow, GoTo,
         Call, OnReply, Replies
<1>17. ASSUME NEW s \in Slots, NEW r \in Replies, CatchMarkFailed(s, r)  PROVE TicksOnce'
  BY <1>17 DEF Consistent, Accountable, TicksOnce, TickOnce, Disturbed, TypeOK, Row, Job,
         Slot, Processors, Busy, ScheduledPc, CatchMarkFailed, UpdateRow, FailedRow,
         GoTo, Call, OnReply, Replies
<1>18. ASSUME NEW s \in Slots, CompleteJob(s)  PROVE TicksOnce'
  BY <1>18 DEF Consistent, Accountable, TicksOnce, TickOnce, Disturbed, TypeOK, Row, Job,
         Slot, Processors, Busy, ScheduledPc, CompleteJob, Return, EndAttempt,
         HasLock, Idle, disturbances
<1>19. ASSUME NEW s \in Slots, FailAttempt(s)  PROVE TicksOnce'
  BY <1>19 DEF Consistent, Accountable, TicksOnce, TickOnce, Disturbed, TypeOK, Row, Job,
         Slot, Processors, Busy, ScheduledPc, FailAttempt, Return, EndAttempt,
         RetryOrFail, HasLock, Idle, disturbances
<1>20. ASSUME NEW p \in Procs, Crash(p)  PROVE TicksOnce'
  BY <1>20 DEF Consistent, Accountable, TicksOnce, TickOnce, Disturbed, TypeOK, Row, Job,
         Slot, Processors, Busy, ScheduledPc, Crash, Idle
<1>21. ASSUME UNCHANGED vars  PROVE TicksOnce'
  BY <1>21 DEF Consistent, Accountable, TicksOnce, TickOnce, Disturbed, TypeOK, Row, Job,
         Slot, Processors, Busy, ScheduledPc, vars
<1>22. QED
  BY <1>1, <1>2, <1>3, <1>4, <1>5, <1>6, <1>7, <1>8, <1>9, <1>10, <1>11,
     <1>12, <1>13, <1>14, <1>15, <1>16, <1>17, <1>18, <1>19, <1>20, <1>21
  DEF Next, Triggering, Processing, Queueing, Quiescent

(* A stall follows a crash, unless a lock is lost.                         *)
LEMMA StallsTakeCrashesKept ==
  ASSUME Consistent, Accountable, [Next]_vars
  PROVE  StallsTakeCrashes'
<1>1. ASSUME Publish  PROVE StallsTakeCrashes'
  BY <1>1 DEF Consistent, Accountable, StallsTakeCrashes, Abandoned, Busy, Holds, HasLock,
         TypeOK, Job, Slot, Processors, Budgets, Publish, disturbances
<1>2. ASSUME NEW e \in Execs, NEW r \in Replies, TriggerCreate(e, r)  PROVE StallsTakeCrashes'
  BY <1>2 DEF Consistent, Accountable, StallsTakeCrashes, Abandoned, Busy, Holds, HasLock,
         TypeOK, Job, Slot, Processors, Budgets, TriggerCreate, UpdateRow, PendingRow,
         NoRow, Unused, Call, OnReply, Replies
<1>3. ASSUME NEW e \in Execs, NEW r \in Replies, TriggerEnqueue(e, r)  PROVE StallsTakeCrashes'
  BY <1>3 DEF Consistent, Accountable, StallsTakeCrashes, Abandoned, Busy, Holds, HasLock,
         TypeOK, Job, Slot, Processors, Budgets, TriggerEnqueue, AddJob, NewJob,
         NoJob, Enqueuers, Pending, Call, OnReply, Replies
<1>4. ASSUME NEW t \in Ticks, ScheduleFires(t)  PROVE StallsTakeCrashes'
  BY <1>4 DEF Consistent, Accountable, StallsTakeCrashes, Abandoned, Busy, Holds, HasLock,
         TypeOK, Job, Slot, Processors, Budgets, ScheduleFires, NewJob, NoJob,
         disturbances
<1>5. ASSUME NEW s \in Slots, NEW j \in JobIds, TakeJob(s, j)  PROVE StallsTakeCrashes'
  BY <1>5 DEF Consistent, Accountable, StallsTakeCrashes, Abandoned, Busy, Holds, HasLock,
         TypeOK, Job, Slot, Processors, Budgets, TakeJob, GiveJob, disturbances
<1>6. ASSUME NEW j \in JobIds, PromoteDelayed(j)  PROVE StallsTakeCrashes'
  BY <1>6 DEF Consistent, Accountable, StallsTakeCrashes, Abandoned, Busy, Holds, HasLock,
         TypeOK, Job, Slot, Processors, Budgets, PromoteDelayed, Promote, disturbances
<1>7. ASSUME NEW j \in JobIds, RecoverStalled(j)  PROVE StallsTakeCrashes'
  BY <1>7 DEF Consistent, Accountable, StallsTakeCrashes, Abandoned, Busy, Holds, HasLock,
         TypeOK, Job, Slot, Processors, Budgets, RecoverStalled, Stall, disturbances
<1>8. ASSUME NEW j \in JobIds, LoseLock(j)  PROVE StallsTakeCrashes'
  BY <1>8 DEF Consistent, Accountable, StallsTakeCrashes, Abandoned, Busy, Holds, HasLock,
         TypeOK, Job, Slot, Processors, Budgets, LoseLock, Stall
<1>9. ASSUME NEW s \in Slots, NEW r \in Replies, FindPublished(s, r)  PROVE StallsTakeCrashes'
  BY <1>9 DEF Consistent, Accountable, StallsTakeCrashes, Abandoned, Busy, Holds, HasLock,
         TypeOK, Job, Slot, Processors, Budgets, FindPublished, GoTo, Call, OnReply,
         Replies
<1>10. ASSUME NEW s \in Slots, NEW e \in Execs, NEW r \in Replies, CreateScheduled(s, e, r)  PROVE StallsTakeCrashes'
  BY <1>10 DEF Consistent, Accountable, StallsTakeCrashes, Abandoned, Busy, Holds, HasLock,
         TypeOK, Job, Slot, Processors, Budgets, CreateScheduled, UpdateRow,
         PendingRow, NoRow, Unused, Call, OnReply, Replies
<1>11. ASSUME NEW s \in Slots, NEW r \in Replies, EnqueueScheduled(s, r)  PROVE StallsTakeCrashes'
  BY <1>11 DEF Consistent, Accountable, StallsTakeCrashes, Abandoned, Busy, Holds, HasLock,
         TypeOK, Job, Slot, Processors, Budgets, EnqueueScheduled, AddJob, NewJob,
         NoJob, Enqueuers, Pending, Call, OnReply, Replies
<1>12. ASSUME NEW s \in Slots, NEW r \in Replies, MarkRunning(s, r)  PROVE StallsTakeCrashes'
  BY <1>12 DEF Consistent, Accountable, StallsTakeCrashes, Abandoned, Busy, Holds, HasLock,
         TypeOK, Job, Slot, Processors, Budgets, MarkRunning, UpdateRow, GoTo, Call,
         OnReply, Replies
<1>13. ASSUME NEW s \in Slots, NEW r \in Replies, LoadVersion(s, r)  PROVE StallsTakeCrashes'
  BY <1>13 DEF Consistent, Accountable, StallsTakeCrashes, Abandoned, Busy, Holds, HasLock,
         TypeOK, Job, Slot, Processors, Budgets, LoadVersion, GoTo, Call, OnReply,
         Replies
<1>14. ASSUME NEW s \in Slots, EngineReturns(s)  PROVE StallsTakeCrashes'
  BY <1>14 DEF Consistent, Accountable, StallsTakeCrashes, Abandoned, Busy, Holds, HasLock,
         TypeOK, Job, Slot, Processors, Budgets, EngineReturns, GoTo, disturbances
<1>15. ASSUME NEW s \in Slots, NEW r \in Replies, MarkSuccess(s, r)  PROVE StallsTakeCrashes'
  BY <1>15 DEF Consistent, Accountable, StallsTakeCrashes, Abandoned, Busy, Holds, HasLock,
         TypeOK, Job, Slot, Processors, Budgets, MarkSuccess, UpdateRow, GoTo, Call,
         OnReply, Replies
<1>16. ASSUME NEW s \in Slots, NEW r \in Replies, MarkFailed(s, r)  PROVE StallsTakeCrashes'
  BY <1>16 DEF Consistent, Accountable, StallsTakeCrashes, Abandoned, Busy, Holds, HasLock,
         TypeOK, Job, Slot, Processors, Budgets, MarkFailed, UpdateRow, FailedRow,
         GoTo, Call, OnReply, Replies
<1>17. ASSUME NEW s \in Slots, NEW r \in Replies, CatchMarkFailed(s, r)  PROVE StallsTakeCrashes'
  BY <1>17 DEF Consistent, Accountable, StallsTakeCrashes, Abandoned, Busy, Holds, HasLock,
         TypeOK, Job, Slot, Processors, Budgets, CatchMarkFailed, UpdateRow,
         FailedRow, GoTo, Call, OnReply, Replies
<1>18. ASSUME NEW s \in Slots, CompleteJob(s)  PROVE StallsTakeCrashes'
  BY SMTT(20), <1>18
  DEF Consistent, Accountable, StallsTakeCrashes, Abandoned, Busy, Holds, HasLock,
         TypeOK, Job, Slot, Processors, Budgets, CompleteJob, Return, EndAttempt,
         Idle, disturbances
<1>19. ASSUME NEW s \in Slots, FailAttempt(s)  PROVE StallsTakeCrashes'
  BY SMTT(20), <1>19
  DEF Consistent, Accountable, StallsTakeCrashes, Abandoned, Busy, Holds, HasLock,
         TypeOK, Job, Slot, Processors, Budgets, FailAttempt, Return, EndAttempt,
         RetryOrFail, Idle, disturbances
<1>20. ASSUME NEW p \in Procs, Crash(p)  PROVE StallsTakeCrashes'
  <2> USE <1>20 DEF Crash, Idle
  <2> SUFFICES ASSUME lockLosses = 0  PROVE StallsTakeCrashes'
    BY DEF StallsTakeCrashes
  <2>1. \A s \in Slots : slot'[s] = slot[s] \/ slot'[s].pc = "idle"
    OBVIOUS
  <2>2. ASSUME NEW s \in Slots, Busy(s)'  PROVE Holds(s)'
    <3>1. slot'[s] = slot[s] /\ Busy(s)
      BY <2>1, <2>2 DEF Busy
    <3>2. Holds(s)
      BY <3>1 DEF Accountable, StallsTakeCrashes
    <3>3. QED  BY <3>1, <3>2 DEF Holds, HasLock
  <2>3. ASSUME NEW j \in JobIds
        PROVE  job'[j].stalls <= crashes' /\ job'[j].stalls < crashes'
    <3>1. job[j].stalls <= crashes
      BY DEF Accountable, StallsTakeCrashes
    <3>2. job[j].stalls \in Nat /\ crashes \in Nat
      BY DEF Consistent, TypeOK, Job
    <3>3. QED  BY <3>1, <3>2
  <2>4. QED  BY <2>2, <2>3 DEF StallsTakeCrashes
<1>21. ASSUME UNCHANGED vars  PROVE StallsTakeCrashes'
  BY <1>21 DEF Consistent, Accountable, StallsTakeCrashes, Abandoned, Busy, Holds, HasLock,
         TypeOK, Job, Slot, Processors, Budgets, vars
<1>22. QED
  BY <1>1, <1>2, <1>3, <1>4, <1>5, <1>6, <1>7, <1>8, <1>9, <1>10, <1>11,
     <1>12, <1>13, <1>14, <1>15, <1>16, <1>17, <1>18, <1>19, <1>20, <1>21
  DEF Next, Triggering, Processing, Queueing, Quiescent

(* Attempts end with an outcome, unless a call fails.                      *)
LEMMA EndsWithOutcomeKept ==
  ASSUME Consistent, Accountable, [Next]_vars
  PROVE  EndsWithOutcome'
<1>1. ASSUME Publish  PROVE EndsWithOutcome'
  BY <1>1 DEF Consistent, Accountable, EndsWithOutcome, EndPc, Settled, Outcomes, TypeOK,
         Row, Job, Slot, Processors, Busy, Publish, disturbances
<1>2. ASSUME NEW e \in Execs, NEW r \in Replies, TriggerCreate(e, r)  PROVE EndsWithOutcome'
  BY <1>2 DEF Consistent, Accountable, EndsWithOutcome, EndPc, Settled, Outcomes, TypeOK,
         Row, Job, Slot, Processors, Busy, TriggerCreate, UpdateRow, PendingRow,
         NoRow, Unused, Call, OnReply, Replies
<1>3. ASSUME NEW e \in Execs, NEW r \in Replies, TriggerEnqueue(e, r)  PROVE EndsWithOutcome'
  BY <1>3 DEF Consistent, Accountable, EndsWithOutcome, EndPc, Settled, Outcomes, TypeOK,
         Row, Job, Slot, Processors, Busy, TriggerEnqueue, AddJob, NewJob, NoJob,
         Enqueuers, Pending, Call, OnReply, Replies
<1>4. ASSUME NEW t \in Ticks, ScheduleFires(t)  PROVE EndsWithOutcome'
  BY <1>4 DEF Consistent, Accountable, EndsWithOutcome, EndPc, Settled, Outcomes, TypeOK,
         Row, Job, Slot, Processors, Busy, ScheduleFires, NewJob, NoJob, disturbances
<1>5. ASSUME NEW s \in Slots, NEW j \in JobIds, TakeJob(s, j)  PROVE EndsWithOutcome'
  BY <1>5 DEF Consistent, Accountable, EndsWithOutcome, EndPc, Settled, Outcomes, TypeOK,
         Row, Job, Slot, Processors, Busy, TakeJob, GiveJob, disturbances
<1>6. ASSUME NEW j \in JobIds, PromoteDelayed(j)  PROVE EndsWithOutcome'
  BY <1>6 DEF Consistent, Accountable, EndsWithOutcome, EndPc, Settled, Outcomes, TypeOK,
         Row, Job, Slot, Processors, Busy, PromoteDelayed, Promote, disturbances
<1>7. ASSUME NEW j \in JobIds, RecoverStalled(j)  PROVE EndsWithOutcome'
  BY <1>7 DEF Consistent, Accountable, EndsWithOutcome, EndPc, Settled, Outcomes, TypeOK,
         Row, Job, Slot, Processors, Busy, RecoverStalled, Stall, disturbances
<1>8. ASSUME NEW j \in JobIds, LoseLock(j)  PROVE EndsWithOutcome'
  BY <1>8 DEF Consistent, Accountable, EndsWithOutcome, EndPc, Settled, Outcomes, TypeOK,
         Row, Job, Slot, Processors, Busy, LoseLock, Stall
<1>9. ASSUME NEW s \in Slots, NEW r \in Replies, FindPublished(s, r)  PROVE EndsWithOutcome'
  <2> USE <1>9 DEF FindPublished, GoTo, Call, OnReply, Replies
  <2>1. slot[s].job \notin Execs
    BY DEF Consistent, Processors, ScheduledPc
  <2>2. /\ slot'[s].job = slot[s].job
        /\ \A q \in Slots : q # s => slot'[q] = slot[q]
    BY SlotGoes DEF Consistent
  <2>3. failedCalls' = 0 /\ lockLosses' = 0 => failedCalls = 0 /\ lockLosses = 0
    BY DEF Consistent, TypeOK
  <2>4. QED
    BY <2>1, <2>2, <2>3 DEF Accountable, EndsWithOutcome, Settled
<1>10. ASSUME NEW s \in Slots, NEW e \in Execs, NEW r \in Replies, CreateScheduled(s, e, r)  PROVE EndsWithOutcome'
  BY <1>10 DEF Consistent, Accountable, EndsWithOutcome, EndPc, Settled, Outcomes, TypeOK,
         Row, Job, Slot, Processors, Busy, CreateScheduled, UpdateRow, PendingRow,
         NoRow, Unused, Call, OnReply, Replies
<1>11. ASSUME NEW s \in Slots, NEW r \in Replies, EnqueueScheduled(s, r)  PROVE EndsWithOutcome'
  <2> USE <1>11 DEF EnqueueScheduled, AddJob, NewJob, NoJob, Enqueuers, Pending, Call, OnReply, Replies
  <2>1. slot[s].job \notin Execs
    BY DEF Consistent, Processors, ScheduledPc
  <2>2. /\ slot'[s].job = slot[s].job
        /\ \A q \in Slots : q # s => slot'[q] = slot[q]
    BY DEF Consistent, TypeOK, Slot
  <2>3. failedCalls' = 0 /\ lockLosses' = 0 => failedCalls = 0 /\ lockLosses = 0
    BY DEF Consistent, TypeOK
  <2>4. \A j \in JobIds : job'[j] = job[j] \/ job'[j].state = "wait"
    BY DEF Consistent, TypeOK
  <2>5. QED
    BY <2>1, <2>2, <2>3, <2>4 DEF Accountable, EndsWithOutcome, Settled
<1>12. ASSUME NEW s \in Slots, NEW r \in Replies, MarkRunning(s, r)  PROVE EndsWithOutcome'
  <2> USE <1>12 DEF MarkRunning, UpdateRow, GoTo, Call, OnReply, Replies
  <2> SUFFICES ASSUME failedCalls' = 0, lockLosses' = 0  PROVE EndsWithOutcome'
    BY DEF EndsWithOutcome
  <2>1. failedCalls = 0 /\ lockLosses = 0 /\ r = "ok"
    BY DEF Consistent, TypeOK
  <2>2. /\ slot'[s].pc = "loadVersion" /\ slot'[s].job = slot[s].job
        /\ \A q \in Slots : q # s => slot'[q] = slot[q]
    BY <2>1, SlotGoes DEF Consistent
  <2>3. \A q \in Slots : Busy(q) => job[slot[q].job].state = "active" /\ job[slot[q].job].lock = q
    BY <2>1 DEF Accountable, StallsTakeCrashes, Holds, HasLock
  <2>4. slot[s].job \in Execs /\ Busy(s)
    BY DEF Consistent, Processors, Busy
  <2>5. \A e \in Execs : e # slot[s].job => row'[e] = row[e]
    BY DEF Consistent, TypeOK
  <2>6. ASSUME NEW q \in Slots, slot'[q].job \in Execs, slot'[q].pc \in EndPc
        PROVE  (row[slot[q].job].status \in Outcomes)'
    <3>1. q # s /\ slot'[q] = slot[q] /\ Busy(q)
      BY <2>2, <2>6 DEF EndPc, Busy
    <3>2. slot[q].job # slot[s].job
      BY <2>3, <2>4, <3>1
    <3>3. row[slot[q].job].status \in Outcomes
      BY <2>1, <2>6, <3>1 DEF Accountable, EndsWithOutcome
    <3>4. QED  BY <2>5, <2>6, <3>1, <3>2, <3>3
  <2>7. ASSUME NEW e \in Execs, Settled(e)'
        PROVE  (row[e].status \in Outcomes \/ job[e].stalls > MaxStalled)'
    <3>1. e # slot[s].job
      BY <2>3, <2>4, <2>7 DEF Settled
    <3>2. QED  BY <2>1, <2>5, <2>7, <3>1 DEF Accountable, EndsWithOutcome, Settled
  <2>8. QED  BY <2>6, <2>7 DEF EndsWithOutcome
<1>13. ASSUME NEW s \in Slots, NEW r \in Replies, LoadVersion(s, r)  PROVE EndsWithOutcome'
  BY <1>13 DEF Consistent, Accountable, EndsWithOutcome, EndPc, Settled, Outcomes, TypeOK,
         Row, Job, Slot, Processors, Busy, LoadVersion, GoTo, Call, OnReply, Replies
<1>14. ASSUME NEW s \in Slots, EngineReturns(s)  PROVE EndsWithOutcome'
  BY <1>14 DEF Consistent, Accountable, EndsWithOutcome, EndPc, Settled, Outcomes, TypeOK,
         Row, Job, Slot, Processors, Busy, EngineReturns, GoTo, disturbances
<1>15. ASSUME NEW s \in Slots, NEW r \in Replies, MarkSuccess(s, r)  PROVE EndsWithOutcome'
  BY <1>15 DEF Consistent, Accountable, EndsWithOutcome, EndPc, Settled, Outcomes, TypeOK,
         Row, Job, Slot, Processors, Busy, MarkSuccess, UpdateRow, GoTo, Call,
         OnReply, Replies
<1>16. ASSUME NEW s \in Slots, NEW r \in Replies, MarkFailed(s, r)  PROVE EndsWithOutcome'
  BY <1>16 DEF Consistent, Accountable, EndsWithOutcome, EndPc, Settled, Outcomes, TypeOK,
         Row, Job, Slot, Processors, Busy, MarkFailed, UpdateRow, FailedRow, GoTo,
         Call, OnReply, Replies
<1>17. ASSUME NEW s \in Slots, NEW r \in Replies, CatchMarkFailed(s, r)  PROVE EndsWithOutcome'
  BY <1>17 DEF Consistent, Accountable, EndsWithOutcome, EndPc, Settled, Outcomes, TypeOK,
         Row, Job, Slot, Processors, Busy, CatchMarkFailed, UpdateRow, FailedRow,
         GoTo, Call, OnReply, Replies
<1>18. ASSUME NEW s \in Slots, CompleteJob(s)  PROVE EndsWithOutcome'
  BY <1>18 DEF Consistent, Accountable, EndsWithOutcome, EndPc, Settled, Outcomes, TypeOK,
         Row, Job, Slot, Processors, Busy, CompleteJob, Return, EndAttempt, HasLock,
         Idle, disturbances
<1>19. ASSUME NEW s \in Slots, FailAttempt(s)  PROVE EndsWithOutcome'
  BY <1>19 DEF Consistent, Accountable, EndsWithOutcome, EndPc, Settled, Outcomes, TypeOK,
         Row, Job, Slot, Processors, Busy, FailAttempt, Return, EndAttempt,
         RetryOrFail, HasLock, Idle, disturbances
<1>20. ASSUME NEW p \in Procs, Crash(p)  PROVE EndsWithOutcome'
  BY <1>20 DEF Consistent, Accountable, EndsWithOutcome, EndPc, Settled, Outcomes, TypeOK,
         Row, Job, Slot, Processors, Busy, Crash, Idle
<1>21. ASSUME UNCHANGED vars  PROVE EndsWithOutcome'
  BY <1>21 DEF Consistent, Accountable, EndsWithOutcome, EndPc, Settled, Outcomes, TypeOK,
         Row, Job, Slot, Processors, Busy, vars
<1>22. QED
  BY <1>1, <1>2, <1>3, <1>4, <1>5, <1>6, <1>7, <1>8, <1>9, <1>10, <1>11,
     <1>12, <1>13, <1>14, <1>15, <1>16, <1>17, <1>18, <1>19, <1>20, <1>21
  DEF Next, Triggering, Processing, Queueing, Quiescent
LEMMA AccountableInit ==
  ASSUME Init
  PROVE  Accountable
<1>1. FirstAttempts
  BY DEF Init, FirstAttempts, FirstAttempt, StaleColumns, NoRow, NoJob, Idle
<1>2. RunsCounted
  <2>1. \A e \in Execs : Starters(e) = {} /\ Given(e) = 0 /\ runs[e] = 0
    BY DEF Init, Starters, Given, NoJob, Idle
  <2>2. QED  BY <2>1, FS_EmptySet DEF RunsCounted, RunsCount
<1>3. OrphanNeedsFailure /\ TicksServed /\ TicksOnce
  BY DEF Init, OrphanNeedsFailure, TicksServed, Served, TicksOnce, TickOnce,
         NoRow, NoJob, Idle
<1>4. StallsTakeCrashes /\ EndsWithOutcome
  BY DEF Init, StallsTakeCrashes, Abandoned, Busy, EndsWithOutcome, EndPc,
         Settled, NoJob, Idle
<1>5. QED  BY <1>1, <1>2, <1>3, <1>4 DEF Accountable

THEOREM AlwaysAccountable == Spec => []Accountable
<1>1. Consistent /\ Accountable /\ [Next]_vars => Accountable'
  BY FirstAttemptsKept, RunsCountedKept, OrphanNeedsFailureKept, TicksServedKept,
     TicksOnceKept, StallsTakeCrashesKept, EndsWithOutcomeKept DEF Accountable
<1>2. QED  BY <1>1, AccountableInit, AlwaysConsistent, PTL DEF Spec

(* An execution is stranded only by a failed call, a lost lock, or more    *)
(* crashes than stalls are tolerated.                                      *)
THEOREM StrandedAlwaysNeedsFailure == Spec => []StrandedNeedsFailure
<1>1. ASSUME Consistent, Accountable  PROVE StrandedNeedsFailure
  <2> SUFFICES ASSUME NEW e \in Execs, Settled(e), row[e].status \notin Outcomes,
                      ~(failedCalls > 0), ~(lockLosses > 0)
               PROVE  crashes > MaxStalled
    BY DEF StrandedNeedsFailure
  <2>1. /\ failedCalls = 0 /\ lockLosses = 0
        /\ crashes \in Nat /\ job[e].stalls \in Nat
    BY <1>1 DEF Consistent, TypeOK, Job
  <2>2. job[e].stalls > MaxStalled
    BY <1>1, <2>1 DEF Accountable, EndsWithOutcome
  <2>3. job[e].stalls <= crashes
    BY <1>1, <2>1 DEF Accountable, StallsTakeCrashes
  <2>4. QED  BY <2>1, <2>2, <2>3
<1>2. QED  BY <1>1, AlwaysConsistent, AlwaysAccountable, PTL

(* A row nobody will pick up needs a failed call or a crash.               *)
THEOREM OrphanAlwaysNeedsFailure == Spec => []OrphanNeedsFailure
<1>1. Accountable => OrphanNeedsFailure
  BY DEF Accountable
<1>2. QED  BY <1>1, AlwaysAccountable, PTL

(* The engine is started for an execution at most once per attempt and     *)
(* tolerated stall.                                                        *)
THEOREM RunsAlwaysBounded == Spec => []RunsBounded
<1>1. ASSUME Consistent, Accountable  PROVE RunsBounded
  <2> SUFFICES ASSUME NEW e \in Execs  PROVE runs[e] <= MaxAttempts + MaxStalled
    BY DEF RunsBounded
  <2>1. RunsCount(e) /\ runs[e] \in Nat /\ Given(e) \in Nat
    BY <1>1 DEF Accountable, RunsCounted, Consistent, TypeOK, Job, Given
  <2>2. Cardinality(Starters(e)) \in Nat
    BY <2>1, FS_CardinalityType DEF RunsCount
  <2>3. QED  BY <2>1, <2>2 DEF RunsCount
<1>2. QED  BY <1>1, AlwaysConsistent, AlwaysAccountable, PTL

(* A firing whose job completed was reported or has enqueued an execution. *)
THEOREM TickAlwaysServed == Spec => []TickServed
<1>1. Accountable => TickServed
  BY DEF Accountable, TicksServed, Served, TickServed
<1>2. QED  BY <1>1, AlwaysAccountable, PTL

(* One firing makes one execution, unless something goes wrong.            *)
THEOREM AlwaysOneExecutionPerTick == Spec => []OneExecutionPerTick
<1>1. ASSUME Consistent, Accountable  PROVE OneExecutionPerTick
  <2> SUFFICES ASSUME ~Disturbed, NEW s \in Slots, slot[s].pc = "createExecution",
                      NEW e \in Execs, row[e].by = slot[s].job
               PROVE  FALSE
    BY DEF OneExecutionPerTick
  <2>1. slot[s].job \in Ticks
    BY <1>1 DEF Consistent, Processors, ScheduledPc
  <2>2. QED  BY <1>1, <2>1 DEF Accountable, TicksOnce, TickOnce
<1>2. QED  BY <1>1, AlwaysConsistent, AlwaysAccountable, PTL

(* Columns contradict the status only once a job was run again.            *)
THEOREM StaleColumnsAlwaysNeedRetry == Spec => []StaleColumnsNeedRetry
<1>1. ASSUME Consistent, Accountable  PROVE StaleColumnsNeedRetry
  <2> SUFFICES ASSUME NEW e \in Execs, StaleColumns(e),
                      ~(job[e].made > 0), ~(job[e].stalls > 0)
               PROVE  FALSE
    BY DEF StaleColumnsNeedRetry
  <2>1. job[e].made = 0 /\ job[e].stalls = 0
    BY <1>1 DEF Consistent, TypeOK, Job
  <2>2. QED  BY <1>1, <2>1 DEF Accountable, FirstAttempts, FirstAttempt
<1>2. QED  BY <1>1, AlwaysConsistent, AlwaysAccountable, PTL

-----------------------------------------------------------------------------
(* Work runs out: the ranks of jobs and processors only go down.           *)

(* Less of a job is left if it moves on within an attempt, and if another  *)
(* attempt or stall is counted.                                            *)
LEMMA LowerWithin ==
  ASSUME NEW old \in Job, NEW new \in Job, new.made = old.made, new.stalls = old.stalls,
         Standing(new.state) < Standing(old.state)
  PROVE  Lower(new, old)
<1>1. old.made \in 0..MaxAttempts /\ old.stalls \in 0..(MaxStalled + 1)
  BY DEF Job
<1>2. old.state \in JobState /\ new.state \in JobState
  BY DEF Job
<1>3. Standing(old.state) \in 0..3 /\ Standing(new.state) \in 0..3
  BY <1>2 DEF JobState, Standing
<1>4. QED  BY <1>1, <1>3 DEF Lower, JobRank

LEMMA LowerAfter ==
  ASSUME NEW old \in Job, NEW new \in Job, new.state # "none",
         new.made + new.stalls = old.made + old.stalls + 1
  PROVE  Lower(new, old)
<1>1. /\ old.made \in 0..MaxAttempts /\ old.stalls \in 0..(MaxStalled + 1)
      /\ new.made \in 0..MaxAttempts /\ new.stalls \in 0..(MaxStalled + 1)
  BY DEF Job
<1>2. old.state \in JobState /\ new.state \in JobState
  BY DEF Job
<1>3. Standing(old.state) \in 0..3 /\ Standing(new.state) \in 0..2
  BY <1>2 DEF JobState, Standing
<1>4. QED  BY <1>1, <1>3 DEF Lower, JobRank

JobsLower == \A j \in JobIds : job'[j] # job[j] => Lower(job'[j], job[j])

(* A job is added only where there is none.                                *)
LEMMA AddedLower ==
  ASSUME TypeOK, Accountable, NEW j \in JobIds, job[j].state = "none",
         job' = [job EXCEPT ![j] = NewJob]
  PROVE  JobsLower
<1>1. job[j] \in Job /\ NewJob \in Job
  BY DEF TypeOK, NewJob, NoJob, Job, JobState
<1>2. job[j].made = 0 /\ job[j].stalls = 0
  BY DEF Accountable, FirstAttempts
<1>3. Lower(NewJob, job[j])
  BY <1>1, <1>2, LowerWithin DEF NewJob, NoJob, Standing
<1>4. QED  BY <1>3 DEF JobsLower, TypeOK

LEMMA TakenLower ==
  ASSUME TypeOK, NEW j \in JobIds, NEW s \in Slots, job[j].state = "wait", GiveJob(j, s)
  PROVE  JobsLower /\ job'[j].state = "active" /\ job'[j].lock = s
<1>1. job[j] \in Job /\ job' \in [JobIds -> Job]
  BY GivenTyped DEF TypeOK
<1>2. /\ job'[j].state = "active" /\ job'[j].lock = s
      /\ job'[j].made = job[j].made /\ job'[j].stalls = job[j].stalls
  BY <1>1 DEF GiveJob, TypeOK, Job
<1>3. Lower(job'[j], job[j])
  BY <1>1, <1>2, LowerWithin DEF Standing
<1>4. QED  BY <1>2, <1>3 DEF JobsLower, TypeOK, GiveJob

LEMMA PromotedLower ==
  ASSUME TypeOK, NEW j \in JobIds, Promote(j)
  PROVE  JobsLower
<1>1. job[j] \in Job /\ [job[j] EXCEPT !.state = "wait"] \in Job
  BY DEF TypeOK, Job, JobState
<1>2. job' = [job EXCEPT ![j] = [job[j] EXCEPT !.state = "wait"]] /\ job[j].state = "delayed"
  BY DEF Promote
<1>3. Lower([job[j] EXCEPT !.state = "wait"], job[j])
  BY <1>1, <1>2, LowerWithin DEF Standing, Job
<1>4. QED  BY <1>2, <1>3 DEF JobsLower, TypeOK

LEMMA StalledLower ==
  ASSUME TypeOK, Budgets, NEW j \in JobIds, job[j].state = "active", Stall(j)
  PROVE  JobsLower
<1>1. job[j] \in Job /\ job' \in [JobIds -> Job]
  BY StalledTyped DEF TypeOK
<1>2. /\ job'[j].state # "none"
      /\ job'[j].made = job[j].made /\ job'[j].stalls = job[j].stalls + 1
  BY <1>1 DEF Stall, TypeOK, Job
<1>3. job'[j].made + job'[j].stalls = job[j].made + job[j].stalls + 1
  BY <1>1, <1>2 DEF Job
<1>4. Lower(job'[j], job[j])
  BY <1>1, <1>2, <1>3, LowerAfter
<1>5. QED  BY <1>4 DEF JobsLower, TypeOK, Stall

LEMMA EndedLower ==
  ASSUME TypeOK, Budgets, NEW s \in Slots, NEW j \in JobIds,
         NEW state \in JobState \ {"none"}, EndAttempt(s, j, state)
  PROVE  JobsLower
<1>1. job[j] \in Job /\ job' \in [JobIds -> Job]
  BY EndedTyped DEF TypeOK
<1>2. CASE ~HasLock(s, j)
  BY <1>2 DEF EndAttempt, JobsLower
<1>3. CASE HasLock(s, j)
  <2>1. job' = [job EXCEPT ![j] =
          [job[j] EXCEPT !.state = state, !.made = job[j].made + 1, !.lock = None]]
    BY <1>3 DEF EndAttempt
  <2>2. /\ job'[j].state # "none"
        /\ job'[j].made = job[j].made + 1 /\ job'[j].stalls = job[j].stalls
    BY <1>1, <2>1 DEF TypeOK, Job
  <2>3. job'[j].made + job'[j].stalls = job[j].made + job[j].stalls + 1
    BY <1>1, <2>2 DEF Job
  <2>4. Lower(job'[j], job[j])
    BY <1>1, <2>2, <2>3, LowerAfter
  <2>5. QED  BY <2>1, <2>4 DEF JobsLower, TypeOK
<1>4. QED  BY <1>2, <1>3

SlotsNearer ==
  \A s \in Slots : slot'[s] # slot[s] =>
    \/ CallsLeft(slot'[s].pc) < CallsLeft(slot[s].pc)
    \/ \E j \in JobIds : job'[j] # job[j] /\ job'[j].lock = s

(* A slot that takes a step is nearer to the end of its processor.         *)
LEMMA StepNearer ==
  ASSUME TypeOK, NEW s \in Slots, NEW new, slot' = [slot EXCEPT ![s] = new],
         CallsLeft(new.pc) < CallsLeft(slot[s].pc)
  PROVE  SlotsNearer
  BY DEF SlotsNearer, TypeOK

LEMMA GoesNearer ==
  ASSUME TypeOK, NEW s \in Slots, NEW pc, GoTo(s, pc),
         CallsLeft(pc) < CallsLeft(slot[s].pc)
  PROVE  SlotsNearer
<1>1. slot' = [slot EXCEPT ![s] = [slot[s] EXCEPT !.pc = pc]]
  BY DEF GoTo
<1>2. [slot[s] EXCEPT !.pc = pc].pc = pc
  BY DEF TypeOK, Slot
<1>3. QED  BY <1>1, <1>2, StepNearer

LEMMA QueueingRunsOut ==
  ASSUME Consistent, Accountable, NEW j \in JobIds, Queueing(j)
  PROVE  JobsLower /\ SlotsNearer
<1> USE DEF Consistent
<1>1. CASE j \in Ticks /\ ScheduleFires(j)
  BY <1>1, AddedLower DEF ScheduleFires, SlotsNearer
<1>2. ASSUME NEW s \in Slots, TakeJob(s, j)
      PROVE  JobsLower /\ SlotsNearer
  <2>1. job[j].state = "wait" /\ GiveJob(j, s)
    BY <1>2 DEF TakeJob
  <2>2. JobsLower /\ job'[j].state = "active" /\ job'[j].lock = s
    BY <2>1, TakenLower
  <2>3. \A q \in Slots : q # s => slot'[q] = slot[q]
    BY <1>2 DEF TakeJob, TypeOK
  <2>4. QED  BY <2>1, <2>2, <2>3 DEF SlotsNearer
<1>3. CASE PromoteDelayed(j)
  BY <1>3, PromotedLower DEF PromoteDelayed, SlotsNearer
<1>4. CASE RecoverStalled(j) \/ LoseLock(j)
  BY <1>4, StalledLower DEF RecoverStalled, LoseLock, SlotsNearer
<1>5. QED  BY <1>1, <1>2, <1>3, <1>4 DEF Queueing

LEMMA AddJobLower ==
  ASSUME Consistent, Accountable, NEW r \in Replies, NEW e \in Execs, AddJob(r, e), Pending(e)
  PROVE  JobsLower
<1>1. CASE job' = job
  BY <1>1 DEF JobsLower
<1>2. CASE job' = [job EXCEPT ![e] = NewJob]
  BY <1>2, AddedLower DEF Consistent, Pending
<1>3. QED  BY <1>1, <1>2 DEF AddJob

LEMMA TriggeringRunsOut ==
  ASSUME Consistent, Accountable, NEW e \in Execs, Triggering(e)
  PROVE  JobsLower /\ SlotsNearer
<1>1. ASSUME NEW r \in Replies, TriggerCreate(e, r)
      PROVE  JobsLower /\ SlotsNearer
  BY <1>1 DEF TriggerCreate, JobsLower, SlotsNearer
<1>2. ASSUME NEW r \in Replies, TriggerEnqueue(e, r)
      PROVE  JobsLower /\ SlotsNearer
  <2>1. AddJob(r, e) /\ Pending(e) /\ UNCHANGED slot
    BY <1>2 DEF TriggerEnqueue, Consistent, Enqueuers
  <2>2. QED  BY <2>1, AddJobLower DEF SlotsNearer
<1>3. QED  BY <1>1, <1>2 DEF Triggering

LEMMA CallingRunsOut ==
  ASSUME Consistent, Accountable, NEW s \in Slots, NEW r \in Replies,
         \/ FindPublished(s, r) \/ EnqueueScheduled(s, r)
         \/ \E e \in Execs : CreateScheduled(s, e, r)
         \/ MarkRunning(s, r) \/ LoadVersion(s, r)
         \/ MarkSuccess(s, r) \/ MarkFailed(s, r) \/ CatchMarkFailed(s, r)
  PROVE  JobsLower /\ SlotsNearer
<1> USE DEF Consistent
<1>1. ASSUME NEW pc, GoTo(s, pc), CallsLeft(pc) < CallsLeft(slot[s].pc), UNCHANGED job
      PROVE  JobsLower /\ SlotsNearer
  BY <1>1, GoesNearer DEF JobsLower
<1>2. CASE FindPublished(s, r)
  BY <1>1, <1>2 DEF FindPublished, OnReply, CallsLeft, EndPc
<1>3. CASE MarkRunning(s, r) \/ LoadVersion(s, r)
  BY <1>1, <1>3 DEF MarkRunning, LoadVersion, OnReply, CallsLeft, EndPc
<1>4. CASE MarkSuccess(s, r) \/ MarkFailed(s, r) \/ CatchMarkFailed(s, r)
  BY <1>1, <1>4 DEF MarkSuccess, MarkFailed, CatchMarkFailed, OnReply, CallsLeft, EndPc
<1>5. ASSUME NEW e \in Execs, CreateScheduled(s, e, r)
      PROVE  JobsLower /\ SlotsNearer
  <2> DEFINE new == [slot[s] EXCEPT !.pc = OnReply(r, "enqueue", "throw"),
                                    !.fresh = OnReply(r, e, None)]
  <2>1. slot' = [slot EXCEPT ![s] = new] /\ UNCHANGED job /\ slot[s].pc = "createExecution"
    BY <1>5 DEF CreateScheduled
  <2>2. new.pc \in {"enqueue", "throw"}
    BY DEF TypeOK, Slot, OnReply
  <2>3. CallsLeft(new.pc) < CallsLeft(slot[s].pc)
    BY <2>1, <2>2 DEF CallsLeft, EndPc
  <2>4. QED  BY <2>1, <2>3, StepNearer DEF JobsLower
<1>6. CASE EnqueueScheduled(s, r)
  <2> DEFINE new == [slot[s] EXCEPT !.pc = OnReply(r, "complete", "throw"), !.fresh = None]
  <2>1. slot' = [slot EXCEPT ![s] = new] /\ AddJob(r, slot[s].fresh) /\ slot[s].pc = "enqueue"
    BY <1>6 DEF EnqueueScheduled
  <2>2. slot[s].fresh \in Execs /\ Pending(slot[s].fresh)
    BY <2>1 DEF TypeOK, Slot, Processors, Enqueuers
  <2>3. JobsLower
    BY <2>1, <2>2, AddJobLower
  <2>4. new.pc \in {"complete", "throw"}
    BY DEF TypeOK, Slot, OnReply
  <2>5. CallsLeft(new.pc) < CallsLeft(slot[s].pc)
    BY <2>1, <2>4 DEF CallsLeft, EndPc
  <2>6. QED  BY <2>1, <2>3, <2>5, StepNearer
<1>7. QED  BY <1>2, <1>3, <1>4, <1>5, <1>6

LEMMA ReturningRunsOut ==
  ASSUME Consistent, NEW s \in Slots, NEW pc \in EndPc,
         NEW state \in JobState \ {"none"}, Return(s, pc, state)
  PROVE  JobsLower /\ SlotsNearer
<1> USE DEF Consistent
<1>1. /\ slot[s].pc = pc /\ EndAttempt(s, slot[s].job, state)
      /\ slot' = [slot EXCEPT ![s] = Idle]
  BY DEF Return
<1>2. slot[s].job \in JobIds
  BY <1>1 DEF Processors, Busy, EndPc, TypeOK, Slot
<1>3. JobsLower
  BY <1>1, <1>2, EndedLower
<1>4. CallsLeft(Idle.pc) < CallsLeft(slot[s].pc)
  BY <1>1 DEF CallsLeft, EndPc, Idle
<1>5. QED  BY <1>1, <1>3, <1>4, StepNearer

LEMMA ProcessingRunsOut ==
  ASSUME Consistent, Accountable, NEW s \in Slots, Processing(s)
  PROVE  JobsLower /\ SlotsNearer
<1>1. CASE EngineReturns(s)
  <2>1. PICK next \in {"markSuccess", "markFailed", "catch"} : GoTo(s, next)
    BY <1>1 DEF EngineReturns
  <2>2. slot[s].pc = "engine" /\ UNCHANGED job
    BY <1>1 DEF EngineReturns
  <2>3. CallsLeft(next) < CallsLeft(slot[s].pc)
    BY <2>2 DEF CallsLeft, EndPc
  <2>4. QED  BY <2>1, <2>2, <2>3, GoesNearer DEF JobsLower, Consistent
<1>2. CASE CompleteJob(s)
  BY <1>2, ReturningRunsOut DEF CompleteJob, EndPc, JobState
<1>3. CASE FailAttempt(s)
  <2>1. RetryOrFail(slot[s].job) \in {"delayed", "failed"}
    BY DEF RetryOrFail
  <2>2. QED  BY <1>3, <2>1, ReturningRunsOut DEF FailAttempt, EndPc, JobState
<1>4. QED  BY <1>1, <1>2, <1>3, CallingRunsOut DEF Processing

(* A crash takes a processor's calls away.                                 *)
LEMMA CrashRunsOut ==
  ASSUME Consistent, NEW p \in Procs, Crash(p)
  PROVE  JobsLower /\ SlotsNearer
<1>1. UNCHANGED job /\ slot' = [s \in Slots |-> IF ProcOf[s] = p THEN Idle ELSE slot[s]]
  BY DEF Crash
<1>2. ASSUME NEW s \in Slots, slot'[s] # slot[s]
      PROVE  CallsLeft(slot'[s].pc) < CallsLeft(slot[s].pc)
  <2>1. slot'[s] = Idle /\ slot[s] \in Slot
    BY <1>1, <1>2 DEF Consistent, TypeOK
  <2>2. slot[s].pc # "idle"
    <3>1. SUFFICES ASSUME slot[s].pc = "idle" PROVE slot[s] = Idle
      BY <1>2, <2>1
    <3>2. slot[s].job = None /\ slot[s].fresh = None
      BY <3>1 DEF Consistent, Processors, Busy
    <3>3. QED  BY <2>1, <3>1, <3>2 DEF Slot, Idle
  <2>3. slot[s].pc \in SlotPc
    BY <2>1 DEF Slot
  <2>4. CallsLeft(slot[s].pc) \in 1..6
    BY <2>2, <2>3 DEF CallsLeft, SlotPc, ScheduledPc, RunPc, EndPc
  <2>5. CallsLeft(slot'[s].pc) = 0
    BY <2>1 DEF Idle, CallsLeft, EndPc
  <2>6. QED  BY <2>4, <2>5
<1>3. QED  BY <1>1, <1>2 DEF JobsLower, SlotsNearer

(* Every job comes to its end after finitely many hand-overs, and every    *)
(* processor after finitely many calls: what liveness needs besides        *)
(* fairness, whatever fails and however often.                             *)
THEOREM WorkAlwaysRunsOut == Spec => WorkRunsOut
<1>1. Consistent /\ Accountable /\ [Next]_vars => [JobsLower /\ SlotsNearer]_vars
  <2> SUFFICES ASSUME Consistent, Accountable, Next
               PROVE  (JobsLower /\ SlotsNearer) \/ UNCHANGED vars
    OBVIOUS
  <2>1. CASE Publish
    BY <2>1 DEF Publish, JobsLower, SlotsNearer
  <2>2. QED
    BY <2>1, TriggeringRunsOut, ProcessingRunsOut, QueueingRunsOut, CrashRunsOut
    DEF Next, Quiescent
<1>2. QED
  BY <1>1, AlwaysConsistent, AlwaysAccountable, PTL
  DEF Spec, WorkRunsOut, JobsLower, SlotsNearer
=============================================================================
