-------------------------- MODULE SchedulesProofs --------------------------
(***************************************************************************)
(* For any number of schedules, requests, starting workers and failures:   *)
(* an orphaned repeatable job needs a removal that overtook its create,    *)
(* and no worker that starts removes the job of a schedule that is there.  *)
(***************************************************************************)
EXTENDS Schedules, TLAPS

USE SchedulesAssumption

(* Nothing is scheduled at first, but for jobs of older versions.          *)
LEMMA InitInv == Init => Inv
<1> SUFFICES ASSUME Init PROVE Inv
  OBVIOUS
<1> USE DEF Init, NoRequest, Down
<1>1. TypeOK
  BY DEF TypeOK, Remover, Starter
<1>2. RowFirst /\ RemovalFollowsRow /\ ListedHadRow /\ OrphanNeedsOverlap
  BY DEF RowFirst, RemovalFollowsRow, ListedHadRow, OrphanNeedsOverlap
<1>3. QED  BY <1>1, <1>2 DEF Inv

(* A call counts at most one failure, within the bound.                    *)
LEMMA CallType ==
  ASSUME failures \in 0..MaxFailures, NEW r \in Replies, Call(r)
  PROVE  failures' \in 0..MaxFailures
BY DEF Call

(* The row is inserted once and before the job is registered.              *)
LEMMA CreatingInv ==
  ASSUME Inv, NEW s \in Schedules, Creating(s)
  PROVE  Inv'
<1> USE DEF Inv
<1>1. ASSUME NEW r \in Replies, InsertRow(s, r)
      PROVE  Inv'
  <2>1. PICK pc \in {"register", "error"} :
          /\ creator[s] = "idle"
          /\ creator' = [creator EXCEPT ![s] = pc]
          /\ \/ row' = row /\ pc = "error"
             \/ row' = [row EXCEPT ![s] = "stored"]
          /\ UNCHANGED <<repeatable, remover, starter, overlapped>>
    BY <1>1 DEF InsertRow, OnReply, Replies
  <2>2. row[s] = "none" /\ s \notin repeatable
    BY <2>1 DEF RowFirst
  <2>3. TypeOK'
    BY <1>1, <2>1, CallType DEF TypeOK, InsertRow
  <2>4. RowFirst' /\ OrphanNeedsOverlap'
    BY <2>1, <2>2 DEF RowFirst, OrphanNeedsOverlap, TypeOK
  <2>5. RemovalFollowsRow'
    BY <2>1, <2>2 DEF RemovalFollowsRow, TypeOK
  <2>6. ListedHadRow'
    BY <2>1, <2>2 DEF ListedHadRow, TypeOK
  <2>7. QED  BY <2>3, <2>4, <2>5, <2>6
<1>2. ASSUME NEW r \in Replies, Register(s, r)
      PROVE  Inv'
  <2>1. PICK pc \in {"done", "error"} :
          /\ creator[s] = "register"
          /\ creator' = [creator EXCEPT ![s] = pc]
          /\ repeatable' \in {repeatable, repeatable \cup {s}}
          /\ UNCHANGED <<row, remover, starter, overlapped>>
    BY <1>2 DEF Register, OnReply, Replies
  <2>2. TypeOK'
    BY <1>2, <2>1, CallType DEF TypeOK, Register
  <2>3. RowFirst' /\ OrphanNeedsOverlap'
    BY <2>1 DEF RowFirst, OrphanNeedsOverlap, TypeOK
  <2>4. RemovalFollowsRow'
    BY <2>1 DEF RemovalFollowsRow, TypeOK
  <2>5. ListedHadRow'
    BY <2>1 DEF ListedHadRow, TypeOK
  <2>6. QED  BY <2>2, <2>3, <2>4, <2>5
<1>3. CASE RejectCron(s)
  BY <1>3 DEF RejectCron, TypeOK, RowFirst, OrphanNeedsOverlap, RemovalFollowsRow,
              ListedHadRow
<1>4. QED  BY <1>1, <1>2, <1>3 DEF Creating

(* A removal takes the job away before the row, so that only a create that *)
(* was still to register can leave an orphan.                              *)
LEMMA RemovingInv ==
  ASSUME Inv, NEW m \in Removers, NEW s \in Schedules,
         \/ FindSchedule(m, s)
         \/ \E r \in Replies : Unregister(m, s, r) \/ CheckRow(m, s, r) \/ DeleteRow(m, s, r)
  PROVE  Inv'
<1> USE DEF Inv
<1>1. CASE FindSchedule(m, s)
  <2>1. /\ row[s] = "stored"
        /\ remover' = [remover EXCEPT ![m] = [pc |-> "unregister", schedule |-> s]]
        /\ overlapped' = IF creator[s] = "register" THEN overlapped \cup {s} ELSE overlapped
        /\ UNCHANGED <<row, repeatable, creator, starter, failures>>
    BY <1>1 DEF FindSchedule, MoveTo, Stored
  <2>2. TypeOK'
    BY <2>1 DEF TypeOK, Remover, RemoverPc
  <2>3. RowFirst' /\ OrphanNeedsOverlap' /\ ListedHadRow'
    BY <2>1 DEF RowFirst, OrphanNeedsOverlap, ListedHadRow, TypeOK
  <2>4. RemovalFollowsRow'
    BY <2>1 DEF RemovalFollowsRow, TypeOK
  <2>5. QED  BY <2>2, <2>3, <2>4
<1>2. ASSUME NEW r \in Replies, Unregister(m, s, r)
      PROVE  Inv'
  <2>1. /\ At(m, "unregister", s)
        /\ \/ /\ remover' = [remover EXCEPT ![m] = NoRequest]
              /\ repeatable' \in {repeatable, repeatable \ {s}}
           \/ /\ remover' = [remover EXCEPT ![m] = [pc |-> "check", schedule |-> s]]
              /\ repeatable' = repeatable \ {s}
        /\ UNCHANGED <<row, creator, starter, overlapped>>
    BY <1>2 DEF Unregister, MoveTo, OnReply, Replies
  <2>2. TypeOK'
    BY <1>2, <2>1, CallType DEF TypeOK, Unregister, Remover, RemoverPc
  <2>3. RowFirst' /\ OrphanNeedsOverlap' /\ ListedHadRow'
    BY <2>1 DEF RowFirst, OrphanNeedsOverlap, ListedHadRow, TypeOK
  <2>4. RemovalFollowsRow'
    BY <2>1 DEF RemovalFollowsRow, TypeOK, NoRequest, At
  <2>5. QED  BY <2>2, <2>3, <2>4
<1>3. ASSUME NEW r \in Replies, CheckRow(m, s, r)
      PROVE  Inv'
  <2>1. /\ At(m, "check", s)
        /\ \/ remover' = [remover EXCEPT ![m] = NoRequest]
           \/ remover' = [remover EXCEPT ![m] = [pc |-> "delete", schedule |-> s]]
        /\ UNCHANGED <<row, repeatable, creator, starter, overlapped>>
    BY <1>3 DEF CheckRow, MoveTo
  <2>2. TypeOK'
    BY <1>3, <2>1, CallType DEF TypeOK, CheckRow, Remover, RemoverPc
  <2>3. RowFirst' /\ OrphanNeedsOverlap' /\ ListedHadRow'
    BY <2>1 DEF RowFirst, OrphanNeedsOverlap, ListedHadRow
  <2>4. RemovalFollowsRow'
    BY <2>1 DEF RemovalFollowsRow, TypeOK, NoRequest, At
  <2>5. QED  BY <2>2, <2>3, <2>4
<1>4. ASSUME NEW r \in Replies, DeleteRow(m, s, r)
      PROVE  Inv'
  <2>1. /\ remover[m].pc = "delete" /\ remover[m].schedule = s
        /\ remover' = [remover EXCEPT ![m] = NoRequest]
        /\ row' \in {row, [row EXCEPT ![s] = "deleted"]}
        /\ UNCHANGED <<repeatable, creator, starter, overlapped>>
    BY <1>4 DEF DeleteRow, MoveTo, At
  <2>2. /\ row[s] # "none"
        /\ creator[s] = "register" \/ s \in repeatable => s \in overlapped
    BY <2>1 DEF RemovalFollowsRow
  <2>3. TypeOK'
    BY <1>4, <2>1, CallType DEF TypeOK, DeleteRow, Remover, RemoverPc
  <2>4. RowFirst' /\ OrphanNeedsOverlap' /\ ListedHadRow'
    BY <2>1, <2>2 DEF RowFirst, OrphanNeedsOverlap, ListedHadRow, TypeOK
  <2>5. RemovalFollowsRow'
    BY <2>1, <2>2 DEF RemovalFollowsRow, TypeOK, NoRequest
  <2>6. QED  BY <2>3, <2>4, <2>5
<1>5. QED  BY <1>1, <1>2, <1>3, <1>4

(* The worker lists the jobs before it reads the rows, so that a listed    *)
(* job without a row is one whose row is gone for good.                    *)
LEMMA CleaningInv ==
  ASSUME Inv, NEW w \in Workers, Start(w) \/ Cleaning(w)
  PROVE  Inv'
<1> USE DEF Inv
<1>1. ASSUME NEW new \in Starter, starter' = [starter EXCEPT ![w] = new],
             UNCHANGED <<row, creator, remover, overlapped>>,
             repeatable' \subseteq repeatable, failures' \in 0..MaxFailures,
             \A s \in new.listed \cap Schedules :
               /\ row[s] # "none"
               /\ new.pc = "clean" /\ s \notin new.known => row[s] = "deleted"
      PROVE  Inv'
  <2>1. TypeOK'
    BY <1>1 DEF TypeOK
  <2>2. RowFirst' /\ OrphanNeedsOverlap' /\ RemovalFollowsRow'
    BY <1>1 DEF RowFirst, OrphanNeedsOverlap, RemovalFollowsRow
  <2>3. ListedHadRow'
    BY <1>1 DEF ListedHadRow, TypeOK
  <2>4. QED  BY <2>1, <2>2, <2>3
<1>2. [Down EXCEPT !.pc = "up"] \in Starter /\ [Down EXCEPT !.pc = "list"] \in Starter
  BY DEF Down, Starter, StarterPc
<1>3. [Down EXCEPT !.pc = "up"].listed = {} /\ [Down EXCEPT !.pc = "list"].listed = {}
  BY DEF Down
<1>4. /\ failures \in 0..MaxFailures /\ starter[w] \in Starter
      /\ repeatable \subseteq Schedules \cup Legacy
  BY DEF TypeOK
<1>5. \A s \in starter[w].listed \cap Schedules :
        /\ row[s] # "none"
        /\ starter[w].pc = "clean" /\ s \notin starter[w].known => row[s] = "deleted"
  BY DEF ListedHadRow
<1>6. CASE Start(w)
  BY <1>1, <1>2, <1>3, <1>4, <1>6 DEF Start
<1>7. ASSUME NEW r \in Replies, ListJobs(w, r)
      PROVE  Inv'
  <2>1. failures' \in 0..MaxFailures
    BY <1>4, <1>7, CallType DEF ListJobs
  <2>2. CASE r = "ok"
    <3> DEFINE new == [pc |-> "read", listed |-> repeatable, known |-> {}]
    <3>1. new \in Starter
      BY <1>4 DEF Starter, StarterPc
    <3>2. \A s \in new.listed \cap Schedules : row[s] # "none"
      BY DEF RowFirst
    <3>3. /\ starter' = [starter EXCEPT ![w] = new]
          /\ UNCHANGED <<row, repeatable, creator, remover, overlapped>>
      BY <1>7, <2>2 DEF ListJobs
    <3>4. new.pc # "clean"
      OBVIOUS
    <3> HIDE DEF new
    <3>5. QED  BY <1>1, <2>1, <3>1, <3>2, <3>3, <3>4
  <2>3. CASE r # "ok"
    BY <1>1, <1>2, <1>3, <1>7, <2>1, <2>3 DEF ListJobs
  <2>4. QED  BY <2>2, <2>3
<1>8. ASSUME NEW r \in Replies, ReadRows(w, r)
      PROVE  Inv'
  <2>1. failures' \in 0..MaxFailures
    BY <1>4, <1>8, CallType DEF ReadRows
  <2>2. CASE r = "ok"
    <3> DEFINE new == [starter[w] EXCEPT !.pc = "clean", !.known = Stored]
    <3>1. new \in Starter /\ new.listed = starter[w].listed /\ new.known = Stored
      BY <1>4 DEF Starter, StarterPc, Stored
    <3>2. /\ starter' = [starter EXCEPT ![w] = new]
          /\ UNCHANGED <<row, repeatable, creator, remover, overlapped>>
      BY <1>8, <2>2 DEF ReadRows
    <3>3. \A s \in Schedules : row[s] # "none" /\ s \notin Stored => row[s] = "deleted"
      BY DEF Stored, TypeOK
    <3> HIDE DEF new
    <3>4. QED  BY <1>1, <1>5, <2>1, <3>1, <3>2, <3>3
  <2>3. CASE r # "ok"
    BY <1>1, <1>2, <1>3, <1>8, <2>1, <2>3 DEF ReadRows
  <2>4. QED  BY <2>2, <2>3
<1>9. ASSUME NEW r \in Replies, NEW j \in Schedules \cup Legacy, CleanJob(w, j, r)
      PROVE  Inv'
  <2>1. failures' \in 0..MaxFailures /\ repeatable' \subseteq repeatable
    BY <1>4, <1>9, CallType DEF CleanJob
  <2>2. CASE r = "ok"
    <3> DEFINE new == [starter[w] EXCEPT !.listed = @ \ {j}]
    <3>1. /\ new \in Starter /\ new.listed = starter[w].listed \ {j}
          /\ new.known = starter[w].known /\ new.pc = starter[w].pc
      BY <1>4 DEF Starter
    <3>2. /\ starter' = [starter EXCEPT ![w] = new]
          /\ UNCHANGED <<row, creator, remover, overlapped>>
      BY <1>9, <2>2 DEF CleanJob
    <3> HIDE DEF new
    <3>3. QED  BY <1>1, <1>5, <2>1, <3>1, <3>2
  <2>3. CASE r # "ok"
    BY <1>1, <1>2, <1>3, <1>9, <2>1, <2>3 DEF CleanJob
  <2>4. QED  BY <2>2, <2>3
<1>10. CASE StartWorkers(w)
  BY <1>1, <1>2, <1>3, <1>4, <1>10 DEF StartWorkers
<1>11. QED  BY <1>6, <1>7, <1>8, <1>9, <1>10 DEF Cleaning

(* A process that dies leaves rows and jobs as they are.                   *)
LEMMA CrashInv ==
  ASSUME Inv, CrashApi \/ \E w \in Workers : CrashWorker(w)
  PROVE  Inv'
<1> USE DEF Inv
<1>0. failures < MaxFailures /\ failures' = failures + 1 => failures' \in 0..MaxFailures
  BY DEF TypeOK
<1>1. CASE CrashApi
  <2>1. /\ creator' = [s \in Schedules |->
               IF creator[s] = "register" THEN "error" ELSE creator[s]]
        /\ remover' = [m \in Removers |-> NoRequest]
        /\ UNCHANGED <<row, repeatable, starter, overlapped>>
        /\ failures' \in 0..MaxFailures
    BY <1>0, <1>1 DEF CrashApi
  <2>2. TypeOK'
    BY <2>1 DEF TypeOK, Remover
  <2>3. RowFirst' /\ OrphanNeedsOverlap' /\ ListedHadRow'
    BY <2>1 DEF RowFirst, OrphanNeedsOverlap, ListedHadRow
  <2>4. RemovalFollowsRow'
    BY <2>1 DEF RemovalFollowsRow, NoRequest
  <2>5. QED  BY <2>2, <2>3, <2>4
<1>2. ASSUME NEW w \in Workers, CrashWorker(w)
      PROVE  Inv'
  <2>1. /\ starter' = [starter EXCEPT ![w] = Down]
        /\ UNCHANGED <<row, repeatable, creator, remover, overlapped>>
        /\ failures' \in 0..MaxFailures
    BY <1>0, <1>2 DEF CrashWorker
  <2>2. Down \in Starter /\ Down.listed = {}
    BY DEF Down, Starter
  <2>3. TypeOK'
    BY <2>1, <2>2 DEF TypeOK
  <2>4. RowFirst' /\ OrphanNeedsOverlap' /\ RemovalFollowsRow'
    BY <2>1 DEF RowFirst, OrphanNeedsOverlap, RemovalFollowsRow
  <2>5. ListedHadRow'
    BY <2>1, <2>2 DEF ListedHadRow, TypeOK
  <2>6. QED  BY <2>3, <2>4, <2>5
<1>3. QED  BY <1>1, <1>2

(* Every step keeps the invariant.                                         *)
LEMMA NextInv == Inv /\ [Next]_vars => Inv'
<1> SUFFICES ASSUME Inv, [Next]_vars PROVE Inv'
  OBVIOUS
<1>1. CASE UNCHANGED vars
  BY <1>1 DEF vars, Inv, TypeOK, RowFirst, RemovalFollowsRow, ListedHadRow,
              OrphanNeedsOverlap
<1>2. CASE Next
  BY <1>2, CreatingInv, RemovingInv, CleaningInv, CrashInv DEF Next, Removing
<1>3. QED  BY <1>1, <1>2

-----------------------------------------------------------------------------
(* Every reachable state satisfies the invariant.                          *)
THEOREM AlwaysInv == Spec => []Inv
BY InitInv, NextInv, PTL DEF Spec

(* The variables keep their types, and the failures their bound.           *)
THEOREM TypeCorrect == Spec => []TypeOK
<1>1. Inv => TypeOK
  BY DEF Inv
<1>2. QED  BY <1>1, AlwaysInv, PTL

(* removeWorkflowSchedule and createWorkflowSchedule leave a repeatable    *)
(* job without a row only where they overlap, whatever fails.              *)
THEOREM OrphanAlwaysNeedsOverlap == Spec => []OrphanNeedsOverlap
<1>1. Inv => OrphanNeedsOverlap
  BY DEF Inv
<1>2. QED  BY <1>1, AlwaysInv, PTL

(* cleanOrphanedSchedules removes the job of no schedule that has a row.   *)
THEOREM JobAlwaysRemovedForCause == Spec => JobRemovedForCause
<1> DEFINE ForCause ==
      \A s \in Schedules : s \in repeatable /\ s \notin repeatable' =>
        row[s] = "deleted" \/ \E m \in Removers : At(m, "unregister", s)
<1>1. Inv /\ [Next]_vars => [ForCause]_vars
  <2> SUFFICES ASSUME Inv, Next PROVE ForCause
    OBVIOUS
  <2> SUFFICES ASSUME NEW s \in Schedules, s \in repeatable, s \notin repeatable'
               PROVE  row[s] = "deleted" \/ \E m \in Removers : At(m, "unregister", s)
    OBVIOUS
  <2>1. ASSUME NEW u \in Schedules, Creating(u)
        PROVE  FALSE
    BY <2>1 DEF Creating, InsertRow, Register, RejectCron
  <2>2. ASSUME NEW m \in Removers, Removing(m)
        PROVE  At(m, "unregister", s)
    BY <2>2 DEF Removing, FindSchedule, Unregister, CheckRow, DeleteRow
  <2>3. ASSUME NEW w \in Workers, NEW j \in Schedules \cup Legacy, NEW r \in Replies,
               CleanJob(w, j, r)
        PROVE  row[s] = "deleted"
    <3>1. s = j
      BY <2>3 DEF CleanJob
    <3>2. starter[w].pc = "clean" /\ s \in starter[w].listed /\ s \notin starter[w].known
      BY <2>3, <3>1 DEF CleanJob
    <3>3. QED  BY <3>2 DEF Inv, ListedHadRow
  <2>4. ASSUME NEW w \in Workers, Start(w) \/ Cleaning(w) \/ CrashWorker(w)
        PROVE  row[s] = "deleted"
    BY <2>3, <2>4 DEF Start, Cleaning, CrashWorker, ListJobs, ReadRows, StartWorkers
  <2>5. ~CrashApi
    BY DEF CrashApi
  <2>6. QED  BY <2>1, <2>2, <2>4, <2>5 DEF Next
<1>2. QED  BY <1>1, AlwaysInv, PTL DEF Spec, JobRemovedForCause

-----------------------------------------------------------------------------
(* Schedules that do not fire.                                             *)

(* Why s may not fire; the failures are kept apart, since they only grow.  *)
Excused(s) ==
  \/ s \in repeatable \/ creator[s] = "register"
  \/ \E m \in Removers : remover[m].schedule = s
  \/ failures > 0 \/ s \in BadCron

(* A failed call is a cause for every schedule from then on.               *)
LEMMA FailureExcuses ==
  ASSUME Inv, NEW r \in Replies, Call(r)
  PROVE  failures' > 0 \/ (r = "ok" /\ failures' = failures)
BY DEF Inv, TypeOK, Call

LEMMA CreatingExcuses ==
  ASSUME Inv, SilentNeedsCause, NEW u \in Schedules, Creating(u),
         NEW s \in Schedules, row'[s] = "stored"
  PROVE  Excused(s)'
<1>0. /\ row \in [Schedules -> {"none", "stored", "deleted"}]
      /\ creator \in [Schedules -> {"idle", "register", "done", "error"}]
      /\ row[s] = "stored" => Excused(s)
  BY DEF Inv, TypeOK, SilentNeedsCause, Excused, Stored
<1>1. ASSUME NEW r \in Replies, InsertRow(u, r)
      PROVE  Excused(s)'
  BY <1>0, <1>1, FailureExcuses DEF InsertRow, Excused, OnReply
<1>2. ASSUME NEW r \in Replies, Register(u, r)
      PROVE  Excused(s)'
  BY <1>0, <1>2, FailureExcuses DEF Register, Excused, OnReply
<1>3. CASE RejectCron(u)
  BY <1>0, <1>3 DEF RejectCron, Excused
<1>4. QED  BY <1>1, <1>2, <1>3 DEF Creating

(* A removal that has taken the job away stays until it has deleted the    *)
(* row or found it deleted.                                                *)
LEMMA RemovingExcuses ==
  ASSUME Inv, SilentNeedsCause, NEW m \in Removers, Removing(m),
         NEW s \in Schedules, row'[s] = "stored"
  PROVE  Excused(s)'
<1>0. /\ row \in [Schedules -> {"none", "stored", "deleted"}]
      /\ remover \in [Removers -> Remover]
      /\ row[s] = "stored" => Excused(s)
  BY DEF Inv, TypeOK, SilentNeedsCause, Excused, Stored
<1>1. PICK u \in Schedules :
        \/ FindSchedule(m, u)
        \/ \E r \in Replies : Unregister(m, u, r) \/ CheckRow(m, u, r) \/ DeleteRow(m, u, r)
  BY DEF Removing
<1>2. CASE FindSchedule(m, u)
  <2>1. /\ remover[m].schedule # s
        /\ remover' = [remover EXCEPT ![m] = [pc |-> "unregister", schedule |-> u]]
        /\ UNCHANGED <<row, repeatable, creator, failures>>
    BY <1>0, <1>2 DEF FindSchedule, MoveTo, Remover, NoRequest, RemoverPc
  <2>2. \A k \in Removers : remover[k].schedule = s => remover'[k].schedule = s
    BY <1>0, <2>1
  <2>3. QED  BY <1>0, <2>1, <2>2 DEF Excused
<1>3. ASSUME NEW r \in Replies,
             Unregister(m, u, r) \/ CheckRow(m, u, r) \/ DeleteRow(m, u, r)
      PROVE  Excused(s)'
  <2>1. Call(r) /\ remover[m].schedule = u
    BY <1>3 DEF Unregister, CheckRow, DeleteRow, At
  <2>2. CASE failures' > 0
    BY <2>2 DEF Excused
  <2>3. CASE r = "ok" /\ failures' = failures
    <3>1. CASE u = s
      <4>1. ~DeleteRow(m, u, r)
        BY <1>0, <2>3, <3>1 DEF DeleteRow
      <4>2. row[s] = "stored"
        BY <1>3, <4>1 DEF Unregister, CheckRow
      <4>3. \E pc \in RemoverPc :
              remover' = [remover EXCEPT ![m] = [pc |-> pc, schedule |-> u]]
        BY <1>3, <2>3, <3>1, <4>1, <4>2
           DEF Unregister, CheckRow, MoveTo, OnReply, Stored, RemoverPc
      <4>4. remover'[m].schedule = s
        BY <1>0, <3>1, <4>3
      <4>5. QED  BY <4>4 DEF Excused
    <3>2. CASE u # s
      <4>1. \A k \in Removers : remover[k].schedule = s => remover'[k].schedule = s
        BY <1>0, <1>3, <2>1, <3>2 DEF Unregister, CheckRow, DeleteRow, MoveTo
      <4>2. row[s] = "stored" /\ creator' = creator /\ (s \in repeatable => s \in repeatable')
        BY <1>0, <1>3, <3>2 DEF Unregister, CheckRow, DeleteRow
      <4>3. QED  BY <1>0, <2>3, <4>1, <4>2 DEF Excused
    <3>3. QED  BY <3>1, <3>2
  <2>4. QED  BY <2>1, <2>2, <2>3, FailureExcuses
<1>4. QED  BY <1>1, <1>2, <1>3

(* A starting worker removes no job of a stored schedule, and a process    *)
(* that dies is a failure.                                                 *)
LEMMA OthersExcuse ==
  ASSUME Inv, SilentNeedsCause, NEW s \in Schedules, row'[s] = "stored",
         \/ CrashApi
         \/ \E w \in Workers : Start(w) \/ Cleaning(w) \/ CrashWorker(w)
  PROVE  Excused(s)'
<1>0. failures \in Nat /\ (row[s] = "stored" => Excused(s))
  BY DEF Inv, TypeOK, SilentNeedsCause, Excused, Stored
<1>1. CASE CrashApi \/ \E w \in Workers : CrashWorker(w)
  <2>1. failures' > 0
    BY <1>0, <1>1 DEF CrashApi, CrashWorker
  <2>2. QED  BY <2>1 DEF Excused
<1>2. ASSUME NEW w \in Workers, NEW j \in Schedules \cup Legacy, NEW r \in Replies,
             CleanJob(w, j, r)
      PROVE  Excused(s)'
  <2>1. row[s] = "stored" /\ UNCHANGED <<creator, remover>> /\ failures' >= failures
    BY <1>0, <1>2 DEF CleanJob, Call
  <2>2. CASE s = j
    <3>1. starter[w].pc = "clean" /\ s \in starter[w].listed /\ s \notin starter[w].known
      BY <1>2, <2>2 DEF CleanJob
    <3>2. QED  BY <2>1, <3>1 DEF Inv, ListedHadRow
  <2>3. CASE s # j
    <3>1. s \in repeatable => s \in repeatable'
      BY <1>2, <2>3 DEF CleanJob
    <3>2. failures > 0 => failures' > 0
      BY <1>0, <1>2 DEF CleanJob, Call
    <3>3. QED  BY <1>0, <2>1, <3>1, <3>2 DEF Excused
  <2>4. QED  BY <2>2, <2>3
<1>3. ASSUME NEW w \in Workers,
             \/ Start(w) \/ StartWorkers(w)
             \/ \E r \in Replies : ListJobs(w, r) \/ ReadRows(w, r)
      PROVE  Excused(s)'
  <2>1. UNCHANGED <<row, repeatable, creator, remover>>
    BY <1>3 DEF Start, StartWorkers, ListJobs, ReadRows
  <2>2. failures > 0 => failures' > 0
    BY <1>0, <1>3 DEF Start, StartWorkers, ListJobs, ReadRows, Call
  <2>3. QED  BY <1>0, <2>1, <2>2 DEF Excused
<1>4. QED  BY <1>1, <1>2, <1>3 DEF Cleaning

(* A schedule clients see and nobody is working on fires, unless a call    *)
(* failed, a process died, or the queue rejected its expression.           *)
THEOREM SilentAlwaysNeedsCause == Spec => []SilentNeedsCause
<1>1. Init => SilentNeedsCause
  BY DEF Init, SilentNeedsCause, Stored
<1>2. Inv /\ SilentNeedsCause /\ [Next]_vars => SilentNeedsCause'
  <2> SUFFICES ASSUME Inv, SilentNeedsCause, [Next]_vars PROVE SilentNeedsCause'
    OBVIOUS
  <2>1. CASE UNCHANGED vars
    BY <2>1 DEF vars, SilentNeedsCause, Stored
  <2>2. CASE Next
    <3>1. \A s \in Schedules : row'[s] = "stored" => Excused(s)'
      BY <2>2, CreatingExcuses, RemovingExcuses, OthersExcuse DEF Next
    <3>2. QED  BY <3>1 DEF SilentNeedsCause, Excused, Stored
  <2>3. QED  BY <2>1, <2>2
<1>3. QED  BY <1>1, <1>2, AlwaysInv, PTL DEF Spec
=============================================================================
