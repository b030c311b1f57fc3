----------------------------- MODULE Schedules -----------------------------
(***************************************************************************)
(* Cron schedules: a row in PostgreSQL for clients to see, and a           *)
(* repeatable job in Redis that fires.  Requests create and remove both,   *)
(* in opposite orders and with no transaction, while worker processes that *)
(* start clean up the repeatable jobs whose row they do not find.  One     *)
(* action is one awaited call.  What a firing does is in Executions.       *)
(***************************************************************************)
EXTENDS Naturals, FiniteSets

CONSTANTS
  Schedules,    \* schedule ids; the repeatable job of s has id schedule:s
  BadCron,      \* those whose cron expression the queue does not accept
  Legacy,       \* repeatable jobs of older versions, without such an id
  Removers,     \* handlers of DELETE requests
  Workers,      \* worker processes
  None,         \* no schedule
  MaxFailures   \* bound: calls that fail or lose their reply, and crashes

ASSUME SchedulesAssumption ==
  /\ BadCron \subseteq Schedules
  /\ Schedules \cap Legacy = {}
  /\ None \notin Schedules
  /\ MaxFailures \in Nat

VARIABLES
  row,         \* row[s]: "none", "stored" or "deleted"
  repeatable,  \* the repeatable jobs in Redis
  creator,     \* creator[s]: the handler in createWorkflowSchedule
  remover,     \* remover[m]: a handler in removeWorkflowSchedule
  starter,     \* starter[w]: a worker process in cleanOrphanedSchedules
  overlapped,  \* schedules whose removal began before their create was done
  failures     \* calls that failed and processes that died so far

vars == <<row, repeatable, creator, remover, starter, overlapped, failures>>

-----------------------------------------------------------------------------
RemoverPc == {"unregister", "check", "delete"}
StarterPc == {"list", "read", "clean"}

NoRequest == [pc |-> "idle", schedule |-> None]

Remover == {NoRequest} \cup [pc : RemoverPc, schedule : Schedules]

(* up and down are a worker that has started and one that has not.         *)
Starter == [pc : {"down", "up"} \cup StarterPc,
            listed : SUBSET (Schedules \cup Legacy), known : SUBSET Schedules]

Down == [pc |-> "down", listed |-> {}, known |-> {}]

Init ==
  /\ row = [s \in Schedules |-> "none"]
  /\ repeatable = Legacy
  /\ creator = [s \in Schedules |-> "idle"]
  /\ remover = [m \in Removers |-> NoRequest]
  /\ starter = [w \in Workers |-> Down]
  /\ overlapped = {}
  /\ failures = 0

Stored == {s \in Schedules : row[s] = "stored"}

(* As in Platform: a failed call had no effect or lost its reply.          *)
Replies == {"ok", "refused", "lost"}

Call(r) ==
  /\ r # "ok" => failures < MaxFailures
  /\ failures' = IF r = "ok" THEN failures ELSE failures + 1

OnReply(r, then, else) == IF r = "ok" THEN then ELSE else

-----------------------------------------------------------------------------
(* createWorkflowSchedule: the row, then the repeatable job.               *)

(* Mutant: the request is answered when the row is there.                  *)
InsertRowOnly(s, r) ==
  /\ creator[s] = "idle"
  /\ Call(r)
  /\ row' = IF r = "refused" THEN row ELSE [row EXCEPT ![s] = "stored"]
  /\ creator' = [creator EXCEPT ![s] = OnReply(r, "done", "error")]
  /\ UNCHANGED <<repeatable, remover, starter, overlapped>>

InsertRow(s, r) ==
  /\ creator[s] = "idle"
  /\ Call(r)
  /\ row' = IF r = "refused" THEN row ELSE [row EXCEPT ![s] = "stored"]
  /\ creator' = [creator EXCEPT ![s] = OnReply(r, "register", "error")]
  /\ UNCHANGED <<repeatable, remover, starter, overlapped>>

Register(s, r) ==
  /\ creator[s] = "register"
  /\ s \notin BadCron
  /\ Call(r)
  /\ repeatable' = IF r = "refused" THEN repeatable ELSE repeatable \cup {s}
  /\ creator' = [creator EXCEPT ![s] = OnReply(r, "done", "error")]
  /\ UNCHANGED <<row, remover, starter, overlapped>>

(* queue.add cannot parse the expression, of which the validation of the   *)
(* request only checks the length, and throws.                             *)
RejectCron(s) ==
  /\ creator[s] = "register"
  /\ s \in BadCron
  /\ creator' = [creator EXCEPT ![s] = "error"]
  /\ UNCHANGED <<row, repeatable, remover, starter, overlapped, failures>>

-----------------------------------------------------------------------------
(* removeWorkflowSchedule: the repeatable job, then the row.               *)

At(m, pc, s) == remover[m].pc = pc /\ remover[m].schedule = s

MoveTo(m, pc, s) ==
  remover' = [remover EXCEPT ![m] = IF pc = "idle" THEN NoRequest
                                    ELSE [pc |-> pc, schedule |-> s]]

FindSchedule(m, s) ==
  /\ remover[m].pc = "idle"
  /\ s \in Stored
  /\ MoveTo(m, "unregister", s)
  /\ overlapped' = IF creator[s] = "register" THEN overlapped \cup {s} ELSE overlapped
  /\ UNCHANGED <<row, repeatable, creator, starter, failures>>

(* Mutant: another key than the one the job was registered under.          *)
UnregisterOtherKey(m, s, r) ==
  /\ At(m, "unregister", s)
  /\ Call(r)
  /\ MoveTo(m, OnReply(r, "check", "idle"), s)
  /\ UNCHANGED <<row, repeatable, creator, starter, overlapped>>

Unregister(m, s, r) ==
  /\ At(m, "unregister", s)
  /\ Call(r)
  /\ repeatable' = IF r = "refused" THEN repeatable ELSE repeatable \ {s}
  /\ MoveTo(m, OnReply(r, "check", "idle"), s)
  /\ UNCHANGED <<row, creator, starter, overlapped>>

(* deleteSchedule looks the row up again before it deletes it.             *)
CheckRow(m, s, r) ==
  /\ At(m, "check", s)
  /\ Call(r)
  /\ MoveTo(m, IF r = "ok" /\ s \in Stored THEN "delete" ELSE "idle", s)
  /\ UNCHANGED <<row, repeatable, creator, starter, overlapped>>

(* A row another request has deleted meanwhile is an exception.            *)
DeleteRow(m, s, r) ==
  /\ At(m, "delete", s)
  /\ Call(r)
  /\ row' = IF r = "refused" THEN row ELSE [row EXCEPT ![s] = "deleted"]
  /\ MoveTo(m, "idle", s)
  /\ UNCHANGED <<repeatable, creator, starter, overlapped>>

-----------------------------------------------------------------------------
(* cleanOrphanedSchedules: the repeatable jobs, then the rows, and only    *)
(* then the removals.  An exception ends it, and the workers start.        *)

Start(w) ==
  /\ starter[w].pc \in {"down", "up"}
  /\ starter' = [starter EXCEPT ![w] = [Down EXCEPT !.pc = "list"]]
  /\ UNCHANGED <<row, repeatable, creator, remover, overlapped, failures>>

ListJobs(w, r) ==
  /\ starter[w].pc = "list"
  /\ Call(r)
  /\ starter' = [starter EXCEPT
       ![w] = IF r = "ok" THEN [pc |-> "read", listed |-> repeatable, known |-> {}]
                          ELSE [Down EXCEPT !.pc = "up"]]
  /\ UNCHANGED <<row, repeatable, creator, remover, overlapped>>

(* Mutant: rows that are only marked as deleted count.                     *)
ReadDeletedRows(w, r) ==
  /\ starter[w].pc = "read"
  /\ Call(r)
  /\ starter' = [starter EXCEPT
       ![w] = IF r = "ok" THEN [@ EXCEPT !.pc = "clean",
                                          !.known = {s \in Schedules : row[s] # "none"}]
                          ELSE [Down EXCEPT !.pc = "up"]]
  /\ UNCHANGED <<row, repeatable, creator, remover, overlapped>>

ReadRows(w, r) ==
  /\ starter[w].pc = "read"
  /\ Call(r)
  /\ starter' = [starter EXCEPT
       ![w] = IF r = "ok" THEN [@ EXCEPT !.pc = "clean", !.known = Stored]
                          ELSE [Down EXCEPT !.pc = "up"]]
  /\ UNCHANGED <<row, repeatable, creator, remover, overlapped>>

CleanJob(w, j, r) ==
  /\ starter[w].pc = "clean"
  /\ j \in starter[w].listed \ starter[w].known
  /\ Call(r)
  /\ repeatable' = IF r = "refused" THEN repeatable ELSE repeatable \ {j}
  /\ starter' = [starter EXCEPT
       ![w] = IF r = "ok" THEN [starter[w] EXCEPT !.listed = @ \ {j}]
                          ELSE [Down EXCEPT !.pc = "up"]]
  /\ UNCHANGED <<row, creator, remover, overlapped>>

StartWorkers(w) ==
  /\ starter[w].pc = "clean"
  /\ starter[w].listed \subseteq starter[w].known
  /\ starter' = [starter EXCEPT ![w] = [Down EXCEPT !.pc = "up"]]
  /\ UNCHANGED <<row, repeatable, creator, remover, overlapped, failures>>

-----------------------------------------------------------------------------
(* A process dies: the API with its requests, or a worker.                 *)

CrashApi ==
  /\ failures < MaxFailures
  /\ creator' = [s \in Schedules |-> IF creator[s] = "register" THEN "error" ELSE creator[s]]
  /\ remover' = [m \in Removers |-> NoRequest]
  /\ <<creator', remover'>> # <<creator, remover>>
  /\ failures' = failures + 1
  /\ UNCHANGED <<row, repeatable, starter, overlapped>>

CrashWorker(w) ==
  /\ failures < MaxFailures
  /\ starter[w].pc \in StarterPc
  /\ starter' = [starter EXCEPT ![w] = Down]
  /\ failures' = failures + 1
  /\ UNCHANGED <<row, repeatable, creator, remover, overlapped>>

-----------------------------------------------------------------------------
Creating(s) ==
  RejectCron(s) \/ \E r \in Replies : InsertRow(s, r) \/ Register(s, r)

Removing(m) ==
  \E s \in Schedules :
    \/ FindSchedule(m, s)
    \/ \E r \in Replies : Unregister(m, s, r) \/ CheckRow(m, s, r) \/ DeleteRow(m, s, r)

(* Mutant: the rows are read before the jobs are listed.                   *)
ReadRowsFirst(w) ==
  /\ starter[w].pc = "list"
  /\ starter' = [starter EXCEPT ![w] = [pc |-> "read", listed |-> {}, known |-> Stored]]
  /\ UNCHANGED <<row, repeatable, creator, remover, overlapped, failures>>

ListJobsThen(w) ==
  /\ starter[w].pc = "read"
  /\ starter' = [starter EXCEPT ![w] = [@ EXCEPT !.pc = "clean", !.listed = repeatable]]
  /\ UNCHANGED <<row, repeatable, creator, remover, overlapped, failures>>

CleaningRowsFirst(w) ==
  \/ ReadRowsFirst(w) \/ ListJobsThen(w) \/ StartWorkers(w)
  \/ \E r \in Replies : \E j \in Schedules \cup Legacy : CleanJob(w, j, r)

Cleaning(w) ==
  \/ \E r \in Replies :
       \/ ListJobs(w, r) \/ ReadRows(w, r)
       \/ \E j \in Schedules \cup Legacy : CleanJob(w, j, r)
  \/ StartWorkers(w)

Next ==
  \/ \E s \in Schedules : Creating(s)
  \/ \E m \in Removers : Removing(m)
  \/ \E w \in Workers : Start(w) \/ Cleaning(w) \/ CrashWorker(w)
  \/ CrashApi

Spec == Init /\ [][Next]_vars

(* A worker that has begun to start goes on.                               *)
FairSpec == Spec /\ \A w \in Workers : WF_vars(Cleaning(w))

-----------------------------------------------------------------------------
(* Properties.                                                             *)

(* Rows, requests and starting workers have their shapes.                  *)
TypeOK ==
  /\ row \in [Schedules -> {"none", "stored", "deleted"}]
  /\ repeatable \subseteq Schedules \cup Legacy
  /\ creator \in [Schedules -> {"idle", "register", "done", "error"}]
  /\ remover \in [Removers -> Remover]
  /\ starter \in [Workers -> Starter]
  /\ overlapped \subseteq Schedules
  /\ failures \in 0..MaxFailures

(* A deleted schedule goes on firing only if its removal overtook its own  *)
(* create: no failed call or crash, and no second removal, leaves a        *)
(* repeatable job without a row.                                           *)
OrphanNeedsOverlap ==
  \A s \in Schedules : row[s] = "deleted" /\ s \in repeatable => s \in overlapped

(* A schedule clients see and that nobody is working on fires, unless a    *)
(* call failed or a process died, or its expression was not accepted.      *)
SilentNeedsCause ==
  \A s \in Stored :
    \/ s \in repeatable \/ creator[s] = "register"
    \/ \E m \in Removers : remover[m].schedule = s
    \/ failures > 0 \/ s \in BadCron

(* A repeatable job is removed only for a deleted row, or by a request     *)
(* that removes that schedule: a worker that starts while a schedule is    *)
(* being created never takes it for an orphan.                             *)
JobRemovedForCause ==
  [][\A s \in Schedules : s \in repeatable /\ s \notin repeatable' =>
       row[s] = "deleted" \/ \E m \in Removers : At(m, "unregister", s)]_vars

(* An orphan, or a job of an older version, that is there when a worker    *)
(* starts is gone before it works, unless a call fails or it dies.         *)
OrphansCleaned ==
  \A w \in Workers : \A j \in Schedules \cup Legacy :
    starter[w].pc = "list" /\ j \in repeatable
      /\ (j \in Legacy \/ \E s \in Schedules : s = j /\ row[s] = "deleted")
    ~> j \notin repeatable \/ failures > 0

-----------------------------------------------------------------------------
(* The inductive invariant behind the theorems of SchedulesProofs.         *)

(* The row comes first, and is inserted once.                              *)
RowFirst ==
  \A s \in Schedules :
    /\ creator[s] = "idle" => row[s] = "none"
    /\ s \in repeatable \/ creator[s] = "register" => row[s] # "none"
    /\ creator[s] = "register" /\ row[s] = "deleted" => s \in overlapped

(* A removal works on a row that was there; past its own call to the queue *)
(* only an overlapping create can have brought the job back.               *)
RemovalFollowsRow ==
  \A m \in Removers : \A s \in Schedules :
    remover[m].schedule = s =>
      /\ row[s] # "none"
      /\ creator[s] = "register" => s \in overlapped
      /\ s \in repeatable /\ remover[m].pc \in {"check", "delete"} => s \in overlapped

(* What a starting worker listed had a row before, and what it will remove *)
(* has none now.                                                           *)
ListedHadRow ==
  \A w \in Workers : \A s \in starter[w].listed \cap Schedules :
    /\ row[s] # "none"
    /\ starter[w].pc = "clean" /\ s \notin starter[w].known => row[s] = "deleted"

Inv == TypeOK /\ RowFirst /\ RemovalFollowsRow /\ ListedHadRow /\ OrphanNeedsOverlap
=============================================================================
