-------------------------- MODULE DocumentIndexing --------------------------
(***************************************************************************)
(* Documents of a knowledge base: the request that uploads one, the job    *)
(* that parses, embeds and stores its chunks, and the request that deletes *)
(* it, over three stores with no transaction among them: files, rows and   *)
(* the indexing queue.  One action is one awaited call (see Platform).     *)
(***************************************************************************)
EXTENDS Platform

CONSTANTS
  Docs,        \* document ids; the index-document job of d is named d
  NumChunks    \* how many chunks the text of a document is cut into

ASSUME DocumentsAssumption ==
  /\ None \notin Docs
  /\ NumChunks \in Nat

VARIABLES
  file,      \* file[d]: the file at the storage key of d
  doc,       \* doc[d]: the documents row of d
  chunks,    \* chunks[d][i]: the document_chunks rows of d with chunkIndex i
  upload,    \* upload[d]: the request handler in uploadDocument
  removal,   \* removal[d]: the request handler in deleteDocument
  slot       \* slot[s]: the indexing processor in slot s

vars == <<file, doc, chunks, upload, removal, slot, job,
          failedCalls, crashes, lockLosses>>

-----------------------------------------------------------------------------
(* State.                                                                  *)

Positions == 1..NumChunks

Outcomes == {"READY", "FAILED"}

Doc == [status : {"NONE", "PENDING", "PROCESSING"} \cup Outcomes, deleted : BOOLEAN]

NoDoc == [status |-> "NONE", deleted |-> FALSE]

(* pc of a processor: the call it is about to make; next is the index of   *)
(* the loop over the chunks.                                               *)
WritePc == {"insert", "store"}
SlotPc  == {"idle", "markProcessing", "read", "parse", "embed", "markReady",
            "catch", "complete", "throw"} \cup WritePc

Slot == [pc : SlotPc, doc : Docs \cup {None}, next : Nat]

Idle == [pc |-> "idle", doc |-> None, next |-> 0]

Busy(s) == slot[s].pc # "idle"

Init ==
  /\ file = [d \in Docs |-> "none"]
  /\ doc = [d \in Docs |-> NoDoc]
  /\ chunks = [d \in Docs |-> [i \in Positions |-> [rows |-> 0, vectors |-> 0]]]
  /\ upload = [d \in Docs |-> "idle"]
  /\ removal = [d \in Docs |-> "idle"]
  /\ slot = [s \in Slots |-> Idle]
  /\ job = [d \in Docs |-> NoJob]
  /\ failedCalls = 0 /\ crashes = 0 /\ lockLosses = 0

SetStatus(r, d, status) ==
  doc' = IF r = "refused" THEN doc ELSE [doc EXCEPT ![d].status = status]

GoTo(s, pc) == slot' = [slot EXCEPT ![s].pc = pc]

-----------------------------------------------------------------------------
(* uploadDocument: the file, then the row, then the job.                   *)

UploadFile(d, r) ==
  /\ upload[d] = "idle"
  /\ Call(r)
  /\ file' = IF r = "refused" THEN file ELSE [file EXCEPT ![d] = "stored"]
  /\ upload' = [upload EXCEPT ![d] = OnReply(r, "create", "error")]
  /\ UNCHANGED <<doc, chunks, removal, slot, job>>

UploadCreate(d, r) ==
  /\ upload[d] = "create"
  /\ Call(r)
  /\ SetStatus(r, d, "PENDING")
  /\ upload' = [upload EXCEPT ![d] = OnReply(r, "enqueue", "error")]
  /\ UNCHANGED <<file, chunks, removal, slot, job>>

UploadEnqueue(d, r) ==
  /\ upload[d] = "enqueue"
  /\ Call(r)
  /\ AddJob(r, d)
  /\ upload' = [upload EXCEPT ![d] = OnReply(r, "accepted", "error")]
  /\ UNCHANGED <<file, doc, chunks, removal, slot>>

-----------------------------------------------------------------------------
(* deleteDocument: the row is marked, then the file is unlinked; an error  *)
(* of unlink is taken for success.  The chunks stay.                       *)

Deletable(d) == doc[d].status # "NONE" /\ ~doc[d].deleted

(* Mutant: the file goes first.                                            *)
UnlinkAndSoftDelete(d, r) ==
  /\ removal[d] \in {"idle", "error"}
  /\ Deletable(d)
  /\ Call(r)
  /\ file' = [file EXCEPT ![d] = "removed"]
  /\ doc' = IF r = "refused" THEN doc ELSE [doc EXCEPT ![d].deleted = TRUE]
  /\ removal' = [removal EXCEPT ![d] = OnReply(r, "done", "error")]
  /\ UNCHANGED <<chunks, upload, slot, job>>

SoftDelete(d, r) ==
  /\ removal[d] \in {"idle", "error"}
  /\ Deletable(d)
  /\ Call(r)
  /\ doc' = IF r = "refused" THEN doc ELSE [doc EXCEPT ![d].deleted = TRUE]
  /\ removal' = [removal EXCEPT ![d] = OnReply(r, "unlink", "error")]
  /\ UNCHANGED <<file, chunks, upload, slot, job>>

Unlink(d, r) ==
  /\ removal[d] = "unlink"
  /\ Call(r)
  /\ file' = IF r = "refused" THEN file ELSE [file EXCEPT ![d] = "removed"]
  /\ removal' = [removal EXCEPT ![d] = "done"]
  /\ UNCHANGED <<doc, chunks, upload, slot, job>>

-----------------------------------------------------------------------------
(* BullMQ.                                                                 *)

TakeJob(s, d) ==
  /\ ~Busy(s)
  /\ job[d].state = "wait"
  /\ GiveJob(d, s)
  /\ slot' = [slot EXCEPT ![s] = [pc |-> "markProcessing", doc |-> d, next |-> 1]]
  /\ UNCHANGED <<file, doc, chunks, upload, removal>>
  /\ UNCHANGED disturbances

PromoteDelayed(d) ==
  /\ Promote(d)
  /\ UNCHANGED <<file, doc, chunks, upload, removal, slot>>
  /\ UNCHANGED disturbances

RecoverStalled(d) ==
  /\ job[d].state = "active"
  /\ slot[job[d].lock].doc # d
  /\ Stall(d)
  /\ UNCHANGED <<file, doc, chunks, upload, removal, slot>>
  /\ UNCHANGED disturbances

LoseLock(d) ==
  /\ lockLosses < MaxLockLosses
  /\ job[d].state = "active"
  /\ slot[job[d].lock].doc = d
  /\ Stall(d)
  /\ lockLosses' = lockLosses + 1
  /\ UNCHANGED <<file, doc, chunks, upload, removal, slot, failedCalls, crashes>>

-----------------------------------------------------------------------------
(* processIndexingJob.                                                     *)

(* Outside the try block.                                                  *)
MarkProcessing(s, r) ==
  /\ slot[s].pc = "markProcessing"
  /\ Call(r)
  /\ SetStatus(r, slot[s].doc, "PROCESSING")
  /\ GoTo(s, OnReply(r, "read", "throw"))
  /\ UNCHANGED <<file, chunks, upload, removal, job>>

(* The row is read, which a soft delete does not prevent, and its file.    *)
ReadFile(s, r) ==
  /\ slot[s].pc = "read"
  /\ Call(r)
  /\ GoTo(s, IF r = "ok" /\ file[slot[s].doc] = "stored" THEN "parse" ELSE "catch")
  /\ UNCHANGED <<file, doc, chunks, upload, removal, job>>

(* What the parser makes of the bytes: a text, or an exception.            *)
Parse(s) ==
  /\ slot[s].pc = "parse"
  /\ \E next \in {"embed", "catch"} : GoTo(s, next)
  /\ UNCHANGED <<file, doc, chunks, upload, removal, job>>
  /\ UNCHANGED disturbances

(* The loop over the chunks, from position n on.                           *)
Loop(n) == IF n \in Positions THEN "insert" ELSE "markReady"

(* One call to the provider per chunk; nothing is written before the last. *)
EmbedChunks(s, r) ==
  /\ slot[s].pc = "embed"
  /\ Call(r)
  /\ GoTo(s, OnReply(r, Loop(1), "catch"))
  /\ UNCHANGED <<file, doc, chunks, upload, removal, job>>

InsertChunk(s, r) ==
  /\ slot[s].pc = "insert"
  /\ Call(r)
  /\ chunks' = IF r = "refused" THEN chunks
               ELSE [chunks EXCEPT ![slot[s].doc][slot[s].next].rows = @ + 1]
  /\ GoTo(s, OnReply(r, "store", "catch"))
  /\ UNCHANGED <<file, doc, upload, removal, job>>

(* Mutant: storeEmbedding is not awaited, and its failure not noticed.     *)
StoreUnawaited(s, r) ==
  /\ slot[s].pc = "store"
  /\ Call(r)
  /\ chunks' = IF r = "refused" THEN chunks
               ELSE [chunks EXCEPT ![slot[s].doc][slot[s].next].vectors = @ + 1]
  /\ slot' = [slot EXCEPT ![s] = [@ EXCEPT !.pc = Loop(slot[s].next + 1),
                                           !.next = slot[s].next + 1]]
  /\ UNCHANGED <<file, doc, upload, removal, job>>

StoreEmbedding(s, r) ==
  /\ slot[s].pc = "store"
  /\ Call(r)
  /\ chunks' = IF r = "refused" THEN chunks
               ELSE [chunks EXCEPT ![slot[s].doc][slot[s].next].vectors = @ + 1]
  /\ slot' = [slot EXCEPT ![s] = [@ EXCEPT !.pc = OnReply(r, Loop(slot[s].next + 1), "catch"),
                                           !.next = slot[s].next + 1]]
  /\ UNCHANGED <<file, doc, upload, removal, job>>

(* Mutant: an exception after the update, still in the try block.          *)
MarkReadyThenThrow(s, r) ==
  /\ slot[s].pc = "markReady"
  /\ Call(r)
  /\ SetStatus(r, slot[s].doc, "READY")
  /\ GoTo(s, "catch")
  /\ UNCHANGED <<file, chunks, upload, removal, job>>

MarkReady(s, r) ==
  /\ slot[s].pc = "markReady"
  /\ Call(r)
  /\ SetStatus(r, slot[s].doc, "READY")
  /\ GoTo(s, OnReply(r, "complete", "catch"))
  /\ UNCHANGED <<file, chunks, upload, removal, job>>

(* Mutant: the catch block only throws again.                              *)
CatchRethrow(s, r) ==
  /\ slot[s].pc = "catch"
  /\ Call(r)
  /\ GoTo(s, "throw")
  /\ UNCHANGED <<file, doc, chunks, upload, removal, job>>

CatchMarkFailed(s, r) ==
  /\ slot[s].pc = "catch"
  /\ Call(r)
  /\ SetStatus(r, slot[s].doc, "FAILED")
  /\ GoTo(s, "throw")
  /\ UNCHANGED <<file, chunks, upload, removal, job>>

Return(s, pc, state) ==
  /\ slot[s].pc = pc
  /\ EndAttempt(s, slot[s].doc, state)
  /\ slot' = [slot EXCEPT ![s] = Idle]
  /\ UNCHANGED <<file, doc, chunks, upload, removal>>
  /\ UNCHANGED disturbances

CompleteJob(s) == Return(s, "complete", "completed")

FailAttempt(s) == Return(s, "throw", RetryOrFail(slot[s].doc))

-----------------------------------------------------------------------------
(* similaritySearch returns the chunks that have a vector, of documents    *)
(* that are not deleted: how often it finds chunk i of d.                  *)
Found(d, i) == IF doc[d].deleted THEN 0 ELSE chunks[d][i].vectors

CutOff(request) ==
  [d \in Docs |-> IF request[d] \in {"create", "enqueue", "unlink"} THEN "error"
                                                                    ELSE request[d]]

Crash(p) ==
  /\ crashes < MaxCrashes
  /\ \/ \E s \in Slots : ProcOf[s] = p /\ Busy(s)
     \/ p = ApiProc /\ \E d \in Docs : upload[d] \in {"create", "enqueue"}
     \/ p = ApiProc /\ \E d \in Docs : removal[d] = "unlink"
  /\ slot' = [s \in Slots |-> IF ProcOf[s] = p THEN Idle ELSE slot[s]]
  /\ upload' = IF p = ApiProc THEN CutOff(upload) ELSE upload
  /\ removal' = IF p = ApiProc THEN CutOff(removal) ELSE removal
  /\ crashes' = crashes + 1
  /\ UNCHANGED <<file, doc, chunks, job, failedCalls, lockLosses>>

(* Every upload has been answered and every job is settled.                *)
Quiescent ==
  /\ \A d \in Docs : /\ upload[d] \in {"accepted", "error"}
                     /\ removal[d] # "unlink"
                     /\ job[d].state = "none" \/ Settled(d)
  /\ \A s \in Slots : ~Busy(s)
  /\ UNCHANGED vars

-----------------------------------------------------------------------------
Requests(d) ==
  \E r \in Replies :
    \/ UploadCreate(d, r) \/ UploadEnqueue(d, r) \/ Unlink(d, r)

Processing(s) ==
  \/ \E r \in Replies :
       \/ MarkProcessing(s, r) \/ ReadFile(s, r) \/ EmbedChunks(s, r)
       \/ InsertChunk(s, r) \/ StoreEmbedding(s, r)
       \/ MarkReady(s, r) \/ CatchMarkFailed(s, r)
  \/ Parse(s) \/ CompleteJob(s) \/ FailAttempt(s)

Queueing(d) ==
  \/ \E s \in Slots : TakeJob(s, d)
  \/ PromoteDelayed(d) \/ RecoverStalled(d) \/ LoseLock(d)

Next ==
  \/ \E d \in Docs : \E r \in Replies : UploadFile(d, r) \/ SoftDelete(d, r)
  \/ \E d \in Docs : Requests(d)
  \/ \E s \in Slots : Processing(s)
  \/ \E d \in Docs : Queueing(d)
  \/ \E p \in Procs : Crash(p)
  \/ Quiescent

(* As in Executions: handlers and processors of a live process go on,      *)
(* waiting jobs are taken, timers fire.  Nobody has to upload or delete.   *)
Fairness ==
  /\ \A d \in Docs : /\ WF_vars(Requests(d))
                     /\ WF_vars(\E s \in Slots : TakeJob(s, d))
                     /\ WF_vars(PromoteDelayed(d))
                     /\ WF_vars(RecoverStalled(d))
  /\ \A s \in Slots : WF_vars(Processing(s))

Spec == Init /\ [][Next]_vars

FairSpec == Spec /\ Fairness

-----------------------------------------------------------------------------
(* Properties.                                                             *)

(* Rows, files, requests and processors have their shapes.                 *)
TypeOK ==
  /\ file \in [Docs -> {"none", "stored", "removed"}]
  /\ doc \in [Docs -> Doc]
  /\ chunks \in [Docs -> [Positions -> [rows : Nat, vectors : Nat]]]
  /\ upload \in [Docs -> {"idle", "create", "enqueue", "accepted", "error"}]
  /\ removal \in [Docs -> {"idle", "unlink", "done", "error"}]
  /\ slot \in [Slots -> Slot]
  /\ job \in [Docs -> Job]
  /\ failedCalls \in Nat /\ crashes \in Nat /\ lockLosses \in Nat

(* A document that says READY has a vector for every chunk of its text,    *)
(* whatever failed, was retried or ran twice at once before.               *)
ReadyIsComplete ==
  \A d \in Docs : doc[d].status = "READY" =>
    \A i \in Positions : chunks[d][i].vectors > 0

(* A document a client can still see has its file, so that a retry can     *)
(* read it: the file is stored before the row and unlinked after its mark. *)
DocumentHasFile == \A d \in Docs : Deletable(d) => file[d] = "stored"

(* A file no document leads to, or a document nobody will finish, is left  *)
(* behind only by a failed call, a crash or a lost lock; and once the      *)
(* document has reached the queue a crash is not enough, as long as there  *)
(* are no more of them than maxStalledCount.                               *)
Unfinished(d) == doc[d].status \in {"PENDING", "PROCESSING"}

LeftoverNeedsFailure ==
  \A d \in Docs :
    /\ /\ file[d] = "stored" /\ ~Deletable(d)
       /\ upload[d] # "create" /\ removal[d] # "unlink"
       => Disturbed
    /\ Unfinished(d) /\ upload[d] # "enqueue" /\ job[d].state = "none"
         => failedCalls > 0 \/ crashes > 0
    /\ Unfinished(d) /\ Settled(d)
         => failedCalls > 0 \/ lockLosses > 0 \/ crashes > MaxStalled

(* What a search finds goes by what is stored, not by the status.  While   *)
(* nothing has gone wrong the two agree: a READY document is found, each   *)
(* chunk once, one that waits or FAILED is not found at all, although it   *)
(* is tried again after a failure, and deleted at any moment.              *)
SearchFollowsStatus ==
  ~Disturbed => \A d \in Docs : \A i \in Positions :
    /\ doc[d].status = "READY" /\ ~doc[d].deleted => Found(d, i) = 1
    /\ doc[d].status \in {"PENDING", "FAILED"} => Found(d, i) = 0
    /\ Found(d, i) <= 1

(* The status column implements the lifecycle a polling client is promised.*)
LifecycleStatus(status) ==
  IF status = "PROCESSING" THEN "RUNNING"
  ELSE IF status = "READY" THEN "SUCCESS" ELSE status

Lifecycle == INSTANCE RowLifecycle
  WITH Items <- Docs, disturbed <- Disturbed,
       status <- [d \in Docs |-> LifecycleStatus(doc[d].status)]

ImplementsLifecycle == Lifecycle!Spec

(* An accepted document becomes READY or FAILED, deleted meanwhile or not, *)
(* unless calls fail or locks are lost, or workers die more often than     *)
(* stalls are tolerated.                                                   *)
AcceptedGetsOutcome ==
  \A d \in Docs : upload[d] = "accepted" ~>
    \/ doc[d].status \in Outcomes
    \/ failedCalls > 0 \/ lockLosses > 0 \/ crashes > MaxStalled

(* How many calls of its processor are before a slot, the rounds of its    *)
(* loop that are left included.                                            *)
CallsLeft(sl) ==
  CASE sl.pc = "idle" -> 0
    [] sl.pc \in {"complete", "throw"} -> 1
    [] sl.pc = "catch" -> 2
    [] sl.pc = "markReady" -> 3
    [] sl.pc = "store" -> 2 * (NumChunks - sl.next) + 4
    [] sl.pc = "insert" -> 2 * (NumChunks - sl.next) + 5
    [] sl.pc = "embed" -> 2 * NumChunks + 4
    [] sl.pc = "parse" -> 2 * NumChunks + 5
    [] sl.pc = "read" -> 2 * NumChunks + 6
    [] sl.pc = "markProcessing" -> 2 * NumChunks + 7

(* As in Executions: jobs and processors come to an end, whatever fails.   *)
WorkRunsOut ==
  [][ /\ \A d \in Docs : job'[d] # job[d] => Lower(job'[d], job[d])
      /\ \A s \in Slots : slot'[s] # slot[s] =>
           \/ CallsLeft(slot'[s]) < CallsLeft(slot[s])
           \/ \E d \in Docs : job'[d] # job[d] /\ job'[d].lock = s ]_vars

(* queues/index.ts says of this queue "Retries are safe (idempotent)": a   *)
(* retry inserts again the chunks the failed attempt had inserted.         *)
RetriesIdempotent ==
  \A d \in Docs : \A i \in Positions : chunks[d][i].rows <= 1

-----------------------------------------------------------------------------
(* The inductive invariant behind the theorems of DocumentIndexingProofs.  *)

(* A job that may run has attempts left, and an active one has a slot.     *)
Budgets ==
  \A d \in Docs :
    /\ job[d].state \in {"wait", "active", "delayed"} =>
         job[d].made < MaxAttempts /\ job[d].stalls <= MaxStalled
    /\ job[d].state = "active" => job[d].lock \in Slots

(* A busy slot works on a document that has its row, and past its first    *)
(* call on one whose row says that it has been started.                    *)
Serving ==
  \A s \in Slots :
    /\ Busy(s) => slot[s].doc \in Docs /\ doc[slot[s].doc].status # "NONE"
    /\ ~Busy(s) => slot[s].doc = None
    /\ Busy(s) /\ slot[s].pc \notin {"markProcessing", "throw"} =>
         doc[slot[s].doc].status # "PENDING"

(* What requests leave of a document, in their order.                      *)
RequestOrder(d) ==
  /\ doc[d].status = "NONE" => /\ ~doc[d].deleted /\ job[d].state = "none"
                               /\ upload[d] \in {"idle", "create", "error"}
  /\ doc[d].status # "NONE" => file[d] # "none"
  /\ upload[d] = "idle" => doc[d].status = "NONE"
  /\ upload[d] = "create" => doc[d].status = "NONE" /\ file[d] = "stored"
  /\ upload[d] = "enqueue" => job[d].state = "none"
  /\ file[d] = "removed" \/ removal[d] = "unlink" => doc[d].deleted

RequestsInOrder == \A d \in Docs : RequestOrder(d)

(* The position of a processor in its loop tells what lies behind it.      *)
Positioned(s) ==
  /\ slot[s].pc \in {"markProcessing", "read", "parse", "embed"} => slot[s].next = 1
  /\ slot[s].pc \in WritePc => slot[s].next \in Positions
  /\ slot[s].pc = "markReady" => slot[s].next = NumChunks + 1
  /\ slot[s].pc \in WritePc \cup {"markReady"} =>
       \A i \in Positions : i < slot[s].next => chunks[slot[s].doc][i].vectors > 0

LoopsInOrder == \A s \in Slots : Positioned(s)

(* The rest holds until something goes wrong.                              *)

(* Slots and active jobs match.                                            *)
OneProcessor ==
  ~Disturbed =>
    /\ \A s \in Slots : Busy(s) => HasLock(s, slot[s].doc)
    /\ \A d \in Docs : job[d].state = "active" => slot[job[d].lock].doc = d

(* Chunks of d before r have their row and those before v their vector,    *)
(* once; the others have none.                                             *)
Stored(d, r, v) ==
  \A i \in Positions : /\ chunks[d][i].rows = IF i < r THEN 1 ELSE 0
                       /\ chunks[d][i].vectors = IF i < v THEN 1 ELSE 0

StatusAt(pc) ==
  IF pc = "markProcessing" THEN {"PENDING", "FAILED"}
  ELSE IF pc = "complete" THEN {"READY"}
  ELSE IF pc = "throw" THEN {"FAILED"} ELSE {"PROCESSING"}

Accurate(s) ==
  Busy(s) =>
    /\ doc[slot[s].doc].status \in StatusAt(slot[s].pc)
    /\ slot[s].pc \in {"catch", "throw"} => slot[s].next = 1
    /\ slot[s].pc = "complete" => slot[s].next = NumChunks + 1
    /\ Stored(slot[s].doc,
              IF slot[s].pc = "store" THEN slot[s].next + 1 ELSE slot[s].next,
              slot[s].next)

SlotsAccurate == ~Disturbed => \A s \in Slots : Accurate(s)

Awaiting(d) ==
  /\ job[d].state = "none" => /\ Stored(d, 1, 1)
                              /\ \/ doc[d].status = "NONE"
                                 \/ doc[d].status = "PENDING" /\ upload[d] = "enqueue"
  /\ job[d].state \in {"wait", "delayed"} =>
       Stored(d, 1, 1) /\ doc[d].status \in {"PENDING", "FAILED"}
  /\ job[d].state = "failed" => Stored(d, 1, 1) /\ doc[d].status = "FAILED"
  /\ job[d].state = "completed" =>
       Stored(d, NumChunks + 1, NumChunks + 1) /\ doc[d].status = "READY"

QueueAccurate == ~Disturbed => \A d \in Docs : Awaiting(d)

FilesKept ==
  ~Disturbed => \A d \in Docs :
    /\ upload[d] # "error"
    /\ upload[d] = "idle" => file[d] = "none"
    /\ file[d] = "stored" /\ doc[d].deleted => removal[d] = "unlink"

Inv ==
  /\ TypeOK /\ Budgets /\ Serving /\ RequestsInOrder /\ LoopsInOrder
  /\ ReadyIsComplete
  /\ OneProcessor /\ SlotsAccurate /\ QueueAccurate /\ FilesKept

-----------------------------------------------------------------------------
(* On top of Inv: what LeftoverNeedsFailure says of crashes rests on.      *)

(* An accepted upload has its job, and what goes wrong with one is no lock.*)
UploadsAnswered ==
  \A d \in Docs :
    /\ upload[d] = "accepted" => job[d].state # "none"
    /\ upload[d] = "error" => failedCalls > 0 \/ crashes > 0

(* As long as no lock is lost under a live processor, a slot that works on *)
(* a document holds its job, and each stall of the job, the next one       *)
(* included, took a crash.                                                 *)
Abandoned(d) == job[d].state = "active" /\ slot[job[d].lock].doc # d

StallsTakeCrashes ==
  lockLosses = 0 =>
    /\ \A s \in Slots : Busy(s) => HasLock(s, slot[s].doc)
    /\ \A d \in Docs : /\ job[d].stalls <= crashes
                       /\ Abandoned(d) => job[d].stalls < crashes

(* And if no call fails either, an attempt ends with an outcome written.   *)
EndsWithOutcome ==
  failedCalls = 0 /\ lockLosses = 0 =>
    /\ \A s \in Slots : slot[s].pc \in {"complete", "throw"} =>
         doc[slot[s].doc].status \in Outcomes
    /\ \A d \in Docs : Settled(d) =>
         doc[d].status \in Outcomes \/ job[d].stalls > MaxStalled

Accountable == UploadsAnswered /\ StallsTakeCrashes /\ EndsWithOutcome
=============================================================================
