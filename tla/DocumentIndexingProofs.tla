----------------------- MODULE DocumentIndexingProofs -----------------------
(***************************************************************************)
(* For any number of documents, chunks, processors and processes, any      *)
(* attempt and stall limits and any bounds on what goes wrong: READY means *)
(* complete, a document has its file, what is left behind and what a       *)
(* search finds against the status needs a failure, and DocumentIndexing   *)
(* implements RowLifecycle.                                                *)
(*                                                                         *)
(* The inductive invariant Inv says what requests leave in their order     *)
(* (RequestsInOrder), what lies behind a processor in its loop             *)
(* (LoopsInOrder), and, until something goes wrong, that slots and active  *)
(* jobs match one to one (OneProcessor), so that each document's row and   *)
(* chunks are where its processor or its job left them (SlotsAccurate,     *)
(* QueueAccurate).  One lemma below per action, one step in it per         *)
(* conjunct.                                                               *)
(*                                                                         *)
(* Accountable, inductive on top of Inv, says that without a lost lock     *)
(* each stall took a crash, which LeftoverNeedsFailure needs.  The last    *)
(* part proves WorkRunsOut.                                                *)
(***************************************************************************)
EXTENDS DocumentIndexing, TLAPS

USE DocumentsAssumption, PlatformAssumption

-----------------------------------------------------------------------------
(* A busy slot works on a document that has its row. *)
LEMMA OwnDocument ==
  ASSUME Inv, NEW s \in Slots, Busy(s)
  PROVE  slot[s].doc \in Docs /\ doc[slot[s].doc].status # "NONE"
BY DEF Inv, Serving

(* Disturbances are never forgotten. *)
LEMMA CallDisturbs ==
  ASSUME Inv, NEW r \in Replies, Call(r)
  PROVE  /\ Disturbed => Disturbed'
         /\ r # "ok" => Disturbed'
BY DEF Inv, TypeOK, Call, Disturbed, Replies

(* A slot that goes on keeps its type. *)
LEMMA GoToType ==
  ASSUME TypeOK, NEW s \in Slots, NEW pc \in SlotPc, GoTo(s, pc)
  PROVE  slot' \in [Slots -> Slot]
<1>1. [slot[s] EXCEPT !.pc = pc] \in Slot
  <2>1. slot[s] \in Slot
    BY DEF TypeOK
  <2>2. QED  BY <2>1 DEF Slot
<1>2. slot' = [slot EXCEPT ![s] = [slot[s] EXCEPT !.pc = pc]]
  BY DEF GoTo
<1> HIDE DEF Slot
<1>3. QED  BY <1>1, <1>2 DEF TypeOK

LEMMA SlotMoves ==
  ASSUME NEW t \in Slot, NEW pc \in SlotPc
  PROVE  [t EXCEPT !.pc = pc, !.next = @ + 1] \in Slot
<1>1. ASSUME NEW n \in Nat  PROVE [t EXCEPT !.pc = pc, !.next = n] \in Slot
  BY DEF Slot
<1>2. t.next + 1 \in Nat
  BY DEF Slot
<1>3. [t EXCEPT !.pc = pc, !.next = @ + 1] = [t EXCEPT !.pc = pc, !.next = t.next + 1]
  OBVIOUS
<1>4. QED  BY <1>1, <1>2, <1>3

(* And so does a row that gets another status. *)
LEMMA SetStatusType ==
  ASSUME TypeOK, NEW d \in Docs, NEW r,
         NEW status \in {"PENDING", "PROCESSING"} \cup Outcomes, SetStatus(r, d, status)
  PROVE  doc' \in [Docs -> Doc]
<1>1. [doc[d] EXCEPT !.status = status] \in Doc
  <2>1. doc[d] \in Doc
    BY DEF TypeOK
  <2>2. QED  BY <2>1 DEF Doc
<1>2. doc' \in {doc, [doc EXCEPT ![d] = [doc[d] EXCEPT !.status = status]]}
  BY DEF SetStatus
<1> HIDE DEF Doc
<1>3. QED  BY <1>1, <1>2 DEF TypeOK

(* And chunks that get another row or vector. *)
LEMMA ChunkType ==
  ASSUME TypeOK, NEW d \in Docs, NEW i \in Positions,
         NEW c \in [rows : Nat, vectors : Nat],
         chunks' = chunks \/ chunks' = [chunks EXCEPT ![d][i] = c]
  PROVE  chunks' \in [Docs -> [Positions -> [rows : Nat, vectors : Nat]]]
<1> DEFINE Chunk == [rows : Nat, vectors : Nat]
<1>1. chunks \in [Docs -> [Positions -> Chunk]] /\ c \in Chunk
  BY DEF TypeOK
<1> HIDE DEF Chunk
<1>2. CASE chunks' = [chunks EXCEPT ![d][i] = c]
  <2>1. [chunks[d] EXCEPT ![i] = c] \in [Positions -> Chunk]
    BY <1>1
  <2>2. chunks' = [chunks EXCEPT ![d] = [chunks[d] EXCEPT ![i] = c]]
    BY <1>2
  <2>3. QED  BY <1>1, <2>1, <2>2 DEF Chunk
<1>3. QED  BY <1>1, <1>2 DEF Chunk

(* And a job that gets another state. *)
LEMMA JobType ==
  ASSUME TypeOK, NEW d \in Docs, NEW new \in Job,
         job' = job \/ job' = [job EXCEPT ![d] = new]
  PROVE  job' \in [Docs -> Job]
<1>1. job \in [Docs -> Job]
  BY DEF TypeOK
<1>2. QED  BY <1>1

LEMMA AttemptEnds ==
  ASSUME NEW t \in Job, t.made < MaxAttempts, NEW state \in JobState
  PROVE  [t EXCEPT !.state = state, !.made = @ + 1, !.lock = None] \in Job
<1>1. ASSUME NEW n \in 0..MaxAttempts
      PROVE  [t EXCEPT !.state = state, !.made = n, !.lock = None] \in Job
  BY DEF Job
<1>2. t.made + 1 \in 0..MaxAttempts
  BY DEF Job
<1>3. [t EXCEPT !.state = state, !.made = @ + 1, !.lock = None] =
        [t EXCEPT !.state = state, !.made = t.made + 1, !.lock = None]
  OBVIOUS
<1>4. QED  BY <1>1, <1>2, <1>3

(* And so does one that lost its lock and is handed out again or given up. *)
LEMMA StallCounted ==
  ASSUME NEW t \in Job, t.stalls <= MaxStalled
  PROVE  [t EXCEPT !.stalls = t.stalls + 1, !.lock = None,
            !.state = IF t.stalls < MaxStalled THEN "wait" ELSE "failed"] \in Job
<1>1. ASSUME NEW n \in 0..(MaxStalled + 1), NEW state \in JobState
      PROVE  [t EXCEPT !.stalls = n, !.lock = None, !.state = state] \in Job
  BY DEF Job
<1>2. t.stalls + 1 \in 0..(MaxStalled + 1)
  BY DEF Job
<1>3. (IF t.stalls < MaxStalled THEN "wait" ELSE "failed") \in JobState
  BY DEF JobState
<1>4. QED  BY <1>1, <1>2, <1>3

(* While nothing has gone wrong two slots work on two documents, *)
LEMMA Alone ==
  ASSUME Inv, ~Disturbed, NEW s \in Slots, NEW q \in Slots, s # q, Busy(s), Busy(q)
  PROVE  slot[s].doc # slot[q].doc
BY DEF Inv, OneProcessor, HasLock

(* and their jobs are active. *)
LEMMA ActiveJob ==
  ASSUME Inv, ~Disturbed, NEW s \in Slots, Busy(s)
  PROVE  job[slot[s].doc].state = "active" /\ job[slot[s].doc].lock = s
BY DEF Inv, OneProcessor, HasLock

(* What is true of a slot stays so while its slot and document stay. *)
LEMMA AccurateKept ==
  ASSUME NEW q \in Slots, Accurate(q), slot'[q] = slot[q],
         Busy(q) => /\ doc'[slot[q].doc].status = doc[slot[q].doc].status
                    /\ chunks'[slot[q].doc] = chunks[slot[q].doc]
  PROVE  Accurate(q)'
BY DEF Accurate, Stored, Busy

LEMMA AwaitingKept ==
  ASSUME NEW d \in Docs, Awaiting(d), job'[d].state = job[d].state,
         doc'[d].status = doc[d].status, chunks'[d] = chunks[d],
         upload'[d] = upload[d]
  PROVE  Awaiting(d)'
BY DEF Awaiting, Stored

LEMMA AwaitingActive ==
  ASSUME NEW d \in Docs, job'[d].state = "active"
  PROVE  Awaiting(d)'
BY DEF Awaiting

(* A processor at work changes its own slot and document only. *)
LEMMA WorkKeepsOthers ==
  ASSUME Inv, NEW s \in Slots, Busy(s), Disturbed => Disturbed',
         \A q \in Slots : q # s => slot'[q] = slot[q],
         \A d \in Docs : d # slot[s].doc =>
           doc'[d].status = doc[d].status /\ chunks'[d] = chunks[d],
         UNCHANGED <<job, upload>>,
         ~Disturbed' => Accurate(s)'
  PROVE  SlotsAccurate' /\ QueueAccurate'
<1> SUFFICES ASSUME ~Disturbed'
             PROVE  (\A q \in Slots : Accurate(q)') /\ (\A d \in Docs : Awaiting(d)')
  BY DEF SlotsAccurate, QueueAccurate
<1>1. /\ \A q \in Slots : Accurate(q)
      /\ \A d \in Docs : Awaiting(d)
  BY DEF Inv, SlotsAccurate, QueueAccurate
<1>2. ASSUME NEW q \in Slots  PROVE Accurate(q)'
  <2>1. CASE q = s
    BY <2>1
  <2>2. CASE q # s
    <3>1. Busy(q) => slot[q].doc \in Docs /\ slot[q].doc # slot[s].doc
      BY <2>2, Alone, OwnDocument
    <3>2. QED  BY <1>1, <2>2, <3>1, AccurateKept
  <2>3. QED  BY <2>1, <2>2
<1>3. ASSUME NEW d \in Docs  PROVE Awaiting(d)'
  <2>1. CASE d = slot[s].doc
    BY <2>1, ActiveJob, AwaitingActive
  <2>2. CASE d # slot[s].doc
    BY <1>1, <2>2, AwaitingKept
  <2>3. QED  BY <2>1, <2>2
<1>4. QED  BY <1>2, <1>3

(* One more row, then one more vector, at the place where a loop stands.    *)
LEMMA RowStored ==
  ASSUME NEW e \in Docs, NEW n \in Positions, Stored(e, n, n),
         chunks'[e][n].rows = chunks[e][n].rows + 1,
         chunks'[e][n].vectors = chunks[e][n].vectors,
         \A i \in Positions : i # n => chunks'[e][i] = chunks[e][i]
  PROVE  \A i \in Positions : /\ chunks'[e][i].rows = IF i < n + 1 THEN 1 ELSE 0
                              /\ chunks'[e][i].vectors = IF i < n THEN 1 ELSE 0
<1> SUFFICES ASSUME NEW i \in Positions
             PROVE  /\ chunks'[e][i].rows = IF i < n + 1 THEN 1 ELSE 0
                    /\ chunks'[e][i].vectors = IF i < n THEN 1 ELSE 0
  OBVIOUS
<1>1. i \in Nat /\ n \in Nat
  BY DEF Positions
<1>2. /\ chunks[e][i].rows = IF i < n THEN 1 ELSE 0
      /\ chunks[e][i].vectors = IF i < n THEN 1 ELSE 0
  BY DEF Stored
<1>3. CASE i = n
  BY <1>1, <1>2, <1>3
<1>4. CASE i # n
  <2>1. chunks'[e][i] = chunks[e][i] /\ (i < n + 1 <=> i < n)
    BY <1>1, <1>4
  <2>2. QED  BY <1>2, <2>1
<1>5. QED  BY <1>3, <1>4

LEMMA VectorStored ==
  ASSUME NEW e \in Docs, NEW n \in Positions, Stored(e, n + 1, n),
         chunks'[e][n].rows = chunks[e][n].rows,
         chunks'[e][n].vectors = chunks[e][n].vectors + 1,
         \A i \in Positions : i # n => chunks'[e][i] = chunks[e][i]
  PROVE  \A i \in Positions : /\ chunks'[e][i].rows = IF i < n + 1 THEN 1 ELSE 0
                              /\ chunks'[e][i].vectors = IF i < n + 1 THEN 1 ELSE 0
<1> SUFFICES ASSUME NEW i \in Positions
             PROVE  /\ chunks'[e][i].rows = IF i < n + 1 THEN 1 ELSE 0
                    /\ chunks'[e][i].vectors = IF i < n + 1 THEN 1 ELSE 0
  OBVIOUS
<1>1. i \in Nat /\ n \in Nat
  BY DEF Positions
<1>2. /\ chunks[e][i].rows = IF i < n + 1 THEN 1 ELSE 0
      /\ chunks[e][i].vectors = IF i < n THEN 1 ELSE 0
  BY DEF Stored
<1>3. CASE i = n
  BY <1>1, <1>2, <1>3
<1>4. CASE i # n
  <2>1. chunks'[e][i] = chunks[e][i] /\ (i < n + 1 <=> i < n)
    BY <1>1, <1>4
  <2>2. QED  BY <1>2, <2>1
<1>5. QED  BY <1>3, <1>4

-----------------------------------------------------------------------------
(* One lemma per action. *)

(* A new document's file comes before anything else of it.                 *)
LEMMA UploadFileStep ==
  ASSUME Inv, NEW d \in Docs, NEW r \in Replies, UploadFile(d, r)
  PROVE  Inv'
<1> USE DEF UploadFile, Call, OnReply, Replies
<1>1. TypeOK'
    BY DEF Inv, TypeOK
<1>2. Budgets'
    BY DEF Inv, Budgets, TypeOK, Job
<1>3. Serving'
    BY DEF Inv, Serving, TypeOK, Slot, Busy
<1>4. RequestsInOrder'
    BY DEF Inv, RequestsInOrder, RequestOrder, TypeOK, Doc
<1>5. LoopsInOrder'
    BY DEF Inv, LoopsInOrder, Positioned, WritePc, TypeOK, Slot
<1>6. ReadyIsComplete'
    BY DEF Inv, ReadyIsComplete, TypeOK
<1>7. OneProcessor'
    BY DEF Inv, OneProcessor, Serving, Budgets, Busy, HasLock, Disturbed,
         TypeOK, Slot, Job
<1>8. SlotsAccurate'
    BY DEF Inv, SlotsAccurate, Accurate, Stored, StatusAt, Serving, Busy,
         Disturbed, TypeOK, Slot
<1>9. QueueAccurate'
    BY DEF Inv, QueueAccurate, Awaiting, Stored, Disturbed, TypeOK, Job
<1>10. FilesKept'
  <2>1. r # "ok" => Disturbed'
    BY CallDisturbs DEF Call, Replies
  <2>2. (Disturbed => Disturbed') /\ ~doc[d].deleted
    BY CallDisturbs DEF Call, Replies, Inv, RequestsInOrder, RequestOrder
  <2>3. QED  BY <2>1, <2>2 DEF Inv, FilesKept, TypeOK
<1>11. QED
  BY <1>1, <1>2, <1>3, <1>4, <1>5, <1>6, <1>7, <1>8, <1>9, <1>10 DEF Inv

(* The row is created over a stored file.                                  *)
LEMMA UploadCreateStep ==
  ASSUME Inv, NEW d \in Docs, NEW r \in Replies, UploadCreate(d, r)
  PROVE  Inv'
<1> USE DEF UploadCreate, SetStatus, Call, OnReply, Replies
<1>1. TypeOK'
  <2>1. doc' \in [Docs -> Doc]
    BY SetStatusType DEF Inv, SetStatus, Outcomes
  <2>2. QED  BY <2>1 DEF Inv, TypeOK
<1>2. Budgets'
    BY DEF Inv, Budgets, TypeOK, Job
<1>3. Serving'
  <2>1. doc[d].status = "NONE"
    BY DEF Inv, RequestsInOrder, RequestOrder
  <2>2. \A q \in Slots : Busy(q) => slot[q].doc # d /\ slot[q].doc \in Docs
    BY <2>1, OwnDocument
  <2>3. \A e \in Docs : e # d => doc'[e] = doc[e]
    BY DEF Inv, TypeOK
  <2>4. QED  BY <2>2, <2>3 DEF Inv, Serving, Busy
<1>4. RequestsInOrder'
    BY DEF Inv, RequestsInOrder, RequestOrder, TypeOK, Doc
<1>5. LoopsInOrder'
    BY DEF Inv, LoopsInOrder, Positioned, WritePc, TypeOK, Slot
<1>6. ReadyIsComplete'
    BY DEF Inv, ReadyIsComplete, TypeOK
<1>7. OneProcessor'
    BY DEF Inv, OneProcessor, Serving, Budgets, Busy, HasLock, Disturbed,
         TypeOK, Slot, Job
<1>8. SlotsAccurate'
    BY DEF Inv, SlotsAccurate, Accurate, Stored, StatusAt, Serving, Busy,
         Disturbed, TypeOK, Slot, RequestsInOrder, RequestOrder, Doc
<1>9. QueueAccurate'
    BY DEF Inv, QueueAccurate, Awaiting, Stored, Disturbed, TypeOK, Job,
         RequestsInOrder, RequestOrder, Doc
<1>10. FilesKept'
    BY DEF Inv, FilesKept, Disturbed, TypeOK
<1>11. QED
  BY <1>1, <1>2, <1>3, <1>4, <1>5, <1>6, <1>7, <1>8, <1>9, <1>10 DEF Inv

(* The job is added for a row that has none.                               *)
LEMMA UploadEnqueueStep ==
  ASSUME Inv, NEW d \in Docs, NEW r \in Replies, UploadEnqueue(d, r)
  PROVE  Inv'
<1> USE DEF UploadEnqueue, AddJob, NewJob, NoJob, Call, OnReply, Replies
<1>1. TypeOK'
  <2> DEFINE new == NewJob
  <2>1. new \in Job /\ d \in Docs
    <3>1. d \in Docs
      BY OwnDocument DEF Busy
    <3>2. job[d] \in Job
      BY <3>1 DEF Inv, TypeOK
    <3>3. QED  BY <3>1, <3>2 DEF Inv, Budgets, Job, JobState
  <2>2. job' = job \/ job' = [job EXCEPT ![d] = new]
    OBVIOUS
  <2> HIDE DEF new
  <2>3. job' \in [Docs -> Job]
    BY <2>1, <2>2, JobType DEF Inv
  <2>4. QED  BY <2>3 DEF Inv, TypeOK
<1>2. Budgets'
    BY DEF Inv, Budgets, TypeOK, Job
<1>3. Serving'
    BY DEF Inv, Serving, TypeOK, Slot, Busy
<1>4. RequestsInOrder'
    BY DEF Inv, RequestsInOrder, RequestOrder, TypeOK, Doc
<1>5. LoopsInOrder'
    BY DEF Inv, LoopsInOrder, Positioned, WritePc, TypeOK, Slot
<1>6. ReadyIsComplete'
    BY DEF Inv, ReadyIsComplete, TypeOK
<1>7. OneProcessor'
    BY DEF Inv, OneProcessor, Serving, Budgets, Busy, HasLock, Disturbed,
         TypeOK, Slot, Job, RequestsInOrder, RequestOrder
<1>8. SlotsAccurate'
    BY DEF Inv, SlotsAccurate, Accurate, Stored, StatusAt, Serving, Busy,
         Disturbed, TypeOK, Slot
<1>9. QueueAccurate'
    BY DEF Inv, QueueAccurate, Awaiting, Stored, Disturbed, TypeOK, Job,
         RequestsInOrder, RequestOrder, Doc
<1>10. FilesKept'
    BY DEF Inv, FilesKept, Disturbed, TypeOK
<1>11. QED
  BY <1>1, <1>2, <1>3, <1>4, <1>5, <1>6, <1>7, <1>8, <1>9, <1>10 DEF Inv

(* Marking a row keeps its type. *)
LEMMA MarkedType ==
  ASSUME TypeOK, NEW d \in Docs
  PROVE  [doc EXCEPT ![d].deleted = TRUE] \in [Docs -> Doc]
<1>1. doc \in [Docs -> Doc] /\ doc[d] \in Doc
  BY DEF TypeOK
<1>2. [doc[d] EXCEPT !.deleted = TRUE] \in Doc
  BY <1>1 DEF Doc
<1>3. QED  BY <1>1, <1>2

(* A deletion marks the row and lets everything else be.                   *)
LEMMA SoftDeleteStep ==
  ASSUME Inv, NEW d \in Docs, NEW r \in Replies, SoftDelete(d, r)
  PROVE  Inv'
<1> USE DEF SoftDelete, Deletable, Call, OnReply, Replies
<1>1. TypeOK'
  <2>1. doc' \in {doc, [doc EXCEPT ![d].deleted = TRUE]}
    OBVIOUS
  <2>2. doc' \in [Docs -> Doc]
    BY <2>1, MarkedType DEF Inv, TypeOK
  <2>3. QED  BY <2>2 DEF Inv, TypeOK
<1>2. Budgets'
    BY DEF Inv, Budgets, TypeOK, Job
<1>3. Serving'
    BY DEF Inv, Serving, TypeOK, Slot, Busy
<1>4. RequestsInOrder'
    BY DEF Inv, RequestsInOrder, RequestOrder, TypeOK, Doc
<1>5. LoopsInOrder'
    BY DEF Inv, LoopsInOrder, Positioned, WritePc, TypeOK, Slot
<1>6. ReadyIsComplete'
    BY DEF Inv, ReadyIsComplete, TypeOK
<1>7. OneProcessor'
    BY DEF Inv, OneProcessor, Serving, Budgets, Busy, HasLock, Disturbed,
         TypeOK, Slot, Job
<1>8. SlotsAccurate'
    BY DEF Inv, SlotsAccurate, Accurate, Stored, StatusAt, Serving, Busy,
         Disturbed, TypeOK, Slot
<1>9. QueueAccurate'
    BY DEF Inv, QueueAccurate, Awaiting, Stored, Disturbed, TypeOK, Job
<1>10. FilesKept'
    BY DEF Inv, FilesKept, Disturbed, TypeOK
<1>11. QED
  BY <1>1, <1>2, <1>3, <1>4, <1>5, <1>6, <1>7, <1>8, <1>9, <1>10 DEF Inv

(* The file goes when the row is marked.                                   *)
LEMMA UnlinkStep ==
  ASSUME Inv, NEW d \in Docs, NEW r \in Replies, Unlink(d, r)
  PROVE  Inv'
<1> USE DEF Unlink, Call, OnReply, Replies
<1>1. TypeOK'
    BY DEF Inv, TypeOK
<1>2. Budgets'
    BY DEF Inv, Budgets, TypeOK, Job
<1>3. Serving'
    BY DEF Inv, Serving, TypeOK, Slot, Busy
<1>4. RequestsInOrder'
    BY DEF Inv, RequestsInOrder, RequestOrder, TypeOK, Doc
<1>5. LoopsInOrder'
    BY DEF Inv, LoopsInOrder, Positioned, WritePc, TypeOK, Slot
<1>6. ReadyIsComplete'
    BY DEF Inv, ReadyIsComplete, TypeOK
<1>7. OneProcessor'
    BY DEF Inv, OneProcessor, Serving, Budgets, Busy, HasLock, Disturbed,
         TypeOK, Slot, Job
<1>8. SlotsAccurate'
    BY DEF Inv, SlotsAccurate, Accurate, Stored, StatusAt, Serving, Busy,
         Disturbed, TypeOK, Slot
<1>9. QueueAccurate'
    BY DEF Inv, QueueAccurate, Awaiting, Stored, Disturbed, TypeOK, Job
<1>10. FilesKept'
  <2>1. r # "ok" => Disturbed'
    BY CallDisturbs DEF Call, Replies
  <2>2. Disturbed => Disturbed'
    BY CallDisturbs DEF Call, Replies
  <2>3. ~Disturbed' => /\ file' = [file EXCEPT ![d] = "removed"]
                       /\ removal' = [removal EXCEPT ![d] = "done"]
    BY <2>1
  <2>4. upload[d] # "idle"
    BY DEF Inv, RequestsInOrder, RequestOrder
  <2> SUFFICES ASSUME ~Disturbed', NEW e \in Docs
               PROVE  /\ upload'[e] # "error"
                      /\ upload'[e] = "idle" => file'[e] = "none"
                      /\ file'[e] = "stored" /\ doc'[e].deleted => removal'[e] = "unlink"
    BY DEF FilesKept
  <2>5. CASE e = d
    <3>1. file'[e] = "removed"
      BY <2>3, <2>5 DEF Inv, TypeOK
    <3>2. QED  BY <2>2, <2>4, <2>5, <3>1 DEF Inv, FilesKept
  <2>6. CASE e # d
    <3>1. file'[e] = file[e] /\ removal'[e] = removal[e]
      BY <2>6 DEF Inv, TypeOK
    <3>2. QED  BY <2>2, <3>1 DEF Inv, FilesKept
  <2>7. QED  BY <2>5, <2>6
<1>11. QED
  BY <1>1, <1>2, <1>3, <1>4, <1>5, <1>6, <1>7, <1>8, <1>9, <1>10 DEF Inv

(* A slot that takes a job begins with the first chunk.                    *)
LEMMA TakeJobStep ==
  ASSUME Inv, NEW s \in Slots, NEW d \in Docs, TakeJob(s, d)
  PROVE  Inv'
<1> USE DEF TakeJob, GiveJob, Busy, disturbances
<1>1. TypeOK'
  <2> DEFINE new == [job[d] EXCEPT !.state = "active", !.lock = s]
  <2>1. new \in Job /\ d \in Docs
    <3>1. d \in Docs
      BY OwnDocument DEF Busy
    <3>2. job[d] \in Job
      BY <3>1 DEF Inv, TypeOK
    <3>3. QED  BY <3>1, <3>2 DEF Inv, Budgets, Job, JobState
  <2>2. job' = job \/ job' = [job EXCEPT ![d] = new]
    OBVIOUS
  <2> HIDE DEF new
  <2>3. job' \in [Docs -> Job]
    BY <2>1, <2>2, JobType DEF Inv
  <2>4. slot' \in [Slots -> Slot]
    BY DEF Inv, TypeOK, Slot, SlotPc
  <2>5. QED  BY <2>3, <2>4 DEF Inv, TypeOK
<1>2. Budgets'
    BY DEF Inv, Budgets, TypeOK, Job
<1>3. Serving'
    BY DEF Inv, Serving, TypeOK, Slot, Busy, RequestsInOrder, RequestOrder
<1>4. RequestsInOrder'
    BY DEF Inv, RequestsInOrder, RequestOrder, TypeOK, Doc
<1>5. LoopsInOrder'
    BY DEF Inv, LoopsInOrder, Positioned, WritePc, TypeOK, Slot
<1>6. ReadyIsComplete'
    BY DEF Inv, ReadyIsComplete, TypeOK
<1>7. OneProcessor'
    BY DEF Inv, OneProcessor, Serving, Budgets, Busy, HasLock, Disturbed,
         TypeOK, Slot, Job
<1>8. SlotsAccurate'
  <2> SUFFICES ASSUME ~Disturbed, NEW q \in Slots, Accurate(q), Awaiting(d)
               PROVE  Accurate(q)'
    BY DEF Inv, SlotsAccurate, QueueAccurate, Disturbed
  <2>1. CASE q # s
    <3>1. slot'[q] = slot[q]
      BY <2>1 DEF Inv, TypeOK
    <3>2. QED  BY <3>1, AccurateKept
  <2>2. CASE q = s
    <3>1. slot'[q] = [pc |-> "markProcessing", doc |-> d, next |-> 1]
      BY <2>2 DEF Inv, TypeOK
    <3>2. QED  BY <3>1 DEF Accurate, Awaiting, StatusAt, Stored
  <2>3. QED  BY <2>1, <2>2
<1>9. QueueAccurate'
    BY DEF Inv, QueueAccurate, Awaiting, Stored, Disturbed, TypeOK, Job
<1>10. FilesKept'
    BY DEF Inv, FilesKept, Disturbed, TypeOK
<1>11. QED
  BY <1>1, <1>2, <1>3, <1>4, <1>5, <1>6, <1>7, <1>8, <1>9, <1>10 DEF Inv

(* A job back from its backoff waits as it did before.                     *)
LEMMA PromoteDelayedStep ==
  ASSUME Inv, NEW d \in Docs, PromoteDelayed(d)
  PROVE  Inv'
<1> USE DEF PromoteDelayed, Promote, disturbances
<1>1. TypeOK'
  <2> DEFINE new == [job[d] EXCEPT !.state = "wait"]
  <2>1. new \in Job /\ d \in Docs
    <3>1. d \in Docs
      BY OwnDocument DEF Busy
    <3>2. job[d] \in Job
      BY <3>1 DEF Inv, TypeOK
    <3>3. QED  BY <3>1, <3>2 DEF Inv, Budgets, Job, JobState
  <2>2. job' = job \/ job' = [job EXCEPT ![d] = new]
    OBVIOUS
  <2> HIDE DEF new
  <2>3. job' \in [Docs -> Job]
    BY <2>1, <2>2, JobType DEF Inv
  <2>4. QED  BY <2>3 DEF Inv, TypeOK
<1>2. Budgets'
    BY DEF Inv, Budgets, TypeOK, Job
<1>3. Serving'
    BY DEF Inv, Serving, TypeOK, Slot, Busy
<1>4. RequestsInOrder'
    BY DEF Inv, RequestsInOrder, RequestOrder, TypeOK, Doc
<1>5. LoopsInOrder'
    BY DEF Inv, LoopsInOrder, Positioned, WritePc, TypeOK, Slot
<1>6. ReadyIsComplete'
    BY DEF Inv, ReadyIsComplete, TypeOK
<1>7. OneProcessor'
    BY DEF Inv, OneProcessor, Serving, Budgets, Busy, HasLock, Disturbed,
         TypeOK, Slot, Job
<1>8. SlotsAccurate'
    BY DEF Inv, SlotsAccurate, Accurate, Stored, StatusAt, Serving, Busy,
         Disturbed, TypeOK, Slot
<1>9. QueueAccurate'
    BY DEF Inv, QueueAccurate, Awaiting, Stored, Disturbed, TypeOK, Job
<1>10. FilesKept'
    BY DEF Inv, FilesKept, Disturbed, TypeOK
<1>11. QED
  BY <1>1, <1>2, <1>3, <1>4, <1>5, <1>6, <1>7, <1>8, <1>9, <1>10 DEF Inv

(* Only a disturbed queue has an active job without a processor.           *)
LEMMA RecoverStalledStep ==
  ASSUME Inv, NEW d \in Docs, RecoverStalled(d)
  PROVE  Inv'
<1> USE DEF RecoverStalled, Stall, disturbances
<1>1. TypeOK'
  <2>1. job' \in [Docs -> Job]
    <3>1. job[d] \in Job /\ job[d].stalls <= MaxStalled
      BY DEF Inv, TypeOK, Budgets
    <3> DEFINE new == [job[d] EXCEPT
                 !.stalls = job[d].stalls + 1, !.lock = None,
                 !.state = IF job[d].stalls < MaxStalled THEN "wait" ELSE "failed"]
    <3>2. new \in Job
      BY <3>1, StallCounted
    <3>3. QED  BY <3>2 DEF Inv, TypeOK
  <2>2. QED  BY <2>1 DEF Inv, TypeOK
<1>2. Budgets'
    BY DEF Inv, Budgets, TypeOK, Job
<1>3. Serving'
    BY DEF Inv, Serving, TypeOK, Slot, Busy
<1>4. RequestsInOrder'
    BY DEF Inv, RequestsInOrder, RequestOrder, TypeOK, Doc
<1>5. LoopsInOrder'
    BY DEF Inv, LoopsInOrder, Positioned, WritePc, TypeOK, Slot
<1>6. ReadyIsComplete'
    BY DEF Inv, ReadyIsComplete, TypeOK
<1>7. OneProcessor'
    BY DEF Inv, OneProcessor, Serving, Budgets, Busy, HasLock, Disturbed,
         TypeOK, Slot, Job
<1>8. SlotsAccurate'
    BY DEF Inv, SlotsAccurate, Accurate, Stored, StatusAt, Serving, Busy,
         Disturbed, TypeOK, Slot
<1>9. QueueAccurate'
  <2>1. Disturbed
    BY DEF Inv, OneProcessor
  <2>2. QED  BY <2>1 DEF QueueAccurate, Disturbed
<1>10. FilesKept'
    BY DEF Inv, FilesKept, Disturbed, TypeOK
<1>11. QED
  BY <1>1, <1>2, <1>3, <1>4, <1>5, <1>6, <1>7, <1>8, <1>9, <1>10 DEF Inv

(* Losing a lock is a disturbance.                                         *)
LEMMA LoseLockStep ==
  ASSUME Inv, NEW d \in Docs, LoseLock(d)
  PROVE  Inv'
<1> USE DEF LoseLock, Stall
<1>1. TypeOK'
  <2>1. job' \in [Docs -> Job]
    <3>1. job[d] \in Job /\ job[d].stalls <= MaxStalled
      BY DEF Inv, TypeOK, Budgets
    <3> DEFINE new == [job[d] EXCEPT
                 !.stalls = job[d].stalls + 1, !.lock = None,
                 !.state = IF job[d].stalls < MaxStalled THEN "wait" ELSE "failed"]
    <3>2. new \in Job
      BY <3>1, StallCounted
    <3>3. QED  BY <3>2 DEF Inv, TypeOK
  <2>2. QED  BY <2>1 DEF Inv, TypeOK
<1>2. Budgets'
    BY DEF Inv, Budgets, TypeOK, Job
<1>3. Serving'
    BY DEF Inv, Serving, TypeOK, Slot, Busy
<1>4. RequestsInOrder'
    BY DEF Inv, RequestsInOrder, RequestOrder, TypeOK, Doc
<1>5. LoopsInOrder'
    BY DEF Inv, LoopsInOrder, Positioned, WritePc, TypeOK, Slot
<1>6. ReadyIsComplete'
    BY DEF Inv, ReadyIsComplete, TypeOK
<1>7. OneProcessor'
    BY DEF Inv, OneProcessor, Serving, Budgets, Busy, HasLock, Disturbed,
         TypeOK, Slot, Job
<1>8. SlotsAccurate'
    BY DEF Inv, SlotsAccurate, Accurate, Stored, StatusAt, Serving, Busy,
         Disturbed, TypeOK, Slot
<1>9. QueueAccurate'
    BY DEF Inv, QueueAccurate, Awaiting, Stored, Disturbed, TypeOK, Job
<1>10. FilesKept'
    BY DEF Inv, FilesKept, Disturbed, TypeOK
<1>11. QED
  BY <1>1, <1>2, <1>3, <1>4, <1>5, <1>6, <1>7, <1>8, <1>9, <1>10 DEF Inv

(* The row says PROCESSING before the processor goes on.                   *)
LEMMA MarkProcessingStep ==
  ASSUME Inv, NEW s \in Slots, NEW r \in Replies, MarkProcessing(s, r)
  PROVE  Inv'
<1> USE DEF MarkProcessing, SetStatus, GoTo, Call, OnReply, Replies
<1>1. TypeOK'
  <2>1. \E pc \in {"read", "throw"} : GoTo(s, pc)
    BY DEF GoTo
  <2>2. slot' \in [Slots -> Slot]
    BY <2>1, GoToType DEF Inv, SlotPc, WritePc
  <2>3. slot[s].doc \in Docs
    BY OwnDocument DEF Busy
  <2>4. SetStatus(r, slot[s].doc, "PROCESSING")
    BY DEF SetStatus
  <2>5. doc' \in [Docs -> Doc]
    BY <2>3, <2>4, SetStatusType DEF Inv, Outcomes
  <2>6. QED  BY <2>2, <2>5 DEF Inv, TypeOK
<1>2. Budgets'
    BY DEF Inv, Budgets, TypeOK, Job
<1>3. Serving'
    BY DEF Inv, Serving, TypeOK, Slot, Busy
<1>4. RequestsInOrder'
    BY DEF Inv, RequestsInOrder, RequestOrder, TypeOK, Doc, Serving, Busy
<1>5. LoopsInOrder'
    BY DEF Inv, LoopsInOrder, Positioned, WritePc, TypeOK, Slot
<1>6. ReadyIsComplete'
    BY DEF Inv, ReadyIsComplete, TypeOK
<1>7. OneProcessor'
    BY DEF Inv, OneProcessor, Serving, Budgets, Busy, HasLock, Disturbed,
         TypeOK, Slot, Job
<1>8. SlotsAccurate' /\ QueueAccurate'
  <2>1. Busy(s) /\ slot[s].doc \in Docs
    BY OwnDocument DEF Busy
  <2>2. (Disturbed => Disturbed') /\ (r # "ok" => Disturbed')
    BY CallDisturbs DEF Call, Replies
  <2>3. \A q \in Slots : q # s => slot'[q] = slot[q]
    BY DEF Inv, TypeOK
  <2>4. \A d \in Docs : d # slot[s].doc =>
          doc'[d].status = doc[d].status /\ chunks'[d] = chunks[d]
    BY <2>1 DEF Inv, TypeOK
  <2>5. ~Disturbed' => Accurate(s)'
    <3> SUFFICES ASSUME ~Disturbed'  PROVE Accurate(s)'
      OBVIOUS
    <3>1. Accurate(s) /\ Positioned(s)
      BY <2>2 DEF Inv, SlotsAccurate, LoopsInOrder
    <3>2. QED
      BY <2>1, <2>2, <3>1 DEF Inv, TypeOK, Slot, Doc, Accurate, StatusAt, Stored,
                      Busy, Positioned
  <2>6. QED  BY <2>1, <2>2, <2>3, <2>4, <2>5, WorkKeepsOthers
<1>9. QueueAccurate'
  BY <1>8
<1>10. FilesKept'
    BY DEF Inv, FilesKept, Disturbed, TypeOK
<1>11. QED
  BY <1>1, <1>2, <1>3, <1>4, <1>5, <1>6, <1>7, <1>8, <1>9, <1>10 DEF Inv

(* Reading the file moves the slot only.                                   *)
LEMMA ReadFileStep ==
  ASSUME Inv, NEW s \in Slots, NEW r \in Replies, ReadFile(s, r)
  PROVE  Inv'
<1> USE DEF ReadFile, GoTo, Call, OnReply, Replies
<1>1. TypeOK'
  <2>1. \E pc \in {"parse", "catch"} : GoTo(s, pc)
    BY DEF GoTo
  <2>2. slot' \in [Slots -> Slot]
    BY <2>1, GoToType DEF Inv, SlotPc, WritePc
  <2>3. QED  BY <2>2 DEF Inv, TypeOK
<1>2. Budgets'
    BY DEF Inv, Budgets, TypeOK, Job
<1>3. Serving'
    BY DEF Inv, Serving, TypeOK, Slot, Busy
<1>4. RequestsInOrder'
    BY DEF Inv, RequestsInOrder, RequestOrder, TypeOK, Doc
<1>5. LoopsInOrder'
    BY DEF Inv, LoopsInOrder, Positioned, WritePc, TypeOK, Slot
<1>6. ReadyIsComplete'
    BY DEF Inv, ReadyIsComplete, TypeOK
<1>7. OneProcessor'
    BY DEF Inv, OneProcessor, Serving, Budgets, Busy, HasLock, Disturbed,
         TypeOK, Slot, Job
<1>8. SlotsAccurate' /\ QueueAccurate'
  <2>1. Busy(s) /\ slot[s].doc \in Docs
    BY OwnDocument DEF Busy
  <2>2. (Disturbed => Disturbed') /\ (r # "ok" => Disturbed')
    BY CallDisturbs DEF Call, Replies
  <2>3. \A q \in Slots : q # s => slot'[q] = slot[q]
    BY DEF Inv, TypeOK
  <2>4. \A d \in Docs : d # slot[s].doc =>
          doc'[d].status = doc[d].status /\ chunks'[d] = chunks[d]
    BY <2>1 DEF Inv, TypeOK
  <2>5. ~Disturbed' => Accurate(s)'
    <3> SUFFICES ASSUME ~Disturbed'  PROVE Accurate(s)'
      OBVIOUS
    <3>1. Accurate(s) /\ Positioned(s)
      BY <2>2 DEF Inv, SlotsAccurate, LoopsInOrder
    <3>2. QED
      BY <2>1, <2>2, <3>1 DEF Inv, TypeOK, Slot, Doc, Accurate, StatusAt, Stored,
                      Busy, Positioned
  <2>6. QED  BY <2>1, <2>2, <2>3, <2>4, <2>5, WorkKeepsOthers
<1>9. QueueAccurate'
  BY <1>8
<1>10. FilesKept'
    BY DEF Inv, FilesKept, Disturbed, TypeOK
<1>11. QED
  BY <1>1, <1>2, <1>3, <1>4, <1>5, <1>6, <1>7, <1>8, <1>9, <1>10 DEF Inv

(* So does parsing it.                                                     *)
LEMMA ParseStep ==
  ASSUME Inv, NEW s \in Slots, Parse(s)
  PROVE  Inv'
<1> USE DEF Parse, GoTo, disturbances
<1>1. TypeOK'
  <2>1. \E pc \in {"embed", "catch"} : GoTo(s, pc)
    BY DEF GoTo
  <2>2. slot' \in [Slots -> Slot]
    BY <2>1, GoToType DEF Inv, SlotPc, WritePc
  <2>3. QED  BY <2>2 DEF Inv, TypeOK
<1>2. Budgets'
    BY DEF Inv, Budgets, TypeOK, Job
<1>3. Serving'
    BY DEF Inv, Serving, TypeOK, Slot, Busy
<1>4. RequestsInOrder'
    BY DEF Inv, RequestsInOrder, RequestOrder, TypeOK, Doc
<1>5. LoopsInOrder'
    BY DEF Inv, LoopsInOrder, Positioned, WritePc, TypeOK, Slot
<1>6. ReadyIsComplete'
    BY DEF Inv, ReadyIsComplete, TypeOK
<1>7. OneProcessor'
    BY DEF Inv, OneProcessor, Serving, Budgets, Busy, HasLock, Disturbed,
         TypeOK, Slot, Job
<1>8. SlotsAccurate' /\ QueueAccurate'
  <2>1. Busy(s) /\ slot[s].doc \in Docs
    BY OwnDocument DEF Busy
  <2>2. Disturbed' = Disturbed
    BY DEF Disturbed
  <2>3. \A q \in Slots : q # s => slot'[q] = slot[q]
    BY DEF Inv, TypeOK
  <2>4. \A d \in Docs : d # slot[s].doc =>
          doc'[d].status = doc[d].status /\ chunks'[d] = chunks[d]
    BY <2>1 DEF Inv, TypeOK
  <2>5. ~Disturbed' => Accurate(s)'
    <3> SUFFICES ASSUME ~Disturbed'  PROVE Accurate(s)'
      OBVIOUS
    <3>1. Accurate(s) /\ Positioned(s)
      BY <2>2 DEF Inv, SlotsAccurate, LoopsInOrder
    <3>2. QED
      BY <2>1, <2>2, <3>1 DEF Inv, TypeOK, Slot, Doc, Accurate, StatusAt, Stored,
                      Busy, Positioned
  <2>6. QED  BY <2>1, <2>2, <2>3, <2>4, <2>5, WorkKeepsOthers
<1>9. QueueAccurate'
  BY <1>8
<1>10. FilesKept'
    BY DEF Inv, FilesKept, Disturbed, TypeOK
<1>11. QED
  BY <1>1, <1>2, <1>3, <1>4, <1>5, <1>6, <1>7, <1>8, <1>9, <1>10 DEF Inv

(* And embedding its chunks, after which the loop begins.                  *)
LEMMA EmbedChunksStep ==
  ASSUME Inv, NEW s \in Slots, NEW r \in Replies, EmbedChunks(s, r)
  PROVE  Inv'
<1> USE DEF EmbedChunks, Loop, GoTo, Call, OnReply, Replies
<1>1. TypeOK'
  <2>1. \E pc \in {"insert", "markReady", "catch"} : GoTo(s, pc)
    BY DEF GoTo
  <2>2. slot' \in [Slots -> Slot]
    BY <2>1, GoToType DEF Inv, SlotPc, WritePc
  <2>3. QED  BY <2>2 DEF Inv, TypeOK
<1>2. Budgets'
    BY DEF Inv, Budgets, TypeOK, Job
<1>3. Serving'
    BY DEF Inv, Serving, TypeOK, Slot, Busy
<1>4. RequestsInOrder'
    BY DEF Inv, RequestsInOrder, RequestOrder, TypeOK, Doc
<1>5. LoopsInOrder'
    BY DEF Inv, LoopsInOrder, Positioned, WritePc, TypeOK, Slot, Positions
<1>6. ReadyIsComplete'
    BY DEF Inv, ReadyIsComplete, TypeOK
<1>7. OneProcessor'
    BY DEF Inv, OneProcessor, Serving, Budgets, Busy, HasLock, Disturbed,
         TypeOK, Slot, Job
<1>8. SlotsAccurate' /\ QueueAccurate'
  <2>1. Busy(s) /\ slot[s].doc \in Docs
    BY OwnDocument DEF Busy
  <2>2. (Disturbed => Disturbed') /\ (r # "ok" => Disturbed')
    BY CallDisturbs DEF Call, Replies
  <2>3. \A q \in Slots : q # s => slot'[q] = slot[q]
    BY DEF Inv, TypeOK
  <2>4. \A d \in Docs : d # slot[s].doc =>
          doc'[d].status = doc[d].status /\ chunks'[d] = chunks[d]
    BY <2>1 DEF Inv, TypeOK
  <2>5. ~Disturbed' => Accurate(s)'
    <3> SUFFICES ASSUME ~Disturbed'  PROVE Accurate(s)'
      OBVIOUS
    <3>1. Accurate(s) /\ Positioned(s)
      BY <2>2 DEF Inv, SlotsAccurate, LoopsInOrder
    <3>2. QED
      BY <2>1, <2>2, <3>1 DEF Inv, TypeOK, Slot, Doc, Accurate, StatusAt, Stored,
                      Busy, Positioned, Positions
  <2>6. QED  BY <2>1, <2>2, <2>3, <2>4, <2>5, WorkKeepsOthers
<1>9. QueueAccurate'
  BY <1>8
<1>10. FilesKept'
    BY DEF Inv, FilesKept, Disturbed, TypeOK
<1>11. QED
  BY <1>1, <1>2, <1>3, <1>4, <1>5, <1>6, <1>7, <1>8, <1>9, <1>10 DEF Inv

(* An insert stores the row of the loop's chunk.                           *)
LEMMA InsertChunkStep ==
  ASSUME Inv, NEW s \in Slots, NEW r \in Replies, InsertChunk(s, r)
  PROVE  Inv'
<1> USE DEF InsertChunk, GoTo, Call, OnReply, Replies
<1>1. TypeOK'
  <2>1. slot[s].doc \in Docs /\ slot[s].next \in Positions
    BY OwnDocument DEF Busy, Inv, LoopsInOrder, Positioned, WritePc
  <2> DEFINE c == chunks[slot[s].doc][slot[s].next]
             new == [c EXCEPT !.rows = @ + 1]
  <2>2. new \in [rows : Nat, vectors : Nat]
    <3>1. c \in [rows : Nat, vectors : Nat]
      BY <2>1 DEF Inv, TypeOK
    <3> HIDE DEF c
    <3>2. QED  BY <3>1
  <2>3. chunks' = chunks \/ chunks' = [chunks EXCEPT ![slot[s].doc][slot[s].next] = new]
    OBVIOUS
  <2> HIDE DEF new
  <2>4. chunks' \in [Docs -> [Positions -> [rows : Nat, vectors : Nat]]]
    BY <2>1, <2>2, <2>3, ChunkType DEF Inv
  <2>5. \E pc \in {"store", "catch"} : GoTo(s, pc)
    BY DEF GoTo
  <2>6. slot' \in [Slots -> Slot]
    BY <2>5, GoToType DEF Inv, SlotPc, WritePc
  <2>7. QED  BY SMTT(20), <2>4, <2>6 DEF Inv, TypeOK
<1>2. Budgets'
    BY DEF Inv, Budgets, TypeOK, Job
<1>3. Serving'
    BY DEF Inv, Serving, TypeOK, Slot, Busy
<1>4. RequestsInOrder'
    BY DEF Inv, RequestsInOrder, RequestOrder, TypeOK, Doc
<1>5. LoopsInOrder'
    BY SMTT(20) DEF Inv, LoopsInOrder, Positioned, WritePc, TypeOK, Slot
<1>6. ReadyIsComplete'
    BY DEF Inv, ReadyIsComplete, TypeOK
<1>7. OneProcessor'
    BY DEF Inv, OneProcessor, Serving, Budgets, Busy, HasLock, Disturbed,
         TypeOK, Slot, Job
<1>8. SlotsAccurate' /\ QueueAccurate'
  <2>1. Busy(s) /\ slot[s].doc \in Docs
    BY OwnDocument DEF Busy
  <2>2. (Disturbed => Disturbed') /\ (r # "ok" => Disturbed')
    BY CallDisturbs DEF Call, Replies
  <2>3. \A q \in Slots : q # s => slot'[q] = slot[q]
    BY DEF Inv, TypeOK
  <2>4. \A d \in Docs : d # slot[s].doc =>
          doc'[d].status = doc[d].status /\ chunks'[d] = chunks[d]
    BY <2>1 DEF Inv, TypeOK
  <2>5. ~Disturbed' => Accurate(s)'
    <3> SUFFICES ASSUME ~Disturbed'  PROVE Accurate(s)'
      OBVIOUS
    <3>1. Accurate(s) /\ Positioned(s)
      BY <2>2 DEF Inv, SlotsAccurate, LoopsInOrder
    <3> DEFINE n == slot[s].next
               e == slot[s].doc
    <3>2. r = "ok" /\ n \in Positions /\ e \in Docs
      BY <2>1, <2>2, <3>1 DEF Positioned, WritePc
    <3>3. slot'[s].pc = "store" /\ slot'[s].next = n /\ slot'[s].doc = e
      BY <3>2 DEF Inv, TypeOK, Slot
    <3>4. doc[e].status = "PROCESSING" /\ Stored(e, n, n)
      BY <2>1, <3>1 DEF Accurate, StatusAt
    <3>5. /\ chunks'[e][n].rows = chunks[e][n].rows + 1
          /\ chunks'[e][n].vectors = chunks[e][n].vectors
          /\ \A i \in Positions : i # n => chunks'[e][i] = chunks[e][i]
      BY <3>2 DEF Inv, TypeOK
    <3> HIDE DEF n, e
    <3>6. \A i \in Positions : /\ chunks'[e][i].rows = IF i < n + 1 THEN 1 ELSE 0
                               /\ chunks'[e][i].vectors = IF i < n THEN 1 ELSE 0
      BY <3>2, <3>4, <3>5, RowStored
    <3>7. doc'[slot'[s].doc].status \in StatusAt(slot'[s].pc)
      BY <3>3, <3>4 DEF StatusAt
    <3>8. \A i \in Positions :
            /\ chunks'[slot'[s].doc][i].rows = IF i < slot'[s].next + 1 THEN 1 ELSE 0
            /\ chunks'[slot'[s].doc][i].vectors = IF i < slot'[s].next THEN 1 ELSE 0
      BY <3>3, <3>6
    <3>9. QED  BY <3>3, <3>7, <3>8 DEF Accurate, Stored
  <2>6. QED  BY <2>1, <2>2, <2>3, <2>4, <2>5, WorkKeepsOthers
<1>9. QueueAccurate'
  BY <1>8
<1>10. FilesKept'
    BY DEF Inv, FilesKept, Disturbed, TypeOK
<1>11. QED
  BY <1>1, <1>2, <1>3, <1>4, <1>5, <1>6, <1>7, <1>8, <1>9, <1>10 DEF Inv

(* Its vector comes next, and then the next chunk.                         *)
LEMMA StoreEmbeddingStep ==
  ASSUME Inv, NEW s \in Slots, NEW r \in Replies, StoreEmbedding(s, r)
  PROVE  Inv'
<1> USE DEF StoreEmbedding, Loop, Call, OnReply, Replies
<1>1. TypeOK'
  <2>1. slot[s].doc \in Docs /\ slot[s].next \in Positions
    BY OwnDocument DEF Busy, Inv, LoopsInOrder, Positioned, WritePc
  <2> DEFINE c == chunks[slot[s].doc][slot[s].next]
             new == [c EXCEPT !.vectors = @ + 1]
  <2>2. new \in [rows : Nat, vectors : Nat]
    <3>1. c \in [rows : Nat, vectors : Nat]
      BY <2>1 DEF Inv, TypeOK
    <3> HIDE DEF c
    <3>2. QED  BY <3>1
  <2>3. chunks' = chunks \/ chunks' = [chunks EXCEPT ![slot[s].doc][slot[s].next] = new]
    OBVIOUS
  <2> HIDE DEF new
  <2>4. chunks' \in [Docs -> [Positions -> [rows : Nat, vectors : Nat]]]
    BY <2>1, <2>2, <2>3, ChunkType DEF Inv
  <2>5. slot' \in [Slots -> Slot]
    <3> DEFINE pc == OnReply(r, Loop(slot[s].next + 1), "catch")
               moved == [slot[s] EXCEPT !.pc = pc, !.next = @ + 1]
    <3>1. slot[s] \in Slot /\ pc \in SlotPc
      BY DEF Inv, TypeOK, SlotPc, WritePc
    <3> HIDE DEF pc
    <3>2. moved \in Slot
      BY <3>1, SlotMoves
    <3>3. slot' = [slot EXCEPT ![s] = moved]
      BY DEF pc
    <3> HIDE DEF moved
    <3>4. QED  BY <3>2, <3>3 DEF Inv, TypeOK
  <2>6. QED  BY SMTT(20), <2>4, <2>5 DEF Inv, TypeOK
<1>2. Budgets'
    BY DEF Inv, Budgets, TypeOK, Job
<1>3. Serving'
    BY DEF Inv, Serving, TypeOK, Slot, Busy
<1>4. RequestsInOrder'
    BY DEF Inv, RequestsInOrder, RequestOrder, TypeOK, Doc
<1>5. LoopsInOrder'
  <2>1. \A d \in Docs, i \in Positions :
          /\ chunks[d][i].vectors > 0 => chunks'[d][i].vectors > 0
          /\ d = slot[s].doc /\ i = slot[s].next /\ r # "refused" =>
               chunks'[d][i].vectors > 0
    BY DEF Inv, TypeOK
  <2>2. /\ slot[s].doc \in Docs /\ slot[s].next \in Positions
        /\ Positioned(s)
    BY OwnDocument DEF Busy, Inv, LoopsInOrder, Positioned, WritePc
  <2>3. /\ slot'[s].pc = OnReply(r, Loop(slot[s].next + 1), "catch")
        /\ slot'[s].next = slot[s].next + 1
        /\ slot'[s].doc = slot[s].doc
        /\ \A q \in Slots : q # s => slot'[q] = slot[q]
    BY DEF Inv, TypeOK, Slot
  <2>4. ASSUME NEW q \in Slots
        PROVE  Positioned(q)'
    <3>1. CASE q # s
      <4>1. Positioned(q) /\ slot'[q] = slot[q]
        BY <2>3, <3>1 DEF Inv, LoopsInOrder
      <4>2. slot[q].pc \in WritePc \cup {"markReady"} => slot[q].doc \in Docs
        BY DEF Inv, Serving, Busy, WritePc
      <4>3. QED  BY <2>1, <4>1, <4>2 DEF Positioned
    <3>2. CASE q = s
      <4>1. r = "refused" => Positioned(s)'
        BY <2>3 DEF Positioned, WritePc
      <4>2. ASSUME r # "refused", NEW i \in Positions, i < slot[s].next + 1
            PROVE  chunks'[slot[s].doc][i].vectors > 0
        <5>1. CASE i = slot[s].next
          BY <2>1, <2>2, <4>2, <5>1
        <5>2. CASE i < slot[s].next
          <6>1. chunks[slot[s].doc][i].vectors > 0
            BY <2>2, <5>2 DEF Positioned, WritePc
          <6>2. QED  BY <2>1, <2>2, <6>1
        <5>3. QED  BY <2>2, <4>2, <5>1, <5>2 DEF Positions
      <4>3. slot[s].next + 1 \notin Positions => slot[s].next = NumChunks
        BY <2>2 DEF Positions
      <4>4. slot'[s].pc \in {"insert", "markReady", "catch"}
        BY <2>3
      <4>5. slot'[s].pc = "insert" => slot[s].next + 1 \in Positions
        BY <2>3
      <4>6. slot'[s].pc = "markReady" => slot[s].next + 1 = NumChunks + 1
        BY <2>3, <4>3
      <4>7. r # "refused" => Positioned(s)'
        BY <2>2, <2>3, <4>2, <4>4, <4>5, <4>6 DEF Positioned, WritePc
      <4>8. QED  BY <3>2, <4>1, <4>7
    <3>3. QED  BY <3>1, <3>2
  <2>5. QED  BY <2>4 DEF LoopsInOrder
<1>6. ReadyIsComplete'
    BY DEF Inv, ReadyIsComplete, TypeOK
<1>7. OneProcessor'
    BY DEF Inv, OneProcessor, Serving, Budgets, Busy, HasLock, Disturbed,
         TypeOK, Slot, Job
<1>8. SlotsAccurate' /\ QueueAccurate'
  <2>1. Busy(s) /\ slot[s].doc \in Docs
    BY OwnDocument DEF Busy
  <2>2. (Disturbed => Disturbed') /\ (r # "ok" => Disturbed')
    BY CallDisturbs DEF Call, Replies
  <2>3. \A q \in Slots : q # s => slot'[q] = slot[q]
    BY DEF Inv, TypeOK
  <2>4. \A d \in Docs : d # slot[s].doc =>
          doc'[d].status = doc[d].status /\ chunks'[d] = chunks[d]
    BY <2>1 DEF Inv, TypeOK
  <2>5. ~Disturbed' => Accurate(s)'
    <3> SUFFICES ASSUME ~Disturbed'  PROVE Accurate(s)'
      OBVIOUS
    <3>1. Accurate(s) /\ Positioned(s)
      BY <2>2 DEF Inv, SlotsAccurate, LoopsInOrder
    <3> DEFINE n == slot[s].next
               e == slot[s].doc
    <3>2. r = "ok" /\ n \in Positions /\ e \in Docs
      BY <2>1, <2>2, <3>1 DEF Positioned, WritePc
    <3>3. /\ slot'[s].pc \in {"insert", "markReady"}
          /\ slot'[s].next = n + 1 /\ slot'[s].doc = e
      BY <3>2 DEF Inv, TypeOK, Slot
    <3>4. doc[e].status = "PROCESSING" /\ Stored(e, n + 1, n)
      BY <2>1, <3>1 DEF Accurate, StatusAt
    <3>5. /\ chunks'[e][n].rows = chunks[e][n].rows
          /\ chunks'[e][n].vectors = chunks[e][n].vectors + 1
          /\ \A i \in Positions : i # n => chunks'[e][i] = chunks[e][i]
      BY <3>2 DEF Inv, TypeOK
    <3> HIDE DEF n, e
    <3>6. \A i \in Positions : /\ chunks'[e][i].rows = IF i < n + 1 THEN 1 ELSE 0
                               /\ chunks'[e][i].vectors = IF i < n + 1 THEN 1 ELSE 0
      BY <3>2, <3>4, <3>5, VectorStored
    <3>7. doc'[slot'[s].doc].status \in StatusAt(slot'[s].pc)
      BY <3>3, <3>4 DEF StatusAt
    <3>8. \A i \in Positions :
            /\ chunks'[slot'[s].doc][i].rows = IF i < slot'[s].next THEN 1 ELSE 0
            /\ chunks'[slot'[s].doc][i].vectors = IF i < slot'[s].next THEN 1 ELSE 0
      BY <3>3, <3>6
    <3>9. QED  BY <3>3, <3>7, <3>8 DEF Accurate, Stored
  <2>6. QED  BY <2>1, <2>2, <2>3, <2>4, <2>5, WorkKeepsOthers
<1>9. QueueAccurate'
  BY <1>8
<1>10. FilesKept'
    BY DEF Inv, FilesKept, Disturbed, TypeOK
<1>11. QED
  BY <1>1, <1>2, <1>3, <1>4, <1>5, <1>6, <1>7, <1>8, <1>9, <1>10 DEF Inv

(* READY is written when the loop is through.                              *)
LEMMA MarkReadyStep ==
  ASSUME Inv, NEW s \in Slots, NEW r \in Replies, MarkReady(s, r)
  PROVE  Inv'
<1> USE DEF MarkReady, SetStatus, GoTo, Call, OnReply, Replies
<1>1. TypeOK'
  <2>1. \E pc \in {"complete", "catch"} : GoTo(s, pc)
    BY DEF GoTo
  <2>2. slot' \in [Slots -> Slot]
    BY <2>1, GoToType DEF Inv, SlotPc, WritePc
  <2>3. slot[s].doc \in Docs
    BY OwnDocument DEF Busy
  <2>4. SetStatus(r, slot[s].doc, "READY")
    BY DEF SetStatus
  <2>5. doc' \in [Docs -> Doc]
    BY <2>3, <2>4, SetStatusType DEF Inv, Outcomes
  <2>6. QED  BY <2>2, <2>5 DEF Inv, TypeOK
<1>2. Budgets'
    BY DEF Inv, Budgets, TypeOK, Job
<1>3. Serving'
    BY DEF Inv, Serving, TypeOK, Slot, Busy
<1>4. RequestsInOrder'
    BY DEF Inv, RequestsInOrder, RequestOrder, TypeOK, Doc, Serving, Busy
<1>5. LoopsInOrder'
    BY DEF Inv, LoopsInOrder, Positioned, WritePc, TypeOK, Slot
<1>6. ReadyIsComplete'
  <2>1. slot[s].next = NumChunks + 1 /\ slot[s].doc \in Docs
    BY OwnDocument DEF Busy, Inv, LoopsInOrder, Positioned
  <2>2. \A i \in Positions : chunks[slot[s].doc][i].vectors > 0
    BY <2>1 DEF Inv, LoopsInOrder, Positioned, Positions
  <2>3. \A d \in Docs : d # slot[s].doc => doc'[d] = doc[d]
    BY DEF Inv, TypeOK
  <2>4. QED  BY <2>2, <2>3 DEF Inv, ReadyIsComplete
<1>7. OneProcessor'
    BY DEF Inv, OneProcessor, Serving, Budgets, Busy, HasLock, Disturbed,
         TypeOK, Slot, Job
<1>8. SlotsAccurate' /\ QueueAccurate'
  <2>1. Busy(s) /\ slot[s].doc \in Docs
    BY OwnDocument DEF Busy
  <2>2. (Disturbed => Disturbed') /\ (r # "ok" => Disturbed')
    BY CallDisturbs DEF Call, Replies
  <2>3. \A q \in Slots : q # s => slot'[q] = slot[q]
    BY DEF Inv, TypeOK
  <2>4. \A d \in Docs : d # slot[s].doc =>
          doc'[d].status = doc[d].status /\ chunks'[d] = chunks[d]
    BY <2>1 DEF Inv, TypeOK
  <2>5. ~Disturbed' => Accurate(s)'
    <3> SUFFICES ASSUME ~Disturbed'  PROVE Accurate(s)'
      OBVIOUS
    <3>1. Accurate(s) /\ Positioned(s)
      BY <2>2 DEF Inv, SlotsAccurate, LoopsInOrder
    <3>2. QED
      BY <2>1, <2>2, <3>1 DEF Inv, TypeOK, Slot, Doc, Accurate, StatusAt, Stored,
                      Busy, Positioned
  <2>6. QED  BY <2>1, <2>2, <2>3, <2>4, <2>5, WorkKeepsOthers
<1>9. QueueAccurate'
  BY <1>8
<1>10. FilesKept'
    BY DEF Inv, FilesKept, Disturbed, TypeOK
<1>11. QED
  BY <1>1, <1>2, <1>3, <1>4, <1>5, <1>6, <1>7, <1>8, <1>9, <1>10 DEF Inv

(* The catch block leaves FAILED, or a disturbance.                        *)
LEMMA CatchMarkFailedStep ==
  ASSUME Inv, NEW s \in Slots, NEW r \in Replies, CatchMarkFailed(s, r)
  PROVE  Inv'
<1> USE DEF CatchMarkFailed, SetStatus, GoTo, Call, OnReply, Replies
<1>1. TypeOK'
  <2>1. \E pc \in {"throw"} : GoTo(s, pc)
    BY DEF GoTo
  <2>2. slot' \in [Slots -> Slot]
    BY <2>1, GoToType DEF Inv, SlotPc, WritePc
  <2>3. slot[s].doc \in Docs
    BY OwnDocument DEF Busy
  <2>4. SetStatus(r, slot[s].doc, "FAILED")
    BY DEF SetStatus
  <2>5. doc' \in [Docs -> Doc]
    BY <2>3, <2>4, SetStatusType DEF Inv, Outcomes
  <2>6. QED  BY <2>2, <2>5 DEF Inv, TypeOK
<1>2. Budgets'
    BY DEF Inv, Budgets, TypeOK, Job
<1>3. Serving'
    BY DEF Inv, Serving, TypeOK, Slot, Busy
<1>4. RequestsInOrder'
    BY DEF Inv, RequestsInOrder, RequestOrder, TypeOK, Doc, Serving, Busy
<1>5. LoopsInOrder'
    BY DEF Inv, LoopsInOrder, Positioned, WritePc, TypeOK, Slot
<1>6. ReadyIsComplete'
    BY DEF Inv, ReadyIsComplete, TypeOK
<1>7. OneProcessor'
    BY DEF Inv, OneProcessor, Serving, Budgets, Busy, HasLock, Disturbed,
         TypeOK, Slot, Job
<1>8. SlotsAccurate' /\ QueueAccurate'
  <2>1. Busy(s) /\ slot[s].doc \in Docs
    BY OwnDocument DEF Busy
  <2>2. (Disturbed => Disturbed') /\ (r # "ok" => Disturbed')
    BY CallDisturbs DEF Call, Replies
  <2>3. \A q \in Slots : q # s => slot'[q] = slot[q]
    BY DEF Inv, TypeOK
  <2>4. \A d \in Docs : d # slot[s].doc =>
          doc'[d].status = doc[d].status /\ chunks'[d] = chunks[d]
    BY <2>1 DEF Inv, TypeOK
  <2>5. ~Disturbed' => Accurate(s)'
    <3> SUFFICES ASSUME ~Disturbed'  PROVE Accurate(s)'
      OBVIOUS
    <3>1. Accurate(s) /\ Positioned(s)
      BY <2>2 DEF Inv, SlotsAccurate, LoopsInOrder
    <3>2. QED
      BY <2>1, <2>2, <3>1 DEF Inv, TypeOK, Slot, Doc, Accurate, StatusAt, Stored,
                      Busy, Positioned
  <2>6. QED  BY <2>1, <2>2, <2>3, <2>4, <2>5, WorkKeepsOthers
<1>9. QueueAccurate'
  BY <1>8
<1>10. FilesKept'
    BY DEF Inv, FilesKept, Disturbed, TypeOK
<1>11. QED
  BY <1>1, <1>2, <1>3, <1>4, <1>5, <1>6, <1>7, <1>8, <1>9, <1>10 DEF Inv

(* A completed job's slot is free and its document READY.                  *)
LEMMA CompleteJobStep ==
  ASSUME Inv, NEW s \in Slots, CompleteJob(s)
  PROVE  Inv'
<1> USE DEF CompleteJob, Return, EndAttempt, HasLock, Idle, disturbances
<1>1. TypeOK'
  <2> DEFINE e   == slot[s].doc
             new == [job[e] EXCEPT !.state = "completed", !.made = @ + 1, !.lock = None]
  <2>1. e \in Docs
    BY OwnDocument DEF Busy
  <2>2. job[e] \in Job
    BY <2>1 DEF Inv, TypeOK
  <2>3. HasLock(s, e) => job[e].made < MaxAttempts
    BY <2>1 DEF Inv, Budgets
  <2>4. "completed" \in JobState
    BY DEF JobState
  <2>5. HasLock(s, e) => new \in Job
    BY <2>2, <2>3, <2>4, AttemptEnds
  <2>6. job' = IF HasLock(s, e) THEN [job EXCEPT ![e] = new] ELSE job
    OBVIOUS
  <2> HIDE DEF e, new
  <2>7. job' \in [Docs -> Job]
    <3>1. CASE HasLock(s, e)
      BY <2>1, <2>5, <2>6, <3>1, JobType DEF Inv
    <3>2. CASE ~HasLock(s, e)
      BY <2>6, <3>2 DEF Inv, TypeOK
    <3>3. QED  BY <3>1, <3>2
  <2>8. slot' \in [Slots -> Slot]
    BY DEF Inv, TypeOK, Slot, SlotPc
  <2>9. QED  BY <2>7, <2>8 DEF Inv, TypeOK
<1>2. Budgets'
    BY DEF Inv, Budgets, TypeOK, Job
<1>3. Serving'
    BY DEF Inv, Serving, TypeOK, Slot, Busy
<1>4. RequestsInOrder'
    BY DEF Inv, RequestsInOrder, RequestOrder, TypeOK, Doc
<1>5. LoopsInOrder'
    BY DEF Inv, LoopsInOrder, Positioned, WritePc, TypeOK, Slot
<1>6. ReadyIsComplete'
    BY DEF Inv, ReadyIsComplete, TypeOK
<1>7. OneProcessor'
  <2>1. /\ Busy(s) /\ slot[s].doc \in Docs
        /\ \A k \in Docs : k # slot[s].doc => job'[k] = job[k]
        /\ slot'[s] = Idle /\ \A q \in Slots : q # s => slot'[q] = slot[q]
    BY OwnDocument DEF Busy, Inv, TypeOK
  <2> SUFFICES ASSUME ~Disturbed
               PROVE  /\ \A q \in Slots : Busy(q)' => HasLock(q, slot[q].doc)'
                      /\ \A k \in Docs : job'[k].state = "active" =>
                                         slot'[job'[k].lock].doc = k
    BY DEF OneProcessor, Disturbed
  <2>2. job[slot[s].doc].state = "active" /\ job[slot[s].doc].lock = s
    BY <2>1, ActiveJob
  <2>3. job'[slot[s].doc].state # "active"
    BY <2>1, <2>2 DEF Inv, TypeOK, Job
  <2>4. ASSUME NEW q \in Slots, Busy(q)'  PROVE HasLock(q, slot[q].doc)'
    <3>1. q # s /\ slot'[q] = slot[q] /\ Busy(q)
      BY <2>1, <2>4 DEF Busy
    <3>2. slot[q].doc # slot[s].doc /\ slot[q].doc \in Docs
      BY <2>1, <3>1, Alone, OwnDocument
    <3>3. job'[slot[q].doc] = job[slot[q].doc]
      BY <2>1, <3>2
    <3>4. job[slot[q].doc].state = "active" /\ job[slot[q].doc].lock = q
      BY <3>1, ActiveJob
    <3>5. QED  BY <3>1, <3>3, <3>4
  <2>5. ASSUME NEW k \in Docs, job'[k].state = "active"
        PROVE  slot'[job'[k].lock].doc = k
    <3>1. k # slot[s].doc /\ job'[k] = job[k]
      BY <2>1, <2>3, <2>5
    <3>2. slot[job[k].lock].doc = k /\ job[k].lock \in Slots
      BY <2>5, <3>1 DEF Inv, OneProcessor, Budgets
    <3>3. QED  BY <2>1, <3>1, <3>2
  <2>6. QED  BY <2>4, <2>5
<1>8. SlotsAccurate'
    BY DEF Inv, SlotsAccurate, Accurate, Stored, StatusAt, Serving, Busy,
         Disturbed, TypeOK, Slot
<1>9. QueueAccurate'
  <2>1. Busy(s) /\ slot[s].doc \in Docs
    BY OwnDocument DEF Busy
  <2> SUFFICES ASSUME ~Disturbed, NEW d \in Docs, Awaiting(d), Accurate(s)
               PROVE  Awaiting(d)'
    BY DEF Inv, SlotsAccurate, QueueAccurate, Disturbed
  <2>2. CASE d # slot[s].doc
    <3>1. job'[d] = job[d]
      BY <2>2 DEF Inv, TypeOK
    <3>2. QED  BY <3>1, AwaitingKept
  <2>3. CASE d = slot[s].doc
    <3>1. job'[d].state = "completed"
      BY <2>1, <2>3, ActiveJob DEF Inv, TypeOK, Job
    <3>2. QED  BY <2>1, <2>3, <3>1 DEF Awaiting, Accurate, StatusAt, Stored
  <2>4. QED  BY <2>2, <2>3
<1>10. FilesKept'
    BY DEF Inv, FilesKept, Disturbed, TypeOK
<1>11. QED
  BY <1>1, <1>2, <1>3, <1>4, <1>5, <1>6, <1>7, <1>8, <1>9, <1>10 DEF Inv

(* A failed attempt is counted, its slot is free and its document FAILED.  *)
LEMMA FailAttemptStep ==
  ASSUME Inv, NEW s \in Slots, FailAttempt(s)
  PROVE  Inv'
<1> USE DEF FailAttempt, Return, EndAttempt, RetryOrFail, HasLock, Idle, disturbances
<1>1. TypeOK'
  <2> DEFINE e   == slot[s].doc
             new == [job[e] EXCEPT !.state = RetryOrFail(slot[s].doc),
                                   !.made = @ + 1, !.lock = None]
  <2>1. e \in Docs
    BY OwnDocument DEF Busy
  <2>2. job[e] \in Job
    BY <2>1 DEF Inv, TypeOK
  <2>3. HasLock(s, e) => job[e].made < MaxAttempts
    BY <2>1 DEF Inv, Budgets
  <2>4. RetryOrFail(slot[s].doc) \in JobState
    BY DEF JobState
  <2>5. HasLock(s, e) => new \in Job
    BY <2>2, <2>3, <2>4, AttemptEnds
  <2>6. job' = IF HasLock(s, e) THEN [job EXCEPT ![e] = new] ELSE job
    OBVIOUS
  <2> HIDE DEF e, new
  <2>7. job' \in [Docs -> Job]
    <3>1. CASE HasLock(s, e)
      BY <2>1, <2>5, <2>6, <3>1, JobType DEF Inv
    <3>2. CASE ~HasLock(s, e)
      BY <2>6, <3>2 DEF Inv, TypeOK
    <3>3. QED  BY <3>1, <3>2
  <2>8. slot' \in [Slots -> Slot]
    BY DEF Inv, TypeOK, Slot, SlotPc
  <2>9. QED  BY <2>7, <2>8 DEF Inv, TypeOK
<1>2. Budgets'
  <2>1. Busy(s) /\ slot[s].doc \in Docs
    BY OwnDocument DEF Busy
  <2> SUFFICES ASSUME NEW k \in Docs
               PROVE  /\ job'[k].state \in {"wait", "active", "delayed"} =>
                           job'[k].made < MaxAttempts /\ job'[k].stalls <= MaxStalled
                      /\ job'[k].state = "active" => job'[k].lock \in Slots
    BY DEF Budgets
  <2>2. CASE k # slot[s].doc \/ ~HasLock(s, k)
    <3>1. job'[k] = job[k]
      BY <2>2 DEF Inv, TypeOK
    <3>2. QED  BY <3>1 DEF Inv, Budgets
  <2>3. CASE k = slot[s].doc /\ HasLock(s, k)
    <3>1. /\ job'[k].state = RetryOrFail(k) /\ job'[k].stalls = job[k].stalls
          /\ job'[k].made = job[k].made + 1
      BY <2>3 DEF Inv, TypeOK, Job
    <3>2. job[k].made \in Nat /\ job[k].stalls <= MaxStalled
      BY <2>3 DEF Inv, TypeOK, Job, Budgets
    <3>3. \/ job'[k].state = "delayed" /\ job[k].made + 1 < MaxAttempts
          \/ job'[k].state = "failed"
      BY <3>1
    <3>4. QED  BY <3>1, <3>2, <3>3
  <2>4. QED  BY <2>2, <2>3
<1>3. Serving'
    BY DEF Inv, Serving, TypeOK, Slot, Busy
<1>4. RequestsInOrder'
    BY DEF Inv, RequestsInOrder, RequestOrder, TypeOK, Doc
<1>5. LoopsInOrder'
    BY DEF Inv, LoopsInOrder, Positioned, WritePc, TypeOK, Slot
<1>6. ReadyIsComplete'
    BY DEF Inv, ReadyIsComplete, TypeOK
<1>7. OneProcessor'
  <2>1. /\ Busy(s) /\ slot[s].doc \in Docs
        /\ \A k \in Docs : k # slot[s].doc => job'[k] = job[k]
        /\ slot'[s] = Idle /\ \A q \in Slots : q # s => slot'[q] = slot[q]
    BY OwnDocument DEF Busy, Inv, TypeOK
  <2> SUFFICES ASSUME ~Disturbed
               PROVE  /\ \A q \in Slots : Busy(q)' => HasLock(q, slot[q].doc)'
                      /\ \A k \in Docs : job'[k].state = "active" =>
                                         slot'[job'[k].lock].doc = k
    BY DEF OneProcessor, Disturbed
  <2>2. job[slot[s].doc].state = "active" /\ job[slot[s].doc].lock = s
    BY <2>1, ActiveJob
  <2>3. job'[slot[s].doc].state # "active"
    BY <2>1, <2>2 DEF Inv, TypeOK, Job
  <2>4. ASSUME NEW q \in Slots, Busy(q)'  PROVE HasLock(q, slot[q].doc)'
    <3>1. q # s /\ slot'[q] = slot[q] /\ Busy(q)
      BY <2>1, <2>4 DEF Busy
    <3>2. slot[q].doc # slot[s].doc /\ slot[q].doc \in Docs
      BY <2>1, <3>1, Alone, OwnDocument
    <3>3. job'[slot[q].doc] = job[slot[q].doc]
      BY <2>1, <3>2
    <3>4. job[slot[q].doc].state = "active" /\ job[slot[q].doc].lock = q
      BY <3>1, ActiveJob
    <3>5. QED  BY <3>1, <3>3, <3>4
  <2>5. ASSUME NEW k \in Docs, job'[k].state = "active"
        PROVE  slot'[job'[k].lock].doc = k
    <3>1. k # slot[s].doc /\ job'[k] = job[k]
      BY <2>1, <2>3, <2>5
    <3>2. slot[job[k].lock].doc = k /\ job[k].lock \in Slots
      BY <2>5, <3>1 DEF Inv, OneProcessor, Budgets
    <3>3. QED  BY <2>1, <3>1, <3>2
  <2>6. QED  BY <2>4, <2>5
<1>8. SlotsAccurate'
    BY DEF Inv, SlotsAccurate, Accurate, Stored, StatusAt, Serving, Busy,
         Disturbed, TypeOK, Slot
<1>9. QueueAccurate'
  <2>1. Busy(s) /\ slot[s].doc \in Docs
    BY OwnDocument DEF Busy
  <2> SUFFICES ASSUME ~Disturbed, NEW d \in Docs, Awaiting(d), Accurate(s)
               PROVE  Awaiting(d)'
    BY DEF Inv, SlotsAccurate, QueueAccurate, Disturbed
  <2>2. CASE d # slot[s].doc
    <3>1. job'[d] = job[d]
      BY <2>2 DEF Inv, TypeOK
    <3>2. QED  BY <3>1, AwaitingKept
  <2>3. CASE d = slot[s].doc
    <3>1. job'[d].state \in {"delayed", "failed"}
      BY <2>1, <2>3, ActiveJob DEF Inv, TypeOK, Job
    <3>2. QED  BY <2>1, <2>3, <3>1 DEF Awaiting, Accurate, StatusAt, Stored
  <2>4. QED  BY <2>2, <2>3
<1>10. FilesKept'
    BY DEF Inv, FilesKept, Disturbed, TypeOK
<1>11. QED
  BY <1>1, <1>2, <1>3, <1>4, <1>5, <1>6, <1>7, <1>8, <1>9, <1>10 DEF Inv

(* A crash frees slots and answers nobody.                                 *)
LEMMA CrashStep ==
  ASSUME Inv, NEW p \in Procs, Crash(p)
  PROVE  Inv'
<1> USE DEF Crash, CutOff, Idle
<1>1. TypeOK'
  <2>1. slot' \in [Slots -> Slot]
    BY DEF Inv, TypeOK, Slot, SlotPc
  <2>2. upload' \in [Docs -> {"idle", "create", "enqueue", "accepted", "error"}]
    BY DEF Inv, TypeOK
  <2>3. removal' \in [Docs -> {"idle", "unlink", "done", "error"}]
    BY DEF Inv, TypeOK
  <2>4. QED  BY <2>1, <2>2, <2>3 DEF Inv, TypeOK
<1>2. Budgets'
    BY DEF Inv, Budgets, TypeOK, Job
<1>3. Serving'
    BY DEF Inv, Serving, TypeOK, Slot, Busy
<1>4. RequestsInOrder'
    BY DEF Inv, RequestsInOrder, RequestOrder, TypeOK, Doc
<1>5. LoopsInOrder'
    BY DEF Inv, LoopsInOrder, Positioned, WritePc, TypeOK, Slot
<1>6. ReadyIsComplete'
    BY DEF Inv, ReadyIsComplete, TypeOK
<1>7. OneProcessor'
    BY DEF Inv, OneProcessor, Serving, Budgets, Busy, HasLock, Disturbed,
         TypeOK, Slot, Job
<1>8. SlotsAccurate'
    BY DEF Inv, SlotsAccurate, Accurate, Stored, StatusAt, Serving, Busy,
         Disturbed, TypeOK, Slot
<1>9. QueueAccurate'
    BY DEF Inv, QueueAccurate, Awaiting, Stored, Disturbed, TypeOK, Job
<1>10. FilesKept'
    BY DEF Inv, FilesKept, Disturbed, TypeOK
<1>11. QED
  BY <1>1, <1>2, <1>3, <1>4, <1>5, <1>6, <1>7, <1>8, <1>9, <1>10 DEF Inv

-----------------------------------------------------------------------------
(* Initially there are no documents. *)
LEMMA InitInv == Init => Inv
<1> SUFFICES ASSUME Init  PROVE Inv
  OBVIOUS
<1> USE DEF Init, NoDoc, NoJob, Idle
<1>1. TypeOK
  <2>1. doc \in [Docs -> Doc]
    BY DEF Doc
  <2>2. chunks \in [Docs -> [Positions -> [rows : Nat, vectors : Nat]]]
    OBVIOUS
  <2>3. slot \in [Slots -> Slot]
    BY DEF Slot, SlotPc
  <2>4. job \in [Docs -> Job]
    BY DEF Job, JobState
  <2>5. QED  BY <2>1, <2>2, <2>3, <2>4 DEF TypeOK
<1>2. Budgets /\ Serving /\ RequestsInOrder
  BY DEF Budgets, Serving, RequestsInOrder, RequestOrder, Busy
<1>3. LoopsInOrder /\ ReadyIsComplete
  BY DEF LoopsInOrder, Positioned, WritePc, ReadyIsComplete
<1>4. OneProcessor /\ SlotsAccurate
  BY DEF OneProcessor, SlotsAccurate, Accurate, Busy
<1>5. QueueAccurate
  BY DEF QueueAccurate, Awaiting, Stored, Positions
<1>6. FilesKept
  BY DEF FilesKept
<1>7. QED  BY <1>1, <1>2, <1>3, <1>4, <1>5, <1>6 DEF Inv

(* Inv depends on nothing but the variables. *)
LEMMA Stuttering ==
  ASSUME Inv, UNCHANGED vars
  PROVE  Inv'
<1> USE DEF vars
<1>1. TypeOK' /\ Budgets' /\ Serving' /\ RequestsInOrder'
  BY DEF Inv, TypeOK, Budgets, Serving, Busy, RequestsInOrder, RequestOrder
<1>2. LoopsInOrder' /\ ReadyIsComplete'
  BY DEF Inv, LoopsInOrder, Positioned, ReadyIsComplete
<1>3. OneProcessor' /\ FilesKept'
  BY DEF Inv, OneProcessor, Busy, HasLock, FilesKept, Disturbed
<1>4. SlotsAccurate' /\ QueueAccurate'
  <2>1. Disturbed' = Disturbed
    BY DEF Disturbed
  <2>2. QED
    BY <2>1, AccurateKept, AwaitingKept DEF Inv, SlotsAccurate, QueueAccurate
<1>5. QED  BY <1>1, <1>2, <1>3, <1>4 DEF Inv

(* Every awaited call of the handlers and every move of the queue leaves   *)
(* files, rows, chunks and processors as Inv says.                         *)
LEMMA NextStep ==
  ASSUME Inv, [Next]_vars
  PROVE  Inv'
<1>1. ASSUME NEW d \in Docs, NEW r \in Replies, UploadFile(d, r) \/ SoftDelete(d, r)
      PROVE  Inv'
  BY <1>1, UploadFileStep, SoftDeleteStep
<1>2. ASSUME NEW d \in Docs, Requests(d)
      PROVE  Inv'
  BY <1>2, UploadCreateStep, UploadEnqueueStep, UnlinkStep DEF Requests
<1>3. ASSUME NEW s \in Slots, Processing(s)
      PROVE  Inv'
  <2>1. ASSUME NEW r \in Replies,
               \/ MarkProcessing(s, r) \/ ReadFile(s, r) \/ EmbedChunks(s, r)
               \/ InsertChunk(s, r) \/ StoreEmbedding(s, r)
               \/ MarkReady(s, r) \/ CatchMarkFailed(s, r)
        PROVE  Inv'
    BY <2>1, MarkProcessingStep, ReadFileStep, EmbedChunksStep, InsertChunkStep,
       StoreEmbeddingStep, MarkReadyStep, CatchMarkFailedStep
  <2>2. QED
    BY <1>3, <2>1, ParseStep, CompleteJobStep, FailAttemptStep DEF Processing
<1>4. ASSUME NEW d \in Docs, Queueing(d)
      PROVE  Inv'
  BY <1>4, TakeJobStep, PromoteDelayedStep, RecoverStalledStep, LoseLockStep
  DEF Queueing
<1>5. ASSUME NEW p \in Procs, Crash(p)
      PROVE  Inv'
  BY <1>5, CrashStep
<1>6. CASE UNCHANGED vars
  BY <1>6, Stuttering
<1>7. QED  BY <1>1, <1>2, <1>3, <1>4, <1>5, <1>6 DEF Next, Quiescent

(* Inv holds in every reachable state. *)
THEOREM AlwaysInv == Spec => []Inv
BY InitInv, NextStep, PTL DEF Spec

(* The variables keep their types. *)
THEOREM TypeCorrect == Spec => []TypeOK
<1>1. Inv => TypeOK
  BY DEF Inv
<1>2. QED  BY <1>1, AlwaysInv, PTL

(* READY is written only behind a vector for every chunk, whatever failed, *)
(* died or ran twice. *)
THEOREM ReadyIsAlwaysComplete == Spec => []ReadyIsComplete
<1>1. Inv => ReadyIsComplete
  BY DEF Inv
<1>2. QED  BY <1>1, AlwaysInv, PTL

(* A document that is not deleted has its file, whatever fails between the *)
(* stores. *)
THEOREM DocumentAlwaysHasFile == Spec => []DocumentHasFile
<1>1. Inv => DocumentHasFile
  BY DEF Inv, TypeOK, RequestsInOrder, RequestOrder, DocumentHasFile, Deletable
<1>2. QED  BY <1>1, AlwaysInv, PTL

(* Without a failure a search finds READY documents, each chunk once, and  *)
(* none that waits or has failed. *)
THEOREM SearchAlwaysFollowsStatus == Spec => []SearchFollowsStatus
<1>1. Inv => SearchFollowsStatus
  <2> SUFFICES ASSUME Inv, ~Disturbed, NEW d \in Docs, NEW i \in Positions
               PROVE  /\ doc[d].status = "READY" => chunks[d][i].vectors = 1
                      /\ doc[d].status \in {"PENDING", "FAILED"} =>
                           chunks[d][i].vectors = 0
                      /\ chunks[d][i].vectors <= 1
    BY DEF SearchFollowsStatus, Found
  <2>1. Awaiting(d) /\ i \in Nat /\ i >= 1 /\ i <= NumChunks /\ job[d].state \in JobState
    BY DEF Inv, TypeOK, Job, QueueAccurate, Positions
  <2>2. CASE job[d].state # "active"
    BY <2>1, <2>2 DEF Awaiting, Stored, JobState
  <2>3. CASE job[d].state = "active"
    <3> DEFINE s == job[d].lock
    <3>1. s \in Slots /\ slot[s].doc = d /\ Busy(s)
      BY <2>3 DEF Inv, OneProcessor, Budgets, Serving
    <3>2. Accurate(s) /\ Positioned(s) /\ slot[s].pc \in SlotPc
      BY <3>1 DEF Inv, SlotsAccurate, LoopsInOrder, TypeOK, Slot
    <3> HIDE DEF s
    <3>3. chunks[d][i].vectors = IF i < slot[s].next THEN 1 ELSE 0
      BY <3>1, <3>2 DEF Accurate, Stored
    <3>4. doc[d].status \in StatusAt(slot[s].pc)
      BY <3>1, <3>2 DEF Accurate
    <3>5. slot[s].pc = "complete" => slot[s].next = NumChunks + 1
      BY <3>1, <3>2 DEF Accurate
    <3>6. slot[s].pc \in {"markProcessing", "throw"} => slot[s].next = 1
      BY <3>1, <3>2 DEF Accurate, Positioned
    <3>7. QED  BY <2>1, <3>3, <3>4, <3>5, <3>6 DEF StatusAt
  <2>4. QED  BY <2>2, <2>3
<1>2. QED  BY <1>1, AlwaysInv, PTL

-----------------------------------------------------------------------------
(* The refinement: each action is an action of the lifecycle, or leaves    *)
(* its variables alone. *)

(* Disturbances are never forgotten. *)
LEMMA DisturbedStays ==
  ASSUME Inv, Next
  PROVE  Disturbed => Disturbed'
<1> DEFINE Stays == Disturbed => Disturbed'
<1>1. ASSUME NEW r \in Replies, Call(r)  PROVE Stays
  BY <1>1, CallDisturbs
<1>2. CASE UNCHANGED disturbances
  BY <1>2 DEF disturbances, Disturbed
<1>3. ASSUME NEW d \in Docs, NEW r \in Replies, UploadFile(d, r) \/ SoftDelete(d, r)
      PROVE  Stays
  BY <1>1, <1>3 DEF UploadFile, SoftDelete
<1>4. ASSUME NEW d \in Docs, Requests(d)  PROVE Stays
  BY <1>1, <1>4 DEF Requests, UploadCreate, UploadEnqueue, Unlink
<1>5. ASSUME NEW s \in Slots, Processing(s)  PROVE Stays
  BY <1>1, <1>2, <1>5
  DEF Processing, MarkProcessing, ReadFile, EmbedChunks, InsertChunk, StoreEmbedding,
      MarkReady, CatchMarkFailed, Parse, CompleteJob, FailAttempt, Return
<1>6. ASSUME NEW d \in Docs, Queueing(d)  PROVE Stays
  <2>1. ASSUME LoseLock(d)  PROVE Stays
    BY <2>1 DEF LoseLock, Disturbed, Inv, TypeOK
  <2>2. QED
    BY <1>2, <1>6, <2>1 DEF Queueing, TakeJob, PromoteDelayed, RecoverStalled
<1>7. ASSUME NEW p \in Procs, Crash(p)  PROVE Stays
  BY <1>7 DEF Crash, Disturbed, Inv, TypeOK
<1>8. ASSUME UNCHANGED vars  PROVE Stays
  BY <1>8 DEF vars, Disturbed
<1> HIDE DEF Stays
<1>9. Stays
  BY <1>3, <1>4, <1>5, <1>6, <1>7, <1>8 DEF Next, Quiescent
<1>10. QED  BY <1>9 DEF Stays

(* What one row of the status column does in a lifecycle step. *)
LEMMA LifecycleMove ==
  ASSUME Inv, NEW d \in Docs, NEW new \in {"PENDING", "PROCESSING"} \cup Outcomes,
         doc' = [doc EXCEPT ![d].status = new],
         Disturbed => Disturbed',
         \/ doc[d].status = "NONE" /\ new = "PENDING"
         \/ doc[d].status \in {"PENDING", "FAILED"} /\ new = "PROCESSING"
         \/ doc[d].status = "PROCESSING" /\ new \in Outcomes
         \/ Disturbed' /\ doc[d].status \in {"PROCESSING"} \cup Outcomes
                       /\ new \in {"PROCESSING"} \cup Outcomes
  PROVE  Lifecycle!Next
<1> DEFINE status == [x \in Docs |-> LifecycleStatus(doc[x].status)]
<1>1. status' = [status EXCEPT ![d] = LifecycleStatus(new)]
  <2>1. \A x \in Docs : doc'[x].status = IF x = d THEN new ELSE doc[x].status
    BY DEF Inv, TypeOK, Doc
  <2>2. \A x \in Docs : LifecycleStatus(doc'[x].status) =
                          IF x = d THEN LifecycleStatus(new)
                                   ELSE LifecycleStatus(doc[x].status)
    BY <2>1
  <2>3. status' = [x \in Docs |-> LifecycleStatus(doc'[x].status)]
    BY DEF LifecycleStatus
  <2>4. QED  BY <2>2, <2>3
<1>2. Disturbed' \in {Disturbed, TRUE}
  BY DEF Disturbed
<1>3. status[d] = LifecycleStatus(doc[d].status)
  OBVIOUS
<1>4. \/ Lifecycle!Create(d) \/ Lifecycle!Start(d) \/ Lifecycle!Finish(d)
      \/ Lifecycle!Revise(d)
  BY <1>1, <1>3
  DEF LifecycleStatus, Outcomes, Lifecycle!Create, Lifecycle!Start, Lifecycle!Finish,
      Lifecycle!Revise, Lifecycle!Move, Lifecycle!Outcomes, Lifecycle!Started
<1>5. QED  BY <1>2, <1>4 DEF Lifecycle!Next

(* An update of a processor that has got past its first call. *)
LEMMA ProcessorMove ==
  ASSUME Inv, NEW s \in Slots, slot[s].pc \in {"markReady", "catch"},
         NEW new \in Outcomes, NEW r, SetStatus(r, slot[s].doc, new), r # "refused",
         Disturbed => Disturbed'
  PROVE  Lifecycle!Next
<1> DEFINE d == slot[s].doc
<1>1. Busy(s) /\ d \in Docs /\ doc[d].status \notin {"NONE", "PENDING"}
  BY OwnDocument DEF Busy, Inv, Serving
<1>2. doc[d].status \in {"PROCESSING"} \cup Outcomes
  BY <1>1 DEF Inv, TypeOK, Doc
<1>3. Disturbed' \/ doc[d].status = "PROCESSING"
  BY <1>1 DEF Inv, SlotsAccurate, Accurate, StatusAt
<1>4. doc' = [doc EXCEPT ![d].status = new]
  BY DEF SetStatus
<1> HIDE DEF d
<1>5. QED  BY <1>1, <1>2, <1>3, <1>4, LifecycleMove

(* An awaited call that reaches a row moves its status as the lifecycle    *)
(* allows; one that is refused, or no such call, leaves it. *)
LEMMA StepImplements ==
  ASSUME Inv, Next
  PROVE  Lifecycle!Next
<1>1. Disturbed => Disturbed'
  BY DisturbedStays
<1>2. ASSUME \A d \in Docs : doc'[d].status = doc[d].status  PROVE Lifecycle!Next
  BY <1>1, <1>2 DEF Lifecycle!Next, Disturbed
<1>3. CASE UNCHANGED doc
  BY <1>2, <1>3
<1>4. ASSUME NEW d \in Docs, NEW r \in Replies, UploadCreate(d, r)
      PROVE  Lifecycle!Next
  <2>1. doc[d].status = "NONE"
    BY <1>4 DEF UploadCreate, Inv, RequestsInOrder, RequestOrder
  <2>2. CASE doc' = [doc EXCEPT ![d].status = "PENDING"]
    BY <1>1, <2>1, <2>2, LifecycleMove
  <2>3. QED  BY <1>3, <1>4, <2>2 DEF UploadCreate, SetStatus
<1>5. ASSUME NEW d \in Docs, NEW r \in Replies, SoftDelete(d, r)
      PROVE  Lifecycle!Next
  <2>1. \A e \in Docs : doc'[e].status = doc[e].status
    BY <1>5 DEF SoftDelete, Inv, TypeOK, Doc
  <2>2. QED  BY <1>2, <2>1
<1>6. ASSUME NEW s \in Slots, NEW r \in Replies, MarkProcessing(s, r)
      PROVE  Lifecycle!Next
  <2> DEFINE d == slot[s].doc
  <2>1. Busy(s) /\ d \in Docs /\ doc[d].status # "NONE"
    BY <1>6, OwnDocument DEF MarkProcessing, Busy
  <2>2. doc[d].status \in {"PENDING", "PROCESSING"} \cup Outcomes
    BY <2>1 DEF Inv, TypeOK, Doc
  <2>3. Disturbed' \/ doc[d].status \in {"PENDING", "FAILED"}
    BY <1>1, <1>6, <2>1 DEF MarkProcessing, Inv, SlotsAccurate, Accurate, StatusAt
  <2>4. CASE doc' = [doc EXCEPT ![d].status = "PROCESSING"]
    <3> HIDE DEF d
    <3>1. QED  BY <1>1, <2>1, <2>2, <2>3, <2>4, LifecycleMove
  <2>5. QED  BY <1>3, <1>6, <2>4 DEF MarkProcessing, SetStatus
<1>7. ASSUME NEW s \in Slots, NEW r \in Replies, MarkReady(s, r) \/ CatchMarkFailed(s, r)
      PROVE  Lifecycle!Next
  <2>1. CASE r = "refused"
    BY <1>3, <1>7, <2>1 DEF MarkReady, CatchMarkFailed, SetStatus
  <2>2. CASE r # "refused"
    <3>1. PICK new \in Outcomes : SetStatus(r, slot[s].doc, new)
      BY <1>7 DEF MarkReady, CatchMarkFailed, Outcomes
    <3>2. slot[s].pc \in {"markReady", "catch"}
      BY <1>7 DEF MarkReady, CatchMarkFailed
    <3>3. QED  BY <1>1, <2>2, <3>1, <3>2, ProcessorMove
  <2>3. QED  BY <2>1, <2>2
<1>8. ASSUME NEW d \in Docs, Requests(d)  PROVE Lifecycle!Next
  BY <1>3, <1>4, <1>8 DEF Requests, UploadEnqueue, Unlink
<1>9. ASSUME NEW s \in Slots, Processing(s)  PROVE Lifecycle!Next
  BY <1>3, <1>6, <1>7, <1>9
  DEF Processing, ReadFile, Parse, EmbedChunks, InsertChunk, StoreEmbedding,
      CompleteJob, FailAttempt, Return
<1>10. ASSUME NEW d \in Docs, Queueing(d)  PROVE Lifecycle!Next
  BY <1>3, <1>10 DEF Queueing, TakeJob, PromoteDelayed, RecoverStalled, LoseLock
<1>11. CASE (\E p \in Procs : Crash(p)) \/ Quiescent
  BY <1>3, <1>11 DEF Crash, Quiescent, vars
<1>12. ASSUME NEW d \in Docs, NEW r \in Replies, UploadFile(d, r)  PROVE Lifecycle!Next
  BY <1>3, <1>12 DEF UploadFile
<1>13. QED  BY <1>5, <1>8, <1>9, <1>10, <1>11, <1>12 DEF Next

(* The status column of a document keeps the promise of RowLifecycle, like *)
(* that of an execution. *)
THEOREM Refinement == Spec => ImplementsLifecycle
<1>1. Init => Lifecycle!Init
  BY DEF Init, NoDoc, LifecycleStatus, Lifecycle!Init, Disturbed
<1>2. Inv /\ [Next]_vars => [Lifecycle!Next]_(Lifecycle!vars)
  <2>1. CASE UNCHANGED vars
    BY <2>1 DEF vars, Lifecycle!vars, Disturbed
  <2>2. QED  BY <2>1, StepImplements
<1>3. QED
  BY <1>1, <1>2, AlwaysInv, PTL DEF Spec, ImplementsLifecycle, Lifecycle!Spec

-----------------------------------------------------------------------------
(* Work runs out: the ranks of jobs and processors only go down.           *)

(* What has not begun is whole: a job that was never added has all its     *)
(* attempts, and a slot without a processor is the empty one.              *)
Unspent ==
  /\ \A d \in Docs : job[d].state = "none" => job[d].made = 0 /\ job[d].stalls = 0
  /\ \A s \in Slots : slot[s].pc = "idle" => slot[s] = Idle

JobsGoOn ==
  \A d \in Docs : job'[d] # job[d] =>
    Lower(job'[d], job[d]) /\ job'[d].state # "none"

SlotsGoOn ==
  \A s \in Slots : slot'[s] # slot[s] =>
    /\ slot'[s].pc = "idle" => slot'[s] = Idle
    /\ \/ CallsLeft(slot'[s]) < CallsLeft(slot[s])
       \/ \E d \in Docs : job'[d] # job[d] /\ job'[d].lock = s

(* Less of a job is left if it moves on within an attempt, and if another  *)
(* attempt or stall is counted.                                            *)
LEMMA LowerWithin ==
  ASSUME NEW old \in Job, NEW new \in Job, new.made = old.made, new.stalls = old.stalls,
         Standing(new.state) < Standing(old.state)
  PROVE  Lower(new, old)
<1>1. old.made \in 0..MaxAttempts /\ old.stalls \in 0..(MaxStalled + 1)
  BY DEF Job
<1>2. old.state \in JobState /\ new.state \in JobState
  BY DEF Job
<1>3. Standing(old.state) \in 0..3 /\ Standing(new.state) \in 0..3
  BY <1>2 DEF JobState, Standing
<1>4. QED  BY <1>1, <1>3 DEF Lower, JobRank

LEMMA LowerAfter ==
  ASSUME NEW old \in Job, NEW new \in Job, new.state # "none",
         new.made + new.stalls = old.made + old.stalls + 1
  PROVE  Lower(new, old)
<1>1. /\ old.made \in 0..MaxAttempts /\ old.stalls \in 0..(MaxStalled + 1)
      /\ new.made \in 0..MaxAttempts /\ new.stalls \in 0..(MaxStalled + 1)
  BY DEF Job
<1>2. old.state \in JobState /\ new.state \in JobState
  BY DEF Job
<1>3. Standing(old.state) \in 0..3 /\ Standing(new.state) \in 0..2
  BY <1>2 DEF JobState, Standing
<1>4. QED  BY <1>1, <1>3 DEF Lower, JobRank

(* One job that steps down is all that changes of the queue.               *)
LEMMA OneGoesOn ==
  ASSUME TypeOK, NEW d \in Docs, NEW new \in Job, job' = [job EXCEPT ![d] = new],
         Lower(new, job[d]), new.state # "none"
  PROVE  JobsGoOn /\ job'[d] = new
  BY DEF JobsGoOn, TypeOK

(* The job of a document is added where there is none.                     *)
LEMMA AddedLower ==
  ASSUME TypeOK, Unspent, NEW d \in Docs, job[d].state = "none",
         job' = [job EXCEPT ![d] = NewJob]
  PROVE  JobsGoOn
<1>1. job[d] \in Job /\ NewJob \in Job
  <2>1. job[d] \in Job
    BY DEF TypeOK
  <2>2. NewJob \in Job
    BY DEF NewJob, NoJob, Job, JobState
  <2>3. QED  BY <2>1, <2>2
<1>2. job[d].made = 0 /\ job[d].stalls = 0
  BY DEF Unspent
<1>3. Lower(NewJob, job[d])
  BY <1>1, <1>2, LowerWithin DEF NewJob, NoJob, Standing
<1>4. QED  BY <1>1, <1>3, OneGoesOn DEF NewJob, NoJob

LEMMA TakenLower ==
  ASSUME TypeOK, NEW d \in Docs, NEW s \in Slots, job[d].state = "wait", GiveJob(d, s)
  PROVE  JobsGoOn /\ job'[d] # job[d] /\ job'[d].lock = s
<1> DEFINE new == [job[d] EXCEPT !.state = "active", !.lock = s]
<1>1. job[d] \in Job
  BY DEF TypeOK
<1>2. /\ new \in Job /\ new.state = "active" /\ new.lock = s
      /\ new.made = job[d].made /\ new.stalls = job[d].stalls
  BY <1>1 DEF Job, JobState
<1>3. job' = [job EXCEPT ![d] = new]
  BY DEF GiveJob
<1> HIDE DEF new
<1>4. Lower(new, job[d])
  BY <1>1, <1>2, LowerWithin DEF Standing
<1>5. JobsGoOn /\ job'[d] = new
  BY <1>2, <1>3, <1>4, OneGoesOn
<1>6. QED  BY <1>2, <1>5

LEMMA PromotedLower ==
  ASSUME TypeOK, NEW d \in Docs, Promote(d)
  PROVE  JobsGoOn
<1> DEFINE new == [job[d] EXCEPT !.state = "wait"]
<1>1. job[d] \in Job /\ job[d].state = "delayed"
  BY DEF TypeOK, Promote
<1>2. /\ new \in Job /\ new.state = "wait"
      /\ new.made = job[d].made /\ new.stalls = job[d].stalls
  BY <1>1 DEF Job, JobState
<1>3. job' = [job EXCEPT ![d] = new]
  BY DEF Promote
<1> HIDE DEF new
<1>4. Lower(new, job[d])
  BY <1>1, <1>2, LowerWithin DEF Standing
<1>5. QED  BY <1>2, <1>3, <1>4, OneGoesOn

LEMMA StalledLower ==
  ASSUME TypeOK, Budgets, NEW d \in Docs, job[d].state = "active", Stall(d)
  PROVE  JobsGoOn
<1> DEFINE new == [job[d] EXCEPT !.stalls = job[d].stalls + 1, !.lock = None,
                     !.state = IF job[d].stalls < MaxStalled THEN "wait" ELSE "failed"]
<1>1. job[d] \in Job /\ job[d].stalls <= MaxStalled
  BY DEF TypeOK, Budgets
<1>2. new \in Job
  BY <1>1, StallCounted
<1>3. /\ new.state # "none"
      /\ new.made = job[d].made /\ new.stalls = job[d].stalls + 1
  BY <1>1 DEF Job
<1>4. job' = [job EXCEPT ![d] = new]
  BY DEF Stall
<1> HIDE DEF new
<1>5. new.made + new.stalls = job[d].made + job[d].stalls + 1
  BY <1>1, <1>3 DEF Job
<1>6. Lower(new, job[d])
  BY <1>1, <1>2, <1>3, <1>5, LowerAfter
<1>7. QED  BY <1>2, <1>3, <1>4, <1>6, OneGoesOn

LEMMA EndedLower ==
  ASSUME TypeOK, Budgets, NEW s \in Slots, NEW d \in Docs,
         NEW state \in JobState \ {"none"}, EndAttempt(s, d, state)
  PROVE  JobsGoOn
<1>1. CASE ~HasLock(s, d)
  BY <1>1 DEF EndAttempt, JobsGoOn
<1>2. CASE HasLock(s, d)
  <2> DEFINE new == [job[d] EXCEPT !.state = state, !.made = @ + 1, !.lock = None]
  <2>1. job[d] \in Job /\ job[d].made < MaxAttempts
    BY <1>2 DEF TypeOK, Budgets, HasLock
  <2>2. new \in Job
    BY <2>1, AttemptEnds
  <2>3. /\ new.state # "none"
        /\ new.made = job[d].made + 1 /\ new.stalls = job[d].stalls
    BY <2>1 DEF Job
  <2>4. job' = [job EXCEPT ![d] = new]
    BY <1>2 DEF EndAttempt
  <2> HIDE DEF new
  <2>5. new.made + new.stalls = job[d].made + job[d].stalls + 1
    BY <2>1, <2>3 DEF Job
  <2>6. Lower(new, job[d])
    BY <2>1, <2>2, <2>3, <2>5, LowerAfter
  <2>7. QED  BY <2>2, <2>3, <2>4, <2>6, OneGoesOn
<1>3. QED  BY <1>1, <1>2

(* A slot whose processor makes a call is nearer to its end.               *)
LEMMA StepNearer ==
  ASSUME TypeOK, NEW s \in Slots, NEW new, slot' = [slot EXCEPT ![s] = new],
         new.pc = "idle" => new = Idle,
         CallsLeft(new) < CallsLeft(slot[s])
  PROVE  SlotsGoOn
  BY DEF SlotsGoOn, TypeOK

LEMMA GoesNearer ==
  ASSUME TypeOK, NEW s \in Slots, NEW pc \in SlotPc \ {"idle"}, GoTo(s, pc),
         CallsLeft([slot[s] EXCEPT !.pc = pc]) < CallsLeft(slot[s])
  PROVE  SlotsGoOn
<1>1. slot' = [slot EXCEPT ![s] = [slot[s] EXCEPT !.pc = pc]]
  BY DEF GoTo
<1>2. [slot[s] EXCEPT !.pc = pc].pc = pc
  BY DEF TypeOK, Slot
<1>3. QED  BY <1>1, <1>2, StepNearer

LEMMA RequestsRunOut ==
  ASSUME Inv, Unspent, NEW d \in Docs, NEW r \in Replies,
         \/ UploadFile(d, r) \/ SoftDelete(d, r)
         \/ UploadCreate(d, r) \/ UploadEnqueue(d, r) \/ Unlink(d, r)
  PROVE  JobsGoOn /\ SlotsGoOn
<1>1. UNCHANGED slot
  BY DEF UploadFile, SoftDelete, UploadCreate, UploadEnqueue, Unlink
<1>2. CASE UNCHANGED job
  BY <1>1, <1>2 DEF JobsGoOn, SlotsGoOn
<1>3. CASE UploadEnqueue(d, r)
  <2>1. job[d].state = "none"
    BY <1>3 DEF UploadEnqueue, Inv, RequestsInOrder, RequestOrder
  <2>2. CASE job' = [job EXCEPT ![d] = NewJob]
    BY <1>1, <2>1, <2>2, AddedLower DEF Inv, SlotsGoOn
  <2>3. QED  BY <1>2, <1>3, <2>2 DEF UploadEnqueue, AddJob
<1>4. QED  BY <1>2, <1>3 DEF UploadFile, SoftDelete, UploadCreate, Unlink

LEMMA QueueingRunsOut ==
  ASSUME Inv, NEW d \in Docs, Queueing(d)
  PROVE  JobsGoOn /\ SlotsGoOn
<1> USE DEF Inv
<1>1. ASSUME NEW s \in Slots, TakeJob(s, d)
      PROVE  JobsGoOn /\ SlotsGoOn
  <2>1. JobsGoOn /\ job'[d] # job[d] /\ job'[d].lock = s
    BY <1>1, TakenLower DEF TakeJob
  <2>2. \A q \in Slots : q # s => slot'[q] = slot[q]
    BY <1>1 DEF TakeJob, TypeOK
  <2>3. slot'[s].pc # "idle"
    BY <1>1 DEF TakeJob, TypeOK
  <2>4. QED  BY <2>1, <2>2, <2>3 DEF SlotsGoOn
<1>2. CASE PromoteDelayed(d)
  BY <1>2, PromotedLower DEF PromoteDelayed, SlotsGoOn
<1>3. CASE RecoverStalled(d) \/ LoseLock(d)
  BY <1>3, StalledLower DEF RecoverStalled, LoseLock, SlotsGoOn
<1>4. QED  BY <1>1, <1>2, <1>3 DEF Queueing

(* The calls that are left of a processor at pc, at position n of its loop. *)
LEMMA Ahead ==
  ASSUME NEW sl \in Slot
  PROVE  /\ sl.pc \in {"complete", "throw"} => CallsLeft(sl) = 1
         /\ sl.pc = "catch" => CallsLeft(sl) = 2
         /\ sl.pc = "markReady" => CallsLeft(sl) = 3
         /\ sl.pc = "store" => CallsLeft(sl) = 2 * (NumChunks - sl.next) + 4
         /\ sl.pc = "insert" => CallsLeft(sl) = 2 * (NumChunks - sl.next) + 5
         /\ sl.pc = "embed" => CallsLeft(sl) = 2 * NumChunks + 4
         /\ sl.pc = "parse" => CallsLeft(sl) = 2 * NumChunks + 5
         /\ sl.pc = "read" => CallsLeft(sl) = 2 * NumChunks + 6
         /\ sl.pc = "markProcessing" => CallsLeft(sl) = 2 * NumChunks + 7
  BY DEF CallsLeft

LEMMA AheadAt ==
  ASSUME NEW sl \in Slot, NEW pc \in SlotPc
  PROVE  LET left == CallsLeft([sl EXCEPT !.pc = pc])
         IN  /\ pc \in {"complete", "throw"} => left = 1
             /\ pc = "catch" => left = 2
             /\ pc = "markReady" => left = 3
             /\ pc = "store" => left = 2 * (NumChunks - sl.next) + 4
             /\ pc = "insert" => left = 2 * (NumChunks - sl.next) + 5
             /\ pc = "embed" => left = 2 * NumChunks + 4
             /\ pc = "parse" => left = 2 * NumChunks + 5
             /\ pc = "read" => left = 2 * NumChunks + 6
<1> DEFINE new == [sl EXCEPT !.pc = pc]
<1>1. new \in Slot /\ new.pc = pc /\ new.next = sl.next
  BY DEF Slot
<1> HIDE DEF new
<1>2. /\ pc \in {"complete", "throw"} => CallsLeft(new) = 1
      /\ pc = "catch" => CallsLeft(new) = 2
      /\ pc = "markReady" => CallsLeft(new) = 3
      /\ pc = "store" => CallsLeft(new) = 2 * (NumChunks - sl.next) + 4
      /\ pc = "insert" => CallsLeft(new) = 2 * (NumChunks - sl.next) + 5
      /\ pc = "embed" => CallsLeft(new) = 2 * NumChunks + 4
      /\ pc = "parse" => CallsLeft(new) = 2 * NumChunks + 5
      /\ pc = "read" => CallsLeft(new) = 2 * NumChunks + 6
  BY <1>1, Ahead
<1>3. QED  BY <1>2 DEF new

(* Each call of the processor is one of those that were left.              *)
LEMMA CallsRunOut ==
  ASSUME Inv, NEW s \in Slots, NEW r \in Replies,
         \/ MarkProcessing(s, r) \/ ReadFile(s, r) \/ EmbedChunks(s, r)
         \/ InsertChunk(s, r) \/ StoreEmbedding(s, r)
         \/ MarkReady(s, r) \/ CatchMarkFailed(s, r) \/ Parse(s)
  PROVE  JobsGoOn /\ SlotsGoOn
<1> USE DEF Inv
<1>1. slot[s] \in Slot /\ Positioned(s)
  BY DEF TypeOK, LoopsInOrder
<1>2. UNCHANGED job
  BY DEF MarkProcessing, ReadFile, EmbedChunks, InsertChunk, StoreEmbedding,
         MarkReady, CatchMarkFailed, Parse
<1>3. JobsGoOn
  BY <1>2 DEF JobsGoOn
<1>4. ASSUME NEW pc \in SlotPc \ {"idle"}, GoTo(s, pc),
             CallsLeft([slot[s] EXCEPT !.pc = pc]) < CallsLeft(slot[s])
      PROVE  JobsGoOn /\ SlotsGoOn
  BY <1>3, <1>4, GoesNearer
<1>5. CASE MarkProcessing(s, r)
  <2> DEFINE pc == OnReply(r, "read", "throw")
  <2>1. pc \in {"read", "throw"} /\ pc \in SlotPc \ {"idle"}
    BY DEF OnReply, SlotPc
  <2>2. slot[s].pc = "markProcessing" /\ GoTo(s, pc)
    BY <1>5 DEF MarkProcessing
  <2> HIDE DEF pc
  <2>3. CallsLeft([slot[s] EXCEPT !.pc = pc]) < CallsLeft(slot[s])
    BY <1>1, <2>1, <2>2, Ahead, AheadAt
  <2>4. QED  BY <1>4, <2>1, <2>2, <2>3
<1>6. CASE ReadFile(s, r)
  <2> DEFINE pc == IF r = "ok" /\ file[slot[s].doc] = "stored" THEN "parse" ELSE "catch"
  <2>1. pc \in {"parse", "catch"} /\ pc \in SlotPc \ {"idle"}
    BY DEF SlotPc
  <2>2. slot[s].pc = "read" /\ GoTo(s, pc)
    BY <1>6 DEF ReadFile
  <2> HIDE DEF pc
  <2>3. CallsLeft([slot[s] EXCEPT !.pc = pc]) < CallsLeft(slot[s])
    BY <1>1, <2>1, <2>2, Ahead, AheadAt
  <2>4. QED  BY <1>4, <2>1, <2>2, <2>3
<1>7. CASE Parse(s)
  <2>1. PICK pc \in {"embed", "catch"} : GoTo(s, pc)
    BY <1>7 DEF Parse
  <2>2. slot[s].pc = "parse" /\ pc \in SlotPc \ {"idle"}
    BY <1>7 DEF Parse, SlotPc
  <2>3. CallsLeft([slot[s] EXCEPT !.pc = pc]) < CallsLeft(slot[s])
    BY <1>1, <2>1, <2>2, Ahead, AheadAt
  <2>4. QED  BY <1>4, <2>1, <2>2, <2>3
<1>8. CASE EmbedChunks(s, r)
  <2> DEFINE pc == OnReply(r, Loop(1), "catch")
  <2>1. pc \in {"insert", "markReady", "catch"} /\ pc \in SlotPc \ {"idle"}
    BY DEF OnReply, Loop, SlotPc, WritePc
  <2>2. slot[s].pc = "embed" /\ GoTo(s, pc) /\ slot[s].next = 1
    BY <1>1, <1>8 DEF EmbedChunks, Positioned
  <2> HIDE DEF pc
  <2>3. CallsLeft([slot[s] EXCEPT !.pc = pc]) < CallsLeft(slot[s])
    BY <1>1, <2>1, <2>2, Ahead, AheadAt
  <2>4. QED  BY <1>4, <2>1, <2>2, <2>3
<1>9. CASE InsertChunk(s, r)
  <2> DEFINE pc == OnReply(r, "store", "catch")
  <2>1. pc \in {"store", "catch"} /\ pc \in SlotPc \ {"idle"}
    BY DEF OnReply, SlotPc, WritePc
  <2>2. slot[s].pc = "insert" /\ GoTo(s, pc) /\ slot[s].next \in 1..NumChunks
    BY <1>1, <1>9 DEF InsertChunk, Positioned, WritePc, Positions
  <2> HIDE DEF pc
  <2>3. CallsLeft([slot[s] EXCEPT !.pc = pc]) < CallsLeft(slot[s])
    BY <1>1, <2>1, <2>2, Ahead, AheadAt
  <2>4. QED  BY <1>4, <2>1, <2>2, <2>3
<1>10. CASE StoreEmbedding(s, r)
  <2> DEFINE n == slot[s].next + 1
  <2>1. slot[s].pc = "store" /\ slot[s].next \in Positions
    BY <1>1, <1>10 DEF StoreEmbedding, Positioned, WritePc
  <2>2. PICK pc \in {"insert", "markReady", "catch"} :
          /\ slot' = [slot EXCEPT ![s] = [slot[s] EXCEPT !.pc = pc, !.next = n]]
          /\ pc = "insert" => n \in Positions
    BY <1>10 DEF StoreEmbedding, OnReply, Loop
  <2> DEFINE new == [slot[s] EXCEPT !.pc = pc, !.next = n]
  <2>3. n \in Nat /\ pc \in SlotPc /\ pc # "idle"
    BY <2>1 DEF Positions, SlotPc, WritePc
  <2>4. new \in Slot /\ new.pc = pc /\ new.next = n
    BY <1>1, <2>3 DEF Slot
  <2>5. slot' = [slot EXCEPT ![s] = new]
    BY <2>2
  <2> HIDE DEF new
  <2>6. CallsLeft(new) < CallsLeft(slot[s])
    BY <1>1, <2>1, <2>2, <2>4, Ahead DEF Positions
  <2>7. QED  BY <1>3, <2>3, <2>4, <2>5, <2>6, StepNearer
<1>11. CASE MarkReady(s, r)
  <2> DEFINE pc == OnReply(r, "complete", "catch")
  <2>1. pc \in {"complete", "catch"} /\ pc \in SlotPc \ {"idle"}
    BY DEF OnReply, SlotPc
  <2>2. slot[s].pc = "markReady" /\ GoTo(s, pc)
    BY <1>11 DEF MarkReady
  <2> HIDE DEF pc
  <2>3. CallsLeft([slot[s] EXCEPT !.pc = pc]) < CallsLeft(slot[s])
    BY <1>1, <2>1, <2>2, Ahead, AheadAt
  <2>4. QED  BY <1>4, <2>1, <2>2, <2>3
<1>12. CASE CatchMarkFailed(s, r)
  <2>1. slot[s].pc = "catch" /\ GoTo(s, "throw") /\ "throw" \in SlotPc \ {"idle"}
    BY <1>12 DEF CatchMarkFailed, SlotPc
  <2>2. CallsLeft([slot[s] EXCEPT !.pc = "throw"]) < CallsLeft(slot[s])
    BY <1>1, <2>1, Ahead, AheadAt
  <2>3. QED  BY <1>4, <2>1, <2>2
<1>13. QED  BY <1>5, <1>6, <1>7, <1>8, <1>9, <1>10, <1>11, <1>12

LEMMA ReturningRunsOut ==
  ASSUME Inv, NEW s \in Slots, CompleteJob(s) \/ FailAttempt(s)
  PROVE  JobsGoOn /\ SlotsGoOn
<1>1. PICK state \in {"completed", "delayed", "failed"} :
        EndAttempt(s, slot[s].doc, state)
  BY DEF CompleteJob, FailAttempt, Return, RetryOrFail
<1>2. slot[s].pc \in {"complete", "throw"} /\ slot' = [slot EXCEPT ![s] = Idle]
  BY DEF CompleteJob, FailAttempt, Return
<1>3. slot[s].doc \in Docs
  BY <1>2, OwnDocument DEF Busy
<1>4. JobsGoOn
  BY <1>1, <1>3, EndedLower DEF Inv, JobState
<1>5. CallsLeft(Idle) < CallsLeft(slot[s])
  <2>1. CallsLeft(Idle) = 0
    BY DEF CallsLeft, Idle
  <2>2. slot[s] \in Slot
    BY DEF Inv, TypeOK
  <2>3. QED  BY <1>2, <2>1, <2>2, Ahead
<1>6. QED  BY <1>2, <1>4, <1>5, StepNearer DEF Inv

(* A crash takes a processor's calls away.                                 *)
LEMMA CrashRunsOut ==
  ASSUME Inv, Unspent, NEW p \in Procs, Crash(p)
  PROVE  JobsGoOn /\ SlotsGoOn
<1>1. UNCHANGED job /\ slot' = [s \in Slots |-> IF ProcOf[s] = p THEN Idle ELSE slot[s]]
  BY DEF Crash
<1>2. ASSUME NEW s \in Slots, slot'[s] # slot[s]
      PROVE  slot'[s] = Idle /\ CallsLeft(slot'[s]) < CallsLeft(slot[s])
  <2>1. slot'[s] = Idle /\ slot[s] \in Slot /\ Positioned(s)
    BY <1>1, <1>2 DEF Inv, TypeOK, LoopsInOrder
  <2>2. slot[s].pc \in SlotPc \ {"idle"}
    BY <1>2, <2>1 DEF Unspent, Slot
  <2>3. slot[s].pc \in WritePc => slot[s].next \in 1..NumChunks
    BY <2>1 DEF Positioned, Positions
  <2>4. CallsLeft(slot'[s]) = 0
    BY <2>1 DEF Idle, CallsLeft
  <2>5. CallsLeft(slot[s]) > 0
    BY <2>1, <2>2, <2>3, Ahead DEF SlotPc, WritePc
  <2>6. QED  BY <2>1, <2>4, <2>5
<1>3. QED  BY <1>1, <1>2 DEF JobsGoOn, SlotsGoOn

LEMMA NextRunsOut ==
  ASSUME Inv, Unspent, [Next]_vars
  PROVE  JobsGoOn /\ SlotsGoOn
<1>1. CASE UNCHANGED vars
  BY <1>1 DEF vars, JobsGoOn, SlotsGoOn
<1>2. ASSUME NEW d \in Docs, Requests(d)
      PROVE  JobsGoOn /\ SlotsGoOn
  BY <1>2, RequestsRunOut DEF Requests
<1>3. ASSUME NEW s \in Slots, Processing(s)
      PROVE  JobsGoOn /\ SlotsGoOn
  <2>1. ASSUME Parse(s)  PROVE JobsGoOn /\ SlotsGoOn
    <3>1. "ok" \in Replies
      BY DEF Replies
    <3>2. QED  BY <2>1, <3>1, CallsRunOut
  <2>2. QED  BY <1>3, <2>1, CallsRunOut, ReturningRunsOut DEF Processing
<1>4. QED
  BY <1>1, <1>2, <1>3, RequestsRunOut, QueueingRunsOut, CrashRunsOut
  DEF Next, Quiescent

LEMMA AlwaysUnspent == Spec => []Unspent
<1>1. Init => Unspent
  BY DEF Init, Unspent, NoJob
<1>2. Unspent /\ JobsGoOn /\ SlotsGoOn => Unspent'
  BY DEF Unspent, JobsGoOn, SlotsGoOn
<1>3. Inv /\ Unspent /\ [Next]_vars => Unspent'
  BY <1>2, NextRunsOut
<1>4. QED  BY <1>1, <1>3, AlwaysInv, PTL DEF Spec

(* Every job comes to its end after finitely many hand-overs, and every    *)
(* processor after finitely many calls, however long its loop: what        *)
(* liveness needs besides fairness, whatever fails and however often.      *)
THEOREM WorkAlwaysRunsOut == Spec => WorkRunsOut
<1>1. Inv /\ Unspent /\ [Next]_vars =>
        [ /\ \A d \in Docs : job'[d] # job[d] => Lower(job'[d], job[d])
          /\ \A s \in Slots : slot'[s] # slot[s] =>
               \/ CallsLeft(slot'[s]) < CallsLeft(slot[s])
               \/ \E d \in Docs : job'[d] # job[d] /\ job'[d].lock = s ]_vars
  BY NextRunsOut DEF JobsGoOn, SlotsGoOn
<1>2. QED
  BY <1>1, AlwaysInv, AlwaysUnspent, PTL DEF Spec, WorkRunsOut

-----------------------------------------------------------------------------
(* What is left behind: Accountable on top of Inv.                         *)

(* A processor that goes on stays with its document.                       *)
LEMMA GoesOn ==
  ASSUME Inv, NEW s \in Slots, NEW r \in Replies,
         \/ MarkProcessing(s, r) \/ ReadFile(s, r) \/ EmbedChunks(s, r)
         \/ InsertChunk(s, r) \/ StoreEmbedding(s, r)
         \/ MarkReady(s, r) \/ CatchMarkFailed(s, r) \/ Parse(s)
  PROVE  /\ Busy(s) /\ slot[s].doc \in Docs
         /\ slot'[s].doc = slot[s].doc
         /\ \A q \in Slots : q # s => slot'[q] = slot[q]
         /\ UNCHANGED <<job, upload, crashes, lockLosses>>
         /\ failedCalls' \in Nat /\ failedCalls' >= failedCalls
<1>1. Busy(s)
  BY DEF Busy, MarkProcessing, ReadFile, EmbedChunks, InsertChunk, StoreEmbedding,
         MarkReady, CatchMarkFailed, Parse
<1>2. slot[s].doc \in Docs /\ slot[s] \in Slot /\ failedCalls \in Nat
  BY <1>1, OwnDocument DEF Inv, TypeOK
<1>3. Call(r) \/ UNCHANGED disturbances
  BY DEF MarkProcessing, ReadFile, EmbedChunks, InsertChunk, StoreEmbedding,
         MarkReady, CatchMarkFailed, Parse
<1>4. /\ UNCHANGED <<crashes, lockLosses>>
      /\ failedCalls' \in Nat /\ failedCalls' >= failedCalls
  BY <1>2, <1>3 DEF Call, disturbances
<1>5. UNCHANGED <<job, upload>>
  BY DEF MarkProcessing, ReadFile, EmbedChunks, InsertChunk, StoreEmbedding,
         MarkReady, CatchMarkFailed, Parse
<1>6. ASSUME NEW pc, GoTo(s, pc)
      PROVE  slot'[s].doc = slot[s].doc /\ \A q \in Slots : q # s => slot'[q] = slot[q]
  BY <1>2, <1>6 DEF GoTo, Inv, TypeOK, Slot
<1>7. slot'[s].doc = slot[s].doc /\ \A q \in Slots : q # s => slot'[q] = slot[q]
  <2>1. CASE StoreEmbedding(s, r)
    BY <1>2, <2>1 DEF StoreEmbedding, Inv, TypeOK, Slot
  <2>2. QED
    BY <1>6, <2>1 DEF MarkProcessing, ReadFile, EmbedChunks, InsertChunk,
         MarkReady, CatchMarkFailed, Parse
<1>8. QED  BY <1>1, <1>2, <1>4, <1>5, <1>7

(* Only the upload itself and a crash change how an upload stands, and no  *)
(* job is taken back.                                                      *)
LEMMA UploadsAnsweredKept ==
  ASSUME Inv, Accountable, [Next]_vars, JobsGoOn
  PROVE  UploadsAnswered'
<1>1. /\ failedCalls \in Nat /\ crashes \in Nat /\ UploadsAnswered
  BY DEF Inv, TypeOK, Accountable
<1>2. \A d \in Docs : job[d].state # "none" => job'[d].state # "none"
  BY DEF JobsGoOn
<1>3. ASSUME UNCHANGED upload, failedCalls' >= failedCalls, crashes' >= crashes,
             failedCalls' \in Nat, crashes' \in Nat
      PROVE  UploadsAnswered'
  BY <1>1, <1>2, <1>3 DEF UploadsAnswered
<1>4. ASSUME NEW d \in Docs, NEW r \in Replies,
             UploadFile(d, r) \/ UploadCreate(d, r) \/ UploadEnqueue(d, r)
      PROVE  UploadsAnswered'
  <2>1. \A e \in Docs : e # d => upload'[e] = upload[e]
    BY <1>4 DEF UploadFile, UploadCreate, UploadEnqueue, Inv, TypeOK
  <2>2. /\ crashes' = crashes
        /\ failedCalls' = IF r = "ok" THEN failedCalls ELSE failedCalls + 1
    BY <1>4 DEF UploadFile, UploadCreate, UploadEnqueue, Call
  <2>3. upload'[d] = "error" => r # "ok"
    BY <1>4 DEF UploadFile, UploadCreate, UploadEnqueue, OnReply, Inv, TypeOK
  <2>4. upload'[d] = "accepted" => job'[d].state # "none"
    BY <1>4 DEF UploadFile, UploadCreate, UploadEnqueue, OnReply, Inv, TypeOK,
                AddJob, NewJob, NoJob
  <2>5. QED  BY <1>1, <1>2, <2>1, <2>2, <2>3, <2>4 DEF UploadsAnswered
<1>5. ASSUME NEW d \in Docs, NEW r \in Replies, SoftDelete(d, r) \/ Unlink(d, r)
      PROVE  UploadsAnswered'
  BY <1>1, <1>3, <1>5 DEF SoftDelete, Unlink, Call
<1>6. ASSUME NEW s \in Slots, Processing(s)
      PROVE  UploadsAnswered'
  <2>1. ASSUME NEW r \in Replies,
               \/ MarkProcessing(s, r) \/ ReadFile(s, r) \/ EmbedChunks(s, r)
               \/ InsertChunk(s, r) \/ StoreEmbedding(s, r)
               \/ MarkReady(s, r) \/ CatchMarkFailed(s, r) \/ Parse(s)
        PROVE  UploadsAnswered'
    BY <1>1, <1>3, <2>1, GoesOn
  <2>2. ASSUME Parse(s)  PROVE UploadsAnswered'
    <3>1. "ok" \in Replies
      BY DEF Replies
    <3>2. QED  BY <2>1, <2>2, <3>1
  <2>3. ASSUME CompleteJob(s) \/ FailAttempt(s)  PROVE UploadsAnswered'
    BY <1>1, <1>3, <2>3 DEF CompleteJob, FailAttempt, Return, disturbances
  <2>4. QED  BY <1>6, <2>1, <2>2, <2>3 DEF Processing
<1>7. ASSUME NEW d \in Docs, Queueing(d)
      PROVE  UploadsAnswered'
  BY <1>1, <1>3, <1>7
  DEF Queueing, TakeJob, PromoteDelayed, RecoverStalled, LoseLock, disturbances
<1>8. ASSUME NEW p \in Procs, Crash(p)
      PROVE  UploadsAnswered'
  <2>1. upload' = upload \/ upload' = CutOff(upload)
    BY <1>8 DEF Crash
  <2>2. \A d \in Docs : upload'[d] = "accepted" => upload[d] = "accepted"
    BY <2>1 DEF CutOff
  <2>3. crashes' > 0
    BY <1>1, <1>8 DEF Crash
  <2>4. QED  BY <1>1, <1>2, <2>2, <2>3 DEF UploadsAnswered
<1>9. CASE UNCHANGED vars
  BY <1>1, <1>3, <1>9 DEF vars
<1>10. QED
  BY <1>4, <1>5, <1>6, <1>7, <1>8, <1>9 DEF Next, Quiescent, Requests

(* What a step that leaves the slots alone does to one job.                *)
LEMMA JobMoves ==
  ASSUME Inv, StallsTakeCrashes, NEW d \in Docs, NEW new \in Job,
         job' = [job EXCEPT ![d] = new], UNCHANGED <<slot, crashes>>,
         lockLosses' = 0 => lockLosses = 0,
         \A s \in Slots : lockLosses' = 0 /\ Busy(s) => slot[s].doc # d,
         lockLosses' = 0 => new.state # "active" /\ new.stalls <= crashes
  PROVE  StallsTakeCrashes'
<1> SUFFICES ASSUME lockLosses' = 0
             PROVE  /\ \A s \in Slots : Busy(s)' => HasLock(s, slot[s].doc)'
                    /\ \A e \in Docs : /\ job'[e].stalls <= crashes'
                                       /\ Abandoned(e)' => job'[e].stalls < crashes'
  BY DEF StallsTakeCrashes
<1>1. lockLosses = 0
  OBVIOUS
<1>2. job'[d] = new /\ \A e \in Docs : e # d => job'[e] = job[e]
  BY DEF Inv, TypeOK
<1>3. ASSUME NEW s \in Slots, Busy(s)'  PROVE HasLock(s, slot[s].doc)'
  <2>1. Busy(s) /\ slot'[s] = slot[s] /\ slot[s].doc # d
    BY <1>3 DEF Busy
  <2>2. slot[s].doc \in Docs
    BY <2>1, OwnDocument
  <2>3. HasLock(s, slot[s].doc)
    BY <1>1, <2>1 DEF StallsTakeCrashes
  <2>4. QED  BY <1>2, <2>1, <2>2, <2>3 DEF HasLock
<1>4. ASSUME NEW e \in Docs
      PROVE  job'[e].stalls <= crashes' /\ (Abandoned(e)' => job'[e].stalls < crashes')
  <2>1. CASE e = d
    BY <1>2, <2>1 DEF Abandoned
  <2>2. CASE e # d
    <3>1. job'[e] = job[e] /\ UNCHANGED <<slot, crashes>>
      BY <1>2, <2>2
    <3>2. Abandoned(e)' => Abandoned(e)
      BY <3>1 DEF Abandoned
    <3>3. QED  BY <1>1, <3>1, <3>2 DEF StallsTakeCrashes
  <2>3. QED  BY <2>1, <2>2
<1>5. QED  BY <1>3, <1>4

(* A stall follows a crash, unless a lock is lost.                         *)
LEMMA StallsTakeCrashesKept ==
  ASSUME Inv, Accountable, [Next]_vars
  PROVE  StallsTakeCrashes'
<1>1. StallsTakeCrashes /\ crashes \in Nat /\ lockLosses \in Nat
  BY DEF Accountable, Inv, TypeOK
<1>2. ASSUME UNCHANGED <<slot, job, crashes, lockLosses>>
      PROVE  StallsTakeCrashes'
  BY <1>1, <1>2 DEF StallsTakeCrashes, Abandoned, Busy, HasLock
<1>3. ASSUME NEW d \in Docs, NEW r \in Replies,
             \/ UploadFile(d, r) \/ SoftDelete(d, r) \/ UploadCreate(d, r) \/ Unlink(d, r)
      PROVE  StallsTakeCrashes'
  BY <1>2, <1>3 DEF UploadFile, SoftDelete, UploadCreate, Unlink, Call
<1>4. ASSUME NEW d \in Docs, NEW r \in Replies, UploadEnqueue(d, r)
      PROVE  StallsTakeCrashes'
  <2>1. CASE UNCHANGED job
    BY <1>2, <1>4, <2>1 DEF UploadEnqueue, Call
  <2>2. CASE job' = [job EXCEPT ![d] = NewJob]
    <3>1. NewJob \in Job /\ NewJob.state = "wait" /\ NewJob.stalls = 0
      BY DEF NewJob, NoJob, Job, JobState
    <3>2. job[d].state = "none" /\ UNCHANGED <<slot, crashes, lockLosses>>
      BY <1>4 DEF UploadEnqueue, Call, Inv, RequestsInOrder, RequestOrder
    <3>3. \A s \in Slots : lockLosses = 0 /\ Busy(s) => slot[s].doc # d
      BY <1>1, <3>2 DEF StallsTakeCrashes, HasLock
    <3> DEFINE new == NewJob
    <3>4. new \in Job /\ new.state # "active" /\ new.stalls <= crashes
      BY <1>1, <3>1
    <3>5. job' = [job EXCEPT ![d] = new]
      BY <2>2
    <3> HIDE DEF new
    <3>6. QED  BY <1>1, <3>2, <3>3, <3>4, <3>5, JobMoves
  <2>3. QED  BY <1>4, <2>1, <2>2 DEF UploadEnqueue, AddJob
<1>5. ASSUME NEW s \in Slots, NEW r \in Replies,
             \/ MarkProcessing(s, r) \/ ReadFile(s, r) \/ EmbedChunks(s, r)
             \/ InsertChunk(s, r) \/ StoreEmbedding(s, r)
             \/ MarkReady(s, r) \/ CatchMarkFailed(s, r) \/ Parse(s)
      PROVE  StallsTakeCrashes'
  <2>1. /\ Busy(s) /\ slot[s].doc \in Docs
        /\ slot'[s].doc = slot[s].doc
        /\ \A q \in Slots : q # s => slot'[q] = slot[q]
        /\ UNCHANGED <<job, crashes, lockLosses>>
    BY <1>5, GoesOn
  <2>2. \A q \in Slots : slot'[q].doc = slot[q].doc /\ (Busy(q)' => Busy(q))
    BY <2>1 DEF Busy
  <2>3. \A d \in Docs : Abandoned(d)' => Abandoned(d)
    BY <2>1, <2>2 DEF Abandoned, Inv, Budgets
  <2>4. QED  BY <1>1, <2>1, <2>2, <2>3 DEF StallsTakeCrashes, HasLock
<1>6. ASSUME NEW s \in Slots, CompleteJob(s) \/ FailAttempt(s)
      PROVE  StallsTakeCrashes'
  <2> SUFFICES ASSUME lockLosses' = 0  PROVE StallsTakeCrashes'
    BY DEF StallsTakeCrashes
  <2>1. PICK state \in {"completed", "delayed", "failed"} :
          EndAttempt(s, slot[s].doc, state)
    BY <1>6 DEF CompleteJob, FailAttempt, Return, RetryOrFail
  <2>2. /\ Busy(s) /\ slot' = [slot EXCEPT ![s] = Idle]
        /\ UNCHANGED <<crashes, lockLosses>>
    BY <1>6 DEF CompleteJob, FailAttempt, Return, Busy, disturbances
  <2> DEFINE d == slot[s].doc
  <2>3. d \in Docs /\ HasLock(s, d) /\ lockLosses = 0
    BY <1>1, <2>2, OwnDocument DEF StallsTakeCrashes
  <2>4. /\ \A e \in Docs : e # d => job'[e] = job[e]
        /\ job'[d].state = state /\ job'[d].stalls = job[d].stalls
    BY <2>1, <2>3 DEF EndAttempt, Inv, TypeOK, Job
  <2>5. /\ slot'[s] = Idle
        /\ \A q \in Slots : q # s => slot'[q] = slot[q]
    BY <2>2 DEF Inv, TypeOK
  <2>6. ASSUME NEW q \in Slots, Busy(q)'  PROVE HasLock(q, slot[q].doc)'
    <3>1. q # s /\ Busy(q) /\ slot'[q] = slot[q]
      BY <2>5, <2>6 DEF Busy, Idle
    <3>2. HasLock(q, slot[q].doc) /\ slot[q].doc \in Docs
      BY <1>1, <2>3, <3>1, OwnDocument DEF StallsTakeCrashes
    <3>3. slot[q].doc # d
      BY <2>3, <3>1, <3>2 DEF HasLock
    <3>4. QED  BY <2>4, <3>1, <3>2, <3>3 DEF HasLock
  <2>7. ASSUME NEW e \in Docs
        PROVE  job'[e].stalls <= crashes' /\ (Abandoned(e)' => job'[e].stalls < crashes')
    <3>1. job[e].stalls <= crashes /\ job'[e].stalls = job[e].stalls
      BY <1>1, <2>3, <2>4 DEF StallsTakeCrashes
    <3>2. Abandoned(e)' => Abandoned(e)
      <4>1. SUFFICES ASSUME Abandoned(e)'  PROVE Abandoned(e)
        OBVIOUS
      <4>2. e # d /\ job'[e] = job[e] /\ job[e].state = "active"
        BY <2>4, <4>1 DEF Abandoned
      <4>3. job[e].lock \in Slots
        BY <4>2 DEF Inv, Budgets
      <4>4. job[e].lock = s => slot[s].doc # e
        BY <4>2
      <4>5. QED  BY <2>5, <4>1, <4>2, <4>3, <4>4 DEF Abandoned
    <3>3. QED  BY <1>1, <2>2, <2>3, <3>1, <3>2 DEF StallsTakeCrashes
  <2>8. QED  BY <2>6, <2>7 DEF StallsTakeCrashes
<1>7. ASSUME NEW s \in Slots, NEW d \in Docs, TakeJob(s, d)
      PROVE  StallsTakeCrashes'
  <2> SUFFICES ASSUME lockLosses' = 0  PROVE StallsTakeCrashes'
    BY DEF StallsTakeCrashes
  <2>1. /\ ~Busy(s) /\ job[d].state = "wait" /\ lockLosses = 0
        /\ UNCHANGED <<crashes, lockLosses>>
    BY <1>7 DEF TakeJob, disturbances
  <2>2. /\ \A e \in Docs : e # d => job'[e] = job[e]
        /\ job'[d].state = "active" /\ job'[d].lock = s
        /\ job'[d].stalls = job[d].stalls
    BY <1>7 DEF TakeJob, GiveJob, Inv, TypeOK, Job
  <2>3. /\ slot'[s].doc = d
        /\ \A q \in Slots : q # s => slot'[q] = slot[q]
    BY <1>7 DEF TakeJob, Inv, TypeOK
  <2>4. ASSUME NEW q \in Slots, Busy(q)'  PROVE HasLock(q, slot[q].doc)'
    <3>1. CASE q = s
      BY <2>2, <2>3, <3>1 DEF HasLock
    <3>2. CASE q # s
      <4>1. Busy(q) /\ slot'[q] = slot[q]
        BY <2>3, <2>4, <3>2 DEF Busy
      <4>2. HasLock(q, slot[q].doc) /\ slot[q].doc \in Docs
        BY <1>1, <2>1, <4>1, OwnDocument DEF StallsTakeCrashes
      <4>3. slot[q].doc # d
        BY <2>1, <4>2 DEF HasLock
      <4>4. QED  BY <2>2, <4>1, <4>2, <4>3 DEF HasLock
    <3>3. QED  BY <3>1, <3>2
  <2>5. ASSUME NEW e \in Docs
        PROVE  job'[e].stalls <= crashes' /\ (Abandoned(e)' => job'[e].stalls < crashes')
    <3>1. job[e].stalls <= crashes /\ job'[e].stalls = job[e].stalls
      BY <1>1, <2>1, <2>2 DEF StallsTakeCrashes
    <3>2. Abandoned(e)' => Abandoned(e)
      <4>1. SUFFICES ASSUME Abandoned(e)'  PROVE Abandoned(e)
        OBVIOUS
      <4>2. e # d /\ job'[e] = job[e] /\ job[e].state = "active"
        BY <2>2, <2>3, <4>1 DEF Abandoned
      <4>3. job[e].lock \in Slots
        BY <4>2 DEF Inv, Budgets
      <4>4. ~Busy(s) => slot[s].doc # e
        BY DEF Inv, Serving
      <4>5. QED  BY <2>1, <2>3, <4>1, <4>2, <4>3, <4>4 DEF Abandoned
    <3>3. QED  BY <1>1, <2>1, <3>1, <3>2 DEF StallsTakeCrashes
  <2>6. QED  BY <2>4, <2>5 DEF StallsTakeCrashes
<1>8. ASSUME NEW d \in Docs, PromoteDelayed(d)
      PROVE  StallsTakeCrashes'
  <2> DEFINE new == [job[d] EXCEPT !.state = "wait"]
  <2>1. job[d] \in Job /\ job[d].state = "delayed" /\ UNCHANGED <<slot, crashes, lockLosses>>
    BY <1>8 DEF PromoteDelayed, Promote, disturbances, Inv, TypeOK
  <2>2. new \in Job /\ new.state = "wait" /\ new.stalls = job[d].stalls
    BY <2>1 DEF Job, JobState
  <2>3. job' = [job EXCEPT ![d] = new]
    BY <1>8 DEF PromoteDelayed, Promote
  <2> HIDE DEF new
  <2>4. \A s \in Slots : lockLosses = 0 /\ Busy(s) => slot[s].doc # d
    BY <1>1, <2>1 DEF StallsTakeCrashes, HasLock
  <2>5. lockLosses = 0 => new.stalls <= crashes
    BY <1>1, <2>2 DEF StallsTakeCrashes
  <2>6. QED  BY <1>1, <2>1, <2>2, <2>3, <2>4, <2>5, JobMoves
<1>9. ASSUME NEW d \in Docs, RecoverStalled(d)
      PROVE  StallsTakeCrashes'
  <2> DEFINE new == [job[d] EXCEPT !.stalls = job[d].stalls + 1, !.lock = None,
                       !.state = IF job[d].stalls < MaxStalled THEN "wait" ELSE "failed"]
  <2>1. /\ job[d] \in Job /\ job[d].state = "active" /\ job[d].stalls <= MaxStalled
        /\ Abandoned(d) /\ UNCHANGED <<slot, crashes, lockLosses>>
    BY <1>9 DEF RecoverStalled, Abandoned, disturbances, Inv, TypeOK, Budgets
  <2>2. new \in Job
    BY <2>1, StallCounted
  <2>3. new.state # "active" /\ new.stalls = job[d].stalls + 1 /\ job[d].stalls \in Nat
    BY <2>1 DEF Job
  <2>4. job' = [job EXCEPT ![d] = new]
    BY <1>9 DEF RecoverStalled, Stall
  <2> HIDE DEF new
  <2>5. \A s \in Slots : lockLosses = 0 /\ Busy(s) => slot[s].doc # d
    BY <1>1, <2>1 DEF StallsTakeCrashes, HasLock, Abandoned
  <2>6. lockLosses = 0 => new.stalls <= crashes
    BY <1>1, <2>1, <2>3 DEF StallsTakeCrashes
  <2>7. QED  BY <1>1, <2>1, <2>2, <2>3, <2>4, <2>5, <2>6, JobMoves
<1>10. ASSUME NEW d \in Docs, LoseLock(d)
       PROVE  StallsTakeCrashes'
  BY <1>1, <1>10 DEF LoseLock, StallsTakeCrashes
<1>11. ASSUME NEW p \in Procs, Crash(p)
       PROVE  StallsTakeCrashes'
  <2> SUFFICES ASSUME lockLosses' = 0  PROVE StallsTakeCrashes'
    BY DEF StallsTakeCrashes
  <2>1. /\ UNCHANGED job /\ lockLosses = 0 /\ crashes' = crashes + 1
        /\ \A s \in Slots : slot'[s] = slot[s] \/ slot'[s].pc = "idle"
    BY <1>11 DEF Crash, Idle
  <2>2. ASSUME NEW s \in Slots, Busy(s)'  PROVE HasLock(s, slot[s].doc)'
    <3>1. slot'[s] = slot[s] /\ Busy(s)
      BY <2>1, <2>2 DEF Busy
    <3>2. QED  BY <1>1, <2>1, <3>1 DEF StallsTakeCrashes, HasLock
  <2>3. ASSUME NEW d \in Docs
        PROVE  job'[d].stalls <= crashes' /\ job'[d].stalls < crashes'
    <3>1. job[d].stalls <= crashes /\ job[d].stalls \in Nat
      BY <1>1, <2>1 DEF StallsTakeCrashes, Inv, TypeOK, Job
    <3>2. QED  BY <1>1, <2>1, <3>1
  <2>4. QED  BY <2>2, <2>3 DEF StallsTakeCrashes
<1>12. CASE UNCHANGED vars
  BY <1>2, <1>12 DEF vars
<1>13. ASSUME NEW s \in Slots, Processing(s)
       PROVE  StallsTakeCrashes'
  <2>1. ASSUME Parse(s)  PROVE StallsTakeCrashes'
    <3>1. "ok" \in Replies
      BY DEF Replies
    <3>2. QED  BY <1>5, <2>1, <3>1
  <2>2. QED  BY <1>5, <1>6, <1>13, <2>1 DEF Processing
<1>14. QED
  BY <1>3, <1>4, <1>7, <1>8, <1>9, <1>10, <1>11, <1>12, <1>13
  DEF Next, Quiescent, Requests, Queueing

(* A row's status changes only in the hands of the request that creates it *)
(* and of the slot that holds its job.                                     *)
LEMMA EndsWithOutcomeKept ==
  ASSUME Inv, Accountable, [Next]_vars, StallsTakeCrashes'
  PROVE  EndsWithOutcome'
<1> SUFFICES ASSUME failedCalls' = 0, lockLosses' = 0  PROVE EndsWithOutcome'
  BY DEF EndsWithOutcome
<1>1. /\ failedCalls \in Nat /\ crashes \in Nat /\ lockLosses \in Nat
      /\ StallsTakeCrashes /\ EndsWithOutcome
  BY DEF Accountable, Inv, TypeOK
<1>2. ASSUME failedCalls = 0, lockLosses = 0,
             \A s \in Slots : slot'[s].pc \in {"complete", "throw"} => slot'[s] = slot[s],
             \A d \in Docs : Settled(d)' => Settled(d) /\ job'[d] = job[d],
             \A d \in Docs : doc'[d].status # doc[d].status =>
               /\ ~Settled(d)
               /\ \A s \in Slots : slot'[s].pc \in {"complete", "throw"} => slot[s].doc # d
      PROVE  EndsWithOutcome'
  <2>1. ASSUME NEW s \in Slots, slot'[s].pc \in {"complete", "throw"}
        PROVE  doc'[slot'[s].doc].status \in Outcomes
    <3>1. slot'[s] = slot[s] /\ Busy(s) /\ slot[s].pc \in {"complete", "throw"}
      BY <1>2, <2>1 DEF Busy
    <3>2. slot[s].doc \in Docs /\ doc[slot[s].doc].status \in Outcomes
      BY <1>1, <1>2, <3>1, OwnDocument DEF EndsWithOutcome
    <3>3. doc'[slot[s].doc].status = doc[slot[s].doc].status
      BY <1>2, <2>1, <3>2
    <3>4. QED  BY <3>1, <3>2, <3>3
  <2>2. ASSUME NEW d \in Docs, Settled(d)'
        PROVE  doc'[d].status \in Outcomes \/ job'[d].stalls > MaxStalled
    BY <1>1, <1>2, <2>2 DEF EndsWithOutcome
  <2>3. QED  BY <2>1, <2>2 DEF EndsWithOutcome
<1>3. ASSUME NEW d \in Docs, NEW r \in Replies,
             \/ UploadFile(d, r) \/ SoftDelete(d, r) \/ Unlink(d, r)
      PROVE  EndsWithOutcome'
  <2>1. failedCalls = 0 /\ lockLosses = 0 /\ UNCHANGED <<slot, job>>
    BY <1>1, <1>3 DEF UploadFile, SoftDelete, Unlink, Call
  <2>2. \A e \in Docs : doc'[e].status = doc[e].status
    BY <1>3 DEF UploadFile, SoftDelete, Unlink, Inv, TypeOK, Doc
  <2>3. QED  BY <1>2, <2>1, <2>2 DEF Settled
<1>4. ASSUME NEW d \in Docs, NEW r \in Replies, UploadCreate(d, r)
      PROVE  EndsWithOutcome'
  <2>1. failedCalls = 0 /\ lockLosses = 0 /\ UNCHANGED <<slot, job>>
    BY <1>1, <1>4 DEF UploadCreate, Call
  <2>2. doc[d].status = "NONE" /\ job[d].state = "none"
    BY <1>4 DEF UploadCreate, Inv, RequestsInOrder, RequestOrder
  <2>3. \A s \in Slots : Busy(s) => slot[s].doc # d
    BY <2>2, OwnDocument
  <2>4. \A e \in Docs : e # d => doc'[e].status = doc[e].status
    BY <1>4 DEF UploadCreate, SetStatus, Inv, TypeOK
  <2>5. QED  BY <1>2, <2>1, <2>2, <2>3, <2>4 DEF Settled, Busy
<1>5. ASSUME NEW d \in Docs, NEW r \in Replies, UploadEnqueue(d, r)
      PROVE  EndsWithOutcome'
  <2>1. failedCalls = 0 /\ lockLosses = 0 /\ UNCHANGED <<slot, doc>>
    BY <1>1, <1>5 DEF UploadEnqueue, Call
  <2>2. \A e \in Docs : Settled(e)' => Settled(e) /\ job'[e] = job[e]
    BY <1>5 DEF UploadEnqueue, AddJob, NewJob, NoJob, Settled, Inv, TypeOK
  <2>3. QED  BY <1>2, <2>1, <2>2
<1>6. ASSUME NEW s \in Slots, NEW r \in Replies,
             \/ MarkProcessing(s, r) \/ ReadFile(s, r) \/ EmbedChunks(s, r)
             \/ InsertChunk(s, r) \/ StoreEmbedding(s, r)
             \/ MarkReady(s, r) \/ CatchMarkFailed(s, r) \/ Parse(s)
      PROVE  EndsWithOutcome'
  <2> DEFINE d == slot[s].doc
  <2>1. /\ Busy(s) /\ d \in Docs /\ slot'[s].doc = d
        /\ \A q \in Slots : q # s => slot'[q] = slot[q]
        /\ UNCHANGED <<job, lockLosses>>
        /\ failedCalls = 0 /\ lockLosses = 0
    BY <1>1, <1>6, GoesOn
  <2>2. HasLock(s, d)
    BY <1>1, <2>1 DEF StallsTakeCrashes
  <2>3. \A q \in Slots : q # s /\ Busy(q) => slot[q].doc # d
    BY <1>1, <2>1, <2>2 DEF StallsTakeCrashes, HasLock
  <2>4. ~Settled(d)
    BY <2>2 DEF Settled, HasLock
  <2>5. \A e \in Docs : e # d => doc'[e].status = doc[e].status
    BY <1>6, <2>1 DEF MarkProcessing, ReadFile, EmbedChunks, InsertChunk, StoreEmbedding,
         MarkReady, CatchMarkFailed, Parse, SetStatus, Inv, TypeOK
  <2>6. slot'[s].pc \in {"complete", "throw"} => doc'[d].status \in Outcomes
    <3>1. CASE MarkReady(s, r) \/ CatchMarkFailed(s, r)
      <4>1. r = "ok"
        BY <1>1, <3>1 DEF MarkReady, CatchMarkFailed, Call
      <4>2. PICK new \in Outcomes : doc' = [doc EXCEPT ![d].status = new]
        BY <3>1, <4>1 DEF MarkReady, CatchMarkFailed, SetStatus, Outcomes
      <4>3. doc'[d].status = new
        BY <2>1, <4>2 DEF Inv, TypeOK, Doc
      <4>4. QED  BY <4>3
    <3>2. CASE MarkProcessing(s, r)
      <4>1. r = "ok"
        BY <1>1, <3>2 DEF MarkProcessing, Call
      <4>2. slot'[s].pc = "read"
        BY <3>2, <4>1 DEF MarkProcessing, OnReply, GoTo, Inv, TypeOK, Slot
      <4>3. QED  BY <4>2
    <3>3. CASE ReadFile(s, r)
      <4>1. slot'[s].pc \in {"parse", "catch"}
        BY <3>3 DEF ReadFile, GoTo, Inv, TypeOK, Slot
      <4>2. QED  BY <4>1
    <3>4. CASE Parse(s)
      <4>1. slot'[s].pc \in {"embed", "catch"}
        BY <3>4 DEF Parse, GoTo, Inv, TypeOK, Slot
      <4>2. QED  BY <4>1
    <3>5. CASE EmbedChunks(s, r)
      <4>1. slot'[s].pc \in {"insert", "markReady", "catch"}
        BY <3>5 DEF EmbedChunks, OnReply, Loop, GoTo, Inv, TypeOK, Slot
      <4>2. QED  BY <4>1
    <3>6. CASE InsertChunk(s, r)
      <4>1. slot'[s].pc \in {"store", "catch"}
        BY <3>6 DEF InsertChunk, OnReply, GoTo, Inv, TypeOK, Slot
      <4>2. QED  BY <4>1
    <3>7. CASE StoreEmbedding(s, r)
      <4>1. slot'[s].pc \in {"insert", "markReady", "catch"}
        BY <3>7 DEF StoreEmbedding, OnReply, Loop, Inv, TypeOK, Slot
      <4>2. QED  BY <4>1
    <3>8. QED  BY <1>6, <3>1, <3>2, <3>3, <3>4, <3>5, <3>6, <3>7
  <2>7. ASSUME NEW q \in Slots, slot'[q].pc \in {"complete", "throw"}
        PROVE  doc'[slot'[q].doc].status \in Outcomes
    <3>1. CASE q = s
      BY <2>1, <2>6, <2>7, <3>1
    <3>2. CASE q # s
      <4>1. slot'[q] = slot[q] /\ Busy(q)
        BY <2>1, <2>7, <3>2 DEF Busy
      <4>2. slot[q].doc \in Docs /\ slot[q].doc # d /\ doc[slot[q].doc].status \in Outcomes
        BY <1>1, <2>1, <2>3, <2>7, <3>2, <4>1, OwnDocument DEF EndsWithOutcome
      <4>3. QED  BY <2>5, <4>1, <4>2
    <3>3. QED  BY <3>1, <3>2
  <2>8. ASSUME NEW e \in Docs, Settled(e)'
        PROVE  doc'[e].status \in Outcomes \/ job'[e].stalls > MaxStalled
    <3>1. Settled(e) /\ job' = job
      BY <2>1, <2>8 DEF Settled
    <3>2. e # d
      BY <2>4, <3>1
    <3>3. QED  BY <1>1, <2>1, <2>5, <3>1, <3>2 DEF EndsWithOutcome
  <2>9. QED  BY <2>7, <2>8 DEF EndsWithOutcome
<1>7. ASSUME NEW s \in Slots, CompleteJob(s) \/ FailAttempt(s)
      PROVE  EndsWithOutcome'
  <2>1. PICK state \in {"completed", "delayed", "failed"} :
          EndAttempt(s, slot[s].doc, state)
    BY <1>7 DEF CompleteJob, FailAttempt, Return, RetryOrFail
  <2>2. /\ slot[s].pc \in {"complete", "throw"} /\ slot' = [slot EXCEPT ![s] = Idle]
        /\ UNCHANGED doc /\ failedCalls = 0 /\ lockLosses = 0
    BY <1>7 DEF CompleteJob, FailAttempt, Return, disturbances
  <2>3. slot[s].doc \in Docs
    BY <2>2, OwnDocument DEF Busy
  <2>4. \A q \in Slots : slot'[q] = slot[q] \/ slot'[q] = Idle
    BY <2>2 DEF Inv, TypeOK
  <2>5. \A e \in Docs : e # slot[s].doc => job'[e] = job[e]
    BY <2>1 DEF EndAttempt, Inv, TypeOK
  <2>6. ASSUME NEW q \in Slots, slot'[q].pc \in {"complete", "throw"}
        PROVE  doc'[slot'[q].doc].status \in Outcomes
    <3>1. slot'[q] = slot[q]
      BY <2>4, <2>6 DEF Idle
    <3>2. QED  BY <1>1, <2>2, <2>6, <3>1 DEF EndsWithOutcome
  <2>7. ASSUME NEW e \in Docs, Settled(e)'
        PROVE  doc'[e].status \in Outcomes \/ job'[e].stalls > MaxStalled
    <3>1. CASE e = slot[s].doc
      BY <1>1, <2>2, <3>1 DEF EndsWithOutcome
    <3>2. CASE e # slot[s].doc
      BY <1>1, <2>2, <2>5, <2>7, <3>2 DEF EndsWithOutcome, Settled
    <3>3. QED  BY <3>1, <3>2
  <2>8. QED  BY <2>6, <2>7 DEF EndsWithOutcome
<1>8. ASSUME NEW s \in Slots, NEW d \in Docs, TakeJob(s, d)
      PROVE  EndsWithOutcome'
  <2>1. failedCalls = 0 /\ lockLosses = 0 /\ UNCHANGED doc
    BY <1>8 DEF TakeJob, disturbances
  <2>2. \A q \in Slots : slot'[q].pc \in {"complete", "throw"} => slot'[q] = slot[q]
    BY <1>8 DEF TakeJob, Inv, TypeOK
  <2>3. \A e \in Docs : Settled(e)' => Settled(e) /\ job'[e] = job[e]
    BY <1>8 DEF TakeJob, GiveJob, Settled, Inv, TypeOK, Job
  <2>4. QED  BY <1>2, <2>1, <2>2, <2>3
<1>9. ASSUME NEW d \in Docs, PromoteDelayed(d)
      PROVE  EndsWithOutcome'
  <2>1. failedCalls = 0 /\ lockLosses = 0 /\ UNCHANGED <<slot, doc>>
    BY <1>9 DEF PromoteDelayed, disturbances
  <2>2. \A e \in Docs : Settled(e)' => Settled(e) /\ job'[e] = job[e]
    BY <1>9 DEF PromoteDelayed, Promote, Settled, Inv, TypeOK, Job
  <2>3. QED  BY <1>2, <2>1, <2>2
<1>10. ASSUME NEW d \in Docs, RecoverStalled(d)
       PROVE  EndsWithOutcome'
  <2>1. failedCalls = 0 /\ lockLosses = 0 /\ UNCHANGED <<slot, doc>>
    BY <1>10 DEF RecoverStalled, disturbances
  <2>2. \A e \in Docs : e # d => job'[e] = job[e]
    BY <1>10 DEF RecoverStalled, Stall, Inv, TypeOK
  <2>3. Settled(d)' => job'[d].stalls > MaxStalled
    <3>1. job[d] \in Job /\ job[d].stalls \in Nat
      BY DEF Inv, TypeOK, Job
    <3>2. /\ job'[d].stalls = job[d].stalls + 1
          /\ job'[d].state = IF job[d].stalls < MaxStalled THEN "wait" ELSE "failed"
      BY <1>10, <3>1 DEF RecoverStalled, Stall, Inv, TypeOK, Job
    <3>3. QED  BY <3>1, <3>2 DEF Settled
  <2>4. QED  BY <1>1, <2>1, <2>2, <2>3 DEF EndsWithOutcome, Settled
<1>11. ASSUME NEW d \in Docs, LoseLock(d)
       PROVE  EndsWithOutcome'
  BY <1>1, <1>11 DEF LoseLock
<1>12. ASSUME NEW p \in Procs, Crash(p)
       PROVE  EndsWithOutcome'
  <2>1. failedCalls = 0 /\ lockLosses = 0 /\ UNCHANGED <<job, doc>>
    BY <1>12 DEF Crash
  <2>2. \A q \in Slots : slot'[q].pc \in {"complete", "throw"} => slot'[q] = slot[q]
    BY <1>12 DEF Crash, Idle
  <2>3. QED  BY <1>2, <2>1, <2>2 DEF Settled
<1>13. CASE UNCHANGED vars
  BY <1>2, <1>13 DEF vars, Settled
<1>14. ASSUME NEW s \in Slots, Processing(s)
       PROVE  EndsWithOutcome'
  <2>1. ASSUME Parse(s)  PROVE EndsWithOutcome'
    <3>1. "ok" \in Replies
      BY DEF Replies
    <3>2. QED  BY <1>6, <2>1, <3>1
  <2>2. QED  BY <1>6, <1>7, <1>14, <2>1 DEF Processing
<1>15. QED
  BY <1>3, <1>4, <1>5, <1>8, <1>9, <1>10, <1>11, <1>12, <1>13, <1>14
  DEF Next, Quiescent, Requests, Queueing

(* What each stall and each failure took is never lost sight of.           *)
THEOREM AlwaysAccountable == Spec => []Accountable
<1>1. Init => Accountable
  BY DEF Init, Accountable, UploadsAnswered, StallsTakeCrashes, Abandoned, Busy,
         EndsWithOutcome, Settled, NoJob, Idle
<1>2. Inv /\ Accountable /\ Unspent /\ [Next]_vars => Accountable'
  BY NextRunsOut, UploadsAnsweredKept, StallsTakeCrashesKept, EndsWithOutcomeKept
  DEF Accountable
<1>3. QED  BY <1>1, <1>2, AlwaysInv, AlwaysUnspent, PTL DEF Spec

(* A file without a document needs a failure; a document that reached the  *)
(* queue and is never finished a failed call, a lost lock, or more crashes *)
(* than stalls are tolerated, however many processors and documents.       *)
THEOREM LeftoverAlwaysNeedsFailure == Spec => []LeftoverNeedsFailure
<1>1. ASSUME Inv, Accountable  PROVE LeftoverNeedsFailure
  <2>1. failedCalls \in Nat /\ crashes \in Nat /\ lockLosses \in Nat
    BY <1>1 DEF Inv, TypeOK
  <2> SUFFICES ASSUME NEW d \in Docs
               PROVE  /\ /\ file[d] = "stored" /\ ~Deletable(d)
                         /\ upload[d] # "create" /\ removal[d] # "unlink"
                         => Disturbed
                      /\ /\ Unfinished(d) /\ upload[d] # "enqueue" /\ job[d].state = "none"
                         => failedCalls > 0 \/ crashes > 0
                      /\ Unfinished(d) /\ Settled(d)
                           => failedCalls > 0 \/ lockLosses > 0 \/ crashes > MaxStalled
    BY DEF LeftoverNeedsFailure
  <2>2. RequestOrder(d) /\ doc[d] \in Doc /\ job[d] \in Job
    BY <1>1 DEF Inv, TypeOK, RequestsInOrder
  <2>3. /\ file[d] = "stored" /\ ~Deletable(d)
        /\ upload[d] # "create" /\ removal[d] # "unlink"
        => Disturbed
    BY <1>1, <2>2 DEF Inv, FilesKept, RequestOrder, Deletable, Doc, TypeOK
  <2>4. /\ Unfinished(d) /\ upload[d] # "enqueue" /\ job[d].state = "none"
        => failedCalls > 0 \/ crashes > 0
    BY <1>1, <2>2 DEF Inv, TypeOK, Unfinished, RequestOrder, Accountable, UploadsAnswered
  <2>5. ASSUME Unfinished(d), Settled(d), failedCalls = 0, lockLosses = 0
        PROVE  crashes > MaxStalled
    <3>1. job[d].stalls > MaxStalled
      BY <1>1, <2>5 DEF Accountable, EndsWithOutcome, Unfinished, Outcomes
    <3>2. job[d].stalls <= crashes /\ job[d].stalls \in Nat
      BY <1>1, <2>2, <2>5 DEF Accountable, StallsTakeCrashes, Job
    <3>3. QED  BY <2>1, <3>1, <3>2
  <2>6. QED  BY <2>1, <2>3, <2>4, <2>5
<1>2. QED  BY <1>1, AlwaysInv, AlwaysAccountable, PTL
=============================================================================
