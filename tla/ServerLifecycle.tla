-------------------------- MODULE ServerLifecycle ---------------------------
(***************************************************************************)
(* The two Node.js processes of the system from start to exit: the API     *)
(* process (server.ts), which serves requests and socket clients and also  *)
(* runs jobs, and the worker process (workers/index.ts), which only runs   *)
(* jobs.  What one does with its last seconds is a matter of what it waits *)
(* for: requests and jobs are waited for, but the audit and log entries    *)
(* they write without awaiting (logAuditEvent, the void logInfo of node    *)
(* events) are not.  What socket clients get to know of a job depends on   *)
(* the order of its entries and events, on the calls that fail between     *)
(* them, and on the queue, which hands the job out again.                  *)
(***************************************************************************)
EXTENDS Naturals

CONSTANTS
  Api, Worker,     \* the processes
  Requests,        \* HTTP requests; each writes an audit entry
  Clients,         \* socket.io clients
  Jobs,            \* workflow jobs in the queue
  LastEntry,       \* a run's log entries are 1..LastEntry
  None,
  Patient,         \* do ten seconds outlast all that ends by itself?
  MaxRuns,         \* how often the queue may hand out a job
  MaxFailures      \* calls that fail or whose reply is lost

ASSUME LifecycleAssumption ==
  /\ Api # Worker /\ None \notin {Api, Worker}
  /\ LastEntry \in Nat /\ LastEntry >= 2
  /\ MaxRuns \in Nat \ {0}
  /\ Requests \cap ((Jobs \X (1..MaxRuns)) \X (1..LastEntry)) = {}
  /\ Patient \in BOOLEAN
  /\ MaxFailures \in Nat

Procs   == {Api, Worker}
Runs    == Jobs \X (1..MaxRuns)     \* <<j, n>>: job j, handed out the nth time
Entries == Runs \X (1..LastEntry)
Writes  == Requests \cup Entries

VARIABLES
  stage,     \* stage[p]: how far process p is in its life
  exit,      \* exit[p]: "clean" is code 0
  open,      \* what the API process has not closed yet
  request,   \* request[r]
  client,    \* client[c]: the socket of c
  told,      \* told[c]: the events sent to the socket c has now
  run,       \* run[i]: how far run i of a job is
  on,        \* on[i]: the process of run i
  said,      \* said[i]: the last log entry run i has called for
  write,     \* write[w]: the insert of an audit or log entry; settled is
             \* stored or refused
  failures

vars == <<stage, exit, open, request, client, told, run, on, said, write, failures>>

-----------------------------------------------------------------------------
(* The stages of a process.                                                *)

Shutdown == {"http", "sockets", "workers", "prisma", "queues", "redis"}
Stage    == {"connecting", "listening", "serving", "exited"} \cup Shutdown

(* Mutant: the database is disconnected before the workers are closed.     *)
AfterPrismaFirst(p) ==
  [http |-> "sockets", sockets |-> "prisma", prisma |-> "workers",
   workers |-> IF p = Api THEN "queues" ELSE "exited",
   queues |-> "redis", redis |-> "exited"]

(* What shutdown awaits next.                                              *)
After(p) ==
  [http |-> "sockets", sockets |-> "workers",
   workers |-> IF p = Api THEN "prisma" ELSE "exited",
   prisma |-> "queues", queues |-> "redis", redis |-> "exited"]

First(p) == IF p = Api THEN "http" ELSE "workers"

(* Workers take jobs from their creation until they are closed, so also    *)
(* while the server waits for its requests.                                *)
Taking(p) == stage[p] \in {"listening", "serving", "http", "sockets"}

RunsOn(p, i) == run[i] \in {"running", "catching"} /\ on[i] = p

Init ==
  /\ stage = [p \in Procs |-> "connecting"]
  /\ exit = [p \in Procs |-> "none"]
  /\ open = Shutdown
  /\ request = [r \in Requests |-> "none"]
  /\ client = [c \in Clients |-> "away"]
  /\ told = [c \in Clients |-> {}]
  /\ run = [i \in Runs |-> "none"]
  /\ on = [i \in Runs |-> None]
  /\ said = [i \in Runs |-> 0]
  /\ write = [w \in Writes |-> "none"]
  /\ failures = 0

Fail == failures < MaxFailures /\ failures' = failures + 1

-----------------------------------------------------------------------------
(* Requests and socket clients of the API process.                         *)

(* A closing server refuses connections but not the requests of those that *)
(* are kept alive.                                                         *)
OpenRequest(r) ==
  /\ request[r] = "none"
  /\ stage[Api] \in {"serving", "http"}
  /\ request' = [request EXCEPT ![r] = "open"]
  /\ UNCHANGED <<stage, exit, open, client, told, run, on, said, write, failures>>

(* The handler calls logAuditEvent, which returns at once, and answers.    *)
AnswerRequest(r) ==
  /\ request[r] = "open"
  /\ request' = [request EXCEPT ![r] = "answered"]
  /\ write' = [write EXCEPT ![r] = "flight"]
  /\ UNCHANGED <<stage, exit, open, client, told, run, on, said, failures>>

Connect(c) ==
  /\ client[c] = "away"
  /\ stage[Api] = "serving"
  /\ client' = [client EXCEPT ![c] = "connected"]
  /\ UNCHANGED <<stage, exit, open, request, told, run, on, said, write, failures>>

Disconnect(c) ==
  /\ client[c] = "connected"
  /\ client' = [client EXCEPT ![c] = "away"]
  /\ told' = [told EXCEPT ![c] = {}]
  /\ UNCHANGED <<stage, exit, open, request, run, on, said, write, failures>>

-----------------------------------------------------------------------------
(* Runs of processWorkflowJob, reduced to the log entries they call for    *)
(* ("Execution started", those of node events, the outcome), the events    *)
(* that go with them, and the calls that may fail around them.  The event  *)
(* execution.log, which repeats an entry, is left out.                     *)

(* The queue hands a job out, again when a run has thrown or was cut off,  *)
(* or, after a lost lock or a lost reply, when neither is the case.        *)
TakeJob(p, i) ==
  /\ Taking(p)
  /\ run[i] = "none"
  /\ \/ i[2] = 1 /\ UNCHANGED failures
     \/ /\ i[2] > 1
        /\ LET before == run[<<i[1], i[2] - 1>>] IN
             \/ before \in {"threw", "cut"} /\ UNCHANGED failures
             \/ before \in {"running", "catching", "returned"} /\ Fail
  /\ run' = [run EXCEPT ![i] = "running"]
  /\ on' = [on EXCEPT ![i] = p]
  /\ UNCHANGED <<stage, exit, open, request, client, told, said, write>>

(* Mutant: the outcome is logged like a node event, without awaiting it.   *)
OnlyFirstAwaited(i) == said[i] = 1 => write[<<i, 1>>] # "flight"

(* The first and the last entry are awaited.                               *)
Awaited(i) ==
  /\ said[i] = 1 => write[<<i, 1>>] # "flight"
  /\ said[i] = LastEntry => write[<<i, LastEntry>>] # "flight"

(* Mutant: every event is sent as soon as the insert of its entry is.      *)
AlwaysAtOnce(k) == TRUE

(* That of a node is; the others are sent when their insert is over.       *)
AtOnce(k) == k # 1 /\ k # LastEntry

(* emitToExecution: every socket of the organization is in its room; the   *)
(* worker process has no sockets, and there it does nothing.               *)
Telling(i, k) ==
  [c \in Clients |-> IF client[c] = "connected" /\ on[i] = Api
                       THEN told[c] \cup {<<i, k>>} ELSE told[c]]

(* The engine may stop at any node, and then comes the outcome; in the     *)
(* catch block nothing else comes.                                         *)
Say(i, k) ==
  /\ \/ run[i] = "running" /\ k = said[i] + 1
     \/ /\ run[i] \in {"running", "catching"}
        /\ said[i] > 0 /\ said[i] < k /\ k = LastEntry
  /\ Awaited(i)
  /\ said' = [said EXCEPT ![i] = k]
  /\ write' = [write EXCEPT ![<<i, k>>] = "flight"]
  /\ told' = IF AtOnce(k) THEN Telling(i, k) ELSE told
  /\ UNCHANGED <<stage, exit, open, request, client, run, on, failures>>

(* An insert returns.  That the database refused it is swallowed by        *)
(* writeLog and logAuditEvent, so that nothing tells the two apart.        *)
Insert(w) ==
  /\ write[w] = "flight"
  /\ write' = [write EXCEPT ![w] = "settled"]
  /\ told' = IF w \in Entries /\ ~AtOnce(w[2]) THEN Telling(w[1], w[2]) ELSE told
  /\ UNCHANGED <<stage, exit, open, request, client, run, on, said, failures>>

(* The run is over: it returns, or the catch block throws its error again. *)
FinishRun(i) ==
  /\ said[i] = LastEntry /\ Awaited(i)
  /\ \/ run[i] = "running" /\ run' = [run EXCEPT ![i] = "returned"]
     \/ run[i] = "catching" /\ run' = [run EXCEPT ![i] = "threw"]
  /\ UNCHANGED <<stage, exit, open, request, client, told, on, said, write, failures>>

(* markExecutionRunning throws, which nothing catches.                     *)
BeginFails(i) ==
  /\ run[i] = "running" /\ said[i] = 0
  /\ Fail
  /\ run' = [run EXCEPT ![i] = "threw"]
  /\ UNCHANGED <<stage, exit, open, request, client, told, on, said, write>>

(* Mutant: nothing is caught.                                              *)
CallFailsUncaught(i) ==
  /\ run[i] = "running" /\ 0 < said[i] /\ said[i] < LastEntry /\ Awaited(i)
  /\ Fail
  /\ run' = [run EXCEPT ![i] = "threw"]
  /\ UNCHANGED <<stage, exit, open, request, client, told, on, said, write>>

(* A call of the try block throws: the version cannot be read, or the row  *)
(* cannot be marked.                                                       *)
CallFails(i) ==
  /\ run[i] = "running" /\ 0 < said[i] /\ said[i] < LastEntry /\ Awaited(i)
  /\ Fail
  /\ run' = [run EXCEPT ![i] = "catching"]
  /\ UNCHANGED <<stage, exit, open, request, client, told, on, said, write>>

(* And so does markExecutionFailed in the catch block: no outcome is       *)
(* logged, and nobody is told of one.                                      *)
CatchFails(i) ==
  /\ run[i] = "catching" /\ said[i] < LastEntry
  /\ Fail
  /\ run' = [run EXCEPT ![i] = "threw"]
  /\ UNCHANGED <<stage, exit, open, request, client, told, on, said, write>>

-----------------------------------------------------------------------------
(* Start and end of a process.                                             *)

(* The process is gone, with all that it was doing and all that it had     *)
(* open; an insert it has sent may have arrived or not.                    *)
InFlight(p) ==
  {w \in Writes : /\ write[w] = "flight"
                  /\ IF w \in Requests THEN p = Api ELSE on[w[1]] = p}

Exit(p, how) ==
  /\ stage' = [stage EXCEPT ![p] = "exited"]
  /\ exit' = [exit EXCEPT ![p] = how]
  /\ request' = [r \in Requests |->
       IF p = Api /\ request[r] = "open" THEN "cut" ELSE request[r]]
  /\ client' = [c \in Clients |->
       IF p = Api /\ client[c] = "connected" THEN "cut" ELSE client[c]]
  /\ run' = [i \in Runs |-> IF RunsOn(p, i) THEN "cut" ELSE run[i]]
  /\ \E arrived \in SUBSET InFlight(p) :
       write' = [w \in Writes |-> IF w \in arrived THEN "settled"
                                  ELSE IF w \in InFlight(p) THEN "lost" ELSE write[w]]
  /\ open' = IF p = Api THEN {} ELSE open
  /\ told' = [c \in Clients |-> IF p = Api THEN {} ELSE told[c]]
  /\ UNCHANGED <<on, said>>

Proceed(p, next) ==
  /\ stage' = [stage EXCEPT ![p] = next]
  /\ UNCHANGED <<exit, request, client, told, run, on, said, write>>

(* bootstrap connects to Redis, then creates the workers and listens;      *)
(* startWorkers cleans up schedules, then creates its workers.             *)
Start(p) ==
  /\ stage[p] = "connecting"
  /\ Proceed(p, IF p = Api THEN "listening" ELSE "serving")
  /\ UNCHANGED <<open, failures>>

Listen ==
  /\ stage[Api] = "listening"
  /\ Proceed(Api, "serving")
  /\ UNCHANGED <<open, failures>>

(* SIGTERM or SIGINT; another one changes nothing.                         *)
Signal(p) ==
  /\ stage[p] = "serving"
  /\ Proceed(p, First(p))
  /\ UNCHANGED <<open, failures>>

(* Before its handler is registered a signal just ends the process.        *)
SignalEarly(p) ==
  /\ stage[p] \in {"connecting", "listening"}
  /\ Exit(p, "forced")
  /\ UNCHANGED failures

(* Mutant: the workers are told to close, and nobody waits for them.       *)
DrainedButWorkers(p) ==
  stage[p] = "http" =>
    /\ \A r \in Requests : request[r] # "open"
    /\ \A c \in Clients : client[c] # "connected"

(* What server.close and worker.close wait for.  A socket is a connection  *)
(* of the server like any other.                                           *)
Drained(p) ==
  /\ stage[p] = "http" =>
       /\ \A r \in Requests : request[r] # "open"
       /\ \A c \in Clients : client[c] # "connected"
  /\ stage[p] = "workers" => \A i \in Runs : ~RunsOn(p, i)

Leave(p) ==
  IF After(p)[stage[p]] = "exited"
    THEN Exit(p, "clean")
    ELSE Proceed(p, After(p)[stage[p]]) /\ open' = open \ {stage[p]}

FinishStage(p) ==
  /\ stage[p] \in Shutdown
  /\ Drained(p)
  /\ Leave(p)
  /\ UNCHANGED failures

(* A close or disconnect rejects.  The API process ignores that of its     *)
(* workers; otherwise, and in the worker process, it exits with code 1.    *)
FailStage(p) ==
  /\ stage[p] \in Shutdown \ {"http", "sockets"}
  /\ Fail
  /\ IF p = Api /\ stage[p] = "workers" THEN Leave(p)
                                        ELSE Exit(p, "forced")

(* Nothing the API process waits for will end by itself: sockets stay.     *)
Stuck ==
  /\ stage[Api] = "http"
  /\ \A r \in Requests : request[r] # "open"
  /\ \E c \in Clients : client[c] = "connected"

(* Mutant: the timer only covers the closing of the server.                *)
TimerFiresEarlyOn ==
  /\ stage[Api] = "sockets"
  /\ Exit(Api, "forced")
  /\ UNCHANGED failures

(* Ten seconds after the signal.  The worker process has no such timer.    *)
TimerFires ==
  /\ stage[Api] \in Shutdown
  /\ Patient => Stuck
  /\ Exit(Api, "forced")
  /\ UNCHANGED failures

(* An uncaught exception, an unhandled rejection, or a kill.               *)
Crash(p) ==
  /\ stage[p] # "exited"
  /\ Exit(p, "forced")
  /\ UNCHANGED failures

Over == (\A p \in Procs : stage[p] = "exited") /\ UNCHANGED vars

-----------------------------------------------------------------------------
Working(i) == (\E k \in 1..LastEntry : Say(i, k)) \/ FinishRun(i)

Next ==
  \/ \E r \in Requests : OpenRequest(r) \/ AnswerRequest(r)
  \/ \E c \in Clients : Connect(c) \/ Disconnect(c)
  \/ \E p \in Procs, i \in Runs : TakeJob(p, i)
  \/ \E i \in Runs : Working(i) \/ BeginFails(i) \/ CallFails(i) \/ CatchFails(i)
  \/ \E w \in Writes : Insert(w)
  \/ \E p \in Procs : \/ Start(p) \/ Signal(p) \/ SignalEarly(p)
                      \/ FinishStage(p) \/ FailStage(p) \/ Crash(p)
  \/ Listen \/ TimerFires \/ Over

(* A run and its inserts go on and timers fire; a request may hang, and a  *)
(* client may stay, for ever.                                              *)
Fairness ==
  /\ \A i \in Runs : WF_vars(Working(i) \/ \E k \in 1..LastEntry : Insert(<<i, k>>))
  /\ \A p \in Procs : WF_vars(FinishStage(p))
  /\ WF_vars(TimerFires)

Spec == Init /\ [][Next]_vars /\ Fairness

-----------------------------------------------------------------------------
(* Properties.                                                             *)

(* Stages, requests, sockets, runs and inserts are what they can be.       *)
TypeOK ==
  /\ stage \in [Procs -> Stage]
  /\ exit \in [Procs -> {"none", "clean", "forced"}]
  /\ \A p \in Procs : exit[p] = "none" <=> stage[p] # "exited"
  /\ open \subseteq Shutdown
  /\ request \in [Requests -> {"none", "open", "answered", "cut"}]
  /\ client \in [Clients -> {"away", "connected", "cut"}]
  /\ told \in [Clients -> SUBSET Entries]
  /\ run \in [Runs -> {"none", "running", "catching", "returned", "threw", "cut"}]
  /\ on \in [Runs -> Procs \cup {None}]
  /\ said \in [Runs -> 0..LastEntry]
  /\ write \in [Writes -> {"none", "flight", "settled", "lost"}]
  /\ failures \in 0..MaxFailures

(* The API process closes the database, the queues and Redis only when     *)
(* neither a request nor a job can still use them, and the socket server   *)
(* only when no client is left: the order of the stages, while the workers *)
(* go on taking jobs.                                                      *)
ResourcesOutliveUsers ==
  failures = 0 /\ stage[Api] # "exited" =>
    /\ {"prisma", "queues", "redis"} \subseteq open
         \/ /\ \A r \in Requests : request[r] # "open"
            /\ \A i \in Runs : ~RunsOn(Api, i)
    /\ "sockets" \in open \/ \A c \in Clients : client[c] # "connected"

(* "This prevents partial job execution on deploy": a process that exits   *)
(* with code 0 has cut off no request, no socket and no job, unless the    *)
(* closing of a worker failed.                                             *)
CleanExitCutsNothing ==
  \A p \in Procs : failures = 0 /\ exit[p] = "clean" =>
    /\ \A i \in Runs : on[i] = p => run[i] = "returned"
    /\ p = Api => /\ \A r \in Requests : request[r] # "cut"
                  /\ \A c \in Clients : client[c] # "cut"

(* And it has not left before the database had settled the first and last  *)
(* log entry of each of its jobs.  Entries of node events and of the audit *)
(* log are awaited by nobody and may still be lost: only these two are     *)
(* safe.                                                                   *)
CleanExitKeepsOutcome ==
  \A p \in Procs : failures = 0 /\ exit[p] = "clean" =>
    \A i \in Runs : on[i] = p =>
      write[<<i, 1>>] = "settled" /\ write[<<i, LastEntry>>] = "settled"

(* What a socket is told of a start or an outcome is on record: a client   *)
(* that reads the log when it is told finds the entry, unless the database *)
(* refused it, whatever else fails and however often the job is handed     *)
(* out.                                                                    *)
ToldIsOnRecord ==
  \A c \in Clients, i \in Runs, k \in {1, LastEntry} :
    <<i, k>> \in told[c] => write[<<i, k>>] = "settled"

(* A socket that stays connected and was told anything of a run is told    *)
(* how it ends.  One failed call does not change that, since it is caught: *)
(* it takes another one, in the catch block itself, for a run to end       *)
(* behind the back of its sockets.  The outcome of a run is that of the    *)
(* job, and not followed by another start, as long as nothing fails.       *)
ToldHowItEnds ==
  \A c \in Clients, i \in Runs, k \in 1..LastEntry : <<i, k>> \in told[c] =>
    /\ client[c] = "connected" =>
         /\ run[i] = "returned" => <<i, LastEntry>> \in told[c]
         /\ run[i] = "threw" => <<i, LastEntry>> \in told[c] \/ failures > 1
    /\ failures = 0 =>
         \A h \in Runs \ {i}, m \in 1..LastEntry : h[1] = i[1] => <<h, m>> \notin told[c]

(* "The process always terminates even if a request hangs": no process is  *)
(* shutting down for ever, the API process whatever its requests and       *)
(* clients do, the worker process when its jobs have ended.                *)
SignalEndsProcess ==
  []<>(\A p \in Procs : stage[p] \notin Shutdown)


-----------------------------------------------------------------------------
(* The inductive invariant behind the theorems of ServerLifecycleProofs.   *)

(* The worker process has one stage; the API process has closed nothing    *)
(* that lies ahead of its stage.                                           *)
StagesClose ==
  /\ stage[Worker] \in {"connecting", "serving", "workers", "exited"}
  /\ stage[Api] # "exited" =>
       /\ stage[Api] \in {"queues", "redis"} \/ {"prisma", "queues", "redis"} \subseteq open
       /\ stage[Api] \in {"workers", "prisma", "queues", "redis"} \/ "sockets" \in open

(* What a stage has waited for does not come back.                         *)
QuietBehind ==
  /\ stage[Api] \in Shutdown \ {"http"} =>
       /\ \A r \in Requests : request[r] # "open"
       /\ \A c \in Clients : client[c] # "connected"
  /\ failures = 0 /\ stage[Api] \in {"prisma", "queues", "redis"} =>
       \A i \in Runs : ~RunsOn(Api, i)

(* Only the end of a process cuts anything off.                            *)
NothingCutYet ==
  /\ stage[Api] # "exited" =>
       /\ \A r \in Requests : request[r] # "cut"
       /\ \A c \in Clients : client[c] # "cut"
  /\ \A p \in Procs : stage[p] # "exited" =>
       \A i \in Runs : on[i] = p => run[i] \notin {"none", "cut"}

(* How far the first and the last entry of a run have come.  While nothing *)
(* fails it throws nothing.                                                *)
EntriesFollow(i) ==
  LET first == write[<<i, 1>>]
      last  == write[<<i, LastEntry>>] IN
  /\ run[i] = "none" => said[i] = 0
  /\ run[i] = "running" =>
       /\ said[i] = 1 => first \in {"flight", "settled"}
       /\ said[i] > 1 => first = "settled"
       /\ said[i] = LastEntry => last \in {"flight", "settled"}
  /\ run[i] = "returned" => first = "settled" /\ last = "settled"
  /\ failures = 0 => run[i] \notin {"catching", "threw"}

EntriesFollowRun == \A i \in Runs : EntriesFollow(i)

Inv ==
  /\ TypeOK
  /\ StagesClose
  /\ QuietBehind
  /\ NothingCutYet
  /\ EntriesFollowRun
  /\ CleanExitCutsNothing

(* How many failures it took a run to get where it is: one to catch, two   *)
(* to throw without an outcome once it has begun.                          *)
RunFollows(i) ==
  /\ run[i] = "none" <=> on[i] = None
  /\ run[i] = "catching" =>
       /\ failures > 0 /\ said[i] > 0
       /\ write[<<i, 1>>] = "settled"
       /\ said[i] = LastEntry => write[<<i, LastEntry>>] \in {"flight", "settled"}
  /\ run[i] = "threw" =>
       \/ said[i] = 0
       \/ said[i] = LastEntry /\ write[<<i, LastEntry>>] = "settled"
       \/ said[i] < LastEntry /\ failures > 1

(* No entry is sent ahead of its time, and none while the first one is.    *)
SaidFollows(i) ==
  /\ said[i] > 1 => write[<<i, 1>>] # "flight"
  /\ \A k \in 1..LastEntry : k > said[i] => write[<<i, k>>] = "none"

(* What a socket was told: only by runs of the API process, of entries     *)
(* called for, of a start or an outcome when it is settled, and of a       *)
(* settled outcome always.                                                 *)
ToldFollows(c) ==
  /\ client[c] = "away" => told[c] = {}
  /\ \A i \in Runs, k \in 1..LastEntry : <<i, k>> \in told[c] =>
       /\ on[i] = Api /\ said[i] >= k
       /\ k \in {1, LastEntry} => write[<<i, k>>] = "settled"
       /\ client[c] = "connected" /\ write[<<i, LastEntry>>] = "settled" =>
            <<i, LastEntry>> \in told[c]

(* While nothing fails a job is handed out again only when it was cut off, *)
(* so that at most one of its runs is in the API process.                  *)
RunsInOrder ==
  \A i, h \in Runs : i[1] = h[1] /\ i[2] < h[2] /\ run[h] # "none" =>
    /\ run[i] # "none"
    /\ failures = 0 => run[i] = "cut" /\ ~(on[i] = Api /\ on[h] = Api)

EventsInv ==
  /\ \A i \in Runs : RunFollows(i) /\ SaidFollows(i)
  /\ \A c \in Clients : ToldFollows(c)
  /\ RunsInOrder
=============================================================================
