----------------------- MODULE ServerLifecycleProofs ------------------------
(***************************************************************************)
(* For any number of requests, clients, jobs, runs and log entries, and    *)
(* any bound on what fails: nothing is closed under its users, a process   *)
(* that exits with code 0 has cut nothing off and has waited for the first *)
(* and the last log entry of its jobs, and what a socket is told is on     *)
(* record and has an end.                                                  *)
(*                                                                         *)
(* None of these is inductive.  That the stages are left in order says     *)
(* what is closed (StagesClose) and what is over (QuietBehind); that only  *)
(* an exit cuts anything off (NothingCutYet) says what a clean one cuts;   *)
(* an entry that is awaited is settled when the run moves on               *)
(* (EntriesFollowRun).  For what sockets are told (EventsInv): how many    *)
(* failures it takes a run to throw without an outcome (RunFollows), that  *)
(* no entry is sent ahead of its time (SaidFollows), what a socket was     *)
(* told of them (ToldFollows), and the order of the runs of a job          *)
(* (RunsInOrder).                                                          *)
(***************************************************************************)
EXTENDS ServerLifecycle, TLAPS

USE LifecycleAssumption

-----------------------------------------------------------------------------
(* A run's first and last entry are inserts, and no request's. *)
LEMMA FirstAndLast ==
  \A j \in Runs : <<j, 1>> \in Writes /\ <<j, LastEntry>> \in Writes
BY DEF Writes, Entries

LEMMA EntriesAreNoRequests ==
  \A j \in Runs, k \in 1..LastEntry : <<j, k>> \notin Requests
BY DEF Runs

(* Initially nothing has begun. *)
LEMMA InitInv == Init => Inv
<1> SUFFICES ASSUME Init  PROVE Inv
  OBVIOUS
<1> USE DEF Init
<1>1. TypeOK
  BY DEF TypeOK, Procs, Stage, Shutdown
<1>2. StagesClose
  BY DEF StagesClose, Procs, Shutdown
<1>3. QuietBehind
  BY DEF QuietBehind, Procs, Shutdown, RunsOn
<1>4. NothingCutYet
  BY DEF NothingCutYet, Procs
<1>5. EntriesFollowRun
  BY DEF EntriesFollowRun, EntriesFollow
<1>6. CleanExitCutsNothing
  BY DEF CleanExitCutsNothing
<1>7. QED  BY <1>1, <1>2, <1>3, <1>4, <1>5, <1>6 DEF Inv

-----------------------------------------------------------------------------
(* Requests, clients and jobs. *)

(* A request may come in only before the server has closed. *)
LEMMA OpenRequestStep ==
  ASSUME Inv, NEW r \in Requests, OpenRequest(r)
  PROVE  Inv'
<1> USE DEF OpenRequest
<1>1. TypeOK'
  BY DEF Inv, TypeOK
<1>2. StagesClose'
  BY DEF Inv, StagesClose, TypeOK
<1>3. QuietBehind'
  BY DEF Inv, QuietBehind, TypeOK, RunsOn, Shutdown
<1>4. NothingCutYet'
  BY DEF Inv, NothingCutYet, TypeOK, RunsOn
<1>5. EntriesFollowRun'
  BY DEF Inv, EntriesFollowRun, EntriesFollow
<1>6. CleanExitCutsNothing'
  BY DEF Inv, CleanExitCutsNothing, NothingCutYet, TypeOK
<1>7. QED  BY <1>1, <1>2, <1>3, <1>4, <1>5, <1>6 DEF Inv

(* An answer leaves its audit entry in flight. *)
LEMMA AnswerRequestStep ==
  ASSUME Inv, NEW r \in Requests, AnswerRequest(r)
  PROVE  Inv'
<1> USE DEF AnswerRequest
<1>1. TypeOK'
  BY DEF Inv, TypeOK
<1>2. StagesClose'
  BY DEF Inv, StagesClose, TypeOK
<1>3. QuietBehind'
  BY DEF Inv, QuietBehind, TypeOK, RunsOn, Shutdown
<1>4. NothingCutYet'
  BY DEF Inv, NothingCutYet, TypeOK, RunsOn
<1>5. EntriesFollowRun'
  <2>1. \A j \in Runs : <<j, 1>> # r /\ <<j, LastEntry>> # r
    BY EntriesAreNoRequests
  <2>2. \A j \in Runs : /\ write'[<<j, 1>>] = write[<<j, 1>>]
                       /\ write'[<<j, LastEntry>>] = write[<<j, LastEntry>>]
    BY <2>1, FirstAndLast DEF Inv, TypeOK
  <2>3. QED  BY <2>2 DEF Inv, EntriesFollowRun, EntriesFollow
<1>6. CleanExitCutsNothing'
  BY DEF Inv, CleanExitCutsNothing, NothingCutYet, TypeOK
<1>7. QED  BY <1>1, <1>2, <1>3, <1>4, <1>5, <1>6 DEF Inv

(* A client may connect only before the server has closed. *)
LEMMA ConnectStep ==
  ASSUME Inv, NEW c \in Clients, Connect(c)
  PROVE  Inv'
<1> USE DEF Connect
<1>1. TypeOK'
  BY DEF Inv, TypeOK
<1>2. StagesClose'
  BY DEF Inv, StagesClose, TypeOK
<1>3. QuietBehind'
  BY DEF Inv, QuietBehind, TypeOK, RunsOn, Shutdown
<1>4. NothingCutYet'
  BY DEF Inv, NothingCutYet, TypeOK, RunsOn
<1>5. EntriesFollowRun'
  BY DEF Inv, EntriesFollowRun, EntriesFollow
<1>6. CleanExitCutsNothing'
  BY DEF Inv, CleanExitCutsNothing, NothingCutYet, TypeOK
<1>7. QED  BY <1>1, <1>2, <1>3, <1>4, <1>5, <1>6 DEF Inv

(* A client that leaves leaves nothing behind. *)
LEMMA DisconnectStep ==
  ASSUME Inv, NEW c \in Clients, Disconnect(c)
  PROVE  Inv'
<1> USE DEF Disconnect
<1>1. TypeOK'
  BY DEF Inv, TypeOK
<1>2. StagesClose'
  BY DEF Inv, StagesClose, TypeOK
<1>3. QuietBehind'
  BY DEF Inv, QuietBehind, TypeOK, RunsOn, Shutdown
<1>4. NothingCutYet'
  BY DEF Inv, NothingCutYet, TypeOK, RunsOn
<1>5. EntriesFollowRun'
  BY DEF Inv, EntriesFollowRun, EntriesFollow
<1>6. CleanExitCutsNothing'
  BY DEF Inv, CleanExitCutsNothing, NothingCutYet, TypeOK
<1>7. QED  BY <1>1, <1>2, <1>3, <1>4, <1>5, <1>6 DEF Inv

(* A job is taken by a process that has not closed its workers. *)
LEMMA TakeJobStep ==
  ASSUME Inv, NEW p \in Procs, NEW i \in Runs, TakeJob(p, i)
  PROVE  Inv'
<1> USE DEF TakeJob, Taking, Procs
<1>0. /\ failures' \in 0..MaxFailures
      /\ failures' = 0 => failures = 0
  BY DEF Fail, Inv, TypeOK
<1>1. TypeOK'
  BY <1>0 DEF Inv, TypeOK
<1>2. StagesClose'
  BY DEF Inv, StagesClose, TypeOK, Shutdown
<1>3. QuietBehind'
  BY <1>0 DEF Inv, QuietBehind, TypeOK, RunsOn, Shutdown, Taking
<1>4. NothingCutYet'
  BY DEF Inv, NothingCutYet, TypeOK, RunsOn
<1>5. EntriesFollowRun'
  <2>1. ASSUME NEW h \in Runs, EntriesFollow(h)  PROVE EntriesFollow(h)'
    <3>1. CASE h # i
      BY <1>0, <2>1, <3>1 DEF Inv, TypeOK, EntriesFollow
    <3>2. CASE h = i
      <4>1. run'[h] = "running" /\ said'[h] = 0
        BY <2>1, <3>2 DEF Inv, TypeOK, EntriesFollow
      <4>2. QED  BY <4>1 DEF EntriesFollow
    <3>3. QED  BY <3>1, <3>2
  <2>2. QED  BY <2>1 DEF Inv, EntriesFollowRun
<1>6. CleanExitCutsNothing'
  BY <1>0 DEF Inv, CleanExitCutsNothing, NothingCutYet, TypeOK
<1>7. QED  BY <1>1, <1>2, <1>3, <1>4, <1>5, <1>6 DEF Inv

(* What is told is an entry of the run that tells it, to the sockets of    *)
(* the API process, and nobody else is told anything. *)
LEMMA TellingTells ==
  ASSUME TypeOK, NEW i \in Runs, NEW k \in 1..LastEntry, told' = Telling(i, k)
  PROVE  /\ told' \in [Clients -> SUBSET Entries]
         /\ \A c \in Clients :
              /\ told[c] \subseteq told'[c]
              /\ client[c] = "connected" /\ on[i] = Api => <<i, k>> \in told'[c]
              /\ \A h \in Runs, m \in 1..LastEntry :
                   <<h, m>> \in told'[c] /\ <<h, m>> \notin told[c] =>
                     h = i /\ m = k /\ on[i] = Api /\ client[c] = "connected"
<1>1. <<i, k>> \in Entries
  BY DEF Entries
<1>2. told \in [Clients -> SUBSET Entries]
  BY DEF TypeOK
<1>3. \A c \in Clients : told'[c] = IF client[c] = "connected" /\ on[i] = Api
                                     THEN told[c] \cup {<<i, k>>} ELSE told[c]
  BY DEF Telling
<1>4. told' \in [Clients -> SUBSET Entries]
  BY <1>1, <1>2 DEF Telling
<1>5. ASSUME NEW c \in Clients, NEW h \in Runs, NEW m \in 1..LastEntry,
             <<h, m>> \in told'[c], <<h, m>> \notin told[c]
      PROVE  h = i /\ m = k /\ on[i] = Api /\ client[c] = "connected"
  <2>1. client[c] = "connected" /\ on[i] = Api
    BY <1>3, <1>5
  <2>2. <<h, m>> \in {<<i, k>>}
    BY <1>3, <1>5, <2>1
  <2>3. QED  BY <2>1, <2>2
<1>6. QED  BY <1>3, <1>4, <1>5

(* The first entry comes first, and the second waits for it. *)
LEMMA SayStep ==
  ASSUME Inv, NEW i \in Runs, NEW k \in 1..LastEntry, Say(i, k)
  PROVE  Inv'
<1> USE DEF Say, Awaited
<1>0. run[i] \in {"running", "catching"}
  OBVIOUS
<1>1. TypeOK'
  <2>1. <<i, k>> \in Writes
    BY DEF Writes, Entries
  <2>2. write' \in [Writes -> {"none", "flight", "settled", "lost"}]
    BY <2>1 DEF Inv, TypeOK
  <2>3. said' \in [Runs -> 0..LastEntry]
    BY DEF Inv, TypeOK
  <2>4. told' \in [Clients -> SUBSET Entries]
    <3>1. CASE AtOnce(k)
      BY <3>1, TellingTells DEF Inv
    <3>2. CASE ~AtOnce(k)
      BY <3>2 DEF Inv, TypeOK
    <3>3. QED  BY <3>1, <3>2
  <2>5. QED  BY <2>2, <2>3, <2>4 DEF Inv, TypeOK
<1>2. StagesClose'
  BY DEF Inv, StagesClose, TypeOK
<1>3. QuietBehind'
  BY DEF Inv, QuietBehind, TypeOK, RunsOn, Shutdown
<1>4. NothingCutYet'
  BY DEF Inv, NothingCutYet, TypeOK, RunsOn
<1>5. EntriesFollowRun'
  <2>1. <<i, k>> \in Writes
    BY DEF Writes, Entries
  <2>2. \A w \in Writes : write'[w] = IF w = <<i, k>> THEN "flight" ELSE write[w]
    BY <2>1 DEF Inv, TypeOK
  <2>3. \A h \in Runs : <<h, 1>> \in Writes /\ <<h, LastEntry>> \in Writes
    BY FirstAndLast
  <2>4. ASSUME NEW h \in Runs, EntriesFollow(h), h # i
        PROVE  EntriesFollow(h)'
    <3>1. write'[<<h, 1>>] = write[<<h, 1>>] /\ write'[<<h, LastEntry>>] = write[<<h, LastEntry>>]
      BY <2>2, <2>3, <2>4
    <3>2. run'[h] = run[h] /\ said'[h] = said[h] /\ failures' = failures
      BY <2>4 DEF Inv, TypeOK
    <3>3. QED  BY <2>4, <3>1, <3>2 DEF EntriesFollow
  <2>5. ASSUME EntriesFollow(i)  PROVE EntriesFollow(i)'
    <3>1. /\ run'[i] = run[i] /\ failures' = failures
          /\ said'[i] = k /\ said[i] \in 0..LastEntry
      BY DEF Inv, TypeOK
    <3>2. CASE run[i] = "catching"
      BY <1>0, <2>5, <3>1, <3>2 DEF EntriesFollow
    <3>3. CASE run[i] = "running" /\ k = 1
      <4>1. write'[<<i, 1>>] = "flight"
        BY <2>1, <2>2, <3>3
      <4>2. QED  BY <3>1, <3>3, <4>1 DEF EntriesFollow
    <3>4. CASE run[i] = "running" /\ k # 1
      <4>1. said[i] > 0
        BY <3>1, <3>4
      <4>2. write[<<i, 1>>] = "settled"
        BY <2>5, <3>1, <3>4, <4>1 DEF EntriesFollow
      <4>3. write'[<<i, 1>>] = "settled"
        BY <2>2, <2>3, <3>4, <4>2
      <4>4. k = LastEntry => write'[<<i, LastEntry>>] = "flight"
        BY <2>1, <2>2
      <4>5. QED  BY <3>1, <3>4, <4>3, <4>4 DEF EntriesFollow
    <3>5. QED  BY <1>0, <3>2, <3>3, <3>4
  <2>6. QED  BY <2>4, <2>5 DEF Inv, EntriesFollowRun
<1>6. CleanExitCutsNothing'
  BY DEF Inv, CleanExitCutsNothing, NothingCutYet, TypeOK
<1>7. QED  BY <1>1, <1>2, <1>3, <1>4, <1>5, <1>6 DEF Inv

(* An insert that returns has settled its entry. *)
LEMMA InsertStep ==
  ASSUME Inv, NEW w \in Writes, Insert(w)
  PROVE  Inv'
<1> USE DEF Insert
<1>1. TypeOK'
  <2>1. write' \in [Writes -> {"none", "flight", "settled", "lost"}]
    BY DEF Inv, TypeOK
  <2>2. told' \in [Clients -> SUBSET Entries]
    <3>1. CASE w \in Entries /\ ~AtOnce(w[2])
      <4>1. w[1] \in Runs /\ w[2] \in 1..LastEntry
        BY <3>1 DEF Entries
      <4>2. told' = Telling(w[1], w[2])
        BY <3>1
      <4>3. QED  BY <4>1, <4>2, TellingTells DEF Inv
    <3>2. CASE ~(w \in Entries /\ ~AtOnce(w[2]))
      BY <3>2 DEF Inv, TypeOK
    <3>3. QED  BY <3>1, <3>2
  <2>3. QED  BY <2>1, <2>2 DEF Inv, TypeOK
<1>2. StagesClose'
  BY DEF Inv, StagesClose, TypeOK
<1>3. QuietBehind'
  BY DEF Inv, QuietBehind, TypeOK, RunsOn, Shutdown
<1>4. NothingCutYet'
  BY DEF Inv, NothingCutYet, TypeOK, RunsOn
<1>5. EntriesFollowRun'
  <2>1. \A v \in Writes : write'[v] = IF v = w THEN "settled" ELSE write[v]
    BY DEF Inv, TypeOK
  <2>2. \A h \in Runs : <<h, 1>> \in Writes /\ <<h, LastEntry>> \in Writes
    BY FirstAndLast
  <2>3. ASSUME NEW h \in Runs, EntriesFollow(h)  PROVE EntriesFollow(h)'
    BY <2>1, <2>2, <2>3 DEF EntriesFollow
  <2>4. QED  BY <2>3 DEF Inv, EntriesFollowRun
<1>6. CleanExitCutsNothing'
  BY DEF Inv, CleanExitCutsNothing, NothingCutYet, TypeOK
<1>7. QED  BY <1>1, <1>2, <1>3, <1>4, <1>5, <1>6 DEF Inv

(* A run that goes on to another of its states, without a failure to       *)
(* return with both entries settled. *)
LEMMA RunMoves ==
  ASSUME Inv, NEW i \in Runs, NEW next \in {"catching", "returned", "threw"},
         run[i] \in {"running", "catching"}, run' = [run EXCEPT ![i] = next],
         failures' \in 0..MaxFailures, failures' = 0 => failures = 0,
         next \in {"catching", "threw"} => failures' # 0,
         next = "returned" => /\ write[<<i, 1>>] = "settled"
                              /\ write[<<i, LastEntry>>] = "settled",
         next = "catching" => run[i] = "running",
         UNCHANGED <<stage, exit, open, request, client, told, on, said, write>>
  PROVE  Inv'
<1>1. TypeOK'
  BY DEF Inv, TypeOK
<1>2. StagesClose'
  BY DEF Inv, StagesClose, TypeOK
<1>3. QuietBehind'
  BY DEF Inv, QuietBehind, TypeOK, RunsOn, Shutdown
<1>4. NothingCutYet'
  BY DEF Inv, NothingCutYet, TypeOK, RunsOn
<1>5. EntriesFollowRun'
  <2>1. ASSUME NEW h \in Runs, EntriesFollow(h)  PROVE EntriesFollow(h)'
    <3>1. CASE h # i
      <4>1. run'[h] = run[h]
        BY <3>1 DEF Inv, TypeOK
      <4>2. QED  BY <2>1, <4>1 DEF EntriesFollow
    <3>2. CASE h = i
      <4>1. run'[i] = next
        BY DEF Inv, TypeOK
      <4>2. QED  BY <3>2, <4>1 DEF EntriesFollow
    <3>3. QED  BY <3>1, <3>2
  <2>2. QED  BY <2>1 DEF Inv, EntriesFollowRun
<1>6. CleanExitCutsNothing'
  BY DEF Inv, CleanExitCutsNothing, NothingCutYet, TypeOK
<1>7. QED  BY <1>1, <1>2, <1>3, <1>4, <1>5, <1>6 DEF Inv

(* A run ends when its last entry is settled, or when a call fails that    *)
(* nothing catches. *)
LEMMA FinishRunStep ==
  ASSUME Inv, NEW i \in Runs, FinishRun(i)
  PROVE  Inv'
<1> USE DEF FinishRun, Awaited
<1>1. /\ failures \in 0..MaxFailures /\ failures' = failures
      /\ EntriesFollow(i)
  BY DEF Inv, TypeOK, EntriesFollowRun
<1>2. CASE run[i] = "running"
  <2>1. write[<<i, 1>>] = "settled" /\ write[<<i, LastEntry>>] = "settled"
    BY <1>1, <1>2 DEF EntriesFollow
  <2>2. QED  BY <1>1, <1>2, <2>1, RunMoves
<1>3. CASE run[i] = "catching"
  <2>1. failures # 0
    BY <1>1, <1>3 DEF EntriesFollow
  <2>2. QED  BY <1>1, <1>3, <2>1, RunMoves
<1>4. QED  BY <1>2, <1>3

LEMMA RunFailsStep ==
  ASSUME Inv, NEW i \in Runs, BeginFails(i) \/ CallFails(i) \/ CatchFails(i)
  PROVE  Inv'
<1>1. failures' \in 0..MaxFailures /\ failures' # 0
  BY DEF BeginFails, CallFails, CatchFails, Fail, Inv, TypeOK
<1>2. QED  BY <1>1, RunMoves DEF BeginFails, CallFails, CatchFails

-----------------------------------------------------------------------------
(* Start and end of a process. *)

(* Moving on to another stage than the end cuts nothing off. *)
LEMMA ProceedKeeps ==
  ASSUME Inv, NEW p \in Procs, NEW next \in Stage \ {"exited"}, stage[p] # "exited",
         Proceed(p, next), open' \subseteq Shutdown,
         failures' \in 0..MaxFailures, failures' = 0 => failures = 0
  PROVE  TypeOK' /\ NothingCutYet' /\ EntriesFollowRun' /\ CleanExitCutsNothing'
<1> USE DEF Proceed
<1>1. TypeOK'
  <2>1. stage' \in [Procs -> Stage]
    BY DEF Inv, TypeOK
  <2>2. \A q \in Procs : stage'[q] = "exited" <=> stage[q] = "exited"
    BY DEF Inv, TypeOK
  <2>3. QED  BY <2>1, <2>2 DEF Inv, TypeOK
<1>2. NothingCutYet'
  BY DEF Inv, NothingCutYet, TypeOK
<1>3. EntriesFollowRun'
  BY DEF Inv, EntriesFollowRun, EntriesFollow
<1>4. CleanExitCutsNothing'
  BY DEF Inv, CleanExitCutsNothing
<1>5. QED  BY <1>1, <1>2, <1>3, <1>4

(* A process that starts is not shutting down. *)
LEMMA StartStep ==
  ASSUME Inv, NEW p \in Procs, Start(p)
  PROVE  Inv'
<1> USE DEF Start
<1> DEFINE next == IF p = Api THEN "listening" ELSE "serving"
<1>1. Proceed(p, next) /\ next \in {"listening", "serving"}
  OBVIOUS
<1>2. TypeOK' /\ NothingCutYet' /\ EntriesFollowRun' /\ CleanExitCutsNothing'
  BY <1>1, ProceedKeeps DEF Inv, TypeOK, Stage
<1>3. StagesClose'
  BY DEF Inv, StagesClose, TypeOK, Procs, Proceed
<1>4. QuietBehind'
  BY DEF Inv, QuietBehind, TypeOK, Procs, Proceed, Shutdown, RunsOn
<1>5. QED  BY <1>2, <1>3, <1>4 DEF Inv

LEMMA ListenStep ==
  ASSUME Inv, Listen
  PROVE  Inv'
<1> USE DEF Listen
<1>1. TypeOK' /\ NothingCutYet' /\ EntriesFollowRun' /\ CleanExitCutsNothing'
  BY ProceedKeeps DEF Inv, TypeOK, Stage, Procs
<1>2. StagesClose'
  BY DEF Inv, StagesClose, TypeOK, Procs, Proceed
<1>3. QuietBehind'
  BY DEF Inv, QuietBehind, TypeOK, Procs, Proceed, Shutdown, RunsOn
<1>4. QED  BY <1>1, <1>2, <1>3 DEF Inv

(* The first stage has waited for nothing yet. *)
LEMMA SignalStep ==
  ASSUME Inv, NEW p \in Procs, Signal(p)
  PROVE  Inv'
<1> USE DEF Signal
<1>1. First(p) \in {"http", "workers"}
  BY DEF First
<1>2. TypeOK' /\ NothingCutYet' /\ EntriesFollowRun' /\ CleanExitCutsNothing'
  BY <1>1, ProceedKeeps DEF Inv, TypeOK, Stage, Shutdown
<1>3. StagesClose'
  BY DEF Inv, StagesClose, TypeOK, Procs, Proceed, First
<1>4. QuietBehind'
  BY DEF Inv, QuietBehind, TypeOK, Procs, Proceed, First, Shutdown, RunsOn
<1>5. QED  BY <1>2, <1>3, <1>4 DEF Inv

(* An exit cuts off what runs in its process, and only that; it is clean   *)
(* only if nothing does. *)
LEMMA ExitKeeps ==
  ASSUME Inv, NEW p \in Procs, stage[p] # "exited", NEW how \in {"clean", "forced"},
         Exit(p, how),
         failures' \in 0..MaxFailures, failures' = 0 => failures = 0,
         how = "clean" /\ failures' = 0 =>
           /\ \A i \in Runs : ~RunsOn(p, i)
           /\ p = Api => /\ \A r \in Requests : request[r] # "open"
                         /\ \A c \in Clients : client[c] # "connected"
  PROVE  Inv'
<1> USE DEF Exit
<1>1. TypeOK'
  <2>1. stage' \in [Procs -> Stage] /\ exit' \in [Procs -> {"none", "clean", "forced"}]
    BY DEF Inv, TypeOK, Stage
  <2>2. \A q \in Procs : exit'[q] = "none" <=> stage'[q] # "exited"
    BY DEF Inv, TypeOK
  <2>3. request' \in [Requests -> {"none", "open", "answered", "cut"}]
    BY DEF Inv, TypeOK
  <2>4. client' \in [Clients -> {"away", "connected", "cut"}]
    BY DEF Inv, TypeOK
  <2>5. run' \in [Runs -> {"none", "running", "catching", "returned", "threw", "cut"}]
    BY DEF Inv, TypeOK
  <2>6. write' \in [Writes -> {"none", "flight", "settled", "lost"}]
    BY DEF Inv, TypeOK
  <2>7. told' \in [Clients -> SUBSET Entries]
    BY DEF Inv, TypeOK
  <2>8. QED  BY <2>1, <2>2, <2>3, <2>4, <2>5, <2>6, <2>7 DEF Inv, TypeOK
<1>2. StagesClose'
  BY DEF Inv, StagesClose, TypeOK, Procs
<1>3. QuietBehind'
  <2>1. stage'[Api] # "exited" => p # Api /\ stage'[Api] = stage[Api]
    BY DEF Inv, TypeOK, Procs
  <2>2. \A i \in Runs : RunsOn(Api, i)' => RunsOn(Api, i)
    BY DEF Inv, TypeOK, RunsOn
  <2>3. QED  BY <2>1, <2>2 DEF Inv, QuietBehind, Shutdown
<1>4. NothingCutYet'
  <2>1. stage'[Api] # "exited" => p # Api /\ stage'[Api] = stage[Api]
    BY DEF Inv, TypeOK, Procs
  <2>2. ASSUME NEW q \in Procs, stage'[q] # "exited", NEW i \in Runs, on'[i] = q
        PROVE  run'[i] \notin {"none", "cut"}
    <3>1. q # p /\ stage[q] # "exited"
      BY <2>2 DEF Inv, TypeOK
    <3>2. run'[i] = run[i]
      BY <2>2, <3>1 DEF RunsOn
    <3>3. QED  BY <2>2, <3>1, <3>2 DEF Inv, NothingCutYet
  <2>3. QED  BY <2>1, <2>2 DEF Inv, NothingCutYet
<1>5. EntriesFollowRun'
  <2>1. ASSUME NEW i \in Runs, EntriesFollow(i)  PROVE EntriesFollow(i)'
    <3>1. CASE RunsOn(p, i)
      BY <3>1 DEF EntriesFollow
    <3>2. CASE ~RunsOn(p, i)
      <4>1. run'[i] = run[i] /\ said'[i] = said[i]
        BY <3>2
      <4>2. ASSUME NEW k \in {1, LastEntry}, write[<<i, k>>] = "settled" \/ on[i] # p
            PROVE  write'[<<i, k>>] = write[<<i, k>>]
        <5>1. <<i, k>> \in Writes /\ <<i, k>> \notin Requests
          <6>1. k \in 1..LastEntry
            BY <4>2
          <6>2. <<i, k>> \notin Requests
            BY <6>1, EntriesAreNoRequests
          <6>3. <<i, k>> \in Runs \X (1..LastEntry)
            BY <6>1
          <6>4. QED  BY <6>2, <6>3 DEF Writes, Entries
        <5> DEFINE e == <<i, k>>
        <5>2. e[1] = i
          OBVIOUS
        <5>3. e \notin InFlight(p)
          BY <4>2, <5>1, <5>2 DEF InFlight
        <5>4. PICK arrived \in SUBSET InFlight(p) :
                write' = [w \in Writes |-> IF w \in arrived THEN "settled"
                                           ELSE IF w \in InFlight(p) THEN "lost" ELSE write[w]]
          OBVIOUS
        <5> HIDE DEF e
        <5>5. e \notin arrived
          BY <5>3, <5>4
        <5>6. write'[e] = write[e]
          BY <5>1, <5>3, <5>4, <5>5 DEF e
        <5>7. QED  BY <5>6 DEF e
      <4>3. run[i] = "running" => on[i] # p
        BY <3>2 DEF RunsOn
      <4>4. QED  BY <2>1, <4>1, <4>2, <4>3 DEF EntriesFollow
    <3>3. QED  BY <3>1, <3>2
  <2>2. QED  BY <2>1 DEF Inv, EntriesFollowRun
<1>6. CleanExitCutsNothing'
  <2>1. ASSUME NEW q \in Procs, failures' = 0, exit'[q] = "clean", q # p
        PROVE  /\ \A i \in Runs : on'[i] = q => run'[i] = "returned"
               /\ q = Api => /\ \A r \in Requests : request'[r] # "cut"
                             /\ \A c \in Clients : client'[c] # "cut"
    <3>1. exit[q] = "clean"
      BY <2>1 DEF Inv, TypeOK
    <3>2. \A i \in Runs : on[i] = q => run'[i] = run[i]
      BY <2>1 DEF RunsOn
    <3>3. QED  BY <2>1, <3>1, <3>2 DEF Inv, CleanExitCutsNothing
  <2>2. ASSUME failures' = 0, exit'[p] = "clean"
        PROVE  /\ \A i \in Runs : on'[i] = p => run'[i] = "returned"
               /\ p = Api => /\ \A r \in Requests : request'[r] # "cut"
                             /\ \A c \in Clients : client'[c] # "cut"
    <3>1. how = "clean"
      BY <2>2 DEF Inv, TypeOK
    <3>2. \A i \in Runs : on[i] = p => run[i] \notin {"none", "cut"} /\ ~RunsOn(p, i)
      BY <2>2, <3>1 DEF Inv, NothingCutYet
    <3>3. \A i \in Runs : on[i] = p => run'[i] = "returned"
      <4>1. ASSUME NEW i \in Runs, on[i] = p  PROVE run[i] = "returned"
        <5>1. run[i] \notin {"none", "cut", "running", "catching"}
          BY <3>2, <4>1 DEF RunsOn
        <5>2. run[i] \notin {"catching", "threw"}
          BY <2>2 DEF Inv, EntriesFollowRun, EntriesFollow
        <5>3. QED  BY <5>1, <5>2 DEF Inv, TypeOK
      <4>2. QED  BY <3>2, <4>1
    <3>4. p = Api => /\ \A r \in Requests : request[r] # "open" /\ request[r] # "cut"
                    /\ \A c \in Clients : client[c] # "connected" /\ client[c] # "cut"
      BY <2>2, <3>1 DEF Inv, NothingCutYet
    <3>5. QED  BY <3>3, <3>4
  <2>3. QED  BY <2>1, <2>2 DEF CleanExitCutsNothing
<1>7. QED  BY <1>1, <1>2, <1>3, <1>4, <1>5, <1>6 DEF Inv

LEMMA SignalEarlyStep ==
  ASSUME Inv, NEW p \in Procs, SignalEarly(p)
  PROVE  Inv'
BY ExitKeeps DEF SignalEarly, Inv, TypeOK

LEMMA TimerFiresStep ==
  ASSUME Inv, TimerFires
  PROVE  Inv'
BY ExitKeeps DEF TimerFires, Inv, TypeOK, Procs, Shutdown

LEMMA CrashStep ==
  ASSUME Inv, NEW p \in Procs, Crash(p)
  PROVE  Inv'
BY ExitKeeps DEF Crash, Inv, TypeOK

(* Leaving a stage that has been waited for, or after a failure, goes on   *)
(* in the order of the stages, and ends cleanly behind the last. *)
LEMMA LeaveKeeps ==
  ASSUME Inv, NEW p \in Procs, stage[p] \in Shutdown, Leave(p),
         stage[p] = "workers" \/ Drained(p), failures' = 0 => Drained(p),
         failures' \in 0..MaxFailures, failures' = 0 => failures = 0
  PROVE  Inv'
<1> DEFINE next == After(p)[stage[p]]
<1>1. p \in {Api, Worker} /\ (p = Worker => stage[p] = "workers")
  BY DEF Inv, StagesClose, Procs, Shutdown
<1>3. CASE next = "exited"
  <2>1. Exit(p, "clean")
    BY <1>3 DEF Leave
  <2>2. p = Worker \/ stage[p] = "redis"
    BY <1>1, <1>3 DEF After, Shutdown
  <2>3. failures' = 0 => \A i \in Runs : ~RunsOn(p, i)
    BY <1>1, <2>2 DEF Drained, Inv, QuietBehind
  <2>4. p = Api => /\ \A r \in Requests : request[r] # "open"
                  /\ \A c \in Clients : client[c] # "connected"
    BY <2>2 DEF Inv, QuietBehind, Shutdown
  <2>5. stage[p] # "exited"
    BY DEF Shutdown
  <2>6. QED  BY <2>1, <2>3, <2>4, <2>5, ExitKeeps
<1>4. CASE next # "exited"
  <2>1. Proceed(p, next)
    BY <1>4 DEF Leave
  <2>2. p = Api
    BY <1>1, <1>4 DEF After
  <2>3. \/ stage[Api] = "http" /\ next = "sockets"
        \/ stage[Api] = "sockets" /\ next = "workers"
        \/ stage[Api] = "workers" /\ next = "prisma"
        \/ stage[Api] = "prisma" /\ next = "queues"
        \/ stage[Api] = "queues" /\ next = "redis"
    BY <1>4, <2>2 DEF After, Shutdown
  <2>4. TypeOK' /\ NothingCutYet' /\ EntriesFollowRun' /\ CleanExitCutsNothing'
    BY <1>4, <2>1, <2>3, ProceedKeeps DEF Leave, Inv, TypeOK, Stage, Shutdown
  <2>5. stage'[Api] = next /\ stage'[Worker] = stage[Worker]
    BY <2>1, <2>2 DEF Proceed, Inv, TypeOK, Procs
  <2>6. StagesClose'
    BY <1>4, <2>2, <2>3, <2>5 DEF Leave, Inv, StagesClose
  <2>7. QuietBehind'
    <3>1. UNCHANGED <<request, client, run, on>>
      BY <2>1 DEF Proceed
    <3>2. /\ \A r \in Requests : request[r] # "open"
          /\ \A c \in Clients : client[c] # "connected"
      BY <2>2, <2>3 DEF Drained, Inv, QuietBehind, Shutdown
    <3>3. failures' = 0 /\ next \in {"prisma", "queues", "redis"} =>
            \A i \in Runs : ~RunsOn(Api, i)
      BY <2>2, <2>3 DEF Drained, Inv, QuietBehind
    <3>4. QED  BY <2>5, <3>1, <3>2, <3>3 DEF QuietBehind, RunsOn
  <2>8. QED  BY <2>4, <2>6, <2>7 DEF Inv
<1>5. QED  BY <1>3, <1>4

LEMMA FinishStageStep ==
  ASSUME Inv, NEW p \in Procs, FinishStage(p)
  PROVE  Inv'
BY LeaveKeeps DEF FinishStage, Inv, TypeOK

(* A rejected close ends the process, or is ignored, by then a failure. *)
LEMMA FailStageStep ==
  ASSUME Inv, NEW p \in Procs, FailStage(p)
  PROVE  Inv'
<1>1. failures' \in 0..MaxFailures /\ failures' # 0
  BY DEF FailStage, Fail, Inv, TypeOK
<1>2. stage[p] \in Shutdown /\ stage[p] # "exited" /\ stage[p] # "http"
  BY DEF FailStage, Shutdown
<1>3. CASE p = Api /\ stage[p] = "workers"
  BY <1>1, <1>2, <1>3, LeaveKeeps DEF FailStage
<1>4. CASE ~(p = Api /\ stage[p] = "workers")
  BY <1>1, <1>2, <1>4, ExitKeeps DEF FailStage, Inv, TypeOK
<1>5. QED  BY <1>3, <1>4

-----------------------------------------------------------------------------
(* The theorems. *)

LEMMA StutterStep ==
  ASSUME Inv, UNCHANGED vars
  PROVE  Inv'
BY DEF Inv, vars, TypeOK, StagesClose, QuietBehind, NothingCutYet, EntriesFollowRun,
       EntriesFollow, CleanExitCutsNothing, RunsOn

LEMMA NextStep == Inv /\ [Next]_vars => Inv'
<1> SUFFICES ASSUME Inv, [Next]_vars  PROVE Inv'
  OBVIOUS
<1>1. ASSUME NEW r \in Requests, OpenRequest(r) \/ AnswerRequest(r)  PROVE Inv'
  BY <1>1, OpenRequestStep, AnswerRequestStep
<1>2. ASSUME NEW c \in Clients, Connect(c) \/ Disconnect(c)  PROVE Inv'
  BY <1>2, ConnectStep, DisconnectStep
<1>3. ASSUME NEW p \in Procs, NEW i \in Runs, TakeJob(p, i)  PROVE Inv'
  BY <1>3, TakeJobStep
<1>4. ASSUME NEW i \in Runs, Working(i) \/ BeginFails(i) \/ CallFails(i) \/ CatchFails(i)
      PROVE  Inv'
  BY <1>4, SayStep, FinishRunStep, RunFailsStep DEF Working
<1>5. ASSUME NEW w \in Writes, Insert(w)  PROVE Inv'
  BY <1>5, InsertStep
<1>6. ASSUME NEW p \in Procs, Start(p) \/ Signal(p) \/ SignalEarly(p)  PROVE Inv'
  BY <1>6, StartStep, SignalStep, SignalEarlyStep
<1>7. ASSUME NEW p \in Procs, FinishStage(p) \/ FailStage(p) \/ Crash(p)  PROVE Inv'
  BY <1>7, FinishStageStep, FailStageStep, CrashStep
<1>8. CASE Listen
  BY <1>8, ListenStep
<1>9. CASE TimerFires
  BY <1>9, TimerFiresStep
<1>10. CASE Over \/ UNCHANGED vars
  BY <1>10, StutterStep DEF Over
<1>11. QED
  BY <1>1, <1>2, <1>3, <1>4, <1>5, <1>6, <1>7, <1>8, <1>9, <1>10 DEF Next

(* Every reachable state satisfies the inductive invariant. *)
THEOREM AlwaysInv == Spec => []Inv
BY InitInv, NextStep, PTL DEF Spec

(* The variables keep their types. *)
THEOREM TypeCorrect == Spec => []TypeOK
<1>1. Inv => TypeOK
  BY DEF Inv
<1>2. QED  BY <1>1, AlwaysInv, PTL

(* Without failures nothing is closed under the requests, jobs and clients *)
(* that use it. *)
THEOREM ResourcesAlwaysOutliveUsers == Spec => []ResourcesOutliveUsers
<1>1. Inv => ResourcesOutliveUsers
  BY DEF Inv, StagesClose, QuietBehind, ResourcesOutliveUsers, Shutdown
<1>2. QED  BY <1>1, AlwaysInv, PTL

(* A process that exits with code 0 has cut nothing off. *)
THEOREM CleanExitAlwaysCutsNothing == Spec => []CleanExitCutsNothing
<1>1. Inv => CleanExitCutsNothing
  BY DEF Inv
<1>2. QED  BY <1>1, AlwaysInv, PTL

(* And has waited for the first and the last log entry of its jobs. *)
THEOREM CleanExitAlwaysKeepsOutcome == Spec => []CleanExitKeepsOutcome
<1>1. Inv => CleanExitKeepsOutcome
  BY DEF Inv, CleanExitCutsNothing, EntriesFollowRun, EntriesFollow, CleanExitKeepsOutcome
<1>2. QED  BY <1>1, AlwaysInv, PTL

-----------------------------------------------------------------------------
(* What sockets are told. *)

(* Failures are never forgotten. *)
LEMMA FailuresGrow ==
  ASSUME TypeOK, Fail \/ UNCHANGED failures
  PROVE  /\ failures \in Nat /\ failures' \in Nat /\ failures' >= failures
         /\ Fail => failures' = failures + 1
BY DEF TypeOK, Fail

(* A run is told from the others of its job by its number. *)
LEMMA RunIsPair ==
  \A i \in Runs : /\ i[1] \in Jobs /\ i[2] \in 1..MaxRuns
                  /\ i = <<i[1], i[2]>>
BY DEF Runs

LEMMA EntryIsWrite ==
  \A i \in Runs, k \in 1..LastEntry : <<i, k>> \in Entries /\ <<i, k>> \in Writes
BY DEF Writes, Entries

(* A step that leaves the runs and their entries alone and tells nobody    *)
(* anything. *)
QuietSockets ==
  \A c \in Clients :
    \/ told'[c] = {}
    \/ /\ told'[c] = told[c]
       /\ client'[c] = "connected" => client[c] = "connected"
       /\ client'[c] = "away" => client[c] = "away"

QuietEntries ==
  \A i \in Runs, k \in 1..LastEntry : write'[<<i, k>>] = write[<<i, k>>]

LEMMA QuietStep ==
  ASSUME EventsInv, UNCHANGED <<run, on, said>>, QuietSockets, QuietEntries,
         failures \in Nat, failures' \in Nat, failures' >= failures
  PROVE  EventsInv'
<1>1. ASSUME NEW i \in Runs  PROVE RunFollows(i)' /\ SaidFollows(i)'
  <2>1. RunFollows(i) /\ SaidFollows(i)
    BY DEF EventsInv
  <2>2. \A k \in 1..LastEntry : write'[<<i, k>>] = write[<<i, k>>]
    BY DEF QuietEntries
  <2>3. 1 \in 1..LastEntry /\ LastEntry \in 1..LastEntry
    OBVIOUS
  <2>4. RunFollows(i)'
    BY <2>1, <2>2, <2>3 DEF RunFollows
  <2>5. SaidFollows(i)'
    BY <2>1, <2>2, <2>3 DEF SaidFollows
  <2>6. QED  BY <2>4, <2>5
<1>2. ASSUME NEW c \in Clients  PROVE ToldFollows(c)'
  <2>1. ToldFollows(c)
    BY DEF EventsInv
  <2>2. CASE told'[c] = {}
    BY <2>2 DEF ToldFollows
  <2>3. CASE /\ told'[c] = told[c]
             /\ client'[c] = "connected" => client[c] = "connected"
             /\ client'[c] = "away" => client[c] = "away"
    BY <2>1, <2>3 DEF ToldFollows, QuietEntries
  <2>4. QED  BY <2>2, <2>3 DEF QuietSockets
<1>3. RunsInOrder'
  BY DEF EventsInv, RunsInOrder
<1>4. QED  BY <1>1, <1>2, <1>3 DEF EventsInv

(* A job is handed out again in the order of its runs, and while nothing   *)
(* fails only when the process of the run before is gone. *)
LEMMA TakeJobTells ==
  ASSUME Inv, EventsInv, NEW p \in Procs, NEW i \in Runs, TakeJob(p, i)
  PROVE  EventsInv'
<1>0. TypeOK /\ EntriesFollowRun /\ NothingCutYet
  BY DEF Inv
<1>1. /\ run[i] = "none" /\ run'[i] = "running" /\ on'[i] = p
      /\ \A h \in Runs \ {i} : run'[h] = run[h] /\ on'[h] = on[h]
      /\ UNCHANGED <<client, told, said, write>>
  BY <1>0 DEF TakeJob, TypeOK
<1>2. failures \in Nat /\ failures' \in Nat /\ failures' >= failures
  BY <1>0, FailuresGrow DEF TakeJob
<1>3. ASSUME NEW h \in Runs  PROVE RunFollows(h)' /\ SaidFollows(h)'
  <2>1. RunFollows(h) /\ SaidFollows(h)
    BY DEF EventsInv
  <2>2. SaidFollows(h)'
    BY <1>1, <2>1 DEF SaidFollows
  <2>3. CASE h = i
    BY <1>1, <2>2, <2>3 DEF RunFollows, Procs
  <2>4. CASE h # i
    BY <1>1, <1>2, <2>1, <2>2, <2>4 DEF RunFollows
  <2>5. QED  BY <2>2, <2>3, <2>4
<1>4. ASSUME NEW c \in Clients  PROVE ToldFollows(c)'
  <2>1. ToldFollows(c) /\ RunFollows(i)
    BY DEF EventsInv
  <2>2. \A k \in 1..LastEntry : <<i, k>> \notin told[c]
    BY <1>1, <2>1 DEF ToldFollows, RunFollows
  <2>3. \A h \in Runs, k \in 1..LastEntry : <<h, k>> \in told[c] => on'[h] = on[h]
    BY <1>1, <2>2
  <2>4. QED  BY <1>1, <2>1, <2>3 DEF ToldFollows
<1>5. RunsInOrder'
  <2>1. RunsInOrder
    BY DEF EventsInv
  <2> SUFFICES ASSUME NEW a \in Runs, NEW b \in Runs,
                      a[1] = b[1], a[2] < b[2], run'[b] # "none"
               PROVE  /\ run'[a] # "none"
                      /\ failures' = 0 => /\ run'[a] = "cut"
                                          /\ ~(on'[a] = Api /\ on'[b] = Api)
    BY DEF RunsInOrder
  <2>2. CASE b = i
    <3> DEFINE before == <<i[1], i[2] - 1>>
    <3>1. a # i /\ run'[a] = run[a] /\ on'[a] = on[a]
      BY <1>1, <2>2, RunIsPair
    <3>2. i[2] > 1
      BY <2>2, RunIsPair
    <3>3. before \in Runs /\ (a = before \/ a[2] < before[2])
      BY <2>2, <3>2, RunIsPair DEF Runs
    <3>4. /\ run[before] \in {"threw", "cut", "running", "catching", "returned"}
          /\ failures' = 0 => failures = 0 /\ run[before] \in {"threw", "cut"}
      BY <1>0, <1>2, <3>2, FailuresGrow DEF TakeJob
    <3>5. failures' = 0 => run[before] = "cut"
      BY <1>0, <3>3, <3>4 DEF EntriesFollowRun, EntriesFollow
    <3>6. before[1] = a[1] /\ before[2] = i[2] - 1
      BY <2>2
    <3> HIDE DEF before
    <3>7. run[a] # "none" /\ (failures' = 0 => run[a] = "cut")
      BY <2>1, <3>3, <3>4, <3>5, <3>6 DEF RunsInOrder
    <3>8. on[a] = Api /\ p = Api => run[a] # "cut"
      BY <1>0 DEF TakeJob, Taking, NothingCutYet, Procs
    <3>9. QED  BY <1>1, <2>2, <3>1, <3>7, <3>8
  <2>3. CASE b # i
    <3>1. run[b] # "none"
      BY <1>1, <2>3
    <3>2. run[a] # "none" /\ (failures = 0 => run[a] = "cut" /\ ~(on[a] = Api /\ on[b] = Api))
      BY <2>1, <3>1 DEF RunsInOrder
    <3>3. QED  BY <1>1, <1>2, <2>3, <3>2
  <2>4. QED  BY <2>2, <2>3
<1>6. QED  BY <1>3, <1>4, <1>5 DEF EventsInv

(* An entry that is called for is in flight, and if nobody awaits it told. *)
LEMMA SayTells ==
  ASSUME Inv, EventsInv, NEW i \in Runs, NEW k \in 1..LastEntry, Say(i, k)
  PROVE  EventsInv'
<1>0. TypeOK
  BY DEF Inv
<1>1. /\ k > said[i] /\ Awaited(i)
      /\ run[i] # "none"
      /\ run[i] = "catching" => said[i] > 0
      /\ run[i] \in {"running", "catching"}
      /\ said' = [said EXCEPT ![i] = k]
      /\ write' = [write EXCEPT ![<<i, k>>] = "flight"]
      /\ UNCHANGED <<client, run, on, failures>>
  BY <1>0 DEF Say, TypeOK
<1>2. /\ said[i] \in 0..LastEntry /\ said'[i] = k
      /\ \A h \in Runs \ {i} : said'[h] = said[h]
      /\ \A h \in Runs : said[h] \in 0..LastEntry /\ said'[h] >= said[h]
  BY <1>0, <1>1 DEF TypeOK
<1>3. \A h \in Runs, m \in 1..LastEntry :
        write'[<<h, m>>] = IF h = i /\ m = k THEN "flight" ELSE write[<<h, m>>]
  BY <1>0, <1>1, EntryIsWrite DEF TypeOK
<1>4. write[<<i, k>>] = "none"
  BY <1>1 DEF EventsInv, SaidFollows
<1>5. 1 \in 1..LastEntry /\ LastEntry \in 1..LastEntry
  OBVIOUS
<1>6. ASSUME NEW h \in Runs  PROVE RunFollows(h)' /\ SaidFollows(h)'
  <2>1. RunFollows(h) /\ SaidFollows(h)
    BY DEF EventsInv
  <2>2. CASE h # i
    <3>1. \A m \in 1..LastEntry : write'[<<h, m>>] = write[<<h, m>>]
      BY <1>3, <2>2
    <3>2. said'[h] = said[h]
      BY <1>2, <2>2
    <3>3. RunFollows(h)'
      BY <1>1, <1>5, <2>1, <3>1, <3>2 DEF RunFollows
    <3>4. SaidFollows(h)'
      BY <1>5, <2>1, <3>1, <3>2 DEF SaidFollows
    <3>5. QED  BY <3>3, <3>4
  <2>3. CASE h = i
    <3>1. run[i] = "catching" => k # 1
      BY <1>1, <1>2
    <3>2. RunFollows(i)'
      BY <1>1, <1>2, <1>3, <1>5, <2>1, <2>3, <3>1 DEF RunFollows
    <3>3. k > 1 => write[<<i, 1>>] # "flight"
      BY <1>1, <1>2, <1>5, <2>1, <2>3 DEF Awaited, SaidFollows
    <3>4. k > 1 => write'[<<i, 1>>] # "flight"
      BY <1>3, <1>5, <3>3
    <3>5. \A m \in 1..LastEntry : m > k => write'[<<i, m>>] = "none"
      BY <1>1, <1>2, <1>3, <2>1, <2>3 DEF SaidFollows
    <3>6. SaidFollows(i)'
      BY <1>2, <3>4, <3>5 DEF SaidFollows
    <3>7. QED  BY <2>3, <3>2, <3>6
  <2>4. QED  BY <2>2, <2>3
<1>7. ASSUME NEW c \in Clients  PROVE ToldFollows(c)'
  <2>1. ToldFollows(c) /\ SaidFollows(i)
    BY DEF EventsInv
  <2>2. /\ told[c] \subseteq told'[c]
        /\ \A h \in Runs, m \in 1..LastEntry :
             <<h, m>> \in told'[c] /\ <<h, m>> \notin told[c] =>
               h = i /\ m = k /\ AtOnce(k) /\ on[i] = Api /\ client[c] = "connected"
    <3>1. CASE AtOnce(k)
      BY <1>0, <3>1, TellingTells DEF Say
    <3>2. CASE ~AtOnce(k)
      BY <3>2 DEF Say
    <3>3. QED  BY <3>1, <3>2
  <2>3. ASSUME client'[c] = "away"  PROVE told'[c] = {}
    <3>1. told[c] = {} /\ client[c] # "connected"
      BY <1>1, <2>1, <2>3 DEF ToldFollows
    <3>2. told'[c] = told[c]
      BY <3>1 DEF Say, Telling
    <3>3. QED  BY <3>1, <3>2
  <2>4. ASSUME NEW h \in Runs, NEW m \in 1..LastEntry, <<h, m>> \in told'[c]
        PROVE  /\ on'[h] = Api /\ said'[h] >= m
               /\ m \in {1, LastEntry} => write'[<<h, m>>] = "settled"
               /\ client'[c] = "connected" /\ write'[<<h, LastEntry>>] = "settled" =>
                    <<h, LastEntry>> \in told'[c]
    <3>1. CASE <<h, m>> \in told[c]
      <4>1. /\ on[h] = Api /\ said[h] >= m
            /\ m \in {1, LastEntry} => write[<<h, m>>] = "settled"
            /\ client[c] = "connected" /\ write[<<h, LastEntry>>] = "settled" =>
                 <<h, LastEntry>> \in told[c]
        BY <2>1, <3>1 DEF ToldFollows
      <4>2. m \in {1, LastEntry} => write'[<<h, m>>] = "settled"
        BY <1>3, <1>4, <4>1
      <4>3. write'[<<h, LastEntry>>] = "settled" => write[<<h, LastEntry>>] = "settled"
        BY <1>3, <1>5
      <4>4. said'[h] >= m
        BY <1>2, <4>1
      <4>5. QED  BY <1>1, <2>2, <4>1, <4>2, <4>3, <4>4
    <3>2. CASE <<h, m>> \notin told[c]
      <4>1. h = i /\ m = k /\ k # 1 /\ k # LastEntry /\ on[i] = Api
        BY <2>2, <2>4, <3>2 DEF AtOnce
      <4>2. write'[<<i, LastEntry>>] # "settled"
        BY <1>2, <1>3, <1>5, <2>1, <4>1, <1>1 DEF SaidFollows
      <4>3. QED  BY <1>1, <1>2, <4>1, <4>2
    <3>3. QED  BY <3>1, <3>2
  <2>5. QED  BY <2>3, <2>4 DEF ToldFollows
<1>8. RunsInOrder'
  BY <1>1 DEF EventsInv, RunsInOrder
<1>9. QED  BY <1>6, <1>7, <1>8 DEF EventsInv

(* An awaited entry is told when its insert is over. *)
LEMMA InsertTells ==
  ASSUME Inv, EventsInv, NEW w \in Writes, Insert(w)
  PROVE  EventsInv'
<1>0. TypeOK
  BY DEF Inv
<1>1. /\ write[w] = "flight" /\ write' = [write EXCEPT ![w] = "settled"]
      /\ UNCHANGED <<client, run, on, said, failures>>
  BY DEF Insert
<1>2. failures \in Nat
  BY <1>0 DEF TypeOK
<1>3. CASE w \notin Entries
  <2>1. told' = told
    BY <1>3 DEF Insert
  <2>2. QuietEntries
    BY <1>0, <1>1, <1>3, EntryIsWrite DEF TypeOK, QuietEntries
  <2>3. QuietSockets
    BY <1>1, <2>1 DEF QuietSockets
  <2>4. QED  BY <1>1, <1>2, <2>2, <2>3, QuietStep
<1>4. CASE w \in Entries
  <2>1. PICK i \in Runs, k \in 1..LastEntry : w = <<i, k>>
    BY <1>4 DEF Entries
  <2>2. \A h \in Runs, m \in 1..LastEntry :
          write'[<<h, m>>] = IF h = i /\ m = k THEN "settled" ELSE write[<<h, m>>]
    BY <1>0, <1>1, <2>1, EntryIsWrite DEF TypeOK
  <2>3. write[<<i, k>>] = "flight"
    BY <1>1, <2>1
  <2>4. 1 \in 1..LastEntry /\ LastEntry \in 1..LastEntry
    OBVIOUS
  <2>5. ASSUME NEW h \in Runs  PROVE RunFollows(h)' /\ SaidFollows(h)'
    <3>1. RunFollows(h) /\ SaidFollows(h)
      BY DEF EventsInv
    <3>2. RunFollows(h)'
      BY <1>1, <2>2, <2>4, <3>1 DEF RunFollows
    <3>3. SaidFollows(h)'
      BY <1>1, <2>2, <2>3, <2>4, <3>1 DEF SaidFollows
    <3>4. QED  BY <3>2, <3>3
  <2>6. ASSUME NEW c \in Clients  PROVE ToldFollows(c)'
    <3>1. ToldFollows(c) /\ SaidFollows(i)
      BY DEF EventsInv
    <3>2. /\ told[c] \subseteq told'[c]
          /\ client[c] = "connected" /\ on[i] = Api /\ ~AtOnce(k) => <<i, k>> \in told'[c]
          /\ \A h \in Runs, m \in 1..LastEntry :
               <<h, m>> \in told'[c] /\ <<h, m>> \notin told[c] =>
                 h = i /\ m = k /\ ~AtOnce(k) /\ on[i] = Api /\ client[c] = "connected"
      <4>1. w[1] = i /\ w[2] = k
        BY <2>1
      <4>2. told' = IF ~AtOnce(k) THEN Telling(i, k) ELSE told
        BY <1>4, <4>1 DEF Insert
      <4>3. CASE ~AtOnce(k)
        BY <1>0, <4>2, <4>3, TellingTells
      <4>4. CASE AtOnce(k)
        BY <4>2, <4>4
      <4>5. QED  BY <4>3, <4>4
    <3>3. said[i] \in 0..LastEntry /\ said[i] >= k
      BY <1>0, <2>3, <3>1 DEF SaidFollows, TypeOK
    <3>4. k = 1 => write[<<i, LastEntry>>] = "none"
      BY <2>3, <2>4, <3>1, <3>3 DEF SaidFollows
    <3>5. ASSUME client'[c] = "away"  PROVE told'[c] = {}
      <4>1. told[c] = {} /\ client[c] # "connected"
        BY <1>1, <3>1, <3>5 DEF ToldFollows
      <4>2. told'[c] = told[c]
        BY <4>1 DEF Insert, Telling
      <4>3. QED  BY <4>1, <4>2
    <3>6. ASSUME NEW h \in Runs, NEW m \in 1..LastEntry, <<h, m>> \in told'[c]
          PROVE  /\ on'[h] = Api /\ said'[h] >= m
                 /\ m \in {1, LastEntry} => write'[<<h, m>>] = "settled"
                 /\ client'[c] = "connected" /\ write'[<<h, LastEntry>>] = "settled" =>
                      <<h, LastEntry>> \in told'[c]
      <4>1. CASE <<h, m>> \in told[c]
        <5>1. /\ on[h] = Api /\ said[h] >= m
              /\ m \in {1, LastEntry} => write[<<h, m>>] = "settled"
              /\ client[c] = "connected" /\ write[<<h, LastEntry>>] = "settled" =>
                   <<h, LastEntry>> \in told[c]
          BY <3>1, <4>1 DEF ToldFollows
        <5>2. m \in {1, LastEntry} => write'[<<h, m>>] = "settled"
          BY <2>2, <5>1
        <5>3. CASE h = i /\ k = LastEntry
          BY <1>1, <3>2, <5>1, <5>2, <5>3 DEF AtOnce
        <5>4. CASE ~(h = i /\ k = LastEntry)
          <6>1. write'[<<h, LastEntry>>] = write[<<h, LastEntry>>]
            BY <2>2, <2>4, <5>4
          <6>2. QED  BY <1>1, <3>2, <5>1, <5>2, <6>1
        <5>5. QED  BY <5>3, <5>4
      <4>2. CASE <<h, m>> \notin told[c]
        <5>1. h = i /\ m = k /\ (k = 1 \/ k = LastEntry) /\ on[i] = Api
          BY <3>2, <3>6, <4>2 DEF AtOnce
        <5>2. write'[<<i, k>>] = "settled"
          BY <2>2
        <5>3. k = LastEntry => <<h, LastEntry>> \in told'[c]
          BY <3>6, <5>1
        <5>4. k # LastEntry => write'[<<h, LastEntry>>] = "none"
          BY <2>2, <2>4, <3>4, <5>1
        <5>5. QED  BY <1>1, <3>3, <5>1, <5>2, <5>3, <5>4
      <4>3. QED  BY <4>1, <4>2
    <3>7. QED  BY <3>5, <3>6 DEF ToldFollows
  <2>7. RunsInOrder'
    BY <1>1 DEF EventsInv, RunsInOrder
  <2>8. QED  BY <2>5, <2>6, <2>7 DEF EventsInv
<1>5. QED  BY <1>3, <1>4

(* A run that catches or ends has had the failures that takes, and tells   *)
(* nobody anything. *)
LEMMA RunMovesTells ==
  ASSUME EventsInv, NEW i \in Runs, RunFollows(i)',
         run[i] \notin {"none", "cut"}, run'[i] # "none",
         \A h \in Runs \ {i} : run'[h] = run[h],
         failures \in Nat, failures' \in Nat, failures' >= failures,
         UNCHANGED <<client, told, on, said, write>>
  PROVE  EventsInv'
<1>1. ASSUME NEW h \in Runs  PROVE RunFollows(h)' /\ SaidFollows(h)'
  <2>1. RunFollows(h) /\ SaidFollows(h)
    BY DEF EventsInv
  <2>2. SaidFollows(h)'
    BY <2>1 DEF SaidFollows
  <2>3. CASE h = i
    BY <2>2, <2>3
  <2>4. CASE h # i
    BY <2>1, <2>2, <2>4 DEF RunFollows
  <2>5. QED  BY <2>3, <2>4
<1>2. ASSUME NEW c \in Clients  PROVE ToldFollows(c)'
  BY DEF EventsInv, ToldFollows
<1>3. RunsInOrder'
  BY DEF EventsInv, RunsInOrder
<1>4. QED  BY <1>1, <1>2, <1>3 DEF EventsInv

LEMMA FinishRunTells ==
  ASSUME Inv, EventsInv, NEW i \in Runs, FinishRun(i)
  PROVE  EventsInv'
<1>0. TypeOK /\ RunFollows(i)
  BY DEF Inv, EventsInv
<1>1. /\ failures \in Nat /\ failures' = failures
      /\ said[i] = LastEntry /\ Awaited(i)
      /\ UNCHANGED <<client, told, on, said, write>>
      /\ run[i] \in {"running", "catching"}
  BY <1>0 DEF FinishRun, TypeOK
<1>2. /\ run'[i] = IF run[i] = "running" THEN "returned" ELSE "threw"
      /\ \A h \in Runs \ {i} : run'[h] = run[h]
  BY <1>0 DEF FinishRun, TypeOK
<1>3. run[i] = "catching" => write[<<i, LastEntry>>] = "settled"
  BY <1>0, <1>1 DEF Awaited, RunFollows
<1>4. RunFollows(i)'
  BY <1>0, <1>1, <1>2, <1>3 DEF RunFollows
<1>5. QED  BY <1>1, <1>2, <1>4, RunMovesTells

LEMMA RunFailsTells ==
  ASSUME Inv, EventsInv, NEW i \in Runs, BeginFails(i) \/ CallFails(i) \/ CatchFails(i)
  PROVE  EventsInv'
<1>0. TypeOK /\ RunFollows(i) /\ EntriesFollow(i)
  BY DEF Inv, EventsInv, EntriesFollowRun
<1>1. /\ failures \in Nat /\ failures' \in Nat /\ failures' = failures + 1
      /\ said[i] \in 0..LastEntry
      /\ run[i] \in {"running", "catching"}
      /\ UNCHANGED <<client, told, on, said, write>>
  BY <1>0, FailuresGrow DEF BeginFails, CallFails, CatchFails, TypeOK
<1>2. run'[i] \in {"catching", "threw"} /\ \A h \in Runs \ {i} : run'[h] = run[h]
  BY <1>0 DEF BeginFails, CallFails, CatchFails, TypeOK
<1>3. RunFollows(i)'
  <2>1. CASE BeginFails(i)
    <3>1. said[i] = 0 /\ run[i] = "running" /\ run'[i] = "threw"
      BY <1>0, <2>1 DEF BeginFails, TypeOK
    <3>2. QED  BY <1>0, <1>1, <3>1 DEF RunFollows
  <2>2. CASE CallFails(i)
    <3>1. 0 < said[i] /\ said[i] < LastEntry /\ run[i] = "running" /\ run'[i] = "catching"
      BY <1>0, <2>2 DEF CallFails, TypeOK
    <3>2. write[<<i, 1>>] = "settled"
      BY <1>0, <1>1, <2>2, <3>1 DEF CallFails, Awaited, EntriesFollow
    <3>3. QED  BY <1>0, <1>1, <3>1, <3>2 DEF RunFollows
  <2>3. CASE CatchFails(i)
    <3>1. said[i] < LastEntry /\ run[i] = "catching" /\ run'[i] = "threw"
      BY <1>0, <2>3 DEF CatchFails, TypeOK
    <3>2. QED  BY <1>0, <1>1, <3>1 DEF RunFollows
  <2>4. QED  BY <2>1, <2>2, <2>3
<1>4. QED  BY <1>1, <1>2, <1>3, RunMovesTells

(* The end of a process settles or loses what it had in flight, and leaves *)
(* every other entry as it is. *)
LEMMA ExitWrites ==
  ASSUME NEW p \in Procs, NEW how, Exit(p, how), NEW i \in Runs, NEW k \in 1..LastEntry,
         write[<<i, k>>] # "flight" \/ on[i] # p
  PROVE  write'[<<i, k>>] = write[<<i, k>>]
<1> DEFINE e == <<i, k>>
<1>1. e \in Writes /\ e \notin Requests /\ e[1] = i
  BY EntriesAreNoRequests, EntryIsWrite
<1>2. e \notin InFlight(p)
  BY <1>1 DEF InFlight
<1>3. PICK arrived \in SUBSET InFlight(p) :
        write' = [w \in Writes |-> IF w \in arrived THEN "settled"
                                   ELSE IF w \in InFlight(p) THEN "lost" ELSE write[w]]
  BY DEF Exit
<1> HIDE DEF e
<1>4. write'[e] = write[e]
  BY <1>1, <1>2, <1>3
<1>5. QED  BY <1>4 DEF e

LEMMA ExitTells ==
  ASSUME Inv, EventsInv, NEW p \in Procs, NEW how, Exit(p, how),
         failures \in Nat, failures' \in Nat, failures' >= failures
  PROVE  EventsInv'
<1>1. /\ UNCHANGED <<on, said>>
      /\ \A c \in Clients : told'[c] = IF p = Api THEN {} ELSE told[c]
      /\ \A i \in Runs : run'[i] = IF RunsOn(p, i) THEN "cut" ELSE run[i]
      /\ \A c \in Clients : client'[c] = IF p = Api /\ client[c] = "connected"
                                           THEN "cut" ELSE client[c]
  BY DEF Exit
<1>2. \A i \in Runs, k \in 1..LastEntry :
        write[<<i, k>>] # "flight" \/ on[i] # p => write'[<<i, k>>] = write[<<i, k>>]
  BY ExitWrites
<1>3. 1 \in 1..LastEntry /\ LastEntry \in 1..LastEntry
  OBVIOUS
<1>4. ASSUME NEW i \in Runs  PROVE RunFollows(i)' /\ SaidFollows(i)'
  <2>1. RunFollows(i) /\ SaidFollows(i)
    BY DEF EventsInv
  <2>2. \A k \in 1..LastEntry : write[<<i, k>>] = "none" => write'[<<i, k>>] = "none"
    BY <1>2
  <2>3. said[i] > 1 => write'[<<i, 1>>] # "flight"
    BY <1>2, <1>3, <2>1 DEF SaidFollows
  <2>4. SaidFollows(i)'
    BY <1>1, <2>1, <2>2, <2>3 DEF SaidFollows
  <2>5. run'[i] = "none" <=> on'[i] = None
    BY <1>1, <2>1 DEF RunFollows, RunsOn
  <2>6. CASE run'[i] = "catching"
    <3>1. run[i] = "catching" /\ on[i] # p
      BY <1>1, <2>6 DEF RunsOn
    <3>2. \A k \in 1..LastEntry : write'[<<i, k>>] = write[<<i, k>>]
      BY <1>2, <3>1
    <3>3. RunFollows(i)'
      BY <1>1, <1>3, <2>1, <2>5, <2>6, <3>1, <3>2 DEF RunFollows
    <3>4. QED  BY <2>4, <3>3
  <2>7. CASE run'[i] = "threw"
    <3>1. run[i] = "threw"
      BY <1>1, <2>7
    <3>2. write[<<i, LastEntry>>] = "settled" => write'[<<i, LastEntry>>] = "settled"
      BY <1>2, <1>3
    <3>3. RunFollows(i)'
      BY <1>1, <2>1, <2>5, <2>7, <3>1, <3>2 DEF RunFollows
    <3>4. QED  BY <2>4, <3>3
  <2>8. CASE run'[i] \notin {"catching", "threw"}
    BY <2>4, <2>5, <2>8 DEF RunFollows
  <2>9. QED  BY <2>6, <2>7, <2>8
<1>5. ASSUME NEW c \in Clients  PROVE ToldFollows(c)'
  <2>1. ToldFollows(c)
    BY DEF EventsInv
  <2>2. client'[c] = "away" => told'[c] = {}
    BY <1>1, <2>1 DEF ToldFollows
  <2>3. ASSUME NEW i \in Runs, NEW k \in 1..LastEntry, <<i, k>> \in told'[c]
        PROVE  /\ on'[i] = Api /\ said'[i] >= k
               /\ k \in {1, LastEntry} => write'[<<i, k>>] = "settled"
               /\ client'[c] = "connected" /\ write'[<<i, LastEntry>>] = "settled" =>
                    <<i, LastEntry>> \in told'[c]
    <3>1. /\ on[i] = Api /\ said[i] >= k
          /\ k \in {1, LastEntry} => write[<<i, k>>] = "settled"
          /\ client[c] = "connected" /\ write[<<i, LastEntry>>] = "settled" =>
               <<i, LastEntry>> \in told[c]
      BY <1>1, <2>1, <2>3 DEF ToldFollows
    <3>2. k \in {1, LastEntry} => write'[<<i, k>>] = "settled"
      BY <1>2, <3>1
    <3>3. client'[c] = "connected" => client[c] = "connected" /\ on[i] # p
      BY <1>1, <3>1
    <3>4. client'[c] = "connected" => write'[<<i, LastEntry>>] = write[<<i, LastEntry>>]
      BY <1>2, <1>3, <3>3
    <3>5. QED  BY <1>1, <3>1, <3>2, <3>3, <3>4
  <2>4. QED  BY <2>2, <2>3 DEF ToldFollows
<1>6. RunsInOrder'
  <2>1. \A i \in Runs : /\ run'[i] = "none" <=> run[i] = "none"
                        /\ run[i] = "cut" => run'[i] = "cut"
    BY <1>1 DEF RunsOn
  <2>2. QED  BY <1>1, <2>1 DEF EventsInv, RunsInOrder
<1>7. QED  BY <1>4, <1>5, <1>6 DEF EventsInv

LEMMA EventsStep == Inv /\ EventsInv /\ [Next]_vars => EventsInv'
<1> SUFFICES ASSUME Inv, EventsInv, [Next]_vars  PROVE EventsInv'
  OBVIOUS
<1>0. TypeOK
  BY DEF Inv
<1>1. ASSUME Fail \/ UNCHANGED failures
      PROVE  failures \in Nat /\ failures' \in Nat /\ failures' >= failures
  BY <1>0, <1>1, FailuresGrow
<1>2. ASSUME NEW r \in Requests, OpenRequest(r) \/ AnswerRequest(r)  PROVE EventsInv'
  <2>1. UNCHANGED <<client, told, run, on, said, failures>>
    BY <1>2 DEF OpenRequest, AnswerRequest
  <2>2. \A w \in Writes : w # r => write'[w] = write[w]
    BY <1>0, <1>2 DEF OpenRequest, AnswerRequest, TypeOK
  <2>3. QuietEntries
    BY <2>2, EntryIsWrite, EntriesAreNoRequests DEF QuietEntries
  <2>4. QuietSockets
    BY <2>1 DEF QuietSockets
  <2>5. QED  BY <1>1, <2>1, <2>3, <2>4, QuietStep
<1>3. ASSUME NEW c \in Clients, Connect(c) \/ Disconnect(c)  PROVE EventsInv'
  <2>1. UNCHANGED <<run, on, said, write, failures>>
    BY <1>3 DEF Connect, Disconnect
  <2>2. told'[c] = {} /\ \A d \in Clients \ {c} : client'[d] = client[d] /\ told'[d] = told[d]
    BY <1>0, <1>3 DEF Connect, Disconnect, TypeOK, EventsInv, ToldFollows
  <2>3. QuietSockets /\ QuietEntries
    BY <2>1, <2>2 DEF QuietSockets, QuietEntries
  <2>4. QED  BY <1>1, <2>1, <2>3, QuietStep
<1>4. ASSUME NEW p \in Procs, NEW next, Proceed(p, next), Fail \/ UNCHANGED failures
      PROVE  EventsInv'
  <2>1. QuietSockets /\ QuietEntries
    BY <1>4 DEF Proceed, QuietSockets, QuietEntries
  <2>2. QED  BY <1>1, <1>4, <2>1, QuietStep DEF Proceed
<1>5. ASSUME NEW p \in Procs, NEW how, Exit(p, how), Fail \/ UNCHANGED failures
      PROVE  EventsInv'
  BY <1>1, <1>5, ExitTells
<1>6. ASSUME NEW p \in Procs, Leave(p), Fail \/ UNCHANGED failures
      PROVE  EventsInv'
  BY <1>4, <1>5, <1>6 DEF Leave
<1>7. ASSUME NEW p \in Procs, Start(p) \/ Signal(p) \/ FinishStage(p)  PROVE EventsInv'
  BY <1>4, <1>6, <1>7 DEF Start, Signal, FinishStage
<1>8. ASSUME NEW p \in Procs, SignalEarly(p) \/ FailStage(p) \/ Crash(p)  PROVE EventsInv'
  BY <1>5, <1>6, <1>8 DEF SignalEarly, FailStage, Crash
<1>9. CASE Listen \/ TimerFires
  BY <1>4, <1>5, <1>9 DEF Listen, TimerFires, Procs
<1>10. CASE Over \/ UNCHANGED vars
  <2>1. QuietSockets /\ QuietEntries
    BY <1>10 DEF Over, vars, QuietSockets, QuietEntries
  <2>2. QED  BY <1>1, <1>10, <2>1, QuietStep DEF Over, vars
<1>11. ASSUME NEW p \in Procs, NEW i \in Runs, TakeJob(p, i)  PROVE EventsInv'
  BY <1>11, TakeJobTells
<1>12. ASSUME NEW i \in Runs, Working(i) \/ BeginFails(i) \/ CallFails(i) \/ CatchFails(i)
       PROVE  EventsInv'
  BY <1>12, SayTells, FinishRunTells, RunFailsTells DEF Working
<1>13. ASSUME NEW w \in Writes, Insert(w)  PROVE EventsInv'
  BY <1>13, InsertTells
<1>14. QED
  BY <1>2, <1>3, <1>7, <1>8, <1>9, <1>10, <1>11, <1>12, <1>13 DEF Next

LEMMA AlwaysEventsInv == Spec => []EventsInv
<1>1. Init => EventsInv
  BY RunIsPair, EntryIsWrite
  DEF Init, EventsInv, RunFollows, SaidFollows, ToldFollows, RunsInOrder
<1>2. QED  BY <1>1, AlwaysInv, EventsStep, PTL DEF Spec

(* Whatever fails, a socket is told of a start or an outcome only when the *)
(* database has settled its entry. *)
THEOREM ToldIsAlwaysOnRecord == Spec => []ToldIsOnRecord
<1>1. EventsInv => ToldIsOnRecord
  <2>1. \A k \in {1, LastEntry} : k \in 1..LastEntry
    OBVIOUS
  <2>2. QED  BY <2>1 DEF EventsInv, ToldFollows, ToldIsOnRecord
<1>2. QED  BY <1>1, AlwaysEventsInv, PTL

(* Whatever fails but the catch block after a first failure, a socket that *)
(* follows a run is told how it ends; and while nothing fails that is how  *)
(* the job ends. *)
THEOREM ToldHowItAlwaysEnds == Spec => []ToldHowItEnds
<1>1. Inv /\ EventsInv => ToldHowItEnds
  <2> SUFFICES ASSUME Inv, EventsInv, NEW c \in Clients, NEW i \in Runs,
                      NEW k \in 1..LastEntry, <<i, k>> \in told[c]
               PROVE  /\ client[c] = "connected" =>
                           /\ run[i] = "returned" => <<i, LastEntry>> \in told[c]
                           /\ run[i] = "threw" => <<i, LastEntry>> \in told[c] \/ failures > 1
                      /\ failures = 0 =>
                           \A h \in Runs \ {i}, m \in 1..LastEntry :
                             h[1] = i[1] => <<h, m>> \notin told[c]
    BY DEF ToldHowItEnds
  <2>1. ToldFollows(c) /\ RunFollows(i) /\ EntriesFollow(i) /\ RunsInOrder
    BY DEF EventsInv, Inv, EntriesFollowRun
  <2>2. on[i] = Api /\ said[i] >= 1
    <3>1. on[i] = Api /\ said[i] >= k
      BY <2>1 DEF ToldFollows
    <3>2. said[i] \in 0..LastEntry
      BY DEF Inv, TypeOK
    <3>3. QED  BY <3>1, <3>2
  <2>3. client[c] = "connected" /\ write[<<i, LastEntry>>] = "settled" =>
          <<i, LastEntry>> \in told[c]
    BY <2>1 DEF ToldFollows
  <2>4. run[i] = "returned" => write[<<i, LastEntry>>] = "settled"
    BY <2>1 DEF EntriesFollow
  <2>5. run[i] = "threw" => write[<<i, LastEntry>>] = "settled" \/ failures > 1
    BY <2>1, <2>2 DEF RunFollows
  <2>6. ASSUME failures = 0, NEW h \in Runs \ {i}, NEW m \in 1..LastEntry,
               h[1] = i[1], <<h, m>> \in told[c]
        PROVE  FALSE
    <3>1. on[h] = Api /\ RunFollows(h)
      BY <2>1, <2>6 DEF ToldFollows, EventsInv
    <3>2. run[h] # "none" /\ run[i] # "none"
      BY <2>1, <2>2, <3>1 DEF RunFollows
    <3>3. h[2] < i[2] \/ i[2] < h[2]
      BY <2>6, RunIsPair
    <3>4. QED  BY <2>1, <2>2, <2>6, <3>1, <3>2, <3>3 DEF RunsInOrder
  <2>7. QED  BY <2>3, <2>4, <2>5, <2>6
<1>2. QED  BY <1>1, AlwaysInv, AlwaysEventsInv, PTL
=============================================================================
