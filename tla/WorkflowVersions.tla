-------------------------- MODULE WorkflowVersions --------------------------
(***************************************************************************)
(* The versions of one workflow: requests that create a version, publish   *)
(* one, or look up the published one to trigger an execution, against a    *)
(* PostgreSQL database at its default isolation level, READ COMMITTED.     *)
(*                                                                         *)
(* publishVersion is an interactive transaction of three statements.  Each *)
(* sees what is committed when it begins; a row another transaction has    *)
(* written is waited for, and its WHERE clause then tried again.           *)
(***************************************************************************)
EXTENDS Naturals, FiniteSets

CONSTANTS
  Creators, Publishers, Triggers,  \* the requests of each kind
  None,                            \* no transaction
  MaxVersion                       \* bound: version numbers

ASSUME VersionsAssumption ==
  /\ MaxVersion \in Nat
  /\ None \notin Publishers

Versions == 1..MaxVersion

(* The rows a publish may write: those of the versions, and the workflow's.*)
Workflow == 0
Rows == Versions \cup {Workflow}

VARIABLES
  version,    \* version[v]: the committed row of version v
  active,     \* is the committed status of the workflow ACTIVE?
  creator,    \* creator[c]: a request in createVersion
  publisher,  \* publisher[p]: a request in publishVersion
  lock,       \* lock[r]: the transaction that has written row r
  trigger     \* trigger[t]: a request in triggerExecution

vars == <<version, active, creator, publisher, lock, trigger>>

-----------------------------------------------------------------------------
Exists(v)    == version[v] # "absent"
Published    == {v \in Versions : version[v] = "published"}
HasNumbers   == {v \in Versions : Exists(v)}
IsLatest(n)  == n \in {0} \cup HasNumbers /\ \A v \in HasNumbers : v <= n

Open(p) == publisher[p].pc \in {"clear", "activate", "commit"}

Idle == [pc |-> "idle", target |-> 0, todo |-> {}, cleared |-> {}, alone |-> FALSE]

Init ==
  /\ version = [v \in Versions |-> "absent"]
  /\ active = FALSE
  /\ creator = [c \in Creators |-> [pc |-> "idle", number |-> 0]]
  /\ publisher = [p \in Publishers |-> Idle]
  /\ lock = [r \in Rows |-> None]
  /\ trigger = [t \in Triggers |-> "idle"]

-----------------------------------------------------------------------------
(* createVersion: the highest number is read, the next one inserted.  The  *)
(* unique index on (workflowId, version) refuses the loser of a race.      *)

ReadNumber(c) ==
  /\ creator[c].pc = "idle"
  /\ \E n \in {0} \cup Versions :
       /\ IsLatest(n)
       /\ creator' = [creator EXCEPT ![c] = [pc |-> "insert", number |-> n + 1]]
  /\ UNCHANGED <<version, active, publisher, lock, trigger>>

(* Mutant: an upsert where the insert is, so that the loser of the race    *)
(* overwrites the winner's version.                                        *)
InsertUnchecked(c) ==
  /\ creator[c].pc = "insert"
  /\ creator[c].number \in Versions
  /\ version' = [version EXCEPT ![creator[c].number] = "draft"]
  /\ creator' = [creator EXCEPT ![c].pc = "created"]
  /\ UNCHANGED <<active, publisher, lock, trigger>>

InsertVersion(c) ==
  LET n == creator[c].number IN
  /\ creator[c].pc = "insert"
  /\ n \in Versions
  /\ IF Exists(n)
       THEN /\ creator' = [creator EXCEPT ![c].pc = "conflict"]
            /\ UNCHANGED version
       ELSE /\ creator' = [creator EXCEPT ![c].pc = "created"]
            /\ version' = [version EXCEPT ![n] = "draft"]
  /\ UNCHANGED <<active, publisher, lock, trigger>>

-----------------------------------------------------------------------------
(* publishVersion.  updateMany locks the published rows one at a time.     *)

Free(p, r) == lock[r] \in {None, p}

Acquire(p, r) == lock' = [lock EXCEPT ![r] = p]

(* The lookup finds the version, the transaction begins, and updateMany    *)
(* selects the rows that are published in what is committed now.           *)
(* alone records, for the properties, that no other publish is open.       *)
BeginPublish(p, v) ==
  LET others == {q \in Publishers : Open(q)} IN
  /\ publisher[p].pc = "idle"
  /\ Exists(v)
  /\ publisher' = [q \in Publishers |->
       IF q = p THEN [pc |-> "clear", target |-> v, todo |-> Published,
                      cleared |-> {}, alone |-> others = {}]
       ELSE IF q \in others THEN [publisher[q] EXCEPT !.alone = FALSE]
       ELSE publisher[q]]
  /\ UNCHANGED <<version, active, creator, lock, trigger>>

(* A selected row is locked; its filter isPublished is tried again on what *)
(* is committed by then.                                                   *)
ClearRow(p, v) ==
  /\ publisher[p].pc = "clear"
  /\ v \in publisher[p].todo
  /\ Free(p, v)
  /\ Acquire(p, v)
  /\ publisher' = [publisher EXCEPT ![p] = [@ EXCEPT
       !.todo = publisher[p].todo \ {v},
       !.cleared = IF version[v] = "published" THEN publisher[p].cleared \cup {v}
                                               ELSE publisher[p].cleared]]
  /\ UNCHANGED <<version, active, creator, trigger>>

SetTarget(p) ==
  /\ publisher[p].pc = "clear"
  /\ publisher[p].todo = {}
  /\ Free(p, publisher[p].target)
  /\ Acquire(p, publisher[p].target)
  /\ publisher' = [publisher EXCEPT ![p].pc = "activate"]
  /\ UNCHANGED <<version, active, creator, trigger>>

ActivateWorkflow(p) ==
  /\ publisher[p].pc = "activate"
  /\ Free(p, Workflow)
  /\ Acquire(p, Workflow)
  /\ publisher' = [publisher EXCEPT ![p].pc = "commit"]
  /\ UNCHANGED <<version, active, creator, trigger>>

(* Mutant: the transaction is left open on its connection.                 *)
ReleaseNothing(p) == UNCHANGED lock

Release(p) == lock' = [r \in Rows |-> IF lock[r] = p THEN None ELSE lock[r]]

(* Mutant: updateMany runs outside the transaction, and what it cleared    *)
(* stays cleared when the rest is rolled back.                             *)
RollbackCleared(p) ==
  /\ Open(p)
  /\ Release(p)
  /\ publisher' = [publisher EXCEPT ![p].pc = "failed"]
  /\ version' = [v \in Versions |->
       IF v \in publisher[p].cleared THEN "draft" ELSE version[v]]
  /\ UNCHANGED <<active, creator, trigger>>

(* The transaction ends without effect: a lost connection, Prisma's        *)
(* transaction timeout, a process that dies.                               *)
Rollback(p) ==
  /\ Open(p)
  /\ Release(p)
  /\ publisher' = [publisher EXCEPT ![p].pc = "failed"]
  /\ UNCHANGED <<version, active, creator, trigger>>

Commit(p) ==
  LET tx == publisher[p] IN
  /\ tx.pc = "commit"
  /\ version' = [v \in Versions |->
       IF v = tx.target THEN "published"
       ELSE IF v \in tx.cleared THEN "draft" ELSE version[v]]
  /\ active' = TRUE
  /\ Release(p)
  /\ publisher' = [publisher EXCEPT ![p].pc = "done"]
  /\ UNCHANGED <<creator, trigger>>

(* Rows p has to lock next, and who holds them all against it.             *)
Needs(p) ==
  IF publisher[p].pc = "activate" THEN {Workflow}
  ELSE IF publisher[p].pc # "clear" THEN {}
  ELSE IF publisher[p].todo = {} THEN {publisher[p].target}
  ELSE publisher[p].todo

Stuck(p) == Needs(p) # {} /\ \A r \in Needs(p) : ~Free(p, r)

(* PostgreSQL aborts a transaction in a cycle of waiting ones.             *)
Deadlocked(p) ==
  \E D \in SUBSET Publishers :
    /\ p \in D
    /\ \A q \in D : Stuck(q) /\ {lock[r] : r \in Needs(q)} \subseteq D

BreakDeadlock(p) == Deadlocked(p) /\ Rollback(p)

-----------------------------------------------------------------------------
(* triggerExecution's two reads: the status, then the published version.   *)

ReadActive(t) ==
  /\ trigger[t] = "idle"
  /\ trigger' = [trigger EXCEPT ![t] = IF active THEN "lookup" ELSE "notActive"]
  /\ UNCHANGED <<version, active, creator, publisher, lock>>

LookupPublished(t) ==
  /\ trigger[t] = "lookup"
  /\ trigger' = [trigger EXCEPT ![t] =
       IF Published = {} THEN "noVersion" ELSE "found"]
  /\ UNCHANGED <<version, active, creator, publisher, lock>>

(* Every request has been answered, or has found no number left below the  *)
(* bound or no version to publish.                                         *)
Quiescent ==
  /\ \A p \in Publishers : ~Open(p)
  /\ \A c \in Creators : creator[c].pc # "idle"
  /\ \A c \in Creators : creator[c].pc = "insert" => creator[c].number \notin Versions
  /\ \A t \in Triggers : trigger[t] \notin {"idle", "lookup"}
  /\ UNCHANGED vars

-----------------------------------------------------------------------------
Creating(c) == ReadNumber(c) \/ InsertVersion(c)

Publishing(p) ==
  \/ \E v \in Versions : ClearRow(p, v)
  \/ SetTarget(p) \/ ActivateWorkflow(p) \/ Commit(p)

Next ==
  \/ \E c \in Creators : Creating(c)
  \/ \E p \in Publishers :
       \/ \E v \in Versions : BeginPublish(p, v)
       \/ Publishing(p) \/ Rollback(p) \/ BreakDeadlock(p)
  \/ \E t \in Triggers : ReadActive(t) \/ LookupPublished(t)
  \/ Quiescent

Spec == Init /\ [][Next]_vars

(* The handler goes on with its transaction, and the database finds        *)
(* deadlocks; no connection has to be lost.                                *)
Fairness ==
  \A p \in Publishers : WF_vars(Publishing(p)) /\ WF_vars(BreakDeadlock(p))

FairSpec == Spec /\ Fairness

-----------------------------------------------------------------------------
(* Properties.                                                             *)

(* Rows, requests and locks have their types.                              *)
TypeOK ==
  /\ version \in [Versions -> {"absent", "draft", "published"}]
  /\ active \in BOOLEAN
  /\ creator \in [Creators ->
       [pc : {"idle", "insert", "created", "conflict"}, number : Nat]]
  /\ publisher \in [Publishers ->
       [pc : {"idle", "clear", "activate", "commit", "done", "failed"},
        target : Versions \cup {0}, todo : SUBSET Versions,
        cleared : SUBSET Versions, alone : BOOLEAN]]
  /\ lock \in [Rows -> Publishers \cup {None}]
  /\ trigger \in [Triggers ->
       {"idle", "lookup", "notActive", "found", "noVersion"}]

(* The numbers of a workflow's versions are 1..n with no gap, whatever     *)
(* requests race for the next one ("monotonically incrementing: 1, 2, 3"). *)
NumbersContiguous == \A v \in HasNumbers : \A u \in 1..v : Exists(u)

(* A version, once there, is never replaced by another request's: only its *)
(* publication changes, and only when a publish commits.                   *)
VersionsImmutable ==
  [][ \A v \in Versions : Exists(v) /\ version'[v] # version[v] =>
        \E p \in Publishers : Commit(p) ]_vars

(* The rows, seen as a catalogue.  A publish is raced while another that   *)
(* was open at the same time as it is, or was.                             *)
Raced == \E p \in Publishers : Open(p) /\ ~publisher[p].alone

Catalogue == INSTANCE VersionCatalogue
  WITH numbers <- HasNumbers, published <- Published, raced <- Raced

(* What is committed changes as a catalogue does: createVersion appends    *)
(* the next number or nothing, the three statements of publishVersion take *)
(* effect at once or not at all, and one that is not raced withdraws every *)
(* other version.                                                          *)
ImplementsCatalogue == Catalogue!Spec

(* A trigger that has seen the workflow ACTIVE finds a published version,  *)
(* though publishes commit between its two reads: NO_PUBLISHED_VERSION is  *)
(* never answered after the ACTIVE check.                                  *)
TriggerFindsVersion == \A t \in Triggers : trigger[t] # "noVersion"

(* A publish that no other publish overlapped leaves its version the only  *)
(* published one, also after races that had left several.                  *)
LonePublishWins ==
  [][ \A p \in Publishers :
        publisher[p].alone /\ publisher[p].pc = "commit" /\ publisher'[p].pc = "done"
          => Published' = {publisher[p].target} ]_vars

(* Every publish ends, though they wait for each other's rows in any order.*)
PublishesEnd == \A p \in Publishers : Open(p) ~> ~Open(p)

(* Publishes wait for nobody but each other: as long as one is open, one   *)
(* that is open can take its next row or commit, or is in a cycle that the *)
(* database breaks.  No lock outlives the publish that took it.            *)
CanGoOn(p) == publisher[p].pc = "commit" \/ \E r \in Needs(p) : Free(p, r)

PublishesGoOn ==
  (\E p \in Publishers : Open(p)) =>
    \E p \in Publishers : Open(p) /\ (CanGoOn(p) \/ Deadlocked(p))

(* publishVersion claims to "Unpublish all other versions of this workflow"*)
(* atomically; two that overlap both stay published.                       *)
AtMostOnePublished == Cardinality(Published) <= 1

-----------------------------------------------------------------------------
(* The inductive invariant behind the theorems of WorkflowVersionsProofs.  *)

(* Below the number a creator is about to insert there is no gap.          *)
NoGapBelow ==
  \A c \in Creators : creator[c].pc = "insert" =>
    \A u \in Versions : u < creator[c].number => Exists(u)

(* An ACTIVE workflow has a published version, and a trigger looks for it  *)
(* only once it is ACTIVE.                                                 *)
ActiveHasPublished ==
  /\ active => Published # {}
  /\ \A t \in Triggers : trigger[t] = "lookup" => active

(* What an open publish is going to write exists, and one that no other    *)
(* overlaps has every published row in hand.                               *)
PublishInHand ==
  \A p \in Publishers : Open(p) =>
    /\ publisher[p].target \in Versions /\ Exists(publisher[p].target)
    /\ publisher[p].cleared \subseteq HasNumbers
    /\ publisher[p].alone =>
         /\ \A q \in Publishers : Open(q) => q = p
         /\ Published \subseteq publisher[p].todo \cup publisher[p].cleared
    /\ publisher[p].pc \in {"activate", "commit"} => publisher[p].todo = {}

(* The strengthening that every step preserves.                            *)
Inv ==
  /\ TypeOK
  /\ NumbersContiguous
  /\ NoGapBelow
  /\ ActiveHasPublished
  /\ TriggerFindsVersion
  /\ PublishInHand
=============================================================================
