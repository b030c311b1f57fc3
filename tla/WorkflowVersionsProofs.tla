----------------------- MODULE WorkflowVersionsProofs -----------------------
(***************************************************************************)
(* For any number of requests and versions: the numbers of the versions    *)
(* have no gap, a trigger that has seen ACTIVE finds a published version,  *)
(* and a publish that no other overlapped leaves its version the only one  *)
(* published.  Two that overlap do not, which the runs show; alone says    *)
(* where the line is.                                                      *)
(***************************************************************************)
EXTENDS WorkflowVersions, FiniteSetTheorems, TLAPS

USE VersionsAssumption DEF Versions, Rows, Workflow

-----------------------------------------------------------------------------
(* A workflow starts as a draft without versions.                          *)
LEMMA InitInv == Init => Inv
<1> SUFFICES ASSUME Init PROVE Inv
  OBVIOUS
<1> USE DEF Init, Idle
<1>1. TypeOK
  BY DEF TypeOK
<1>2. NumbersContiguous /\ NoGapBelow
  BY DEF NumbersContiguous, HasNumbers, Exists, NoGapBelow
<1>3. ActiveHasPublished /\ TriggerFindsVersion /\ PublishInHand
  BY DEF ActiveHasPublished, TriggerFindsVersion, PublishInHand, Open
<1>4. QED  BY <1>1, <1>2, <1>3 DEF Inv

(* Reading the latest number, and inserting the next unless it is taken,   *)
(* leaves no gap.                                                          *)
LEMMA CreatingInv ==
  ASSUME Inv, NEW c \in Creators, Creating(c)
  PROVE  Inv'
<1> USE DEF Inv
<1>1. CASE ReadNumber(c)
  <2>1. PICK n \in {0} \cup Versions :
          /\ IsLatest(n)
          /\ creator' = [creator EXCEPT ![c] = [pc |-> "insert", number |-> n + 1]]
    BY <1>1 DEF ReadNumber
  <2>2. \A u \in Versions : u < n + 1 => Exists(u)
    BY <2>1 DEF IsLatest, NumbersContiguous, HasNumbers, Exists
  <2>3. TypeOK' /\ NoGapBelow'
    BY <1>1, <2>1, <2>2 DEF ReadNumber, TypeOK, NoGapBelow, Exists
  <2>4. NumbersContiguous' /\ ActiveHasPublished' /\ TriggerFindsVersion' /\ PublishInHand'
    BY <1>1 DEF ReadNumber, NumbersContiguous, HasNumbers, Exists,
                ActiveHasPublished, Published, TriggerFindsVersion,
                PublishInHand, Open
  <2>5. QED  BY <2>3, <2>4
<1>2. CASE InsertVersion(c)
  <2>1. PICK n \in Versions :
          /\ creator[c].number = n /\ creator[c].pc = "insert"
          /\ UNCHANGED <<active, publisher, lock, trigger>>
    BY <1>2 DEF InsertVersion
  <2>2. \/ /\ Exists(n) /\ UNCHANGED version
           /\ creator' = [creator EXCEPT ![c].pc = "conflict"]
        \/ /\ ~Exists(n) /\ version' = [version EXCEPT ![n] = "draft"]
           /\ creator' = [creator EXCEPT ![c].pc = "created"]
    BY <1>2, <2>1 DEF InsertVersion
  <2>3. TypeOK'
    <3>1. version' \in [Versions -> {"absent", "draft", "published"}]
      BY <2>1, <2>2 DEF TypeOK
    <3>2. creator' \in [Creators ->
            [pc : {"idle", "insert", "created", "conflict"}, number : Nat]]
      <4>1. CASE creator' = [creator EXCEPT ![c].pc = "conflict"]
        BY <4>1 DEF TypeOK
      <4>2. CASE creator' = [creator EXCEPT ![c].pc = "created"]
        BY <4>2 DEF TypeOK
      <4>3. QED  BY <2>2, <4>1, <4>2
    <3>3. QED  BY <2>1, <3>1, <3>2 DEF TypeOK
  <2>4. /\ \A u \in Versions : Exists(u) => Exists(u)'
        /\ HasNumbers' \subseteq HasNumbers \cup {n}
    BY <2>1, <2>2 DEF TypeOK, Exists, HasNumbers
  <2>5. \A u \in Versions : u < n => Exists(u)
    BY <2>1 DEF NoGapBelow
  <2>6. ~Exists(n) => Exists(n)'
    BY <2>1, <2>2 DEF TypeOK, Exists
  <2>7. NumbersContiguous'
    <3>1. ASSUME NEW v \in HasNumbers', NEW u \in 1..v
          PROVE  Exists(u)'
      <4>1. v \in Versions /\ u \in Versions
        BY <3>1 DEF HasNumbers
      <4>2. CASE v = n
        BY <2>4, <2>5, <2>6, <4>1, <4>2
      <4>3. CASE v \in HasNumbers
        BY <2>4, <4>1, <4>3 DEF NumbersContiguous
      <4>4. QED  BY <2>4, <4>2, <4>3
    <3>2. QED  BY <3>1 DEF NumbersContiguous
  <2>8. \A d \in Creators : creator'[d].pc = "insert" =>
          creator[d].pc = "insert" /\ creator'[d].number = creator[d].number
    <3>1. ASSUME NEW pc \in {"conflict", "created"},
                 creator' = [creator EXCEPT ![c].pc = pc]
          PROVE  \A d \in Creators : creator'[d].pc = "insert" => creator'[d] = creator[d]
      BY <3>1 DEF TypeOK
    <3>2. QED  BY <2>2, <3>1
  <2>9. NoGapBelow'
    BY <2>4, <2>8 DEF NoGapBelow
  <2>10. Published' = Published
    BY <2>1, <2>2 DEF TypeOK, Published, Exists
  <2>11. ActiveHasPublished' /\ TriggerFindsVersion' /\ PublishInHand'
    BY <2>1, <2>4, <2>10 DEF ActiveHasPublished, TriggerFindsVersion,
                             PublishInHand, Open, HasNumbers
  <2>12. QED  BY <2>3, <2>7, <2>9, <2>11
<1>3. QED  BY <1>1, <1>2 DEF Creating

(* A publish that begins alone takes every published row in hand; the      *)
(* others are no longer alone.                                             *)
LEMMA BeginPublishInv ==
  ASSUME Inv, NEW p \in Publishers, NEW v \in Versions, BeginPublish(p, v)
  PROVE  Inv'
<1> USE DEF Inv, BeginPublish
<1>1. TypeOK'
  BY ZenonT(60) DEF TypeOK, Published, Open
<1>2. UNCHANGED <<version, active, creator, lock, trigger>>
  OBVIOUS
<1>3. NumbersContiguous' /\ NoGapBelow' /\ ActiveHasPublished' /\ TriggerFindsVersion'
  BY <1>2 DEF NumbersContiguous, HasNumbers, Exists, NoGapBelow,
              ActiveHasPublished, Published, TriggerFindsVersion
<1>4. PublishInHand'
  <2>1. publisher'[p] = [pc |-> "clear", target |-> v, todo |-> Published,
                         cleared |-> {},
                         alone |-> {q \in Publishers : Open(q)} = {}]
    OBVIOUS
  <2>2. \A q \in Publishers : q # p =>
          publisher'[q] = IF Open(q) THEN [publisher[q] EXCEPT !.alone = FALSE]
                          ELSE publisher[q]
    OBVIOUS
  <2>3. \A q \in Publishers : q # p => (Open(q)' <=> Open(q))
    BY <2>2 DEF TypeOK, Open
  <2>4. ASSUME NEW q \in Publishers, Open(q)', q # p
        PROVE  /\ publisher'[q].target = publisher[q].target
               /\ publisher'[q].cleared = publisher[q].cleared
               /\ publisher'[q].todo = publisher[q].todo
               /\ publisher'[q].pc = publisher[q].pc
               /\ ~publisher'[q].alone
    BY <2>2, <2>3, <2>4 DEF TypeOK
  <2>5. HasNumbers' = HasNumbers /\ Published' = Published
    BY <1>2 DEF HasNumbers, Published, Exists
  <2>6. ASSUME NEW q \in Publishers, Open(q)', q # p
        PROVE  /\ publisher'[q].target \in Versions /\ Exists(publisher[q].target)
               /\ publisher'[q].cleared \subseteq HasNumbers
               /\ publisher'[q].pc \in {"activate", "commit"} =>
                    publisher'[q].todo = {}
    BY <2>3, <2>4, <2>6 DEF PublishInHand
  <2>7. QED
    BY <1>2, <2>1, <2>3, <2>4, <2>5, <2>6 DEF PublishInHand, Exists
<1>5. QED  BY <1>1, <1>3, <1>4

(* A row that is locked moves from todo to cleared, if it is published.       *)
LEMMA ClearRowInv ==
  ASSUME Inv, NEW p \in Publishers, NEW v \in Versions, ClearRow(p, v)
  PROVE  Inv'
<1> USE DEF Inv, ClearRow, Acquire
<1>1. TypeOK'
  <2>1. lock' \in [Rows -> Publishers \cup {None}]
    BY DEF TypeOK
  <2> DEFINE Type == [pc : {"idle", "clear", "activate", "commit", "done", "failed"},
                      target : Versions \cup {0}, todo : SUBSET Versions,
                      cleared : SUBSET Versions, alone : BOOLEAN]
  <2>2. publisher[p] \in Type
    BY DEF TypeOK
  <2>3. publisher'[p] \in Type
    BY <2>2 DEF TypeOK
  <2>4. \A q \in Publishers : q # p => publisher'[q] = publisher[q]
    BY DEF TypeOK
  <2>5. publisher' \in [Publishers -> Type]
    <3> HIDE DEF Type
    <3>1. \A q \in Publishers : publisher'[q] \in Type
      BY <2>3, <2>4 DEF TypeOK, Type
    <3>2. QED  BY <3>1 DEF TypeOK
  <2>6. QED  BY <2>1, <2>5 DEF TypeOK
<1>2. UNCHANGED <<version, active, creator, trigger>>
  OBVIOUS
<1>3. NumbersContiguous' /\ NoGapBelow' /\ ActiveHasPublished' /\ TriggerFindsVersion'
  BY <1>2 DEF NumbersContiguous, HasNumbers, Exists, NoGapBelow,
              ActiveHasPublished, Published, TriggerFindsVersion
<1>4. PublishInHand'
  BY DEF TypeOK, PublishInHand, Open, Exists, Published, HasNumbers
<1>5. QED  BY <1>1, <1>3, <1>4

(* The target's row is written for the transaction alone.                   *)
LEMMA SetTargetInv ==
  ASSUME Inv, NEW p \in Publishers, SetTarget(p)
  PROVE  Inv'
<1> USE DEF Inv, SetTarget, Acquire
<1>1. TypeOK'
  BY ZenonT(60) DEF TypeOK, Open
<1>2. UNCHANGED <<version, active, creator, trigger>>
  OBVIOUS
<1>3. NumbersContiguous' /\ NoGapBelow' /\ ActiveHasPublished' /\ TriggerFindsVersion'
  BY <1>2 DEF NumbersContiguous, HasNumbers, Exists, NoGapBelow,
              ActiveHasPublished, Published, TriggerFindsVersion
<1>4. PublishInHand'
  BY DEF TypeOK, PublishInHand, Open, Exists, Published, HasNumbers
<1>5. QED  BY <1>1, <1>3, <1>4

(* So is the workflow's.                                                    *)
LEMMA ActivateWorkflowInv ==
  ASSUME Inv, NEW p \in Publishers, ActivateWorkflow(p)
  PROVE  Inv'
<1> USE DEF Inv, ActivateWorkflow, Acquire
<1>1. TypeOK'
  BY DEF TypeOK, Open
<1>2. UNCHANGED <<version, active, creator, trigger>>
  OBVIOUS
<1>3. NumbersContiguous' /\ NoGapBelow' /\ ActiveHasPublished' /\ TriggerFindsVersion'
  BY <1>2 DEF NumbersContiguous, HasNumbers, Exists, NoGapBelow,
              ActiveHasPublished, Published, TriggerFindsVersion
<1>4. PublishInHand'
  BY DEF TypeOK, PublishInHand, Open, Exists, Published, HasNumbers
<1>5. QED  BY <1>1, <1>3, <1>4

(* A rollback leaves everything committed as it was.                         *)
LEMMA RollbackInv ==
  ASSUME Inv, NEW p \in Publishers, Rollback(p)
  PROVE  Inv'
<1> USE DEF Inv, Rollback, Release
<1>1. TypeOK'
  <2>1. lock' \in [Rows -> Publishers \cup {None}]
    BY DEF TypeOK
  <2>2. publisher' = [publisher EXCEPT ![p] = [publisher[p] EXCEPT !.pc = "failed"]]
    OBVIOUS
  <2>3. [publisher[p] EXCEPT !.pc = "failed"] \in
          [pc : {"idle", "clear", "activate", "commit", "done", "failed"},
           target : Versions \cup {0}, todo : SUBSET Versions,
           cleared : SUBSET Versions, alone : BOOLEAN]
    BY ZenonT(60) DEF TypeOK
  <2>4. UNCHANGED <<version, active, creator, trigger>>
    OBVIOUS
  <2> HIDE DEF Rollback, Release
  <2>5. QED  BY <2>1, <2>2, <2>3, <2>4 DEF TypeOK
<1>2. UNCHANGED <<version, active, creator, trigger>>
  OBVIOUS
<1>3. NumbersContiguous' /\ NoGapBelow' /\ ActiveHasPublished' /\ TriggerFindsVersion'
  BY <1>2 DEF NumbersContiguous, HasNumbers, Exists, NoGapBelow,
              ActiveHasPublished, Published, TriggerFindsVersion
<1>4. PublishInHand'
  BY DEF TypeOK, PublishInHand, Open, Exists, Published, HasNumbers
<1>5. QED  BY <1>1, <1>3, <1>4

(* A commit publishes its target, which exists, and makes no version       *)
(* absent; no transaction that is still open was alone.                    *)
LEMMA CommitInv ==
  ASSUME Inv, NEW p \in Publishers, Commit(p)
  PROVE  Inv'
<1> USE DEF Inv, Commit, Release
<1>1. TypeOK'
  BY ZenonT(60) DEF TypeOK
<1>2. Open(p) /\ publisher[p].target \in Versions /\ Exists(publisher[p].target)
  BY DEF PublishInHand, Open
<1>3. \A u \in Versions : Exists(u) <=> Exists(u)'
  BY <1>2 DEF TypeOK, Exists, PublishInHand, HasNumbers
<1>4. publisher[p].target \in Published'
  BY <1>2 DEF Published, TypeOK
<1>5. NumbersContiguous' /\ NoGapBelow'
  BY <1>3 DEF NumbersContiguous, HasNumbers, NoGapBelow
<1>6. ActiveHasPublished' /\ TriggerFindsVersion'
  BY <1>4 DEF ActiveHasPublished, TriggerFindsVersion
<1>7. PublishInHand'
  BY <1>2, <1>3 DEF TypeOK, PublishInHand, Open, HasNumbers
<1>8. QED  BY <1>1, <1>5, <1>6, <1>7

(* A trigger that has seen ACTIVE looks for a version that is there.       *)
LEMMA TriggerInv ==
  ASSUME Inv, NEW t \in Triggers, ReadActive(t) \/ LookupPublished(t)
  PROVE  Inv'
<1> USE DEF Inv, ReadActive, LookupPublished
<1>1. TypeOK'
  BY DEF TypeOK
<1>2. UNCHANGED <<version, active, creator, publisher, lock>>
  OBVIOUS
<1>3. NumbersContiguous' /\ NoGapBelow' /\ PublishInHand'
  BY <1>2 DEF NumbersContiguous, HasNumbers, Exists, NoGapBelow, PublishInHand,
              Open, Published
<1>4. ActiveHasPublished' /\ TriggerFindsVersion'
  BY DEF TypeOK, ActiveHasPublished, TriggerFindsVersion, Published
<1>5. QED  BY <1>1, <1>3, <1>4

(* Inv is inductive.                                                       *)
LEMMA NextInv ==
  ASSUME Inv, [Next]_vars
  PROVE  Inv'
<1>1. CASE UNCHANGED vars
  BY <1>1 DEF vars, Inv, TypeOK, NumbersContiguous, HasNumbers, Exists,
              NoGapBelow, ActiveHasPublished, Published, TriggerFindsVersion,
              PublishInHand, Open
<1>2. CASE Next
  <2>1. ASSUME NEW p \in Publishers,
               \/ \E v \in Versions : BeginPublish(p, v)
               \/ Publishing(p) \/ Rollback(p) \/ BreakDeadlock(p)
        PROVE  Inv'
    BY <2>1, BeginPublishInv, ClearRowInv, SetTargetInv,
       ActivateWorkflowInv, RollbackInv, CommitInv
    DEF Publishing, BreakDeadlock
  <2>2. QED
    BY <1>1, <1>2, <2>1, CreatingInv, TriggerInv DEF Next, Quiescent
<1>3. QED  BY <1>1, <1>2

(* The invariant holds in every reachable state.                           *)
THEOREM AlwaysInv == Spec => []Inv
<1>1. Init => Inv
  BY InitInv
<1>2. Inv /\ [Next]_vars => Inv'
  BY NextInv
<1>3. QED  BY <1>1, <1>2, PTL DEF Spec

(* Rows, requests and locks keep their types.                              *)
THEOREM TypeCorrect == Spec => []TypeOK
<1>1. Inv => TypeOK
  BY DEF Inv
<1>2. QED  BY <1>1, AlwaysInv, PTL

(* createVersion numbers the versions 1, 2, 3... though its requests race: *)
(* the loser is refused by the unique index and leaves no gap.             *)
THEOREM NumbersAlwaysContiguous == Spec => []NumbersContiguous
<1>1. Inv => NumbersContiguous
  BY DEF Inv
<1>2. QED  BY <1>1, AlwaysInv, PTL

(* triggerExecution never answers NO_PUBLISHED_VERSION once it has seen    *)
(* the workflow ACTIVE.                                                    *)
THEOREM TriggerAlwaysFindsVersion == Spec => []TriggerFindsVersion
<1>1. Inv => TriggerFindsVersion
  BY DEF Inv
<1>2. QED  BY <1>1, AlwaysInv, PTL

(* publishVersion leaves exactly its target published, if no other publish *)
(* of the workflow overlapped it, however many were published before.      *)
THEOREM LonePublishAlwaysWins == Spec => LonePublishWins
<1>1. ASSUME Inv, [Next]_vars, NEW p \in Publishers,
             publisher[p].alone, publisher[p].pc = "commit",
             publisher'[p].pc = "done"
      PROVE  Published' = {publisher[p].target}
  <2>1. Commit(p)
    <3>1. \A q \in Publishers : Open(q) => q = p
      BY <1>1 DEF Inv, PublishInHand, Open
    <3>2. ASSUME NEW q \in Publishers, NEW v \in Versions,
                 BeginPublish(q, v) \/ ClearRow(q, v)
          PROVE  FALSE
      <4>1. CASE BeginPublish(q, v)
        <5>1. q # p /\ Open(p)
          BY <1>1, <4>1 DEF BeginPublish, Open
        <5>2. publisher'[p].pc = publisher[p].pc
          BY <4>1, <5>1 DEF BeginPublish, Inv, TypeOK
        <5>3. QED  BY <1>1, <5>2
      <4>2. CASE ClearRow(q, v)
        BY <1>1, <4>2 DEF ClearRow, Inv, TypeOK
      <4>3. QED  BY <3>2, <4>1, <4>2
    <3>3. ASSUME NEW q \in Publishers,
                 SetTarget(q) \/ ActivateWorkflow(q) \/ Rollback(q)
          PROVE  FALSE
      BY <1>1, <3>3 DEF SetTarget, ActivateWorkflow, Rollback, Inv, TypeOK
    <3>4. ASSUME UNCHANGED publisher PROVE FALSE
      BY <1>1, <3>4
    <3>5. ASSUME NEW q \in Publishers, Commit(q) PROVE q = p
      BY <3>1, <3>5 DEF Commit, Open
    <3>6. QED
      BY <1>1, <3>2, <3>3, <3>4, <3>5
      DEF Next, Creating, ReadNumber, InsertVersion, Publishing, BreakDeadlock,
          ReadActive, LookupPublished, Quiescent, vars
  <2>2. /\ Published \subseteq publisher[p].cleared
        /\ publisher[p].target \in Versions
    BY <1>1 DEF Inv, PublishInHand, Open
  <2>3. QED  BY <1>1, <2>1, <2>2 DEF Commit, Published, Inv, TypeOK
<1>2. Inv /\ [Next]_vars =>
        [ \A p \in Publishers :
            publisher[p].alone /\ publisher[p].pc = "commit" /\ publisher'[p].pc = "done"
              => Published' = {publisher[p].target} ]_vars
  BY <1>1
<1>3. QED  BY <1>2, AlwaysInv, PTL DEF Spec, LonePublishWins

(* createVersion and a publish that is still open, or rolled back, leave   *)
(* every version that is there as it was.                                  *)
THEOREM VersionsAlwaysImmutable == Spec => VersionsImmutable
<1>1. Inv /\ [Next]_vars =>
        [ \A v \in Versions : Exists(v) /\ version'[v] # version[v] =>
            \E p \in Publishers : Commit(p) ]_vars
  <2> SUFFICES ASSUME Inv, Next, NEW v \in Versions, Exists(v),
                      version'[v] # version[v]
               PROVE  \E p \in Publishers : Commit(p)
    OBVIOUS
  <2>1. ASSUME NEW c \in Creators, InsertVersion(c)
        PROVE  FALSE
    <3>1. CASE Exists(creator[c].number)
      BY <2>1, <3>1 DEF InsertVersion
    <3>2. CASE ~Exists(creator[c].number)
      <4>1. /\ version' = [version EXCEPT ![creator[c].number] = "draft"]
            /\ creator[c].number # v
        BY <2>1, <3>2 DEF InsertVersion
      <4>2. QED  BY <4>1 DEF Inv, TypeOK
    <3>3. QED  BY <3>1, <3>2
  <2>2. version' # version
    OBVIOUS
  <2>3. QED
    BY <2>1, <2>2
    DEF Next, Creating, ReadNumber, Publishing, BeginPublish, ClearRow, SetTarget,
        ActivateWorkflow, Rollback, BreakDeadlock, ReadActive, LookupPublished,
        Quiescent, vars
<1>2. QED  BY <1>1, AlwaysInv, PTL DEF Spec, VersionsImmutable

-----------------------------------------------------------------------------
(* The rows are a catalogue.                                               *)

Cat == Catalogue!Catalogue

(* What is committed is left as it was.                                    *)
CommittedStands == UNCHANGED <<HasNumbers, Published, active>>

LEMMA RowsStand ==
  ASSUME UNCHANGED <<version, active>>
  PROVE  CommittedStands
  BY DEF CommittedStands, HasNumbers, Exists, Published

LEMMA RacedBoolean == Raced \in BOOLEAN /\ Raced' \in BOOLEAN
  BY DEF Raced

(* An insertion that succeeds appends the next number: its number has no   *)
(* gap below it and is not there.                                          *)
LEMMA InsertAppends ==
  ASSUME Inv, Cat, NEW c \in Creators, InsertVersion(c)
  PROVE  CommittedStands \/ Catalogue!Append
<1> DEFINE n == creator[c].number
<1>1. creator[c].pc = "insert" /\ n \in 1..MaxVersion /\ active' = active
  BY DEF InsertVersion
<1>2. CASE Exists(n)
  BY <1>1, <1>2, RowsStand DEF InsertVersion
<1>3. CASE ~Exists(n)
  <2>1. version' = [version EXCEPT ![n] = "draft"]
    BY <1>3 DEF InsertVersion
  <2>2. \A u \in Versions : u < n => Exists(u)
    BY <1>1 DEF Inv, NoGapBelow
  <2>3. PICK m \in 0..MaxVersion : HasNumbers = 1..m
    BY DEF Cat, Catalogue!Catalogue
  <2>4. n \notin 1..m
    BY <1>1, <1>3, <2>3 DEF HasNumbers
  <2>5. n - 1 \in 1..m \/ n = 1
    <3>1. n # 1 => n - 1 \in Versions /\ n - 1 < n
      BY <1>1
    <3>2. n # 1 => n - 1 \in HasNumbers
      BY <2>2, <3>1 DEF HasNumbers
    <3>3. QED  BY <2>3, <3>2
  <2>6. m = n - 1
    BY <1>1, <2>3, <2>4, <2>5
  <2>7. HasNumbers' = HasNumbers \cup {n}
    BY <1>1, <1>3, <2>1 DEF HasNumbers, Exists, Inv, TypeOK
  <2>8. HasNumbers' = 1..n
    BY <1>1, <2>3, <2>6, <2>7
  <2>9. Published' = Published
    BY <1>1, <1>3, <2>1 DEF Published, Exists, Inv, TypeOK
  <2>10. QED
    BY <1>1, <2>3, <2>6, <2>8, <2>9 DEF Catalogue!Append
<1>4. QED  BY <1>2, <1>3

(* A commit publishes its target and otherwise only withdraws; one that no *)
(* other overlapped withdraws all the rest.                                *)
LEMMA CommitPublishes ==
  ASSUME Inv, NEW p \in Publishers, Commit(p)
  PROVE  \E v \in HasNumbers : Catalogue!Publish(v)
<1> DEFINE v == publisher[p].target
<1>1. /\ Open(p) /\ v \in Versions /\ Exists(v)
      /\ publisher[p].cleared \subseteq HasNumbers /\ publisher[p].todo = {}
      /\ publisher[p].alone => Published \subseteq publisher[p].cleared
  BY DEF Inv, Commit, PublishInHand, Open
<1>2. version' = [u \in Versions |->
        IF u = v THEN "published"
        ELSE IF u \in publisher[p].cleared THEN "draft" ELSE version[u]]
  BY DEF Commit
<1>3. HasNumbers' = HasNumbers /\ v \in HasNumbers
  BY <1>1, <1>2 DEF HasNumbers, Exists
<1>4. v \in Published' /\ Published' \subseteq Published \cup {v}
  BY <1>1, <1>2 DEF Published
<1>5. Raced \/ Published' = {v}
  <2>1. CASE ~publisher[p].alone
    BY <1>1, <2>1 DEF Raced
  <2>2. CASE publisher[p].alone
    BY <1>1, <1>2, <2>2 DEF Published
  <2>3. QED  BY <2>1, <2>2
<1>6. active' = TRUE
  BY DEF Commit
<1>7. QED  BY <1>3, <1>4, <1>5, <1>6 DEF Catalogue!Publish

(* Every other step leaves what is committed.                              *)
LEMMA NextCatalogued ==
  ASSUME Inv, Cat, [Next]_vars
  PROVE  [Catalogue!Next]_(Catalogue!vars)
<1>1. ASSUME NEW c \in Creators, InsertVersion(c)
      PROVE  CommittedStands \/ Catalogue!Append
  BY <1>1, InsertAppends
<1>2. ASSUME NEW p \in Publishers, Commit(p)
      PROVE  \E v \in HasNumbers : Catalogue!Publish(v)
  BY <1>2, CommitPublishes
<1>3. ASSUME UNCHANGED <<version, active>>
      PROVE  CommittedStands
  BY <1>3, RowsStand
<1>4. \/ UNCHANGED <<version, active>>
      \/ \E c \in Creators : InsertVersion(c)
      \/ \E p \in Publishers : Commit(p)
  BY DEF Next, Creating, ReadNumber, Publishing, BeginPublish, ClearRow, SetTarget,
         ActivateWorkflow, Rollback, BreakDeadlock, ReadActive, LookupPublished,
         Quiescent, vars
<1>5. CommittedStands \/ Catalogue!Append \/ \E v \in HasNumbers : Catalogue!Publish(v)
  BY <1>1, <1>2, <1>3, <1>4
<1>6. QED  BY <1>5, RacedBoolean DEF Catalogue!Next, CommittedStands

(* The catalogue's steps keep it one.                                      *)
LEMMA CatalogueKept ==
  ASSUME Cat, [Catalogue!Next]_(Catalogue!vars)
  PROVE  Cat'
<1> USE DEF Cat, Catalogue!Catalogue
<1>1. CASE Catalogue!Append
  <2>1. PICK n \in 1..MaxVersion :
          HasNumbers = 1..(n - 1) /\ HasNumbers' = 1..n /\ UNCHANGED <<Published, active>>
    BY <1>1 DEF Catalogue!Append
  <2>2. n \in 0..MaxVersion /\ 1..(n - 1) \subseteq 1..n
    OBVIOUS
  <2>3. QED  BY <2>1, <2>2
<1>2. ASSUME NEW v \in HasNumbers, Catalogue!Publish(v)
      PROVE  Cat'
  BY <1>2 DEF Catalogue!Publish
<1>3. CASE UNCHANGED <<HasNumbers, Published, active>>
  BY <1>3
<1>4. QED  BY <1>1, <1>2, <1>3 DEF Catalogue!Next, Catalogue!vars

LEMMA InitCatalogued == Init => Cat /\ Catalogue!Init
<1> SUFFICES ASSUME Init PROVE Cat /\ Catalogue!Init
  OBVIOUS
<1>1. HasNumbers = {} /\ Published = {} /\ active = FALSE
  BY DEF Init, HasNumbers, Exists, Published
<1>2. 0 \in 0..MaxVersion /\ 1..0 = {}
  OBVIOUS
<1>3. QED  BY <1>1, <1>2, RacedBoolean DEF Cat, Catalogue!Catalogue, Catalogue!Init

(* Transactions, statements and lost races amount to a catalogue that is   *)
(* appended to and published from one step at a time.                      *)
THEOREM CatalogueImplemented == Spec => ImplementsCatalogue
<1>1. Init => Inv /\ Cat /\ Catalogue!Init
  BY InitInv, InitCatalogued
<1>2. Inv /\ Cat /\ [Next]_vars => Inv' /\ Cat'
  BY NextInv, NextCatalogued, CatalogueKept
<1>3. Inv /\ Cat /\ [Next]_vars => [Catalogue!Next]_(Catalogue!vars)
  BY NextCatalogued
<1>4. QED  BY <1>1, <1>2, <1>3, PTL DEF Spec, ImplementsCatalogue, Catalogue!Spec

-----------------------------------------------------------------------------
(* Publishes wait for nobody but each other.                               *)

(* Only an open publish holds a lock.                                      *)
LocksOfOpen == \A r \in Rows : lock[r] # None => Open(lock[r])

LEMMA LocksOfOpenKept ==
  ASSUME Inv, LocksOfOpen, [Next]_vars
  PROVE  LocksOfOpen'
<1> USE DEF Inv
<1>1. ASSUME NEW p \in Publishers, \E v \in Versions : BeginPublish(p, v)
      PROVE  LocksOfOpen'
  <2>1. \A q \in Publishers : Open(q) => Open(q)'
    BY <1>1 DEF BeginPublish, Open, TypeOK
  <2>2. QED  BY <1>1, <2>1 DEF BeginPublish, LocksOfOpen, TypeOK
<1>2. ASSUME NEW p \in Publishers, NEW r \in Rows, Open(p), Open(p)', Acquire(p, r),
             \A q \in Publishers : q # p => publisher'[q] = publisher[q]
      PROVE  LocksOfOpen'
  <2>1. \A q \in Publishers : Open(q) => Open(q)'
    BY <1>2 DEF Open
  <2>2. \A o \in Rows : lock'[o] = IF o = r THEN p ELSE lock[o]
    BY <1>2 DEF Acquire, TypeOK
  <2>3. QED  BY <1>2, <2>1, <2>2 DEF LocksOfOpen, TypeOK
<1>3. ASSUME NEW p \in Publishers, NEW v \in Versions, ClearRow(p, v)
      PROVE  LocksOfOpen'
  <2>1. Open(p) /\ Open(p)' /\ Acquire(p, v)
    BY <1>3 DEF ClearRow, Open, TypeOK
  <2>2. \A q \in Publishers : q # p => publisher'[q] = publisher[q]
    BY <1>3 DEF ClearRow, TypeOK
  <2>3. QED  BY <1>2, <2>1, <2>2
<1>4. ASSUME NEW p \in Publishers, SetTarget(p)
      PROVE  LocksOfOpen'
  <2>1. Open(p) /\ Open(p)' /\ Acquire(p, publisher[p].target)
    BY <1>4 DEF SetTarget, Open, TypeOK
  <2>2. \A q \in Publishers : q # p => publisher'[q] = publisher[q]
    BY <1>4 DEF SetTarget, TypeOK
  <2>3. publisher[p].target \in Rows
    BY <2>1 DEF PublishInHand
  <2>4. QED  BY <1>2, <2>1, <2>2, <2>3
<1>5. ASSUME NEW p \in Publishers, ActivateWorkflow(p)
      PROVE  LocksOfOpen'
  <2>1. Open(p) /\ Open(p)' /\ Acquire(p, 0)
    BY <1>5 DEF ActivateWorkflow, Open, TypeOK
  <2>2. \A q \in Publishers : q # p => publisher'[q] = publisher[q]
    BY <1>5 DEF ActivateWorkflow, TypeOK
  <2>3. QED  BY <1>2, <2>1, <2>2
<1>6. ASSUME NEW p \in Publishers, Rollback(p) \/ Commit(p)
      PROVE  LocksOfOpen'
  <2>1. \A r \in Rows : lock'[r] = IF lock[r] = p THEN None ELSE lock[r]
    BY <1>6 DEF Rollback, Commit, Release
  <2>2. \A q \in Publishers : q # p => publisher'[q] = publisher[q]
    BY <1>6 DEF Rollback, Commit, TypeOK
  <2>3. QED  BY <2>1, <2>2 DEF LocksOfOpen, Open, TypeOK
<1>7. CASE UNCHANGED <<publisher, lock>>
  BY <1>7 DEF LocksOfOpen, Open
<1>8. QED
  BY <1>1, <1>3, <1>4, <1>5, <1>6, <1>7
  DEF Next, Creating, ReadNumber, InsertVersion, Publishing, BreakDeadlock,
      ReadActive, LookupPublished, Quiescent, vars

(* If none of the open publishes can go on, each waits for others of them: *)
(* together they are a deadlock.                                           *)
LEMMA OpenPublishesGoOn == Inv /\ LocksOfOpen => PublishesGoOn
<1> SUFFICES ASSUME Inv, LocksOfOpen, NEW p \in Publishers, Open(p),
                    \A q \in Publishers : Open(q) => ~CanGoOn(q)
             PROVE  Deadlocked(p)
  BY DEF PublishesGoOn
<1> DEFINE D == {q \in Publishers : Open(q)}
<1>1. ASSUME NEW q \in D
      PROVE  Stuck(q) /\ {lock[r] : r \in Needs(q)} \subseteq D
  <2>1. Open(q) /\ ~CanGoOn(q) /\ publisher[q].target \in Versions
    BY DEF Inv, PublishInHand
  <2>2. Needs(q) # {} /\ Needs(q) \subseteq Rows
    BY <2>1 DEF Open, CanGoOn, Needs, Inv, TypeOK
  <2>3. \A r \in Needs(q) : ~Free(q, r)
    BY <2>1 DEF CanGoOn
  <2>4. \A r \in Needs(q) : lock[r] \in D
    BY <2>2, <2>3 DEF Free, LocksOfOpen, Inv, TypeOK
  <2>5. QED  BY <2>2, <2>3, <2>4 DEF Stuck
<1>2. p \in D /\ D \in SUBSET Publishers
  OBVIOUS
<1>3. QED  BY <1>1, <1>2 DEF Deadlocked

(* No open publish waits for a lock nobody will give back.                 *)
THEOREM PublishesAlwaysGoOn == Spec => []PublishesGoOn
<1>1. Init => Inv /\ LocksOfOpen
  BY InitInv DEF Init, LocksOfOpen
<1>2. Inv /\ LocksOfOpen /\ [Next]_vars => Inv' /\ LocksOfOpen'
  BY NextInv, LocksOfOpenKept
<1>3. QED  BY <1>1, <1>2, OpenPublishesGoOn, PTL DEF Spec

(* Each of its steps brings a publish nearer to its end, and nobody else's *)
(* adds to what it still has to do: rows that are published after it has   *)
(* begun are none of its own.                                              *)
StatementsLeft(pc) ==
  CASE pc = "clear" -> 3 [] pc = "activate" -> 2 [] pc = "commit" -> 1 [] OTHER -> 0

Left(p) == Cardinality(publisher[p].todo) + StatementsLeft(publisher[p].pc)

PublishesComeNearer ==
  [][ \A p \in Publishers : Open(p) =>
        /\ Left(p)' <= Left(p)
        /\ Publishing(p) => Left(p)' < Left(p) ]_vars

LEMMA TodoFinite ==
  ASSUME Inv, NEW p \in Publishers
  PROVE  /\ IsFiniteSet(publisher[p].todo)
         /\ Cardinality(publisher[p].todo) \in Nat
         /\ \A v \in publisher[p].todo :
              Cardinality(publisher[p].todo \ {v}) = Cardinality(publisher[p].todo) - 1
<1>1. IsFiniteSet(Versions)
  BY FS_Interval
<1>2. publisher[p].todo \subseteq Versions
  BY DEF Inv, TypeOK
<1>3. IsFiniteSet(publisher[p].todo)
  BY <1>1, <1>2, FS_Subset
<1>4. QED  BY <1>3, FS_CardinalityType, FS_RemoveElement

(* A step of p brings it nearer to its end.                                *)
LEMMA PublishingNearer ==
  ASSUME Inv, NEW p \in Publishers, Publishing(p)
  PROVE  /\ Left(p)' < Left(p) /\ Left(p)' <= Left(p)
         /\ \A q \in Publishers : q # p => publisher'[q] = publisher[q]
<1> USE DEF Inv, Left, StatementsLeft
<1>1. /\ publisher[p].pc \in {"clear", "activate", "commit"}
      /\ Cardinality(publisher[p].todo) \in Nat
  BY TodoFinite DEF Publishing, ClearRow, SetTarget, ActivateWorkflow, Commit
<1>2. ASSUME NEW v \in Versions, ClearRow(p, v)
      PROVE  /\ Left(p)' < Left(p) /\ Left(p)' <= Left(p)
             /\ \A q \in Publishers : q # p => publisher'[q] = publisher[q]
  <2>1. /\ publisher'[p].todo = publisher[p].todo \ {v} /\ publisher'[p].pc = "clear"
        /\ publisher[p].pc = "clear" /\ v \in publisher[p].todo
        /\ \A q \in Publishers : q # p => publisher'[q] = publisher[q]
    BY <1>2 DEF ClearRow, TypeOK
  <2>2. Cardinality(publisher[p].todo \ {v}) = Cardinality(publisher[p].todo) - 1
    BY <2>1, TodoFinite
  <2>3. QED  BY <1>1, <2>1, <2>2
<1>3. ASSUME NEW pc \in {"activate", "commit", "done"},
             publisher' = [publisher EXCEPT ![p].pc = pc],
             StatementsLeft(pc) < StatementsLeft(publisher[p].pc)
      PROVE  /\ Left(p)' < Left(p) /\ Left(p)' <= Left(p)
             /\ \A q \in Publishers : q # p => publisher'[q] = publisher[q]
  <2>1. /\ publisher'[p].todo = publisher[p].todo /\ publisher'[p].pc = pc
        /\ \A q \in Publishers : q # p => publisher'[q] = publisher[q]
    BY <1>3 DEF TypeOK
  <2>2. QED  BY <1>1, <1>3, <2>1
<1>4. QED
  BY <1>2, <1>3 DEF Publishing, SetTarget, ActivateWorkflow, Commit

(* Any other step leaves what an open publish has to do, or ends it.       *)
LEMMA OthersNoFarther ==
  ASSUME Inv, NEW p \in Publishers, Open(p), [Next]_vars
  PROVE  Left(p)' <= Left(p)
<1> USE DEF Inv
<1>1. Cardinality(publisher[p].todo) \in Nat /\ StatementsLeft(publisher[p].pc) \in Nat
  BY TodoFinite DEF Open, StatementsLeft
<1>2. ASSUME publisher'[p].todo = publisher[p].todo, publisher'[p].pc = publisher[p].pc
      PROVE  Left(p)' <= Left(p)
  BY <1>1, <1>2 DEF Left, StatementsLeft
<1>3. ASSUME NEW q \in Publishers, NEW v \in Versions, BeginPublish(q, v)
      PROVE  Left(p)' <= Left(p)
  <2>1. p # q
    BY <1>3 DEF BeginPublish, Open
  <2>2. publisher'[p].todo = publisher[p].todo /\ publisher'[p].pc = publisher[p].pc
    BY <1>3, <2>1 DEF BeginPublish, TypeOK
  <2>3. QED  BY <1>2, <2>2
<1>4. ASSUME NEW q \in Publishers, Publishing(q)
      PROVE  Left(p)' <= Left(p)
  <2>1. CASE q = p
    BY <1>4, <2>1, PublishingNearer
  <2>2. CASE q # p
    <3>1. publisher'[p] = publisher[p]
      BY <1>4, <2>2, PublishingNearer
    <3>2. QED  BY <1>2, <3>1
  <2>3. QED  BY <2>1, <2>2
<1>5. ASSUME NEW q \in Publishers, Rollback(q)
      PROVE  Left(p)' <= Left(p)
  <2>1. CASE q = p
    <3>1. publisher'[p].todo = publisher[p].todo /\ publisher'[p].pc = "failed"
      BY <1>5, <2>1 DEF Rollback, TypeOK
    <3>2. QED  BY <1>1, <3>1 DEF Left, StatementsLeft
  <2>2. CASE q # p
    <3>1. publisher'[p] = publisher[p]
      BY <1>5, <2>2 DEF Rollback, TypeOK
    <3>2. QED  BY <1>2, <3>1
  <2>3. QED  BY <2>1, <2>2
<1>6. CASE UNCHANGED publisher
  BY <1>2, <1>6
<1>7. QED
  BY <1>3, <1>4, <1>5, <1>6
  DEF Next, Creating, ReadNumber, InsertVersion, BreakDeadlock, ReadActive,
      LookupPublished, Quiescent, vars

(* An open publish takes finitely many steps, as many as it has rows to    *)
(* clear and statements to make, whatever other publishes do meanwhile.    *)
THEOREM PublishesAlwaysComeNearer == Spec => PublishesComeNearer
<1>1. Inv /\ [Next]_vars =>
        [ \A p \in Publishers : Open(p) =>
            /\ Left(p)' <= Left(p)
            /\ Publishing(p) => Left(p)' < Left(p) ]_vars
  BY OthersNoFarther, PublishingNearer
<1>2. QED  BY <1>1, AlwaysInv, PTL DEF Spec, PublishesComeNearer
=============================================================================
