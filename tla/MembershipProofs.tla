-------------------------- MODULE MembershipProofs --------------------------
(***************************************************************************)
(* Proofs about Membership, for any number of users, organizations,        *)
(* invitations and requests.  An organization that somebody registered     *)
(* with is the only kind anybody can act for, and whoever acts for it is   *)
(* its founder, whose membership of it nothing but its own request changes.*)
(***************************************************************************)
EXTENDS Membership, TLAPS

-----------------------------------------------------------------------------
(* The inductive invariant.                                                *)

(* The founder of o registered with o.                                     *)
IsHome(o) == founder[o] # None /\ home[founder[o]] = o

(* Whoever has registered founded its home, and this is its first          *)
(* membership; nobody else has a membership.                               *)
FirstIsHome(u) ==
  /\ founder[home[u]] = u
  /\ IsMember(u, home[u])
  /\ \A o \in Orgs : o # home[u] /\ IsMember(u, o) =>
       member[u][home[u]].at < member[u][o].at

HomesFirst ==
  \A u \in Users :
    IF home[u] = None THEN \A o \in Orgs : ~IsMember(u, o) ELSE FirstIsHome(u)

InvitationsFromHomes ==
  \A i \in Invitations : invitation[i] # NoInvitation => IsHome(invitation[i].org)

(* What an open request has seen, or its token vouched for.                *)
InviterOK(q) == request[q].pc = "create" => IsHome(request[q].org)

AccepterOK(q) == IsAccepting(q) =>
  /\ home[request[q].user] # None
  /\ invitation[request[q].token] # NoInvitation
  /\ request[q].pc # "membership" => TargetOrg(q) # home[request[q].user]

ManagerOK(q) == request[q].pc \in {"update", "delete"} =>
  /\ home[request[q].actor] = request[q].org
  /\ request[q].pc = "delete" => request[q].target # request[q].actor

RequestsOK == \A q \in Handlers : InviterOK(q) /\ AccepterOK(q) /\ ManagerOK(q)

FoundersOwn ==
  \A o \in Orgs : founder[o] # None =>
    o \in selfDemoted \/ member[founder[o]][o].role = "OWNER"

(* What nothing has interfered with.                                       *)
LoneAccepters ==
  \A q \in Handlers : IsAccepting(q) /\ request[q].alone =>
    /\ \A p \in Handlers \ {q} : IsAccepting(p) =>
         request[p].user # request[q].user /\ request[p].token # request[q].token
    /\ invitation[request[q].token].state # "accepted"
    /\ request[q].pc # "membership" => ~IsMember(request[q].user, TargetOrg(q))

LoneInviters ==
  \A q \in Handlers : request[q].pc = "create" =>
    /\ \A i \in Pending(request[q].org, request[q].email) : invitation[i].overlapped
    /\ request[q].alone =>
         /\ Pending(request[q].org, request[q].email) = {}
         /\ InvitersOf(request[q].org, request[q].email) = {q}

Inv ==
  /\ TypeOK
  /\ HomesFirst
  /\ TokensForHome
  /\ InvitationsFromHomes
  /\ RequestsOK
  /\ FoundersOwn
  /\ LoneAccepters
  /\ LoneInviters
  /\ OnePendingUnlessOverlap

-----------------------------------------------------------------------------
(* Lemmas.                                                                 *)

(* Accepting, inviting and managing requests have the fields of their kind.*)
LEMMA Shapes ==
  ASSUME TypeOK, NEW q \in Handlers
  PROVE  /\ IsAccepting(q) => request[q] \in Accepting
         /\ request[q].pc = "create" => request[q] \in Inviting
         /\ request[q].pc \in {"update", "delete"} => request[q] \in Managing
         /\ request[q].pc = "update" => request[q].role \in Granted
  BY DEF TypeOK, Request, Idle, Inviting, Accepting, Managing, IsAccepting

(* A member's row is of type Member, and so is later than nothing.         *)
LEMMA MemberRow ==
  ASSUME TypeOK, NEW u \in Users, NEW o \in Orgs
  PROVE  /\ member[u][o].at \in Nat
         /\ IsMember(u, o) => member[u][o] \in Member /\ member[u][o].at \in 1..MaxDate
         /\ member[u][o].role = "OWNER" => IsMember(u, o)
  BY MembershipAssumption DEF TypeOK, IsMember, NoMember, Member, Dates

(* Joining changes one row, and gives it a date after all others.          *)
LEMMA JoinLater ==
  ASSUME TypeOK, NEW u \in Users, NEW o \in Orgs, NEW role \in Roles, Join(u, o, role)
  PROVE  \E t \in Dates :
           /\ \A p \in Orgs : member[u][p].at < t
           /\ member' = [member EXCEPT ![u][o] = [role |-> role, at |-> t]]
           /\ member' \in [Users -> [Orgs -> Member \cup {NoMember}]]
           /\ member'[u][o] = [role |-> role, at |-> t]
           /\ member'[u][o] # NoMember
           /\ \A v \in Users, p \in Orgs : v # u \/ p # o => member'[v][p] = member[v][p]
<1>1. PICK t \in Dates :
        /\ IsLater(u, t)
        /\ member' = [member EXCEPT ![u][o] = [role |-> role, at |-> t]]
  BY DEF Join
<1>2. [role |-> role, at |-> t] \in Member /\ [role |-> role, at |-> t] # NoMember
  BY DEF Member, NoMember, Dates
<1>3. member \in [Users -> [Orgs -> Member \cup {NoMember}]]
  BY DEF TypeOK
<1> QED
  BY <1>1, <1>2, <1>3 DEF IsLater

(* Nobody founds an organization twice or registers twice, so that what    *)
(* was a home remains one.                                                 *)
Founding ==
  /\ \A o \in Orgs : founder[o] # None => founder'[o] = founder[o]
  /\ \A u \in Users : home[u] # None => home'[u] = home[u]

LEMMA HomesRemain ==
  ASSUME TypeOK, Founding, NEW o \in Orgs, IsHome(o)
  PROVE  IsHome(o)'
  BY MembershipAssumption DEF TypeOK, Founding, IsHome

(* What is only about rows and tokens stands while these do.               *)
LEMMA RowsKept ==
  ASSUME Inv, UNCHANGED <<rows, tokens, selfDemoted>>
  PROVE  /\ HomesFirst' /\ TokensForHome' /\ InvitationsFromHomes' /\ FoundersOwn'
         /\ OnePendingUnlessOverlap'
<1>1. HomesFirst'
  BY DEF Inv, rows, HomesFirst, FirstIsHome, IsMember
<1>2. TokensForHome'
  BY DEF Inv, rows, TokensForHome
<1>3. InvitationsFromHomes'
  BY DEF Inv, rows, InvitationsFromHomes, IsHome
<1>4. FoundersOwn'
  BY DEF Inv, rows, FoundersOwn
<1>5. OnePendingUnlessOverlap'
  BY DEF Inv, rows, OnePendingUnlessOverlap
<1> QED
  BY <1>1, <1>2, <1>3, <1>4, <1>5

(* Requests may end, and stand while the invitations do and nobody joins.  *)
LEMMA RequestsKept ==
  ASSUME Inv, Founding, UNCHANGED invitation,
         \A q \in Handlers : request'[q] \in {request[q], Idle},
         \A u \in Users, o \in Orgs :
           IsHome(o) /\ ~IsMember(u, o) => ~IsMember(u, o)'
  PROVE  RequestsOK' /\ LoneAccepters' /\ LoneInviters'
<1> USE DEF Inv
<1>1. RequestsOK'
  <2> SUFFICES ASSUME NEW q \in Handlers
               PROVE  InviterOK(q)' /\ AccepterOK(q)' /\ ManagerOK(q)'
    BY DEF RequestsOK
  <2>1. InviterOK(q)'
    BY Shapes, HomesRemain DEF RequestsOK, InviterOK, Inviting, Idle
  <2>2. AccepterOK(q)'
    BY Shapes DEF RequestsOK, AccepterOK, IsAccepting, TargetOrg, Founding, Accepting, Idle
  <2>3. ManagerOK(q)'
    BY Shapes, MembershipAssumption
    DEF RequestsOK, ManagerOK, Managing, Founding, Idle
  <2> QED
    BY <2>1, <2>2, <2>3
<1>2. LoneAccepters'
  <2> SUFFICES ASSUME NEW q \in Handlers, IsAccepting(q), request[q].alone,
                      request'[q] = request[q], request[q].pc # "membership"
               PROVE  ~IsMember(request[q].user, TargetOrg(q))'
    BY DEF LoneAccepters, IsAccepting, Idle, TargetOrg
  <2>1. /\ request[q].user \in Users /\ request[q].token \in Invitations
        /\ invitation[request[q].token] # NoInvitation
    BY Shapes DEF RequestsOK, AccepterOK, Accepting
  <2>2. TargetOrg(q) \in Orgs /\ IsHome(TargetOrg(q))
    BY <2>1 DEF TypeOK, Invitation, TargetOrg, InvitationsFromHomes
  <2>3. ~IsMember(request[q].user, TargetOrg(q))
    BY DEF LoneAccepters
  <2> QED
    BY <2>1, <2>2, <2>3 DEF TargetOrg, IsMember
<1>3. LoneInviters'
  BY DEF LoneInviters, Pending, InvitersOf, Idle
<1> QED
  BY <1>1, <1>2, <1>3

(* An ended request ends as any other does.                                *)
LEMMA Ending ==
  ASSUME TypeOK, NEW q \in Handlers, Answer(q)
  PROVE  /\ request' \in [Handlers -> Request] /\ begun' \in 0..MaxRequests
         /\ request'[q] = Idle
         /\ \A p \in Handlers : p # q => request'[p] = request[p]
         /\ \A p \in Handlers : request'[p] \in {request[p], Idle}
  BY DEF TypeOK, Answer, Proceed, Request

-----------------------------------------------------------------------------
(* Each action preserves the invariant.                                    *)

LEMMA CreateOrganizationInv ==
  ASSUME Inv, NEW u \in Users, NEW o \in Orgs, CreateOrganization(u, o),
         home' = home \/ (home[u] = None /\ home' = [home EXCEPT ![u] = o]),
         home'[u] # None,
         UNCHANGED <<invitation, request, begun, selfDemoted>>
  PROVE  /\ founder' \in [Orgs -> Users \cup {None}]
         /\ home' \in [Users -> Orgs \cup {None}]
         /\ member' \in [Users -> [Orgs -> Member \cup {NoMember}]]
         /\ HomesFirst' /\ InvitationsFromHomes' /\ RequestsOK' /\ FoundersOwn'
         /\ LoneAccepters' /\ LoneInviters' /\ OnePendingUnlessOverlap'
<1> USE DEF Inv
<1>1. PICK t \in Dates :
        /\ \A p \in Orgs : member[u][p].at < t
        /\ member' \in [Users -> [Orgs -> Member \cup {NoMember}]]
        /\ member'[u][o] = [role |-> "OWNER", at |-> t]
        /\ member'[u][o] # NoMember
        /\ \A v \in Users, p \in Orgs : v # u \/ p # o => member'[v][p] = member[v][p]
  <2>1. Join(u, o, "OWNER") /\ "OWNER" \in Roles /\ TypeOK
    BY DEF CreateOrganization, Roles
  <2>2. \E t \in Dates :
          /\ \A p \in Orgs : member[u][p].at < t
          /\ member' = [member EXCEPT ![u][o] = [role |-> "OWNER", at |-> t]]
          /\ member' \in [Users -> [Orgs -> Member \cup {NoMember}]]
          /\ member'[u][o] = [role |-> "OWNER", at |-> t]
          /\ member'[u][o] # NoMember
          /\ \A v \in Users, p \in Orgs : v # u \/ p # o => member'[v][p] = member[v][p]
    BY <2>1, JoinLater, Zenon
  <2> QED
    BY <2>2
<1>2. founder[o] = None /\ founder' = [founder EXCEPT ![o] = u]
  BY DEF CreateOrganization
<1>3. /\ founder' \in [Orgs -> Users \cup {None}]
      /\ home' \in [Users -> Orgs \cup {None}]
  BY <1>2 DEF TypeOK
<1>4. Founding
  BY <1>2 DEF TypeOK, Founding
<1>5. ~IsHome(o)
  BY <1>2 DEF IsHome
<1>6. HomesFirst'
  <2> SUFFICES ASSUME NEW v \in Users
               PROVE  IF home'[v] = None THEN \A p \in Orgs : ~IsMember(v, p)'
                                         ELSE FirstIsHome(v)'
    BY DEF HomesFirst
  <2>1. CASE v # u
    BY <1>1, <1>2, <1>3, <2>1, MembershipAssumption
    DEF TypeOK, HomesFirst, FirstIsHome, IsMember
  <2>2. CASE v = u /\ home[u] = None
    BY <1>1, <1>2, <1>3, <2>2, MembershipAssumption
    DEF TypeOK, HomesFirst, FirstIsHome, IsMember
  <2>3. CASE v = u /\ home[u] # None
    <3>1. home[u] \in Orgs /\ FirstIsHome(u)
      BY <2>3 DEF TypeOK, HomesFirst
    <3>2. home'[u] = home[u]
      BY <2>3
    <3>3. home[u] # o
      BY <1>2, <3>1, MembershipAssumption DEF FirstIsHome
    <3>4. founder'[home[u]] = u /\ member'[u][home[u]] = member[u][home[u]]
      BY <1>1, <1>2, <3>1, <3>3 DEF TypeOK, FirstIsHome
    <3>5. ASSUME NEW p \in Orgs, p # home[u], member'[u][p] # NoMember
          PROVE  member'[u][home[u]].at < member'[u][p].at
      <4>1. CASE p = o
        BY <1>1, <3>1, <3>4, <4>1
      <4>2. CASE p # o
        BY <1>1, <3>1, <3>4, <3>5, <4>2 DEF FirstIsHome, IsMember
      <4> QED
        BY <4>1, <4>2
    <3> QED
      BY <2>3, <3>1, <3>2, <3>4, <3>5 DEF FirstIsHome, IsMember
  <2> QED
    BY <2>1, <2>2, <2>3
<1>7. InvitationsFromHomes'
  BY <1>4, HomesRemain DEF InvitationsFromHomes, TypeOK, Invitation
<1>8. RequestsOK' /\ LoneAccepters' /\ LoneInviters'
  BY <1>1, <1>4, <1>5, RequestsKept DEF IsMember
<1>9. FoundersOwn'
  BY <1>1, <1>2, <1>3 DEF FoundersOwn, TypeOK
<1>10. OnePendingUnlessOverlap'
  BY DEF OnePendingUnlessOverlap
<1> QED
  BY <1>1, <1>3, <1>6, <1>7, <1>8, <1>9, <1>10

LEMMA RegisterInv ==
  ASSUME Inv, NEW u \in Users, NEW o \in Orgs, Register(u, o)
  PROVE  Inv'
<1> USE DEF Inv, Register, CreateUserWithOrganization
<1>1. home'[u] = o /\ home'[u] # None
  BY MembershipAssumption DEF TypeOK
<1>2. tokens' \in [Users -> SUBSET Token]
  BY DEF TypeOK, Issue, Token, Roles
<1>3. TokensForHome'
  BY <1>1, MembershipAssumption DEF TypeOK, TokensForHome, Issue, Token
<1> QED
  BY <1>1, <1>2, <1>3, CreateOrganizationInv DEF TypeOK

LEMMA CreateOrgInv ==
  ASSUME Inv, NEW u \in Users, NEW o \in Orgs, CreateOrg(u, o)
  PROVE  Inv'
<1> USE DEF Inv, CreateOrg
<1>1. home[u] # None
  BY MembershipAssumption DEF TypeOK, TokensForHome, Token, Authenticated
<1>2. TokensForHome'
  BY DEF TokensForHome
<1> QED
  BY <1>1, <1>2, CreateOrganizationInv DEF TypeOK

LEMMA LoginInv ==
  ASSUME Inv, NEW u \in Users, NEW o \in Orgs, Login(u, o)
  PROVE  Inv'
<1> USE DEF Inv, Login
<1>1. o = home[u]
  <2>1. home[u] # None /\ home[u] \in Orgs
    BY DEF IsFirst, HomesFirst, TypeOK
  <2>2. member[u][o].at <= member[u][home[u]].at
    BY <2>1 DEF IsFirst, HomesFirst, FirstIsHome
  <2> QED
    BY <2>1, <2>2, MemberRow DEF IsFirst, HomesFirst, FirstIsHome
<1>2. TokensForHome'
  BY <1>1 DEF TypeOK, TokensForHome, Issue, rows
<1>3. tokens' \in [Users -> SUBSET Token]
  BY MemberRow DEF TypeOK, Issue, Token, Member, IsFirst
<1>4. HomesFirst' /\ InvitationsFromHomes' /\ FoundersOwn' /\ OnePendingUnlessOverlap'
  BY DEF rows, HomesFirst, FirstIsHome, IsMember, InvitationsFromHomes, IsHome,
         FoundersOwn, OnePendingUnlessOverlap
<1>5. RequestsOK' /\ LoneAccepters' /\ LoneInviters'
  BY RequestsKept DEF rows, Founding, IsMember
<1> QED
  BY <1>2, <1>3, <1>4, <1>5 DEF TypeOK, rows

LEMMA FindPendingInv ==
  ASSUME Inv, NEW q \in Handlers, NEW o \in Orgs, NEW e \in Emails, NEW role \in Granted,
         FindPending(q, o, e, role)
  PROVE  Inv'
<1> DEFINE new == [pc |-> "create", org |-> o, email |-> e, role |-> role, alone |-> TRUE]
<1> USE DEF Inv
<1>1. /\ UNCHANGED <<rows, tokens, selfDemoted>> /\ request[q] = Idle
      /\ begun' = begun + 1 /\ begun < MaxRequests
  BY DEF FindPending, BeginInvite, BeginAmong, Begin
<1>2. /\ request' = [p \in Handlers |->
           IF p = q /\ InvitersOf(o, e) = {} THEN new
           ELSE IF p = q THEN Overlapped(new)
           ELSE IF p \in InvitersOf(o, e) THEN Overlapped(request[p])
           ELSE request[p]]
  BY DEF FindPending, BeginInvite, BeginAmong
<1>3. IsHome(o)
  BY MembershipAssumption
  DEF FindPending, BeginInvite, MayActFor, TypeOK, TokensForHome, Token, HomesFirst,
      FirstIsHome, IsHome
<1>4. new \in Inviting /\ Overlapped(new) \in Inviting
  BY DEF Inviting, Overlapped
<1>5. \A p \in Handlers : p # q =>
        /\ p \in InvitersOf(o, e) => /\ request'[p] \in Inviting
                                    /\ request'[p].pc = "create" /\ request[p].pc = "create"
                                    /\ request'[p].org = o /\ request'[p].email = e
                                    /\ request'[p].alone = FALSE
        /\ p \notin InvitersOf(o, e) => request'[p] = request[p]
  BY <1>2, Shapes DEF InvitersOf, Inviting, Overlapped
<1>6. /\ request'[q] \in Inviting /\ request'[q].pc = "create"
      /\ request'[q].org = o /\ request'[q].email = e
      /\ InvitersOf(o, e) # {} => request'[q].alone = FALSE
  BY <1>2, <1>4 DEF Overlapped
<1>7. TypeOK'
  <2>1. request' \in [Handlers -> Request]
    BY <1>2, <1>4, <1>5, <1>6 DEF TypeOK, Request
  <2> QED
    BY <1>1, <2>1, MembershipAssumption DEF TypeOK, rows
<1>8. RequestsOK'
  <2> SUFFICES ASSUME NEW p \in Handlers
               PROVE  InviterOK(p)' /\ AccepterOK(p)' /\ ManagerOK(p)'
    BY DEF RequestsOK
  <2>1. CASE p # q /\ p \notin InvitersOf(o, e)
    <3>1. request'[p] = request[p]
      BY <1>5, <2>1
    <3>2. InviterOK(p)'
      BY <1>1, <3>1 DEF RequestsOK, InviterOK, IsHome, rows
    <3>3. AccepterOK(p)'
      BY <1>1, <3>1 DEF RequestsOK, AccepterOK, IsAccepting, TargetOrg, rows
    <3>4. ManagerOK(p)'
      BY <1>1, <3>1 DEF RequestsOK, ManagerOK, rows
    <3> QED
      BY <3>2, <3>3, <3>4
  <2>2. CASE p = q \/ p \in InvitersOf(o, e)
    <3>1. request'[p].pc = "create" /\ request'[p].org = o
      BY <1>5, <1>6, <2>2
    <3> QED
      BY <1>1, <1>3, <3>1
      DEF InviterOK, AccepterOK, ManagerOK, IsAccepting, IsHome, rows
  <2> QED
    BY <2>1, <2>2
<1>9. LoneAccepters'
  <2>1. \A p \in Handlers : IsAccepting(p)' => request'[p] = request[p] /\ IsAccepting(p)
    BY <1>5, <1>6 DEF IsAccepting
  <2> QED
    BY <1>1, <2>1 DEF LoneAccepters, IsAccepting, TargetOrg, IsMember, rows
<1>10. LoneInviters'
  <2> SUFFICES ASSUME NEW p \in Handlers, request'[p].pc = "create"
               PROVE  /\ \A i \in Invitations :
                            /\ invitation[i].state = "pending"
                            /\ invitation[i].org = request'[p].org
                            /\ invitation[i].email = request'[p].email
                            => invitation[i].overlapped /\ ~request'[p].alone
                      /\ request'[p].alone =>
                           \A r \in Handlers :
                             /\ request'[r].pc = "create"
                             /\ request'[r].org = request'[p].org
                             /\ request'[r].email = request'[p].email
                             => r = p
    BY <1>1 DEF LoneInviters, Pending, InvitersOf, rows
  <2>1. ASSUME NEW i \in Invitations, invitation[i].state = "pending",
               invitation[i].org = o, invitation[i].email = e
        PROVE  FALSE
    <3>1. i \in Pending(o, e)
      BY <2>1 DEF Pending
    <3> QED
      BY <3>1 DEF FindPending
  <2>2. CASE p = q
    <3>1. ASSUME request'[p].alone, NEW r \in Handlers, r # p,
                 request'[r].pc = "create", request'[r].org = o, request'[r].email = e
          PROVE  FALSE
      <4>1. InvitersOf(o, e) = {}
        BY <1>6, <2>2, <3>1
      <4>2. request'[r] = request[r]
        BY <1>5, <2>2, <3>1, <4>1
      <4> QED
        BY <3>1, <4>1, <4>2 DEF InvitersOf
    <3> QED
      BY <1>6, <2>1, <2>2, <3>1
  <2>3. CASE p # q /\ p \in InvitersOf(o, e)
    BY <1>5, <2>1, <2>3
  <2>4. CASE p # q /\ p \notin InvitersOf(o, e)
    <3>1. request'[p] = request[p] /\ request[p].pc = "create"
      BY <1>5, <2>4
    <3>2. request[p].org # o \/ request[p].email # e
      BY <2>4, <3>1 DEF InvitersOf
    <3>3. \A r \in Handlers : /\ request'[r].pc = "create"
                             /\ request'[r].org = request[p].org
                             /\ request'[r].email = request[p].email
                             => request'[r] = request[r]
      BY <1>5, <1>6, <3>2
    <3> QED
      BY <3>1, <3>3 DEF LoneInviters, Pending, InvitersOf
  <2> QED
    BY <2>2, <2>3, <2>4
<1> QED
  BY <1>1, <1>7, <1>8, <1>9, <1>10, RowsKept

LEMMA CreateInvitationInv ==
  ASSUME Inv, NEW q \in Handlers, NEW i \in Invitations, CreateInvitation(q, i)
  PROVE  Inv'
<1> DEFINE new == [state |-> "pending", org |-> request[q].org, email |-> request[q].email,
                   role |-> request[q].role, overlapped |-> ~request[q].alone]
<1> USE DEF Inv
<1>1. /\ request[q].pc = "create" /\ invitation[i] = NoInvitation
      /\ invitation' = [invitation EXCEPT ![i] = new]
      /\ UNCHANGED <<founder, home, member, tokens, selfDemoted>>
  BY DEF CreateInvitation
<1>2. /\ request' \in [Handlers -> Request] /\ begun' \in 0..MaxRequests
      /\ request'[q] = Idle
      /\ \A p \in Handlers : p # q => request'[p] = request[p]
  BY Ending DEF CreateInvitation
<1>3. request[q] \in Inviting
  BY <1>1, Shapes
<1>4. new \in Invitation /\ new # NoInvitation
  BY <1>3 DEF Inviting, Invitation, NoInvitation
<1>5. /\ invitation'[i] = new
      /\ \A j \in Invitations : j # i => invitation'[j] = invitation[j]
      /\ invitation' \in [Invitations -> Invitation]
  BY <1>1, <1>4 DEF TypeOK
<1>6. TypeOK'
  BY <1>1, <1>2, <1>5 DEF TypeOK
<1>7. HomesFirst' /\ TokensForHome' /\ FoundersOwn'
  BY <1>1 DEF HomesFirst, FirstIsHome, IsMember, TokensForHome, FoundersOwn
<1>8. InvitationsFromHomes'
  BY <1>1, <1>5 DEF InvitationsFromHomes, RequestsOK, InviterOK, IsHome
<1>9. RequestsOK'
  <2> SUFFICES ASSUME NEW p \in Handlers, p # q
               PROVE  InviterOK(p)' /\ AccepterOK(p)' /\ ManagerOK(p)'
    BY <1>2 DEF RequestsOK, InviterOK, AccepterOK, ManagerOK, IsAccepting, Idle
  <2>1. InviterOK(p)' /\ ManagerOK(p)'
    BY <1>1, <1>2 DEF RequestsOK, InviterOK, ManagerOK, IsHome
  <2>2. AccepterOK(p)'
    BY <1>1, <1>2, <1>4, <1>5, Shapes
    DEF RequestsOK, AccepterOK, IsAccepting, TargetOrg, Accepting
  <2> QED
    BY <2>1, <2>2
<1>10. LoneAccepters'
  <2> SUFFICES ASSUME NEW p \in Handlers, p # q, IsAccepting(p), request[p].alone
               PROVE  /\ \A r \in Handlers \ {p} : IsAccepting(r)' =>
                           /\ request'[r].user # request'[p].user
                           /\ request'[r].token # request'[p].token
                      /\ invitation'[request'[p].token].state # "accepted"
                      /\ request'[p].pc # "membership" =>
                           ~IsMember(request[p].user, TargetOrg(p))'
    BY <1>2 DEF LoneAccepters, IsAccepting, Idle
  <2>1. request[p].token \in Invitations /\ request[p].token # i
    BY <1>1, Shapes DEF RequestsOK, AccepterOK, Accepting
  <2>2. request'[p] = request[p] /\ TargetOrg(p)' = TargetOrg(p)
    BY <1>2, <1>5, <2>1 DEF TargetOrg
  <2> QED
    BY <1>1, <1>2, <1>5, <2>1, <2>2 DEF LoneAccepters, IsAccepting, IsMember, Idle
<1>11. LoneInviters'
  <2> SUFFICES ASSUME NEW p \in Handlers, p # q, request[p].pc = "create"
               PROVE  /\ \A j \in Pending(request[p].org, request[p].email)' :
                            invitation'[j].overlapped
                      /\ request[p].alone =>
                           /\ Pending(request[p].org, request[p].email)' = {}
                           /\ InvitersOf(request[p].org, request[p].email)' = {p}
    BY <1>2 DEF LoneInviters, Idle
  <2>1. CASE request[q].org = request[p].org /\ request[q].email = request[p].email
    <3>1. q \in InvitersOf(request[p].org, request[p].email)
      BY <1>1, <2>1 DEF InvitersOf
    <3>2. p \in InvitersOf(request[q].org, request[q].email)
      BY <2>1 DEF InvitersOf
    <3>3. ~request[p].alone /\ ~request[q].alone
      <4>1. \A r, s \in Handlers :
              /\ request[r].pc = "create" /\ request[r].alone
              /\ s \in InvitersOf(request[r].org, request[r].email)
              => s = r
        BY Zenon DEF LoneInviters
      <4>2. request[q].pc = "create" /\ request[p].pc = "create" /\ p # q
        BY <1>1
      <4>3. ASSUME request[p].alone PROVE FALSE
        BY <3>1, <4>1, <4>2, <4>3
      <4>4. ASSUME request[q].alone PROVE FALSE
        BY <3>2, <4>1, <4>2, <4>4
      <4> QED
        BY <4>3, <4>4
    <3>4. ASSUME NEW j \in Invitations, j \in Pending(request[p].org, request[p].email)'
          PROVE  invitation'[j].overlapped
      <4>1. CASE j = i
        <5>1. request[q].alone = FALSE
          BY <1>3, <3>3 DEF Inviting
        <5>2. new.overlapped = TRUE
          BY <5>1
        <5> QED
          BY <1>5, <4>1, <5>2
      <4>2. CASE j # i
        BY <1>2, <1>5, <3>4, <4>2 DEF LoneInviters, Pending
      <4> QED
        BY <4>1, <4>2
    <3> QED
      BY <3>3, <3>4 DEF Pending
  <2>2. CASE request[q].org # request[p].org \/ request[q].email # request[p].email
    <3>1. Pending(request[p].org, request[p].email)'
            = Pending(request[p].org, request[p].email)
      BY <1>1, <1>2, <1>5, <2>2 DEF Pending, NoInvitation
    <3>2. i \notin Pending(request[p].org, request[p].email)
      BY <1>1 DEF Pending, NoInvitation
    <3>3. InvitersOf(request[p].org, request[p].email)'
            = InvitersOf(request[p].org, request[p].email)
      BY <1>1, <1>2, <2>2 DEF InvitersOf, Idle
    <3> QED
      BY <1>5, <3>1, <3>2, <3>3 DEF LoneInviters, Pending
  <2> QED
    BY <2>1, <2>2
<1>12. OnePendingUnlessOverlap'
  <2>1. \A j \in Invitations :
          /\ invitation[j].state = "pending" /\ invitation[j].org = new.org
          /\ invitation[j].email = new.email
          => invitation[j].overlapped /\ new.overlapped
    BY <1>1 DEF LoneInviters, Pending
  <2> QED
    BY <1>5, <2>1 DEF OnePendingUnlessOverlap
<1> QED
  BY <1>6, <1>7, <1>8, <1>9, <1>10, <1>11, <1>12

LEMMA ExpireInv ==
  ASSUME Inv, NEW i \in Invitations, Expire(i)
  PROVE  Inv'
<1> USE DEF Inv
<1>1. /\ invitation[i].state = "pending"
      /\ invitation' = [invitation EXCEPT ![i].state = "expired"]
      /\ UNCHANGED <<founder, home, member, tokens, request, begun, selfDemoted>>
  BY DEF Expire
<1>2. invitation[i] # NoInvitation /\ invitation[i] \in Invitation
  BY <1>1 DEF NoInvitation, TypeOK
<1>3. /\ invitation' \in [Invitations -> Invitation]
      /\ \A j \in Invitations :
           /\ invitation'[j].state # "pending" => invitation'[j].state = "expired"
                                                \/ invitation'[j] = invitation[j]
           /\ invitation'[j].state = "pending" => invitation'[j] = invitation[j]
           /\ invitation'[j].org = invitation[j].org
           /\ invitation'[j] = NoInvitation <=> invitation[j] = NoInvitation
  BY <1>1, <1>2 DEF TypeOK, Invitation, NoInvitation
<1>4. TypeOK'
  BY <1>1, <1>3 DEF TypeOK
<1>5. HomesFirst' /\ TokensForHome' /\ FoundersOwn'
  BY <1>1 DEF HomesFirst, FirstIsHome, IsMember, TokensForHome, FoundersOwn
<1>6. InvitationsFromHomes'
  BY <1>1, <1>3 DEF InvitationsFromHomes, IsHome
<1>7. \A q \in Handlers : IsAccepting(q) =>
        request[q].token \in Invitations /\ TargetOrg(q)' = TargetOrg(q)
  BY <1>1, <1>3, Shapes DEF TargetOrg, Accepting
<1>8. RequestsOK'
  BY <1>1, <1>3, <1>7
  DEF RequestsOK, InviterOK, AccepterOK, ManagerOK, IsAccepting, IsHome
<1>9. LoneAccepters'
  BY <1>1, <1>3, <1>7 DEF LoneAccepters, IsAccepting, IsMember
<1>10. LoneInviters'
  BY <1>1, <1>3 DEF LoneInviters, Pending, InvitersOf
<1>11. OnePendingUnlessOverlap'
  BY <1>3 DEF OnePendingUnlessOverlap
<1> QED
  BY <1>4, <1>5, <1>6, <1>8, <1>9, <1>10, <1>11

(* updateRole and removeMemberHandler begin alike.                         *)
LEMMA BeginManageInv ==
  ASSUME Inv, NEW q \in Handlers, NEW pc \in {"update", "delete"}, NEW u \in Users,
         NEW o \in Orgs, NEW target \in Users, NEW role,
         BeginManage(q, pc, u, o, target, role), home[u] = o,
         pc = "update" => role \in Granted,
         pc = "delete" => role = "none" /\ target # u
  PROVE  Inv'
<1> DEFINE new == [pc |-> pc, actor |-> u, org |-> o, target |-> target, role |-> role]
<1> USE DEF Inv
<1>1. /\ UNCHANGED <<rows, tokens, selfDemoted>> /\ begun' \in 0..MaxRequests
      /\ request' = [request EXCEPT ![q] = new]
  BY MembershipAssumption DEF BeginManage, Begin, Proceed, TypeOK
<1>2. new \in Managing
  BY DEF Managing
<1>3. /\ request' \in [Handlers -> Request] /\ request'[q] = new
      /\ \A p \in Handlers : p # q => request'[p] = request[p]
  BY <1>1, <1>2 DEF TypeOK, Request
<1>4. TypeOK'
  BY <1>1, <1>3 DEF TypeOK, rows
<1>5. RequestsOK'
  <2> SUFFICES ASSUME NEW p \in Handlers
               PROVE  InviterOK(p)' /\ AccepterOK(p)' /\ ManagerOK(p)'
    BY DEF RequestsOK
  <2>1. CASE p = q
    BY <1>1, <1>3, <2>1 DEF InviterOK, AccepterOK, ManagerOK, IsAccepting, rows
  <2>2. CASE p # q
    <3>1. InviterOK(p)'
      BY <1>1, <1>3, <2>2 DEF RequestsOK, InviterOK, IsHome, rows
    <3>2. AccepterOK(p)'
      BY <1>1, <1>3, <2>2 DEF RequestsOK, AccepterOK, IsAccepting, TargetOrg, rows
    <3>3. ManagerOK(p)'
      BY <1>1, <1>3, <2>2 DEF RequestsOK, ManagerOK, rows
    <3> QED
      BY <3>1, <3>2, <3>3
  <2> QED
    BY <2>1, <2>2
<1>6. LoneAccepters'
  <2>1. \A p \in Handlers : IsAccepting(p)' => request'[p] = request[p] /\ IsAccepting(p)
    BY <1>3 DEF IsAccepting
  <2> QED
    BY <1>1, <2>1 DEF LoneAccepters, IsAccepting, TargetOrg, IsMember, rows
<1>7. LoneInviters'
  <2>1. \A p \in Handlers : request'[p].pc = "create" => request'[p] = request[p]
    BY <1>3
  <2> QED
    BY <1>1, <2>1 DEF LoneInviters, Pending, InvitersOf, rows
<1> QED
  BY <1>1, <1>4, <1>5, <1>6, <1>7, RowsKept

(* A token is the founder's.                                               *)
LEMMA TokenOfHome ==
  ASSUME Inv, NEW u \in Users, NEW o \in Orgs, NEW roles, MayActFor(u, o, roles)
  PROVE  home[u] = o
  BY DEF Inv, TokensForHome, MayActFor

LEMMA FindForUpdateInv ==
  ASSUME Inv, NEW q \in Handlers, NEW u \in Users, NEW target \in Users, NEW o \in Orgs,
         NEW role \in Granted, FindForUpdate(q, u, o, target, role)
  PROVE  Inv'
  BY TokenOfHome, BeginManageInv DEF FindForUpdate

LEMMA FindForRemovalInv ==
  ASSUME Inv, NEW q \in Handlers, NEW u \in Users, NEW target \in Users, NEW o \in Orgs,
         FindForRemoval(q, u, o, target)
  PROVE  Inv'
  BY TokenOfHome, BeginManageInv DEF FindForRemoval

LEMMA FindInvitationInv ==
  ASSUME Inv, NEW q \in Handlers, NEW u \in Users, NEW i \in Invitations,
         FindInvitation(q, u, i)
  PROVE  Inv'
<1> DEFINE new == [pc |-> "membership", user |-> u, token |-> i, alone |-> TRUE]
<1> USE DEF Inv
<1>1. /\ UNCHANGED <<rows, tokens, selfDemoted>> /\ request[q] = Idle
      /\ begun' = begun + 1 /\ begun < MaxRequests
      /\ invitation[i].state = "pending"
  BY DEF FindInvitation, BeginAmong, Begin
<1>2. request' = [p \in Handlers |->
           IF p = q /\ AcceptersOf(u, i) = {} THEN new
           ELSE IF p = q THEN Overlapped(new)
           ELSE IF p \in AcceptersOf(u, i) THEN Overlapped(request[p])
           ELSE request[p]]
  BY DEF FindInvitation, BeginAmong
<1>3. new \in Accepting /\ Overlapped(new) \in Accepting
  BY DEF Accepting, Overlapped
<1>4. \A p \in Handlers : p # q =>
        /\ p \in AcceptersOf(u, i) => /\ request'[p] \in Accepting
                                     /\ request'[p].pc = request[p].pc
                                     /\ request'[p].user = request[p].user
                                     /\ request'[p].token = request[p].token
                                     /\ request'[p].alone = FALSE
        /\ p \notin AcceptersOf(u, i) => request'[p] = request[p]
  BY <1>2, Shapes DEF AcceptersOf, Accepting, Overlapped
<1>5. /\ request'[q] \in Accepting /\ request'[q].pc = "membership"
      /\ request'[q].user = u /\ request'[q].token = i
      /\ AcceptersOf(u, i) # {} => request'[q].alone = FALSE
  BY <1>2, <1>3 DEF Overlapped
<1>6. home[u] # None
  BY MembershipAssumption DEF FindInvitation, Authenticated, TypeOK, TokensForHome, Token
<1>7. TypeOK'
  <2>1. request' \in [Handlers -> Request]
    BY <1>2, <1>4, <1>5 DEF TypeOK, Request
  <2> QED
    BY <1>1, <2>1, MembershipAssumption DEF TypeOK, rows
<1>8. \A p \in Handlers : p # q =>
        /\ IsAccepting(p)' <=> IsAccepting(p)
        /\ ~IsAccepting(p) => request'[p] = request[p]
        /\ IsAccepting(p) => /\ request'[p].pc = request[p].pc
                            /\ request'[p].user = request[p].user
                            /\ request'[p].token = request[p].token
  BY <1>4 DEF IsAccepting, AcceptersOf
<1>9. RequestsOK'
  <2> SUFFICES ASSUME NEW p \in Handlers
               PROVE  InviterOK(p)' /\ AccepterOK(p)' /\ ManagerOK(p)'
    BY DEF RequestsOK
  <2>1. CASE p = q
    BY <1>1, <1>5, <1>6, <2>1
    DEF InviterOK, AccepterOK, ManagerOK, IsAccepting, rows, NoInvitation
  <2>2. CASE p # q /\ IsAccepting(p)
    BY <1>1, <1>8, <2>2
    DEF RequestsOK, InviterOK, AccepterOK, ManagerOK, IsAccepting, TargetOrg, rows
  <2>3. CASE p # q /\ ~IsAccepting(p)
    BY <1>1, <1>8, <2>3
    DEF RequestsOK, InviterOK, AccepterOK, ManagerOK, IsAccepting, IsHome, rows
  <2> QED
    BY <2>1, <2>2, <2>3
<1>10. LoneAccepters'
  <2> SUFFICES ASSUME NEW p \in Handlers, IsAccepting(p)', request'[p].alone
               PROVE  /\ \A r \in Handlers \ {p} : IsAccepting(r)' =>
                           /\ request'[r].user # request'[p].user
                           /\ request'[r].token # request'[p].token
                      /\ invitation[request'[p].token].state # "accepted"
                      /\ request'[p].pc # "membership" =>
                           ~IsMember(request[p].user, TargetOrg(p))'
    BY <1>1, <1>5, <1>8 DEF LoneAccepters, rows
  <2>1. CASE p = q
    <3>1. AcceptersOf(u, i) = {}
      BY <1>5, <2>1
    <3>2. ASSUME NEW r \in Handlers \ {p}, IsAccepting(r)'
          PROVE  request'[r].user # u /\ request'[r].token # i
      <4>1. r \notin AcceptersOf(u, i)
        BY <3>1
      <4> QED
        BY <1>8, <2>1, <3>2, <4>1 DEF AcceptersOf
    <3> QED
      BY <1>1, <1>5, <2>1, <3>2
  <2>2. CASE p # q
    <3>1. p \notin AcceptersOf(u, i) /\ request'[p] = request[p] /\ IsAccepting(p)
      BY <1>4, <1>8, <2>2
    <3>2. ASSUME NEW r \in Handlers \ {p}, IsAccepting(r)'
          PROVE  /\ request'[r].user # request[p].user
                 /\ request'[r].token # request[p].token
      <4>1. CASE r = q
        BY <1>5, <3>1, <4>1 DEF AcceptersOf
      <4>2. CASE r # q
        BY <1>8, <3>1, <3>2, <4>2 DEF LoneAccepters
      <4> QED
        BY <4>1, <4>2
    <3> QED
      BY <1>1, <3>1, <3>2 DEF LoneAccepters, TargetOrg, IsMember, rows
  <2> QED
    BY <2>1, <2>2
<1>11. LoneInviters'
  <2>1. \A p \in Handlers :
          /\ request'[p].pc = "create" <=> request[p].pc = "create"
          /\ request[p].pc = "create" => request'[p] = request[p]
    BY <1>1, <1>5, <1>8 DEF IsAccepting, Idle
  <2> QED
    BY <1>1, <2>1 DEF LoneInviters, Pending, InvitersOf, rows
<1> QED
  BY <1>1, <1>7, <1>9, <1>10, <1>11, RowsKept

(* A request that has gone on to its next call.                            *)
LEMMA GoOnInv ==
  ASSUME Inv, NEW q \in Handlers, NEW pc \in {"recheck", "commit"}, IsAccepting(q),
         UNCHANGED <<rows, tokens, selfDemoted, begun>>,
         request' = [request EXCEPT ![q] = [request[q] EXCEPT !.pc = pc]],
         request[q].pc # "membership" \/ ~IsMember(request[q].user, TargetOrg(q))
  PROVE  Inv'
<1> USE DEF Inv
<1>1. request[q] \in Accepting
  BY Shapes
<1>2. /\ request'[q] \in Accepting /\ request'[q].pc = pc
      /\ request'[q].user = request[q].user /\ request'[q].token = request[q].token
      /\ request'[q].alone = request[q].alone
      /\ \A p \in Handlers : p # q => request'[p] = request[p]
  BY <1>1 DEF Accepting, TypeOK
<1>3. TypeOK'
  BY <1>1, <1>2 DEF TypeOK, rows, Request
<1>4. TargetOrg(q) # home[request[q].user]
  BY <1>1, MembershipAssumption
  DEF RequestsOK, AccepterOK, HomesFirst, FirstIsHome, Accepting
<1>5. \A p \in Handlers :
        /\ IsAccepting(p)' <=> IsAccepting(p)
        /\ ~IsAccepting(p) => request'[p] = request[p]
        /\ IsAccepting(p) => /\ request'[p].user = request[p].user
                            /\ request'[p].token = request[p].token
                            /\ request'[p].alone = request[p].alone
  BY <1>2 DEF IsAccepting
<1>6. RequestsOK'
  <2> SUFFICES ASSUME NEW p \in Handlers
               PROVE  InviterOK(p)' /\ AccepterOK(p)' /\ ManagerOK(p)'
    BY DEF RequestsOK
  <2>1. CASE p = q
    BY <1>2, <1>4, <2>1
    DEF RequestsOK, InviterOK, AccepterOK, ManagerOK, IsAccepting, TargetOrg, rows
  <2>2. CASE p # q
    BY <1>2, <2>2
    DEF RequestsOK, InviterOK, AccepterOK, ManagerOK, IsAccepting, TargetOrg, IsHome, rows
  <2> QED
    BY <2>1, <2>2
<1>7. LoneAccepters'
  <2>1. \A p \in Handlers : IsAccepting(p) /\ request[p].alone /\ request'[p].pc # "membership"
          => ~IsMember(request[p].user, TargetOrg(p))
    BY <1>2 DEF LoneAccepters
  <2>2. \A p \in Handlers : IsAccepting(p) => TargetOrg(p)' = TargetOrg(p)
    BY <1>5 DEF TargetOrg, rows
  <2> SUFFICES ASSUME NEW p \in Handlers, IsAccepting(p), request[p].alone
               PROVE  /\ \A r \in Handlers \ {p} : IsAccepting(r)' =>
                           /\ request'[r].user # request[p].user
                           /\ request'[r].token # request[p].token
                      /\ invitation[request[p].token].state # "accepted"
                      /\ request'[p].pc # "membership" =>
                           ~IsMember(request[p].user, TargetOrg(p))'
    BY <1>5 DEF LoneAccepters, rows
  <2>3. /\ \A r \in Handlers \ {p} : IsAccepting(r)' =>
             /\ request'[r].user # request[p].user
             /\ request'[r].token # request[p].token
        /\ invitation[request[p].token].state # "accepted"
    BY <1>5 DEF LoneAccepters
  <2>4. request'[p].pc # "membership" => ~IsMember(request[p].user, TargetOrg(p))'
    BY <1>5, <2>1, <2>2 DEF IsMember, rows
  <2> QED
    BY <2>3, <2>4
<1>8. LoneInviters'
  <2>1. \A p \in Handlers :
          /\ request'[p].pc = "create" <=> request[p].pc = "create"
          /\ request[p].pc = "create" => request'[p] = request[p]
    BY <1>2 DEF IsAccepting
  <2> QED
    BY <2>1 DEF LoneInviters, Pending, InvitersOf, rows
<1> QED
  BY <1>3, <1>6, <1>7, <1>8, RowsKept

(* One that has been refused.                                              *)
LEMMA RefusedInv ==
  ASSUME Inv, NEW q \in Handlers, UNCHANGED <<rows, tokens, selfDemoted>>, Answer(q)
  PROVE  Inv'
<1> USE DEF Inv
<1>1. TypeOK'
  BY Ending DEF TypeOK, rows
<1>2. RequestsOK' /\ LoneAccepters' /\ LoneInviters'
  BY Ending, RequestsKept DEF rows, Founding, IsMember
<1> QED
  BY <1>1, <1>2, RowsKept

LEMMA GiveUpInv ==
  ASSUME Inv, NEW q \in Handlers, GiveUp(q)
  PROVE  Inv'
  BY RefusedInv DEF GiveUp

LEMMA CheckMembershipInv ==
  ASSUME Inv, NEW q \in Handlers, CheckMembership(q)
  PROVE  Inv'
<1> USE DEF CheckMembership, GoOnIf, Proceed
<1>1. CASE IsMember(request[q].user, TargetOrg(q))
  BY <1>1, RefusedInv DEF Answer
<1>2. CASE ~IsMember(request[q].user, TargetOrg(q))
  BY <1>2, GoOnInv DEF IsAccepting
<1> QED
  BY <1>1, <1>2

LEMMA RecheckInv ==
  ASSUME Inv, NEW q \in Handlers, Recheck(q)
  PROVE  Inv'
<1> USE DEF Recheck, GoOnIf, Proceed
<1>1. CASE invitation[request[q].token].state # "pending"
  BY <1>1, RefusedInv DEF Answer
<1>2. CASE invitation[request[q].token].state = "pending"
  BY <1>2, GoOnInv DEF IsAccepting
<1> QED
  BY <1>1, <1>2

LEMMA CommitAcceptInv ==
  ASSUME Inv, NEW q \in Handlers, CommitAccept(q)
  PROVE  Inv'
<1> DEFINE u == request[q].user
           i == request[q].token
           o == TargetOrg(q)
<1> USE DEF Inv
<1>1. /\ request[q].pc = "commit" /\ IsAccepting(q)
      /\ invitation' = [invitation EXCEPT ![i].state = "accepted"]
      /\ UNCHANGED <<founder, home, tokens, selfDemoted>>
  BY DEF CommitAccept, IsAccepting
<1>2. /\ request' \in [Handlers -> Request] /\ begun' \in 0..MaxRequests
      /\ request'[q] = Idle
      /\ \A p \in Handlers : p # q => request'[p] = request[p]
  BY Ending DEF CommitAccept
<1>3. u \in Users /\ i \in Invitations
  BY <1>1, Shapes DEF Accepting
<1>4. /\ home[u] # None /\ o # home[u]
      /\ invitation[i] # NoInvitation
  BY <1>1 DEF RequestsOK, AccepterOK
<1>5. /\ invitation[i] \in Invitation /\ o \in Orgs /\ invitation[i].role \in Roles
      /\ IsHome(o) /\ founder[o] # u
  BY <1>3, <1>4
  DEF TypeOK, Invitation, TargetOrg, Roles, InvitationsFromHomes, IsHome
<1>6. /\ invitation' \in [Invitations -> Invitation]
      /\ invitation'[i].state = "accepted"
      /\ \A j \in Invitations :
           /\ j # i => invitation'[j] = invitation[j]
           /\ invitation'[j].org = invitation[j].org
           /\ invitation'[j] = NoInvitation <=> invitation[j] = NoInvitation
  BY <1>1, <1>3, <1>4, <1>5 DEF TypeOK, Invitation, NoInvitation
<1>7. /\ member' \in [Users -> [Orgs -> Member \cup {NoMember}]]
      /\ member'[u][o] # NoMember
      /\ member[u][home[u]].at < member'[u][o].at
      /\ \A v \in Users, p \in Orgs : v # u \/ p # o => member'[v][p] = member[v][p]
  <2>1. home[u] \in Orgs /\ FirstIsHome(u)
    BY <1>3, <1>4 DEF HomesFirst, TypeOK
  <2>2. CASE IsMember(u, o)
    <3>1. member' = [member EXCEPT ![u][o].role = invitation[i].role]
      BY <2>2 DEF CommitAccept
    <3>2. member[u][o] \in Member
      BY <1>3, <1>5, <2>2, MemberRow
    <3> DEFINE new == [member[u][o] EXCEPT !.role = invitation[i].role]
    <3>3. new \in Member /\ new # NoMember /\ new.at = member[u][o].at
      BY <1>5, <3>2, MembershipAssumption DEF Member, NoMember, Dates
    <3>4. /\ member' = [member EXCEPT ![u][o] = new]
          /\ member'[u][o] = new
      BY <1>3, <1>5, <3>1 DEF TypeOK
    <3>5. member[u][home[u]].at < member[u][o].at
      BY <1>4, <1>5, <2>1, <2>2 DEF FirstIsHome
    <3> QED
      BY <1>3, <1>5, <3>3, <3>4, <3>5 DEF TypeOK
  <2>3. CASE ~IsMember(u, o)
    <3>1. Join(u, o, invitation[i].role)
      BY <2>3 DEF CommitAccept
    <3>2. \E t \in Dates :
           /\ \A p \in Orgs : member[u][p].at < t
           /\ member' = [member EXCEPT ![u][o] = [role |-> invitation[i].role, at |-> t]]
           /\ member' \in [Users -> [Orgs -> Member \cup {NoMember}]]
           /\ member'[u][o] = [role |-> invitation[i].role, at |-> t]
           /\ member'[u][o] # NoMember
           /\ \A v \in Users, p \in Orgs : v # u \/ p # o => member'[v][p] = member[v][p]
      BY <1>3, <1>5, <3>1, JoinLater, Zenon
    <3> QED
      BY <2>1, <3>2
  <2> QED
    BY <2>2, <2>3
<1>8. TypeOK'
  BY <1>1, <1>2, <1>6, <1>7 DEF TypeOK
<1>9. HomesFirst' /\ TokensForHome'
  <2>1. TokensForHome'
    BY <1>1 DEF TokensForHome
  <2>2. \A v \in Users : home[v] # None => home[v] \in Orgs
    BY DEF TypeOK
  <2>3. \A v \in Users : home[v] # None => member'[v][home[v]] = member[v][home[v]]
    BY <1>4, <1>7, <2>2
  <2>4. HomesFirst'
    BY <1>1, <1>3, <1>4, <1>5, <1>7, <2>2, <2>3 DEF HomesFirst, FirstIsHome, IsMember
  <2> QED
    BY <2>1, <2>4
<1>10. InvitationsFromHomes'
  BY ZenonT(60), <1>1, <1>6 DEF InvitationsFromHomes, IsHome
<1>11. FoundersOwn'
  BY <1>1, <1>5, <1>7 DEF FoundersOwn, TypeOK
<1>12. \A p \in Handlers : IsAccepting(p) =>
         /\ request[p].user \in Users /\ request[p].token \in Invitations
         /\ p # q => TargetOrg(p)' = TargetOrg(p)
         /\ TargetOrg(p) \in Orgs
  <2>1. \A p \in Handlers : IsAccepting(p) =>
          request[p].user \in Users /\ request[p].token \in Invitations
    BY Shapes DEF Accepting
  <2> QED
    BY <1>2, <1>6, <2>1 DEF TargetOrg, TypeOK, Invitation, RequestsOK, AccepterOK
<1>13. RequestsOK'
  <2> SUFFICES ASSUME NEW p \in Handlers, p # q
               PROVE  InviterOK(p)' /\ AccepterOK(p)' /\ ManagerOK(p)'
    BY <1>2 DEF RequestsOK, InviterOK, AccepterOK, ManagerOK, IsAccepting, Idle
  <2>1. InviterOK(p)' /\ ManagerOK(p)'
    BY <1>1, <1>2 DEF RequestsOK, InviterOK, ManagerOK, IsHome
  <2>2. AccepterOK(p)'
    BY <1>1, <1>2, <1>6, <1>12 DEF RequestsOK, AccepterOK, IsAccepting
  <2> QED
    BY <2>1, <2>2
<1>14. LoneAccepters'
  <2> SUFFICES ASSUME NEW p \in Handlers, p # q, IsAccepting(p), request[p].alone
               PROVE  /\ \A r \in Handlers \ {p} : IsAccepting(r)' =>
                           /\ request'[r].user # request[p].user
                           /\ request'[r].token # request[p].token
                      /\ invitation'[request[p].token].state # "accepted"
                      /\ request[p].pc # "membership" =>
                           ~IsMember(request[p].user, TargetOrg(p))'
    BY <1>2 DEF LoneAccepters, IsAccepting, Idle
  <2>1. request[p].user # u /\ request[p].token # i
    BY <1>1 DEF LoneAccepters
  <2>2. \A r \in Handlers \ {p} : IsAccepting(r)' => IsAccepting(r) /\ request'[r] = request[r]
    BY <1>2 DEF IsAccepting, Idle
  <2>3. invitation'[request[p].token].state # "accepted"
    BY <1>6, <1>12, <2>1 DEF LoneAccepters
  <2>4. request[p].pc # "membership" => ~IsMember(request[p].user, TargetOrg(p))'
    BY <1>2, <1>7, <1>12, <2>1 DEF LoneAccepters, IsMember
  <2> QED
    BY <2>2, <2>3, <2>4 DEF LoneAccepters
<1>15. LoneInviters'
  <2>1. \A j \in Invitations : invitation'[j].state = "pending" => invitation'[j] = invitation[j]
    BY <1>6
  <2>2. \A p \in Handlers : request'[p].pc = "create" => request'[p] = request[p]
    BY <1>2 DEF Idle
  <2>3. \A p \in Handlers : request[p].pc = "create" => request'[p] = request[p]
    BY <1>1, <1>2
  <2> QED
    BY <2>1, <2>2, <2>3 DEF LoneInviters, Pending, InvitersOf
<1>16. OnePendingUnlessOverlap'
  BY <1>6 DEF OnePendingUnlessOverlap
<1> QED
  BY <1>8, <1>9, <1>10, <1>11, <1>13, <1>14, <1>15, <1>16

LEMMA UpdateRoleInv ==
  ASSUME Inv, NEW q \in Handlers, UpdateRole(q)
  PROVE  Inv'
<1> DEFINE m == request[q]
<1> USE DEF Inv
<1>1. /\ m.pc = "update" /\ IsMember(m.target, m.org)
      /\ member' = [member EXCEPT ![m.target][m.org].role = m.role]
      /\ selfDemoted' = IF m.actor = m.target THEN selfDemoted \cup {m.org} ELSE selfDemoted
      /\ UNCHANGED <<founder, home, tokens, invitation>>
  BY DEF UpdateRole
<1>2. /\ m.actor \in Users /\ m.target \in Users /\ m.org \in Orgs /\ m.role \in Roles
  BY <1>1, Shapes DEF Managing, Roles
<1>3. home[m.actor] = m.org
  BY <1>1 DEF RequestsOK, ManagerOK
<1> DEFINE new == [member[m.target][m.org] EXCEPT !.role = m.role]
<1>4. new \in Member /\ new # NoMember /\ new.at = member[m.target][m.org].at
  <2>1. member[m.target][m.org] \in Member
    BY <1>1, <1>2, MemberRow
  <2> QED
    BY <1>2, <2>1, MembershipAssumption DEF Member, NoMember, Dates
<1>5. /\ member' \in [Users -> [Orgs -> Member \cup {NoMember}]]
      /\ member'[m.target][m.org] = new
      /\ \A v \in Users, p \in Orgs :
            v # m.target \/ p # m.org => member'[v][p] = member[v][p]
  <2>1. member' = [member EXCEPT ![m.target][m.org] = new]
    BY <1>1, <1>2 DEF TypeOK
  <2> QED
    BY <1>2, <1>4, <2>1 DEF TypeOK
<1>6. \A v \in Users, p \in Orgs :
        /\ member'[v][p].at = member[v][p].at
        /\ IsMember(v, p)' <=> IsMember(v, p)
  BY <1>1, <1>2, <1>4, <1>5 DEF IsMember
<1>7. TypeOK'
  BY <1>1, <1>2, <1>5, Ending DEF TypeOK, UpdateRole
<1>8. HomesFirst' /\ TokensForHome' /\ InvitationsFromHomes' /\ OnePendingUnlessOverlap'
  <2>1. HomesFirst'
    BY <1>1, <1>6 DEF HomesFirst, FirstIsHome, TypeOK
  <2> QED
    BY <1>1, <2>1 DEF TokensForHome, InvitationsFromHomes, IsHome, OnePendingUnlessOverlap
<1>9. FoundersOwn'
  <2> SUFFICES ASSUME NEW o \in Orgs, founder[o] # None
               PROVE  o \in selfDemoted' \/ member'[founder[o]][o].role = "OWNER"
    BY <1>1 DEF FoundersOwn
  <2>1. CASE o = m.org /\ founder[o] = m.target
    <3>1. m.actor = m.target
      BY <1>2, <1>3, <2>1, MembershipAssumption DEF HomesFirst, FirstIsHome
    <3> QED
      BY <1>1, <2>1, <3>1
  <2>2. CASE o # m.org \/ founder[o] # m.target
    BY <1>1, <1>5, <2>2 DEF FoundersOwn, TypeOK
  <2> QED
    BY <2>1, <2>2
<1>10. RequestsOK' /\ LoneAccepters' /\ LoneInviters'
  BY <1>1, <1>6, Ending, RequestsKept DEF UpdateRole, Founding
<1> QED
  BY <1>7, <1>8, <1>9, <1>10

LEMMA DeleteMemberInv ==
  ASSUME Inv, NEW q \in Handlers, DeleteMember(q)
  PROVE  Inv'
<1> DEFINE m == request[q]
<1> USE DEF Inv
<1>1. /\ m.pc = "delete"
      /\ member' = [member EXCEPT ![m.target][m.org] = NoMember]
      /\ UNCHANGED <<founder, home, tokens, invitation, selfDemoted>>
  BY DEF DeleteMember
<1>2. m.actor \in Users /\ m.target \in Users /\ m.org \in Orgs
  BY <1>1, Shapes DEF Managing
<1>3. home[m.actor] = m.org /\ m.target # m.actor
  BY <1>1 DEF RequestsOK, ManagerOK
<1>4. founder[m.org] = m.actor
  BY <1>2, <1>3, MembershipAssumption DEF HomesFirst, FirstIsHome
<1>5. /\ member' \in [Users -> [Orgs -> Member \cup {NoMember}]]
      /\ member'[m.target][m.org] = NoMember
      /\ \A v \in Users, p \in Orgs :
            v # m.target \/ p # m.org => member'[v][p] = member[v][p]
  BY <1>1, <1>2 DEF TypeOK
<1>6. TypeOK'
  BY <1>1, <1>5, Ending DEF TypeOK, DeleteMember
<1>7. HomesFirst' /\ TokensForHome' /\ InvitationsFromHomes' /\ OnePendingUnlessOverlap'
  <2>1. \A v \in Users : home[v] # None =>
          home[v] \in Orgs /\ member'[v][home[v]] = member[v][home[v]]
    BY <1>2, <1>3, <1>4, <1>5 DEF HomesFirst, FirstIsHome, TypeOK
  <2>2. \A v \in Users, p \in Orgs :
          IsMember(v, p)' => IsMember(v, p) /\ member'[v][p] = member[v][p]
    BY <1>2, <1>5 DEF IsMember
  <2>3. HomesFirst'
    BY <1>1, <2>1, <2>2 DEF HomesFirst, FirstIsHome, IsMember
  <2> QED
    BY <1>1, <2>3 DEF TokensForHome, InvitationsFromHomes, IsHome, OnePendingUnlessOverlap
<1>8. FoundersOwn'
  BY <1>1, <1>3, <1>4, <1>5 DEF FoundersOwn, TypeOK
<1>9. RequestsOK' /\ LoneAccepters' /\ LoneInviters'
  <2>1. \A v \in Users, p \in Orgs : ~IsMember(v, p) => ~IsMember(v, p)'
    BY <1>2, <1>5 DEF IsMember
  <2> QED
    BY <1>1, <2>1, Ending, RequestsKept DEF DeleteMember, Founding
<1> QED
  BY <1>6, <1>7, <1>8, <1>9

-----------------------------------------------------------------------------
(* The theorems.                                                           *)

LEMMA InitInv == Init => Inv
<1> SUFFICES ASSUME Init PROVE Inv
  OBVIOUS
<1> USE DEF Init
<1>1. TypeOK
  BY MembershipAssumption DEF TypeOK, Invitation, Request
<1>2. HomesFirst /\ TokensForHome /\ FoundersOwn
  BY DEF HomesFirst, IsMember, TokensForHome, FoundersOwn
<1>3. RequestsOK /\ LoneAccepters /\ LoneInviters
  BY DEF RequestsOK, InviterOK, AccepterOK, ManagerOK, IsAccepting, Idle,
         LoneAccepters, LoneInviters
<1>4. InvitationsFromHomes /\ OnePendingUnlessOverlap
  BY DEF InvitationsFromHomes, OnePendingUnlessOverlap, NoInvitation
<1> QED
  BY <1>1, <1>2, <1>3, <1>4 DEF Inv

LEMMA NextInv == Inv /\ [Next]_vars => Inv'
<1> SUFFICES ASSUME Inv, [Next]_vars PROVE Inv'
  OBVIOUS
<1>1. ASSUME NEW u \in Users, NEW o \in Orgs,
             Register(u, o) \/ CreateOrg(u, o) \/ Login(u, o)
      PROVE  Inv'
  BY <1>1, RegisterInv, CreateOrgInv, LoginInv
<1>2. ASSUME NEW i \in Invitations, Expire(i)
      PROVE  Inv'
  BY <1>2, ExpireInv
<1>3. ASSUME NEW q \in Handlers, Invite(q)
      PROVE  Inv'
  BY <1>3, FindPendingInv, CreateInvitationInv DEF Invite
<1>4. ASSUME NEW q \in Handlers, Accept(q)
      PROVE  Inv'
  BY <1>4, FindInvitationInv, CheckMembershipInv, RecheckInv, CommitAcceptInv DEF Accept
<1>5. ASSUME NEW q \in Handlers, Manage(q)
      PROVE  Inv'
  BY <1>5, FindForUpdateInv, FindForRemovalInv, UpdateRoleInv, DeleteMemberInv DEF Manage
<1>6. ASSUME NEW q \in Handlers, GiveUp(q)
      PROVE  Inv'
  BY <1>6, GiveUpInv
<1>7. CASE UNCHANGED vars
  <2> USE DEF Inv, vars
  <2>1. TypeOK'
    BY <1>7 DEF TypeOK
  <2>2. RequestsOK' /\ LoneAccepters' /\ LoneInviters'
    BY <1>7, RequestsKept DEF Founding, IsMember
  <2> QED
    BY <1>7, <2>1, <2>2, RowsKept DEF rows
<1> QED
  BY <1>1, <1>2, <1>3, <1>4, <1>5, <1>6, <1>7 DEF Next

(* Every reachable state satisfies the inductive invariant.                *)
THEOREM AlwaysInv == Spec => []Inv
  BY InitInv, NextInv, PTL DEF Spec

(* Rows, tokens and requests have their shapes.                            *)
THEOREM TypeCorrect == Spec => []TypeOK
<1>1. Inv => TypeOK
  BY DEF Inv
<1> QED
  BY <1>1, AlwaysInv, PTL

(* Whoever has registered keeps a membership, so that login, which fails   *)
(* without one, finds one.                                                 *)
THEOREM EveryoneCanAlwaysLogIn == Spec => []EveryoneCanLogIn
<1>1. Inv => EveryoneCanLogIn
  BY DEF Inv, TypeOK, HomesFirst, FirstIsHome, EveryoneCanLogIn
<1> QED
  BY <1>1, AlwaysInv, PTL

(* A token is for the organization its user registered with.               *)
THEOREM TokensAlwaysForHome == Spec => []TokensForHome
<1>1. Inv => TokensForHome
  BY DEF Inv
<1> QED
  BY <1>1, AlwaysInv, PTL

(* An organization loses its owner only to the owner's own request.        *)
THEOREM OwnerlessAlwaysNeedsSelfDemotion == Spec => []OwnerlessNeedsSelfDemotion
<1>1. Inv => OwnerlessNeedsSelfDemotion
  BY DEF Inv, TypeOK, FoundersOwn, OwnerlessNeedsSelfDemotion
<1> QED
  BY <1>1, AlwaysInv, PTL

(* Two invitations of one address are pending in an organization only if   *)
(* the requests that made them overlapped.                                 *)
THEOREM OnePendingAlwaysUnlessOverlap == Spec => []OnePendingUnlessOverlap
<1>1. Inv => OnePendingUnlessOverlap
  BY DEF Inv
<1> QED
  BY <1>1, AlwaysInv, PTL

(* An acceptance nothing overlapped uses an invitation nobody used and     *)
(* makes a member of who was none.                                         *)
THEOREM LoneAcceptAlwaysJoins == Spec => LoneAcceptJoins
<1> DEFINE Joins == \A q \in Handlers : CommitAccept(q) /\ request[q].alone =>
                      /\ invitation[request[q].token].state # "accepted"
                      /\ ~IsMember(request[q].user, TargetOrg(q))
<1>1. Inv /\ [Next]_vars => [Joins]_vars
  <2> SUFFICES ASSUME Inv, NEW q \in Handlers, CommitAccept(q), request[q].alone
               PROVE  /\ invitation[request[q].token].state # "accepted"
                      /\ ~IsMember(request[q].user, TargetOrg(q))
    OBVIOUS
  <2>1. request[q].pc = "commit" /\ IsAccepting(q)
    BY DEF CommitAccept, IsAccepting
  <2> QED
    BY <2>1 DEF Inv, LoneAccepters
<1> QED
  BY <1>1, AlwaysInv, PTL DEF Spec, LoneAcceptJoins

-----------------------------------------------------------------------------
(* The rows keep the promise of Ownership.  That nobody but a founder owns *)
(* anything, and nobody owns what its founder has resigned from, is not in *)
(* Inv, and needs it only for who may act for whom.                        *)

OnlyFoundersOwn ==
  \A o \in Orgs : \A u \in Users : member[u][o].role = "OWNER" =>
    founder[o] = u /\ o \notin selfDemoted

ResignedWereFounded == \A o \in selfDemoted : founder[o] # None

OwnInv == OnlyFoundersOwn /\ ResignedWereFounded

(* The owners of an organization are its founder, or are none.             *)
OwnersAre ==
  \A o \in Orgs :
    Owners[o] = IF founder[o] = None \/ o \in selfDemoted THEN {} ELSE {founder[o]}

LEMMA OwnersKnown == Inv /\ OwnInv => OwnersAre
<1> SUFFICES ASSUME Inv, OwnInv, NEW o \in Orgs
             PROVE  Owners[o] = IF founder[o] = None \/ o \in selfDemoted THEN {}
                                ELSE {founder[o]}
  BY DEF OwnersAre
<1>1. Owners[o] = {u \in Users : member[u][o].role = "OWNER"}
  BY DEF Owners
<1>2. CASE founder[o] = None \/ o \in selfDemoted
  BY <1>1, <1>2, MembershipAssumption DEF OwnInv, OnlyFoundersOwn
<1>3. CASE founder[o] # None /\ o \notin selfDemoted
  <2>1. founder[o] \in Users /\ member[founder[o]][o].role = "OWNER"
    BY <1>3 DEF Inv, TypeOK, FoundersOwn
  <2>2. \A u \in Users : member[u][o].role = "OWNER" => u = founder[o]
    BY DEF OwnInv, OnlyFoundersOwn
  <2> QED
    BY <1>1, <1>3, <2>1, <2>2
<1> QED
  BY <1>2, <1>3

LEMMA OwnersStayKnown == (Inv /\ OwnInv)' => OwnersAre'
  BY OwnersKnown, PTL

(* A step that makes nobody an owner, and founds and resigns from nothing. *)
OwnersStand ==
  /\ UNCHANGED <<founder, selfDemoted>>
  /\ \A u \in Users, o \in Orgs :
       member'[u][o].role = "OWNER" => member[u][o].role = "OWNER"

LEMMA StandingOwnInv ==
  ASSUME OwnInv, OwnersStand
  PROVE  OwnInv'
  BY DEF OwnInv, OnlyFoundersOwn, ResignedWereFounded, OwnersStand

LEMMA FoundingOwnInv ==
  ASSUME Inv, OwnInv, NEW u \in Users, NEW o \in Orgs, CreateOrganization(u, o),
         UNCHANGED selfDemoted
  PROVE  OwnInv' /\ founder' = [founder EXCEPT ![o] = u] /\ o \notin selfDemoted
<1>1. PICK t \in Dates : member' = [member EXCEPT ![u][o] = [role |-> "OWNER", at |-> t]]
  BY DEF CreateOrganization, Join
<1>2. founder[o] = None /\ founder' = [founder EXCEPT ![o] = u] /\ o \notin selfDemoted
  BY DEF CreateOrganization, OwnInv, ResignedWereFounded
<1>3. \A v \in Users, p \in Orgs : v # u \/ p # o => member'[v][p] = member[v][p]
  BY <1>1 DEF Inv, TypeOK
<1>4. \A p \in Orgs : founder'[p] = IF p = o THEN u ELSE founder[p]
  BY <1>2 DEF Inv, TypeOK
<1>5. OnlyFoundersOwn'
  <2> SUFFICES ASSUME NEW p \in Orgs, NEW v \in Users, member'[v][p].role = "OWNER"
               PROVE  founder'[p] = v /\ p \notin selfDemoted
    BY DEF OnlyFoundersOwn
  <2>1. CASE p = o /\ v = u
    BY <1>2, <1>4, <2>1
  <2>2. CASE p = o /\ v # u
    BY <1>2, <1>3, <2>2, MembershipAssumption DEF OwnInv, OnlyFoundersOwn
  <2>3. CASE p # o
    BY <1>3, <1>4, <2>3 DEF OwnInv, OnlyFoundersOwn
  <2> QED
    BY <2>1, <2>2, <2>3
<1>6. ResignedWereFounded'
  BY <1>4, MembershipAssumption DEF OwnInv, ResignedWereFounded, Inv, TypeOK
<1> QED
  BY <1>2, <1>5, <1>6 DEF OwnInv

(* An acceptance gives a role other than OWNER.                            *)
LEMMA CommitAcceptStands ==
  ASSUME Inv, NEW q \in Handlers, CommitAccept(q)
  PROVE  OwnersStand
<1> DEFINE i == request[q].token
           a == request[q].user
           o == TargetOrg(q)
<1>1. IsAccepting(q) /\ request[q] \in Accepting
  BY Shapes DEF CommitAccept, IsAccepting, Inv
<1>2. a \in Users /\ i \in Invitations /\ invitation[i] # NoInvitation
  BY <1>1 DEF Accepting, Inv, RequestsOK, AccepterOK
<1>3. invitation[i].role \in Granted /\ o \in Orgs /\ o = invitation[i].org
  BY <1>2 DEF Inv, TypeOK, Invitation, TargetOrg
<1>4. UNCHANGED <<founder, selfDemoted>>
  BY DEF CommitAccept
<1>5. \A u \in Users, p \in Orgs :
        member'[u][p].role = "OWNER" => member[u][p].role = "OWNER"
  <2>1. CASE IsMember(a, o)
    <3>1. member' = [member EXCEPT ![a][o].role = invitation[i].role]
      BY <2>1 DEF CommitAccept
    <3>2. member[a][o] \in Member
      BY <1>2, <1>3, <2>1, MemberRow DEF Inv
    <3>3. /\ member'[a][o].role = invitation[i].role
          /\ \A u \in Users, p \in Orgs : u # a \/ p # o => member'[u][p] = member[u][p]
      BY <1>2, <1>3, <3>1, <3>2 DEF Inv, TypeOK, Member
    <3> QED
      BY <1>3, <3>3 DEF Granted
  <2>2. CASE ~IsMember(a, o)
    <3>1. Join(a, o, invitation[i].role) /\ invitation[i].role \in Roles /\ TypeOK
      BY <1>3, <2>2 DEF CommitAccept, Roles, Inv
    <3>2. PICK t \in Dates :
            /\ member'[a][o] = [role |-> invitation[i].role, at |-> t]
            /\ \A u \in Users, p \in Orgs : u # a \/ p # o => member'[u][p] = member[u][p]
      <4>1. \E t \in Dates :
             /\ \A p \in Orgs : member[a][p].at < t
             /\ member' = [member EXCEPT ![a][o] = [role |-> invitation[i].role, at |-> t]]
             /\ member' \in [Users -> [Orgs -> Member \cup {NoMember}]]
             /\ member'[a][o] = [role |-> invitation[i].role, at |-> t]
             /\ member'[a][o] # NoMember
             /\ \A v \in Users, p \in Orgs : v # a \/ p # o => member'[v][p] = member[v][p]
        BY <1>2, <1>3, <3>1, JoinLater, Zenon
      <4> QED
        BY <4>1
    <3> QED
      BY <1>3, <3>2 DEF Granted
  <2> QED
    BY <2>1, <2>2
<1> QED
  BY <1>4, <1>5 DEF OwnersStand

(* A removal takes a row away.                                             *)
LEMMA DeleteMemberStands ==
  ASSUME Inv, NEW q \in Handlers, DeleteMember(q)
  PROVE  OwnersStand
<1>1. /\ request[q].target \in Users /\ request[q].org \in Orgs
      /\ member' = [member EXCEPT ![request[q].target][request[q].org] = NoMember]
  BY Shapes DEF DeleteMember, Inv, Managing
<1>2. \A u \in Users, p \in Orgs : member'[u][p] \in {member[u][p], NoMember}
  BY <1>1 DEF Inv, TypeOK
<1> QED
  BY <1>2 DEF OwnersStand, DeleteMember, NoMember

(* What a change of role does: it is the owner's of its own, or it makes   *)
(* nobody an owner.                                                        *)
LEMMA UpdateRoleRows ==
  ASSUME Inv, NEW q \in Handlers, UpdateRole(q)
  PROVE  /\ request[q].target \in Users /\ request[q].actor \in Users
         /\ request[q].org \in Orgs /\ founder[request[q].org] = request[q].actor
         /\ member'[request[q].target][request[q].org].role # "OWNER"
         /\ \A u \in Users, p \in Orgs :
              u # request[q].target \/ p # request[q].org => member'[u][p] = member[u][p]
<1> DEFINE m == request[q]
<1>1. /\ m.target \in Users /\ m.org \in Orgs /\ m.actor \in Users /\ m.role \in Granted
      /\ m.pc = "update"
  BY Shapes DEF UpdateRole, Inv, Managing
<1>2. home[m.actor] = m.org
  BY <1>1 DEF Inv, RequestsOK, ManagerOK
<1>3. founder[m.org] = m.actor
  BY <1>1, <1>2, MembershipAssumption DEF Inv, HomesFirst, FirstIsHome
<1>4. member' = [member EXCEPT ![m.target][m.org].role = m.role] /\ IsMember(m.target, m.org)
  BY DEF UpdateRole
<1>5. member[m.target][m.org] \in Member
  BY <1>1, <1>4, MemberRow DEF Inv
<1>6. /\ member'[m.target][m.org].role = m.role
      /\ \A u \in Users, p \in Orgs :
           u # m.target \/ p # m.org => member'[u][p] = member[u][p]
  BY <1>1, <1>4, <1>5 DEF Inv, TypeOK, Member
<1> QED
  BY <1>1, <1>3, <1>6 DEF Granted

LEMMA UpdateRoleOwnInv ==
  ASSUME Inv, OwnInv, NEW q \in Handlers, UpdateRole(q)
  PROVE  OwnInv'
<1> DEFINE m == request[q]
<1>1. /\ m.target \in Users /\ m.org \in Orgs /\ founder[m.org] = m.actor /\ m.actor \in Users
      /\ member'[m.target][m.org].role # "OWNER"
      /\ \A u \in Users, p \in Orgs :
           u # m.target \/ p # m.org => member'[u][p] = member[u][p]
  BY UpdateRoleRows
<1>2. /\ UNCHANGED founder
      /\ selfDemoted' = IF m.actor = m.target THEN selfDemoted \cup {m.org} ELSE selfDemoted
  BY DEF UpdateRole
<1>3. OnlyFoundersOwn'
  <2> SUFFICES ASSUME NEW p \in Orgs, NEW u \in Users, member'[u][p].role = "OWNER"
               PROVE  founder[p] = u /\ p \notin selfDemoted'
    BY <1>2 DEF OnlyFoundersOwn
  <2>1. member[u][p].role = "OWNER" /\ (u # m.target \/ p # m.org)
    BY <1>1
  <2>2. founder[p] = u /\ p \notin selfDemoted
    BY <2>1 DEF OwnInv, OnlyFoundersOwn
  <2> QED
    BY <1>1, <1>2, <2>1, <2>2
<1>4. ResignedWereFounded'
  BY <1>1, <1>2, MembershipAssumption DEF OwnInv, ResignedWereFounded
<1> QED
  BY <1>3, <1>4 DEF OwnInv

(* What the other actions leave alone is enough for both.                  *)
LEMMA StandingSteps ==
  ASSUME UNCHANGED <<founder, member, selfDemoted>>
  PROVE  OwnersStand
  BY DEF OwnersStand

(* Every step but a founding and a change of role leaves the owners.       *)
LEMMA QuietSteps ==
  ASSUME Inv, [Next]_vars,
         \A u \in Users : \A o \in Orgs : ~Register(u, o) /\ ~CreateOrg(u, o),
         \A q \in Handlers : ~UpdateRole(q)
  PROVE  OwnersStand
<1>1. ASSUME NEW u \in Users, NEW o \in Orgs, Login(u, o)
      PROVE  OwnersStand
  BY <1>1, StandingSteps DEF Login, rows
<1>2. ASSUME NEW i \in Invitations, Expire(i)
      PROVE  OwnersStand
  BY <1>2, StandingSteps DEF Expire
<1>3. ASSUME NEW q \in Handlers, Invite(q)
      PROVE  OwnersStand
  BY <1>3, StandingSteps DEF Invite, FindPending, BeginInvite, CreateInvitation, rows
<1>4. ASSUME NEW q \in Handlers, Accept(q)
      PROVE  OwnersStand
  BY <1>4, StandingSteps, CommitAcceptStands
  DEF Accept, FindInvitation, CheckMembership, Recheck, GoOnIf, rows
<1>5. ASSUME NEW q \in Handlers, Manage(q)
      PROVE  OwnersStand
  BY <1>5, StandingSteps, DeleteMemberStands
  DEF Manage, FindForUpdate, FindForRemoval, BeginManage, rows
<1>6. ASSUME NEW q \in Handlers, GiveUp(q)
      PROVE  OwnersStand
  BY <1>6, StandingSteps DEF GiveUp, rows
<1>7. CASE UNCHANGED vars
  BY <1>7, StandingSteps DEF vars
<1> QED
  BY <1>1, <1>2, <1>3, <1>4, <1>5, <1>6, <1>7 DEF Next

LEMMA NextOwnInv ==
  ASSUME Inv, OwnInv, [Next]_vars
  PROVE  OwnInv'
<1>1. ASSUME NEW u \in Users, NEW o \in Orgs, Register(u, o) \/ CreateOrg(u, o)
      PROVE  OwnInv'
  BY <1>1, FoundingOwnInv DEF Register, CreateOrg, CreateUserWithOrganization
<1>2. ASSUME NEW q \in Handlers, UpdateRole(q)
      PROVE  OwnInv'
  BY <1>2, UpdateRoleOwnInv
<1>3. CASE OwnersStand
  BY <1>3, StandingOwnInv
<1> QED
  BY <1>1, <1>2, <1>3, QuietSteps

(* A founding is one of the promise.                                       *)
LEMMA FoundingPromised ==
  ASSUME Inv, OwnInv, OwnersAre, OwnersAre', NEW u \in Users, NEW o \in Orgs,
         CreateOrganization(u, o), UNCHANGED selfDemoted
  PROVE  Promise!Found(u, o)
<1>1. founder[o] = None /\ founder' = [founder EXCEPT ![o] = u] /\ o \notin selfDemoted
  BY FoundingOwnInv DEF CreateOrganization
<1>2. founder'[o] = u /\ \A p \in Orgs : p # o => founder'[p] = founder[p]
  BY <1>1 DEF Inv, TypeOK
<1>3. Owners'[o] = {u}
  BY <1>1, <1>2, MembershipAssumption DEF OwnersAre
<1>4. \A p \in Orgs : p # o => Owners'[p] = Owners[p]
  BY <1>2 DEF OwnersAre
<1>5. Owners' = [Owners EXCEPT ![o] = {u}]
  BY <1>3, <1>4 DEF Owners
<1> QED
  BY <1>1, <1>5 DEF Promise!Found

(* The owner's change of its own role is a resignation, once.              *)
LEMMA UpdateRolePromised ==
  ASSUME Inv, OwnInv, OwnersAre, OwnersAre', NEW q \in Handlers, UpdateRole(q)
  PROVE  Promise!Next \/ UNCHANGED Promise!vars
<1> DEFINE o == request[q].org
<1>1. /\ o \in Orgs /\ founder[o] = request[q].actor /\ request[q].actor \in Users
      /\ UNCHANGED founder
      /\ selfDemoted' = IF request[q].actor = request[q].target
                          THEN selfDemoted \cup {o} ELSE selfDemoted
  BY UpdateRoleRows DEF UpdateRole
<1>2. CASE selfDemoted' = selfDemoted
  <2>1. \A p \in Orgs : Owners'[p] = Owners[p]
    BY <1>1, <1>2 DEF OwnersAre
  <2>2. Owners' = Owners
    BY <2>1 DEF Owners
  <2> QED
    BY <1>1, <1>2, <2>2 DEF Promise!vars
<1>3. CASE selfDemoted' = selfDemoted \cup {o} /\ o \notin selfDemoted
  <2>0. founder[o] # None /\ o \in selfDemoted'
    BY <1>1, <1>3, MembershipAssumption
  <2>1. Owners[o] = {founder[o]} /\ Owners'[o] = {}
    <3>1. Owners[o] = {founder[o]}
      BY <1>1, <1>3, <2>0 DEF OwnersAre
    <3>2. Owners'[o] = {}
      BY <1>1, <2>0 DEF OwnersAre
    <3> QED
      BY <3>1, <3>2
  <2>2. \A p \in Orgs : p # o => Owners'[p] = Owners[p]
    BY <1>1, <1>3 DEF OwnersAre
  <2>3. Owners' = [Owners EXCEPT ![o] = {}]
    BY <2>1, <2>2 DEF Owners
  <2>4. Promise!Resign(o)
    BY <1>1, <1>3, <2>1, <2>3 DEF Promise!Resign
  <2> QED
    BY <1>1, <2>4 DEF Promise!Next
<1> QED
  BY <1>1, <1>2, <1>3

(* Any other step is none of the promise.                                  *)
LEMMA StandingPromised ==
  ASSUME Inv, OwnInv, OwnersAre, OwnersAre', OwnersStand
  PROVE  UNCHANGED Promise!vars
<1>1. \A p \in Orgs : Owners'[p] = Owners[p]
  BY DEF OwnersAre, OwnersStand
<1>2. Owners' = Owners
  BY <1>1 DEF Owners
<1> QED
  BY <1>2 DEF Promise!vars, OwnersStand

LEMMA NextPromised ==
  ASSUME Inv, OwnInv, Inv', OwnInv', [Next]_vars
  PROVE  [Promise!Next]_(Promise!vars)
<1>1. OwnersAre /\ OwnersAre'
  BY OwnersKnown, OwnersStayKnown
<1>2. ASSUME NEW u \in Users, NEW o \in Orgs, Register(u, o) \/ CreateOrg(u, o)
      PROVE  Promise!Next
  <2>1. CreateOrganization(u, o) /\ UNCHANGED selfDemoted
    BY <1>2 DEF Register, CreateOrg, CreateUserWithOrganization
  <2>2. Promise!Found(u, o)
    BY <1>1, <2>1, FoundingPromised
  <2> QED
    BY <2>2 DEF Promise!Next
<1>3. ASSUME NEW q \in Handlers, UpdateRole(q)
      PROVE  Promise!Next \/ UNCHANGED Promise!vars
  BY <1>1, <1>3, UpdateRolePromised
<1>4. CASE OwnersStand
  BY <1>1, <1>4, StandingPromised
<1> QED
  BY <1>2, <1>3, <1>4, QuietSteps

LEMMA InitPromised == Init => OwnInv /\ Promise!Init
<1> SUFFICES ASSUME Init PROVE OwnInv /\ Promise!Init
  OBVIOUS
<1>1. \A u \in Users, o \in Orgs : member[u][o].role # "OWNER"
  BY DEF Init, NoMember
<1>2. Owners = [o \in Orgs |-> {}]
  BY <1>1 DEF Owners
<1> QED
  BY <1>1, <1>2 DEF Init, OwnInv, OnlyFoundersOwn, ResignedWereFounded, Promise!Init

(* Whatever requests are in flight, an organization has its founder as its *)
(* one owner until the founder itself gives the role up.                   *)
THEOREM OwnershipImplemented == Spec => ImplementsOwnership
<1>1. Init => Inv /\ OwnInv /\ Promise!Init
  BY InitInv, InitPromised
<1>2. Inv /\ OwnInv /\ [Next]_vars => Inv' /\ OwnInv'
  BY NextInv, NextOwnInv
<1>3. Inv /\ OwnInv /\ Inv' /\ OwnInv' /\ [Next]_vars => [Promise!Next]_(Promise!vars)
  BY NextPromised
<1> QED
  BY <1>1, <1>2, <1>3, PTL DEF Spec, ImplementsOwnership, Promise!Spec

=============================================================================
