----------------------------- MODULE Membership -----------------------------
(***************************************************************************)
(* Users and organizations: registration, login, further organizations,    *)
(* invitations and their acceptance, role changes and removals.            *)
(*                                                                         *)
(* A request acts for the organization and under the role that its bearer  *)
(* token names, which login copied from the user's first membership; the   *)
(* database is not asked again.  One action is one awaited call.  A call   *)
(* that fails before the last changes nothing and ends its request, as     *)
(* does a crash: it is a request that takes no further step.               *)
(***************************************************************************)
EXTENDS Naturals

CONSTANTS
  Users, Orgs, Invitations,     \* ids of rows
  Emails,                       \* addresses that are invited
  Handlers,                     \* requests the API is working on
  None,                         \* no organization, no user
  MaxDate,                      \* bound: values of joinedAt
  MaxRequests                   \* bound: requests

ASSUME MembershipAssumption ==
  /\ None \notin Orgs /\ None \notin Users
  /\ MaxDate \in Nat /\ MaxRequests \in Nat

VARIABLES
  founder,     \* founder[o]: who created the row of o, if it is there
  home,        \* home[u]: the organization u registered with, if it has
  member,      \* member[u][o]: the organization_members row of u in o
  tokens,      \* tokens[u]: what the bearer tokens of u say
  invitation,  \* invitation[i]: its row
  request,     \* request[q]: what handler q is doing
  begun,       \* requests so far
  selfDemoted  \* organizations of which an owner has changed its own role

vars == <<founder, home, member, tokens, invitation, request, begun,
          selfDemoted>>

rows == <<founder, home, member, invitation>>

-----------------------------------------------------------------------------
(* State.  Nobody is invited as OWNER or made one; MEMBER stands for VIEWER *)
(* too, which may do none of what is modelled here either.                 *)

Granted == {"ADMIN", "MEMBER"}
Roles   == Granted \cup {"OWNER"}

(* at is joinedAt, of which only the order within a user matters.          *)
Dates    == 1..MaxDate
Member   == [role : Roles, at : Dates]
NoMember == [role |-> "none", at |-> 0]

Token == [org : Orgs, role : Roles]

NoInvitation == [state |-> "absent", org |-> None, email |-> None,
                 role |-> "none", overlapped |-> FALSE]

Invitation == {NoInvitation} \cup
  [state : {"pending", "expired", "accepted"}, org : Orgs, email : Emails,
   role : Granted, overlapped : BOOLEAN]

(* A request in invite, in accept, or in updateRole or removeMemberHandler,*)
(* by the call it is about to make.  alone says, for the properties, that  *)
(* no request of its kind about the same thing has been open meanwhile.    *)
Idle == [pc |-> "idle"]

Inviting  == [pc : {"create"}, org : Orgs, email : Emails, role : Granted,
              alone : BOOLEAN]
Accepting == [pc : {"membership", "recheck", "commit"}, user : Users,
              token : Invitations, alone : BOOLEAN]
Managing  == [pc : {"update"}, actor : Users, org : Orgs, target : Users, role : Granted]
   \cup [pc : {"delete"}, actor : Users, org : Orgs, target : Users, role : {"none"}]

Request == {Idle} \cup Inviting \cup Accepting \cup Managing

Init ==
  /\ founder = [o \in Orgs |-> None]
  /\ home = [u \in Users |-> None]
  /\ member = [u \in Users |-> [o \in Orgs |-> NoMember]]
  /\ tokens = [u \in Users |-> {}]
  /\ invitation = [i \in Invitations |-> NoInvitation]
  /\ request = [q \in Handlers |-> Idle]
  /\ begun = 0
  /\ selfDemoted = {}

IsMember(u, o) == member[u][o] # NoMember

IsLater(u, t) == \A o \in Orgs : member[u][o].at < t

Join(u, o, role) ==
  \E t \in Dates :
    /\ IsLater(u, t)
    /\ \A earlier \in Dates : IsLater(u, earlier) => t <= earlier
    /\ member' = [member EXCEPT ![u][o] = [role |-> role, at |-> t]]

Begin(q) ==
  /\ request[q] = Idle
  /\ begun < MaxRequests
  /\ begun' = begun + 1

Proceed(q, new) == request' = [request EXCEPT ![q] = new]

(* authenticate and authorize look at a bearer token and at nothing else.  *)
Authenticated(u) == tokens[u] # {}

MayActFor(u, o, roles) == \E t \in tokens[u] : t.org = o /\ t.role \in roles

(* The handler has answered, with a result or an error.                    *)
Answer(q) == Proceed(q, Idle) /\ UNCHANGED begun

Overlapped(r) == [r EXCEPT !.alone = FALSE]

(* q begins; it and others about the same thing are not alone.             *)
BeginAmong(q, new, others) ==
  /\ Begin(q)
  /\ request' = [p \in Handlers |->
       IF p = q /\ others = {} THEN new
       ELSE IF p = q THEN Overlapped(new)
       ELSE IF p \in others THEN Overlapped(request[p])
       ELSE request[p]]

-----------------------------------------------------------------------------
(* register and createOrg: a transaction each, after reads that may refuse *)
(* the request.                                                            *)

CreateOrganization(u, o) ==
  /\ founder[o] = None
  /\ founder' = [founder EXCEPT ![o] = u]
  /\ Join(u, o, "OWNER")

CreateUserWithOrganization(u, o) ==
  /\ home[u] = None
  /\ home' = [home EXCEPT ![u] = o]
  /\ CreateOrganization(u, o)

Issue(u, o, role) ==
  tokens' = [tokens EXCEPT ![u] = @ \cup {[org |-> o, role |-> role]}]

Register(u, o) ==
  /\ CreateUserWithOrganization(u, o)
  /\ Issue(u, o, "OWNER")
  /\ UNCHANGED <<invitation, request, begun, selfDemoted>>

CreateOrg(u, o) ==
  /\ Authenticated(u)
  /\ CreateOrganization(u, o)
  /\ UNCHANGED <<home, tokens, invitation, request, begun, selfDemoted>>

(* Mutant: the latest membership instead of the first.                     *)
IsLatest(u, o) ==
  /\ IsMember(u, o)
  /\ \A p \in Orgs : IsMember(u, p) => member[u][p].at <= member[u][o].at

IsFirst(u, o) ==
  /\ IsMember(u, o)
  /\ \A p \in Orgs : IsMember(u, p) => member[u][o].at <= member[u][p].at

(* Without any membership login is an error.                               *)
Login(u, o) ==
  /\ IsFirst(u, o)
  /\ Issue(u, o, member[u][o].role)
  /\ UNCHANGED <<rows, request, begun, selfDemoted>>

-----------------------------------------------------------------------------
(* invite: is there a pending invitation, and if not a new one.            *)

Pending(o, e) ==
  {i \in Invitations : /\ invitation[i].state = "pending"
                       /\ invitation[i].org = o /\ invitation[i].email = e}

InvitersOf(o, e) ==
  {q \in Handlers : /\ request[q].pc = "create"
                    /\ request[q].org = o /\ request[q].email = e}

BeginInvite(q, o, e, role) ==
  /\ \E u \in Users : MayActFor(u, o, {"OWNER", "ADMIN"})
  /\ BeginAmong(q, [pc |-> "create", org |-> o, email |-> e, role |-> role, alone |-> TRUE],
                InvitersOf(o, e))
  /\ UNCHANGED <<rows, tokens, selfDemoted>>

(* Mutant: a pending invitation is not looked for.                         *)
InviteAnyway(q, o, e, role) == BeginInvite(q, o, e, role)

FindPending(q, o, e, role) == Pending(o, e) = {} /\ BeginInvite(q, o, e, role)

CreateInvitation(q, i) ==
  /\ request[q].pc = "create"
  /\ invitation[i] = NoInvitation
  /\ invitation' = [invitation EXCEPT ![i] =
       [state |-> "pending", org |-> request[q].org, email |-> request[q].email,
        role |-> request[q].role, overlapped |-> ~request[q].alone]]
  /\ Answer(q)
  /\ UNCHANGED <<founder, home, member, tokens, selfDemoted>>

(* Seven days pass.                                                        *)
Expire(i) ==
  /\ invitation[i].state = "pending"
  /\ invitation' = [invitation EXCEPT ![i].state = "expired"]
  /\ UNCHANGED <<founder, home, member, tokens, request, begun, selfDemoted>>

-----------------------------------------------------------------------------
(* accept: three reads, of which two are of the invitation, and then a     *)
(* transaction that relies on them.  The e-mail is not compared.           *)

IsAccepting(q) == request[q].pc \in {"membership", "recheck", "commit"}

TargetOrg(q) == invitation[request[q].token].org

AcceptersOf(u, i) ==
  {q \in Handlers : IsAccepting(q) /\ (request[q].user = u \/ request[q].token = i)}

FindInvitation(q, u, i) ==
  /\ Authenticated(u)
  /\ invitation[i].state = "pending"
  /\ BeginAmong(q, [pc |-> "membership", user |-> u, token |-> i, alone |-> TRUE],
                AcceptersOf(u, i))
  /\ UNCHANGED <<rows, tokens, selfDemoted>>

GoOnIf(q, condition, pc) ==
  /\ Proceed(q, IF condition THEN [request[q] EXCEPT !.pc = pc] ELSE Idle)
  /\ UNCHANGED begun
  /\ UNCHANGED <<rows, tokens, selfDemoted>>

(* Mutant: members may accept, "upsert - safe if they re-accept".          *)
SkipMembership(q) ==
  /\ request[q].pc = "membership"
  /\ GoOnIf(q, TRUE, "recheck")

CheckMembership(q) ==
  /\ request[q].pc = "membership"
  /\ GoOnIf(q, ~IsMember(request[q].user, TargetOrg(q)), "recheck")

Recheck(q) ==
  /\ request[q].pc = "recheck"
  /\ GoOnIf(q, invitation[request[q].token].state = "pending", "commit")

(* The update of the invitation has no condition but its token, and the    *)
(* member's row is inserted or given the invitation's role.                *)
CommitAccept(q) ==
  LET u == request[q].user
      i == request[q].token
      o == TargetOrg(q)
  IN
  /\ request[q].pc = "commit"
  /\ invitation' = [invitation EXCEPT ![i].state = "accepted"]
  /\ IF IsMember(u, o)
       THEN member' = [member EXCEPT ![u][o].role = invitation[i].role]
       ELSE Join(u, o, invitation[i].role)
  /\ Answer(q)
  /\ UNCHANGED <<founder, home, tokens, selfDemoted>>

-----------------------------------------------------------------------------
(* updateRole and removeMemberHandler: the row is looked up, then written. *)

BeginManage(q, pc, u, o, target, role) ==
  /\ Begin(q)
  /\ IsMember(target, o)
  /\ Proceed(q, [pc |-> pc, actor |-> u, org |-> o, target |-> target, role |-> role])
  /\ UNCHANGED <<rows, tokens, selfDemoted>>

FindForUpdate(q, u, o, target, role) ==
  /\ MayActFor(u, o, {"OWNER"})
  /\ BeginManage(q, "update", u, o, target, role)

(* Mutant: members may remove themselves.                                  *)
FindAnyForRemoval(q, u, o, target) ==
  /\ MayActFor(u, o, {"OWNER", "ADMIN"})
  /\ BeginManage(q, "delete", u, o, target, "none")

FindForRemoval(q, u, o, target) ==
  /\ MayActFor(u, o, {"OWNER", "ADMIN"})
  /\ target # u
  /\ BeginManage(q, "delete", u, o, target, "none")

UpdateRole(q) ==
  LET m == request[q] IN
  /\ m.pc = "update"
  /\ IsMember(m.target, m.org)
  /\ member' = [member EXCEPT ![m.target][m.org].role = m.role]
  /\ selfDemoted' = IF m.actor = m.target THEN selfDemoted \cup {m.org} ELSE selfDemoted
  /\ Answer(q)
  /\ UNCHANGED <<founder, home, tokens, invitation>>

DeleteMember(q) ==
  LET m == request[q] IN
  /\ m.pc = "delete"
  /\ IsMember(m.target, m.org)
  /\ member' = [member EXCEPT ![m.target][m.org] = NoMember]
  /\ Answer(q)
  /\ UNCHANGED <<founder, home, tokens, invitation, selfDemoted>>

-----------------------------------------------------------------------------
(* The last call of a request fails, the row it was to write has gone, or  *)
(* its transaction meets another that inserts the same member.             *)
GiveUp(q) ==
  /\ request[q].pc \in {"create", "commit", "update", "delete"}
  /\ Answer(q)
  /\ UNCHANGED <<rows, tokens, selfDemoted>>

Invite(q) ==
  \/ \E o \in Orgs : \E e \in Emails : \E role \in Granted : FindPending(q, o, e, role)
  \/ \E i \in Invitations : CreateInvitation(q, i)

Accept(q) ==
  \/ \E u \in Users : \E i \in Invitations : FindInvitation(q, u, i)
  \/ CheckMembership(q) \/ Recheck(q) \/ CommitAccept(q)

Manage(q) ==
  \/ \E u, target \in Users : \E o \in Orgs :
       \/ \E role \in Granted : FindForUpdate(q, u, o, target, role)
       \/ FindForRemoval(q, u, o, target)
  \/ UpdateRole(q) \/ DeleteMember(q)

Next ==
  \/ \E u \in Users : \E o \in Orgs : Register(u, o) \/ CreateOrg(u, o) \/ Login(u, o)
  \/ \E i \in Invitations : Expire(i)
  \/ \E q \in Handlers : Invite(q) \/ Accept(q) \/ Manage(q) \/ GiveUp(q)

Spec == Init /\ [][Next]_vars

-----------------------------------------------------------------------------
(* Properties.                                                             *)

(* Rows, tokens and requests have their shapes.                            *)
TypeOK ==
  /\ founder \in [Orgs -> Users \cup {None}]
  /\ home \in [Users -> Orgs \cup {None}]
  /\ member \in [Users -> [Orgs -> Member \cup {NoMember}]]
  /\ tokens \in [Users -> SUBSET Token]
  /\ invitation \in [Invitations -> Invitation]
  /\ request \in [Handlers -> Request]
  /\ begun \in 0..MaxRequests
  /\ selfDemoted \subseteq Orgs

(* login's comment on a user without any membership, "Shouldn't happen     *)
(* (registration is atomic)", holds although members are removed: nobody   *)
(* ever removes a user from the organization it registered with.           *)
EveryoneCanLogIn ==
  \A u \in Users : home[u] # None => \E o \in Orgs : IsMember(u, o)

(* Login hands out the first membership, and that is for ever the one of   *)
(* the registration: an invited user joins, and gets no token for what it  *)
(* has joined; nobody acts for an organization but its founder.            *)
TokensForHome == \A u \in Users : \A t \in tokens[u] : t.org = home[u]

(* An organization loses its owner only if the owner changes its own role: *)
(* neither a removal nor an acceptance, in flight or not, takes it away.   *)
OwnerlessNeedsSelfDemotion ==
  \A o \in Orgs : founder[o] # None =>
    o \in selfDemoted \/ \E u \in Users : member[u][o].role = "OWNER"

(* The rows of the members, seen as the promise about owners: a founder    *)
(* stays the one owner until its own request changes its role, whatever    *)
(* acceptances, role changes and removals are in flight meanwhile.         *)
Owners == [o \in Orgs |-> {u \in Users : member[u][o].role = "OWNER"}]

Promise == INSTANCE Ownership WITH owners <- Owners, resigned <- selfDemoted

ImplementsOwnership == Promise!Spec

(* An acceptance that no other of the same invitation or by the same user  *)
(* overlapped uses an invitation that was not used, and makes a member of  *)
(* who was none: no second user on one invitation, no role overwritten.    *)
LoneAcceptJoins ==
  [][\A q \in Handlers : CommitAccept(q) /\ request[q].alone =>
       /\ invitation[request[q].token].state # "accepted"
       /\ ~IsMember(request[q].user, TargetOrg(q))]_vars

(* Two invitations of one e-mail are pending in an organization only if    *)
(* the requests that made them overlapped.                                 *)
OnePendingUnlessOverlap ==
  \A i, j \in Invitations :
    /\ invitation[i].state = "pending" /\ invitation[j].state = "pending"
    /\ invitation[i].org = invitation[j].org
    /\ invitation[i].email = invitation[j].email
    => i = j \/ (invitation[i].overlapped /\ invitation[j].overlapped)

(* auth.repository.ts: "an org without an owner, is an invalid state".     *)
EveryOrgHasOwner ==
  \A o \in Orgs : founder[o] # None => \E u \in Users : member[u][o].role = "OWNER"
=============================================================================
