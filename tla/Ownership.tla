------------------------------ MODULE Ownership ------------------------------
(***************************************************************************)
(* What the members of an organization may rely on about its owner, with   *)
(* nothing said of tokens, invitations, joining dates or requests that     *)
(* overlap.  Who founds an organization is its one owner; nobody else ever *)
(* becomes one; and only by the owner's own decision is it left without,   *)
(* from then on for good.                                                  *)
(***************************************************************************)
CONSTANTS Users, Orgs, None

VARIABLES
  founder,   \* founder[o]: who founded o, if it exists
  owners,    \* owners[o]: the users whose role in o is OWNER
  resigned   \* the organizations whose owner has given its role up

vars == <<founder, owners, resigned>>

Init ==
  /\ founder = [o \in Orgs |-> None]
  /\ owners = [o \in Orgs |-> {}]
  /\ resigned = {}

Found(u, o) ==
  /\ founder[o] = None
  /\ founder' = [founder EXCEPT ![o] = u]
  /\ owners' = [owners EXCEPT ![o] = {u}]
  /\ UNCHANGED resigned

Resign(o) ==
  /\ owners[o] = {founder[o]}
  /\ owners' = [owners EXCEPT ![o] = {}]
  /\ resigned' = resigned \cup {o}
  /\ UNCHANGED founder

Next == \E o \in Orgs : Resign(o) \/ \E u \in Users : Found(u, o)

Spec == Init /\ [][Next]_vars
=============================================================================
