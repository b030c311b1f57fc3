\* Where an owner changes its own role.
SPECIFICATION Spec
CONSTANTS
  None = None
  MaxRequests = 2
  Emails = {address}
  MaxDate = 2
  Users = {ann, bob}
  Orgs = {acme, bolt}
  Invitations = {i1, i2}
  Handlers = {q1}
INVARIANT EveryOrgHasOwner
