\* Two users, an organization of each or two of one, two invitations of one
\* address, and five requests, up to three at a time.
SPECIFICATION Spec
CONSTANTS
  None = None
  MaxRequests = 5
  Emails = {address}
  MaxDate = 2
  Users = {ann, bob}
  Orgs = {acme, bolt}
  Invitations = {i1, i2}
  Handlers = {q1, q2, q3}
SYMMETRY Symmetry
INVARIANTS
  EveryoneCanLogIn
  TokensForHome
  OnePendingUnlessOverlap
PROPERTIES
  LoneAcceptJoins
  ImplementsOwnership
