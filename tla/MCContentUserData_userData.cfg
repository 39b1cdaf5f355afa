SPECIFICATION Spec
CONSTANTS
  Contents = {c1, c2}
  Users = {"u1", "u2"}
  Slots = {"s1", "s2", "result"}
  Contexts <- MCContexts
  Entries <- MCEntries
  Rights <- MCRights
  Requests = {r1, r2}
  NoAnswer = NoAnswer
  Environments <- MCEnvironments
  MaxRequests = 3
SYMMETRY Symmetry
INVARIANT TypeOK
INVARIANT OnlySubmitted
PROPERTY ImplementsUserDataStore
PROPERTY UserIsForgotten
CHECK_DEADLOCK FALSE
