SPECIFICATION Spec
CONSTANTS
  Nil = Nil  Whole = Whole  Partial = Partial
  Persons = {p1, p2}
  Providers = {v1}
  Pages = {g1}
  Requests = {r1, r2}
  Attempts = {a1, a2}
  Tokens = {s1, s2}
  Polls = {k1, k2}
  Trustees = {d1, d2}
  AttemptLife = 1
  SessionLife = 1
  ClosesAt = 1
  MaxTries = 2
  Horizon = 1
CONSTRAINT OneConcern
SYMMETRY Symmetry
INVARIANTS
  TypeOK
  OneSessionPerAttempt
  SignedInAsChosen
  OneElection
  PublishedIsComplete
