SPECIFICATION AuditorsSpec
CONSTANTS
  b1 = b1  b2 = b2  d1 = d1  Nil = Nil  Partial = Partial
  Ballots = {b1, b2}
  CredentialOf <- MCCredentialOf
  OpensAt = 0
  ClosesAt = 1
  Threshold = 1
  Horizon = 1
  MaxRestores = 1
  Trustees = {d1}
  Quorums <- MCQuorums
  Runs = {r1, r2}
  Salts = {s1, s2}
  Observers = {o1}
  Jobs = {j1, j2}
CONSTRAINT OneConcern
SYMMETRY Symmetry
INVARIANTS
  TypeOK
  OneTally
  SharesBound
  AlarmsTrue
  ApprovalSound
PROPERTY SeenStaysSeen
