\* The system may stop: requests end, the clock is bounded, and an election that
\* was never registered cannot be once its deadline has passed.
SPECIFICATION Spec
CONSTANTS
  Nil = Nil
  b1 = b1
  b2 = b2
  b3 = b3
  b1x = b1x
  Requests = {r1, r2, r3}
  Ballots = {b1, b1x, b2, b3}
  CredentialOf <- MCCredentialOf
  Setups = {s1, s2}
  ShareBytes = {d1}
  OpensAt = 1
  ClosesAt = 2
  Threshold = 3
  Horizon = 2
  MaxCheckpoints = 3
INVARIANTS
  TypeOK
  BoxConsistent
  AcknowledgedAnnounced
PROPERTIES
  ClosedSetFrozen
  ElectionSpec
CHECK_DEADLOCK FALSE
SYMMETRY RequestSymmetry
