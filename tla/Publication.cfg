\* The system may stop: the clock, the versions and the announcements are bounded,
\* and a removed poll accepts no request.
SPECIFICATION Spec
CONSTANTS
  Requests = {r1, r2}
  Ballots = {b1, b2}
  OpensAt = 1
  ClosesAt = 2
  Threshold = 2
  Horizon = 2
  MaxVersion = 2
  MaxAnnouncements = 4
INVARIANTS
  TypeOK
  OutcomeBacked
  ApprovedContentFrozen
PROPERTIES
  LifecycleUnlessStale
CHECK_DEADLOCK FALSE
SYMMETRY Symmetry
