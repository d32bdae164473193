\* The system may stop: the clock, the versions and the announcements are bounded,
\* and a removed poll accepts no request.
SPECIFICATION FairSpec
CONSTANTS
  Requests = {r1}
  Ballots = {b1, b2}
  OpensAt = 1
  ClosesAt = 2
  Threshold = 2
  Horizon = 2
  MaxVersion = 2
  MaxAnnouncements = 4
PROPERTIES
  PublicationCompletes
CHECK_DEADLOCK FALSE
