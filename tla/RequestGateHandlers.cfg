SPECIFICATION Spec
CONSTANTS
  Requests = {q1, q2, q3, q4, q5}
  ActiveRequests = 2
  QueuedRequests = 2
INVARIANT
  HandlersBounded
