SPECIFICATION Spec
CONSTANTS
  t1 = t1  t2 = t2  b1 = b1  Nil = Nil
  Browsers = {b1}
  Tabs = {t1, t2}
  BrowserOf <- MCBrowserOf
  Requests = {q1, q2}
  Credentials = {c1, c2}
  Answers = {yes, no}
  PerCredential = 2
  CredentialWindow = 2
  Global = 3
  GlobalWindow = 3
  Concurrent = 1
  Horizon = 3
CONSTRAINT OneConcern
SYMMETRY Symmetry
INVARIANTS
  TypeOK
  MessagesTrue
  ShownResultsReal
  ChatLimited
PROPERTY FinalResponse
