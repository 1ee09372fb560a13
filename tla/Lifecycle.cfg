\* Two tasks and main contend for the clients; a task of two keys can be cut
\* in the middle.  The system stops when the process has ended.
CONSTANTS
  Requests = {r1, r2}
  Main = m
  NoOne = noOne
  Count = 2
SPECIFICATION Spec
INVARIANTS
  TypeOK
  ShutdownClosesEveryClient
  SucMeansAllWritten
PROPERTIES
  GenerationEnds
  ProcessExits
CHECK_DEADLOCK FALSE
