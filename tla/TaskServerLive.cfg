\* Two POSTs and two GETs under fair scheduling, without symmetry.
CONSTANTS
  r1 = r1
  r2 = r2
  r3 = r3
  q1 = q1
  q2 = q2
  NoTask = NoTask
  Request = {r1, r2}
  Reader = {q1, q2}
  TaskId <- MCTaskId
  Body <- MCLiveBody
SPECIFICATION FairSpec
PROPERTIES
  ReportsNeverRetract
  ServiceSpec
  PostsAnswered
  CreatedEnds
