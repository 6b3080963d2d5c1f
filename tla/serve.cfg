CONSTANTS
  r1 = r1
  r2 = r2
  r3 = r3
  Requests = {r1, r2, r3}
  PoolSize = 1
  FailOpen = {r1}
SPECIFICATION RunSpec
CHECK_DEADLOCK FALSE
INVARIANTS
  GracefulStop
  AdminOutlivesUploads
  LogOutlivesJobs
PROPERTIES
  SignalStops
  UploadAnswered
