\* A crash while a cancelled job is still being executed.
SPECIFICATION Spec
CONSTANTS
  MaxJobs = 1
  Client = {c1}
  Workers = 1
  QueueMax = 1
  Ask <- OneStep
  MaxStops = 1
PROPERTY RestartInterrupts
CHECK_DEADLOCK FALSE
