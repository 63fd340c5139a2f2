\* Two runs of one step, both at once, a queue of one place, and one crash or
\* shutdown.
SPECIFICATION Spec
CONSTANTS
  MaxJobs = 2
  Client = {c1}
  Workers = 2
  QueueMax = 1
  Ask <- OneStep
  MaxStops = 1
INVARIANT TypeOK
INVARIANT NoLostJob
INVARIANT RunningIsExecuted
INVARIANT ResumedAlone
PROPERTY Implements
CHECK_DEADLOCK FALSE
