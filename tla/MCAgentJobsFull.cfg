\* More queued jobs on disk than places in the queue.
SPECIFICATION Spec
CONSTANTS
  MaxJobs = 2
  Client = {c1}
  Workers = 1
  QueueMax = 1
  Ask <- OneStep
  MaxStops = 1
PROPERTY QueuedJobsAreDecided
CHECK_DEADLOCK FALSE
