\* Two single steps and one crash or shutdown, or one run of up to three steps and
\* two of them; one worker, a queue with a place for every job.
SPECIFICATION Spec
ACTION_CONSTRAINT TwoOrLong
CONSTANTS
  MaxJobs = 2
  Client = {c1}
  Workers = 1
  QueueMax = 2
  Ask <- Long
  MaxStops = 2
INVARIANT StepsRecorded
PROPERTY QueuedJobsAreDecided
PROPERTY RunningJobsEnd
CHECK_DEADLOCK FALSE
