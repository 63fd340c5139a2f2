\* A job that is cancelled while it finishes.
SPECIFICATION Spec
CONSTANTS
  MaxJobs = 1
  Client = {c1}
  Workers = 1
  QueueMax = 1
  Ask <- OneStep
  MaxStops = 1
PROPERTY CancelledStays
CHECK_DEADLOCK FALSE
