\* Three priorities (telemetry, control, emergency) and room for three packets:
\* eviction, refusal and ties of the time stamp all happen.
CONSTANTS
  Priorities = {1, 2, 4}
  QueueLimit = 3
  MaxArrivals = 7
  MaxTime = 2
SPECIFICATION Spec
PROPERTIES LossSparesHigherPriority KeepsLanes
\* The queue really may come to rest: every arrival made and served.
CHECK_DEADLOCK FALSE
