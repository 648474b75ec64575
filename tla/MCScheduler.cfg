SPECIFICATION SchedulerFairSpec
CONSTANTS
  s1 = s1
  JobNames = {"cleanup"}
  Defaults = {"cleanup"}
  AutoStart = {}
  Slots = {s1}
  RetryOptions = {0}
  MaxCrons = 1
  MaxRuns = 2
PROPERTIES
  JobsRun
