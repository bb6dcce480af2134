SPECIFICATION SpecDaemon
CONSTANTS
  MaxSpawns = 2
  MaxCrashes = 1
  AutoRestart = TRUE
  JobIds = {"a"}
  MaxJobs = 2
INVARIANTS
  GpuExclusive
