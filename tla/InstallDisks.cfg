SPECIFICATION Spec
CONSTANTS
  Disks = {sda, sdb}
  NoDisk = NoDisk
  Live = Live
  MaxRuns = 2
INVARIANTS BothPartitions OnlyVerifiedUnpacked TargetReleased
PROPERTIES WipeNeedsConsent BaseOnTarget Finishes
\* The user may leave it at the last run.
CHECK_DEADLOCK FALSE
