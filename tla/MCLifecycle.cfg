\* Configuration, life of the process and object storage.
SPECIFICATION Spec
CONSTANTS
  Unset = Unset
  Garbage = Garbage
  NaN = NaN
  Environments <- MCEnvironments
  Requests = {r1, r2}
  LifeHorizon = 2
  Users <- MCUsers
  Names = {"a"}
  Keys <- MCKeys
  Calls = {c1, c2}
  Instances = {i1, i2}
  MaxRestarts = 1
CHECK_DEADLOCK FALSE
INVARIANTS ProductionFailsClosed ReadinessSeesOutage DrainsBeforeClosing WithinCeiling BucketBeforeObjects
PROPERTIES ShutdownEnds OnlyOwnersDelete
