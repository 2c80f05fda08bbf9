SPECIFICATION SessionSpec
CONSTANTS
  Symbols = {spy}
  HardFlat = hard_flat
  EmergencyFlat = emergency_flat
  Manage = manage
  Exit = exit
  Entry = entry
  Keys = {hard_flat, emergency_flat, manage, exit, entry}
  Identities = {sig}
  NoIdentity = NoIdentity
  Sentinel = Sentinel
  Idle = Idle
  MaxTasks = 3
INVARIANTS
  SessionTypeOK
  TasksAccountedFor
  FifoExactlyOnce
  FlattenedStaysFlat
  OneCloseUnlessStale
PROPERTIES
  EveryTaskRuns
CHECK_DEADLOCK FALSE
