CONSTANTS
  segv = segv
  abrt = abrt
  usr = usr
  app = app
  worker = worker
  h1 = h1
  u1 = u1
  Signals <- MCSignals
  SyncSignals = {segv}
  AbortSignals = {abrt}
  IgnoredByDefault = {usr}
  Natives = {app}
  Workers = {worker}
  Main = app
  Handlers = {h1}
  UserFns = {u1}
  UserActions <- MCUserActions
  UserSets = {"set"}
  Filled <- MCFilled
  Entries <- MCEntries
  MaxRaises = 2
  MaxCalls = 3
  MaxHandlers = 2
  MaxFrames = 2
SPECIFICATION Spec
INVARIANTS MarkClearedOutside OneSynchronousHandler ProgramSeesItsActions MarkedStaysOpen NoWildCall
CHECK_DEADLOCK FALSE
