SPECIFICATION Spec
CONSTANTS
  Entries <- MCEntries
  Notifs <- MCNotifs
  Unset <- MCUnset
  InitSize = 7
  StartSize = 3
  MaxPending = 8
INVARIANTS
  NotifsCounted
PROPERTY QueueSpec
