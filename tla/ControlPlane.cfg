\* Three POSTs whose handlers may time out, an operator's edit, a crash, and up
\* to two failing steps in each change.
CONSTANTS
  p1 = p1
  p2 = p2
  p3 = p3
  Posts = {p1, p2, p3}
  Operator = Operator
  Cli = Cli
  Factory = Factory
  Fields <- AllFields
  PortField = "port"
  OverriddenField = "redirects"
  FieldOf <- Ownership
  QueueCap = 2
  Slow = {p1, p2}
  Edits = TRUE
  MaxCrashes = 1
  MaxFaults = 2
SPECIFICATION FairSpec
INVARIANTS
  AcknowledgedIsKept
  ServiceMatchesFile
PROPERTIES
  PostUndoesOnlyLate
  PostIsAnswered
CHECK_DEADLOCK FALSE
