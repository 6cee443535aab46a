\* A handler's 15 seconds may pass while its change is queued or applied.
CONSTANTS
  p1 = p1
  p2 = p2
  p3 = p3
  Posts = {p1, p2, p3}
  Operator = Operator
  Cli = Cli
  Factory = Factory
  Fields <- AllFields
  PortField = "port"
  OverriddenField = "redirects"
  FieldOf <- Ownership
  QueueCap = 4
  Slow = {p1, p2, p3}
  Edits = FALSE
  MaxCrashes = 0
  MaxFaults = 0
SPECIFICATION Spec
PROPERTIES
  PostKeepsOthers
CHECK_DEADLOCK FALSE
