SPECIFICATION Spec
CONSTANTS
  u1 = u1  u2 = u2  p1 = p1  p2 = p2
  NoUser = NoUser  NoLink = NoLink
  Users = {u1}  PSids = {}  Owner <- OneOwner
  Workers = {1}
  GraceDays = 1  PlanDays = 1  StartFloor = 1  MaxAttempts = 2
  RemovalsArmed = TRUE  Overlap = FALSE
  Answers = {"removed", "refused"}
  MaxSubs = 2  Horizon = 2
  MaxBuys = 2  MaxRemote = 0  MaxAdmin = 3  MaxFaults = 0  MaxCrashes = 0
CHECK_DEADLOCK FALSE
INVARIANT EntitledKept
 
PROPERTY ImplementsAccessLife
