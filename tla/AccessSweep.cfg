SPECIFICATION Spec
CONSTANTS
  u1 = u1  u2 = u2  p1 = p1  p2 = p2
  NoUser = NoUser  NoLink = NoLink
  Users = {u1}  PSids = {p1}  Owner <- OneOwner
  Workers = {1}
  GraceDays = 1  PlanDays = 2  StartFloor = 0  MaxAttempts = 2
  RemovalsArmed = TRUE  Overlap = FALSE
  Answers = {"removed", "refused"}
  MaxSubs = 2  Horizon = 4
  MaxBuys = 1  MaxRemote = 3  MaxAdmin = 0  MaxFaults = 1  MaxCrashes = 0
CHECK_DEADLOCK FALSE
INVARIANT PresenceAccounted
