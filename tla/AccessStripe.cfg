SPECIFICATION Spec
CONSTANTS
  u1 = u1  u2 = u2  p1 = p1  p2 = p2
  NoUser = NoUser  NoLink = NoLink
  Users = {u1}  PSids = {p1}  Owner <- OneOwner
  Workers = {1, 2}
  GraceDays = 1  PlanDays = 2  StartFloor = 0  MaxAttempts = 2
  RemovalsArmed = TRUE  Overlap = TRUE
  Answers = {"removed"}
  MaxSubs = 3  Horizon = 3
  MaxBuys = 2  MaxRemote = 2  MaxAdmin = 0  MaxFaults = 0  MaxCrashes = 0
CHECK_DEADLOCK FALSE
INVARIANT OneClaimant
INVARIANT PayingOrNamed
