SPECIFICATION FairSpec
CONSTANTS
  u1 = u1  u2 = u2  p1 = p1  p2 = p2
  NoUser = NoUser  NoLink = NoLink
  Users = {u1}  PSids = {}  Owner <- OneOwner
  Workers = {1}
  GraceDays = 1  PlanDays = 1  StartFloor = 0  MaxAttempts = 2
  RemovalsArmed = TRUE  Overlap = TRUE
  Answers = {"refused", "flood"}
  MaxSubs = 1  Horizon = 2
  MaxBuys = 1  MaxRemote = 0  MaxAdmin = 2  MaxFaults = 1  MaxCrashes = 1
CHECK_DEADLOCK FALSE
PROPERTY LapseSettles
PROPERTY BanSettles
