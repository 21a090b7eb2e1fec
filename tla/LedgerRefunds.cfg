SPECIFICATION Spec
CONSTANTS
  m1 = m1  m2 = m2  a1 = a1  a2 = a2  q1 = q1  q2 = q2  q3 = q3  q4 = q4
  Members = {m1, m2}  Payments = {q1}  Payer <- PayerOf  Partner <- PartnerOf
  Workers = {1}  BatchIds = {1}
  Price = 14  Amounts = {7}  Periods = {1}
  Automatic = {q1}  Rated = {q1}
  Threshold = 2  VestingMonths = 1  WindowMonths = 3
  Overlap = FALSE
  MaxRefunds = 2  Horizon = 1  MaxLapses = 0  MaxFaults = 1
CHECK_DEADLOCK FALSE
INVARIANT AuditStaysQuiet
INVARIANT ReturnedWithinPrice
INVARIANT RefundReachesCommission
