SPECIFICATION Spec
CONSTANTS
  m1 = m1  m2 = m2  a1 = a1  a2 = a2  q1 = q1  q2 = q2  q3 = q3  q4 = q4
  Members = {m1, m2}  Payments = {q1, q2, q4}  Payer <- PayerOf  Partner <- PartnerOf
  Workers = {1}  BatchIds = {1}
  Price = 10  Amounts = {5}  Periods = {1, 2}
  Automatic = {}  Rated = {q1, q2, q4}
  Threshold = 3  VestingMonths = 2  WindowMonths = 3
  Overlap = FALSE
  MaxRefunds = 1  Horizon = 3  MaxLapses = 1  MaxFaults = 0
CHECK_DEADLOCK FALSE
INVARIANT PendingShareTheGate
INVARIANT BatchKeepsItsWord
PROPERTY ImplementsCommissionLife
