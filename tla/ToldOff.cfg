SPECIFICATION CancelSpec
CHECK_DEADLOCK FALSE
CONSTANTS
  k1 = k1  k2 = k2  h1 = h1
  Contracts = {k1, k2}  Stripe = {k2}  RowIds = {1}  Presses = {h1}  OneTime = {"usdt"}  NoContract = NoContract
INVARIANT ToldOff
