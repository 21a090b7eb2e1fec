SPECIFICATION Spec
CONSTANTS
  a1 = a1  a2 = a2  i1 = i1  i2 = i2  x1 = x1  x2 = x2  x3 = x3  t1 = t1  t2 = t2
  Members = {a1, a2}  Inviters = {i1, i2}  NoOne = NoOne  Invited <- InvitedBy
  Code <- PercentCode  Price = 5000  SlotDays = 1
  Desks = {t1, t2}  Ways <- MixedWays  Links <- OneLink
  Hashes = {x1}  Chain <- Transfers  LavaCurrency = "USD"
  Cap = 1  Caps = {1}  GiftDays = 1
  MaxPayments = 2  MaxStarts = 4  LastDay = 1
CHECK_DEADLOCK FALSE
SYMMETRY AnyDesk
INVARIANT DiscountBacked
INVARIANT TransferPaysOnce
PROPERTY ImplementsSaleLife
