SPECIFICATION Spec
CONSTANTS
  v1 = v1  a1 = a1  m1 = m1  t1 = t1  t2 = t2  s1 = s1  s2 = s2  c1 = c1  c2 = c2
  p1 = p1  p2 = p2  n1 = n1  r1 = r1  r2 = r2  m2 = m2  m3 = m3
  Videos = {v1}  Albums = {a1}  Manual = {m1}  Titles = {t1, t2}  Syncs = {s1, s2}  None = None
  Links = {1, 2, 3}  Sessions = {1, 2, 3}  Clicks = {c1, c2}  LinkCap = 2  DeviceCap = 1
  People = {p1, p2}  Names = {n1}  Rooms = {r1, r2}  NoId = NoId
  Rosters <- OneRoster  Allowlists <- TwoLists  Settings <- TwoEnvironments
  Answers = {"done", "half", "refused"}  MaxPays = 1  MaxKicks = 2  MaxRuns = 1  MaxChecks = 1
  k1 = k1  k2 = k2  h1 = h1
  Contracts = {k1, k2}  Stripe = {k2}  RowIds = {1, 2}  Presses = {h1}  OneTime = {"usdt"}  NoContract = NoContract
  Members = {m2, m3}  Window = 2  Term = 3  MaxLeft = 4  Unsent = Unsent
SYMMETRY AnyRun
INVARIANT PruneSticks
INVARIANT RenameSticks
INVARIANT PagesAgree
INVARIANT LinkOpensOne
INVARIANT WithinCap
INVARIANT PlanIsExact
INVARIANT Accounted
INVARIANT GateTellsJob
PROPERTY RevokedStays
INVARIANT ToldOnce
PROPERTY ToldBeforeEnd
INVARIANT FlagIsProof
INVARIANT RefusalStaysOpen
