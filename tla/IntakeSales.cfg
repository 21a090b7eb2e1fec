SPECIFICATION Spec
CONSTANTS
  k1 = k1  k2 = k2
  Contracts = {k1}  Renewals = 1  None = None  Followed = {"sale not succeeded", "event not succeeded"}
INVARIANT OpenedOnce
INVARIANT SaleAccounted
PROPERTY SaleSurfaces
