SPECIFICATION Spec
SYMMETRY Symmetry
CONSTANTS
  Tenants = {t1, t2}
  NoTenant = NoTenant
  Requests = {r1, r2}
  Unit = 10
  Default <- MCDefault
  Override <- MCOverride
  NoOverride = NoOverride
  PluginType = "internal"
  MaxIdle = 2
  MaxTime = 4
INVARIANTS TypeOK WithinBudget
PROPERTIES NothingWiped
