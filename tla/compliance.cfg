SPECIFICATION Spec
CONSTANTS
  pay = pay
  crm = crm
  erp = erp
  modP = modP
  modC = modC
  prd = prd
  dev = dev
  k1 = k1
  k2 = k2
  grp = grp
  roleGrp = roleGrp
  None = None
  Apps = {pay, crm, erp}
  Envs = {prd, dev}
  Kears = {k1, k2}
  Modules = {modP, modC}
  ModuleOf <- Module2
  Groups <- Groups2
  Policies <- SomePolicies
  Inputs <- SomeInputs
INVARIANTS TypeOK MirrorDirection NoKearGuessed OwnIntraAppIsTrue
CHECK_DEADLOCK FALSE
