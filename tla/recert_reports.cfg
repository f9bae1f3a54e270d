SPECIFICATION ReportSpec
CONSTANTS
  a1 = a1
  a2 = a2
  b1 = b1
  modA = modA
  modB = modB
  prd = prd
  uat = uat
  dev = dev
  e1 = e1
  e2 = e2
  k1 = k1
  k2 = k2
  dir1 = dir1
  Apps = {a1, a2, b1}
  Modules = {modA, modB}
  ModuleOf <- Module3
  Envs = {prd, uat, dev}
  Prd = prd
  Null = Null
  None = None
  Entities = {e1, e2}
  DirOf <- OneDir
  Kears = {k1, k2}
  Lower <- OneKear
  Listed = {a1}
  Workloads <- AllWorkloads
  Policies <- SomePolicies
  Inputs <- SomeInputs
  MaxPublications = 2
  MaxErrors = 1
INVARIANTS AuditIsTrue ConsolidationIsExact
CHECK_DEADLOCK FALSE
