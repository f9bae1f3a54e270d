SPECIFICATION Spec
CONSTANTS
  Kinds = {"TRAFFIC", "BACKFILL"}
  Rulesets <- ThreeRulesets
  Reads <- SomePolicies
  Limit = 2
  Statuses = {"completed", "pending", "unknown", "missing", "invalid"}
  MaxAttempts = 3
INVARIANTS TypeOK EveryRulesetOnce SuccessIsStored NothingOmitted
CHECK_DEADLOCK FALSE
