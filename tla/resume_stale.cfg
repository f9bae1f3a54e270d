SPECIFICATION Spec
CONSTANTS
  Kinds = {"BACKFILL"}
  Rulesets <- ThreeRulesets
  Reads <- OnePolicy
  Limit = 2
  Statuses = {"completed", "pending", "missing"}
  MaxAttempts = 3
INVARIANTS NoBlockingRow
CHECK_DEADLOCK FALSE
