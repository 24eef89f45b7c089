SPECIFICATION Spec
CONSTANTS
  Tenant = {acme, globex}
  Strict = FALSE
INVARIANTS TenantBound ServedWasAdmitted
