CONSTANTS
  Retargets = TRUE
  Bytes <- MCBytes
  MaxPasses = 12
  Limits <- MCLimits
  Scopes <- MCScopes
  Refusals <- MCRefusals
  Faults <- MCFaults
SPECIFICATION Spec
INVARIANTS CollapseExact PoolIsTrue NothingVanishes 
