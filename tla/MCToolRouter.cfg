SPECIFICATION Spec
CONSTANTS
  key = key
  c1 = c1
  c2 = c2
  u1 = u1
  u2 = u2
  tenant = tenant
  Names = {"nmap", "sqlmap"}
  MaxIndex = 3
  Keys = {key}
  Results <- RouterResults
  NoResult = NoResult
  Payers = {u1, u2, tenant}
  Limits <- MCLimits
  Estimate = 1
  MaxCost = 2
  Calls = {c1, c2}
  KeyOf <- MCKeyOf
  PayersOf <- MCPayersOf
INVARIANTS
  TypeOK
  OnlyCacheableIsCached
  OvershootIsBounded
