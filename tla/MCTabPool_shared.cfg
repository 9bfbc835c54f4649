CONSTANTS
  c1 = c1
  c2 = c2
  c3 = c3
  a1 = a1
  a2 = a2
  t1 = t1
  t2 = t2
  t3 = t3
  Callers = {c1, c2, c3}
  Closers = {c2}
  Accounts = {a1, a2}
  AccountOf <- TwoAccounts
  Tabs = {t1, t2, t3}
  MaxTabs = 2
  MaxUses = 2
  FaultKinds = {"cancel", "idle", "browser"}
  MaxFaults = 1
SPECIFICATION Spec
INVARIANTS
  TypeOK
  TabIsExclusive
  ReusedIsOpen
  NothingIsLost
