SPECIFICATION FairSpec
CONSTANTS
  user = user
  tenant = tenant
  Key = {user, tenant}
  t1 = t1
  t2 = t2
  Tx = {t1, t2}
  Body <- MCBody
  BodyOf <- MCBodyOf
  MaxBody = 2
  MaxTries = 2
  MaxAttempts = 2
INVARIANTS PublishedWasSent CleanStop
PROPERTIES OrderedPublication EventsSettle
