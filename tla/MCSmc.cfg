CONSTANTS
  f1 = f1
  f2 = f2
  Fans = {f1, f2}
  NoFan = NoFan
  Operations <- AllOperations
  Quirks = {"testless", "reforces"}
  MaxNotices = 2
SPECIFICATION PowerSpec
PROPERTIES ContractKept ConfirmedIsInForce SleepIsOrderly
