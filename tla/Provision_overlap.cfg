SPECIFICATION Spec
CONSTANTS
  Strategies = {"off", "trend"}
  DefaultStrategy = "off"
  Timeframes = {"5m", "1h"}
  DefaultTimeframe = "5m"
  Spelling <- Spellings
  DefaultPairs <- Pairs
  LiveMaxCapital = 25
  LiveMinStake = 10
  DefaultExchange = "binance"
  DryRunFee <- Fees
  DefaultDryRunFee = 26
  ValidateExchangeKeys = TRUE
  Handlers = {h1, h2}
  Requests = {q1, q2}
  Ops = {"provision", "rotate", "live", "dry", "set_exchange", "delete_exchange", "update_config", "delete_user"}
  Keys <- AllKeys
  Payloads <- Edits
  Blobs <- OldBlobs
  MaxOps = 3
  MaxOpsServed = 1
  Events = {"docker_fails", "crash", "restart", "locked", "expire", "unreachable"}
INVARIANTS TypeOK LiveFileIsSafe FileBoots LoneLaunchAgrees KeysVouchedFor FreshRequestServed
SYMMETRY Symmetry
CHECK_DEADLOCK FALSE
