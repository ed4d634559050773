SPECIFICATION Spec
CONSTANTS
  Strategies = {"off", "trend"}
  DefaultStrategy = "off"
  Timeframes = {"5m", "1h"}
  DefaultTimeframe = "5m"
  Spelling <- Spellings
  DefaultPairs <- Pairs
  LiveMaxCapital = 25
  LiveMinStake = 10
  DefaultExchange = "binance"
  DryRunFee <- Fees
  DefaultDryRunFee = 26
  ValidateExchangeKeys = TRUE
  Handlers = {h1}
  Requests = {}
  Ops = {"live", "update_config"}
  Keys <- AllKeys
  Payloads <- Edits
  Blobs <- OldBlobs
  MaxOps = 2
  MaxOpsServed = 0
  Events = {"docker_fails", "restart"}
INVARIANT DryRowMeansDry
CHECK_DEADLOCK FALSE
