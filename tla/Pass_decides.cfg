SPECIFICATION FairSpec
CONSTANTS
  b1 = b1
  b2 = b2
  q1 = q1
  q2 = q2
  t1 = t1
  t2 = t2
  x1 = x1
  x2 = x2
  Missing = Missing
  Bots = {b1, b2}
  Pairs = {q1, q2}
  Timeframes = {t1, t2}
  Exchanges = {x1, x2}
  Whitelists <- OneAndBoth
  Markets <- TwoExchanges
  Permits = 1
  Events = {"settings", "exchange", "unreachable", "scanner_fails", "not_running", "delete"}
INVARIANT TypeOK
PROPERTIES VerdictIsOwn EveryBotDecided
