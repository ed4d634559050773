SPECIFICATION Spec
CONSTANTS
  Requests = {r1, r2}
  Clients = {c1, c2}
  Bots = {b1}
  Calls = {"profit"}
  Answers <- OddAnswer
  Budget = 2
  Window = 2
  Ttl = 1
  TechnicalTtl = 2
  CollectTime = 1
  MaxTime = 3
  MaxArrivals = 4
INVARIANTS TypeOK 
PROPERTIES ServedFresh RateExact NoIdleBuckets BurstSharesOne OneCollection Answered
CHECK_DEADLOCK FALSE
