SPECIFICATION Spec
CONSTANTS
  Clients = {c1}
  OwnerOps = {"start", "stop", "pause", "forceenter", "reload_config"}
  AdminOps = {"admin_start", "admin_stop"}
  Payloads <- GuardPayloads
  Params = {p1}
  Exchanges = {e1}
  Events = {"refuse", "lost_reply", "late", "crash", "reboot", "recreate"}
INVARIANTS TypeOK CommandMatchesIntent NoBypass OwnershipHasIntent GuardPauseNeedsGuard Inv
PROPERTY ImplementsMutex
