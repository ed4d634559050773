SPECIFICATION FairSpec
CONSTANTS
  Clients = {c1}
  OwnerOps = {"start", "stop", "pause"}
  AdminOps = {"admin_start", "admin_stop"}
  Payloads <- GuardPayloads
  Params = {p1}
  Exchanges = {e1}
  Events = {"refuse", "lost_reply", "crash", "reboot", "external_pause"}
PROPERTY Converges
