SPECIFICATION Spec
CONSTANTS
  Clients = {c1}
  OwnerOps = {"start", "stop", "pause"}
  AdminOps = {"admin_start", "admin_stop"}
  Payloads <- AllPayloads
  Params = {p1, p2}
  Exchanges = {e1}
  Events = {"reboot", "recreate", "external_pause"}
INVARIANTS PauseShownHonestly AckedStopHolds
PROPERTY ExternalPauseLeftAlone
