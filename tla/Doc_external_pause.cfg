SPECIFICATION Spec
CONSTANTS
  Clients = {c1}
  OwnerOps = {"start"}
  AdminOps = {}
  Payloads <- GuardPayloads
  Params = {p1}
  Exchanges = {e1}
  Events = {"refuse", "external_pause"}
PROPERTY ExternalPauseLeftAlone
