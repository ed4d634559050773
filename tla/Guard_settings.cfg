SPECIFICATION Spec
CONSTANTS
  Clients = {c1, c2}
  OwnerOps = {}
  AdminOps = {}
  Payloads <- AllPayloads
  Params = {p1, p2}
  Exchanges = {e1, e2}
  Events = {"recreate"}
PROPERTIES SettingsKept FreshVerdict
SYMMETRY Symmetry
