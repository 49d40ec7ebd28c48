SPECIFICATION Spec
CONSTANTS
  NoRequest = NoRequest
  Request <- MCRequest
  Offered = {"approve_once", "deny"}
INVARIANT HandlerNeverCrashes
