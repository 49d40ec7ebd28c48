SPECIFICATION OperatorSpec
CONSTANTS
  NoRequest = NoRequest
  Request <- MCTwo
  Offered = {"approve_once", "approve_all_similar", "guidance"}
INVARIANT TypeOK
INVARIANT NoPreApproval
INVARIANT Authority
INVARIANT TerminalNotAsking
PROPERTY AckTakesEffect
PROPERTY Answered
PROPERTY ImplementsContract
