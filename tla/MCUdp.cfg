SPECIFICATION Spec
CONSTANTS
  c1 = c1
  c2 = c2
  n1 = n1
  ep = ep
  Ep = ep
  Client <- MCClient
  Name <- MCName
  Obj <- MCObj
  Literal <- MCLiteral
  Interfaces <- MCInterfaces
  ServerConfig <- MCServerConfig
  ClientConfig <- MCClientConfig
  Service <- MCService
  Traffic <- MCTraffic
  MaxListed = 2
  MaxQueue = 2
  MaxFaults = 1
SYMMETRY MCSymmetry
INVARIANTS NothingLeftUnread NeverDeaf WritableWhenRoom PortAsConfigured
PROPERTIES KeepsContract
CHECK_DEADLOCK FALSE
