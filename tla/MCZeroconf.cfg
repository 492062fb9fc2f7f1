SPECIFICATION Spec
CONSTANTS
  a1 = a1
  a2 = a2
  b1 = b1
  c1 = c1
  sa = sa
  sb = sb
  sc = sc
  x = x
  y = y
  ea = ea
  NoName = NoName
  Own = b1
  Record <- MCRecord
  SvcOf <- MCSvcOf
  AddrOf <- MCAddrOf
  Svc <- MCSvc
  Addr <- MCAddr
  Endpoint <- MCEndpoint
  EndpointOf <- MCEndpointOf
  Claims <- MCClaims
  MaxEvents = 4
INVARIANTS KnowsTheNetwork LooksUpWhatItTells
PROPERTIES EventuallyKnown
CHECK_DEADLOCK FALSE
