\* Two tabs, channels of one message, two changes.
SPECIFICATION FairSpec
CONSTANTS
  p1 = p1
  p2 = p2
  c1 = c1
  c2 = c2
  k1 = k1
  k2 = k2
  Changes = {k1, k2}
  Handlers = {"hub"}
  Payloads = {"action", "row", "garbled"}
  Clients = {c1, c2}
  Properties = {p1, p2}
  PropertyOf <- TwoTabs
  Subject <- AllOfOne
  BufferSize = 1
  MaxSSEClients = 1
CHECK_DEADLOCK FALSE
INVARIANT TypeOK
INVARIANT NothingMissedSilently
INVARIANT SendsReachOpenChannels
INVARIANT StoppedIsQuiet
PROPERTY ChangesAreTold
