CONSTANTS
  TDCount = 5
  QHCount = 3
  BlockCount = 4
  FrameCount = 4
  hub = hub
  keyboard = keyboard
  other = other
  Root = Root
  Devices <- MCDevices
  Kind <- MCKind
  Parent <- MCParent
  PortOf <- MCPortOf
  HubPorts = 2
  Interval = 2
  MaxDevices = 3
  MaxPackets = 2
  StringRequests = 1
  PortTries = 2
  StatusTries = 2
SPECIFICATION Spec
INVARIANTS TypeOK PoolsAgree AddressesAgree
PROPERTY EnumerationEnds
CHECK_DEADLOCK FALSE
