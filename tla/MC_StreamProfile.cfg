CONSTANTS
  NoStream = NoStream
  PortIds <- MCPortIds
  Sizes <- MCSizes
  Offsets <- MCOffsets
  SPorts <- MCSPorts
  IpBytes <- MCIpBytes
SPECIFICATION Spec
INVARIANT TypeOK
INVARIANT PacketsAsConfigured
