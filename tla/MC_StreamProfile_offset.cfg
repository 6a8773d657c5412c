\* --offset is accepted unchecked (lines 36-39).
CONSTANTS
  NoStream = NoStream
  PortIds <- MCPortIds
  Sizes = {64}
  Offsets = {0, 255}
  SPorts = {1234}
  IpBytes <- MCIpBytes
SPECIFICATION Spec
INVARIANT AddressesValid
