\* Profile commands and generator commands interleave; the server may
\* reject a remove or a load.
CONSTANTS
  g1 = g1
  g2 = g2
  httpUrl = httpUrl
  udpUrl = udpUrl
  badUrl = badUrl
  goodCfg = goodCfg
  badCfg = badCfg
  NoProfile = NoProfile
  Gens <- MCGens
  Rates <- MCRates
  HttpUrls = {httpUrl}
  UdpUrls = {udpUrl}
  BadUrls = {badUrl}
  CfgFiles = {goodCfg, badCfg}
  ValidCfgs = {goodCfg}
  RpcMayFail = TRUE
SPECIFICATION Spec
INVARIANT RatesFollowRequests
PROPERTY RejectKeepsProfile
SYMMETRY MCSymmetry
