\* remove_profile and load_profile may raise.
CONSTANTS
  httpUrl = httpUrl
  udpUrl = udpUrl
  badUrl = badUrl
  goodCfg = goodCfg
  badCfg = badCfg
  NoProfile = NoProfile
  HttpUrls = {httpUrl}
  UdpUrls = {udpUrl}
  BadUrls = {badUrl}
  CfgFiles = {goodCfg, badCfg}
  ValidCfgs = {goodCfg}
  RpcMayFail = TRUE
SPECIFICATION Spec
PROPERTY AtomicReplace
