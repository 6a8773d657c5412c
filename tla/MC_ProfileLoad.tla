--------------------------- MODULE MC_ProfileLoad ---------------------------
EXTENDS ProfileLoad

CONSTANTS httpUrl, udpUrl, badUrl, goodCfg, badCfg
=============================================================================
