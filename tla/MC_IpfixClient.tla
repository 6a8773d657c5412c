--------------------------- MODULE MC_IpfixClient ---------------------------
(* Two generators, two rates, and one URL or file of each kind the        *)
(* profile commands tell apart.                                            *)
EXTENDS IpfixClient, TLC

CONSTANTS g1, g2, httpUrl, udpUrl, badUrl, goodCfg, badCfg

MCGens == {g1, g2}
MCRates == {1, 3}

(* Generators are interchangeable: no command depends on a name.          *)
MCSymmetry == Permutations(MCGens)
=============================================================================
