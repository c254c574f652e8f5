--------------------------- MODULE MCWifiRecovery ---------------------------
(* Two profiles of one SSID: a change of the PSK, which the link probe       *)
(* cannot tell from the old network.                                         *)
EXTENDS WifiRecoveryInv, TLC
CONSTANTS n1, n2
MCNets   == {n1, n2}
MCSsidOf == [n \in MCNets |-> "ssid"]
Symmetry == Permutations(Ops) \cup Permutations(MCNets)
=============================================================================
