--------------------------- MODULE MC_ModChannels ---------------------------
(* Two channels, three servers one after the other.                        *)
EXTENDS ModChannelsInv, TLC

Symmetry == Permutations(Channels)
=============================================================================
