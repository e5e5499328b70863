----------------------------- MODULE MCPhyTiming -----------------------------
(***************************************************************************)
(* Every whole bit clock up to the fastest the D-PHY has, on every version.*)
(***************************************************************************)
EXTENDS PhyTiming

AllVersions == {2, 3, 4}
AllBitClks == 1..2500
==============================================================================
