------------------------------ MODULE MCFabric ------------------------------
(***************************************************************************)
(* An instance of Fabric for TLC: two topics that share one group, so that *)
(* only the CRC tells them apart, one of them with the CRC 0 that stands   *)
(* in every encrypted header.                                              *)
(***************************************************************************)
EXTENDS Fabric, TLC

CONSTANTS t1, t2, g1, k1

MCTopics == {t1, t2}
MCGroupOf == (t1 :> g1) @@ (t2 :> g1)
DistinctCrcs == (t1 :> 0) @@ (t2 :> 7)
MCOverrides == {2, -1}
=============================================================================
