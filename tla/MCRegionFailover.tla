-------------------------- MODULE MCRegionFailover --------------------------
(* Finite values for the constants of RegionFailover. *)
EXTENDS RegionFailover

CONSTANTS east, west, south

MCRegions == {east, west, south}

(* Auto-detection knows where to fail the first primary over to. *)
MCPreferred == [r \in MCRegions |-> CASE r = east -> west [] r = west -> east [] OTHER -> None]
=============================================================================
