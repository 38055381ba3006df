---------------------------- MODULE MCGeoResolver -----------------------------
(* Instances of GeoResolver for TLC. *)
EXTENDS GeoResolver, TLC

Symmetry == Permutations(Lookups)
===============================================================================
