------------------------- MODULE MCSurfaceRealizer -------------------------
(* Instances of SurfaceRealizer for TLC.  No symmetry: the run checks      *)
(* liveness.                                                               *)
EXTENDS SurfaceRealizer
=============================================================================
