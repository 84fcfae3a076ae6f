--------------------------- MODULE MCSiteCacheSync ---------------------------
(* The clusters share two sites, and a change of a spec moves a cluster from *)
(* one to the other.                                                         *)
EXTENDS SiteCacheSync

MCSiteOf(c, v) == v % 2
=============================================================================
