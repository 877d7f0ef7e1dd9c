--------------------------- MODULE MCCacheIndexes ---------------------------
(* Server 0 runs the cache callbacks, one at a time; all servers read.     *)
EXTENDS CacheIndexes, TLC

CONSTANTS t0, k1, k2

OnlyFirst == (t0 :> 0)

=============================================================================
