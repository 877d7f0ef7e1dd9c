--------------------------- MODULE MCOffsetReads ---------------------------
(* Two clients, of which the leader c1 may be owed an answer when it asks    *)
(* again.  Key 2 lies on node 0 with the last key, 7, which nobody preloads; *)
(* key 3 lies on node 1, whose server is Self and may have it cached.        *)
EXTENDS OffsetReads, TLC

CONSTANTS c1, c2

Asker == (1 :> c1) @@ (2 :> c1) @@ (3 :> c2)

Keys == (c1 :> {2, 3}) @@ (c2 :> {2, 7})

=============================================================================
