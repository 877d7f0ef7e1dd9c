----------------------------- MODULE MCGetPath -----------------------------
(* Two servers, of which only the second keeps a key it fetched from disk.  *)
EXTENDS GetPath, TLC

CONSTANTS c1, c2, k1, k2

SecondHasK1 == (0 :> {}) @@ (1 :> {k1})

\* The leader c1 may be owed a response when it asks again.
Asker == (1 :> c1) @@ (2 :> c1) @@ (3 :> c2)


\* Each server is asked for a key that the other may forward to it.
Chunks == (c1 :> {<<k1, 0>>, <<k2, 1>>}) @@ (c2 :> {<<k1, 1>>})

=============================================================================
