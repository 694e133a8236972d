----------------------------- MODULE MCCapSpace -----------------------------
(* The capability slots with the memory requests of the TLC runs.          *)
EXTENDS CapSpaceInvariant

NoRequests == {}

(* Memory objects of whole pages, and an empty one.                        *)
PageRequests == {<<2, 2>>, <<0, 0>>}

(* A memory object of less than a page.                                    *)
SmallRequests == {<<1, 1>>}
=============================================================================
