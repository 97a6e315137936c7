---- MODULE MCBufferPool ----
(* An instance of BufferPool for TLC: with 2 frames (8 buckets) all three *)
(* pages hash to the last bucket, so that their probe sequences collide   *)
(* and wrap around the end of the map.                                    *)
EXTENDS BufferPool, TLC

CollidingPages == {<<3, 2>>, <<3, 10>>, <<4, 3>>}

Symmetry == Permutations(Users)
====
