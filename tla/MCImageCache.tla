---------------------------- MODULE MCImageCache -----------------------------
(* A small instance of ImageCache for TLC: two images, the first of which may be  *)
(* drawn again with another size, in a cache that holds two small ones or a big one. *)
EXTENDS ImageCache

CONSTANTS k1, k2

OneOrTwo(k) == IF k = k1 THEN {1, 2} ELSE {1}
================================================================================
