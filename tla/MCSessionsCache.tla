--------------------------- MODULE MCSessionsCache ---------------------------
(* Instances of SessionsCache for TLC: sessions 1 and 3 are of the same     *)
(* asset.                                                                  *)
EXTENDS SessionsCache, TLC

CONSTANTS r1, r2, x, y

Remotes == <<r1, r2, r1>>

SymmetricPlaces == Permutations({x, y})
=============================================================================
