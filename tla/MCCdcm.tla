------------------------------- MODULE MCCdcm -------------------------------
(* Instances of Cdcm for TLC.                                              *)
EXTENDS Cdcm, TLC

CONSTANTS w1, w2, w3, c1, c2, s1, p1, p2

Plain ==
    [call : {c1, c2}, session : {s1}, local : {FALSE}, actions : {1}, malformed : {FALSE}]

Pair ==
    [call : {c1}, session : {s1}, local : {FALSE}, actions : {2}, malformed : {FALSE}]

Single ==
    [call : {c1}, session : {s1}, local : {FALSE}, actions : {1}, malformed : {FALSE}]

Symmetric == Permutations({w1, w2, w3}) \cup Permutations({p1, p2}) \cup Permutations({c1, c2})
=============================================================================
