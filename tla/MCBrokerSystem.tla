--------------------------- MODULE MCBrokerSystem ---------------------------
(* Instances of BrokerSystem for TLC.                                      *)
EXTENDS BrokerSystem, TLC

CONSTANTS w1, w2, c1, c2, s1

Wide ==
    [call : {c1, c2}, session : {s1}, local : {TRUE}, actions : {1}, malformed : {TRUE}]

Plain ==
    [call : {c1, c2}, session : {s1}, local : {FALSE}, actions : {1}, malformed : {FALSE}]

Single ==
    [call : {c1}, session : {NoSession}, local : {FALSE}, actions : {0, 1}, malformed : {FALSE}]

SymmetricWorkers == Permutations({w1, w2})

Symmetric == SymmetricWorkers \cup Permutations({c1, c2})
=============================================================================
