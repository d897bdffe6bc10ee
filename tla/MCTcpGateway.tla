---------------------------- MODULE MCTcpGateway ----------------------------
(* TcpGateway on small instances: one tool, which each satellite offers   *)
(* or not; of equal offers the one of the higher id is better.             *)
EXTENDS TcpGateway

CONSTANT t

OneCatalogue == {{}, {[name |-> t, score |-> 1]}}
=============================================================================
