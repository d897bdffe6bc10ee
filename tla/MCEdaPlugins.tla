---------------------------- MODULE MCEdaPlugins ----------------------------
(* EdaPlugins on small instances: main gives its order in the calls that   *)
(* run one at a time; the other calls run without one, or beside one that  *)
(* switched their program off with a single connection.                    *)
EXTENDS EdaPlugins

OrdersInSerialCalls ==
  \A c \in Calls :
    \/ call[c].app \in Serial \/ orders = 0
    \/ ~enabled[call[c].app] /\ \A s \in Ids : s > 1 => reader[s].at = "none"
=============================================================================
