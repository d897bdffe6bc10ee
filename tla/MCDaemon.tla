------------------------------ MODULE MCDaemon ------------------------------
(* Daemon on small instances; both hosts are alike, so the configuration   *)
(* begins with the first of them, and the bridge is enabled.               *)
EXTENDS Daemon

CONSTANT h1

MCInit == Init /\ cfg = [enabled |-> TRUE, host |-> h1] /\ disk = cfg
MCSpec == MCInit /\ [][Next]_vars /\ Fairness

(* Bounds on what happens around the daemon, as action constraints: a tool *)
(* call begins, if at all, before the first request and while main waits,  *)
(* and is over when the first signal comes; and the file system refuses,   *)
(* if at all, what the first request saves.                                *)
EarlyCalls ==
  /\ (asked = {} /\ asked' # {}) => posts = 0 /\ ~shutdown /\ main = "wait"
  /\ (~shutdown /\ shutdown') => asked = {}

EarlyRefusals ==
  (mem' # mem /\ disk' # mem') => posts' = 1
=============================================================================
