----------------------------- MODULE EdaBridge ------------------------------
(***************************************************************************)
(* EdaBridge (src/src/EdaBridge.cxx): the daemon's side of the bridge to   *)
(* the EDA programs of a workstation.  It keeps the configuration, whether *)
(* the last exchange with the workstation worked, and runs tool calls      *)
(* there.                                                                  *)
(*                                                                         *)
(* _mutex guards all of it and is not recursive.  Every section under it   *)
(* is one step here, for none waits for anything, but one: probeNow() of a *)
(* disabled bridge calls getStatus() while it holds the mutex.  Exchanges  *)
(* with the workstation run without it, on a copy of the configuration, so *)
(* their results arrive in whatever configuration there is by then.        *)
(*                                                                         *)
(* The tools of the status, the log of calls, the accelerators and what    *)
(* the tools do to the design are left out; what a call does to an edit is *)
(* in EdaPlugins.                                                          *)
(***************************************************************************)
CONSTANTS
  Hosts,     \* addresses the configuration can name
  NoHost, NoOne

ASSUME BridgeAssumption == NoHost \notin Hosts

VARIABLES
  cfg,       \* _config: enabled and host
  conn,      \* _connected; the host it speaks of, or NoHost
  held,      \* whoever holds _mutex and waits for it, for ever
  asked      \* the hosts of tool calls under way

bridgeVars == <<cfg, conn, held, asked>>

Configs == [enabled : BOOLEAN, host : Hosts]

BridgeTypeOK ==
  /\ cfg \in Configs
  /\ conn \in Hosts \cup {NoHost}
  /\ asked \subseteq Hosts

BridgeInit ==
  /\ cfg \in Configs
  /\ conn = NoHost
  /\ held = NoOne
  /\ asked = {}

MutexFree == held = NoOne

(* setConfig(): the connection is shown as it was.                         *)
SetConfig(new) ==
  /\ MutexFree
  /\ cfg' = new
  /\ UNCHANGED <<conn, held, asked>>

(* probeNow(), until the exchange: the thread p goes on with the copy it   *)
(* took, or holds the mutex for ever.                                      *)
ProbeStarts(p) ==
  /\ MutexFree
  /\ IF cfg.enabled THEN UNCHANGED <<conn, held>>
                    ELSE conn' = NoHost /\ held' = p
  /\ UNCHANGED <<cfg, asked>>

(* ... and when the exchange with the host of the copy worked, or not.     *)
ProbeEnds(copy, works) ==
  /\ MutexFree
  /\ conn' = IF works THEN copy.host ELSE NoHost
  /\ UNCHANGED <<cfg, held, asked>>

(* callTool(), with a copy of the configuration; an answer shows the       *)
(* bridge as connected, a failure changes nothing.                         *)
CallBegins ==
  /\ MutexFree /\ cfg.enabled
  /\ asked' = asked \cup {cfg.host}
  /\ UNCHANGED <<cfg, conn, held>>

CallEnds(h, answered) ==
  /\ MutexFree /\ h \in asked
  /\ asked' = asked \ {h}
  /\ conn' = IF answered THEN h ELSE conn
  /\ UNCHANGED <<cfg, held>>
==============================================================================
