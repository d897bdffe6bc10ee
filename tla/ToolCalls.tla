------------------------------ MODULE ToolCalls ------------------------------
(***************************************************************************)
(* What a proxied tool call promises, without sockets, threads or locks:   *)
(* of the gateway to the agents, whose tools satellites run, and of the    *)
(* workstation's bridge to the daemon, whose tools plugins run.            *)
(*                                                                         *)
(* A caller makes one call at a time.  It is tried, possibly more than     *)
(* once, each attempt being executed by some satellites or by none, and    *)
(* returns once.  It reports an answer of a satellite only if the attempt  *)
(* it reports was executed: an answer to an earlier attempt or to an       *)
(* earlier call is never passed off as an answer to this one.  And it      *)
(* reports that nothing was sent only if the attempt was not executed and  *)
(* never will be.                                                          *)
(***************************************************************************)
CONSTANTS
  Callers, Satellites,
  Answers, Failures,
  Unsent     \* the failures that say that nothing was sent

VARIABLES
  busy,     \* whether each caller's call is under way
  ran,      \* the satellites that executed each caller's last attempt
  returned  \* what the last call returned, "none" while it is under way

callsVars == <<busy, ran, returned>>

Init ==
  /\ busy = [k \in Callers |-> FALSE]
  /\ ran = [k \in Callers |-> {}]
  /\ returned = [k \in Callers |-> "none"]

Begin(k) ==
  /\ ~busy[k]
  /\ busy' = [busy EXCEPT ![k] = TRUE]
  /\ ran' = [ran EXCEPT ![k] = {}]
  /\ returned' = [returned EXCEPT ![k] = "none"]

(* A call may also be refused at once.                                     *)
Refuse(k, o) ==
  /\ ~busy[k]
  /\ o \in Failures
  /\ ran' = [ran EXCEPT ![k] = {}]
  /\ returned' = [returned EXCEPT ![k] = o]
  /\ UNCHANGED busy

Attempt(k) ==
  /\ busy[k]
  /\ ran' = [ran EXCEPT ![k] = {}]
  /\ UNCHANGED <<busy, returned>>

(* A satellite may execute an attempt after the caller has given up, but   *)
(* none that the caller was told was not sent.                             *)
Execute(k, s) ==
  /\ returned[k] \notin Unsent
  /\ ran' = [ran EXCEPT ![k] = @ \cup {s}]
  /\ UNCHANGED <<busy, returned>>

Return(k, o) ==
  /\ busy[k]
  /\ o \in Failures \/ (o \in Answers /\ ran[k] # {})
  /\ o \in Unsent => ran[k] = {}
  /\ busy' = [busy EXCEPT ![k] = FALSE]
  /\ returned' = [returned EXCEPT ![k] = o]
  /\ UNCHANGED ran

Next ==
  \E k \in Callers :
    \/ Begin(k)
    \/ Attempt(k)
    \/ \E s \in Satellites : Execute(k, s)
    \/ \E o \in Failures : Refuse(k, o)
    \/ \E o \in Answers \cup Failures : Return(k, o)

Spec == Init /\ [][Next]_callsVars

==============================================================================
