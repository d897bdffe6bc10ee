----------------------------- MODULE DeviceTable -----------------------------
(***************************************************************************)
(* What pairing promises the owner of the telephones, without secrets,     *)
(* random values and the steps of an operation: a table of the tokens each *)
(* device can use, and a copy of it that outlives the daemon.              *)
(*                                                                         *)
(* One request is worked on at a time.  A pairing gives a device one token *)
(* nobody ever had and takes away those it had; a revocation takes away    *)
(* all of them.  A request is only answered once the copy is the table, so *)
(* that a crash undoes no answer: it can undo the request under way, as a  *)
(* whole, and nothing else.                                                *)
(***************************************************************************)
CONSTANTS Devices, Tokens

VARIABLES
  holds,   \* the tokens each device can use
  kept,    \* those it can use after a restart
  drawn,   \* every token there has ever been
  working  \* whether a request has not been answered yet

tableVars == <<holds, kept, drawn, working>>

Init ==
  /\ holds = [d \in Devices |-> {}]
  /\ kept = [d \in Devices |-> {}]
  /\ drawn = {}
  /\ working = FALSE

Pair(d) ==
  /\ ~working
  /\ \E t \in Tokens \ drawn :
       /\ holds' = [holds EXCEPT ![d] = {t}]
       /\ drawn' = drawn \cup {t}
  /\ working' = TRUE
  /\ UNCHANGED kept

Revoke(d) ==
  /\ ~working
  /\ holds[d] # {}
  /\ holds' = [holds EXCEPT ![d] = {}]
  /\ working' = TRUE
  /\ UNCHANGED <<kept, drawn>>

Save ==
  /\ working
  /\ kept' = holds
  /\ UNCHANGED <<holds, drawn, working>>

Reply ==
  /\ working
  /\ kept = holds
  /\ working' = FALSE
  /\ UNCHANGED <<holds, kept, drawn>>

Crash ==
  /\ holds' = kept
  /\ working' = FALSE
  /\ UNCHANGED <<kept, drawn>>

Next ==
  \/ \E d \in Devices : Pair(d) \/ Revoke(d)
  \/ Save
  \/ Reply
  \/ Crash

Spec == Init /\ [][Next]_tableVars

==============================================================================
