--------------------------- MODULE MCClaudeIngest ---------------------------
(* ClaudeIngest on a small instance: message "old" is from before the      *)
(* window, "new" never leaves it and is streamed with two outputs.         *)
EXTENDS ClaudeIngest

OldAndNew == {"old", "new"}
Stamps    == [m \in OldAndNew |-> IF m = "old" THEN 0 - 1 ELSE MaxTime]
SomeLines == {[msg |-> "new", output |-> 1], [msg |-> "new", output |-> 2],
              [msg |-> "old", output |-> 1]}
=============================================================================
