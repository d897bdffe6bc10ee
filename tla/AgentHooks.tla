----------------------------- MODULE AgentHooks -----------------------------
(***************************************************************************)
(* AgentHookHandler (src/src/AgentHookHandler.cxx): the hook events of     *)
(* Claude Code and Cursor, and the rows they leave in AgentTelemetryDb     *)
(* (src/src/AgentTelemetryDb.cxx).                                         *)
(*                                                                         *)
(* Every event is a process of its own, `aimon hook`: it reads the state   *)
(* file of the session, works out the new state, renames the new file into *)
(* place and then writes to the database, one autocommitted statement at a *)
(* time.  Nothing locks the file between the read and the rename, so two   *)
(* hooks of one session can overlap.  The agent kills a hook that takes    *)
(* longer than two seconds, which can fall between any two steps, and a    *)
(* statement fails when another process holds the database for more than   *)
(* the busy timeout.                                                       *)
(*                                                                         *)
(* Every process that opens the database, a hook of any session or the     *)
(* daemon, first gives a row to each session that has events and none.     *)
(*                                                                         *)
(* Modelled for one session whose tool uses all name the same tool, so two *)
(* events of one step have the same key.  Status, times, tokens, prompts   *)
(* and the transcript file are left out; so are statements that only set   *)
(* the status (touchSession).                                              *)
(***************************************************************************)
EXTENDS Naturals, Sequences, FiniteSets

CONSTANTS
  Hooks,       \* hook processes that can run at a time
  Uses,        \* tool_use_id values
  Providers,   \* "claude", "cursor"
  MaxIds,      \* ids kept in the state file, 400
  MaxEvents,   \* bound on the events the agent reports
  NoUse        \* a tool result whose payload has no tool_use_id

ASSUME HooksAssumption ==
  /\ Providers \subseteq {"claude", "cursor"}
  /\ MaxIds \in Nat \ {0}
  /\ MaxEvents \in Nat
  /\ NoUse \notin Uses

VARIABLES
  provider,
  file,       \* the state file; history: counted, the uses it has counted,
              \* and plain, how many it has counted that had no id
  rows,       \* agent_lifecycle_events: <<step, event type>>
  sess,       \* agent_sessions: whether the row is there, its calls and turns
  hook,       \* the hook processes
  events,     \* how many events were reported so far
  disturbed   \* history: some hooks overlapped, were killed or lost a write,
              \* or a process that opened the database met one in between

vars == <<provider, file, rows, sess, hook, events, disturbed>>

Kinds == {"SessionStart", "Prompt", "PreTool", "PostTool", "Stop", "SessionEnd"}

NewFile == [started |-> FALSE, step |-> 0, tools |-> 0, turns |-> 0,
            ids |-> <<>>, counted |-> <<>>, plain |-> 0]

\* calm: history, no other hook has run while this one did
Ended == [todo |-> <<>>, kind |-> "SessionStart", st |-> NewFile, calm |-> TRUE]

TypeOK ==
  /\ provider \in Providers
  /\ file.started \in BOOLEAN
  /\ file.step \in 0..MaxEvents /\ file.tools \in 0..MaxEvents
  /\ file.turns \in 0..MaxEvents /\ file.plain \in 0..MaxEvents
  /\ file.ids \in Seq(Uses) /\ Len(file.ids) <= MaxIds
  /\ rows \subseteq (1..MaxEvents) \X {"TOOL_CALL", "USER_TURN"}
  /\ sess.exists \in BOOLEAN /\ sess.calls \in Nat /\ sess.turns \in Nat
  /\ \A h \in Hooks : hook[h].kind \in Kinds /\ hook[h].calm \in BOOLEAN
  /\ disturbed \in BOOLEAN

Init ==
  /\ provider \in Providers
  /\ file = NewFile
  /\ rows = {}
  /\ sess = [exists |-> FALSE, calls |-> 0, turns |-> 0]
  /\ hook = [h \in Hooks |-> Ended]
  /\ events = 0
  /\ disturbed = FALSE

------------------------------------------------------------------------------
Rows(type) == {r \in rows : r[2] = type}

Running(h) == hook[h].todo /= <<>>
AtStep(h, s) == Running(h) /\ Head(hook[h].todo) = s

(* What a tool result does to the state: a use whose id is among those     *)
(* kept is not counted again, and only the newest MaxIds ids are kept.     *)
AlreadySeen(st, u) == \E i \in 1..Len(st.ids) : st.ids[i] = u

(* Mutated form: the list is never cut.                                    *)
Kept_All(ids) == ids

(* Mutated form: the list is cut one entry too short.                      *)
Kept_OneLess(ids) ==
  IF Len(ids) > MaxIds - 1 THEN SubSeq(ids, Len(ids) - MaxIds + 2, Len(ids)) ELSE ids

Kept(ids) == IF Len(ids) > MaxIds THEN SubSeq(ids, Len(ids) - MaxIds + 1, Len(ids))
                                  ELSE ids

Remembered(st, u) == [st EXCEPT !.ids = Kept(Append(@, u)), !.counted = Append(@, u)]

(* Mutated form: the step number stays as it is.                           *)
Counted_SameStep(st, u) ==
  IF u = NoUse THEN [st EXCEPT !.tools = @ + 1, !.plain = @ + 1]
  ELSE [Remembered(st, u) EXCEPT !.tools = @ + 1]

(* A use without an id is counted whenever it is reported.                 *)
Counted(st, u) ==
  IF u = NoUse THEN [st EXCEPT !.step = @ + 1, !.tools = @ + 1, !.plain = @ + 1]
  ELSE [Remembered(st, u) EXCEPT !.step = @ + 1, !.tools = @ + 1]

(* Claude hooks other than SessionStart see to it that the session is      *)
(* recorded before they save; Cursor hooks do so only with the first       *)
(* prompt, after saving, and SessionStart does it after saving.            *)
EnsureStarted(st) ==
  IF provider = "claude" /\ ~st.started THEN <<"start">> ELSE <<>>

(* Mutated form: the state does not remember that the start was recorded.  *)
Begun_Forgotten(st) == st

Begun(st) == [st EXCEPT !.started = @ \/ provider = "claude"]

(* What each event does: the state its hook saves and the steps it takes,  *)
(* in order.  Claude's and Cursor's handlers differ where it says so.      *)
SessionStarts(st) ==
  [st |-> [st EXCEPT !.started = TRUE],
   todo |-> IF st.turns = 0 /\ ~st.started THEN <<"save", "start">> ELSE <<"save">>]

CursorPrompt(st) ==
  [st |-> [st EXCEPT !.started = TRUE, !.step = @ + 1],
   todo |-> (IF ~st.started /\ st.turns = 0 /\ st.tools = 0
             THEN <<"save", "start">> ELSE <<"save">>) \o <<"insert", "count">>]

ToolResult(u, st) ==
  IF AlreadySeen(st, u)
  THEN [st |-> Begun(st), todo |-> EnsureStarted(st) \o <<"save">>]
  ELSE [st |-> Counted(Begun(st), u),
        todo |-> EnsureStarted(st) \o <<"save", "insert", "count", "stats">>]

TurnEnds(st) ==
  [st |-> [Begun(st) EXCEPT !.turns = @ + 1, !.step = @ + 1],
   todo |-> EnsureStarted(st) \o <<"save", "insert", "count", "stats">>]

SessionEnds(st) == [st |-> Begun(st), todo |-> EnsureStarted(st) \o <<"save", "stats">>]

Plan(kind, u, st) ==
  CASE kind = "SessionStart" -> SessionStarts(st)
    [] kind = "Prompt" /\ provider = "cursor" -> CursorPrompt(st)
    [] kind = "PostTool" -> ToolResult(u, st)
    [] kind = "Stop" -> TurnEnds(st)
    [] kind = "SessionEnd" -> SessionEnds(st)
    [] OTHER ->  \* PreTool, a prompt given to Claude, thoughts and responses
         [st |-> Begun(st), todo |-> EnsureStarted(st) \o <<"save">>]

(* The agent reports an event: a process starts and reads the file.        *)
Report(h, kind, u) ==
  /\ ~Running(h)
  /\ events < MaxEvents
  /\ u \in Uses => kind = "PostTool"
  /\ LET p == Plan(kind, u, file)
         others == {g \in Hooks \ {h} : Running(g)}
     IN  /\ hook' = [g \in Hooks |->
                       CASE g = h -> [todo |-> p.todo, kind |-> kind, st |-> p.st,
                                      calm |-> others = {}]
                         [] g \in others -> [hook[g] EXCEPT !.calm = FALSE]
                         [] OTHER -> hook[g]]
         /\ disturbed' = (disturbed \/ others /= {})
  /\ events' = events + 1
  /\ UNCHANGED <<provider, file, rows, sess>>

Advance(h, steps) ==
  hook' = [hook EXCEPT ![h] =
             IF Len(hook[h].todo) <= steps THEN Ended
             ELSE [hook[h] EXCEPT !.todo = SubSeq(@, steps + 1, Len(@))]]

(* saveSessionState(): the new file takes the place of the old one.        *)
Save(h) ==
  /\ AtStep(h, "save")
  /\ file' = hook[h].st
  /\ Advance(h, 1)
  /\ UNCHANGED <<provider, rows, sess, events, disturbed>>

(* recordSessionStart(): INSERT OR REPLACE, with the totals at 0.          *)
RecordStart(h) ==
  /\ AtStep(h, "start")
  /\ sess' = [exists |-> TRUE, calls |-> 0, turns |-> 0]
  /\ Advance(h, 1)
  /\ UNCHANGED <<provider, file, rows, events, disturbed>>

EventType(h) == IF hook[h].kind = "PostTool" THEN "TOOL_CALL" ELSE "USER_TURN"

(* insertEvent(): INSERT OR IGNORE, and only a new row is counted.         *)
Insert(h) ==
  LET row == <<hook[h].st.step, EventType(h)>> IN
  /\ AtStep(h, "insert")
  /\ rows' = rows \cup {row}
  /\ Advance(h, IF row \in rows THEN 2 ELSE 1)
  /\ UNCHANGED <<provider, file, sess, events, disturbed>>

(* The upsert of the session row that counts a new event.                  *)
Count(h) ==
  /\ AtStep(h, "count")
  /\ sess' = IF EventType(h) = "TOOL_CALL"
             THEN [sess EXCEPT !.exists = TRUE, !.calls = @ + 1]
             ELSE [sess EXCEPT !.exists = TRUE, !.turns = @ + 1]
  /\ Advance(h, 1)
  /\ UNCHANGED <<provider, file, rows, events, disturbed>>

(* Mutated form: the totals are added to those of the row.                 *)
Stats_Added(h) ==
  /\ AtStep(h, "stats")
  /\ sess' = IF sess.exists THEN [sess EXCEPT !.calls = @ + hook[h].st.tools] ELSE sess
  /\ Advance(h, 1)
  /\ UNCHANGED <<provider, file, rows, events, disturbed>>

(* updateSessionStats() and recordSessionEnd(): the totals of the state,   *)
(* in a row that is there.  A tool result of Cursor shows at least a turn. *)
Stats(h) ==
  LET turns == IF provider = "cursor" /\ hook[h].kind = "PostTool" /\ hook[h].st.turns = 0
               THEN 1 ELSE hook[h].st.turns IN
  /\ AtStep(h, "stats")
  /\ sess' = IF sess.exists THEN [sess EXCEPT !.calls = hook[h].st.tools, !.turns = turns]
                            ELSE sess
  /\ Advance(h, 1)
  /\ UNCHANGED <<provider, file, rows, events, disturbed>>

(* A statement fails because the database is busy; the hook goes on, and   *)
(* an event that was not inserted is not counted.                          *)
Busy(h) ==
  /\ Running(h) /\ ~AtStep(h, "save")
  /\ Advance(h, IF AtStep(h, "insert") THEN 2 ELSE 1)
  /\ disturbed' = TRUE
  /\ UNCHANGED <<provider, file, rows, sess, events>>

(* The agent's time limit ends the process.                                *)
Kill(h) ==
  /\ Running(h)
  /\ hook' = [hook EXCEPT ![h] = Ended]
  /\ disturbed' = TRUE
  /\ UNCHANGED <<provider, file, rows, sess, events>>

(* initSchema(), by any process that opens the database: a session that has *)
(* rows but is not known gets totals counted from its rows.  That happens  *)
(* only beside a hook that has inserted and not counted, or after one that *)
(* came to harm there.                                                     *)
Backfill ==
  /\ ~sess.exists /\ rows /= {}
  /\ sess' = [exists |-> TRUE, calls |-> Cardinality(Rows("TOOL_CALL")),
                turns |-> Cardinality(Rows("USER_TURN"))]
  /\ disturbed' = TRUE
  /\ UNCHANGED <<provider, file, rows, hook, events>>

HookSteps ==
  \E h \in Hooks :
    \/ \E kind \in Kinds, u \in Uses \cup {NoUse} : Report(h, kind, u)
    \/ Save(h)
    \/ RecordStart(h)
    \/ Insert(h)
    \/ Count(h)
    \/ Stats(h)
    \/ Busy(h)
    \/ Kill(h)

Next == HookSteps \/ Backfill

Spec == Init /\ [][Next]_vars

------------------------------------------------------------------------------
(* Properties.                                                             *)

(* Whatever overlaps or dies, the tool total of the state file counts no   *)
(* use a second time while its id is among the MaxIds counted last.        *)
RepeatedUseCountsOnce ==
  /\ file.tools = Len(file.counted) + file.plain
  /\ \A i, j \in 1..Len(file.counted) :
       (i < j /\ j - i <= MaxIds) => file.counted[i] /= file.counted[j]

(* Variables keep their types, and no use is counted twice.                *)
StateOK == TypeOK /\ RepeatedUseCountsOnce

Quiet == \A h \in Hooks : ~Running(h)
(* As long as hooks run one after the other and none is killed or refused, *)
(* the database shows after each of them one row per use counted and, when *)
(* the session is known, exactly that many calls, unless the session was   *)
(* begun after its calls (a late SessionStart of Cursor).                  *)
UndisturbedIsExact ==
  (~disturbed /\ Quiet) =>
    /\ Cardinality(Rows("TOOL_CALL")) = file.tools
    /\ sess.calls \in {file.tools, 0}
    /\ (provider = "claude") => sess.calls = file.tools /\ sess.turns = file.turns

(* Whatever went wrong before, a tool result, a turn or an end that runs   *)
(* undisturbed puts the session row right: its calls are those of the      *)
(* state file again, which is the newest state there is.                   *)
CalmHookRepairs ==
  [][\A h \in Hooks :
       (Stats(h) /\ hook[h].calm /\ sess.exists) => sess'.calls = file.tools]_vars

(* The start of a session replaces its row only while the row holds no     *)
(* calls, unless hooks overlapped or Cursor reports tools before a start.  *)
StartKeepsCalls ==
  [][\A h \in Hooks :
       (RecordStart(h) /\ sess.calls > 0)
         => disturbed \/ (provider = "cursor" /\ hook[h].kind = "SessionStart")]_vars

(* The calls shown for a session are put right by whatever runs alone, and *)
(* lost only where hooks overlap or Cursor's start comes late.             *)
CallsAreKept == CalmHookRepairs /\ StartKeepsCalls

==============================================================================
