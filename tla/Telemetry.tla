----------------------------- MODULE Telemetry ------------------------------
(***************************************************************************)
(* AgentTelemetryDb (src/src/AgentTelemetryDb.cxx) as three writers use    *)
(* it: the scan of Antigravity transcripts in the daemon                   *)
(* (AntigravityCollector::syncTranscriptTelemetry), the hook processes     *)
(* that report the same steps (AgentHookHandler, Antigravity branch) and   *)
(* the prune that turns old rows into hourly rollups (rollupAndPrune,      *)
(* called every six hours and on request).                                 *)
(*                                                                         *)
(* In the daemon the mutex of the database object keeps a batch and a      *)
(* prune apart; each hook is another process, several of them may run at a *)
(* time, and each statement of theirs commits on its own.  The daemon can  *)
(* crash between any two statements.                                       *)
(* A statement is refused when another process holds the database longer   *)
(* than the busy timeout, and no caller looks at the result.               *)
(*                                                                         *)
(* One transcript, whose step n is one tool call and one line of two       *)
(* halves: a scan can find half of a line.  A line may have a field of     *)
(* another type than the scan takes for granted.  An hour is HourTicks ticks; a  *)
(* rollup stands for the sums of its columns over the rows of its hour.    *)
(* The event types the rollup filters on and nothing writes (TURN_END,     *)
(* TOOL_POST_USE) are left out: every row counts.                          *)
(***************************************************************************)
EXTENDS Integers, FiniteSets

CONSTANTS
  MaxSteps,     \* bound on the steps of the transcript
  MaxTime,      \* bound on the clock
  HourTicks,    \* 3600 s
  Retention,    \* rawRetentionDays
  MaxStarts     \* bound on the starts of the daemon

ASSUME TelemetryAssumption ==
  /\ {MaxSteps, MaxTime, Retention, MaxStarts} \subseteq Nat
  /\ HourTicks \in Nat \ {0}

Steps == 1..MaxSteps
Times == 0..MaxTime
Hours == 0..(MaxTime \div HourTicks)
NoTime == -1

VARIABLES
  now,
  halves,     \* how many half lines the transcript has
  created,    \* created_at of each step
  odd,        \* steps whose line has a field of another type
  at,         \* agent_lifecycle_events: the timestamp of the row of each step
  known,      \* whether agent_sessions has the row of the session
  calls,      \* its total_tool_calls
  rollup,     \* agent_hourly_rollups: the rows counted in each hour
  up,         \* whether the daemon runs
  offset,     \* _transcriptOffsets, in half lines; lost with the daemon
  scan,       \* the scan: its step, the size it found and the steps it read
  prune,      \* the prune: its step and its cutoff
  hook,       \* the steps whose rows a hook has inserted and not yet counted
  starts,
  ever,       \* history: every step and hour it ever had a row in
  excused,    \* history: steps a scan cut in half or read together with an odd
              \* one, or the database refused
  patchy,     \* history: hours split by a cutoff, late or not rolled up
  fresh,      \* history: the daemon has not finished its first scan yet
  again,      \* history: a step came back after its row was pruned
  miscounted  \* history: the session total was disturbed otherwise

file    == <<now, halves, created, odd>>
db      == <<at, known, calls, rollup>>
daemon  == <<up, offset, scan, prune, starts, fresh>>
history == <<ever, excused, patchy, again, miscounted>>
vars    == <<file, db, daemon, hook, history>>

Rows == {s \in Steps : at[s] # NoTime}
HourOf(t) == t \div HourTicks
RowsOf(h) == {s \in Rows : HourOf(at[s]) = h}
EverOf(h) == {s \in Steps : <<s, h>> \in ever}
Seen == {s \in Steps : \E h \in Hours : <<s, h>> \in ever}
Idle == [pc |-> "idle", size |-> 0, read |-> {}]
NoPrune == [pc |-> "idle", cutoff |-> 0]

TypeOK ==
  /\ now \in Times /\ halves \in 0..(2 * MaxSteps)
  /\ created \in [Steps -> Times \cup {NoTime}]
  /\ at \in [Steps -> Times \cup {NoTime}]
  /\ odd \subseteq Steps
  /\ known \in BOOLEAN /\ calls \in Nat
  /\ rollup \in [Hours -> 0..MaxSteps]
  /\ offset \in 0..halves
  /\ scan.pc \in {"idle", "read", "store"} /\ scan.read \subseteq Steps
  /\ prune.pc \in {"idle", "roll", "delete"} /\ prune.cutoff \in Int
  /\ hook \subseteq Steps
  /\ ever \subseteq Steps \X Hours /\ excused \subseteq Steps /\ patchy \subseteq Hours

Init ==
  /\ now = 0 /\ halves = 0
  /\ created = [s \in Steps |-> NoTime] /\ odd = {}
  /\ at = [s \in Steps |-> NoTime]
  /\ known = FALSE /\ calls = 0
  /\ rollup = [h \in Hours |-> 0]
  /\ offset = 0 /\ scan = Idle /\ prune = NoPrune
  /\ hook = {} /\ starts = 0 /\ up = FALSE /\ fresh = FALSE
  /\ ever = {} /\ excused = {} /\ patchy = {}
  /\ again = FALSE /\ miscounted = FALSE

------------------------------------------------------------------------------
(* The agent and the clock.  A tick is half an hour: a prune, a hook, and *)
(* a scan of what was written, every five seconds, take less.              *)
Tick ==
  /\ now < MaxTime
  /\ prune.pc = "idle" /\ hook = {} /\ (up => scan.pc = "idle" /\ halves = offset)
  /\ now' = now + 1
  /\ UNCHANGED <<halves, created, odd, db, daemon, hook, history>>

AgentWrites ==
  LET s == halves \div 2 + 1 IN
  /\ halves < 2 * MaxSteps
  /\ halves' = halves + 1
  /\ created' = IF created[s] = NoTime THEN [created EXCEPT ![s] = now] ELSE created
  /\ odd' \in {odd, odd \cup {s}}
  /\ UNCHANGED <<now, db, daemon, hook, history>>

(* Rows for the steps new, with their times: INSERT OR IGNORE.  A row that *)
(* is older than a cutoff already applied comes late for its rollup.       *)
Latest == now - Retention

Inserted(new, time) ==
  /\ at' = [s \in Steps |-> IF s \in new THEN time[s] ELSE at[s]]
  /\ ever' = ever \cup {<<s, HourOf(time[s])>> : s \in new}
  /\ patchy' = patchy \cup {HourOf(time[s]) : s \in {s \in new : time[s] < Latest}}

(* initSchema(), by every process that opens the database: a session that  *)
(* has rows and no row of its own gets one, with as many calls, those      *)
(* included that a hook is about to count; or the statement is refused.    *)
Backfill ==
  \/ /\ known' = (known \/ Rows # {})
     /\ calls' = IF ~known THEN Cardinality(Rows) ELSE calls
     /\ miscounted' = (miscounted \/ (hook # {} /\ ~known))
  \/ UNCHANGED <<known, calls, miscounted>>

------------------------------------------------------------------------------
(* Mutated form: the size is taken when the file has been read.            *)
ScanStat_AtEnd ==
  /\ up /\ scan.pc = "idle"
  /\ halves > offset
  /\ \E end \in halves..(2 * MaxSteps) : scan' = [scan EXCEPT !.pc = "read", !.size = end]
  /\ UNCHANGED <<file, db, up, offset, prune, starts, fresh, hook, history>>

(* syncTranscriptTelemetry(): the size is taken before the file is read,   *)
(* and reading goes on to the end the file has by then.                    *)
ScanStat ==
  /\ up /\ scan.pc = "idle"
  /\ halves > offset
  /\ scan' = [scan EXCEPT !.pc = "read", !.size = halves]
  /\ UNCHANGED <<file, db, up, offset, prune, starts, fresh, hook, history>>

Whole(from, to) == {s \in Steps : from <= 2 * (s - 1) /\ 2 * s <= to}

(* Mutated form: every scan reads from the beginning.                      *)
ScanRead_FromStart ==
  LET read == Whole(0, halves) IN
  /\ scan.pc = "read"
  /\ offset' = scan.size
  /\ fresh' = (fresh /\ read # {})
  /\ scan' = [pc |-> IF read = {} THEN "idle" ELSE "store", size |-> 0, read |-> read]
  /\ UNCHANGED <<file, db, up, prune, starts, hook, history>>

(* A line of which only a half is read is no JSON and is dropped.  A field *)
(* of another type throws while the events are built, after the offset was *)
(* moved: the scan is over and nothing that was read is stored.            *)
ScanRead ==
  LET read == Whole(offset, halves)
      tail == (scan.size + 1) \div 2
      cut == IF scan.size % 2 = 1 THEN {tail} \ read ELSE {}
      thrown == IF read \cap odd # {} THEN read ELSE {}
      batch == read \ thrown
  IN
  /\ scan.pc = "read"
  /\ offset' = scan.size
  /\ fresh' = (fresh /\ batch # {})
  /\ scan' = [pc |-> IF batch = {} THEN "idle" ELSE "store", size |-> 0, read |-> batch]
  /\ excused' = excused \cup cut \cup thrown
  /\ UNCHANGED <<file, db, up, prune, starts, hook, ever, patchy, again, miscounted>>

(* Mutated form: a step that has its row is counted again.                 *)
ScanStore_CountsAll ==
  /\ scan.pc = "store" /\ prune.pc = "idle"
  /\ Inserted(scan.read \ Rows, created)
  /\ known' = TRUE
  /\ calls' = calls + Cardinality(scan.read)
  /\ scan' = Idle /\ fresh' = FALSE
  /\ UNCHANGED <<file, rollup, up, offset, prune, starts, hook, excused, again, miscounted>>

(* insertEventsBatch(), one transaction: the steps that have no row yet    *)
(* get one and are counted.  While another process has the database the    *)
(* first inserts are refused and the batch goes on with the next.          *)
ScanStore ==
  /\ scan.pc = "store" /\ prune.pc = "idle"
  /\ \E refused \in 0..MaxSteps :
       LET new == {s \in scan.read \ Rows : s > refused} IN
       /\ Inserted(new, created)
       /\ known' = (known \/ new # {})
       /\ calls' = calls + Cardinality(new)
       /\ again' = (again \/ new \cap Seen # {})
       /\ excused' = excused \cup {s \in scan.read \ Rows : s <= refused}
  /\ scan' = Idle /\ fresh' = FALSE
  /\ UNCHANGED <<file, rollup, up, offset, prune, starts, hook, miscounted>>

------------------------------------------------------------------------------
(* A hook process opens the database.                                      *)
HookOpens ==
  /\ Backfill
  /\ UNCHANGED <<file, at, rollup, daemon, hook, ever, excused, patchy, again>>

(* The hook of the newest step, once: the process inserts the row with the *)
(* time it has itself, and counts a row that is new, while hooks of other  *)
(* steps may be doing the same.  Nothing happens when the scan was first.  *)
HookInsert ==
  LET s == (halves + 1) \div 2 IN
  /\ s \in Steps \ Seen
  /\ Inserted({s}, [x \in Steps |-> now])
  /\ hook' = hook \cup {s}
  /\ UNCHANGED <<file, known, calls, rollup, daemon, excused, again, miscounted>>

HookCount(s) ==
  /\ s \in hook
  /\ known' = TRUE
  /\ calls' = calls + 1
  /\ hook' = hook \ {s}
  /\ UNCHANGED <<file, at, rollup, daemon, history>>

(* The hook is killed, or refused, before it counts.                       *)
HookDies(s) ==
  /\ s \in hook
  /\ hook' = hook \ {s}
  /\ miscounted' = TRUE
  /\ UNCHANGED <<file, db, daemon, ever, excused, patchy, again>>

(* A hook reports the start of the session: INSERT OR REPLACE.             *)
SessionStart ==
  /\ known' = TRUE
  /\ calls' = 0
  /\ miscounted' = (miscounted \/ ever # {})
  /\ UNCHANGED <<file, at, rollup, daemon, hook, ever, excused, patchy, again>>

------------------------------------------------------------------------------
(* rollupAndPrune(): three statements under the mutex of the daemon; that  *)
(* on the samples is left out.                                             *)
PruneBegin ==
  /\ up /\ prune.pc = "idle"
  /\ prune' = [pc |-> "roll", cutoff |-> now - Retention]
  /\ UNCHANGED <<file, db, up, offset, scan, starts, fresh, hook, history>>

Old(h) == {s \in RowsOf(h) : at[s] < prune.cutoff}

(* Mutated form: a rollup is added to what was rolled up before.           *)
RollUp_Added ==
  /\ prune.pc = "roll"
  /\ rollup' = [h \in Hours |-> rollup[h] + Cardinality(Old(h))]
  /\ prune' = [prune EXCEPT !.pc = "delete"]
  /\ UNCHANGED <<file, at, known, calls, up, offset, scan, starts, fresh, hook, history>>

(* INSERT OR REPLACE: the rows older than the cutoff, hour by hour, take   *)
(* the place of what was rolled up for their hour before.                  *)
RollUp ==
  /\ prune.pc = "roll"
  /\ rollup' = [h \in Hours |-> IF Old(h) = {} THEN rollup[h] ELSE Cardinality(Old(h))]
  /\ prune' = [prune EXCEPT !.pc = "delete"]
  /\ UNCHANGED <<file, at, known, calls, up, offset, scan, starts, fresh, hook, history>>

RollUpRefused ==
  /\ prune.pc = "roll"
  /\ prune' = [prune EXCEPT !.pc = "delete"]
  /\ patchy' = patchy \cup {h \in Hours : Old(h) # {}}
  /\ UNCHANGED <<file, db, up, offset, scan, starts, fresh, hook, ever, excused, again, miscounted>>

(* An hour of which rows stay has been split by the cutoff.                *)
Split == {h \in Hours : h * HourTicks < prune.cutoff /\ prune.cutoff < (h + 1) * HourTicks}

(* Mutated form: the rows of the cutoff itself are deleted too.            *)
PruneDelete_Cutoff ==
  /\ prune.pc = "delete"
  /\ at' = [s \in Steps |-> IF at[s] <= prune.cutoff THEN NoTime ELSE at[s]]
  /\ patchy' = patchy \cup Split
  /\ prune' = NoPrune
  /\ UNCHANGED <<file, known, calls, rollup, up, offset, scan, starts, fresh, hook, ever, excused, again, miscounted>>

PruneDelete ==
  /\ prune.pc = "delete"
  /\ at' = [s \in Steps |-> IF at[s] < prune.cutoff THEN NoTime ELSE at[s]]
  /\ patchy' = patchy \cup Split
  /\ prune' = NoPrune
  /\ UNCHANGED <<file, known, calls, rollup, up, offset, scan, starts, fresh, hook, ever, excused, again, miscounted>>

DeleteRefused ==
  /\ prune.pc = "delete"
  /\ prune' = NoPrune
  /\ UNCHANGED <<file, db, up, offset, scan, starts, fresh, hook, history>>

(* The daemon ends, at any point, and starts some time later: it opens the *)
(* database and reads the transcript from its beginning.                   *)
Crash ==
  /\ up
  /\ up' = FALSE /\ fresh' = FALSE
  /\ offset' = 0 /\ scan' = Idle /\ prune' = NoPrune
  /\ UNCHANGED <<file, db, starts, hook, history>>

Start ==
  /\ ~up /\ starts < MaxStarts
  /\ up' = TRUE /\ fresh' = TRUE /\ starts' = starts + 1
  /\ Backfill
  /\ UNCHANGED <<file, at, rollup, offset, scan, prune, hook, ever, excused, patchy, again>>

Next ==
  \/ Tick
  \/ AgentWrites
  \/ ScanStat \/ ScanRead \/ ScanStore
  \/ HookOpens \/ HookInsert \/ \E s \in Steps : HookCount(s) \/ HookDies(s)
  \/ SessionStart
  \/ PruneBegin \/ RollUp \/ RollUpRefused \/ PruneDelete \/ DeleteRefused
  \/ Crash \/ Start

Spec == Init /\ [][Next]_vars

------------------------------------------------------------------------------
(* Properties.                                                             *)

(* A step the scan has left behind has had its row, unless a scan cut its  *)
(* line in half, gave its batch up over a field of another type, or the    *)
(* database refused it; none is read again before the next restart.        *)
PassedStepsAreSeen ==
  scan.pc # "store" =>
    \A s \in Steps : 2 * s <= offset => s \in Seen \cup excused

(* However prunes, crashes and late rows follow each other, the rollup of  *)
(* an hour never counts more steps than the hour had.                      *)
RollupNeverOvercounts ==
  \A h \in Hours : rollup[h] <= Cardinality(EverOf(h))

(* An hour whose rows are gone has all of them in its rollup, unless a     *)
(* cutoff once fell inside the hour, rows came late or a rollup was        *)
(* refused: then an earlier rollup of the hour is replaced or missing.     *)
GoneHoursAreRolledUp ==
  prune.pc = "idle" =>
    \A h \in Hours \ patchy : RowsOf(h) = {} => rollup[h] = Cardinality(EverOf(h))

(* Variables keep their types; a rollup counts no step too often, and all  *)
(* of those whose rows it replaces.                                        *)
RollupOK == TypeOK /\ RollupNeverOvercounts /\ GoneHoursAreRolledUp

(* The session counts every step once, whoever reports it first, as long   *)
(* as no hook dies half-way, no process opens the database while the first *)
(* steps have rows and the session has none, the session is not started    *)
(* again, and no pruned step comes back.                                   *)
EachStepCountsOnce ==
  (hook = {} /\ ~miscounted /\ ~again) => calls = Cardinality(Seen)

(* A step whose row was pruned comes back, and is counted again, only in   *)
(* the first scan after a start of the daemon, which has forgotten how far *)
(* it had read.                                                            *)
OnlyFirstScanRecounts == [][again' # again => fresh]_vars
==============================================================================
