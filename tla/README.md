# Verification of aimon

TLA+ models of the aimon daemon, TLC configurations that check them on small
instances, and theorems that TLAPS proves for every instance. aimon collects
the quota and usage of AI coding assistants, serves them to a dashboard, a
mobile application and MCP clients, and is the gateway through which agents
call the tools of satellite daemons (meshmon, netmon, EDA bridges).

Paths below are relative to the repository (`src/TcpGateway.cxx`); line numbers
in the modules' comments refer to the same commit.

    tlc -workers 2 -config gw_calls.cfg MCTcpGateway.tla
    tlapm TcpGatewayProofs.tla

PROJECT.json names the module of each configuration, the source lines of every
definition, a bug of the code each property would notice (a `_`-suffixed
"mutated form" beside the definition it replaces), and the hazards.

## 1. Inventory

### Parts of the system and how they talk

    agents, IDEs --HTTP/SSE 3883--> WebServer ---> McpServer ---> native tools
                                      |    ^           |
                     dashboard, phone |    |           +--> TcpGateway --TCP 3885--> satellites
                                      |    |           |        |
                                      |    +-----------|--------+ "tools changed" callback
                                      v                v
         StateStore <-- poller (Main) --> collectors   EdaBridge --> EDA daemon
             |               |              (Antigravity, Cursor, Claude)
          web, MQTT     HistoryStore, InsightEngine, AgentTelemetryDb, ClaudeUsageStore

| Component | State it keeps | Operations | Interaction | What makes it hard | What makes it correct |
|---|---|---|---|---|---|
| DynamicToolRegistry | offers per client; the best offer per tool name | register, unregister, clear, look up | called by gateway readers and HTTP workers under its own mutex | the best-offer table is a cache, recomputed for touched names only | the table always is the best offer; nobody is displaced by a weaker one |
| TcpGateway | connections, descriptors, pending calls, request ids | accept, register, unregister, answer, disconnect, callTool, stop | listener, a reader per connection, HTTP workers, main thread | four kinds of thread, three mutexes, reused descriptors, late answers, timeouts, failover | no leaked or misattributed call, no hang, changes announced |
| WebServer: MCP sessions | session table, message queue and closed flag per session | POST, GET stream, DELETE, evict, reap, broadcast, stop | HTTP workers, notification thread, gateway callback; TaskRegistry | sessions outlive their table entry; a stream occupies a worker; two tables | limit kept, tables agree, messages in order once, pool recovers |
| TaskRegistry | registered session ids | register, heartbeat, remove | called by session handling | updated after the session table, not with it | agrees with the table |
| MobileGateway: pairing | secrets, tokens, device file | create secret, pair, revoke, load, save | HTTP workers under one mutex; a file | crash or failed write between memory, file and answer | ended tokens stay ended, issued ones stay valid |
| MobileGateway: events | numbered ring of 64 events | record and push, poll | notification thread, HTTP workers, SSE callback outside the lock | push order, trimming, numbers restart | no gap, nothing pushed twice, a poller that keeps up misses nothing |
| WebServer: transcript watcher | per conversation: recorded time and size, last announced and pending step | seed, look, read, settle, announce | reads files that agents write; records events | file changes between stat and read; settling replies | each question and settled reply announced once, history never |
| ClaudeCollector, ClaudeUsageStore | SQLite rows and per-file cursors | poll, scan, ingest, save cursor, prune | poller thread; files that agents write | growth while reading, partial lines, crash between rows and cursor, replacement | every line counted once |
| StateStore | last AggregateStatus | update, getStatus | poller, EDA handlers | whole-status read-modify-write by handlers beside the poller | every part ends up as its owner last had it |
| Main | shutdown flag, poller | start, poll, signal, shut down | owns all the others | notification without the mutex; a poll that never ends | a signal ends the process |
| McpServer | profile per session | initialize, list, call | WebServer in, registry, gateway and EdaBridge out | notifications to all sessions | routes to the right tool under the profile |
| AgentTelemetryDb | sessions, events, samples, rollups (SQLite) | record, query, roll up and prune | hook processes, the Antigravity scan, poller, HTTP workers | writers in several processes, late events, refused statements, roll-up replaces rows | a step counts once, totals survive pruning |
| PriceCatalog | price versions | load, refresh, find | refresh thread, ingestion | versions recorded late | past costs do not change |
| EdaBridge | configuration, connection, one mutex, EasyEDA lock | setConfig, probeNow, callTool | poller and HTTP workers; a workstation by TCP or through the gateway | configuration changes during an exchange; a plain mutex taken twice; a call sent by two ways | the connection follows the configuration, no caller waits for ever but where section 5 says so |
| aimon-eda-bridge (RPC server, tray, launcher) | plugin sessions, pending calls, switches of the programs | accept, register, relay a call, answer, switch, stop | separate process; plugins of the EDA programs, the daemon by two ways | a thread per connection and per call, descriptors used again, two mutexes, sends without a time-out | outcomes are those of the call, a program that is off has no session, nothing waits for ever but for a lock cycle or a plugin that does not read |
| HistoryStore | samples with deltas (SQLite) | record, query | poller, web | restart between samples | deltas add up |
| InsightEngine | snapshots and scores | ingest, rebuild, query | poller, web, MCP | rebuild beside ingestion | rebuild loses nothing |
| Cursor and Antigravity collectors, ClaudeAccount, MqttPublisher, ConfigManager | a cached status or snapshot under one mutex | fetch, publish, load, save | poller, web | mostly outside services and files | a failed fetch keeps or marks the old state (of ConfigManager, Daemon has the EDA part) |
| EdaAccelerators, EasyEdaConverter, KiCadSchematicEditor, PathUtils | none shared | pure functions, file conversion | EdaBridge | floating point and text | - |
| AgentHookHandler | a state file per session, rows and totals of AgentTelemetryDb | one process per hook event | the agents run hooks, also several at a time, and kill slow ones | read-modify-write of a file and four statements that each may fail | totals agree with rows when nothing interferes, and are repaired when something did |
| NcursesConsole, web pages, ha/, scripts/ | user interface | - | - | - | - |

### Hard behaviours

PROJECT.json lists them under "hazards" with line and property. In short:
opposite lock orders (TcpGateway.cxx:586 and 266), results that arrive after
their timeout, descriptors used after they were closed, sessions used after
they left the table, two tables changed one after the other, a worker pool that
long-lived streams fill, files read while they are written or replaced, crashes
between two durable writes, numbers that restart, caches of a maximum, several
processes that write one database, a mutex taken twice by one thread, a wakeup
that comes before the wait, a request sent twice by two ways.

## 2. Modules

| Module | Models | State in the code | Actions |
|---|---|---|---|
| ToolRegistry | DynamicToolRegistry | `_clientTools` as clientTools, `_tools` as tools | RegisterTools, UnregisterClient, Clear |
| ToolCalls | nothing; what a proxied call promises, of the gateway to the agents and of the workstation to the daemon | - | Begin, Attempt, Execute, Return, Refuse |
| DeviceTable | nothing; what pairing promises: a table of tokens with a copy that outlives a crash | - | Pair, Revoke, Save, Reply, Crash |
| TcpGateway (EXTENDS ToolRegistry) | listenerLoop, clientReadLoop, handleIncomingJson, callTool, stop, sendLine | `_clients` as known, active, fd; `_pendingCalls` as pending and call; `_nextRequestId`; the mutexes pendingLock and callLock; the kernel's descriptor table fdOwner; program counters rpc, cpc, stopPc | one per step between two accesses to shared state |
| McpSessions | the session half of WebServer, with TaskRegistry | `_sseSessions` as sess; SseSession's fields as closed, idle, queue, streamable; `_sessions` of TaskRegistry as registered | requests on workers in steps (reap, close, create, insert, register, ...), streams, the notification thread, broadcast, stop |
| MobilePairing | the pairing half of MobileGateway | `_pairingSecrets`, `_lastGeneratedSecret`, `_sessions`, mobile_devices.json as disk | create secret, pair, revoke; save, answer, restart as steps of their own |
| AgentEvents | the event half of MobileGateway | `_recentAgentEvents` as ring, `_nextEventSeq` | record, push, poll, restart |
| TranscriptWatch (EXTENDS AgentEvents) | scanTranscriptsForNotifications, beside POST /api/mobile/test-notification, polling telephones and restarts | `_watchedTranscripts` as tracked, notified, pending, waited; files as steps, dirty, old | agents write; the watcher looks, seeds, reads, announces; a worker records a test event; pushes, polls, restarts |
| ClaudeIngest | ClaudeCollector::fetchStatus and scanFile, ClaudeUsageStore's ingest, cursors and pruning | rows, cursors, lastPrune; scanFile's locals as scan | agents write and replace files; open, read, store a batch, save the cursor, end a poll with a prune or a refused one; failures and crashes |
| AgentHooks | AgentHookHandler's Claude and Cursor branches | the session's state file; the TOOL_CALL and USER_TURN rows; agent_sessions' totals as sess; a process's remaining steps as hook.todo | an event is reported (process starts, file read); save, record start, insert, count, set totals; a process that opens the database gives a session its totals; a busy database, a kill |
| Telemetry | AgentTelemetryDb as the Antigravity scan, its tool hook and the prune use it | rows with their hour, session count as calls, rollups; the scan's read position; what several hook processes have still to count | agents write half lines and lines with fields of another type; the scan takes the size, reads (or gives its batch up), stores; a hook opens and backfills, inserts, counts, dies; a prune rolls up, deletes; crash, restart with backfill; refused statements |
| EdaBridge | configuration, connection and mutex of the bridge | `_config` as cfg, `_connected` as conn, `_mutex` as held | SetConfig, ProbeStarts, ProbeEnds, CallBegins, CallEnds |
| Daemon (EXTENDS EdaBridge) | Main's poller, pollOnce with pollMutex, signal handler and end; StateStore; ConfigManager's EDA part; POST /api/eda/config, /api/config, /api/eda/probe, /api/refresh | `g_shutdown`, the poller's step, the poll that runs, the handlers' steps, the stored status, configuration in memory and file | a poll (by the poller or by a handler) and each handler in steps, a save that fails, a signal, main's look, wait, joins |
| EdaPlugins | EdaRpcServer's plugin connections, callPlugin, setBridgeEnabled, stop; EdaBridge's two transports | sessions with their socket and active flag, the kernel's table as owner, the pending list, each execution of a call as exec | accept, register (check, set), answer (find, complete), end of a reader (mark, close, clear); a call dispatched, picked, its send begun, through or failed, waited for, left, with what the tool's handler makes of the outcome; switch and stop in steps; the daemon sends, sends again |
| TcpGatewayProofs (also of ToolRegistry), McpSessionsProofs, MobileProofs (MobilePairing, AgentEvents, TranscriptWatch), ClaudeIngestProofs, AgentHooksProofs, TelemetryProofs, DaemonProofs, EdaPluginsProofs | theorems | | |
| MC... | constants for TLC | | |

TranscriptWatch composes with AgentEvents (an announcement is a recorded event),
TcpGateway with ToolRegistry (a registration is an action of both), McpSessions
contains the part of TaskRegistry it drives, Daemon with EdaBridge (a poll and a
handler take its mutex), EdaPlugins puts the daemon's two transports in front of
the workstation's server. TcpGateway and EdaPlugins implement ToolCalls,
MobilePairing implements DeviceTable (INSTANCE with a refinement mapping, the
abstract specification as a property of the run).

Common choices. A critical section under one mutex is one step; where a second
mutex is taken inside, the first is a variable. What the code does between two
critical sections is another step, with whatever it read before in a variable.
Everything outside src/ (satellites, agents, the kernel, HTTP clients, files
other programs write) does whatever it may, with no fairness. History
variables are marked `history:` in the declarations; guards read them only to
keep random values (session ids, secrets, tokens) from repeating.

## 3. Runs

Twelve runs, deadlock checking off in all of them: a daemon without clients,
with its counters at their bounds, has nothing left to do.

| Run | Question | Bounds and why they suffice |
|---|---|---|
| gw_calls | Do calls, answers, registrations and disconnections keep the books right, in every interleaving? Is every call as ToolCalls promises? | 2 satellites (the younger one ranks higher), 1 caller, 1 tool, 2 descriptors, 3 requests: failover, a late answer to the first request while the second is in flight, a crash during both |
| gw_stop | Does stop() leave nothing behind? Do stop(), calls and clean-ups end? | 1 satellite, 1 caller, 2 requests, each at any point when stop() begins; with 2 satellites on one descriptor the result is the same |
| gw_hang | Design.md:261 promises no hanging request | violated: the lock cycle, see section 5 |
| mcp_sessions | Limit, agreement of tables, order of messages | 2 workers and the notification thread, 2 ids, table limit 1 (so that every creation evicts), 2 sessions ever, 2 messages: eviction, reaping, deletion and reconnection each meet each other |
| mcp_pool | Does a pool full of streams recover? | 2 workers both streaming, reaper and stop() |
| mobile_pairing | Do tokens survive crashes exactly as long as they should? | 3 secrets, 3 tokens, 2 devices: pair, pair again, revoke, show a secret again, crash anywhere; times 3 and 1 for 300 s and 30 s |
| watch | Are questions and replies announced once and only when settled? Do the ring, the pushes and the polls of telephones keep up with two recording threads and restarts? | 1 transcript of up to 3 steps, settle time 2 ticks: a reply replaced while it settles, a write between look and read; a ring of 2 with 4 events, so that it is trimmed; watcher and worker push in either order |
| claude_ingest | Is every line counted once? | 1 path and 2 files, 3 writes, 1 fault, 1 row per batch and 2 lines per poll: growth while reading, resumption, replacement, crash between batch and cursor, a prune refused |
| agent_hooks | Do the totals of a session agree with its rows, and what repairs them? | 2 hook processes at a time, events of every kind of both agents, tool uses repeated or without an id, a list of kept ids shorter than the uses: overlap, kill, refusal and another process's backfill at each statement |
| telemetry | Is a step counted once, by whichever writer, and does pruning lose any? | 2 steps, each with its hook process, 2 starts of the daemon, 3 ticks and hours of 2, so that a cutoff falls inside an hour: a half-written or odd line, hooks before, after and beside the scan and each other, a backfill between an insertion and its count, a crash between roll-up and deletion, rows that come late |
| daemon | Do the stored status and the connection follow the configuration, and does the daemon answer and stop? | 2 workers, configurations of 2 hosts and switched off, 1 poller: handlers, also polling ones, overlap each other, the poll and the signal. Tool calls begin only before the first request and are over at the first signal (`EarlyCalls`), and the first save is the one that may fail (`EarlyRefusals`): each is met by what can follow it |
| eda_plugins | Are calls to plugins answered truthfully, and does the server ever stand still? | 1 call by two ways, 2 connections on 2 descriptors, 1 order of the main thread (a switch or stop(), given in calls that run one at a time, the case with a mutex more; the other calls run without one, or beside one connection and an order that switched their program off): a number closed and used again under a read or a send, plugins that do not read, answers after time-outs, headless answers, a disconnection at each step |

Symmetry is used for safety only (workers and ids; secrets, tokens, devices;
hooks and uses), where no operator distinguishes the values. Satellite ids are
ordered by the code and not symmetric. Bounded counters are nextReq (MaxReq),
session objects (MaxObj), messages (MaxMsg), events (MaxSeq, MaxEvents), the
clock (MaxTime), writes (MaxWrites, MaxSteps), faults (MaxFaults), starts
(MaxStarts), orders of the bridge's main thread (MaxOrders) and transcript length
(MaxLen). A bound ends what the environment does, never what a thread has begun;
MaxFaults bounds crashes in the liveness property, without which no poll need
ever finish.

### Fairness

Weak fairness of each thread's own steps: readers, callers, workers and the
poller are OS threads that run when they can; a caller's wait_for has a
timeout, so a waiting caller can always run. Nothing is assumed of satellites
and clients. stop() need not be called, only finish once called. The transcript
watcher has strong fairness for looking at each file, since it goes through all
of them on every pass and can look at one only while it reads no other.

Daemon: weak fairness of the poller, of main, of each handler and of the end of
an exchange with the workstation, which has a time-out (EdaBridge.cxx:1096).
Strong fairness for the handlers of refreshes as they take pollMutex, which the
poller gives back after every poll, and for finding a probe due when the clock
has gone far enough (Main.cxx:368).
Signals repeat once one was sent, because one sent between main's look at the
flag and its wait is lost (Main.cxx:558, 52): who wants the daemon to stop
presses Ctrl+C again. EdaPlugins states no fairness: every step of the server
makes progress, so what can hold it up for ever is told by the states in which
no thread of the server can go on, with whatever plugins and daemon do left
out. That is the invariant `OnlyLocksAndSendsBlockBridge`.

### What the properties say

Several properties are conjunctions of parts that are named in the modules; a
mutated form exists for every part.

Gateway. `TableIsBest`: the cached best offer is the best offer (that a provider
is displaced by a better one only, `OnlyBetterDisplaces`, is proved).
`CallsOK`: types, and all ways out of callTool remove the entry.
`TimeoutMeansUnanswered`: no answer slips in between the timed out wait and the
return. `CatalogueAnnounced`: a change is announced or about to be.
`ClosedLeavesNothing`: a closed connection leaves no tools, entry or descriptor,
also beside stop(). `ImplementsToolCalls`: an answer is returned only for an
attempt that was executed, a call that says nothing was sent is never executed,
and each call returns once. `OnlyLockCycleBlocks`: the lock cycle is the only way
for a call, a clean-up or stop() to hang, or for the gateway to stand still.

Sessions. `TableOK` (types, limit), `ClosedSessionsLeave`, `RegistryAgrees` (except
for ids whose entry another thread changed between the two updates),
`MessagesInOrderOnce`, `PoolRecovers`.

Mobile. `TokensOutlastCrashes` (`EndedStaysEnded` and `IssuedStaysValid`: no crash
undoes what was confirmed), `ImplementsDeviceTable` (a request is answered only
once the file says what memory says, and a crash undoes it as a whole or not at
all), `PairingsOK` (types, one token per
device, a secret pairs once and lasts as long as the first answer with it
said; a later answer says too much by a bounded time, section 5); `AnnouncedOnce` (types, the ring
is recent, each event pushed once, no step announced twice), `PollIsComplete`,
`HistoryIsQuiet`, `OnlySettledReplies`, `LastStepAnnounced`.

Claude. `NothingSkipped` (no line before the cursor is missing; nothing is said of
the cursor of a replaced file, section 5), `RowsOK` (types, only whole lines),
`OverstayIsBounded` (after a poll, a row past the retention came in less than a
prune's interval ago, or the last prune was refused less than that ago),
`CountedForGood` (counts only grow, and every line gets counted, likewise).

Hooks. `UndisturbedIsExact`: hooks that run one after the other leave one row per
use and totals that agree. `CallsAreKept`: after any interference the next hook
that runs alone puts the calls right; a start wipes them only where hooks
overlapped, or when Cursor's start comes after its tools. `StateOK`: types, and no
use counted twice while its id is kept; a use without one counts whenever it is
reported. All three compare totals and rows with the state file: a use that two
hooks lose by saving that file over each other is lost to them too.

Telemetry. `EachStepCountsOnce`, unless a hook died between row and count, a
process opened the database there before the session was known, or a session
started again; `OnlyFirstScanRecounts`: a pruned step comes back only in the first
scan after a start; `PassedStepsAreSeen`: the read position leaves behind only steps
that had their row, or whose line was cut, refused or in a batch given up;
`RollupOK`: types, a rollup never counts too much, and has all of an hour that is
gone unless a cutoff fell inside it, rows came late or a statement was refused.

Daemon. `ConfigOK`: ConfigManager and the file have the configuration the bridge
runs with after every POST /api/eda/config that met no other change and was
saved, until two changes overlap, a save fails or POST /api/config changes it
without the bridge. `PollsRepair`: the stored status (`StoreShowsConfig`) and the
connection (`ConnectionIsOfConfig`) end up with the configuration. `OnlyDisabledProbeBlocks`: requests and shutdown are held up
for ever, and the daemon stands still, for nothing but the probe of a disabled
bridge, section 5.

EDA plugins. `OutcomesAreTrue`: a result is of this call, and what was refused,
reported as not sent or lost with the gateway's connection never runs. What
KiCad's and FreeCAD's tools answer by themselves when the plugin gave no result
(headless) says nothing of the request, section 5; no EasyEDA tool does that.
`ImplementsToolCalls`: each of the two ways of a call keeps ToolCalls' promises,
where a headless answer counts as a failure. `OverlapOnlyAbandoned`: EasyEDA is asked two things at a time
only when nobody waits for one of them. `SessionsOK`: a program that is off has a
session only by the race of section 5. `StrangersOnlyByRace`: a request meets the
connection of another session only when its own is no longer active, or, like a
close, only after an older session was closed by its reader and by main at a time
(section 5). `OnlyLocksAndSendsBlockBridge`: when no thread of the server can go on,
it is in the lock cycle of section 5, or a call's request is on its way to a
connected plugin that does not read, or no call is in hand and stop() is
through or was not called.

## 4. Proofs

For every number of satellites, callers, tools, scores, descriptors, requests,
sessions, messages, secrets, tokens, devices, hosts, web workers, events,
transcripts, files, lines, steps, hours, hook processes, tool uses and plugin
connections, TLAPS proves, in the eight modules named ...Proofs:

| Theorem | Statement | Argument |
|---|---|---|
| RegTypeCorrect, AdvertisedIsBest, WeakerNeverDisplaces | the registry keeps its types and TableIsBest; OnlyBetterDisplaces | RegInv = types and TableIsBest is inductive. Needs that a best offer exists (BestExists), from BoundedMax: a bounded set of numbers has a greatest element |
| ImplementsRegistry, RoutedToBest | the gateway implements the registry's specification, so the same holds inside the gateway | each gateway step is a registry step or leaves it alone (RegistryStep) |
| PendingSafe | CallsOK | GwInv adds to the types what program counters say: a reader about to deliver holds an answer (Handing), a caller past the insertion has a request (Requested) and a candidate (Selected); NoLeakedPending is inductive on top of it |
| TimeoutIsUnanswered | TimeoutMeansUnanswered | LockInv: a woken caller holds its call's mutex until it has decided; whoever completes a call found the mutex free |
| ChangesAreAnnounced | CatalogueAnnounced | inductive on top of GwInv |
| GatewayStands | StandsOnlyInLockCycle, of OnlyLockCycleBlocks | Holders: whoever holds a mutex is at a step that has it. When nobody can go on, a held call mutex is with a caller that waits for the list's mutex, whose holder waits for such a call: the cycle. When no mutex is held, every thread at work can go on |
| ClosingLeavesNothing | ClosedLeavesNothing | ClosedInv adds that the kernel's table and the connections agree on who owns a descriptor, and that the socket is closed before tools are unregistered |
| CallsAreImplemented | ImplementsToolCalls | CallsInv: ids are fresh (Younger), no two callers share one (OwnRequest), an answer comes from a satellite that executed the request (Executed), a completed call has an answer or a reason (Completed), the request of a call about to report that nothing was sent is at no satellite (NeverSent); then each gateway step maps to a step of ToolCalls or a stutter (RefinementStep) |
| TableBounded | TableOK | RoomInv: the ids in use are finitely many and within the limit; an eviction makes room for the one session that follows it in the same step |
| ClosedLeave | ClosedSessionsLeave | ObjInv: an object is in the table once, under the id of whoever holds it; what a thread has erased and has still to close does not come back; so whatever is closed is out of the table or about to be erased |
| RegistryFollows | RegistryAgrees | AgreeInv adds what a half-made change knows: who has inserted and not yet registered finds the entry, who has erased does not |
| MessagesOnce | MessagesInOrderOnce | MsgInv: what a stream has taken off a queue is smaller than what is left in it, and two streams of one session have nothing in common (Mine) |
| PairingsHold | PairingsOK | SecretInv: a secret with an expiry was used before, so a new one never revives an old one; a secret that paired a device has no expiry left; the last secret keeps the expiry it was made with, which is what the first answer said, and is shown again only while it has more than the margin left, so that a later answer says too much by less than the rest |
| CrashesUndoNothing | TokensOutlastCrashes | TokenInv: an operation takes a token out of memory first, then out of the file, and only then calls it ended, so wherever a crash falls, what is confirmed is gone from both and what was handed out is in both |
| DevicesAreATable | ImplementsDeviceTable | TableInv: except while it waits to be written, the file says what memory says (Saved), and a token in memory or marked as revoked was drawn before, so a new one is valid; then each step maps to a step of DeviceTable or a stutter (TableStep) |
| AnnouncedSafe, HistorySafe, SettledSafe, PollsSafe | AnnouncedOnce, HistoryIsQuiet, OnlySettledReplies, PollIsComplete | NotifyInv: the ring holds the latest numbers (RingIsRecent), every number is pushed or in one sender's hands (Numbered), only a restart takes the numbers back behind a poller (Behind); the watcher remembers no more steps than there are, and a reply it holds back is the last step and has not waited longer than the file was left alone (Followed); what was announced is behind the watcher (Announced). Newer, which is recursive, is characterised by what it returns (NewerIs, NewerThan), from a smallest counterexample |
| FileFollowsConfig | ConfigOK | ChangeInv: a change that met no other is alone, with memory and file one step ahead of the bridge, and when it reaches the bridge the three agree, whatever they were before; CopiesFilled: whoever publishes a copy has filled it |
| DaemonStands | StandsOnlyInDisabledProbe, of OnlyDisabledProbeBlocks | StandInv: g_cvMutex is with main on its way into the wait or with the poller's poll, a poller ends only for the shutdown, the bridge's mutex is kept only by the probe of a disabled bridge; a handler whose poll has pollMutex waits for that poll |
| RowsSafe, OutputSafe | RowsOK, the safety of CountedForGood | Disk and Held: the lines a scan holds in its batch are whole lines of the file it opened; a batch leaves each message the greatest count it was told (FlushStores) |
| CursorsSafe | NothingSkipped | CursorsSettled: a cursor stands behind a whole line, and what is before it is counted; ScanSettled: what is before the scan's position is counted or in its batch. So a crash between batch and cursor reads lines again and skips none |
| OverstaySafe | OverstayIsBounded | Pruned: a row older than the retention was stored after the last prune, unless that was refused, and at the end of a poll the last prune, carried out or refused, is less than PruneEvery ago |
| HooksHold, StateSafe | StateOK | TypeInv: the ids a state keeps are the newest of those it counted (GoodState), and a process has its steps left in the order the code has them (GoodPlan) |
| ExactSafe, CallsSafe | UndisturbedIsExact, CallsAreKept | AloneInv: a hook that overlapped nobody runs alone, and what it saved is what the file holds; ExactInv: while nothing interferes, the database is what the newest state says, less what its hook still has to write (Owes) |
| RollupSafe | RollupOK | WholeOrGone: an hour that is not patchy (split by a cutoff, late rows, a refused statement) has all the rows it ever had, or none and a rollup that counts them all; Rolled: what a prune is about to delete it has counted; HourBounds: on which side of a cutoff an hour lies, from the bounds of a division |
| PassedSafe, CountSafe, RecountSafe | PassedStepsAreSeen, EachStepCountsOnce, OnlyFirstScanRecounts | Passed: a step of which the read position left behind as much as a half had its row, or is about to, or was cut, refused or given up with its batch; Total: the session's count lags by the steps that hooks, each for its own, have inserted and not counted; Abreast: what lies beyond the read position was written just now, too young for a prune, except in the first scan after a start |
| SessionsSafe | SessionsOK | OffOrSwept: a registration under way when a program is switched off is remembered as one that raced; main has still to come to every other session of it |
| OutcomesSafe | OutcomesAreTrue | Traces: only what was sent is at a plugin, only what has run is answered; CameOnce: a call comes once by each transport; OutcomesLate: an execution has its outcome only at the end of its wait; what a handler makes of it (Returns) is the outcome itself or headless |
| BridgeImplementsToolCalls | ImplementsToolCalls | OutcomesSafe's invariant (what was refused, not sent or lost has not run) and the steps one by one: an execution begins, runs at the plugin, ends once (PromisedStep) |
| BridgeStands | StandsOnlyWhenHeld, of OnlyLocksAndSendsBlockBridge | Holders: a number that stands for a connection is in its session's hands or in those of whoever is about to close it; so when stop() has closed the sessions it listed no number in use is left, and every read and send can end (SweptGone); the rest as for the gateway |
| OverlapSafe | OverlapOnlyAbandoned | SerialAlone: of a program whose tools take the mutex, no two calls are in hand at a time |
| StrangersSafe | StrangersOnlyByRace | Life: what each step of a reader says of its session; NumbersAge: a number in a session's hands is closed, its own or a later connection's; NumbersOwn: its own for sure unless this or an older session was closed by two threads; Aimed: a request in hand is for a connection that was there |

Assumptions are those of the modules: client ids and scores are naturals up to
some bound, special values are distinct from ordinary ones, readers, callers
and the stopping thread are different threads, the notification thread is no web
worker, a secret is reused only while it lasts longer than the margin, the ring
and a hook's list of ids have room for one entry, pruning has an interval
(kPruneEveryNSec), a poll reads at least one short line and a long line does not
fit in it, transcripts may have the two steps they start with; CrashesUndoNothing and
DevicesAreATable are about a device file that can be written (SaveMayFail =
FALSE). TLC evaluates them in the runs.

Only model-checked, because fairness and ENABLED are outside the prover:
`PoolRecovers`, `LastStepAnnounced`, `PollsRepair` and the liveness in
`CountedForGood`. Three properties say what alone can stop everything,
`OnlyLockCycleBlocks`, `OnlyDisabledProbeBlocks` and `OnlyLocksAndSendsBlockBridge`.
Each says what every thread waits for (ReaderCanGo, CallerCanGo, ...) and has two
parts: TLC checks that some thread's step is ENABLED exactly when one of them
holds, and, in the first two, that calls, clean-ups, requests and stops end; that
the system stands still only at rest or in the named situation is a theorem,
for any number of threads. Every other property of the passing runs is stated by a
theorem.

The invariants were checked by TLC as they were built; where one was not inductive
the counterexample said what the code relies on: a session's descriptor number is
safe only as long as no older session was closed by two threads, which is what
StrangersOnlyByRace excepts (section 5).

## 5. Where code and documents disagree

Checked by a run of its own:

- **gw_hang** (`EveryCallReturns`). callTool wakes from wait_for holding
  PendingCall::mutex and takes `_pendingMutex` (TcpGateway.cxx:586); a closing
  reader and stop() hold `_pendingMutex` and take each PendingCall::mutex
  (266-268, 129-131). A disconnection at the moment of a timeout or answer blocks
  both, and every later call behind them. Design.md:261 says such calls are
  answered.

Stated in the modules and found violated by TLC, without a run. Naming one
under INVARIANTS or PROPERTIES of the configuration given repeats the trace:

- `DisconnectFailsItsOwnCalls` (gw_calls, a property; comment TcpGateway.cxx:264).
  Pending calls do not say which client they wait on, so one closing connection
  fails all of them (267).
- `UnchangedMeansRead` (claude_ingest, an invariant; Design.md:425). A transcript
  replaced by one at least as long as what had been read is read from the old
  offset (ClaudeCollector.cxx:586).
- `RequestReachesItsSatellite` (gw_calls, an invariant; Design.md:157). callTool
  tests a satellite's socketFd and reads it; the satellite disconnects, its
  reader closes the descriptor, another satellite is accepted under the same
  number; the request is written to that one.
- `AnsweredCallIsRelayed` (gw_calls, a property; Design.md:184). A satellite answers
  and disconnects before the caller wakes: its reader has marked the connection
  inactive, so the caller takes the call for a failed one, drops the answer and
  runs the tool again on the next candidate.
- `FailedCallSaysWhy` (gw_calls, an invariant; Design.md:234). The first
  candidate's connection drops, the others are no longer connected when their
  turn comes: the loop ends with anyClientAttempted set, so callTool returns
  false and leaves the message empty (619-622).
- `EveryStreamIsReachable` (mcp_sessions, an invariant; Design.md:145). A legacy
  stream ends and sets closed; its client reconnects and reopens the session
  before the first stream's releaser erases it from the table: the new stream
  drains a session no broadcast reaches and no reaper sees.
- `EndedStaysEnded`, `IssuedStaysValid` (mobile_pairing with SaveMayFail = TRUE).
  When the device file cannot be written the operation still reports success:
  after a restart a revoked token is valid again, contrary to
  test/TestMobileGateway.cxx:150, or an issued one is gone, contrary to
  Design.md:668.

- `AnswerIsRight` (mobile_pairing, an invariant; web/app.js:2000). GET
  /api/mobile/qr answers "expires_in": 300 whatever it was given
  (WebServer.cxx:5633), and the page says "Valid for 300s", also of a secret shown
  again when little more than 30 s are left of it.

What the properties above except, because the code does it:

- The probe of a disabled bridge returns getStatus() with `_mutex` held, which
  takes it again (EdaBridge.cxx:1092): the thread and all that need the bridge
  wait for ever, and so does the end of the daemon. POST /api/eda/probe
  reaches it, and so does the poller when a handler switches the bridge off
  between its two looks (Main.cxx:366-370). setConfig leaves `_connected` as it was;
  the next probe mends it.
- Two overlapping POST /api/eda/config can leave file and bridge with different
  configurations; so does a save that fails, of which nobody asks the result
  (WebServer.cxx:11315-11317). POST /api/config saves an "eda" section
  (ConfigManager.cxx:1006-1022) and does not tell the bridge (11420-11441), which
  goes on with the old one until the daemon starts again; a POST /api/eda/config
  in between starts from the bridge's configuration and silently undoes it.
- pruneOlderThan answers -1 when its DELETE is refused
  (ClaudeUsageStore.cxx:542-555); the collector does not look and notes the prune
  as done (ClaudeCollector.cxx:806-808), so old rows stay for one interval more.
- A transcript line with a field of another type than the scan expects throws
  when the offset was moved already (AntigravityCollector.cxx:676, 684-697, 739);
  the catch at 772 drops all that was read with it until the next start.
- A step pruned from AgentTelemetryDb is counted again by the first scan after a
  restart, which reads the transcript from its beginning; the comment at
  AgentTelemetryDb.cxx:560 says a repeated tool step must not add another call.
  A roll-up replaces the hour's earlier one, so an hour that a cutoff splits keeps
  only its later part; when a roll-up is refused and the deletion that follows is
  not, the rows are gone without one. The backfill at opening, by the daemon or by any
  hook process (AgentTelemetryDb.cxx:320-346), can count a step that a hook is
  about to count. The columns rolled up from TURN_END and TOOL_POST_USE
  stay 0: the recorders write USER_TURN and TOOL_CALL.
- Cursor's turn total goes back to max(1, turns) of the state file at the next
  tool result, after a prompt had added one; a SessionStart that comes after
  tools wipes the row's calls until the next tool result.
- EdaRpcServer: callPlugin wakes with its call's mutex and takes the list's, stop()
  takes them in the opposite order; a session is closed by its reader and by main,
  so that the second close() may meet a number already used again, whose owner
  then holds a number that is closed, and so on along a chain of sessions (the run
  has two of them, the theorem any number); a request is written to a number
  read before; a registration that passed the check keeps
  its session when the program is switched off meanwhile; a plugin that
  disconnects does not end the calls that wait for it. A reader, too, reads a
  number it took before (2212).
- EdaRpcServer: requests are sent without a time-out (756-771) and before
  callPlugin's own begins (2545), so a plugin that is connected and does not read
  holds its caller, and those who wait for its writeMutex, until it reads or the
  connection ends. stop() waits for the gateway's thread (1990, 2626) before it
  closes the connections (2011), and with that thread in such a send it waits too.
- KiCad's and FreeCAD's tools answer by themselves when callPlugin has no result
  (3344-3363, 3722-3782); freecad_invoke_api then answers ok with executed: true
  (4133-4145), of a request that was not sent, timed out or may yet run.
- In mode "bidirectional" a
  call whose client transport times out is sent again through the gateway, so an
  edit can run twice.

## 6. Not modelled

PROJECT.json gives a note for each component. Left out inside modelled ones:

- Gateway: the record of monitors seen before (`_retainedMonitors`),
  checkTcpPortReachable; socket buffers, so that write() never blocks (302) and
  never writes a part; accept() failing (159).
- Sessions and McpServer: tool profiles, decoding and dispatch of JSON-RPC and
  errors in it (with the int arithmetic of McpServer.cxx:1120); client names and
  heartbeat times of TaskRegistry.
- Mobile: the QR image; the dashboard that asks for it.
- Events and transcripts: titles, workspaces and snippets; subagent transcripts; a
  transcript that is listed and cannot be opened (WebServer.cxx:11847); lines whose
  fields have another type, which end the watcher's pass by an exception (caught at
  11568; the seeding pass at 11555 has no such catch).
- Claude: totals, costs and their overflow (ClaudeUsageStore.cxx:52), price versions
  (357) with PriceCatalog, tiers, the ccusage overlay; power failures that take
  back committed SQLite transactions (rows are committed before their cursor, so
  any prefix of the commits is a state the model has).
- Hooks: subagents, prompts' texts, thoughts, a state file that cannot be written,
  and, of two that save it at a time, what the first one had counted.
- Telemetry: samples and their expiry, deletion by age or size on request, the
  queries of the pages, POST /api/telemetry/event. It is assumed that hook and scan
  name a tool alike, which makes their rows the same.
- Daemon: the other collectors' polls, start-up, the console, the order in which
  the other servers stop; StateStore's listeners (StateStore.cxx:32), of which the
  daemon registers none; what two saves at a time make of one file, and readers of
  ConfigManager's configuration beside its writers, which share no mutex. The usage half of the stored status, which a handler's
  stale copy can put back, is repaired by the next poll like the EDA half.
- EDA: what readers send (their answers to a registration), the answers' way back
  to the daemon, the two EasyEDA tools that make several calls (autoroute, run_drc);
  path rewriting, accelerators, edits of schematics and boards in memory,
  authentication, framing and chunks, process and file tools; detached RPC threads
  that stop() does not join.

Outside TLC's reach or purpose: floating-point analysis (EdaAccelerators,
HistoryStore's deltas, InsightEngine's scores), text conversion, user interfaces,
network services. They, the pages and their generated copy are most of the
repository's lines.

## 7. Plan

Done, in this order: ToolRegistry; TcpGateway with ToolCalls and their proofs;
McpSessions; MobilePairing with DeviceTable; AgentEvents and TranscriptWatch; ClaudeIngest;
AgentHooks; Telemetry; EdaBridge and Daemon; EdaPlugins.

Left, the most important first:

1. Pricing: the refresh thread, its cache file and the versions a poll saves
   (PriceCatalog, recordPriceVersion, saveCatalogVersion), so that a past message
   keeps its price; the sticky overflow of the 64-bit sums over bounded inputs.
2. RetainedMonitors: a satellite that reconnects before its old connection is
   seen to end; HistoryStore and InsightEngine's rebuild beside ingestion.
3. WebServer's dashboard sessions, McpServer's profiles.

Abstract specifications worth stating next: a session store (McpSessions
implements a table with a limit), an append-only counter per message
(ClaudeIngest), a counter per hour (Telemetry). The invariants of section 4 are
what the refinement proofs need: RoomInv and AgreeInv, CursorsSettled, Rolled and
WholeOrGone. New theorems belong in the proof module of their component.
