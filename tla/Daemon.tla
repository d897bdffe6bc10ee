------------------------------- MODULE Daemon -------------------------------
(***************************************************************************)
(* The daemon around EdaBridge: the poller thread and the shutdown of      *)
(* Main.cxx (src/src/Main.cxx), the StateStore they fill                   *)
(* (src/src/StateStore.cxx), the configuration ConfigManager.cxx keeps in  *)
(* memory and in its file, and the handlers of WebServer.cxx that change   *)
(* the bridge, its configuration or the store: POST /api/eda/config,       *)
(* /api/config, /api/eda/probe and /api/refresh.                           *)
(*                                                                         *)
(* The poller holds g_cvMutex from its wake-up to the end of its poll, and *)
(* main needs that mutex to return from its wait.  The signal handler      *)
(* takes no mutex: its notification reaches only who waits already.  Polls *)
(* run in the poller and in the handlers of refreshes, one at a time.  A   *)
(* handler reads the configuration, writes the file, changes the bridge    *)
(* and replaces the stored status in steps between which anything else can *)
(* happen.                                                                 *)
(*                                                                         *)
(* Modelled without the console, and of the stored status only its EDA     *)
(* part.  Saving is one step: what two saves at a time make of the file is *)
(* left out.                                                               *)
(***************************************************************************)
EXTENDS Naturals, EdaBridge

CONSTANTS
  Workers,    \* threads of the web server, numbers
  MaxPosts    \* bound on the requests that reach the handlers

ASSUME DaemonAssumption ==
  /\ MaxPosts \in Nat /\ Workers \subseteq Nat \ {0}
  /\ NoOne \notin Workers

VARIABLES
  mem,        \* the EDA part of ConfigManager's configuration
  disk,       \* the EDA part of the configuration file
  store,      \* the StateStore: the configuration its status shows
  poller,     \* the step of the poller
  poll,       \* the pollOnce() that has pollMutex: its thread, its step and its
              \* copy of configuration or status
  web,        \* the handlers: the step and the copy of each
  main,       \* the step of main()
  cv,         \* who holds g_cvMutex
  shutdown,   \* g_shutdown
  posts,
  alone,      \* history: the handlers of POST /api/eda/config whose change has
              \* met no other so far and was not refused by the file system
  apart       \* history: file or memory were changed without the bridge, or the
              \* other way round, since the last such change

configVars == <<mem, disk, alone, apart>>
mainVars == <<main, shutdown>>
vars == <<bridgeVars, configVars, store, poller, poll, web, mainVars, cv, posts>>

PollerSteps == {"lock", "wait", "poll", "ended"}
PollSteps == {"none", "config", "probe", "exchange", "status", "update"}
WebSteps  == {"idle", "save", "set", "shown", "probe", "exchange", "status", "update",
              "poll", "answer"}
MainSteps == {"loop", "enter", "wait", "woken", "join", "stopWeb", "ended"}

NoCopy == [enabled |-> FALSE, host |-> NoHost]
Thread(pc) == [pc |-> pc, copy |-> NoCopy]
PollerThread == 0
PollAt(t, pc) == [by |-> t, pc |-> pc, copy |-> NoCopy]
NoPoll == PollAt(PollerThread, "none")

TypeOK ==
  /\ BridgeTypeOK
  /\ mem \in Configs /\ disk \in Configs /\ store \in Configs
  /\ poller \in PollerSteps
  /\ poll.pc \in PollSteps /\ poll.copy \in Configs \cup {NoCopy}
  /\ poll.by \in Workers \cup {PollerThread}
  /\ \A w \in Workers : web[w].pc \in WebSteps /\ web[w].copy \in Configs \cup {NoCopy}
  /\ main \in MainSteps /\ cv \in {"main", "poller", NoOne}
  /\ shutdown \in BOOLEAN /\ apart \in BOOLEAN /\ alone \subseteq Workers
  /\ posts \in 0..MaxPosts

(* The environment overrides what the file says of the host.               *)
Init ==
  /\ BridgeInit
  /\ mem = cfg
  /\ disk \in {[cfg EXCEPT !.host = h] : h \in Hosts}
  /\ apart = (disk # cfg) /\ alone = {}
  /\ store = cfg
  /\ poller = "lock" /\ poll = NoPoll
  /\ web = [w \in Workers |-> Thread("idle")]
  /\ main = "loop" /\ cv = NoOne /\ shutdown = FALSE
  /\ posts = 0

------------------------------------------------------------------------------
(* The poller thread.                                                      *)
rest == <<configVars, mainVars, posts>>   \* what a poll leaves alone

PollerWaits ==
  /\ poller = "lock" /\ (shutdown \/ cv = NoOne)
  /\ poller' = IF shutdown THEN "ended" ELSE "wait"
  /\ UNCHANGED <<rest, bridgeVars, store, poll, web, cv>>

(* The interval is over, or a notification came.                           *)
PollerWakes ==
  /\ poller = "wait" /\ cv = NoOne
  /\ poller' = IF shutdown THEN "ended" ELSE "poll"
  /\ cv' = IF shutdown THEN NoOne ELSE "poller"
  /\ UNCHANGED <<rest, bridgeVars, store, poll, web>>

(* pollOnce(), in the poller or in a handler: it takes pollMutex first.    *)
running == <<rest, poller, web, cv>>
PollTo(pc) == poll' = PollAt(poll.by, pc)
PollCopies(pc, copy) == poll' = [by |-> poll.by, pc |-> pc, copy |-> copy]

Wants(t) == IF t = PollerThread THEN poller = "poll" ELSE web[t].pc = "poll"

PollBegins(t) ==
  /\ Wants(t) /\ poll.pc = "none"
  /\ poll' = PollAt(t, "config")
  /\ UNCHANGED <<running, bridgeVars, store>>

Poller == PollerWaits \/ PollerWakes \/ PollBegins(PollerThread)

(* getConfig() and probeNow() are two sections; a probe is due when the    *)
(* last one is long enough ago.                                            *)
PollConfig(due) ==
  /\ poll.pc = "config" /\ MutexFree
  /\ PollTo(IF cfg.enabled /\ due THEN "probe" ELSE "status")
  /\ UNCHANGED <<running, bridgeVars, store>>

(* Mutated form: the probe goes to the host the file names.                *)
PollProbe_File ==
  /\ poll.pc = "probe"
  /\ ProbeStarts(poll.by)
  /\ PollCopies("exchange", disk)
  /\ UNCHANGED <<running, store>>

PollProbe ==
  /\ poll.pc = "probe"
  /\ ProbeStarts(poll.by)
  /\ PollCopies("exchange", cfg)
  /\ UNCHANGED <<running, store>>

PollExchange ==
  /\ poll.pc = "exchange"
  /\ \E works \in BOOLEAN : ProbeEnds(poll.copy, works)
  /\ PollTo("status")
  /\ UNCHANGED <<running, store>>

(* Mutated form: the poll keeps the EDA status that is stored.             *)
PollStatus_Stored ==
  /\ poll.pc = "status" /\ MutexFree
  /\ PollCopies("update", store)
  /\ UNCHANGED <<running, bridgeVars, store>>

PollStatus ==
  /\ poll.pc = "status" /\ MutexFree
  /\ PollCopies("update", cfg)
  /\ UNCHANGED <<running, bridgeVars, store>>

(* The poller lets go of g_cvMutex too; a handler goes on to its answer.   *)
PollUpdate ==
  /\ poll.pc = "update"
  /\ store' = poll.copy /\ poll' = NoPoll
  /\ IF poll.by = PollerThread
     THEN poller' = "lock" /\ cv' = NoOne /\ UNCHANGED web
     ELSE web' = [web EXCEPT ![poll.by] = Thread("answer")] /\ UNCHANGED <<poller, cv>>
  /\ UNCHANGED <<rest, bridgeVars>>

Poll == \/ \E due \in BOOLEAN : PollConfig(due)
        \/ PollProbe \/ PollExchange \/ PollStatus \/ PollUpdate

------------------------------------------------------------------------------
(* The handlers.                                                           *)
others == <<poller, poll, mainVars, cv>>   \* what a handler leaves alone
WebTo(w, pc) == web' = [web EXCEPT ![w] = Thread(pc)]
Changing(w) == web[w].pc \in {"save", "set"}
OneField(new, old) == new.enabled = old.enabled \/ new.host = old.host

(* A request goes to the first idle worker: they are alike.                *)
Accepts(w) ==
  /\ web[w].pc = "idle" /\ \A v \in Workers : web[v].pc = "idle" => w <= v
  /\ main # "ended" /\ posts < MaxPosts
  /\ posts' = posts + 1

(* POST /api/eda/config: the configuration of the bridge, with one field   *)
(* of the body in it.                                                      *)
PostConfig(w) ==
  /\ Accepts(w) /\ MutexFree
  /\ \E new \in Configs :
       /\ new # cfg /\ OneField(new, cfg)
       /\ web' = [web EXCEPT ![w] = [pc |-> "save", copy |-> new]]
  /\ alone' = IF \E v \in Workers : Changing(v) THEN {} ELSE {w}
  /\ UNCHANGED <<others, bridgeVars, mem, disk, apart, store>>

(* Mutated form: the file keeps the configuration the bridge has so far.   *)
WebSave_Old(w) ==
  /\ web[w].pc = "save"
  /\ mem' = web[w].copy /\ disk' = cfg
  /\ web' = [web EXCEPT ![w].pc = "set"]
  /\ UNCHANGED <<others, bridgeVars, alone, apart, store, posts>>

(* Whether the file could be written is not asked.                         *)
WebSave(w) ==
  /\ web[w].pc = "save"
  /\ mem' = web[w].copy
  /\ \/ disk' = mem' /\ UNCHANGED alone
     \/ alone' = alone \ {w} /\ UNCHANGED disk
  /\ web' = [web EXCEPT ![w].pc = "set"]
  /\ UNCHANGED <<others, bridgeVars, apart, store, posts>>

WebSet(w) ==
  /\ web[w].pc = "set"
  /\ SetConfig(web[w].copy)
  /\ web' = [web EXCEPT ![w].pc = "shown"]
  /\ apart' = (w \notin alone) /\ alone' = alone \ {w}
  /\ UNCHANGED <<others, mem, disk, store, posts>>

(* The status shows the configuration of the request, whatever the bridge  *)
(* has by then.                                                            *)
WebShown(w) ==
  /\ web[w].pc = "shown" /\ MutexFree
  /\ web' = [web EXCEPT ![w].pc = "update"]
  /\ UNCHANGED <<others, bridgeVars, configVars, store, posts>>

(* POST /api/config: ConfigManager's configuration, with what the body has *)
(* for the bridge in it, goes to the file; the bridge is not told.         *)
PostWhole(w) ==
  /\ Accepts(w)
  /\ \E new \in {c \in Configs : OneField(c, mem)} :
       /\ mem' = new
       /\ apart' = (apart \/ new # mem)
       /\ alone' = IF new # mem THEN {} ELSE alone
       /\ disk' \in {new, disk}
  /\ UNCHANGED <<others, bridgeVars, store, web>>

(* POST /api/eda/probe.                                                    *)
PostProbe(w) ==
  /\ Accepts(w)
  /\ WebTo(w, "probe")
  /\ UNCHANGED <<others, bridgeVars, configVars, store>>

WebProbe(w) ==
  /\ web[w].pc = "probe"
  /\ ProbeStarts(w)
  /\ web' = [web EXCEPT ![w] = [pc |-> "exchange", copy |-> cfg]]
  /\ UNCHANGED <<others, configVars, store, posts>>

WebExchange(w) ==
  /\ web[w].pc = "exchange"
  /\ \E works \in BOOLEAN : ProbeEnds(web[w].copy, works)
  /\ WebTo(w, "status")
  /\ UNCHANGED <<others, configVars, store, posts>>

(* Mutated form: the handler leaves the status to the next poll and waits. *)
WebStatus_ByPoller(w) ==
  /\ web[w].pc = "status" /\ MutexFree /\ poll.pc = "update"
  /\ web' = [web EXCEPT ![w] = [pc |-> "update", copy |-> cfg]]
  /\ UNCHANGED <<others, bridgeVars, configVars, store, posts>>

(* Mutated form: the status carries no configuration.                      *)
WebStatus_Empty(w) ==
  /\ web[w].pc = "status" /\ MutexFree
  /\ WebTo(w, "update")
  /\ UNCHANGED <<others, bridgeVars, configVars, store, posts>>

WebStatus(w) ==
  /\ web[w].pc = "status" /\ MutexFree
  /\ web' = [web EXCEPT ![w] = [pc |-> "update", copy |-> cfg]]
  /\ UNCHANGED <<others, bridgeVars, configVars, store, posts>>

WebUpdate(w) ==
  /\ web[w].pc = "update"
  /\ store' = web[w].copy
  /\ WebTo(w, "idle")
  /\ UNCHANGED <<others, bridgeVars, configVars, posts>>

(* POST /api/refresh: the handler polls, then answers with the status the  *)
(* bridge has.                                                             *)
PostRefresh(w) ==
  /\ Accepts(w)
  /\ WebTo(w, "poll")
  /\ UNCHANGED <<others, bridgeVars, configVars, store>>

WebAnswer(w) ==
  /\ web[w].pc = "answer" /\ MutexFree
  /\ WebTo(w, "idle")
  /\ UNCHANGED <<others, bridgeVars, configVars, store, posts>>

Post(w) == PostConfig(w) \/ PostWhole(w) \/ PostProbe(w) \/ PostRefresh(w)

Handle(w) == \/ WebSave(w) \/ WebSet(w) \/ WebShown(w) \/ WebProbe(w) \/ WebExchange(w)
             \/ WebStatus(w) \/ WebUpdate(w) \/ WebAnswer(w)

------------------------------------------------------------------------------
(* Tool calls of other threads, one at a time.                             *)
BeginCall ==
  /\ main # "ended" /\ asked = {} /\ CallBegins
  /\ UNCHANGED <<configVars, store, poller, poll, web, mainVars, cv, posts>>

EndCall ==
  /\ \E h \in Hosts, answered \in BOOLEAN : CallEnds(h, answered)
  /\ UNCHANGED <<configVars, store, poller, poll, web, mainVars, cv, posts>>

------------------------------------------------------------------------------
(* main() and the signal handler.                                          *)
still == <<bridgeVars, configVars, store, poll, web, posts>>

(* Main looks at the flag and begins to wait: between the two, it holds the *)
(* mutex but is not yet among those a notification reaches.                *)
MainLooks ==
  /\ main \in {"loop", "woken"}
  /\ (main = "woken" \/ ~shutdown) => cv = NoOne
  /\ main' = IF shutdown THEN "join" ELSE "enter"
  /\ cv' = IF shutdown THEN cv ELSE "main"
  /\ UNCHANGED <<still, poller, shutdown>>

MainWaits ==
  /\ main = "enter"
  /\ main' = "wait" /\ cv' = NoOne
  /\ UNCHANGED <<still, poller, shutdown>>

MainJoins ==
  /\ main = "join" /\ poller = "ended"
  /\ main' = "stopWeb"
  /\ UNCHANGED <<still, poller, shutdown, cv>>

(* webServer.stop() waits for the handlers under way.                      *)
MainStopsWeb ==
  /\ main = "stopWeb" /\ \A w \in Workers : web[w].pc = "idle"
  /\ main' = "ended"
  /\ UNCHANGED <<still, poller, shutdown, cv>>

Main == MainLooks \/ MainWaits \/ MainJoins \/ MainStopsWeb

(* Mutated form: the handler only sets the flag.                           *)
Signal_NoNotify ==
  /\ main \in {"loop", "enter", "wait"}
  /\ shutdown' = TRUE
  /\ UNCHANGED <<still, poller, main, cv>>

(* The handler: it sets the flag and wakes who waits at this moment.       *)
Signal ==
  /\ main \in {"loop", "enter", "wait"}
  /\ shutdown' = TRUE
  /\ main' = IF main = "wait" THEN "woken" ELSE main
  /\ UNCHANGED <<still, poller, cv>>

Next ==
  \/ Poller
  \/ Poll
  \/ \E w \in Workers : Post(w) \/ PollBegins(w) \/ Handle(w)
  \/ BeginCall \/ EndCall
  \/ Main
  \/ Signal

Spec == Init /\ [][Next]_vars

(* Threads run, whoever wants pollMutex gets it in the end, probes become  *)
(* due again and again, exchanges end with a time-out at the latest, and   *)
(* whoever wants the daemon to stop presses Ctrl+C again.                  *)
Fairness ==
  /\ WF_vars(Poller) /\ SF_vars(\E w \in Workers : PollBegins(w))
  /\ WF_vars(Poll) /\ SF_vars(PollConfig(TRUE))
  /\ WF_vars(Main) /\ WF_vars(shutdown /\ Signal)
  /\ \A w \in Workers : WF_vars(Handle(w))

FairSpec == Spec /\ Fairness

------------------------------------------------------------------------------
(* Properties.                                                             *)

(* When no handler is half-way, ConfigManager and the file have the        *)
(* configuration the bridge runs with.  It is so again after each POST     *)
(* /api/eda/config that meets no other change and whose save succeeds, and *)
(* until two changes overlap, a save fails or POST /api/config writes      *)
(* another configuration of the bridge, which the bridge is not told.      *)
FileHasConfig ==
  (~apart /\ \A w \in Workers : ~Changing(w)) => mem = cfg /\ disk = cfg

(* Variables keep their types, and the file has the configuration.         *)
ConfigOK == TypeOK /\ FileHasConfig

(* The stored status shows the configuration the bridge has, and the       *)
(* connection of an enabled bridge is that of its host, if there is one.   *)
StoreShowsConfig == store = cfg
ConnectionIsOfConfig == cfg.enabled => conn \in {cfg.host, NoHost}

(* It ends up so, however polls and handlers overwrite each other's status *)
(* and probes or calls begun with an earlier configuration report theirs:  *)
(* the next polls repair it, as long as the daemon runs and nobody holds   *)
(* the bridge's mutex (Main.cxx:365-381, EdaBridge.cxx:1078-1224).         *)
PollsRepair ==
  <>[](~shutdown /\ held = NoOne) => <>[](StoreShowsConfig /\ ConnectionIsOfConfig)

(* A request ends unless somebody probed a disabled bridge.                *)
OnlyDisabledProbeBlocksRequests ==
  \A w \in Workers : (web[w].pc # "idle") ~> (web[w].pc = "idle" \/ held # NoOne)

(* The first signal can be lost between main's look at the flag and its    *)
(* wait; signals that go on stop the daemon, after its poller and its web  *)
(* server, unless somebody probed a disabled bridge.                       *)
OnlyDisabledProbeBlocksStop ==
  shutdown ~> (main = "ended" \/ held # NoOne)

(* What each thread waits for, by its step.                                *)
PollerCanGo ==
  \/ poller = "lock" /\ (shutdown \/ cv = NoOne)
  \/ poller = "wait" /\ cv = NoOne
  \/ poller = "poll" /\ poll.pc = "none"

PollCanGo ==
  \/ poll.pc \in {"config", "probe", "exchange", "status"} /\ MutexFree
  \/ poll.pc = "update"

HandlerCanGo(w) ==
  \/ web[w].pc \in {"save", "update"}
  \/ web[w].pc \in {"set", "shown", "probe", "exchange", "status", "answer"} /\ MutexFree
  \/ web[w].pc = "poll" /\ poll.pc = "none"

MainCanGo ==
  \/ main = "loop" /\ (shutdown \/ cv = NoOne)
  \/ main = "woken" /\ cv = NoOne
  \/ main = "enter"
  \/ main = "join" /\ poller = "ended"
  \/ main = "stopWeb" /\ \A w \in Workers : web[w].pc = "idle"

DaemonCanGo ==
  \/ PollerCanGo \/ PollCanGo
  \/ \E w \in Workers : HandlerCanGo(w)
  \/ MainCanGo
  \/ MutexFree /\ asked # {}

DaemonStep ==
  \/ Poller \/ Poll
  \/ (\E w \in Workers : PollBegins(w) \/ Handle(w)) \/ Main \/ EndCall

(* When no thread can go on, requests and polls are through and main is    *)
(* too, but for a second signal when the first one was lost, unless the    *)
(* bridge is disabled and the probe of it keeps its mutex.                 *)
StandsOnlyInDisabledProbe ==
  ~DaemonCanGo =>
    \/ held # NoOne /\ ~cfg.enabled
    \/ /\ poller = "ended" /\ poll.pc = "none" /\ shutdown
       /\ \A w \in Workers : web[w].pc = "idle"
       /\ asked = {}
       /\ main \in {"wait", "ended"}

(* Requests and the stop of the daemon wait for ever only for the mutex    *)
(* that the probe of a disabled bridge keeps, and threads can go on when   *)
(* they say so (EdaBridge.cxx:1078-1094).                                  *)
OnlyDisabledProbeBlocks ==
  /\ OnlyDisabledProbeBlocksRequests
  /\ OnlyDisabledProbeBlocksStop
  /\ []((ENABLED DaemonStep <=> DaemonCanGo) /\ StandsOnlyInDisabledProbe)

==============================================================================
