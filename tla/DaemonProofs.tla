---------------------------- MODULE DaemonProofs ----------------------------
(* Theorems about Daemon, for any hosts and any number of web workers.    *)
EXTENDS Daemon, TLAPS

(* Whoever will publish a copy, or use its host, has a configuration in it.*)
CopiesFilled ==
  /\ poll.pc \in {"exchange", "update"} => poll.copy \in Configs
  /\ \A w \in Workers :
       web[w].pc \in {"save", "set", "shown", "exchange", "update"} =>
         web[w].copy \in Configs

(* A handler that has met no other change is the only one half-way, and    *)
(* once it has saved, memory and file have what it will give the bridge.   *)
ChangeInv ==
  /\ \A w \in alone :
       /\ Changing(w)
       /\ \A v \in Workers : Changing(v) => v = w
       /\ web[w].pc = "set" => mem = web[w].copy /\ disk = web[w].copy
  /\ FileHasConfig

(* Poll and handlers are records, as TypeOK says of their fields.          *)
Threads ==
  /\ poll \in [by : Workers \cup {PollerThread}, pc : PollSteps,
              copy : Configs \cup {NoCopy}]
  /\ web \in [Workers -> [pc : WebSteps, copy : Configs \cup {NoCopy}]]

(* The handler whose poll is under way is in it.                           *)
PollInv ==
  poll.pc # "none" /\ poll.by \in Workers => web[poll.by].pc = "poll"

ConfigInv == TypeOK /\ Threads /\ CopiesFilled /\ ChangeInv /\ PollInv

USE DEF PollerSteps, PollSteps, WebSteps, MainSteps, Thread, PollAt, NoPoll, Configs

LEMMA ConfigStart == Init => ConfigInv
<1> SUFFICES ASSUME Init
             PROVE  ConfigInv
  OBVIOUS
<1>1. /\ cfg \in Configs /\ conn = NoHost /\ held = NoOne /\ asked = {}
      /\ mem = cfg /\ store = cfg /\ alone = {} /\ apart = (disk # cfg)
      /\ poller = "lock" /\ poll = [by |-> PollerThread, pc |-> "none", copy |-> NoCopy]
      /\ web = [w \in Workers |-> [pc |-> "idle", copy |-> NoCopy]]
      /\ main = "loop" /\ cv = NoOne /\ shutdown = FALSE
      /\ posts = 0
  BY DEF Init, BridgeInit
<1>2. Threads
  BY <1>1 DEF Threads
<1>3. \A w \in Workers : web[w] = [pc |-> "idle", copy |-> NoCopy]
  BY <1>1
<1>4. disk \in Configs
  BY <1>1 DEF Init
<1>5. TypeOK
  <2>1. BridgeTypeOK /\ mem \in Configs /\ store \in Configs
    BY <1>1 DEF BridgeTypeOK
  <2>2. poll.pc = "none" /\ poll.copy = NoCopy /\ poll.by = PollerThread
    BY <1>1
  <2>3. posts \in 0..MaxPosts
    BY <1>1, DaemonAssumption
  <2>. QED BY <1>1, <1>3, <1>4, <2>1, <2>2, <2>3 DEF TypeOK
<1>6. CopiesFilled
  BY <1>1, <1>3 DEF CopiesFilled
<1>7. ChangeInv
  BY <1>1 DEF ChangeInv, FileHasConfig
<1>8. PollInv
  BY <1>1 DEF PollInv
<1>. QED BY <1>2, <1>5, <1>6, <1>7, <1>8 DEF ConfigInv

(* A step that changes neither file nor memory nor configuration, and      *)
(* nobody's place in a change, keeps what is said of changes.              *)
LEMMA NoChange ==
  ASSUME ConfigInv, UNCHANGED <<cfg, configVars>>,
         \A w \in Workers : (Changing(w) \/ Changing(w)') => web'[w] = web[w]
  PROVE  ChangeInv'
<1>1. \A w \in Workers : Changing(w)' <=> Changing(w)
  BY DEF Changing
<1>2. alone \subseteq Workers
  BY DEF ConfigInv, TypeOK
<1>. QED BY <1>1, <1>2 DEF ConfigInv, ChangeInv, FileHasConfig, configVars

(* Polls, whoever runs them, change neither file nor configuration.        *)
LEMMA PollBeginStep ==
  ASSUME ConfigInv, NEW t \in Workers \cup {PollerThread}, PollBegins(t)
  PROVE  ConfigInv'
<1> USE BridgeAssumption, DaemonAssumption
    DEF ConfigInv, TypeOK, BridgeTypeOK, Threads, NoCopy, rest, running, configVars,
        mainVars, bridgeVars, PollBegins
<1>1. ChangeInv'
  BY NoChange
<1>2. (TypeOK /\ Threads /\ CopiesFilled)'
  BY DEF CopiesFilled
<1>3. PollInv'
  BY DEF PollInv, Wants, PollerThread
<1>. QED BY <1>1, <1>2, <1>3

LEMMA PollStep == ConfigInv /\ (PollerWaits \/ PollerWakes \/ Poll) => ConfigInv'
<1> SUFFICES ASSUME ConfigInv, PollerWaits \/ PollerWakes \/ Poll
             PROVE  ConfigInv'
  OBVIOUS
<1> USE BridgeAssumption, DaemonAssumption
    DEF ConfigInv, TypeOK, BridgeTypeOK, Threads, PollTo, PollCopies, NoCopy, rest,
        running, configVars, mainVars
<1>1. UNCHANGED <<cfg, configVars>>
  BY DEF Poll, PollerWaits, PollerWakes, PollConfig, PollProbe, PollExchange, PollStatus,
         PollUpdate, bridgeVars, ProbeStarts, ProbeEnds
<1>2. ASSUME ~PollUpdate
      PROVE  ConfigInv'
  <2>1. web' = web
    BY <1>2 DEF Poll, PollerWaits, PollerWakes, PollConfig, PollProbe, PollExchange,
       PollStatus
  <2>2. ChangeInv'
    BY <1>1, <2>1, NoChange
  <2>3. PollInv'
    <3>1. CASE poll' = poll
      BY <2>1, <3>1 DEF PollInv
    <3>2. ASSUME poll' # poll
          PROVE  poll.pc # "none" /\ poll'.by = poll.by
      BY <1>2, <3>2 DEF Poll, PollerWaits, PollerWakes, PollConfig, PollProbe,
         PollExchange, PollStatus
    <3>. QED BY <2>1, <3>1, <3>2 DEF PollInv
  <2>4. (TypeOK /\ Threads /\ CopiesFilled)'
    <3>1. CASE PollerWaits
      BY <3>1 DEF PollerWaits, CopiesFilled, bridgeVars
    <3>2. CASE PollerWakes
      BY <3>2 DEF PollerWakes, CopiesFilled, bridgeVars
    <3>3. CASE \E due \in BOOLEAN : PollConfig(due)
      BY <3>3 DEF PollConfig, CopiesFilled, bridgeVars
    <3>4. CASE PollProbe
      BY <3>4 DEF PollProbe, CopiesFilled, ProbeStarts
    <3>5. CASE PollExchange
      BY <3>5 DEF PollExchange, CopiesFilled, ProbeEnds
    <3>6. CASE PollStatus
      BY <3>6 DEF PollStatus, CopiesFilled, bridgeVars
    <3>. QED
      BY <1>2, <3>1, <3>2, <3>3, <3>4, <3>5, <3>6 DEF Poll
  <2>. QED BY <2>2, <2>3, <2>4
<1>3. CASE PollUpdate
  <2>1. poll.by \in Workers => web[poll.by].pc = "poll"
    BY <1>3 DEF PollInv, PollUpdate
  <2>2. ChangeInv'
    BY <1>1, <1>3, <2>1, NoChange DEF PollUpdate, Changing
  <2>3. (TypeOK /\ Threads /\ CopiesFilled)'
    BY <1>3 DEF PollUpdate, CopiesFilled, bridgeVars
  <2>4. PollInv'
    BY <1>3 DEF PollUpdate, PollInv
  <2>. QED BY <2>2, <2>3, <2>4
<1>. QED BY <1>2, <1>3

(* POST /api/eda/config: the new copy is alone when nobody else was        *)
(* half-way.                                                               *)
LEMMA PostConfigStep ==
  ASSUME ConfigInv, NEW w \in Workers, PostConfig(w)
  PROVE  ConfigInv'
<1> USE BridgeAssumption, DaemonAssumption
    DEF ConfigInv, TypeOK, BridgeTypeOK, Threads, NoCopy, others, mainVars
<1>1. PICK new \in Configs : web' = [web EXCEPT ![w] = [pc |-> "save", copy |-> new]]
  BY DEF PostConfig
<1>2. /\ UNCHANGED <<cfg, conn, held, asked, mem, disk, apart, store, poller, poll, main,
                    cv, shutdown>>
      /\ posts' \in 0..MaxPosts
      /\ alone' = IF \E v \in Workers : Changing(v) THEN {} ELSE {w}
      /\ web[w].pc = "idle"
  BY DEF PostConfig, Accepts, bridgeVars
<1>3. (TypeOK /\ Threads /\ CopiesFilled)'
  BY <1>1, <1>2 DEF CopiesFilled
<1>4. web'[w].pc = "save" /\ \A v \in Workers \ {w} : web'[v] = web[v]
  BY <1>1
<1>5. ChangeInv'
  BY <1>2, <1>4 DEF ChangeInv, FileHasConfig, Changing
<1>6. PollInv'
  BY <1>2, <1>4 DEF PollInv
<1>. QED BY <1>3, <1>5, <1>6

(* POST /api/config: whoever was alone is not any more, if it changes the  *)
(* configuration of the bridge.                                            *)
LEMMA PostWholeStep ==
  ASSUME ConfigInv, NEW w \in Workers, PostWhole(w)
  PROVE  ConfigInv'
<1> USE BridgeAssumption, DaemonAssumption
    DEF ConfigInv, TypeOK, BridgeTypeOK, Threads, NoCopy, others, mainVars
<1>1. PICK new \in Configs :
        /\ mem' = new
        /\ apart' = (apart \/ new # mem)
        /\ alone' = IF new # mem THEN {} ELSE alone
        /\ disk' \in {new, disk}
  BY DEF PostWhole
<1>2. /\ UNCHANGED <<cfg, conn, held, asked, store, poller, poll, web, main, cv, shutdown>>
      /\ posts' \in 0..MaxPosts
  BY DEF PostWhole, Accepts, bridgeVars
<1>3. (TypeOK /\ Threads /\ CopiesFilled)'
  <2>1. (Threads /\ CopiesFilled)'
    BY <1>2 DEF CopiesFilled
  <2>2. mem' \in Configs /\ disk' \in Configs /\ apart' \in BOOLEAN /\ alone' \subseteq Workers
    BY <1>1
  <2>. QED BY <1>2, <2>1, <2>2
<1>4. ChangeInv'
  BY <1>1, <1>2 DEF ChangeInv, FileHasConfig, Changing
<1>5. PollInv'
  BY <1>2 DEF PollInv
<1>. QED BY <1>3, <1>4, <1>5

(* The steps of a handler that changes the bridge.                         *)
LEMMA ChangeStep ==
  ASSUME ConfigInv, NEW w \in Workers, WebSave(w) \/ WebSet(w)
  PROVE  ConfigInv'
<1> USE BridgeAssumption, DaemonAssumption
    DEF ConfigInv, TypeOK, BridgeTypeOK, Threads, NoCopy, others, mainVars
<1>1. web[w].copy \in Configs
  BY DEF CopiesFilled, WebSave, WebSet
<1>2. CASE WebSave(w)
  <2>1. /\ UNCHANGED <<cfg, conn, held, asked, apart, store, poller, poll, main, cv,
                      shutdown, posts>>
        /\ mem' = web[w].copy
        /\ \/ disk' = mem' /\ alone' = alone
           \/ disk' = disk /\ alone' = alone \ {w}
        /\ web' = [web EXCEPT ![w].pc = "set"]
        /\ web[w].pc = "save"
    BY <1>2 DEF WebSave, bridgeVars
  <2>2. /\ web'[w].pc = "set" /\ web'[w].copy = web[w].copy
        /\ \A v \in Workers \ {w} : web'[v] = web[v]
    BY <2>1
  <2>3. (TypeOK /\ Threads /\ CopiesFilled)'
    BY <1>1, <2>1 DEF CopiesFilled
  <2>4. \A v \in Workers : Changing(v)' <=> Changing(v)
    BY <2>1, <2>2 DEF Changing
  <2>5. ChangeInv'
    <3>1. Changing(w)' /\ Changing(w)
      BY <2>1, <2>2 DEF Changing
    <3>2. FileHasConfig'
      BY <3>1 DEF FileHasConfig
    <3>. QED BY <2>1, <2>2, <2>4, <3>1, <3>2 DEF ChangeInv
  <2>6. PollInv'
    BY <2>1, <2>2 DEF PollInv
  <2>. QED BY <2>3, <2>5, <2>6
<1>3. CASE WebSet(w)
  <2>1. /\ UNCHANGED <<conn, held, asked, mem, disk, store, poller, poll, main, cv,
                      shutdown, posts>>
        /\ cfg' = web[w].copy
        /\ apart' = (w \notin alone) /\ alone' = alone \ {w}
        /\ web' = [web EXCEPT ![w].pc = "shown"]
        /\ web[w].pc = "set"
    BY <1>3 DEF WebSet, SetConfig
  <2>2. /\ web'[w].pc = "shown" /\ web'[w].copy = web[w].copy
        /\ \A v \in Workers \ {w} : web'[v] = web[v]
    BY <2>1
  <2>3. (TypeOK /\ Threads /\ CopiesFilled)'
    BY <1>1, <2>1 DEF CopiesFilled
  <2>4. Changing(w) /\ ~Changing(w)'
    BY <2>1, <2>2 DEF Changing
  <2>5. w \in alone => alone' = {} /\ mem' = cfg' /\ disk' = cfg'
    BY <2>1, <2>4 DEF ChangeInv
  <2>6. w \notin alone => alone' = {}
    BY <2>1, <2>4 DEF ChangeInv
  <2>7. ChangeInv'
    BY <2>1, <2>5, <2>6 DEF ChangeInv, FileHasConfig
  <2>8. PollInv'
    BY <2>1, <2>2 DEF PollInv
  <2>. QED BY <2>3, <2>7, <2>8
<1>. QED BY <1>2, <1>3

(* The other steps of handlers.                                            *)
ShowSteps(w) ==
  \/ PostProbe(w) \/ PostRefresh(w) \/ WebShown(w) \/ WebProbe(w) \/ WebExchange(w)
  \/ WebStatus(w) \/ WebUpdate(w) \/ WebAnswer(w)

LEMMA ShowStep ==
  ASSUME ConfigInv, NEW w \in Workers, ShowSteps(w)
  PROVE  ConfigInv'
<1> USE BridgeAssumption, DaemonAssumption
    DEF ConfigInv, TypeOK, BridgeTypeOK, Threads, NoCopy, others, configVars, mainVars,
        WebTo, ShowSteps
<1>1. /\ UNCHANGED <<cfg, mem, disk, alone, apart, poller, poll, main, cv, shutdown>>
      /\ web[w].pc \notin {"save", "set", "poll"}
      /\ web'[w].pc \notin {"save", "set"}
      /\ \A v \in Workers \ {w} : web'[v] = web[v]
  BY DEF PostProbe, PostRefresh, Accepts, WebShown, WebProbe, WebExchange, WebStatus,
     WebUpdate, WebAnswer, bridgeVars, ProbeStarts, ProbeEnds
<1>2. ChangeInv'
  BY <1>1, NoChange DEF Changing
<1>3. PollInv'
  BY <1>1 DEF PollInv
<1>4. (TypeOK /\ Threads /\ CopiesFilled)'
  <2>1. CASE PostProbe(w) \/ PostRefresh(w)
    <3>1. \E pc \in {"probe", "poll"} : web' = [web EXCEPT ![w] = [pc |-> pc, copy |-> NoCopy]]
      BY <2>1 DEF PostProbe, PostRefresh
    <3>2. (Threads /\ CopiesFilled)'
      BY <1>1, <3>1 DEF CopiesFilled
    <3>3. posts' \in 0..MaxPosts /\ UNCHANGED <<conn, asked, store>>
      BY <2>1 DEF PostProbe, PostRefresh, Accepts, bridgeVars
    <3>. QED BY <1>1, <3>2, <3>3
  <2>2. CASE WebShown(w)
    BY <2>2 DEF WebShown, CopiesFilled, bridgeVars
  <2>3. CASE WebProbe(w)
    BY <2>3 DEF WebProbe, CopiesFilled, ProbeStarts
  <2>4. CASE WebExchange(w)
    BY <2>4 DEF WebExchange, CopiesFilled, ProbeEnds
  <2>5. CASE WebStatus(w)
    BY <2>5 DEF WebStatus, CopiesFilled, bridgeVars
  <2>6. CASE WebUpdate(w)
    BY <2>6 DEF WebUpdate, CopiesFilled, bridgeVars
  <2>7. CASE WebAnswer(w)
    BY <2>7 DEF WebAnswer, CopiesFilled, bridgeVars
  <2>. QED BY <2>1, <2>2, <2>3, <2>4, <2>5, <2>6, <2>7
<1>. QED BY <1>2, <1>3, <1>4

(* Nobody else changes file, configuration or handlers.                    *)
LEMMA OtherStep ==
  ConfigInv /\ (BeginCall \/ EndCall \/ Main \/ Signal \/ UNCHANGED vars) => ConfigInv'
<1> SUFFICES ASSUME ConfigInv,
                    BeginCall \/ EndCall \/ Main \/ Signal \/ UNCHANGED vars
             PROVE  ConfigInv'
  OBVIOUS
<1>1. UNCHANGED <<cfg, mem, disk, store, web, poller, poll, posts, alone, apart>>
  BY DEF BeginCall, CallBegins, EndCall, CallEnds, Main, MainLooks, MainWaits, MainJoins,
         MainStopsWeb, Signal, still, configVars, bridgeVars, vars
<1>2. (Threads /\ CopiesFilled /\ PollInv)'
  BY <1>1 DEF ConfigInv, Threads, CopiesFilled, PollInv
<1>3. ChangeInv'
  BY <1>1 DEF ConfigInv, ChangeInv, FileHasConfig, Changing
<1>4. /\ main' \in MainSteps /\ cv' \in {"main", "poller", NoOne}
      /\ shutdown' \in BOOLEAN
  BY DEF ConfigInv, TypeOK, BeginCall, EndCall, Main, MainLooks, MainWaits, MainJoins,
         MainStopsWeb, Signal, mainVars, vars
<1>5. conn' \in Hosts \cup {NoHost} /\ asked' \subseteq Hosts
  BY DEF ConfigInv, TypeOK, BridgeTypeOK, BeginCall, CallBegins, EndCall, CallEnds,
         Main, MainLooks, MainWaits, MainJoins, MainStopsWeb, Signal, still,
         bridgeVars, vars
<1>6. TypeOK'
  BY <1>1, <1>4, <1>5 DEF ConfigInv, TypeOK, BridgeTypeOK
<1>. QED BY <1>2, <1>3, <1>6 DEF ConfigInv

LEMMA ConfigNext == ConfigInv /\ [Next]_vars => ConfigInv'
<1> SUFFICES ASSUME ConfigInv, [Next]_vars
             PROVE  ConfigInv'
  OBVIOUS
<1>1. CASE \E t \in Workers \cup {PollerThread} : PollBegins(t)
  BY <1>1, PollBeginStep
<1>2. CASE \E w \in Workers : Post(w) \/ Handle(w)
  BY <1>2, PostConfigStep, PostWholeStep, ChangeStep, ShowStep
  DEF Post, Handle, ShowSteps
<1>3. CASE ~(\E t \in Workers \cup {PollerThread} : PollBegins(t))
           /\ ~\E w \in Workers : Post(w) \/ Handle(w)
  BY <1>3, PollStep, OtherStep DEF Next, Poller
<1>. QED BY <1>1, <1>2, <1>3

(* Types; and when no handler is half-way, ConfigManager and the file have *)
(* the configuration the bridge runs with, from each POST /api/eda/config  *)
(* that met no other change and was saved, until changes overlap, a save   *)
(* fails or POST /api/config writes another configuration of the bridge    *)
(* (WebServer.cxx:11301-11334, 11420-11441).                               *)
THEOREM FileFollowsConfig == Spec => []ConfigOK
<1>1. ConfigInv => ConfigOK
  BY DEF ConfigInv, ConfigOK, ChangeInv
<1>. QED BY ConfigStart, ConfigNext, <1>1, PTL DEF Spec

------------------------------------------------------------------------------
(* Standstill.  g_cvMutex is with main on its way into the wait or with a  *)
(* poller that polls; a poller ends for the sake of the shutdown; and the  *)
(* bridge's mutex is held for ever by the probe of a disabled bridge.      *)
StandInv ==
  /\ cv # NoOne => \/ cv = "main" /\ main = "enter"
                   \/ cv = "poller" /\ poller = "poll"
  /\ poller = "ended" => shutdown
  /\ held # NoOne => ~cfg.enabled

LEMMA StandNext ==
  ASSUME ConfigInv, StandInv, [Next]_vars
  PROVE  StandInv'
<1> USE DEF StandInv, MutexFree
<1>1. CASE Poller \/ (\E w \in Workers : PollBegins(w)) \/ Poll
  <2>1. CASE PollerWaits
    BY <2>1 DEF PollerWaits, rest, mainVars, bridgeVars
  <2>2. CASE PollerWakes
    BY <2>2 DEF PollerWakes, rest, mainVars, bridgeVars
  <2>3. CASE \E t \in Workers \cup {PollerThread} : PollBegins(t)
    BY <2>3 DEF PollBegins, running, rest, mainVars, bridgeVars
  <2>4. CASE (\E due \in BOOLEAN : PollConfig(due)) \/ PollStatus
    BY <2>4 DEF PollConfig, PollStatus, running, rest, mainVars, bridgeVars
  <2>5. CASE PollProbe
    BY <2>5 DEF PollProbe, ProbeStarts, running, rest, mainVars
  <2>6. CASE PollExchange
    BY <2>6 DEF PollExchange, ProbeEnds, running, rest, mainVars
  <2>7. CASE PollUpdate
    BY <2>7 DEF PollUpdate, rest, mainVars, bridgeVars
  <2>. QED BY <1>1, <2>1, <2>2, <2>3, <2>4, <2>5, <2>6, <2>7 DEF Poller, Poll
<1>2. ASSUME NEW w \in Workers, Post(w) \/ Handle(w)
      PROVE  StandInv'
  <2>1. UNCHANGED <<poller, main, shutdown, cv>>
    BY <1>2 DEF Post, PostConfig, PostWhole, PostProbe, PostRefresh, Handle, WebSave,
       WebSet, WebShown, WebProbe, WebExchange, WebStatus, WebUpdate, WebAnswer,
       others, mainVars
  <2>2. held' # NoOne => ~cfg'.enabled
    BY <1>2 DEF Post, PostConfig, PostWhole, PostProbe, PostRefresh, Handle, WebSave,
       WebSet, WebShown, WebProbe, WebExchange, WebStatus, WebUpdate, WebAnswer,
       SetConfig, ProbeStarts, ProbeEnds, bridgeVars
  <2>. QED BY <2>1, <2>2
<1>3. CASE BeginCall \/ EndCall
  BY <1>3 DEF BeginCall, EndCall, CallBegins, CallEnds, mainVars
<1>4. CASE Main
  BY <1>4 DEF Main, MainLooks, MainWaits, MainJoins, MainStopsWeb, still,
     bridgeVars
<1>5. CASE Signal
  BY <1>5 DEF Signal, still, bridgeVars
<1>6. CASE UNCHANGED vars
  BY <1>6 DEF vars, bridgeVars, mainVars
<1>. QED BY <1>1, <1>2, <1>3, <1>4, <1>5, <1>6 DEF Next

LEMMA DaemonAtRest ==
  ASSUME ConfigInv, StandInv
  PROVE  StandsOnlyInDisabledProbe
<1> SUFFICES ASSUME ~DaemonCanGo, held = NoOne
             PROVE  /\ poller = "ended" /\ poll.pc = "none" /\ shutdown
                    /\ \A w \in Workers : web[w].pc = "idle"
                    /\ asked = {}
                    /\ main \in {"wait", "ended"}
  BY DEF StandsOnlyInDisabledProbe, StandInv
<1>0. /\ ~PollerCanGo /\ ~PollCanGo /\ ~MainCanGo /\ asked = {}
      /\ \A w \in Workers : ~HandlerCanGo(w)
  BY DEF DaemonCanGo, MutexFree
<1>1. poll.pc = "none"
  BY <1>0 DEF ConfigInv, TypeOK, PollCanGo, MutexFree
<1>2. cv = NoOne
  BY <1>0, <1>1 DEF StandInv, PollerCanGo, MainCanGo
<1>3. poller = "ended"
  BY <1>0, <1>1, <1>2 DEF ConfigInv, TypeOK, PollerCanGo
<1>4. shutdown
  BY <1>3 DEF StandInv
<1>5. ASSUME NEW w \in Workers
      PROVE  web[w].pc = "idle"
  <2>1. web[w].pc \in WebSteps
    BY DEF ConfigInv, TypeOK
  <2>. QED BY <1>0, <1>1, <2>1 DEF HandlerCanGo, MutexFree
<1>6. main \in {"wait", "ended"}
  BY <1>0, <1>2, <1>3, <1>4, <1>5 DEF ConfigInv, TypeOK, MainCanGo
<1>. QED BY <1>0, <1>1, <1>3, <1>4, <1>5, <1>6

(* The daemon stands still only when requests and polls are through and    *)
(* main is too, or waits for a second signal after the first was lost; or  *)
(* when the bridge is disabled and the probe of it keeps its mutex: for    *)
(* any number of web workers, no other wait is in vain (Main.cxx:356-381,  *)
(* 534-575, EdaBridge.cxx:1078-1094).                                      *)
THEOREM DaemonStands == Spec => []StandsOnlyInDisabledProbe
<1>1. Init => StandInv
  BY DEF Init, BridgeInit, StandInv
<1>2. ConfigInv /\ StandInv /\ [Next]_vars => StandInv'
  BY StandNext
<1>3. ConfigInv /\ StandInv => StandsOnlyInDisabledProbe
  BY DaemonAtRest
<1>. QED BY ConfigStart, ConfigNext, <1>1, <1>2, <1>3, PTL DEF Spec
=============================================================================
