----------------------------- MODULE EdaPlugins -----------------------------
(***************************************************************************)
(* The relay of the workstation's bridge between aimon and the plugins of  *)
(* the EDA programs (src/tools/eda-bridge/src/EdaRpcServer.cxx), with the  *)
(* two ways the daemon's EdaBridge::callTool sends it a tool call          *)
(* (src/src/EdaBridge.cxx).                                                *)
(*                                                                         *)
(* Threads: a plugin accept loop; a reader per plugin connection; a thread *)
(* per RPC client; one for the gateway connection, which runs the calls    *)
(* that come that way one after the other; and main, which flips the       *)
(* switches of the settings and stops the server.  A tool call sends a     *)
(* request to the newest connection of its program and waits on a          *)
(* condition variable, which the reader that finds an answer with its id   *)
(* notifies, or until its time is over.                                    *)
(*                                                                         *)
(* `active' and `socketFd' of a session are used by its reader, by main    *)
(* and by the calls without a common lock: who uses a descriptor number    *)
(* uses the one it saw when it looked, or a later one, for whatever        *)
(* connection has that number by then.  Sends have no time-out: one to a   *)
(* plugin that does not read lasts until it reads or the connection ends.  *)
(*                                                                         *)
(* The tools of KiCad and FreeCAD answer by themselves when callPlugin()   *)
(* gives them no result: such an answer is called headless here.           *)
(*                                                                         *)
(* Left out: authentication, framing, chunked messages, plugin/status, the *)
(* content of requests, tools that need no plugin and the two of EasyEDA   *)
(* that make several calls, what readers send, and the answers' way to the *)
(* daemon.  What nobody looks at again is forgotten: the program of an     *)
(* ended session, what a plugin said last on a connection that ends, the   *)
(* session of a request that was sent.                                     *)
(***************************************************************************)
EXTENDS Naturals

CONSTANTS
  Apps,         \* the EDA programs
  Serial,       \* those whose tools run one at a time, and in the plugin or
                \* not at all (EasyEDA)
  Calls,        \* tool calls of the daemon
  Fds,          \* descriptor numbers, without 0
  MaxSessions,  \* bound on the plugin connections
  MaxOrders,    \* bound on what main does: changes of the settings, and stop
  NoApp

ASSUME PluginsAssumption ==
  /\ Serial \subseteq Apps /\ NoApp \notin Apps
  /\ Fds \subseteq Nat \ {0}
  /\ MaxSessions \in Nat /\ MaxOrders \in Nat

Ids == 1..MaxSessions
Transports == {"client", "gateway"}
Execs == Calls \X Transports   \* a tool call as it came by a transport

VARIABLES
  enabled,  \* _enableEasyEda, _enableKiCad, _enableFreeCad
  sess,     \* _pluginSessions, never removed: app, active, socketFd (0: -1)
  owner,    \* the connection a descriptor number stands for, or 0
  reader,   \* handlePluginSession of a session, its step, on what, and the
            \* number it reads (0: none) or saw for the close
  got,      \* at the plugin of a session: requests it has not run
  answers,  \* its answers on their way
  exec,     \* tool calls here: step, session, number seen, outcome
  pending,  \* _pendingPluginCalls
  reply,    \* of a pending call: no, result or stopped
  call,     \* tool calls at the daemon: program and step
  main,     \* main: step, program switched off (NoApp: stop), session, number
  orders,
  ran,      \* history: what a plugin has run
  raced,    \* history: sessions whose registration was under way at a switch
  twoClose  \* history: sessions closed by their reader and main at a time

sockVars == <<sess, owner>>
plugVars == <<got, answers, ran>>
execVars == <<exec, pending, reply>>
mainVars == <<enabled, main, orders, raced>>
vars == <<sockVars, reader, plugVars, execVars, call, mainVars, twoClose>>

ReaderSteps == {"none", "accepted", "reading", "register", "deliver", "close", "clear", "done"}
ExecSteps == {"none", "queued", "admitted", "picked", "send", "sending", "waiting", "woken",
              "done"}
MainSteps == {"idle", "gateway", "sweep", "close", "clear", "readers", "answer", "stopped"}
InHand == {"picked", "send", "sending", "waiting", "woken"}   \* callPlugin has a session

At(step) == [at |-> step, on |-> "none", fd |-> 0]
Idle == [at |-> "idle", app |-> NoApp, s |-> 0, fd |-> 0]
NewExec == [at |-> "none", s |-> 0, fd |-> 0, out |-> "none"]

(* Types; and only a call in hand is pending.                              *)
TypeOK ==
  /\ enabled \in [Apps -> BOOLEAN]
  /\ sess \in [Ids -> [app : Apps \cup {NoApp}, active : BOOLEAN, sock : Fds \cup {0}]]
  /\ owner \in [Fds -> Ids \cup {0}]
  /\ \A s \in Ids : reader[s].at \in ReaderSteps /\ reader[s].fd \in Fds \cup {0}
  /\ got \in [Ids -> SUBSET Execs] /\ answers \in [Ids -> SUBSET Execs]
  /\ exec \in [Execs -> [at : ExecSteps, s : Ids \cup {0}, fd : Fds \cup {0},
                         out : {"none", "refused", "unsent", "timeout", "result", "stopped",
                                "headless", "lost"}]]
  /\ pending \subseteq {e \in Execs : exec[e].at \in InHand}
  /\ reply \in [Execs -> {"no", "result", "stopped"}]
  /\ call \in [Calls -> [app : Apps, at : {"idle", "client", "gateway", "ended"}]]
  /\ main \in [at : MainSteps, app : Apps \cup {NoApp}, s : Ids \cup {0}, fd : Fds \cup {0}]
  /\ orders \in 0..MaxOrders /\ ran \subseteq Execs
  /\ raced \subseteq Ids /\ twoClose \subseteq Ids

Init ==
  /\ enabled = [a \in Apps |-> TRUE]
  /\ sess = [s \in Ids |-> [app |-> NoApp, active |-> FALSE, sock |-> 0]]
  /\ owner = [f \in Fds |-> 0]
  /\ reader = [s \in Ids |-> At("none")]
  /\ got = [s \in Ids |-> {}] /\ answers = [s \in Ids |-> {}]
  /\ exec = [e \in Execs |-> NewExec]
  /\ pending = {} /\ reply = [e \in Execs |-> "no"]
  /\ call \in [Calls -> [app : Apps, at : {"idle"}]]
  /\ main = Idle /\ orders = 0
  /\ ran = {} /\ raced = {} /\ twoClose = {}

AppOf(e) == call[e[1]].app
Stopping == main.at # "idle" /\ main.app = NoApp
PluginsFree == main.at \notin {"sweep", "close", "clear"}    \* _pluginsMutex
PendingFree == main.at # "answer"                            \* _pendingPluginMutex
Seen(fd, s) == {fd, sess[s].sock}   \* what a racing read of socketFd gives
Close(f) == owner' = IF f = 0 THEN owner ELSE [owner EXCEPT ![f] = 0]
Gone(f) == ~(f # 0 /\ owner[f] # 0)     \* no connection has the number

------------------------------------------------------------------------------
(* The plugin connections.                                                 *)

Accept(s) ==
  /\ reader[s].at = "none" /\ \A t \in Ids : t < s => reader[t].at \notin {"none", "accepted"}
  /\ ~Stopping \/ main.at = "gateway"
  /\ \E f \in Fds :
       /\ owner[f] = 0 /\ \A g \in Fds : g < f => owner[g] # 0
       /\ owner' = [owner EXCEPT ![f] = s]
       /\ sess' = [sess EXCEPT ![s] = [app |-> NoApp, active |-> TRUE, sock |-> f]]
  /\ reader' = [reader EXCEPT ![s].at = "accepted"]
  /\ UNCHANGED <<plugVars, execVars, call, mainVars, twoClose>>

(* The condition of the loop, and the number for the next recv().          *)
ReadsOn(s) ==
  reader' = [reader EXCEPT ![s] = [at |-> "reading", on |-> "none",
                                   fd |-> IF sess[s].active THEN sess[s].sock ELSE 0]]

(* It is put on the list, and its reader starts.                           *)
Listed(s) ==
  /\ reader[s].at = "accepted" /\ PluginsFree
  /\ ReadsOn(s)
  /\ UNCHANGED <<sockVars, plugVars, execVars, call, mainVars, twoClose>>

(* Mutated form: the switch is not asked.                                  *)
RegisterChecks_Always(s, a) ==
  /\ reader[s].at = "reading" /\ ~Gone(reader[s].fd)
  /\ sess[s].app = NoApp /\ sess[s].active
  /\ reader' = [reader EXCEPT ![s] = [at |-> "register", on |-> a, fd |-> 0]]
  /\ UNCHANGED <<sockVars, plugVars, execVars, call, mainVars, twoClose>>

(* plugin/register: the switch is asked before the lock is taken.          *)
RegisterChecks(s, a) ==
  /\ reader[s].at = "reading" /\ ~Gone(reader[s].fd)
  /\ sess[s].app = NoApp /\ sess[s].active
  /\ enabled[a]
  /\ reader' = [reader EXCEPT ![s] = [at |-> "register", on |-> a, fd |-> 0]]
  /\ UNCHANGED <<sockVars, plugVars, execVars, call, mainVars, twoClose>>

RegisterSets(s) ==
  /\ reader[s].at = "register" /\ PluginsFree
  /\ sess' = [sess EXCEPT ![s].app = reader[s].on]
  /\ ReadsOn(s)
  /\ UNCHANGED <<owner, plugVars, execVars, call, mainVars, twoClose>>

(* The plugin runs a request; its answer reaches a reader that still reads *)
(* or nobody.                                                              *)
PluginRuns(s, e) ==
  /\ e \in got[s]
  /\ got' = [got EXCEPT ![s] = @ \ {e}]
  /\ ran' = ran \cup {e}
  /\ answers' = IF reader[s].at \in {"reading", "register", "deliver"}
                THEN [answers EXCEPT ![s] = @ \cup {e}] ELSE answers
  /\ UNCHANGED <<sockVars, reader, execVars, call, mainVars, twoClose>>

(* An answer, of whatever plugin has the number by now: its call is looked *)
(* up, and completed after the lock is given back.                         *)
Heard(s) == IF reader[s].at = "reading" /\ ~Gone(reader[s].fd)
            THEN answers[owner[reader[s].fd]] ELSE {}

AnswerFinds(s, e) ==
  /\ e \in Heard(s) /\ PendingFree
  /\ answers' = [answers EXCEPT ![owner[reader[s].fd]] = @ \ {e}]
  /\ IF e \in pending
     THEN reader' = [reader EXCEPT ![s] = [at |-> "deliver", on |-> e, fd |-> 0]]
     ELSE ReadsOn(s)
  /\ UNCHANGED <<sockVars, got, ran, execVars, call, mainVars, twoClose>>

(* Mutated form: the answer completes whatever call is pending.            *)
AnswerCompletes_Any(s) ==
  /\ reader[s].at = "deliver"
  /\ \E e \in pending :
       /\ exec[e].at # "woken"
       /\ reply' = IF exec[e].at = "done" THEN reply ELSE [reply EXCEPT ![e] = "result"]
  /\ ReadsOn(s)
  /\ UNCHANGED <<sockVars, plugVars, exec, pending, call, mainVars, twoClose>>

AnswerCompletes(s) ==
  /\ reader[s].at = "deliver"
  /\ LET e == reader[s].on IN
       /\ exec[e].at # "woken"    \* the mutex of the call
       /\ reply' = IF exec[e].at = "done" THEN reply ELSE [reply EXCEPT ![e] = "result"]
  /\ ReadsOn(s)
  /\ UNCHANGED <<sockVars, plugVars, exec, pending, call, mainVars, twoClose>>

(* Mutated form: the session stays active.                                 *)
ReaderEnds_Active(s) ==
  /\ reader[s].at = "reading"
  /\ reader' = [reader EXCEPT ![s] = [at |-> "close", on |-> "none", fd |-> sess[s].sock]]
  /\ answers' = [answers EXCEPT ![s] = {}]
  /\ twoClose' = IF main.at \in {"close", "clear"} /\ main.s = s
                 THEN twoClose \cup {s} ELSE twoClose
  /\ UNCHANGED <<sockVars, got, ran, execVars, call, mainVars>>

(* The end of the connection, or of the loop's condition.                  *)
ReaderEnds(s) ==
  /\ reader[s].at = "reading"
  /\ sess' = [sess EXCEPT ![s].active = FALSE, ![s].app = NoApp]
  /\ reader' = [reader EXCEPT ![s] = [at |-> "close", on |-> "none", fd |-> sess[s].sock]]
  /\ answers' = [answers EXCEPT ![s] = {}]
  /\ twoClose' = IF main.at \in {"close", "clear"} /\ main.s = s
                 THEN twoClose \cup {s} ELSE twoClose
  /\ UNCHANGED <<owner, got, ran, execVars, call, mainVars>>

ReaderCloses(s) ==
  /\ reader[s].at = "close"
  /\ \E f \in Seen(reader[s].fd, s) : Close(f)
  /\ reader' = [reader EXCEPT ![s] = At("clear")]
  /\ UNCHANGED <<sess, plugVars, execVars, call, mainVars, twoClose>>

ReaderClears(s) ==
  /\ reader[s].at = "clear"
  /\ sess' = [sess EXCEPT ![s].sock = 0]
  /\ reader' = [reader EXCEPT ![s].at = "done"]
  /\ UNCHANGED <<owner, plugVars, execVars, call, mainVars, twoClose>>

------------------------------------------------------------------------------
(* A tool call, in the thread of an RPC client or of the gateway.          *)

Ended(e, out) == exec' = [exec EXCEPT ![e] = [NewExec EXCEPT !.at = "done", !.out = out]]
NotPending(e) == PendingFree /\ pending' = pending \ {e}

(* What the handler of the tool makes of callPlugin()'s outcome: KiCad's   *)
(* and FreeCAD's answer by themselves when the plugin did not, or answered *)
(* with an error.                                                          *)
Told(e, out) == IF AppOf(e) \in Serial THEN {out} ELSE {out, "headless"} \cap {"result", "headless"}
Returns(e, out) == \E o \in Told(e, out) : Ended(e, o)

Dispatch(e) ==
  /\ exec[e].at = "queued"
  /\ e[2] = "gateway" =>
       \A g \in Execs \ {e} : g[2] = "gateway" => exec[g].at \notin InHand \cup {"admitted"}
  /\ IF enabled[AppOf(e)] THEN exec' = [exec EXCEPT ![e].at = "admitted"]
                          ELSE Ended(e, "refused")
  /\ UNCHANGED <<sockVars, reader, plugVars, pending, reply, call, mainVars, twoClose>>

(* The newest active session of the program.                               *)
Targets(a) == {s \in Ids : /\ sess[s].active /\ sess[s].app = a
                           /\ \A t \in Ids : t > s => ~(sess[t].active /\ sess[t].app = a)}

(* Mutated form: EasyEDA's calls do not wait for each other.               *)
Pick_Together(e) ==
  /\ exec[e].at = "admitted" /\ PluginsFree /\ (PendingFree \/ Targets(AppOf(e)) = {})
  /\ IF Targets(AppOf(e)) = {}
     THEN Returns(e, "unsent") /\ UNCHANGED pending
     ELSE /\ \E s \in Targets(AppOf(e)) : exec' = [exec EXCEPT ![e].at = "picked", ![e].s = s]
          /\ pending' = pending \cup {e}
  /\ UNCHANGED <<sockVars, reader, plugVars, reply, call, mainVars, twoClose>>

(* callPlugin(), to the pending call; EasyEDA's hold a mutex meanwhile.    *)
Pick(e) ==
  /\ exec[e].at = "admitted" /\ PluginsFree /\ (PendingFree \/ Targets(AppOf(e)) = {})
  /\ AppOf(e) \in Serial =>
       \A g \in Execs : AppOf(g) = AppOf(e) => exec[g].at \notin InHand
  /\ IF Targets(AppOf(e)) = {}
     THEN Returns(e, "unsent") /\ UNCHANGED pending
     ELSE /\ \E s \in Targets(AppOf(e)) : exec' = [exec EXCEPT ![e].at = "picked", ![e].s = s]
          /\ pending' = pending \cup {e}
  /\ UNCHANGED <<sockVars, reader, plugVars, reply, call, mainVars, twoClose>>

(* isPluginConnected() asks the switch again, for the other programs: the  *)
(* plugin of one that is off by then is not called.                        *)
Unasked(e) ==
  /\ exec[e].at = "admitted" /\ AppOf(e) \notin Serial /\ ~enabled[AppOf(e)]
  /\ Ended(e, "headless")
  /\ UNCHANGED <<sockVars, reader, plugVars, pending, reply, call, mainVars, twoClose>>

(* sendPluginJson(): whether there is a connection, then its use with the  *)
(* session's writeMutex.                                                   *)
SendChecks(e) ==
  /\ exec[e].at = "picked"
  /\ LET s == exec[e].s IN
       IF sess[s].active /\ sess[s].sock # 0
       THEN exec' = [exec EXCEPT ![e].at = "send", ![e].fd = sess[s].sock] /\ UNCHANGED pending
       ELSE Returns(e, "unsent") /\ NotPending(e)
  /\ UNCHANGED <<sockVars, reader, plugVars, reply, call, mainVars, twoClose>>

WriteFree(s) == \A e \in Execs : ~(exec[e].at = "sending" /\ exec[e].s = s)

SendBegins(e) ==
  /\ exec[e].at = "send" /\ WriteFree(exec[e].s)
  /\ \E f \in Seen(exec[e].fd, exec[e].s) :
       exec' = [exec EXCEPT ![e].at = "sending", ![e].fd = f]
  /\ UNCHANGED <<sockVars, reader, plugVars, pending, reply, call, mainVars, twoClose>>

(* All of it is out, when the plugin has read enough; part of it may have  *)
(* gone to the connection that had the number before.                      *)
Sends(e) ==
  /\ exec[e].at = "sending" /\ ~Gone(exec[e].fd)
  /\ LET s == owner[exec[e].fd] IN
       \/ got' = [got EXCEPT ![s] = @ \cup {e}]
       \/ s # exec[e].s /\ UNCHANGED got
  /\ exec' = [exec EXCEPT ![e] = [NewExec EXCEPT !.at = "waiting"]]
  /\ UNCHANGED <<sockVars, reader, answers, ran, pending, reply, call, mainVars, twoClose>>

(* The connection is closed, or the plugin ends it.                        *)
SendFails(e) ==
  /\ exec[e].at = "sending"
  /\ Returns(e, "unsent") /\ NotPending(e)
  /\ UNCHANGED <<sockVars, reader, plugVars, reply, call, mainVars, twoClose>>

(* Mutated form: the wait has no end of its own.                           *)
WaitReturns_Answered(e) ==
  /\ exec[e].at = "waiting" /\ reply[e] # "no"
  /\ exec' = [exec EXCEPT ![e].at = "woken", ![e].out = reply[e]]
  /\ reply' = [reply EXCEPT ![e] = "no"]
  /\ UNCHANGED <<sockVars, reader, plugVars, pending, call, mainVars, twoClose>>

(* Mutated form: a call that timed out is reported as not sent.            *)
WaitReturns_Unsent(e) ==
  /\ exec[e].at = "waiting"
  /\ exec' = [exec EXCEPT ![e].at = "woken",
                          ![e].out = IF reply[e] = "no" THEN "unsent" ELSE reply[e]]
  /\ reply' = [reply EXCEPT ![e] = "no"]
  /\ UNCHANGED <<sockVars, reader, plugVars, pending, call, mainVars, twoClose>>

(* wait_for() returns, completed or at its time, with the call's mutex ... *)
WaitReturns(e) ==
  /\ exec[e].at = "waiting"
  /\ exec' = [exec EXCEPT ![e].at = "woken",
                          ![e].out = IF reply[e] = "no" THEN "timeout" ELSE reply[e]]
  /\ reply' = [reply EXCEPT ![e] = "no"]
  /\ UNCHANGED <<sockVars, reader, plugVars, pending, call, mainVars, twoClose>>

(* Mutated form: a call that timed out stays on the list.                  *)
Leave_OnTimeout(e) ==
  /\ exec[e].at = "woken" /\ PendingFree
  /\ pending' = IF exec[e].out = "timeout" THEN pending ELSE pending \ {e}
  /\ Returns(e, exec[e].out)
  /\ UNCHANGED <<sockVars, reader, plugVars, reply, call, mainVars, twoClose>>

(* ... which it keeps while it takes the lock of the list.                 *)
Leave(e) ==
  /\ exec[e].at = "woken"
  /\ NotPending(e)
  /\ Returns(e, exec[e].out)
  /\ UNCHANGED <<sockVars, reader, plugVars, reply, call, mainVars, twoClose>>

------------------------------------------------------------------------------
(* The daemon: in mode bidirectional a call that gets no answer from the   *)
(* workstation's RPC port is sent again through the gateway.               *)

Arrives(c, t) == exec' = [exec EXCEPT ![<<c, t>>].at = "queued"]
callRest == <<sockVars, reader, plugVars, pending, reply, mainVars, twoClose>>

CallBegins(c) ==
  /\ call[c].at = "idle" /\ ~Stopping
  /\ call[c].app \in Serial =>    \* _easyedaRpcMutex
       \A d \in Calls : call[d].app \in Serial => call[d].at \in {"idle", "ended"}
  /\ Arrives(c, "client")
  /\ call' = [call EXCEPT ![c].at = "client"]
  /\ UNCHANGED callRest

CallGoesOn(c) ==
  /\ call[c].at = "client"
  /\ call' = [call EXCEPT ![c].at = IF Stopping THEN "ended" ELSE "gateway"]
  /\ IF Stopping THEN UNCHANGED exec ELSE Arrives(c, "gateway")
  /\ UNCHANGED callRest

(* The answer of the transport, or no more time.                           *)
CallEnds(c) ==
  /\ \/ call[c].at = "client" /\ exec[<<c, "client">>].at = "done"
     \/ call[c].at = "gateway"
  /\ call' = [call EXCEPT ![c].at = "ended"]
  /\ UNCHANGED <<callRest, exec>>

------------------------------------------------------------------------------
(* Main: setBridgeEnabled() and stop().                                    *)

Toggle(a) ==
  /\ main = Idle /\ orders < MaxOrders
  /\ orders' = orders + 1
  /\ enabled' = [enabled EXCEPT ![a] = ~@]
  /\ IF enabled[a]
     THEN /\ main' = [Idle EXCEPT !.at = "sweep", !.app = a]
          /\ raced' = raced \cup {s \in Ids : reader[s].at = "register" /\ reader[s].on = a}
     ELSE UNCHANGED <<main, raced>>
  /\ UNCHANGED <<sockVars, reader, plugVars, execVars, call, twoClose>>

Stop ==
  /\ main = Idle /\ orders < MaxOrders
  /\ orders' = orders + 1
  /\ main' = [Idle EXCEPT !.at = "gateway"]
  /\ UNCHANGED <<sockVars, reader, plugVars, execVars, call, enabled, raced, twoClose>>

(* The gateway thread and the accept loops have ended; what the gateway    *)
(* had sent and nobody read is lost.                                       *)
StopJoins ==
  /\ main.at = "gateway"
  /\ \A e \in Execs : e[2] = "gateway" => exec[e].at \notin InHand \cup {"admitted"}
  /\ \A s \in Ids : reader[s].at # "accepted"
  /\ main' = [main EXCEPT !.at = "sweep"]
  /\ exec' = [e \in Execs |-> IF e[2] = "gateway" /\ exec[e].at = "queued"
                              THEN [NewExec EXCEPT !.at = "done", !.out = "lost"] ELSE exec[e]]
  /\ UNCHANGED <<sockVars, reader, plugVars, pending, reply, call, enabled, orders, raced, twoClose>>

(* The sessions to close: a switched-off program's, or every one.          *)
ToClose == {s \in Ids : /\ s > main.s /\ reader[s].at \notin {"none", "accepted"}
                        /\ IF main.app = NoApp THEN sess[s].active \/ sess[s].sock # 0
                           ELSE sess[s].active /\ sess[s].app = main.app}

Marks(s) ==
  /\ main.at = "sweep" /\ s \in ToClose /\ \A t \in ToClose : s <= t
  /\ sess' = [sess EXCEPT ![s].active = FALSE]
  /\ main' = [main EXCEPT !.at = "close", !.s = s, !.fd = sess[s].sock]
  /\ twoClose' = IF reader[s].at \in {"close", "clear"} THEN twoClose \cup {s} ELSE twoClose
  /\ UNCHANGED <<owner, reader, plugVars, execVars, call, enabled, orders, raced>>

Closes ==
  /\ main.at = "close"
  /\ \E f \in Seen(main.fd, main.s) : Close(f)
  /\ main' = [main EXCEPT !.at = "clear", !.fd = 0]
  /\ UNCHANGED <<sess, reader, plugVars, execVars, call, enabled, orders, raced, twoClose>>

(* Mutated form: the number stays in the session.                          *)
Clears_Nothing ==
  /\ main.at = "clear"
  /\ main' = [main EXCEPT !.at = "sweep"]
  /\ UNCHANGED <<sockVars, reader, plugVars, execVars, call, enabled, orders, raced, twoClose>>

Clears ==
  /\ main.at = "clear"
  /\ sess' = [sess EXCEPT ![main.s].sock = 0]
  /\ main' = [main EXCEPT !.at = "sweep"]
  /\ UNCHANGED <<owner, reader, plugVars, execVars, call, enabled, orders, raced, twoClose>>

SweepEnds ==
  /\ main.at = "sweep" /\ ToClose = {}
  /\ main' = IF main.app = NoApp THEN [Idle EXCEPT !.at = "readers"] ELSE Idle
  /\ UNCHANGED <<sockVars, reader, plugVars, execVars, call, enabled, orders, raced, twoClose>>

StopJoinsReaders ==
  /\ main.at = "readers"
  /\ \A s \in Ids : reader[s].at \in {"none", "done"}
  /\ main' = [main EXCEPT !.at = "answer"]
  /\ UNCHANGED <<sockVars, reader, plugVars, execVars, call, enabled, orders, raced, twoClose>>

(* With the lock of the list, the mutex of each call on it.                *)
StopAnswers(e) ==
  /\ main.at = "answer" /\ e \in pending /\ exec[e].at # "woken"
  /\ reply' = [reply EXCEPT ![e] = IF @ = "no" THEN "stopped" ELSE @]
  /\ pending' = pending \ {e}
  /\ UNCHANGED <<sockVars, reader, plugVars, exec, call, mainVars, twoClose>>

StopEnds ==
  /\ main.at = "answer" /\ pending = {}
  /\ main' = [main EXCEPT !.at = "stopped"]
  /\ UNCHANGED <<sockVars, reader, plugVars, execVars, call, enabled, orders, raced, twoClose>>

------------------------------------------------------------------------------
ReaderNext(s) ==
  \/ Listed(s) \/ RegisterSets(s) \/ AnswerCompletes(s) \/ ReaderCloses(s) \/ ReaderClears(s)
  \/ \E e \in Execs : AnswerFinds(s, e)

ExecNext(e) ==
  \/ Dispatch(e) \/ Pick(e) \/ Unasked(e) \/ SendChecks(e) \/ SendBegins(e)
  \/ WaitReturns(e) \/ Leave(e)

MainNext ==
  \/ StopJoins \/ Closes \/ Clears \/ SweepEnds \/ StopJoinsReaders \/ StopEnds
  \/ \E s \in Ids : Marks(s)
  \/ \E e \in Execs : StopAnswers(e)

Next ==
  \/ \E s \in Ids : \/ Accept(s) \/ ReaderEnds(s) \/ ReaderNext(s)
                    \/ \E a \in Apps : RegisterChecks(s, a)
                    \/ \E e \in Execs : PluginRuns(s, e)
  \/ \E e \in Execs : ExecNext(e) \/ Sends(e) \/ SendFails(e)
  \/ \E c \in Calls : CallBegins(c) \/ CallGoesOn(c) \/ CallEnds(c)
  \/ \E a \in Apps : Toggle(a)
  \/ Stop \/ MainNext

Spec == Init /\ [][Next]_vars

(* What the server's threads do by themselves: reads and sends end when    *)
(* the connection was closed.  A plugin may not read or be silent for ever,*)
(* and so may the daemon.                                                  *)
ServerNext ==
  \/ \E s \in Ids : ReaderNext(s) \/ (Gone(reader[s].fd) /\ ReaderEnds(s))
  \/ \E e \in Execs : ExecNext(e) \/ (Gone(exec[e].fd) /\ SendFails(e))
  \/ MainNext

------------------------------------------------------------------------------
NotSent == {"refused", "unsent", "lost"}

(* An outcome says what happened at the plugin: a result is of this very   *)
(* call and it has run, and a call that was not sent has not run and will  *)
(* not, however answers of other calls and connections overtake it.  What  *)
(* is answered without the plugin says nothing of it, whatever it claims   *)
(* (EdaRpcServer.cxx:4133-4145), and no EasyEDA tool does that.            *)
OutcomesAreTrue ==
  \A e \in Execs :
    /\ exec[e].out = "result" => e \in ran
    /\ exec[e].out \in NotSent => e \notin ran /\ \A s \in Ids : e \notin got[s]
    /\ exec[e].out = "headless" => AppOf(e) \notin Serial

(* Each way of a call keeps what the daemon relies on when it goes on to   *)
(* the next: see ToolCalls, of which a headless answer is a failure, for   *)
(* the request may not have run, may have or may yet.  What is lost with   *)
(* the gateway never returns.                                              *)
Promised ==
  INSTANCE ToolCalls WITH
    Callers    <- Execs,
    Satellites <- {"plugin"},
    Answers    <- {"result"},
    Failures   <- {"refused", "unsent", "timeout", "stopped", "headless"},
    Unsent     <- {"refused", "unsent"},
    busy       <- [e \in Execs |-> exec[e].at \notin {"none", "done"} \/ exec[e].out = "lost"],
    ran        <- [e \in Execs |-> IF e \in ran THEN {"plugin"} ELSE {}],
    returned   <- [e \in Execs |-> IF exec[e].at = "done" /\ exec[e].out # "lost"
                                   THEN exec[e].out ELSE "none"]

ImplementsToolCalls == Promised!Spec

(* EasyEDA may have two requests at a time only when nobody waits for one  *)
(* of them any more, though the daemon sends a call by both its ways.      *)
OverlapOnlyAbandoned ==
  \A e, g \in Execs :
    e # g /\ AppOf(e) = AppOf(g) /\ AppOf(e) \in Serial
    => \A s, t \in Ids : e \in got[s] /\ g \in got[t]
                         => exec[e].at = "done" \/ exec[g].at = "done"

(* A program that is switched off has no session, once main is through,    *)
(* but one whose registration passed its check before the switch.          *)
OffOnlyByRace ==
  \A s \in Ids : sess[s].active /\ sess[s].app # NoApp /\ ~enabled[sess[s].app] /\ main.at = "idle"
                 => s \in raced

(* Variables keep their types, and programs that are off have no session.  *)
SessionsOK == TypeOK /\ OffOnlyByRace

(* A request reaches another connection than the one it was for only when  *)
(* that one is no longer active and its number was given to another, or    *)
(* when an older session was closed by its reader and main at a time: what *)
(* the second of them closed may have been this one, already.              *)
StrayOnlyWhenClosed ==
  [][\A e \in Execs, s \in Ids :
       e \in got'[s] \ got[s] /\ s # exec[e].s
       => ~sess[exec[e].s].active \/ \E t \in twoClose : t < exec[e].s]_vars

(* A connection in use is closed by another session than its own only      *)
(* after a session older than it was closed by its reader and main at a    *)
(* time; one that lost its number so may close a later one in its turn.    *)
StrangersClosedOnlyByTwo ==
  [][\A f \in Fds :
       owner[f] # 0 /\ owner'[f] = 0 /\ sess[owner[f]].active
       => \E s \in twoClose : s < owner[f]]_vars

(* Numbers of closed connections are used again: what that does to others. *)
StrangersOnlyByRace == StrayOnlyWhenClosed /\ StrangersClosedOnlyByTwo

(* Main answers the pending calls with their list locked, and one that     *)
(* waits for that lock keeps the mutex main needs.                         *)
LockCycle == main.at = "answer" /\ \E e \in pending : exec[e].at = "woken"

(* A send to a connection that is open: it lasts until the plugin reads.   *)
Unread(e) == exec[e].at = "sending" /\ ~Gone(exec[e].fd)

(* What each thread waits for, by its step.                                *)
ReaderCanGo(s) ==
  \/ reader[s].at \in {"accepted", "register"} /\ PluginsFree
  \/ reader[s].at = "deliver" /\ exec[reader[s].on].at # "woken"
  \/ reader[s].at \in {"close", "clear"}
  \/ reader[s].at = "reading" /\ (Gone(reader[s].fd) \/ (PendingFree /\ Heard(s) # {}))

ExecCanGo(e) ==
  \/ /\ exec[e].at = "queued"
     /\ e[2] = "gateway" =>
          \A g \in Execs \ {e} : g[2] = "gateway" => exec[g].at \notin InHand \cup {"admitted"}
  \/ exec[e].at = "admitted" /\ AppOf(e) \notin Serial /\ ~enabled[AppOf(e)]
  \/ /\ exec[e].at = "admitted" /\ PluginsFree /\ (PendingFree \/ Targets(AppOf(e)) = {})
     /\ AppOf(e) \in Serial =>
          \A g \in Execs : AppOf(g) = AppOf(e) => exec[g].at \notin InHand
  \/ exec[e].at = "picked"
       /\ (PendingFree \/ (sess[exec[e].s].active /\ sess[exec[e].s].sock # 0))
  \/ exec[e].at = "send" /\ WriteFree(exec[e].s)
  \/ exec[e].at = "sending" /\ Gone(exec[e].fd) /\ PendingFree
  \/ exec[e].at = "waiting"
  \/ exec[e].at = "woken" /\ PendingFree

MainCanGo ==
  \/ main.at \in {"sweep", "close", "clear"}
  \/ /\ main.at = "gateway"
     /\ \A e \in Execs : e[2] = "gateway" => exec[e].at \notin InHand \cup {"admitted"}
     /\ \A s \in Ids : reader[s].at # "accepted"
  \/ main.at = "readers" /\ \A s \in Ids : reader[s].at \in {"none", "done"}
  \/ main.at = "answer" /\ (pending = {} \/ \E e \in pending : exec[e].at # "woken")

ServerCanGo ==
  (\E s \in Ids : ReaderCanGo(s)) \/ (\E e \in Execs : ExecCanGo(e)) \/ MainCanGo

(* When no thread of the server can go on, it is in that cycle; or a send  *)
(* to a plugin that does not read holds calls up, and stop() too when it   *)
(* waits for the thread of the gateway, before it closes the connections;  *)
(* or no tool call is in hand and stop() is through.                       *)
StandsOnlyWhenHeld ==
  ~ServerCanGo =>
    \/ LockCycle
    \/ main.at \in {"idle", "gateway"} /\ \E e \in Execs : Unread(e)
    \/ main.at \in {"idle", "stopped"} /\ \A e \in Execs : exec[e].at \in {"none", "done"}

(* The same of the steps themselves: threads can go on when they say so.   *)
OnlyLocksAndSendsBlockBridge ==
  (ENABLED ServerNext <=> ServerCanGo) /\ StandsOnlyWhenHeld
==============================================================================
