---------------------------- MODULE McpSessions ----------------------------
(***************************************************************************)
(* The MCP sessions of WebServer (src/src/WebServer.cxx): the table of     *)
(* sessions, the SSE streams that drain their message queues, the idle     *)
(* reaper, and the registrations of TaskRegistry that go with them.        *)
(*                                                                         *)
(* HTTP requests run on the workers of httplib's thread pool; an SSE       *)
(* stream keeps its worker until it ends.  A session is a shared object:   *)
(* a request that looked it up goes on using it after another thread has   *)
(* taken it out of the table.  Critical sections under _sessionsMutex and  *)
(* under SseSession::mutex are one step each; what the code does after it  *)
(* released them is a step of its own.                                     *)
(*                                                                         *)
(* Time is the age of a session since its last touch, in units of which    *)
(* IdleLimit make the reaper's 900 s.                                      *)
(***************************************************************************)
EXTENDS Naturals, FiniteSets, Sequences

CONSTANTS
  Workers,      \* threads of the HTTP server's pool
  Notifier,     \* the notification thread
  Ids,          \* session ids
  MaxObj,       \* bound on the sessions ever created
  MaxSessions,  \* MAX_MCP_SESSIONS
  MaxMsg,       \* bound on the messages ever queued
  IdleLimit,    \* maxIdle of the reaper
  StopAllowed,  \* whether stop() may run
  NoId

Objs    == 1..MaxObj
Msgs    == 1..MaxMsg
Threads == Workers \cup {Notifier}
NoObj   == 0

ASSUME SessionsAssumption ==
  /\ MaxObj \in Nat
  /\ MaxMsg \in Nat
  /\ MaxSessions \in Nat \ {0}
  /\ IdleLimit \in Nat
  /\ StopAllowed \in BOOLEAN
  /\ Notifier \notin Workers
  /\ NoId \notin Ids

VARIABLES
  sess,        \* _sseSessions
  nextObj,     \* the next SseSession to be made
  streamable,  \* SseSession::isStreamableHttp
  closed,      \* SseSession::closed
  idle,        \* how long ago SseSession::lastActive was, while in the table
  queue,       \* SseSession::messageQueue
  registered,  \* the keys of TaskRegistry::_sessions
  seen,        \* history: ids in use so far; a random new id is none of them
  wpc,         \* what each worker is doing
  wop,         \* the request a worker serves
  wid,         \* the session id of that request
  wobj,        \* the session it holds
  wmsg,        \* the message a stream has popped and not yet written
  got,         \* history: what the worker's present stream has written
  doomed,      \* sessions a thread erased and has still to close
  sent,        \* number of messages queued so far
  stopPc,      \* progress of stop()
  raced        \* history: ids whose entry changed while another thread was
               \* between changing the table and changing TaskRegistry

tableVars  == <<sess, registered>>
objVars    == <<nextObj, streamable, closed, idle, queue>>
workerVars == <<wpc, wop, wid, wobj, wmsg, got>>

vars == <<tableVars, objVars, workerVars, seen, doomed, sent, stopPc, raced>>

WorkerPc == {"free", "reap", "close", "create", "insert", "register",
             "terminate", "respond", "stream", "write", "release", "erase"}

TypeOK ==
  /\ sess \in [Ids -> Objs \cup {NoObj}]
  /\ nextObj \in 1..(MaxObj + 1)
  /\ streamable \in [Objs -> BOOLEAN]
  /\ closed \in [Objs -> BOOLEAN]
  /\ idle \in [Objs -> 0..(IdleLimit + 1)]
  /\ queue \in [Objs -> Seq(Msgs)]
  /\ registered \subseteq Ids
  /\ seen \subseteq Ids
  /\ wpc \in [Workers -> WorkerPc]
  /\ wop \in [Workers -> {"none", "GET", "GET legacy", "POST", "DELETE"}]
  /\ wid \in [Workers -> Ids \cup {NoId}]
  /\ wobj \in [Workers -> Objs \cup {NoObj}]
  /\ wmsg \in [Workers -> 0..MaxMsg]
  /\ got \in [Workers -> Seq(Msgs)]
  /\ doomed \in [Threads -> SUBSET Objs]
  /\ sent \in 0..MaxMsg
  /\ stopPc \in {"no", "cleared", "stopped"}
  /\ raced \subseteq Ids

Init ==
  /\ sess = [i \in Ids |-> NoObj]
  /\ nextObj = 1
  /\ streamable = [o \in Objs |-> FALSE]
  /\ closed = [o \in Objs |-> FALSE]
  /\ idle = [o \in Objs |-> 0]
  /\ queue = [o \in Objs |-> <<>>]
  /\ registered = {}
  /\ seen = {}
  /\ wpc = [w \in Workers |-> "free"]
  /\ wop = [w \in Workers |-> "none"]
  /\ wid = [w \in Workers |-> NoId]
  /\ wobj = [w \in Workers |-> NoObj]
  /\ wmsg = [w \in Workers |-> 0]
  /\ got = [w \in Workers |-> <<>>]
  /\ doomed = [t \in Threads |-> {}]
  /\ sent = 0
  /\ stopPc = "no"
  /\ raced = {}

-----------------------------------------------------------------------------

Used == {i \in Ids : sess[i] # NoObj}
Held == {sess[i] : i \in Used}

Goto(w, l) == wpc' = [wpc EXCEPT ![w] = l]

(* A worker takes a request for session i that finds it as object o.       *)
Begin(w, op, i, o, l) ==
  /\ wpc[w] = "free"
  /\ stopPc # "stopped"
  /\ wop' = [wop EXCEPT ![w] = op]
  /\ wid' = [wid EXCEPT ![w] = i]
  /\ wobj' = [wobj EXCEPT ![w] = o]
  /\ Goto(w, l)

(* The worker is done with its request.                                    *)
Finish(w) ==
  /\ Goto(w, "free")
  /\ wop' = [wop EXCEPT ![w] = "none"]
  /\ wid' = [wid EXCEPT ![w] = NoId]
  /\ wobj' = [wobj EXCEPT ![w] = NoObj]
  /\ wmsg' = [wmsg EXCEPT ![w] = 0]
  /\ got' = [got EXCEPT ![w] = <<>>]

(* Erasing entries of the table.  An object comes back into it no more, so *)
(* nothing reads its lastActive again and idle forgets it.                 *)
Without(S) == [i \in Ids |-> IF i \in S THEN NoObj ELSE sess[i]]
IdleWithout(S) ==
  [o \in Objs |-> IF o \in {sess[i] : i \in S} THEN 0 ELSE idle[o]]

-----------------------------------------------------------------------------
(* Opening a session.                                                      *)

(* GET /sse and GET /mcp: a known session is touched and reopened, whoever *)
(* else is using it; with any other id a session with a new id is made.    *)
OpenStream(w, op, i) ==
  /\ op \in {"GET", "GET legacy"}
  /\ IF i # NoId /\ sess[i] # NoObj
     THEN /\ Begin(w, op, i, sess[i], "stream")
          /\ idle' = [idle EXCEPT ![sess[i]] = 0]
          /\ closed' = [closed EXCEPT ![sess[i]] = FALSE]
          /\ streamable' = [streamable EXCEPT ![sess[i]] = @ \/ op = "GET"]
     ELSE /\ Begin(w, op, NoId, NoObj, "reap")
          /\ UNCHANGED <<idle, closed, streamable>>
  /\ UNCHANGED <<tableVars, nextObj, queue, wmsg, got, seen, doomed,
                 sent, stopPc>>

(* POST /mcp: a known session is touched; an unknown id is adopted; without*)
(* an id a session is made.                                                *)
PostStreamable(w, i) ==
  /\ IF i # NoId /\ sess[i] # NoObj
     THEN /\ wpc[w] = "free"
          /\ stopPc # "stopped"
          /\ idle' = [idle EXCEPT ![sess[i]] = 0]
          /\ UNCHANGED <<wpc, wop, wid, wobj, seen>>
     ELSE /\ Begin(w, "POST", i, NoObj, "reap")
          /\ seen' = seen \cup ({i} \ {NoId})
          /\ UNCHANGED idle
  /\ UNCHANGED <<tableVars, nextObj, closed, streamable, queue, wmsg,
                 got, doomed, sent, stopPc>>

(* POST /message on a legacy session: the answer goes to the stream.       *)
PostLegacy(w, i) ==
  /\ sess[i] # NoObj
  /\ ~streamable[sess[i]]
  /\ Begin(w, "POST", i, sess[i], "respond")
  /\ idle' = [idle EXCEPT ![sess[i]] = 0]
  /\ UNCHANGED <<tableVars, nextObj, closed, streamable, queue, wmsg,
                 got, seen, doomed, sent, stopPc>>

Respond(w) ==
  /\ wpc[w] = "respond"
  /\ sent < MaxMsg
  /\ sent' = sent + 1
  /\ queue' = [queue EXCEPT ![wobj[w]] = Append(@, sent + 1)]
  /\ Finish(w)
  /\ UNCHANGED <<tableVars, nextObj, closed, streamable, idle, seen,
                 doomed, stopPc>>

(* reapIdleMcpSessions: the idle and the closed leave the table and        *)
(* TaskRegistry under the lock; they are closed after it is released.      *)
Reapable(i) == sess[i] # NoObj /\ (idle[sess[i]] > IdleLimit \/ closed[sess[i]])

Reap(t) ==
  LET gone == {i \in Ids : Reapable(i)} IN
  /\ sess' = Without(gone)
  /\ idle' = IdleWithout(gone)
  /\ registered' = registered \ gone
  /\ doomed' = [doomed EXCEPT ![t] = {sess[i] : i \in gone}]

CloseDoomed(t) ==
  /\ closed' = [o \in Objs |-> closed[o] \/ o \in doomed[t]]
  /\ doomed' = [doomed EXCEPT ![t] = {}]

WorkerReaps(w) ==
  /\ wpc[w] = "reap"
  /\ Reap(w)
  /\ Goto(w, "close")
  /\ UNCHANGED <<nextObj, streamable, closed, queue, wop, wid, wobj, wmsg, got,
                 seen, sent, stopPc>>

WorkerCloses(w) ==
  /\ wpc[w] = "close"
  /\ CloseDoomed(w)
  /\ Goto(w, IF wid[w] = NoId THEN "create" ELSE "insert")
  /\ UNCHANGED <<tableVars, nextObj, streamable, idle, queue, wop, wid,
                 wobj, wmsg, got, seen, sent, stopPc>>

(* Mutated form: one session too many.                                     *)
Evictees_OffByOne ==
  IF Cardinality(Used) <= MaxSessions
  THEN {{}}
  ELSE {{i} : i \in {j \in Used : \A k \in Used : idle[sess[k]] <= idle[sess[j]]}}

(* The sessions that have to make room: the one idle for longest, when the *)
(* table is full.                                                          *)
Evictees ==
  IF Cardinality(Used) < MaxSessions
  THEN {{}}
  ELSE {{i} : i \in {j \in Used : \A k \in Used : idle[sess[k]] <= idle[sess[j]]}}

(* A new session under id i, after evicting the ids in E.                  *)
Insert(i, E, kind) ==
  /\ nextObj <= MaxObj
  /\ nextObj' = nextObj + 1
  /\ sess' = [Without(E) EXCEPT ![i] = nextObj]
  /\ idle' = IdleWithout(E \cup {i})
  /\ streamable' = [streamable EXCEPT ![nextObj] = kind]
  /\ closed' = [o \in Objs |-> closed[o] \/ o \in {sess[e] : e \in E}]
  /\ seen' = seen \cup {i}

(* Mutated form: registered under the id the request came with.            *)
CreateSession_RequestId(w) ==
  /\ wpc[w] = "create"
  /\ \E i \in Ids \ seen, E \in Evictees :
       /\ Insert(i, E, wop[w] # "GET legacy")
       /\ registered' = (registered \ E) \cup {wid[w]}
  /\ Finish(w)
  /\ UNCHANGED <<queue, doomed, sent, stopPc>>

(* createMcpSession: table and TaskRegistry change under the lock.         *)
CreateSession(w) ==
  /\ wpc[w] = "create"
  /\ \E i \in Ids \ seen, E \in Evictees :
       /\ Insert(i, E, wop[w] # "GET legacy")
       /\ registered' = (registered \ E) \cup {i}
       /\ wid' = [wid EXCEPT ![w] = IF wop[w] = "POST" THEN NoId ELSE i]
  /\ IF wop[w] = "POST"
     THEN /\ Goto(w, "free")
          /\ wop' = [wop EXCEPT ![w] = "none"]
          /\ UNCHANGED wobj
     ELSE /\ Goto(w, "stream")
          /\ wobj' = [wobj EXCEPT ![w] = nextObj]
          /\ UNCHANGED wop
  /\ UNCHANGED <<queue, wmsg, got, doomed, sent, stopPc>>

(* POST with an unknown id: the table changes under the lock ...           *)
InsertExplicit(w) ==
  /\ wpc[w] = "insert"
  /\ \E E \in Evictees :
       /\ Insert(wid[w], E, TRUE)
       /\ registered' = registered \ E
  /\ Goto(w, "register")
  /\ UNCHANGED <<queue, wop, wid, wobj, wmsg, got, doomed, sent, stopPc>>

(* ... and TaskRegistry after it.                                          *)
RegisterExplicit(w) ==
  /\ wpc[w] = "register"
  /\ registered' = registered \cup {wid[w]}
  /\ Finish(w)
  /\ UNCHANGED <<sess, objVars, seen, doomed, sent, stopPc>>

-----------------------------------------------------------------------------
(* Streams.                                                                *)

(* Mutated form: the message leaves the queue only after it was written.   *)
PopMessage_Peek(w) ==
  /\ wpc[w] = "stream"
  /\ ~closed[wobj[w]]
  /\ queue[wobj[w]] # <<>>
  /\ wmsg' = [wmsg EXCEPT ![w] = Head(queue[wobj[w]])]
  /\ Goto(w, "write")
  /\ UNCHANGED <<tableVars, objVars, wop, wid, wobj, got, seen, doomed, sent,
                 stopPc>>

(* The provider takes the next message under the session's mutex ...       *)
PopMessage(w) ==
  /\ wpc[w] = "stream"
  /\ ~closed[wobj[w]]
  /\ queue[wobj[w]] # <<>>
  /\ wmsg' = [wmsg EXCEPT ![w] = Head(queue[wobj[w]])]
  /\ queue' = [queue EXCEPT ![wobj[w]] = Tail(@)]
  /\ Goto(w, "write")
  /\ UNCHANGED <<tableVars, nextObj, streamable, closed, idle, wop, wid,
                 wobj, got, seen, doomed, sent, stopPc>>

(* ... and writes it without; the write fails if the client has gone.      *)
WriteMessage(w) ==
  /\ wpc[w] = "write"
  /\ wmsg' = [wmsg EXCEPT ![w] = 0]
  /\ \/ /\ got' = [got EXCEPT ![w] = Append(@, wmsg[w])]
        /\ Goto(w, "stream")
     \/ /\ Goto(w, "release")
        /\ UNCHANGED got
  /\ UNCHANGED <<tableVars, objVars, wop, wid, wobj, seen, doomed, sent,
                 stopPc>>

(* The provider gives up: the session is closed or the server stops.       *)
EndStream(w) ==
  /\ wpc[w] = "stream"
  /\ closed[wobj[w]] \/ stopPc = "stopped"
  /\ Goto(w, "release")
  /\ UNCHANGED <<tableVars, objVars, wop, wid, wobj, wmsg, got, seen, doomed,
                 sent, stopPc>>

(* External: the client ends its stream.                                   *)
ClientLeaves(w) ==
  /\ wpc[w] = "stream"
  /\ Goto(w, "release")
  /\ UNCHANGED <<tableVars, objVars, wop, wid, wobj, wmsg, got, seen, doomed,
                 sent, stopPc>>

(* Mutated form: every stream closes its session.                          *)
Release_ClosesAll(w) ==
  /\ wpc[w] = "release"
  /\ idle' = [idle EXCEPT ![wobj[w]] = 0]
  /\ closed' = [closed EXCEPT ![wobj[w]] = TRUE]
  /\ IF wop[w] = "GET legacy"
     THEN Goto(w, "erase") /\ UNCHANGED <<wop, wid, wobj, wmsg, got>>
     ELSE Finish(w)
  /\ UNCHANGED <<tableVars, nextObj, streamable, queue, seen, doomed,
                 sent, stopPc>>

(* The releaser: a legacy session is closed ...                            *)
Release(w) ==
  /\ wpc[w] = "release"
  /\ idle' = [idle EXCEPT ![wobj[w]] = 0]
  /\ IF wop[w] = "GET legacy"
     THEN /\ closed' = [closed EXCEPT ![wobj[w]] = TRUE]
          /\ Goto(w, "erase")
          /\ UNCHANGED <<wop, wid, wobj, wmsg, got>>
     ELSE Finish(w) /\ UNCHANGED closed
  /\ UNCHANGED <<tableVars, nextObj, streamable, queue, seen, doomed,
                 sent, stopPc>>

(* ... and then whatever has its id is erased.                             *)
EraseReleased(w) ==
  /\ wpc[w] = "erase"
  /\ sess' = Without({wid[w]})
  /\ idle' = IdleWithout({wid[w]})
  /\ registered' = registered \ {wid[w]}
  /\ Finish(w)
  /\ UNCHANGED <<nextObj, streamable, closed, queue, seen, doomed, sent,
                 stopPc>>

-----------------------------------------------------------------------------
(* DELETE, the notification thread, broadcasts and stop().                 *)

DeleteSession(w, i) ==
  /\ sess[i] # NoObj
  /\ Begin(w, "DELETE", i, NoObj, "terminate")
  /\ sess' = Without({i})
  /\ idle' = IdleWithout({i})
  /\ doomed' = [doomed EXCEPT ![w] = {sess[i]}]
  /\ UNCHANGED <<registered, nextObj, streamable, closed, queue, wmsg, got,
                 seen, sent, stopPc>>

(* Mutated form: the registration stays.                                   *)
TerminateSession_StillRegistered(w) ==
  /\ wpc[w] = "terminate"
  /\ CloseDoomed(w)
  /\ Finish(w)
  /\ UNCHANGED <<sess, registered, nextObj, streamable, idle, queue,
                 seen, sent, stopPc>>

(* terminateMcpSession after it has released the lock.                     *)
TerminateSession(w) ==
  /\ wpc[w] = "terminate"
  /\ CloseDoomed(w)
  /\ registered' = registered \ {wid[w]}
  /\ Finish(w)
  /\ UNCHANGED <<sess, nextObj, streamable, idle, queue, seen, sent,
                 stopPc>>

(* Mutated form: idle sessions are left alone.                             *)
NotifierReaps_OnlyClosed ==
  /\ stopPc = "no"
  /\ doomed[Notifier] = {}
  /\ \E i \in Used : closed[sess[i]]
  /\ Reap(Notifier)
  /\ UNCHANGED <<nextObj, streamable, closed, queue, workerVars, seen, sent,
                 stopPc>>

NotifierReaps ==
  /\ stopPc = "no"
  /\ doomed[Notifier] = {}
  /\ \E i \in Ids : Reapable(i)
  /\ Reap(Notifier)
  /\ UNCHANGED <<nextObj, streamable, closed, queue, workerVars, seen, sent,
                 stopPc>>

NotifierCloses ==
  /\ doomed[Notifier] # {}
  /\ CloseDoomed(Notifier)
  /\ UNCHANGED <<tableVars, nextObj, streamable, idle, queue,
                 workerVars, seen, sent, stopPc>>

(* broadcastSseNotification: one message for every open session.           *)
Broadcast ==
  /\ sent < MaxMsg
  /\ Used # {}
  /\ sent' = sent + 1
  /\ queue' = [o \in Objs |-> IF o \in Held /\ ~closed[o]
                              THEN Append(queue[o], sent + 1) ELSE queue[o]]
  /\ UNCHANGED <<tableVars, nextObj, streamable, closed, idle,
                 workerVars, seen, doomed, stopPc>>

(* stop(): the notification thread is joined, then the table is emptied.   *)
StopSessions ==
  /\ StopAllowed
  /\ stopPc = "no"
  /\ doomed[Notifier] = {}
  /\ closed' = [o \in Objs |-> closed[o] \/ o \in Held]
  /\ sess' = Without(Ids)
  /\ idle' = IdleWithout(Ids)
  /\ stopPc' = "cleared"
  /\ UNCHANGED <<registered, nextObj, streamable, queue, workerVars, seen,
                 doomed, sent>>

(* External: httplib's stop() takes no more requests and ends the streams. *)
StopServer ==
  /\ stopPc = "cleared"
  /\ stopPc' = "stopped"
  /\ UNCHANGED <<tableVars, objVars, workerVars, seen, doomed, sent>>

(* External: time passes for the sessions in the table.                    *)
Tick ==
  /\ idle' = [o \in Objs |-> IF o \in Held /\ idle[o] <= IdleLimit
                             THEN idle[o] + 1 ELSE idle[o]]
  /\ idle' # idle
  /\ UNCHANGED <<tableVars, nextObj, streamable, closed, queue,
                 workerVars, seen, doomed, sent, stopPc>>

-----------------------------------------------------------------------------

WorkerStep(w) ==
  \/ Respond(w)
  \/ WorkerReaps(w)
  \/ WorkerCloses(w)
  \/ CreateSession(w)
  \/ InsertExplicit(w)
  \/ RegisterExplicit(w)
  \/ PopMessage(w)
  \/ WriteMessage(w)
  \/ EndStream(w)
  \/ Release(w)
  \/ EraseReleased(w)
  \/ TerminateSession(w)

Request(w) ==
  \/ \E i \in Ids \cup {NoId} :
       \/ \E op \in {"GET", "GET legacy"} : OpenStream(w, op, i)
       \/ PostStreamable(w, i)
  \/ \E i \in Ids : PostLegacy(w, i) \/ DeleteSession(w, i)

Step ==
  \/ \E w \in Workers : Request(w) \/ WorkerStep(w) \/ ClientLeaves(w)
  \/ NotifierReaps
  \/ NotifierCloses
  \/ Broadcast
  \/ StopSessions
  \/ StopServer
  \/ Tick

(* Worker w has changed the table for id i and not yet TaskRegistry.       *)
Halfway(w, i) == wpc[w] \in {"register", "terminate"} /\ wid[w] = i

Next ==
  /\ Step
  /\ raced' = raced \cup {i \in Ids : /\ sess'[i] # sess[i]
                                      /\ \E w \in Workers : Halfway(w, i)}

Spec == Init /\ [][Next]_vars

(* The server's threads run, stop() goes on once begun, and time passes;   *)
(* clients may stay for ever.                                              *)
Fairness ==
  /\ \A w \in Workers : WF_vars(WorkerStep(w) /\ Next)
  /\ WF_vars(NotifierReaps /\ Next)
  /\ WF_vars(NotifierCloses /\ Next)
  /\ WF_vars(StopServer /\ Next)
  /\ WF_vars(Tick /\ Next)

FairSpec == Spec /\ Fairness

-----------------------------------------------------------------------------

(* The table never holds more than MAX_MCP_SESSIONS, although two ways of  *)
(* making a session evict on their own (createMcpSession 12325-12343,      *)
(* handleMcpMessage 10940-10968).                                          *)
SessionLimit == Cardinality(Used) <= MaxSessions

(* Variables keep their types, and the table its limit.                    *)
TableOK == TypeOK /\ SessionLimit

(* A closed session does not stay in the table, where it would take up     *)
(* room and be skipped by every broadcast: only a stream that is just      *)
(* being released leaves one there (10857-10870).                          *)
ClosedSessionsLeave ==
  \A i \in Used :
    closed[sess[i]] =>
      \E w \in Workers : wpc[w] = "erase" /\ wobj[w] = sess[i] /\ wid[w] = i

(* The table and TaskRegistry agree on which sessions exist, except for an *)
(* id that some request is just about to (un)register and for ids whose    *)
(* entry changed in the middle of that (10969-10975, 12365-12385).         *)
RegistryAgrees ==
  \A i \in Ids \ raced :
    \/ stopPc # "no"
    \/ \E w \in Workers : Halfway(w, i)
    \/ i \in registered <=> i \in Used

(* Each stream writes a session's messages in the order they were queued,  *)
(* and two streams that drain one session never write the same message     *)
(* (provider, 10833-10854).                                                *)
Increasing(s) == \A i, j \in DOMAIN s : i < j => s[i] < s[j]
InHand(w) == IF wmsg[w] = 0 THEN <<>> ELSE <<wmsg[w]>>
Written(w) == LET s == got[w] \o InHand(w) IN {s[i] : i \in DOMAIN s}

MessagesInOrderOnce ==
  /\ \A w \in Workers :
       wobj[w] # NoObj => Increasing(got[w] \o InHand(w) \o queue[wobj[w]])
  /\ \A w, x \in Workers :
       w # x /\ wobj[w] = wobj[x] /\ wobj[w] # NoObj
         => Written(w) \cap Written(x) = {}

(* A stream whose open session is no longer in the table: no broadcast     *)
(* reaches it and the reaper never ends it.                                *)
Zombie(w) ==
  /\ wpc[w] = "stream"
  /\ ~closed[wobj[w]]
  /\ wobj[w] \notin Held
  /\ \A t \in Threads : wobj[w] \notin doomed[t]

AllStreaming == \A w \in Workers : wpc[w] = "stream"

(* When streams hold the whole thread pool, no request can be served and   *)
(* so nothing touches their sessions: the reaper then frees a worker,      *)
(* unless streams have become unreachable (start 11557-11570, reaper).     *)
PoolRecovers == AllStreaming ~> (~AllStreaming \/ \E w \in Workers : Zombie(w))

(* Design.md 145: notifications go out across active SSE sessions.         *)
EveryStreamIsReachable == \A w \in Workers : ~Zombie(w)

=============================================================================
