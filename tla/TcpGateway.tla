----------------------------- MODULE TcpGateway -----------------------------
(***************************************************************************)
(* TcpGateway (src/src/TcpGateway.cxx): the TCP server on port 3885 that   *)
(* satellite daemons connect to, and the proxying of tool calls to them.   *)
(*                                                                         *)
(* Threads: the listener, one reader per connection, the HTTP workers that *)
(* run callTool (Callers), and the thread that calls stop().  The module   *)
(* interleaves them between their accesses to shared state and keeps the   *)
(* two kinds of lock that are ever held while another one is taken:        *)
(*   pendingLock   _pendingMutex, held by a closing reader and by stop()   *)
(*                 while they take the mutex of each pending call;         *)
(*   callLock      PendingCall::mutex, held by the caller when it wakes    *)
(*                 from wait_for and takes _pendingMutex.                  *)
(* Every other critical section takes one lock and is one step.            *)
(*                                                                         *)
(* Descriptor numbers are modelled because the kernel reuses them: fd is   *)
(* the field ClientConnection::socketFd, fdOwner the kernel's table.       *)
(* _retainedMonitors, the record of monitors seen before, is left out: it  *)
(* is shown on the web page and nothing modelled here depends on it.       *)
(***************************************************************************)
EXTENDS ToolRegistry, FiniteSets

CONSTANTS
  Callers,      \* threads that run callTool
  Fds,          \* descriptor numbers the process may get from accept
  Catalogs,     \* the tool lists a satellite may register
  MaxReq,       \* bound on _nextRequestId
  StopAllowed,  \* whether stop() may run
  Stopper,      \* the thread that calls stop()
  NoFd, NoConn, NoThread

Req     == 1..MaxReq
Threads == Clients \cup Callers \cup {Stopper}

ASSUME GatewayAssumption ==
  /\ Catalogs \subseteq SUBSET Offer
  /\ MaxReq \in Nat
  /\ StopAllowed \in BOOLEAN
  /\ Fds \subseteq Nat
  /\ NoFd \notin Fds
  /\ NoConn \notin Clients
  /\ NoThread \notin Threads
  /\ Clients \cap Callers = {}
  /\ Stopper \notin Clients \cup Callers

VARIABLES
  running,      \* _running
  known,        \* the keys of _clients
  active,       \* ClientConnection::active
  fd,           \* ClientConnection::socketFd
  fdOwner,      \* kernel: the connection an open descriptor belongs to
  peerOpen,     \* external: the satellite still holds its end
  inbox,        \* external: requests the satellite received and not answered
  ranOn,        \* history: the satellites that executed a request
  rpc,          \* program counter of each connection's reader
  handing,      \* the answer a reader has looked up and not yet delivered
  visiting,     \* the pending calls a closing thread has still to fail
  pending,      \* the keys of _pendingCalls
  call,         \* the PendingCall objects
  nextReq,      \* _nextRequestId
  pendingLock,  \* owner of _pendingMutex
  callLock,     \* owner of each PendingCall::mutex
  cpc,          \* program counter of each caller
  left,         \* candidates not yet given up, the current one included
  cur,          \* the current candidate's client
  req,          \* the request the caller last created
  sfd,          \* the descriptor number read for write()
  attempted,    \* anyClientAttempted
  outcome,      \* what callTool returned
  stopPc,       \* program counter of stop()
  announced     \* names the agents saw at the last list_changed

connVars   == <<known, active, fd, fdOwner>>
satVars    == <<peerOpen, inbox, ranOn>>
readerVars == <<rpc, handing, visiting>>
callVars   == <<pending, call, nextReq>>
lockVars   == <<pendingLock, callLock>>
callerVars == <<cpc, left, cur, req, sfd, attempted, outcome>>
stopVars   == <<running, stopPc>>

vars == <<regVars, connVars, satVars, readerVars, callVars, lockVars,
          callerVars, stopVars, announced>>

-----------------------------------------------------------------------------

Answers  == {"result", "error", "malformed"}
Failures == {"disconnected", "stopped"}

(* PendingCall: completed, response and errorMessage.                      *)
CallState == [done : BOOLEAN, answer : Answers \cup {"none"},
              err : Failures \cup {"none"}]

FreshCall == [done |-> FALSE, answer |-> "none", err |-> "none"]

ReaderPc == {"none", "reading", "notify", "deliver", "unregister", "erase",
             "lock", "failing", "announce", "done"}
CallerPc == {"idle", "select", "insert", "readfd", "write", "sendfailed",
             "enterwait", "waiting", "woken", "timedout",
             "decide", "decidetimeout"}
StopPc   == {"no", "clients", "lock", "failing", "registry", "stopped"}
Outcomes == {"none", "result", "error", "malformed", "not registered",
             "offline", "send failed", "timeout", "disconnected", "stopped",
             "no message"}

ConnTypeOK ==
  /\ known \subseteq Clients
  /\ active \in [Clients -> BOOLEAN]
  /\ fd \in [Clients -> Fds \cup {NoFd}]
  /\ fdOwner \in [Fds -> Clients \cup {NoConn}]

SatTypeOK ==
  /\ peerOpen \in [Clients -> BOOLEAN]
  /\ inbox \in [Clients -> SUBSET Req]
  /\ ranOn \in [Req -> SUBSET Clients]

ReaderTypeOK ==
  /\ rpc \in [Clients -> ReaderPc]
  /\ handing \in [Clients -> Req \X Answers \cup {<<>>}]
  /\ visiting \in [Clients \cup {Stopper} -> SUBSET Req]

CallTypeOK ==
  /\ pending \subseteq Req
  /\ call \in [Req -> CallState]
  /\ nextReq \in 1..(MaxReq + 1)

LockTypeOK ==
  /\ pendingLock \in Clients \cup {Stopper, NoThread}
  /\ callLock \in [Req -> Callers \cup {NoThread}]

CallerTypeOK ==
  /\ cpc \in [Callers -> CallerPc]
  /\ left \in [Callers -> SUBSET Provider]
  /\ cur \in [Callers -> Clients \cup {NoConn}]
  /\ req \in [Callers -> 0..MaxReq]
  /\ sfd \in [Callers -> Fds \cup {NoFd}]
  /\ attempted \in [Callers -> BOOLEAN]
  /\ outcome \in [Callers -> Outcomes]

StopTypeOK ==
  /\ running \in BOOLEAN
  /\ stopPc \in StopPc

TypeOK ==
  /\ RegTypeOK
  /\ ConnTypeOK
  /\ SatTypeOK
  /\ ReaderTypeOK
  /\ CallTypeOK
  /\ LockTypeOK
  /\ CallerTypeOK
  /\ StopTypeOK
  /\ announced \subseteq ToolNames

Init ==
  /\ RegInit
  /\ running = TRUE
  /\ known = {}
  /\ active = [c \in Clients |-> FALSE]
  /\ fd = [c \in Clients |-> NoFd]
  /\ fdOwner = [f \in Fds |-> NoConn]
  /\ peerOpen = [c \in Clients |-> FALSE]
  /\ inbox = [c \in Clients |-> {}]
  /\ ranOn = [r \in Req |-> {}]
  /\ rpc = [c \in Clients |-> "none"]
  /\ handing = [c \in Clients |-> <<>>]
  /\ visiting = [t \in Clients \cup {Stopper} |-> {}]
  /\ pending = {}
  /\ call = [r \in Req |-> FreshCall]
  /\ nextReq = 1
  /\ pendingLock = NoThread
  /\ callLock = [r \in Req |-> NoThread]
  /\ cpc = [k \in Callers |-> "idle"]
  /\ left = [k \in Callers |-> {}]
  /\ cur = [k \in Callers |-> NoConn]
  /\ req = [k \in Callers |-> 0]
  /\ sfd = [k \in Callers |-> NoFd]
  /\ attempted = [k \in Callers |-> FALSE]
  /\ outcome = [k \in Callers |-> "none"]
  /\ stopPc = "no"
  /\ announced = {}

Listed == {n \in ToolNames : tools[n] # NoTool}

GotoR(c, l) == rpc' = [rpc EXCEPT ![c] = l]
GotoC(k, l) == cpc' = [cpc EXCEPT ![k] = l]

-----------------------------------------------------------------------------
(* Listener and connections.                                               *)

(* listenerLoop: accept gives the lowest free descriptor, the client gets  *)
(* the next id, is put in _clients, and its reader thread starts.          *)
Accept(c) ==
  /\ running
  /\ rpc[c] = "none"
  /\ \A d \in Clients : d < c => rpc[d] # "none"
  /\ \E f \in Fds :
       /\ fdOwner[f] = NoConn
       /\ \A g \in Fds : g < f => fdOwner[g] # NoConn
       /\ fd' = [fd EXCEPT ![c] = f]
       /\ fdOwner' = [fdOwner EXCEPT ![f] = c]
  /\ active' = [active EXCEPT ![c] = TRUE]
  /\ known' = known \cup {c}
  /\ peerOpen' = [peerOpen EXCEPT ![c] = TRUE]
  /\ GotoR(c, "reading")
  /\ UNCHANGED <<regVars, inbox, ranOn, handing, visiting, callVars,
                 lockVars, callerVars, stopVars, announced>>

(* External: the satellite exits, crashes or closes its socket; what it    *)
(* had not answered is lost.                                               *)
PeerCloses(c) ==
  /\ peerOpen[c]
  /\ peerOpen' = [peerOpen EXCEPT ![c] = FALSE]
  /\ inbox' = [inbox EXCEPT ![c] = {}]
  /\ UNCHANGED <<regVars, connVars, ranOn, readerVars, callVars, lockVars,
                 callerVars, stopVars, announced>>

-----------------------------------------------------------------------------
(* Reader thread: messages.                                                *)

(* gateway/register and gateway/updateTools; a "tools" that is no array    *)
(* leaves the registry alone.  The callback follows.                       *)
HandleRegister(c, offers) ==
  /\ rpc[c] = "reading"
  /\ peerOpen[c]
  /\ RegisterTools(c, offers)
  /\ GotoR(c, "notify")
  /\ UNCHANGED <<connVars, satVars, handing, visiting, callVars, lockVars,
                 callerVars, stopVars, announced>>

(* Mutated form: the agents are not told.                                  *)
HandleUnregister_Silent(c) ==
  /\ rpc[c] = "reading"
  /\ peerOpen[c]
  /\ UnregisterClient(c)
  /\ UNCHANGED <<connVars, satVars, readerVars, callVars, lockVars,
                 callerVars, stopVars, announced>>

HandleUnregister(c) ==
  /\ rpc[c] = "reading"
  /\ peerOpen[c]
  /\ UnregisterClient(c)
  /\ GotoR(c, "notify")
  /\ UNCHANGED <<connVars, satVars, handing, visiting, callVars, lockVars,
                 callerVars, stopVars, announced>>

(* _onToolsChanged: notifications/tools/list_changed makes the agents      *)
(* fetch the list again.  A closing reader ends after it.                  *)
NotifyToolsChanged(c) ==
  /\ rpc[c] \in {"notify", "announce"}
  /\ announced' = Listed
  /\ GotoR(c, IF rpc[c] = "notify" THEN "reading" ELSE "done")
  /\ UNCHANGED <<regVars, connVars, satVars, handing, visiting, callVars,
                 lockVars, callerVars, stopVars>>

(* Mutated form: the answer completes any pending call, not the one with   *)
(* its id.                                                                 *)
ReadAnswer_AnyCall(c, r, a) ==
  /\ rpc[c] = "reading"
  /\ peerOpen[c]
  /\ r \in inbox[c]
  /\ pendingLock = NoThread
  /\ inbox' = [inbox EXCEPT ![c] = @ \ {r}]
  /\ ranOn' = [ranOn EXCEPT ![r] = @ \cup {c}]
  /\ \E q \in pending : handing' = [handing EXCEPT ![c] = <<q, a>>]
  /\ GotoR(c, "deliver")
  /\ UNCHANGED <<regVars, connVars, peerOpen, visiting, callVars, lockVars,
                 callerVars, stopVars, announced>>

(* A message without a method: the satellite has executed request r and    *)
(* answers it.  The pending call is looked up by id, whoever answers.      *)
ReadAnswer(c, r, a) ==
  /\ rpc[c] = "reading"
  /\ peerOpen[c]
  /\ r \in inbox[c]
  /\ pendingLock = NoThread
  /\ inbox' = [inbox EXCEPT ![c] = @ \ {r}]
  /\ ranOn' = [ranOn EXCEPT ![r] = @ \cup {c}]
  /\ IF r \in pending
     THEN /\ handing' = [handing EXCEPT ![c] = <<r, a>>]
          /\ GotoR(c, "deliver")
     ELSE UNCHANGED <<handing, rpc>>
  /\ UNCHANGED <<regVars, connVars, peerOpen, visiting, callVars, lockVars,
                 callerVars, stopVars, announced>>

(* Mutated form: the call is completed without its mutex.                  *)
DeliverAnswer_Unlocked(c) ==
  /\ rpc[c] = "deliver"
  /\ call' = [call EXCEPT ![handing[c][1]].done = TRUE,
                          ![handing[c][1]].answer = handing[c][2]]
  /\ handing' = [handing EXCEPT ![c] = <<>>]
  /\ GotoR(c, "reading")
  /\ UNCHANGED <<regVars, connVars, satVars, visiting, pending, nextReq,
                 lockVars, callerVars, stopVars, announced>>

(* ... and completed under the call's own mutex, whatever it holds.        *)
DeliverAnswer(c) ==
  /\ rpc[c] = "deliver"
  /\ LET r == handing[c][1] IN
       /\ callLock[r] = NoThread
       /\ call' = [call EXCEPT ![r] = [@ EXCEPT !.done = TRUE,
                                                !.answer = handing[c][2]]]
  /\ handing' = [handing EXCEPT ![c] = <<>>]
  /\ GotoR(c, "reading")
  /\ UNCHANGED <<regVars, connVars, satVars, visiting, pending, nextReq,
                 lockVars, callerVars, stopVars, announced>>

-----------------------------------------------------------------------------
(* Reader thread: the end of the connection.                               *)

(* read() returns 0 or an error: the peer closed, or stop() closed the     *)
(* descriptor.                                                             *)
ReadEof(c) ==
  /\ rpc[c] = "reading"
  /\ ~peerOpen[c] \/ ~active[c] \/ ~running
  /\ active' = [active EXCEPT ![c] = FALSE]
  /\ fdOwner' = [f \in Fds |-> IF f = fd[c] THEN NoConn ELSE fdOwner[f]]
  /\ fd' = [fd EXCEPT ![c] = NoFd]
  /\ peerOpen' = [peerOpen EXCEPT ![c] = FALSE]
  /\ inbox' = [inbox EXCEPT ![c] = {}]
  /\ GotoR(c, "unregister")
  /\ UNCHANGED <<regVars, known, ranOn, handing, visiting, callVars, lockVars,
                 callerVars, stopVars, announced>>

(* Mutated form: the closed connection keeps its tools.                    *)
UnregisterTools_Kept(c) ==
  /\ rpc[c] = "unregister"
  /\ GotoR(c, "erase")
  /\ UNCHANGED <<regVars, connVars, satVars, handing, visiting, callVars,
                 lockVars, callerVars, stopVars, announced>>

UnregisterTools(c) ==
  /\ rpc[c] = "unregister"
  /\ UnregisterClient(c)
  /\ GotoR(c, "erase")
  /\ UNCHANGED <<connVars, satVars, handing, visiting, callVars, lockVars,
                 callerVars, stopVars, announced>>

EraseClient(c) ==
  /\ rpc[c] = "erase"
  /\ known' = known \ {c}
  /\ GotoR(c, "lock")
  /\ UNCHANGED <<regVars, active, fd, fdOwner, satVars, handing, visiting,
                 callVars, lockVars, callerVars, stopVars, announced>>

(* The reader takes _pendingMutex and walks over every pending call.       *)
LockPending(c) ==
  /\ rpc[c] = "lock"
  /\ pendingLock = NoThread
  /\ pendingLock' = c
  /\ visiting' = [visiting EXCEPT ![c] = pending]
  /\ GotoR(c, "failing")
  /\ UNCHANGED <<regVars, connVars, satVars, handing, callVars, callLock,
                 callerVars, stopVars, announced>>

(* What closing threads do to one call, holding _pendingMutex: lock it     *)
(* and fail it unless completed.  The map's key order is left open.        *)
FailCall(t, r, why) ==
  /\ r \in visiting[t]
  /\ callLock[r] = NoThread
  /\ visiting' = [visiting EXCEPT ![t] = @ \ {r}]
  /\ call' = IF call[r].done
             THEN call
             ELSE [call EXCEPT ![r] = [@ EXCEPT !.done = TRUE, !.err = why]]

FailPending(c, r) ==
  /\ rpc[c] = "failing"
  /\ FailCall(c, r, "disconnected")
  /\ UNCHANGED <<regVars, connVars, satVars, rpc, handing, pending, nextReq,
                 lockVars, callerVars, stopVars, announced>>

(* Mutated form: _pendingMutex is never released.                          *)
UnlockPending_Held(c) ==
  /\ rpc[c] = "failing"
  /\ visiting[c] = {}
  /\ GotoR(c, "announce")
  /\ UNCHANGED <<regVars, connVars, satVars, handing, visiting, callVars,
                 lockVars, callerVars, stopVars, announced>>

UnlockPending(c) ==
  /\ rpc[c] = "failing"
  /\ visiting[c] = {}
  /\ pendingLock' = NoThread
  /\ GotoR(c, "announce")
  /\ UNCHANGED <<regVars, connVars, satVars, handing, visiting, callVars,
                 callLock, callerVars, stopVars, announced>>

-----------------------------------------------------------------------------
(* callTool.                                                               *)

Return(k, o) ==
  /\ outcome' = [outcome EXCEPT ![k] = o]
  /\ GotoC(k, "idle")
  /\ left' = [left EXCEPT ![k] = {}]

(* The bound: every attempt a call may make has a request id.              *)
RequestsLeft ==
  MaxReq + 1 - nextReq >= Cardinality(Clients) * Cardinality(Callers)

(* The candidates are a snapshot of the registry.                          *)
CallTool(k, n) ==
  /\ cpc[k] = "idle"
  /\ RequestsLeft
  /\ attempted' = [attempted EXCEPT ![k] = FALSE]
  /\ req' = [req EXCEPT ![k] = 0]
  /\ cur' = [cur EXCEPT ![k] = NoConn]
  /\ IF Providers(clientTools, n) = {}
     THEN Return(k, "not registered")
     ELSE /\ left' = [left EXCEPT ![k] = Providers(clientTools, n)]
          /\ outcome' = [outcome EXCEPT ![k] = "none"]
          /\ GotoC(k, "select")
  /\ UNCHANGED <<regVars, connVars, satVars, readerVars, callVars, lockVars,
                 sfd, stopVars, announced>>

(* The loop head: the best candidate left, if its client is still there    *)
(* with an open socket; otherwise on to the next one.                      *)
SelectCandidate(k) ==
  /\ cpc[k] = "select"
  /\ \E p \in left[k] :
       /\ IsBest(p, left[k])
       /\ IF p.client \in known /\ active[p.client] /\ fd[p.client] # NoFd
          THEN /\ cur' = [cur EXCEPT ![k] = p.client]
               /\ attempted' = [attempted EXCEPT ![k] = TRUE]
               /\ GotoC(k, "insert")
               /\ UNCHANGED left
          ELSE /\ left' = [left EXCEPT ![k] = @ \ {p}]
               /\ UNCHANGED <<cur, attempted, cpc>>
  /\ UNCHANGED <<regVars, connVars, satVars, readerVars, callVars, lockVars,
                 req, sfd, outcome, stopVars, announced>>

(* No candidate is left.  The message is set only when none was tried.     *)
NoCandidateLeft(k) ==
  /\ cpc[k] = "select"
  /\ left[k] = {}
  /\ Return(k, IF attempted[k] THEN "no message" ELSE "offline")
  /\ UNCHANGED <<regVars, connVars, satVars, readerVars, callVars, lockVars,
                 cur, req, sfd, attempted, stopVars, announced>>

InsertPending(k) ==
  /\ cpc[k] = "insert"
  /\ nextReq <= MaxReq
  /\ pendingLock = NoThread
  /\ pending' = pending \cup {nextReq}
  /\ req' = [req EXCEPT ![k] = nextReq]
  /\ nextReq' = nextReq + 1
  /\ GotoC(k, "readfd")
  /\ UNCHANGED <<regVars, connVars, satVars, readerVars, call, lockVars, left,
                 cur, sfd, attempted, outcome, stopVars, announced>>

(* Mutated form: the client id is taken for the descriptor.                *)
ReadSocketFd_ClientId(k) ==
  /\ cpc[k] = "readfd"
  /\ sfd' = [sfd EXCEPT ![k] = cur[k]]
  /\ GotoC(k, "write")
  /\ UNCHANGED <<regVars, connVars, satVars, readerVars, callVars, lockVars,
                 left, cur, req, attempted, outcome, stopVars, announced>>

(* sendLine(client->socketFd, ...): the number is read here ...            *)
ReadSocketFd(k) ==
  /\ cpc[k] = "readfd"
  /\ sfd' = [sfd EXCEPT ![k] = fd[cur[k]]]
  /\ GotoC(k, "write")
  /\ UNCHANGED <<regVars, connVars, satVars, readerVars, callVars, lockVars,
                 left, cur, req, attempted, outcome, stopVars, announced>>

(* ... and written to here, to whatever connection it now names.  A write  *)
(* to a peer that has closed may fail or vanish.                           *)
SocketOpen(k) == sfd[k] # NoFd /\ fdOwner[sfd[k]] # NoConn

SendRequest(k) ==
  /\ cpc[k] = "write"
  /\ SocketOpen(k)
  /\ LET d == fdOwner[sfd[k]] IN
       inbox' = IF peerOpen[d]
                THEN [inbox EXCEPT ![d] = @ \cup {req[k]}]
                ELSE inbox
  /\ GotoC(k, "enterwait")
  /\ UNCHANGED <<regVars, connVars, peerOpen, ranOn, readerVars, callVars,
                 lockVars, left, cur, req, sfd, attempted, outcome, stopVars,
                 announced>>

SendFails(k) ==
  /\ cpc[k] = "write"
  /\ ~(SocketOpen(k) /\ peerOpen[fdOwner[sfd[k]]])
  /\ GotoC(k, "sendfailed")
  /\ UNCHANGED <<regVars, connVars, satVars, readerVars, callVars, lockVars,
                 left, cur, req, sfd, attempted, outcome, stopVars, announced>>

(* The candidate being tried: the best of those left.                      *)
MoreCandidates(k) == \E p \in left[k] : ~IsBest(p, left[k])

NextCandidate(k) ==
  /\ left' = [left EXCEPT ![k] = {p \in @ : ~IsBest(p, @)}]
  /\ GotoC(k, "select")
  /\ UNCHANGED outcome

DropUnsent(k) ==
  /\ cpc[k] = "sendfailed"
  /\ pendingLock = NoThread
  /\ pending' = pending \ {req[k]}
  /\ IF MoreCandidates(k) THEN NextCandidate(k) ELSE Return(k, "send failed")
  /\ UNCHANGED <<regVars, connVars, satVars, readerVars, call, nextReq,
                 lockVars, cur, req, sfd, attempted, stopVars, announced>>

(* wait_for locks the call and looks at completed before it sleeps.        *)
EnterWait(k) ==
  /\ cpc[k] = "enterwait"
  /\ callLock[req[k]] = NoThread
  /\ IF call[req[k]].done
     THEN /\ callLock' = [callLock EXCEPT ![req[k]] = k]
          /\ GotoC(k, "woken")
     ELSE /\ GotoC(k, "waiting")
          /\ UNCHANGED callLock
  /\ UNCHANGED <<regVars, connVars, satVars, readerVars, callVars,
                 pendingLock, left, cur, req, sfd, attempted, outcome,
                 stopVars, announced>>

Wake(k) ==
  /\ cpc[k] = "waiting"
  /\ call[req[k]].done
  /\ callLock[req[k]] = NoThread
  /\ callLock' = [callLock EXCEPT ![req[k]] = k]
  /\ GotoC(k, "woken")
  /\ UNCHANGED <<regVars, connVars, satVars, readerVars, callVars,
                 pendingLock, left, cur, req, sfd, attempted, outcome,
                 stopVars, announced>>

(* Mutated form: wait instead of wait_for.                                 *)
Timeout_Never(k) == FALSE /\ cpc[k] = "waiting" /\ UNCHANGED vars

Timeout(k) ==
  /\ cpc[k] = "waiting"
  /\ ~call[req[k]].done
  /\ callLock[req[k]] = NoThread
  /\ callLock' = [callLock EXCEPT ![req[k]] = k]
  /\ GotoC(k, "timedout")
  /\ UNCHANGED <<regVars, connVars, satVars, readerVars, callVars,
                 pendingLock, left, cur, req, sfd, attempted, outcome,
                 stopVars, announced>>

(* Mutated form: a timed out call returns before it is erased.             *)
ErasePending_NotOnTimeout(k) ==
  /\ cpc[k] \in {"woken", "timedout"}
  /\ pendingLock = NoThread
  /\ pending' = IF cpc[k] = "woken" THEN pending \ {req[k]} ELSE pending
  /\ GotoC(k, IF cpc[k] = "woken" THEN "decide" ELSE "decidetimeout")
  /\ UNCHANGED <<regVars, connVars, satVars, readerVars, call, nextReq,
                 lockVars, left, cur, req, sfd, attempted, outcome, stopVars,
                 announced>>

(* Still holding the call's mutex, the caller takes _pendingMutex.         *)
ErasePending(k) ==
  /\ cpc[k] \in {"woken", "timedout"}
  /\ pendingLock = NoThread
  /\ pending' = pending \ {req[k]}
  /\ GotoC(k, IF cpc[k] = "woken" THEN "decide" ELSE "decidetimeout")
  /\ UNCHANGED <<regVars, connVars, satVars, readerVars, call, nextReq,
                 lockVars, left, cur, req, sfd, attempted, outcome, stopVars,
                 announced>>

(* What callTool makes of a completed call.                                *)
Verdict(s) == IF s.err # "none" THEN s.err ELSE s.answer

Decide(k) ==
  /\ cpc[k] \in {"decide", "decidetimeout"}
  /\ callLock' = [callLock EXCEPT ![req[k]] = NoThread]
  /\ LET s == call[req[k]]
         gone == ~active[cur[k]] \/ s.err = "disconnected"
     IN IF cpc[k] = "decidetimeout"
        THEN Return(k, "timeout")
        ELSE IF gone /\ MoreCandidates(k)
             THEN NextCandidate(k)
             ELSE Return(k, Verdict(s))
  /\ UNCHANGED <<regVars, connVars, satVars, readerVars, callVars,
                 pendingLock, cur, req, sfd, attempted, stopVars, announced>>

-----------------------------------------------------------------------------
(* stop().                                                                 *)

StopListening ==
  /\ StopAllowed
  /\ stopPc = "no"
  /\ running' = FALSE
  /\ stopPc' = "clients"
  /\ UNCHANGED <<regVars, connVars, satVars, readerVars, callVars, lockVars,
                 callerVars, announced>>

StopClients ==
  /\ stopPc = "clients"
  /\ active' = [c \in Clients |-> active[c] /\ c \notin known]
  /\ fdOwner' = [f \in Fds |-> IF fdOwner[f] \in known
                               THEN NoConn ELSE fdOwner[f]]
  /\ fd' = [c \in Clients |-> IF c \in known THEN NoFd ELSE fd[c]]
  /\ known' = {}
  /\ stopPc' = "lock"
  /\ UNCHANGED <<regVars, satVars, readerVars, callVars, lockVars, callerVars,
                 running, announced>>

StopLockPending ==
  /\ stopPc = "lock"
  /\ pendingLock = NoThread
  /\ pendingLock' = Stopper
  /\ visiting' = [visiting EXCEPT ![Stopper] = pending]
  /\ stopPc' = "failing"
  /\ UNCHANGED <<regVars, connVars, satVars, rpc, handing, callVars, callLock,
                 callerVars, running, announced>>

StopFailPending(r) ==
  /\ stopPc = "failing"
  /\ FailCall(Stopper, r, "stopped")
  /\ UNCHANGED <<regVars, connVars, satVars, rpc, handing, pending, nextReq,
                 lockVars, callerVars, stopVars, announced>>

(* Mutated form: stop() keeps _pendingMutex.                               *)
StopClearPending_Held ==
  /\ stopPc = "failing"
  /\ visiting[Stopper] = {}
  /\ pending' = {}
  /\ stopPc' = "registry"
  /\ UNCHANGED <<regVars, connVars, satVars, readerVars, call, nextReq,
                 lockVars, callerVars, running, announced>>

StopClearPending ==
  /\ stopPc = "failing"
  /\ visiting[Stopper] = {}
  /\ pending' = {}
  /\ pendingLock' = NoThread
  /\ stopPc' = "registry"
  /\ UNCHANGED <<regVars, connVars, satVars, readerVars, call, nextReq,
                 callLock, callerVars, running, announced>>

StopClearRegistry ==
  /\ stopPc = "registry"
  /\ Clear
  /\ stopPc' = "stopped"
  /\ UNCHANGED <<connVars, satVars, readerVars, callVars, lockVars,
                 callerVars, running, announced>>

-----------------------------------------------------------------------------

ReaderMessage(c) ==
  \/ \E offers \in Catalogs : HandleRegister(c, offers)
  \/ HandleUnregister(c)
  \/ \E r \in Req, a \in Answers : ReadAnswer(c, r, a)

ReaderStep(c) ==
  \/ NotifyToolsChanged(c)
  \/ DeliverAnswer(c)
  \/ ReadEof(c)
  \/ UnregisterTools(c)
  \/ EraseClient(c)
  \/ LockPending(c)
  \/ \E r \in Req : FailPending(c, r)
  \/ UnlockPending(c)

CallerStep(k) ==
  \/ SelectCandidate(k)
  \/ NoCandidateLeft(k)
  \/ InsertPending(k)
  \/ ReadSocketFd(k)
  \/ SendRequest(k)
  \/ SendFails(k)
  \/ DropUnsent(k)
  \/ EnterWait(k)
  \/ Wake(k)
  \/ Timeout(k)
  \/ ErasePending(k)
  \/ Decide(k)

StopStep ==
  \/ StopClients
  \/ StopLockPending
  \/ \E r \in Req : StopFailPending(r)
  \/ StopClearPending
  \/ StopClearRegistry

Next ==
  \/ \E c \in Clients : Accept(c) \/ PeerCloses(c)
  \/ \E c \in Clients : ReaderMessage(c) \/ ReaderStep(c)
  \/ \E k \in Callers, n \in ToolNames : CallTool(k, n)
  \/ \E k \in Callers : CallerStep(k)
  \/ StopListening
  \/ StopStep

Spec == Init /\ [][Next]_vars

(* Threads that can run do run.  Nothing is assumed of satellites, agents  *)
(* or whoever calls stop(): they may connect, answer, call or stop, or not.*)
Fairness ==
  /\ \A c \in Clients : WF_vars(ReaderStep(c))
  /\ \A k \in Callers : WF_vars(CallerStep(k))
  /\ WF_vars(StopStep)

FairSpec == Spec /\ Fairness

-----------------------------------------------------------------------------
(* Safety.                                                                 *)

(* A connection whose reader has passed a clean-up step has left nothing   *)
(* behind there: no offers once unregistered, no _clients entry and no     *)
(* open descriptor once ended, even when stop() clears the registry while  *)
(* a registration is being handled (clientReadLoop, 229-262).              *)
ClosedLeavesNothing ==
  \A c \in Clients :
    /\ rpc[c] \in {"none", "erase", "lock", "failing", "announce", "done"}
         => clientTools[c] = {} /\ fd[c] = NoFd /\ \A f \in Fds : fdOwner[f] # c
    /\ rpc[c] \in {"none", "lock", "failing", "announce", "done"}
         => c \notin known

(* The requests in _pendingCalls are those of callers still waiting: a     *)
(* call that failed over, failed to send, timed out or was answered leaves *)
(* no entry to leak or to be completed later (callTool, 553-588).          *)
NoLeakedPending ==
  \A r \in pending :
    \E k \in Callers :
      /\ req[k] = r
      /\ cpc[k] \in {"readfd", "write", "sendfailed", "enterwait", "waiting",
                     "woken", "timedout"}

(* Variables keep their types, and no pending call is left behind          *)
(* (callTool, 519-626).                                                    *)
CallsOK == TypeOK /\ NoLeakedPending

(* A caller that has decided to report a timeout has no answer: none can   *)
(* slip in between the timed out wait_for and the return, because the      *)
(* caller keeps the call's mutex (callTool, 580-593).                      *)
TimeoutMeansUnanswered ==
  \A k \in Callers :
    cpc[k] \in {"timedout", "decidetimeout"}
      => ~call[req[k]].done /\ callLock[req[k]] = k

(* The agents' view of the catalogue is current unless some reader is on   *)
(* its way to announce the change (or the gateway has been stopped): no    *)
(* interleaving of two satellites' changes loses a list_changed            *)
(* (handleIncomingJson 439-441, 479-481; clientReadLoop 282-284).          *)
CatalogueAnnounced ==
  \/ announced = Listed
  \/ stopPc = "stopped"
  \/ \E c \in Clients :
       rpc[c] \in {"notify", "erase", "lock", "failing", "announce"}

(* callTool's answers come from the attempt it reports, and a call that    *)
(* fails before it is sent is not executed: see ToolCalls.                 *)
Calls ==
  INSTANCE ToolCalls WITH
    Satellites <- Clients,
    Answers    <- Answers,
    Failures   <- Outcomes \ (Answers \cup {"none"}),
    Unsent     <- {"not registered", "offline", "send failed"},
    busy       <- [k \in Callers |-> cpc[k] # "idle"],
    ran        <- [k \in Callers |-> IF req[k] = 0 THEN {} ELSE ranOn[req[k]]],
    returned   <- outcome

ImplementsToolCalls == Calls!Spec

-----------------------------------------------------------------------------
(* Liveness.                                                               *)

(* A caller that holds its call's mutex waits for _pendingMutex, whose     *)
(* owner waits for that call's mutex.                                      *)
LockCycle ==
  \E k \in Callers, t \in Clients \cup {Stopper} :
    /\ cpc[k] \in {"woken", "timedout"}
    /\ pendingLock = t
    /\ req[k] \in visiting[t]

(* Every call returns, whatever satellites do, unless the two mutexes are  *)
(* taken in opposite orders at the same time: timeouts, failover and the   *)
(* clean-up of a closing connection leave no other way to hang.            *)
OnlyLockCycleBlocksCalls ==
  \A k \in Callers : cpc[k] # "idle" ~> (cpc[k] = "idle" \/ LockCycle)

(* A connection that closes is cleaned up and announced, with the same     *)
(* exception.                                                              *)
OnlyLockCycleBlocksCleanup ==
  \A c \in Clients : rpc[c] = "unregister" ~> (rpc[c] = "done" \/ LockCycle)

(* stop(), once begun, gets through its clean-up beside readers that close *)
(* and calls that are under way, with the same exception (stop, 97-142).   *)
OnlyLockCycleBlocksStop ==
  stopPc = "clients" ~> (stopPc = "stopped" \/ LockCycle)

(* What each thread waits for, by its step.                                *)
FindsFreeCall(t) ==
  visiting[t] = {} \/ \E r \in visiting[t] : callLock[r] = NoThread

ReaderCanGo(c) ==
  \/ rpc[c] \in {"notify", "unregister", "erase", "announce"}
  \/ rpc[c] = "deliver" /\ callLock[handing[c][1]] = NoThread
  \/ rpc[c] = "reading" /\ (~peerOpen[c] \/ ~active[c] \/ ~running)
  \/ rpc[c] = "lock" /\ pendingLock = NoThread
  \/ rpc[c] = "failing" /\ FindsFreeCall(c)

CallerCanGo(k) ==
  \/ cpc[k] \in {"select", "readfd", "write", "decide", "decidetimeout"}
  \/ /\ cpc[k] \in {"insert", "sendfailed", "woken", "timedout"}
     /\ pendingLock = NoThread
  \/ cpc[k] \in {"enterwait", "waiting"} /\ callLock[req[k]] = NoThread

StopCanGo ==
  \/ stopPc \in {"clients", "registry"}
  \/ stopPc = "lock" /\ pendingLock = NoThread
  \/ stopPc = "failing" /\ FindsFreeCall(Stopper)

GatewayCanGo ==
  \/ \E c \in Clients : ReaderCanGo(c)
  \/ \E k \in Callers : CallerCanGo(k)
  \/ StopCanGo

GatewayStep ==
  \/ \E c \in Clients : ReaderStep(c)
  \/ \E k \in Callers : CallerStep(k)
  \/ StopStep

(* When no thread of the gateway can go on, be the satellites silent or    *)
(* gone, no call is under way, every connection is open or cleaned up and  *)
(* stop() is through, unless threads stand in that cycle.                  *)
StandsOnlyInLockCycle ==
  ~GatewayCanGo =>
    \/ LockCycle
    \/ /\ \A k \in Callers : cpc[k] = "idle"
       /\ \A c \in Clients : rpc[c] \in {"none", "reading", "done"}
       /\ stopPc \in {"no", "stopped"}

(* Calls, clean-ups and stop() end unless they meet in the lock cycle, and *)
(* threads can go on when they say so                                      *)
(* (callTool 580-588, clientReadLoop 266-276, stop 127-141).               *)
OnlyLockCycleBlocks ==
  /\ OnlyLockCycleBlocksCalls
  /\ OnlyLockCycleBlocksCleanup
  /\ OnlyLockCycleBlocksStop
  /\ []((ENABLED GatewayStep <=> GatewayCanGo) /\ StandsOnlyInLockCycle)

-----------------------------------------------------------------------------
(* What the design document or a comment says and the code does not do.    *)

(* Design.md 261: a satellite going down never leaves a hanging request.   *)
EveryCallReturns ==
  \A k \in Callers : cpc[k] # "idle" ~> cpc[k] = "idle"

(* TcpGateway.cxx 264, "Notify in-flight calls waiting on this client":    *)
(* a closing connection fails only the calls that wait on it.              *)
DisconnectFailsItsOwnCalls ==
  [][\A c \in Clients, k \in Callers :
        /\ pendingLock = c
        /\ req[k] # 0
        /\ call[req[k]].err = "none"
        /\ call'[req[k]].err = "disconnected"
        => cur[k] = c]_vars

(* Design.md 157: a request is forwarded to the socket that registered the *)
(* tool.                                                                   *)
RequestReachesItsSatellite ==
  \A k \in Callers, d \in Clients :
    req[k] # 0 /\ req[k] \in inbox[d] => cur[k] = d

(* Design.md 184: an answer that arrived is relayed to the assistant.      *)
AnsweredCallIsRelayed ==
  [][\A k \in Callers :
        /\ cpc[k] = "decide"
        /\ call[req[k]].answer # "none"
        /\ call[req[k]].err = "none"
        /\ cpc'[k] # "decide"
        => cpc'[k] = "idle" /\ outcome'[k] = call[req[k]].answer]_vars

(* Design.md 234: an in-flight call returns saying the subsystem is        *)
(* offline.                                                                *)
FailedCallSaysWhy == \A k \in Callers : outcome[k] # "no message"

=============================================================================
