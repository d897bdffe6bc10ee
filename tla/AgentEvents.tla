---------------------------- MODULE AgentEvents ----------------------------
(***************************************************************************)
(* MobileGateway, event half (src/src/MobileGateway.cxx): the numbered     *)
(* ring of recent agent events that the mobile application polls with      *)
(* /api/mobile/notifications?since=N, and the callback that pushes each    *)
(* event to the SSE streams.                                               *)
(*                                                                         *)
(* Recording is one critical section; the callback runs after the lock is  *)
(* released, so two senders may push in the other order.  A restart starts *)
(* the numbers again.                                                      *)
(***************************************************************************)
EXTENDS Naturals, Sequences

CONSTANTS
  Convs,     \* conversations
  Steps,     \* step indices; NoStep for stepIndex -1
  Kinds,     \* "agent_question", "prompt_answered"
  Senders,   \* threads that broadcast events
  Pollers,   \* mobile applications
  RingSize,  \* 64
  MaxSeq,    \* bound on the events recorded between two restarts
  NoStep

Event == [conv : Convs, step : Steps \cup {NoStep}, kind : Kinds]
Seqs  == 1..MaxSeq

ASSUME EventsAssumption ==
  /\ RingSize \in Nat \ {0}
  /\ MaxSeq \in Nat
  /\ NoStep \notin Steps

VARIABLES
  ring,     \* _recentAgentEvents
  nextSeq,  \* _nextEventSeq
  pushing,  \* the event each sender has recorded and not pushed; 0 for none
  pushed,   \* the numbers pushed to the streams, in order
  since,    \* the number each poller asks from
  news,     \* what the poller's last answer held
  fresh     \* history: the poller has not lived through a restart

evVars == <<ring, nextSeq, pushing, pushed, since, news, fresh>>

Entry == [seq : Seqs, ev : Event]

EvTypeOK ==
  /\ ring \in Seq(Entry)
  /\ nextSeq \in 0..MaxSeq
  /\ pushing \in [Senders -> 0..MaxSeq]
  /\ pushed \in Seq(Seqs)
  /\ since \in [Pollers -> 0..MaxSeq]
  /\ news \in [Pollers -> Seq(Entry)]
  /\ fresh \in [Pollers -> BOOLEAN]

EvInit ==
  /\ ring = <<>>
  /\ nextSeq = 0
  /\ pushing = [s \in Senders |-> 0]
  /\ pushed = <<>>
  /\ since = [p \in Pollers |-> 0]
  /\ news = [p \in Pollers |-> <<>>]
  /\ fresh = [p \in Pollers |-> TRUE]

-----------------------------------------------------------------------------

(* Mutated form: one entry too few survives.                               *)
Trimmed_OffByOne(s) ==
  IF Len(s) >= RingSize THEN SubSeq(s, Len(s) - RingSize + 2, Len(s)) ELSE s

Trimmed(s) ==
  IF Len(s) > RingSize THEN SubSeq(s, Len(s) - RingSize + 1, Len(s)) ELSE s

(* An event of a known step that is still in the ring.                     *)
AlreadyRecorded(ev) ==
  ev.step # NoStep /\ \E i \in DOMAIN ring : ring[i].ev = ev

(* broadcastAgentSessionEvent up to the callback.                          *)
Record(s, ev) ==
  /\ pushing[s] = 0
  /\ IF AlreadyRecorded(ev)
     THEN UNCHANGED <<ring, nextSeq, pushing>>
     ELSE /\ nextSeq < MaxSeq
          /\ nextSeq' = nextSeq + 1
          /\ ring' = Trimmed(Append(ring, [seq |-> nextSeq + 1, ev |-> ev]))
          /\ pushing' = [pushing EXCEPT ![s] = nextSeq + 1]
  /\ UNCHANGED <<pushed, since, news, fresh>>

(* Mutated form: the event stays to be pushed.                             *)
Push_Again(s) ==
  /\ pushing[s] # 0
  /\ Len(pushed) < MaxSeq
  /\ pushed' = Append(pushed, pushing[s])
  /\ UNCHANGED <<ring, nextSeq, pushing, since, news, fresh>>

Push(s) ==
  /\ pushing[s] # 0
  /\ pushed' = Append(pushed, pushing[s])
  /\ pushing' = [pushing EXCEPT ![s] = 0]
  /\ UNCHANGED <<ring, nextSeq, since, news, fresh>>

(* getRecentAgentEventsSince: taken[i] are the newer ones of the first i.  *)
Newer(n) ==
  LET taken[i \in 0..Len(ring)] ==
        IF i = 0 THEN <<>>
        ELSE IF ring[i].seq > n THEN Append(taken[i - 1], ring[i]) ELSE taken[i - 1]
  IN  taken[Len(ring)]

(* Mutated form: the event asked from is sent again.                       *)
Poll_FromIncluded(p) ==
  LET new == SelectSeq(ring, LAMBDA e : e.seq >= since[p]) IN
  /\ news' = [news EXCEPT ![p] = new]
  /\ since' = [since EXCEPT ![p] = IF new = <<>> THEN @ ELSE new[Len(new)].seq]
  /\ UNCHANGED <<ring, nextSeq, pushing, pushed, fresh>>

(* The handler of /api/mobile/notifications; the application asks from the *)
(* latestSeq it was told, which is never less than what it sent.           *)
Poll(p) ==
  LET new == Newer(since[p]) IN
  /\ news' = [news EXCEPT ![p] = new]
  /\ since' = [since EXCEPT ![p] = IF new = <<>> THEN @ ELSE new[Len(new)].seq]
  /\ UNCHANGED <<ring, nextSeq, pushing, pushed, fresh>>

(* shutdown() or a restart of the daemon; pollers keep their number.       *)
ResetEvents ==
  /\ ring' = <<>>
  /\ nextSeq' = 0
  /\ pushing' = [s \in Senders |-> 0]
  /\ pushed' = <<>>
  /\ fresh' = [p \in Pollers |-> FALSE]
  /\ UNCHANGED <<since, news>>

-----------------------------------------------------------------------------

(* A step is announced once while it is in the ring, whichever threads     *)
(* report it, and the ring holds the latest events without a gap           *)
(* (broadcastAgentSessionEvent 341-358).                                   *)
RingIsRecent ==
  /\ \A i \in DOMAIN ring : ring[i].seq = nextSeq - Len(ring) + i
  /\ Len(ring) = IF nextSeq < RingSize THEN nextSeq ELSE RingSize
  /\ \A i, j \in DOMAIN ring :
       i # j /\ ring[i].ev = ring[j].ev => ring[i].ev.step = NoStep

(* A poller that comes back before RingSize newer events were recorded     *)
(* gets exactly those, in order and none twice; restarts excepted          *)
(* (WebServer.cxx:5715-5735).                                              *)
PollIsComplete ==
  [][\A p \in Pollers :
        /\ since'[p] # since[p] \/ news'[p] # news[p]
        /\ fresh[p]
        /\ nextSeq - since[p] <= RingSize
        => /\ since'[p] = nextSeq
           /\ Len(news'[p]) = nextSeq - since[p]
           /\ \A i \in DOMAIN news'[p] : news'[p][i].seq = since[p] + i]_evVars

(* Every event the ring has numbered is pushed to the streams once, or is  *)
(* about to be (341-364).                                                  *)
PushedOnce ==
  \A n \in 1..nextSeq :
    \/ \E i \in DOMAIN pushed :
         pushed[i] = n /\ \A j \in DOMAIN pushed : pushed[j] = n => j = i
    \/ \E s \in Senders :
         pushing[s] = n /\ \A j \in DOMAIN pushed : pushed[j] # n

=============================================================================
