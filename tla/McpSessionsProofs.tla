------------------------- MODULE McpSessionsProofs -------------------------
(***************************************************************************)
(* Theorems about McpSessions, for any number of workers, ids, sessions    *)
(* and messages.                                                           *)
(***************************************************************************)
EXTENDS McpSessions, FiniteSetTheorems, SequenceTheorems, TLAPS

USE DEF Objs, NoObj

(* What a worker holds, by its program counter.                            *)
PcInv ==
  \A w \in Workers :
    /\ wpc[w] \in {"insert", "register", "terminate"} => wid[w] \in Ids
    /\ wpc[w] \in {"stream", "write", "release", "erase", "respond"}
         <=> wobj[w] # NoObj
    /\ wobj[w] # NoObj => wid[w] \in Ids
    /\ wobj[w] = NoObj => got[w] = <<>>
    /\ wpc[w] = "write" <=> wmsg[w] # 0

LEMMA EmptyMsgs == <<>> \in Seq(Msgs)
  BY EmptySeq

LEMMA WithoutType ==
  ASSUME TypeOK, NEW S
  PROVE  /\ Without(S) \in [Ids -> Objs \cup {NoObj}]
         /\ IdleWithout(S) \in [Objs -> 0..(IdleLimit + 1)]
         /\ \A i \in Ids : Without(S)[i] = IF i \in S THEN NoObj ELSE sess[i]
<1>1. IdleLimit \in Nat /\ 0 \in 0..(IdleLimit + 1)
  BY SessionsAssumption
<1>2. sess \in [Ids -> Objs \cup {NoObj}] /\ idle \in [Objs -> 0..(IdleLimit + 1)]
  BY DEF TypeOK
<1>3. Without(S) \in [Ids -> Objs \cup {NoObj}]
  BY <1>2 DEF Without
<1>4. IdleWithout(S) \in [Objs -> 0..(IdleLimit + 1)]
  <2>. DEFINE gone == {sess[i] : i \in S}
  <2>. HIDE DEF gone
  <2>1. \A o \in Objs : IF o \in gone THEN 0 \in 0..(IdleLimit + 1)
                                    ELSE idle[o] \in 0..(IdleLimit + 1)
    BY <1>1, <1>2
  <2>2. IdleWithout(S) = [o \in Objs |-> IF o \in gone THEN 0 ELSE idle[o]]
    BY DEF IdleWithout, gone
  <2>. QED BY <2>1, <2>2
<1>. QED BY <1>3, <1>4 DEF Without

LEMMA TableTypes ==
  ASSUME TypeOK
  PROVE  \A i \in Ids : sess[i] \in Objs \cup {NoObj}
  BY DEF TypeOK

LEMMA EvicteesType ==
  ASSUME TypeOK, NEW E \in Evictees
  PROVE  /\ E \subseteq Used
         /\ Cardinality(Used) < MaxSessions => E = {}
         /\ ~(Cardinality(Used) < MaxSessions) => \E i \in Used : E = {i}
  BY DEF Evictees

-----------------------------------------------------------------------------
(* Types.                                                                  *)

LEMMA InsertType ==
  ASSUME TypeOK, NEW i \in Ids, NEW E \in Evictees, NEW kind \in BOOLEAN,
         Insert(i, E, kind)
  PROVE  /\ nextObj \in Objs
         /\ nextObj' \in 1..(MaxObj + 1)
         /\ sess' \in [Ids -> Objs \cup {NoObj}]
         /\ idle' \in [Objs -> 0..(IdleLimit + 1)]
         /\ streamable' \in [Objs -> BOOLEAN]
         /\ closed' \in [Objs -> BOOLEAN]
         /\ seen' \subseteq Ids
<1>0. MaxObj \in Nat /\ nextObj \in 1..(MaxObj + 1) /\ nextObj <= MaxObj
  BY SessionsAssumption DEF Insert, TypeOK
<1>1. nextObj \in Objs /\ nextObj + 1 \in 1..(MaxObj + 1)
  BY <1>0
<1>2. sess' \in [Ids -> Objs \cup {NoObj}] /\ idle' \in [Objs -> 0..(IdleLimit + 1)]
  BY <1>1, WithoutType DEF Insert
<1>3. closed' \in [Objs -> BOOLEAN]
  BY DEF Insert, TypeOK
<1>4. streamable' \in [Objs -> BOOLEAN] /\ seen' \subseteq Ids
  BY DEF Insert, TypeOK
<1>. QED BY <1>1, <1>2, <1>3, <1>4 DEF Insert

LEMMA ReapType ==
  ASSUME TypeOK, NEW t \in Threads, Reap(t)
  PROVE  /\ sess' \in [Ids -> Objs \cup {NoObj}]
         /\ idle' \in [Objs -> 0..(IdleLimit + 1)]
         /\ registered' \subseteq Ids
         /\ doomed' \in [Threads -> SUBSET Objs]
<1> DEFINE gone == {i \in Ids : Reapable(i)}
<1>1. \A i \in gone : sess[i] \in Objs
  BY TableTypes DEF Reapable
<1>2. doomed \in [Threads -> SUBSET Objs] /\ registered \subseteq Ids
  BY DEF TypeOK
<1>3. /\ sess' = Without(gone) /\ idle' = IdleWithout(gone)
      /\ registered' = registered \ gone
      /\ doomed' = [doomed EXCEPT ![t] = {sess[i] : i \in gone}]
  BY DEF Reap
<1> HIDE DEF gone
<1>4. {sess[i] : i \in gone} \in SUBSET Objs
  BY <1>1
<1>5. doomed' \in [Threads -> SUBSET Objs]
  BY <1>2, <1>3, <1>4
<1>6. registered' \subseteq Ids
  BY <1>2, <1>3
<1>7. sess' \in [Ids -> Objs \cup {NoObj}] /\ idle' \in [Objs -> 0..(IdleLimit + 1)]
  BY <1>3, WithoutType
<1>. QED BY <1>5, <1>6, <1>7

LEMMA CloseType ==
  ASSUME TypeOK, NEW t \in Threads, CloseDoomed(t)
  PROVE  /\ closed' \in [Objs -> BOOLEAN]
         /\ doomed' \in [Threads -> SUBSET Objs]
  BY DEF CloseDoomed, TypeOK

LEMMA FinishType ==
  ASSUME TypeOK, NEW w \in Workers, Finish(w)
  PROVE  /\ wpc' \in [Workers -> WorkerPc]
         /\ wop' \in [Workers -> {"none", "GET", "GET legacy", "POST", "DELETE"}]
         /\ wid' \in [Workers -> Ids \cup {NoId}]
         /\ wobj' \in [Workers -> Objs \cup {NoObj}]
         /\ wmsg' \in [Workers -> 0..MaxMsg]
         /\ got' \in [Workers -> Seq(Msgs)]
<1>1. 0 \in 0..MaxMsg
  BY SessionsAssumption
<1>. QED BY <1>1, EmptyMsgs DEF Finish, Goto, TypeOK, WorkerPc

LEMMA BeginType ==
  ASSUME TypeOK, NEW w \in Workers, NEW op \in {"GET", "GET legacy", "POST", "DELETE"},
         NEW i \in Ids \cup {NoId}, NEW o \in Objs \cup {NoObj}, NEW l \in WorkerPc,
         Begin(w, op, i, o, l)
  PROVE  /\ wpc' \in [Workers -> WorkerPc]
         /\ wop' \in [Workers -> {"none", "GET", "GET legacy", "POST", "DELETE"}]
         /\ wid' \in [Workers -> Ids \cup {NoId}]
         /\ wobj' \in [Workers -> Objs \cup {NoObj}]
  BY DEF Begin, Goto, TypeOK

LEMMA Numbers ==
  ASSUME TypeOK
  PROVE  /\ nextObj \in Nat \ {0} /\ MaxObj \in Nat
         /\ sent \in Nat /\ MaxMsg \in Nat /\ 0 \in 0..MaxMsg
         /\ \A o \in Objs : idle[o] <= IdleLimit => idle[o] + 1 \in 0..(IdleLimit + 1)
<1>1. /\ nextObj \in 1..(MaxObj + 1) /\ sent \in 0..MaxMsg
      /\ idle \in [Objs -> 0..(IdleLimit + 1)]
  BY DEF TypeOK
<1>2. MaxObj \in Nat /\ MaxMsg \in Nat /\ IdleLimit \in Nat
  BY SessionsAssumption
<1>. QED BY <1>1, <1>2

LEMMA HeadTail ==
  ASSUME NEW q \in Seq(Msgs), q # <<>>
  PROVE  /\ Head(q) \in Msgs /\ Head(q) \in 0..MaxMsg /\ Head(q) # 0
         /\ Tail(q) \in Seq(Msgs)
<1>1. Head(q) \in Msgs /\ Tail(q) \in Seq(Msgs)
  OBVIOUS
<1>. QED BY <1>1, SessionsAssumption DEF Msgs

LEMMA TouchType ==
  ASSUME TypeOK, NEW o
  PROVE  [idle EXCEPT ![o] = 0] \in [Objs -> 0..(IdleLimit + 1)]
<1>1. 0 \in 0..(IdleLimit + 1)
  BY SessionsAssumption
<1>. QED BY <1>1 DEF TypeOK

(* A message for the queue of o.                                           *)
LEMMA AppendType ==
  ASSUME TypeOK, sent < MaxMsg, sent' = sent + 1
  PROVE  /\ sent' \in 0..MaxMsg /\ sent + 1 \in Msgs
         /\ \A o \in Objs : Append(queue[o], sent + 1) \in Seq(Msgs)
<1>1. sent \in 0..MaxMsg /\ MaxMsg \in Nat
  BY SessionsAssumption DEF TypeOK
<1>2. sent' \in 0..MaxMsg /\ sent + 1 \in Msgs
  BY <1>1 DEF Msgs
<1>3. \A o \in Objs : queue[o] \in Seq(Msgs)
  BY DEF TypeOK
<1>4. \A o \in Objs : Append(queue[o], sent + 1) \in Seq(Msgs)
  BY <1>2, <1>3
<1>. QED BY <1>2, <1>4

LEMMA SessionsStart == Init => TypeOK
<1> SUFFICES ASSUME Init PROVE TypeOK
  OBVIOUS
<1>1. /\ queue \in [Objs -> Seq(Msgs)] /\ got \in [Workers -> Seq(Msgs)]
      /\ idle \in [Objs -> 0..(IdleLimit + 1)] /\ wmsg \in [Workers -> 0..MaxMsg]
      /\ sent \in 0..MaxMsg /\ nextObj \in 1..(MaxObj + 1)
  BY EmptyMsgs, SessionsAssumption DEF Init
<1>. QED BY <1>1 DEF Init, TypeOK, WorkerPc

LEMMA TypesStep ==
  ASSUME TypeOK, PcInv, Step, raced' \subseteq Ids
  PROVE  TypeOK'
<1> USE DEF TypeOK
<1>1. ASSUME NEW w \in Workers, NEW i \in Ids \cup {NoId},
             NEW op \in {"GET", "GET legacy"}, OpenStream(w, op, i)
      PROVE  TypeOK'
  <2>1. CASE i # NoId /\ sess[i] # NoObj
    <3>1. i \in Ids /\ sess[i] \in Objs /\ Begin(w, op, i, sess[i], "stream")
      BY <1>1, <2>1 DEF OpenStream
    <3>2. /\ idle' \in [Objs -> 0..(IdleLimit + 1)]
          /\ closed' \in [Objs -> BOOLEAN]
          /\ streamable' \in [Objs -> BOOLEAN]
      BY <1>1, <2>1, <3>1, TouchType DEF OpenStream
    <3>3. /\ wpc' \in [Workers -> WorkerPc]
          /\ wop' \in [Workers -> {"none", "GET", "GET legacy", "POST", "DELETE"}]
          /\ wid' \in [Workers -> Ids \cup {NoId}]
          /\ wobj' \in [Workers -> Objs \cup {NoObj}]
      BY <3>1 DEF Begin, Goto, WorkerPc
    <3>. QED BY <1>1, <3>2, <3>3 DEF OpenStream, tableVars
  <2>2. CASE ~(i # NoId /\ sess[i] # NoObj)
    <3>1. Begin(w, op, NoId, NoObj, "reap") /\ UNCHANGED <<idle, closed, streamable>>
      BY <1>1, <2>2 DEF OpenStream
    <3>2. /\ wpc' \in [Workers -> WorkerPc]
          /\ wop' \in [Workers -> {"none", "GET", "GET legacy", "POST", "DELETE"}]
          /\ wid' \in [Workers -> Ids \cup {NoId}]
          /\ wobj' \in [Workers -> Objs \cup {NoObj}]
      BY <3>1 DEF Begin, Goto, WorkerPc
    <3>. QED BY <1>1, <3>1, <3>2 DEF OpenStream, tableVars
  <2>. QED BY <2>1, <2>2
<1>2. ASSUME NEW w \in Workers, NEW i \in Ids \cup {NoId}, PostStreamable(w, i)
      PROVE  TypeOK'
  <2>1. CASE i # NoId /\ sess[i] # NoObj
    BY <1>2, <2>1, TouchType DEF PostStreamable, tableVars
  <2>2. CASE ~(i # NoId /\ sess[i] # NoObj)
    <3>1. /\ Begin(w, "POST", i, NoObj, "reap")
          /\ seen' \subseteq Ids /\ UNCHANGED idle
      BY <1>2, <2>2 DEF PostStreamable
    <3>2. /\ wpc' \in [Workers -> WorkerPc]
          /\ wop' \in [Workers -> {"none", "GET", "GET legacy", "POST", "DELETE"}]
          /\ wid' \in [Workers -> Ids \cup {NoId}]
          /\ wobj' \in [Workers -> Objs \cup {NoObj}]
      BY <3>1 DEF Begin, Goto, WorkerPc
    <3>. QED BY <1>2, <3>1, <3>2 DEF PostStreamable, tableVars
  <2>. QED BY <2>1, <2>2
<1>3. ASSUME NEW w \in Workers, NEW i \in Ids, PostLegacy(w, i)
      PROVE  TypeOK'
  BY <1>3, BeginType, TouchType DEF PostLegacy, WorkerPc, tableVars
<1>4. ASSUME NEW w \in Workers, NEW i \in Ids, DeleteSession(w, i)
      PROVE  TypeOK'
  <2>1. doomed' \in [Threads -> SUBSET Objs]
    BY <1>4 DEF DeleteSession
  <2>. QED BY <1>4, <2>1, WithoutType, BeginType DEF DeleteSession, WorkerPc
<1>5. ASSUME NEW w \in Workers, WorkerStep(w)
      PROVE  TypeOK'
  <2>0. w \in Threads
    BY DEF Threads
  <2>1. CASE Respond(w)
    <3>1. sent' \in 0..MaxMsg /\ queue' \in [Objs -> Seq(Msgs)]
      BY <2>1, AppendType DEF Respond
    <3>. QED BY <2>1, <3>1, FinishType DEF Respond, tableVars
  <2>2. CASE WorkerReaps(w)
    BY <2>0, <2>2, ReapType DEF WorkerReaps, Goto, WorkerPc
  <2>3. CASE WorkerCloses(w)
    BY <2>0, <2>3, CloseType DEF WorkerCloses, Goto, WorkerPc, tableVars
  <2>4. CASE CreateSession(w)
    <3>1. PICK i \in Ids, E \in Evictees :
            /\ Insert(i, E, wop[w] # "GET legacy")
            /\ registered' = (registered \ E) \cup {i}
            /\ wid' = [wid EXCEPT ![w] = IF wop[w] = "POST" THEN NoId ELSE i]
      BY <2>4 DEF CreateSession
    <3>2. /\ nextObj \in Objs /\ registered' \subseteq Ids
          /\ wid' \in [Workers -> Ids \cup {NoId}]
      BY <3>1, InsertType
    <3>3. /\ wpc' \in [Workers -> WorkerPc]
          /\ wop' \in [Workers -> {"none", "GET", "GET legacy", "POST", "DELETE"}]
          /\ wobj' \in [Workers -> Objs \cup {NoObj}]
      <4>1. CASE wop[w] = "POST"
        BY <2>4, <4>1 DEF CreateSession, Goto, WorkerPc
      <4>2. CASE wop[w] # "POST"
        <5>1. /\ wpc' = [wpc EXCEPT ![w] = "stream"] /\ wop' = wop
              /\ wobj' = [wobj EXCEPT ![w] = nextObj]
          BY <2>4, <4>2 DEF CreateSession, Goto
        <5>2. wpc' \in [Workers -> WorkerPc]
          BY <5>1 DEF WorkerPc
        <5>3. wobj' \in [Workers -> Objs \cup {NoObj}]
          BY <5>1, <3>2
        <5>. QED BY <5>1, <5>2, <5>3
      <4>. QED BY <4>1, <4>2
    <3>. QED BY <2>4, <3>1, <3>2, <3>3, InsertType DEF CreateSession
  <2>5. CASE InsertExplicit(w)
    <3>1. PICK E \in Evictees : Insert(wid[w], E, TRUE) /\ registered' = registered \ E
      BY <2>5 DEF InsertExplicit
    <3>2. wid[w] \in Ids
      BY <2>5 DEF InsertExplicit, PcInv
    <3>3. wpc' \in [Workers -> WorkerPc] /\ registered' \subseteq Ids
      BY <2>5, <3>1 DEF InsertExplicit, Goto, WorkerPc
    <3>. QED BY <2>5, <3>1, <3>2, <3>3, InsertType DEF InsertExplicit
  <2>6. CASE RegisterExplicit(w)
    <3>1. registered' \subseteq Ids
      BY <2>6 DEF RegisterExplicit, PcInv
    <3>. QED BY <2>6, <3>1, FinishType DEF RegisterExplicit, objVars
  <2>7. CASE PopMessage(w)
    <3>1. wobj[w] \in Objs
      BY <2>7 DEF PopMessage, PcInv
    <3>2. queue[wobj[w]] \in Seq(Msgs) /\ queue[wobj[w]] # <<>>
      BY <2>7, <3>1 DEF PopMessage
    <3>3. wmsg' \in [Workers -> 0..MaxMsg] /\ queue' \in [Objs -> Seq(Msgs)]
      BY <2>7, <3>2, HeadTail DEF PopMessage
    <3>. QED BY <2>7, <3>3 DEF PopMessage, Goto, WorkerPc, tableVars
  <2>8. CASE WriteMessage(w)
    <3>1. wmsg[w] \in Msgs
      <4>1. wmsg[w] # 0
        BY <2>8 DEF WriteMessage, PcInv
      <4>2. wmsg[w] \in 0..MaxMsg /\ MaxMsg \in Nat
        BY SessionsAssumption
      <4>. HIDE DEF TypeOK
      <4>. QED BY <4>1, <4>2 DEF Msgs
    <3>2. got' \in [Workers -> Seq(Msgs)]
      <4>1. got \in [Workers -> Seq(Msgs)] /\ got[w] \in Seq(Msgs)
        OBVIOUS
      <4>2. Append(got[w], wmsg[w]) \in Seq(Msgs)
        <5>. HIDE DEF TypeOK
        <5>. QED BY <3>1, <4>1
      <4>3. got' = got \/ got' = [got EXCEPT ![w] = Append(@, wmsg[w])]
        BY <2>8 DEF WriteMessage
      <4>. HIDE DEF TypeOK
      <4>. QED BY <4>1, <4>2, <4>3
    <3>3. wmsg' \in [Workers -> 0..MaxMsg]
      BY <2>8, Numbers DEF WriteMessage
    <3>4. wpc' \in [Workers -> WorkerPc]
      BY <2>8 DEF WriteMessage, Goto, WorkerPc
    <3>. QED BY <2>8, <3>2, <3>3, <3>4 DEF WriteMessage, tableVars, objVars
  <2>9. CASE EndStream(w)
    BY <2>9 DEF EndStream, Goto, WorkerPc, tableVars, objVars
  <2>10. CASE Release(w)
    <3>1. /\ idle' \in [Objs -> 0..(IdleLimit + 1)]
          /\ closed' \in [Objs -> BOOLEAN]
      BY <2>10, TouchType DEF Release
    <3>2. CASE wop[w] = "GET legacy"
      BY <2>10, <3>1, <3>2 DEF Release, Goto, WorkerPc, tableVars
    <3>3. CASE wop[w] # "GET legacy"
      BY <2>10, <3>1, <3>3, FinishType DEF Release, tableVars
    <3>. QED BY <3>2, <3>3
  <2>11. CASE EraseReleased(w)
    BY <2>11, FinishType, WithoutType DEF EraseReleased
  <2>12. CASE TerminateSession(w)
    BY <2>0, <2>12, FinishType, CloseType DEF TerminateSession
  <2>. QED BY <1>5, <2>1, <2>2, <2>3, <2>4, <2>5, <2>6, <2>7, <2>8, <2>9, <2>10,
              <2>11, <2>12 DEF WorkerStep
<1>6. ASSUME NEW w \in Workers, ClientLeaves(w)
      PROVE  TypeOK'
  BY <1>6 DEF ClientLeaves, Goto, WorkerPc, tableVars, objVars
<1>7. CASE NotifierReaps
  BY <1>7, ReapType DEF NotifierReaps, workerVars, Threads
<1>8. CASE NotifierCloses
  BY <1>8, CloseType DEF NotifierCloses, workerVars, tableVars, Threads
<1>9. CASE Broadcast
  <2>1. sent' \in 0..MaxMsg /\ queue' \in [Objs -> Seq(Msgs)]
    BY <1>9, AppendType DEF Broadcast
  <2>. QED BY <1>9, <2>1 DEF Broadcast, tableVars, workerVars
<1>10. CASE StopSessions
  BY <1>10, WithoutType DEF StopSessions, workerVars
<1>11. CASE StopServer
  BY <1>11 DEF StopServer, tableVars, objVars, workerVars
<1>12. CASE Tick
  <2>1. idle' \in [Objs -> 0..(IdleLimit + 1)]
    BY <1>12, Numbers DEF Tick
  <2>. QED BY <1>12, <2>1 DEF Tick, tableVars, workerVars
<1>13. ASSUME NEW w \in Workers, Request(w)
       PROVE  TypeOK'
  <2>. HIDE DEF TypeOK
  <2>. QED BY <1>1, <1>2, <1>3, <1>4, <1>13 DEF Request
<1>. HIDE DEF TypeOK
<1>. QED BY <1>5, <1>6, <1>7, <1>8, <1>9, <1>10, <1>11, <1>12, <1>13 DEF Step

LEMMA PcStep ==
  ASSUME TypeOK, PcInv, Step
  PROVE  PcInv'
<1>0. /\ wpc \in [Workers -> WorkerPc]
      /\ wop \in [Workers -> {"none", "GET", "GET legacy", "POST", "DELETE"}]
      /\ wid \in [Workers -> Ids \cup {NoId}]
      /\ wobj \in [Workers -> Objs \cup {NoObj}]
      /\ wmsg \in [Workers -> 0..MaxMsg]
      /\ got \in [Workers -> Seq(Msgs)]
  BY DEF TypeOK
<1> USE <1>0 DEF PcInv, Goto
<1>1. ASSUME NEW w \in Workers, NEW i \in Ids \cup {NoId},
             NEW op \in {"GET", "GET legacy"}, OpenStream(w, op, i)
      PROVE  PcInv'
  <2>1. CASE i # NoId /\ sess[i] # NoObj
    BY <1>1, <2>1 DEF OpenStream, Begin
  <2>2. CASE ~(i # NoId /\ sess[i] # NoObj)
    BY <1>1, <2>2 DEF OpenStream, Begin
  <2>. QED BY <2>1, <2>2
<1>2. ASSUME NEW w \in Workers, NEW i \in Ids \cup {NoId}, PostStreamable(w, i)
      PROVE  PcInv'
  BY <1>2 DEF PostStreamable, Begin
<1>3. ASSUME NEW w \in Workers, NEW i \in Ids, PostLegacy(w, i)
      PROVE  PcInv'
  BY <1>3 DEF PostLegacy, Begin
<1>4. ASSUME NEW w \in Workers, NEW i \in Ids, DeleteSession(w, i)
      PROVE  PcInv'
  BY <1>4 DEF DeleteSession, Begin
<1>5. ASSUME NEW w \in Workers, WorkerStep(w)
      PROVE  PcInv'
  <2>1. CASE Respond(w)
    BY <2>1 DEF Respond, Finish
  <2>2. CASE WorkerReaps(w)
    BY <2>2 DEF WorkerReaps
  <2>3. CASE WorkerCloses(w)
    BY <2>3 DEF WorkerCloses
  <2>4. CASE CreateSession(w)
    <3>1. PICK i \in Ids, E \in Evictees :
            /\ Insert(i, E, wop[w] # "GET legacy")
            /\ wid' = [wid EXCEPT ![w] = IF wop[w] = "POST" THEN NoId ELSE i]
      BY <2>4 DEF CreateSession
    <3>2. nextObj # 0
      BY Numbers
    <3>3. CASE wop[w] = "POST"
      BY <2>4, <3>1, <3>3 DEF CreateSession
    <3>4. CASE wop[w] # "POST"
      <4>1. /\ wpc' = [wpc EXCEPT ![w] = "stream"] /\ UNCHANGED <<wmsg, got>>
            /\ wobj' = [wobj EXCEPT ![w] = nextObj]
            /\ wid' = [wid EXCEPT ![w] = i]
            /\ wpc[w] = "create"
        BY <2>4, <3>1, <3>4 DEF CreateSession
      <4>2. PcInv
        OBVIOUS
      <4>3. /\ wpc'[w] = "stream" /\ wobj'[w] = nextObj /\ wid'[w] = i
            /\ wmsg'[w] = 0 /\ got'[w] = got[w]
        BY <4>1
      <4>4. \A x \in Workers \ {w} :
              /\ wpc'[x] = wpc[x] /\ wobj'[x] = wobj[x] /\ wid'[x] = wid[x]
              /\ wmsg'[x] = wmsg[x] /\ got'[x] = got[x]
        BY <4>1
      <4>. QED BY <3>2, <4>2, <4>3, <4>4
    <3>. QED BY <3>3, <3>4
  <2>5. CASE InsertExplicit(w)
    BY <2>5 DEF InsertExplicit
  <2>6. CASE RegisterExplicit(w)
    BY <2>6 DEF RegisterExplicit, Finish
  <2>7. CASE PopMessage(w)
    <3>1. wobj[w] \in Objs /\ queue[wobj[w]] \in Seq(Msgs)
      BY <2>7 DEF PopMessage, TypeOK
    <3>2. Head(queue[wobj[w]]) # 0
      BY <2>7, <3>1, HeadTail DEF PopMessage
    <3>. QED BY <2>7, <3>2 DEF PopMessage
  <2>8. CASE WriteMessage(w)
    BY <2>8 DEF WriteMessage
  <2>9. CASE EndStream(w)
    BY <2>9 DEF EndStream
  <2>10. CASE Release(w)
    <3>1. CASE wop[w] = "GET legacy"
      BY <2>10, <3>1 DEF Release
    <3>2. CASE wop[w] # "GET legacy"
      <4>1. Finish(w)
        BY <2>10, <3>2 DEF Release
      <4>. QED BY <4>1 DEF Finish
    <3>. QED BY <3>1, <3>2
  <2>11. CASE EraseReleased(w)
    BY <2>11 DEF EraseReleased, Finish
  <2>12. CASE TerminateSession(w)
    BY <2>12 DEF TerminateSession, Finish
  <2>. QED BY <1>5, <2>1, <2>2, <2>3, <2>4, <2>5, <2>6, <2>7, <2>8, <2>9, <2>10,
              <2>11, <2>12 DEF WorkerStep
<1>6. ASSUME NEW w \in Workers, ClientLeaves(w)
      PROVE  PcInv'
  BY <1>6 DEF ClientLeaves
<1>7. CASE UNCHANGED workerVars
  BY <1>7 DEF workerVars
<1>. QED BY <1>1, <1>2, <1>3, <1>4, <1>5, <1>6, <1>7
         DEF Step, Request, NotifierReaps, NotifierCloses, Broadcast, StopSessions,
             StopServer, Tick

-----------------------------------------------------------------------------
(* The objects: each is in the table at most once and, while a worker      *)
(* holds it, under the id of that worker's request; what a thread has      *)
(* erased and not yet closed does not come back; the numbers not given out *)
(* yet are fresh.                                                          *)
ObjInv ==
  /\ \A i \in Ids : sess[i] < nextObj
  /\ \A i, j \in Ids : sess[i] # NoObj /\ sess[i] = sess[j] => i = j
  /\ \A w \in Workers : wobj[w] < nextObj
  /\ \A w \in Workers, i \in Ids : wobj[w] # NoObj /\ sess[i] = wobj[w] => wid[w] = i
  /\ \A t \in Threads, i \in Ids : sess[i] \notin doomed[t]
  /\ \A t \in Threads : \A o \in doomed[t] : o < nextObj
  /\ \A o \in Objs : closed[o] => o < nextObj

(* What a step does to the table when it makes no session.                 *)
Shrinks == \A i \in Ids : sess'[i] \in {sess[i], NoObj}

LEMMA InsertShape ==
  ASSUME TypeOK, NEW i \in Ids, NEW E \in Evictees, NEW kind, Insert(i, E, kind)
  PROVE  /\ E \subseteq Ids
         /\ nextObj \in Objs /\ nextObj' = nextObj + 1
         /\ sess'[i] = nextObj
         /\ \A j \in Ids : j # i => sess'[j] = IF j \in E THEN NoObj ELSE sess[j]
         /\ \A o \in Objs : closed'[o] = (closed[o] \/ o \in {sess[e] : e \in E})
<1>1. E \subseteq Ids
  BY EvicteesType DEF Used
<1>2. nextObj \in Objs /\ nextObj' = nextObj + 1
  BY Numbers DEF Insert
<1>3. /\ Without(E) \in [Ids -> Objs \cup {NoObj}]
      /\ \A j \in Ids : Without(E)[j] = IF j \in E THEN NoObj ELSE sess[j]
  BY WithoutType
<1>4. sess' = [Without(E) EXCEPT ![i] = nextObj]
  BY DEF Insert
<1>5. \A o \in Objs : closed'[o] = (closed[o] \/ o \in {sess[e] : e \in E})
  BY DEF Insert
<1>. QED BY <1>1, <1>2, <1>3, <1>4, <1>5

(* A session is made: every object held so far has a smaller number.       *)
LEMMA ObjInsert ==
  ASSUME TypeOK, ObjInv, NEW i \in Ids, NEW E \in Evictees, NEW kind,
         Insert(i, E, kind), UNCHANGED doomed, NEW w \in Workers,
         \/ wid' = wid /\ wobj' = wobj
         \/ /\ wobj[w] = NoObj
            /\ \/ wobj' = wobj
               \/ wobj' = [wobj EXCEPT ![w] = nextObj] /\ wid'[w] = i
            /\ \A x \in Workers \ {w} : wid'[x] = wid[x]
  PROVE  ObjInv'
<1>1. /\ sess \in [Ids -> Objs \cup {NoObj}] /\ wobj \in [Workers -> Objs \cup {NoObj}]
      /\ doomed \in [Threads -> SUBSET Objs] /\ closed \in [Objs -> BOOLEAN]
      /\ nextObj \in Nat /\ MaxObj \in Nat
  BY Numbers DEF TypeOK
<1>2. /\ E \subseteq Ids
      /\ nextObj \in Objs /\ nextObj' = nextObj + 1
      /\ sess'[i] = nextObj
      /\ \A j \in Ids : j # i => sess'[j] = IF j \in E THEN NoObj ELSE sess[j]
      /\ \A o \in Objs : closed'[o] = (closed[o] \/ o \in {sess[e] : e \in E})
  BY InsertShape
<1>3. \A x \in Workers : wobj'[x] = wobj[x] \/ (x = w /\ wobj'[x] = nextObj /\ wid'[x] = i)
  BY <1>1
<1>4. \A x \in Workers : wobj'[x] = wobj[x] /\ wobj[x] # NoObj => wid'[x] = wid[x]
  BY <1>1
<1>5. \A j \in Ids : sess[j] \in Nat /\ sess[j] < nextObj
  BY <1>1 DEF ObjInv
<1>6. \A x \in Workers : wobj[x] \in Nat /\ wobj[x] < nextObj
  BY <1>1 DEF ObjInv
<1>7. \A j \in Ids : sess'[j] < nextObj'
  BY <1>1, <1>2, <1>5
<1>8. \A j, k \in Ids : sess'[j] # NoObj /\ sess'[j] = sess'[k] => j = k
  BY <1>1, <1>2, <1>5 DEF ObjInv
<1>9. \A x \in Workers : wobj'[x] < nextObj'
  BY <1>1, <1>2, <1>3, <1>6
<1>10. \A x \in Workers, j \in Ids :
         wobj'[x] # NoObj /\ sess'[j] = wobj'[x] => wid'[x] = j
  <2> SUFFICES ASSUME NEW x \in Workers, NEW j \in Ids,
                      wobj'[x] # NoObj, sess'[j] = wobj'[x]
               PROVE  wid'[x] = j
    OBVIOUS
  <2>1. CASE wobj'[x] = wobj[x]
    <3>1. j # i
      BY <1>2, <1>6, <2>1
    <3>2. sess[j] = wobj[x]
      BY <1>2, <2>1, <3>1
    <3>. QED BY <1>4, <2>1, <3>2 DEF ObjInv
  <2>2. CASE wobj'[x] = nextObj /\ wid'[x] = i
    BY <1>2, <1>5, <2>2
  <2>. QED BY <1>3, <2>1, <2>2
<1>11. \A t \in Threads, j \in Ids : sess'[j] \notin doomed'[t]
  <2>1. \A t \in Threads : nextObj \notin doomed[t] /\ NoObj \notin doomed[t]
    BY <1>1 DEF ObjInv
  <2>. QED BY <1>2, <2>1 DEF ObjInv
<1>12. \A t \in Threads : \A o \in doomed'[t] : o < nextObj'
  <2>1. \A t \in Threads : \A o \in doomed[t] : o \in Nat /\ o < nextObj
    BY <1>1 DEF ObjInv
  <2>. QED BY <1>1, <1>2, <2>1
<1>13. \A o \in Objs : closed'[o] => o < nextObj'
  <2>1. \A o \in Objs : closed[o] => o < nextObj
    BY DEF ObjInv
  <2>2. \A o \in Objs : closed'[o] => o < nextObj
    BY <1>2, <1>5, <2>1
  <2>. QED BY <1>1, <1>2, <2>2
<1>. QED BY <1>7, <1>8, <1>9, <1>10, <1>11, <1>12, <1>13 DEF ObjInv

(* No session is made: what each worker holds it keeps under the same id,  *)
(* lets go, or finds in the table; doomed objects leave it.                *)
LEMMA ObjKeep ==
  ASSUME TypeOK, ObjInv, Shrinks, UNCHANGED nextObj,
         \A x \in Workers : \/ wobj'[x] = NoObj
                            \/ wobj'[x] = wobj[x] /\ wid'[x] = wid[x]
                            \/ \E i \in Ids : sess[i] = wobj'[x] /\ wid'[x] = i,
         \A t \in Threads : \A o \in doomed'[t] :
           \/ o \in doomed[t]
           \/ \E i \in Ids : o = sess[i] /\ sess'[i] = NoObj /\ sess[i] # NoObj,
         \A o \in Objs : closed'[o] => \/ closed[o]
                                       \/ \E i \in Ids : o = sess[i]
                                       \/ \E x \in Workers : o = wobj[x]
                                       \/ \E t \in Threads : o \in doomed[t]
  PROVE  ObjInv'
<1>1. /\ sess \in [Ids -> Objs \cup {NoObj}] /\ nextObj \in Nat \ {0} /\ MaxObj \in Nat
      /\ doomed \in [Threads -> SUBSET Objs]
  BY Numbers DEF TypeOK
<1>2. \A i \in Ids : sess'[i] < nextObj'
  BY <1>1 DEF Shrinks, ObjInv
<1>3. \A i, j \in Ids : sess'[i] # NoObj /\ sess'[i] = sess'[j] => i = j
  BY DEF Shrinks, ObjInv
<1>4. \A x \in Workers : wobj'[x] < nextObj'
  BY <1>1 DEF ObjInv
<1>5. \A x \in Workers, i \in Ids : wobj'[x] # NoObj /\ sess'[i] = wobj'[x] => wid'[x] = i
  BY DEF Shrinks, ObjInv
<1>6. \A t \in Threads, i \in Ids : sess'[i] \notin doomed'[t]
  <2> SUFFICES ASSUME NEW t \in Threads, NEW i \in Ids, sess'[i] \in doomed'[t]
               PROVE  FALSE
    OBVIOUS
  <2>1. CASE sess'[i] \in doomed[t]
    <3>1. sess'[i] # NoObj
      BY <1>1, <2>1
    <3>. QED BY <2>1, <3>1 DEF Shrinks, ObjInv
  <2>2. CASE sess'[i] \notin doomed[t]
    <3>1. PICK j \in Ids : sess'[i] = sess[j] /\ sess'[j] = NoObj /\ sess[j] # NoObj
      BY <2>2
    <3>. QED BY <3>1 DEF Shrinks, ObjInv
  <2>. QED BY <2>1, <2>2
<1>7. \A t \in Threads : \A o \in doomed'[t] : o < nextObj'
  BY <1>1 DEF ObjInv
<1>8. \A o \in Objs : closed'[o] => o < nextObj'
  BY DEF ObjInv
<1>. QED BY <1>2, <1>3, <1>4, <1>5, <1>6, <1>7, <1>8 DEF ObjInv

LEMMA ReapShape ==
  ASSUME TypeOK, NEW t \in Threads, Reap(t)
  PROVE  /\ \A i \in Ids : sess'[i] = IF Reapable(i) THEN NoObj ELSE sess[i]
         /\ \A u \in Threads : \A o \in doomed'[u] :
              \/ o \in doomed[u]
              \/ \E i \in Ids : o = sess[i] /\ sess'[i] = NoObj /\ sess[i] # NoObj
<1>1. \A i \in Ids : sess'[i] = IF Reapable(i) THEN NoObj ELSE sess[i]
  BY WithoutType DEF Reap
<1>2. doomed \in [Threads -> SUBSET Objs]
  BY DEF TypeOK
<1>3. doomed' = [doomed EXCEPT ![t] = {sess[i] : i \in {j \in Ids : Reapable(j)}}]
  BY DEF Reap
<1>4. \A i \in Ids : Reapable(i) => sess[i] # NoObj
  BY DEF Reapable
<1>. QED BY <1>1, <1>2, <1>3, <1>4

LEMMA CloseShape ==
  ASSUME TypeOK, NEW t \in Threads, CloseDoomed(t)
  PROVE  /\ \A u \in Threads : doomed'[u] \subseteq doomed[u]
         /\ \A o \in Objs : closed'[o] = (closed[o] \/ o \in doomed[t])
  BY DEF CloseDoomed, TypeOK

LEMMA FinishShape ==
  ASSUME TypeOK, NEW w \in Workers, Finish(w)
  PROVE  /\ wobj'[w] = NoObj /\ got'[w] = <<>> /\ wmsg'[w] = 0 /\ wpc'[w] = "free"
         /\ \A x \in Workers \ {w} : /\ wobj'[x] = wobj[x] /\ wid'[x] = wid[x]
                                     /\ got'[x] = got[x] /\ wmsg'[x] = wmsg[x]
                                     /\ wpc'[x] = wpc[x]
  BY DEF Finish, Goto, TypeOK

LEMMA BeginShape ==
  ASSUME TypeOK, NEW w \in Workers, NEW op, NEW i, NEW o, NEW l, Begin(w, op, i, o, l)
  PROVE  /\ wpc[w] = "free" /\ wpc'[w] = l
         /\ wobj'[w] = o /\ wid'[w] = i
         /\ \A x \in Workers \ {w} : /\ wobj'[x] = wobj[x] /\ wid'[x] = wid[x]
                                     /\ wpc'[x] = wpc[x]
  BY DEF Begin, Goto, TypeOK

LEMMA ObjStep ==
  ASSUME TypeOK, PcInv, ObjInv, Step
  PROVE  ObjInv'
<1>0. /\ sess \in [Ids -> Objs \cup {NoObj}]
      /\ wobj \in [Workers -> Objs \cup {NoObj}]
      /\ closed \in [Objs -> BOOLEAN]
      /\ doomed \in [Threads -> SUBSET Objs]
      /\ wid \in [Workers -> Ids \cup {NoId}]
  BY DEF TypeOK
<1>1. ASSUME NEW w \in Workers, NEW i \in Ids \cup {NoId},
             NEW op \in {"GET", "GET legacy"}, OpenStream(w, op, i)
      PROVE  ObjInv'
  <2>1. UNCHANGED <<sess, nextObj, doomed>> /\ Shrinks
    BY <1>1 DEF OpenStream, tableVars, Shrinks
  <2>2. CASE i # NoId /\ sess[i] # NoObj
    <3>1. i \in Ids /\ Begin(w, op, i, sess[i], "stream")
      BY <1>1, <2>2 DEF OpenStream
    <3>2. closed' = [closed EXCEPT ![sess[i]] = FALSE]
      BY <1>1, <2>2 DEF OpenStream
    <3>3. \A o \in Objs : closed'[o] => closed[o]
      BY <1>0, <3>2
    <3>4. \A x \in Workers : \/ wobj'[x] = NoObj
                             \/ wobj'[x] = wobj[x] /\ wid'[x] = wid[x]
                             \/ \E j \in Ids : sess[j] = wobj'[x] /\ wid'[x] = j
      BY <1>0, <3>1 DEF Begin
    <3>. QED BY <2>1, <3>3, <3>4, ObjKeep
  <2>3. CASE ~(i # NoId /\ sess[i] # NoObj)
    <3>1. Begin(w, op, NoId, NoObj, "reap") /\ UNCHANGED closed
      BY <1>1, <2>3 DEF OpenStream
    <3>2. \A x \in Workers : \/ wobj'[x] = NoObj
                             \/ wobj'[x] = wobj[x] /\ wid'[x] = wid[x]
                             \/ \E j \in Ids : sess[j] = wobj'[x] /\ wid'[x] = j
      BY <1>0, <3>1 DEF Begin
    <3>. QED BY <2>1, <3>1, <3>2, ObjKeep
  <2>. QED BY <2>2, <2>3
<1>2. ASSUME NEW w \in Workers, NEW i \in Ids \cup {NoId}, PostStreamable(w, i)
      PROVE  ObjInv'
  <2>1. UNCHANGED <<sess, nextObj, doomed, closed>> /\ Shrinks
    BY <1>2 DEF PostStreamable, tableVars, Shrinks
  <2>2. CASE i # NoId /\ sess[i] # NoObj
    <3>1. UNCHANGED <<wid, wobj>>
      BY <1>2, <2>2 DEF PostStreamable
    <3>. QED BY <2>1, <3>1, ObjKeep
  <2>3. CASE ~(i # NoId /\ sess[i] # NoObj)
    <3>1. Begin(w, "POST", i, NoObj, "reap")
      BY <1>2, <2>3 DEF PostStreamable
    <3>. QED BY <2>1, <3>1, BeginShape, ObjKeep
  <2>. QED BY <2>2, <2>3
<1>3. ASSUME NEW w \in Workers, NEW i \in Ids, PostLegacy(w, i)
      PROVE  ObjInv'
  <2>1. /\ UNCHANGED <<sess, nextObj, doomed, closed>> /\ Shrinks
        /\ Begin(w, "POST", i, sess[i], "respond")
    BY <1>3 DEF PostLegacy, tableVars, Shrinks
  <2>. QED BY <2>1, BeginShape, ObjKeep
<1>4. ASSUME NEW w \in Workers, NEW i \in Ids, DeleteSession(w, i)
      PROVE  ObjInv'
  <2>1. /\ UNCHANGED <<nextObj, closed>> /\ sess[i] # NoObj
        /\ Begin(w, "DELETE", i, NoObj, "terminate")
        /\ sess' = Without({i})
        /\ doomed' = [doomed EXCEPT ![w] = {sess[i]}]
    BY <1>4 DEF DeleteSession
  <2>2. \A j \in Ids : sess'[j] = IF j \in {i} THEN NoObj ELSE sess[j]
    BY <2>1, WithoutType
  <2>3. Shrinks
    BY <2>2 DEF Shrinks
  <2>4. \A t \in Threads : \A o \in doomed'[t] :
          \/ o \in doomed[t]
          \/ \E j \in Ids : o = sess[j] /\ sess'[j] = NoObj /\ sess[j] # NoObj
    BY <1>0, <2>1, <2>2
  <2>5. \A x \in Workers : \/ wobj'[x] = NoObj
                           \/ wobj'[x] = wobj[x] /\ wid'[x] = wid[x]
                           \/ \E j \in Ids : sess[j] = wobj'[x] /\ wid'[x] = j
    BY <1>0, <2>1 DEF Begin
  <2>. QED BY <2>1, <2>3, <2>4, <2>5, ObjKeep
<1>5. ASSUME NEW w \in Workers, WorkerStep(w)
      PROVE  ObjInv'
  <2>0. w \in Threads
    BY DEF Threads
  <2>1. CASE Respond(w)
    BY <2>1, FinishShape, ObjKeep DEF Respond, tableVars, Shrinks
  <2>2. CASE WorkerReaps(w)
    <3>1. Shrinks
      BY <2>0, <2>2, ReapShape DEF WorkerReaps, Shrinks
    <3>. QED BY <2>0, <2>2, <3>1, ReapShape, ObjKeep DEF WorkerReaps
  <2>3. CASE WorkerCloses(w)
    BY <2>0, <2>3, CloseShape, ObjKeep DEF WorkerCloses, tableVars, Shrinks
  <2>4. CASE CreateSession(w)
    <3>1. PICK i \in Ids, E \in Evictees :
            /\ Insert(i, E, wop[w] # "GET legacy")
            /\ wid' = [wid EXCEPT ![w] = IF wop[w] = "POST" THEN NoId ELSE i]
      BY <2>4 DEF CreateSession
    <3>2. /\ wobj[w] = NoObj /\ wid \in [Workers -> Ids \cup {NoId}]
          /\ UNCHANGED doomed
      BY <2>4 DEF CreateSession, PcInv, TypeOK
    <3>3. wobj' = wobj \/ (wobj' = [wobj EXCEPT ![w] = nextObj] /\ wid'[w] = i)
      BY <2>4, <3>1, <3>2 DEF CreateSession
    <3>. QED BY <3>1, <3>2, <3>3, ObjInsert
  <2>5. CASE InsertExplicit(w)
    <3>1. PICK E \in Evictees : Insert(wid[w], E, TRUE)
      BY <2>5 DEF InsertExplicit
    <3>2. wid[w] \in Ids
      BY <2>5 DEF InsertExplicit, PcInv
    <3>. QED BY <2>5, <3>1, <3>2, ObjInsert DEF InsertExplicit
  <2>6. CASE RegisterExplicit(w)
    BY <2>6, FinishShape, ObjKeep DEF RegisterExplicit, objVars, Shrinks
  <2>7. CASE PopMessage(w)
    BY <2>7, ObjKeep DEF PopMessage, tableVars, Shrinks
  <2>8. CASE WriteMessage(w)
    BY <2>8, ObjKeep DEF WriteMessage, tableVars, objVars, Shrinks
  <2>9. CASE EndStream(w)
    BY <2>9, ObjKeep DEF EndStream, tableVars, objVars, Shrinks
  <2>10. CASE Release(w)
    <3>1. UNCHANGED <<sess, nextObj, doomed>> /\ Shrinks
      BY <2>10 DEF Release, tableVars, Shrinks
    <3>2. closed' = closed \/ closed' = [closed EXCEPT ![wobj[w]] = TRUE]
      BY <2>10 DEF Release
    <3>3. \A o \in Objs : closed'[o] => closed[o] \/ o = wobj[w]
      BY <1>0, <3>2
    <3>4. \A x \in Workers : wobj'[x] = NoObj \/ (wobj'[x] = wobj[x] /\ wid'[x] = wid[x])
      BY <2>10, FinishShape DEF Release
    <3>. QED BY <3>1, <3>3, <3>4, ObjKeep
  <2>11. CASE EraseReleased(w)
    <3>1. Shrinks
      BY <2>11, WithoutType DEF EraseReleased, Shrinks
    <3>. QED BY <2>11, <3>1, FinishShape, ObjKeep DEF EraseReleased
  <2>12. CASE TerminateSession(w)
    BY <2>0, <2>12, FinishShape, CloseShape, ObjKeep DEF TerminateSession, Shrinks
  <2>. QED BY <1>5, <2>1, <2>2, <2>3, <2>4, <2>5, <2>6, <2>7, <2>8, <2>9, <2>10,
              <2>11, <2>12 DEF WorkerStep
<1>6. ASSUME NEW w \in Workers, ClientLeaves(w)
      PROVE  ObjInv'
  BY <1>6, ObjKeep DEF ClientLeaves, tableVars, objVars, Shrinks
<1>7. CASE NotifierReaps
  <2>1. Shrinks /\ Notifier \in Threads
    BY <1>7, ReapShape DEF NotifierReaps, Shrinks, Threads
  <2>. QED BY <1>7, <2>1, ReapShape, ObjKeep DEF NotifierReaps, workerVars
<1>8. CASE NotifierCloses
  <2>1. Notifier \in Threads
    BY DEF Threads
  <2>. QED BY <1>8, <2>1, CloseShape, ObjKeep
           DEF NotifierCloses, workerVars, tableVars, Shrinks
<1>9. CASE Broadcast
  BY <1>9, ObjKeep DEF Broadcast, workerVars, tableVars, Shrinks
<1>10. CASE StopSessions
  <2>1. Shrinks
    BY <1>10, WithoutType DEF StopSessions, Shrinks
  <2>2. \A o \in Objs : closed'[o] => closed[o] \/ \E i \in Ids : o = sess[i]
    BY <1>10 DEF StopSessions, Held, Used
  <2>. QED BY <1>10, <2>1, <2>2, ObjKeep DEF StopSessions, workerVars
<1>11. CASE StopServer
  BY <1>11, ObjKeep DEF StopServer, workerVars, tableVars, objVars, Shrinks
<1>12. CASE Tick
  BY <1>12, ObjKeep DEF Tick, workerVars, tableVars, Shrinks
<1>13. ASSUME NEW w \in Workers, Request(w)
       PROVE  ObjInv'
  BY <1>1, <1>2, <1>3, <1>4, <1>13 DEF Request
<1>. QED BY <1>5, <1>6, <1>7, <1>8, <1>9, <1>10, <1>11, <1>12, <1>13 DEF Step

-----------------------------------------------------------------------------
(* The limit: whoever makes a session has evicted one if there was no room.*)

RoomInv == IsFiniteSet(Used) /\ SessionLimit

LEMMA TableSteps ==
  ASSUME TypeOK, PcInv, Step
  PROVE  Shrinks \/ \E i \in Ids, E \in Evictees, kind \in BOOLEAN : Insert(i, E, kind)
<1>1. ASSUME UNCHANGED sess PROVE Shrinks
  BY <1>1 DEF Shrinks
<1>2. ASSUME NEW S, sess' = Without(S) PROVE Shrinks
  BY <1>2, WithoutType DEF Shrinks
<1>3. ASSUME NEW w \in Workers, Request(w) PROVE Shrinks
  <2>1. CASE \E i \in Ids : DeleteSession(w, i)
    BY <1>2, <2>1 DEF DeleteSession
  <2>2. CASE UNCHANGED sess
    BY <1>1, <2>2
  <2>. QED BY <1>3, <2>1, <2>2
           DEF Request, OpenStream, PostStreamable, PostLegacy, tableVars
<1>4. ASSUME NEW w \in Workers, WorkerStep(w)
      PROVE  Shrinks \/ \E i \in Ids, E \in Evictees, kind \in BOOLEAN : Insert(i, E, kind)
  <2>1. CASE CreateSession(w)
    BY <2>1 DEF CreateSession
  <2>2. CASE InsertExplicit(w)
    <3>1. wid[w] \in Ids /\ \E E \in Evictees : Insert(wid[w], E, TRUE)
      BY <2>2 DEF InsertExplicit, PcInv
    <3>. QED BY <3>1
  <2>3. CASE WorkerReaps(w) \/ EraseReleased(w)
    BY <1>2, <2>3 DEF WorkerReaps, Reap, EraseReleased
  <2>4. CASE UNCHANGED sess
    BY <1>1, <2>4
  <2>. QED BY <1>4, <2>1, <2>2, <2>3, <2>4
           DEF WorkerStep, Respond, WorkerCloses, RegisterExplicit, PopMessage,
               WriteMessage, EndStream, Release, TerminateSession, tableVars
<1>5. CASE NotifierReaps \/ StopSessions
  BY <1>2, <1>5 DEF NotifierReaps, Reap, StopSessions
<1>6. CASE NotifierCloses \/ Broadcast \/ StopServer \/ Tick
  BY <1>1, <1>6 DEF NotifierCloses, Broadcast, StopServer, Tick, tableVars
<1>7. ASSUME NEW w \in Workers, ClientLeaves(w) PROVE Shrinks
  BY <1>1, <1>7 DEF ClientLeaves, tableVars
<1>. QED BY <1>3, <1>4, <1>5, <1>6, <1>7 DEF Step

LEMMA RoomStep ==
  ASSUME TypeOK, PcInv, RoomInv, Step
  PROVE  RoomInv'
<1>0. IsFiniteSet(Used) /\ Cardinality(Used) \in Nat /\ Cardinality(Used) <= MaxSessions
  BY FS_CardinalityType DEF RoomInv, SessionLimit
<1>1. CASE Shrinks
  <2>1. Used' \subseteq Used
    BY <1>1 DEF Shrinks, Used
  <2>2. /\ IsFiniteSet(Used') /\ Cardinality(Used') <= Cardinality(Used)
        /\ Cardinality(Used') \in Nat
    BY <1>0, <2>1, FS_Subset, FS_CardinalityType
  <2>. QED BY <1>0, <2>2, SessionsAssumption DEF RoomInv, SessionLimit
<1>2. ASSUME NEW i \in Ids, NEW E \in Evictees, NEW kind \in BOOLEAN, Insert(i, E, kind)
      PROVE  RoomInv'
  <2>1. Used' \subseteq (Used \ E) \cup {i}
    BY <1>2, InsertShape DEF Used
  <2>2. IsFiniteSet(Used \ E) /\ Cardinality(Used \ E) \in Nat
        /\ Cardinality(Used \ E) + 1 <= MaxSessions
    <3>1. CASE Cardinality(Used) < MaxSessions
      <4>1. Used \ E = Used
        BY <3>1, EvicteesType
      <4>. QED BY <1>0, <3>1, <4>1, SessionsAssumption
    <3>2. CASE ~(Cardinality(Used) < MaxSessions)
      <4>1. PICK e \in Used : E = {e}
        BY <3>2, EvicteesType
      <4>2. /\ IsFiniteSet(Used \ {e})
            /\ Cardinality(Used \ {e}) = Cardinality(Used) - 1
        BY <1>0, <4>1, FS_RemoveElement
      <4>3. Cardinality(Used \ {e}) \in Nat
        BY <4>2, FS_CardinalityType
      <4>. QED BY <1>0, <4>1, <4>2, <4>3, SessionsAssumption
    <3>. QED BY <3>1, <3>2
  <2>3. /\ IsFiniteSet((Used \ E) \cup {i})
        /\ Cardinality((Used \ E) \cup {i}) <= Cardinality(Used \ E) + 1
        /\ Cardinality((Used \ E) \cup {i}) \in Nat
    <3>. DEFINE T == Used \ E
    <3>. HIDE DEF T
    <3>1. IsFiniteSet(T) /\ Cardinality(T) \in Nat
      BY <2>2 DEF T
    <3>2. /\ IsFiniteSet(T \cup {i})
          /\ \/ Cardinality(T \cup {i}) = Cardinality(T)
             \/ Cardinality(T \cup {i}) = Cardinality(T) + 1
      BY <3>1, FS_AddElement
    <3>3. /\ IsFiniteSet(T \cup {i})
          /\ Cardinality(T \cup {i}) <= Cardinality(T) + 1
          /\ Cardinality(T \cup {i}) \in Nat
      BY <3>1, <3>2
    <3>. QED BY <3>3 DEF T
  <2>4. /\ IsFiniteSet(Used') /\ Cardinality(Used') \in Nat
        /\ Cardinality(Used') <= Cardinality((Used \ E) \cup {i})
    BY <2>1, <2>3, FS_Subset, FS_CardinalityType
  <2>. QED BY <2>2, <2>3, <2>4, SessionsAssumption DEF RoomInv, SessionLimit
<1>. QED BY <1>1, <1>2, TableSteps

-----------------------------------------------------------------------------
(* Closed sessions.                                                        *)

(* A step that closes only what is not in the table, or is being erased    *)
(* from it, and stops no worker that erases.                               *)
LEMMA ClosedKeep ==
  ASSUME TypeOK, ClosedSessionsLeave, Shrinks,
         \A x \in Workers : wpc[x] = "erase" =>
           \/ wpc'[x] = "erase" /\ wobj'[x] = wobj[x] /\ wid'[x] = wid[x]
           \/ wid[x] \in Ids => sess'[wid[x]] = NoObj,
         \A o \in Objs : closed'[o] =>
           \/ closed[o]
           \/ \A i \in Ids : sess'[i] # o
           \/ \A i \in Ids : sess[i] = o => \E x \in Workers :
                wpc'[x] = "erase" /\ wobj'[x] = o /\ wid'[x] = i
  PROVE  ClosedSessionsLeave'
<1> SUFFICES ASSUME NEW i \in Ids, sess'[i] # NoObj, closed'[sess'[i]]
             PROVE  \E x \in Workers :
                      wpc'[x] = "erase" /\ wobj'[x] = sess'[i] /\ wid'[x] = i
  BY DEF ClosedSessionsLeave, Used
<1>1. sess'[i] = sess[i] /\ sess[i] \in Objs
  <2>1. sess'[i] = sess[i]
    BY DEF Shrinks
  <2>2. sess[i] \in Objs \cup {NoObj}
    BY TableTypes
  <2>. QED BY <2>1, <2>2
<1>2. CASE closed[sess[i]]
  <2>1. PICK x \in Workers : wpc[x] = "erase" /\ wobj[x] = sess[i] /\ wid[x] = i
    BY <1>1, <1>2 DEF ClosedSessionsLeave, Used
  <2>. QED BY <1>1, <2>1
<1>3. CASE ~closed[sess[i]]
  BY <1>1, <1>3
<1>. QED BY <1>2, <1>3

(* A new session is open, and what was evicted for it left the table.      *)
LEMMA ClosedInsert ==
  ASSUME TypeOK, ObjInv, ClosedSessionsLeave,
         NEW i \in Ids, NEW E \in Evictees, NEW kind, Insert(i, E, kind),
         \A x \in Workers : wpc[x] = "erase" =>
           wpc'[x] = "erase" /\ wobj'[x] = wobj[x] /\ wid'[x] = wid[x]
  PROVE  ClosedSessionsLeave'
<1>1. /\ E \subseteq Ids
      /\ nextObj \in Objs /\ nextObj' = nextObj + 1
      /\ sess'[i] = nextObj
      /\ \A j \in Ids : j # i => sess'[j] = IF j \in E THEN NoObj ELSE sess[j]
      /\ \A o \in Objs : closed'[o] = (closed[o] \/ o \in {sess[e] : e \in E})
  BY InsertShape
<1>2. \A j \in Ids : sess[j] \in Objs \cup {NoObj} /\ sess[j] < nextObj
  BY DEF ObjInv, TypeOK
<1>3. nextObj \in Nat /\ MaxObj \in Nat
  BY Numbers
<1>4. ~closed[nextObj]
  BY <1>1, <1>3 DEF ObjInv
<1> SUFFICES ASSUME NEW j \in Ids, sess'[j] # NoObj, closed'[sess'[j]]
             PROVE  \E x \in Workers :
                      wpc'[x] = "erase" /\ wobj'[x] = sess'[j] /\ wid'[x] = j
  BY DEF ClosedSessionsLeave, Used
<1>5. CASE j = i
  <2>1. nextObj \notin {sess[e] : e \in E}
    BY <1>1, <1>2, <1>3
  <2>. QED BY <1>1, <1>4, <1>5, <2>1
<1>6. CASE j # i
  <2>1. j \notin E /\ sess'[j] = sess[j] /\ sess[j] \in Objs
    BY <1>1, <1>2, <1>6
  <2>2. sess[j] \notin {sess[e] : e \in E}
    BY <1>1, <2>1 DEF ObjInv
  <2>3. closed[sess[j]]
    BY <1>1, <2>1, <2>2
  <2>4. PICK x \in Workers : wpc[x] = "erase" /\ wobj[x] = sess[j] /\ wid[x] = j
    BY <2>1, <2>3 DEF ClosedSessionsLeave, Used
  <2>. QED BY <2>1, <2>4
<1>. QED BY <1>5, <1>6

(* A worker that is erasing what it released goes on doing so.             *)
Erasing(x) == wpc[x] = "erase"
EraseGoesOn(x) == wpc'[x] = "erase" /\ wobj'[x] = wobj[x] /\ wid'[x] = wid[x]

LEMMA ErasersGoOn ==
  ASSUME TypeOK, PcInv, Step
  PROVE  \A x \in Workers : Erasing(x) =>
           \/ EraseGoesOn(x)
           \/ wid[x] \in Ids => sess'[wid[x]] = NoObj
<1>0. /\ wpc \in [Workers -> WorkerPc]
      /\ wobj \in [Workers -> Objs \cup {NoObj}]
      /\ wid \in [Workers -> Ids \cup {NoId}]
  BY DEF TypeOK
<1> SUFFICES ASSUME NEW x \in Workers, Erasing(x)
             PROVE  \/ EraseGoesOn(x)
                    \/ wid[x] \in Ids => sess'[wid[x]] = NoObj
  OBVIOUS
<1>1. ASSUME UNCHANGED <<wpc, wobj, wid>> PROVE EraseGoesOn(x)
  BY <1>1 DEF Erasing, EraseGoesOn
<1>2. ASSUME NEW w \in Workers, wpc[w] # "erase",
             \E l : wpc' = [wpc EXCEPT ![w] = l],
             \A y \in Workers \ {w} : wobj'[y] = wobj[y] /\ wid'[y] = wid[y]
      PROVE  EraseGoesOn(x)
  BY <1>0, <1>2 DEF Erasing, EraseGoesOn
<1>3. ASSUME NEW w \in Workers, NEW op, NEW i, NEW o, NEW l, Begin(w, op, i, o, l)
      PROVE  EraseGoesOn(x)
  <2>1. wpc[w] # "erase" /\ wpc' = [wpc EXCEPT ![w] = l]
    BY <1>3 DEF Begin, Goto
  <2>2. \A y \in Workers \ {w} : wobj'[y] = wobj[y] /\ wid'[y] = wid[y]
    BY <1>0, <1>3 DEF Begin
  <2>. QED BY <1>2, <2>1, <2>2
<1>4. ASSUME NEW w \in Workers, Request(w) PROVE EraseGoesOn(x)
  <2>1. CASE UNCHANGED <<wpc, wobj, wid>>
    BY <1>1, <2>1
  <2>2. CASE \E op, i, o, l : Begin(w, op, i, o, l)
    BY <1>3, <2>2
  <2>. QED BY <1>4, <2>1, <2>2
           DEF Request, OpenStream, PostStreamable, PostLegacy, DeleteSession
<1>5. ASSUME NEW w \in Workers, wpc[w] # "erase", Finish(w) PROVE EraseGoesOn(x)
  <2>1. wpc' = [wpc EXCEPT ![w] = "free"]
    BY <1>5 DEF Finish, Goto
  <2>2. \A y \in Workers \ {w} : wobj'[y] = wobj[y] /\ wid'[y] = wid[y]
    BY <1>5, FinishShape
  <2>. QED BY <1>2, <1>5, <2>1, <2>2
<1>6. ASSUME NEW w \in Workers, wpc[w] # "erase", UNCHANGED <<wobj, wid>>, NEW l,
             Goto(w, l)
      PROVE  EraseGoesOn(x)
  BY <1>2, <1>6 DEF Goto
<1>7. ASSUME NEW w \in Workers, WorkerStep(w)
      PROVE  \/ EraseGoesOn(x)
             \/ wid[x] \in Ids => sess'[wid[x]] = NoObj
  <2>1. CASE EraseReleased(w)
    <3>1. CASE x = w
      BY <2>1, <3>1, WithoutType DEF EraseReleased
    <3>2. CASE x # w
      <4>1. wpc'[x] = wpc[x] /\ wobj'[x] = wobj[x] /\ wid'[x] = wid[x]
        BY <2>1, <3>2, FinishShape DEF EraseReleased
      <4>. QED BY <4>1 DEF EraseGoesOn, Erasing
    <3>. QED BY <3>1, <3>2
  <2>2. CASE CreateSession(w)
    <3>1. wpc[w] # "erase" /\ \E l : wpc' = [wpc EXCEPT ![w] = l]
      BY <2>2 DEF CreateSession, Goto
    <3>2. \A y \in Workers \ {w} : wid'[y] = wid[y]
      BY <1>0, <2>2 DEF CreateSession
    <3>3. \A y \in Workers \ {w} : wobj'[y] = wobj[y]
      BY <1>0, <2>2 DEF CreateSession
    <3>. QED BY <1>2, <3>1, <3>2, <3>3
  <2>3. CASE Respond(w) \/ RegisterExplicit(w) \/ TerminateSession(w)
    BY <1>5, <2>3 DEF Respond, RegisterExplicit, TerminateSession
  <2>4. CASE Release(w)
    BY <1>5, <1>6, <2>4 DEF Release
  <2>5. CASE WriteMessage(w)
    BY <1>6, <2>5 DEF WriteMessage
  <2>6. CASE WorkerReaps(w) \/ WorkerCloses(w) \/ InsertExplicit(w)
             \/ PopMessage(w) \/ EndStream(w)
    <3>1. wpc[w] # "erase" /\ UNCHANGED <<wobj, wid>> /\ \E l : Goto(w, l)
      BY <2>6 DEF WorkerReaps, WorkerCloses, InsertExplicit, PopMessage, EndStream
    <3>. QED BY <1>6, <3>1
  <2>. QED BY <1>7, <2>1, <2>2, <2>3, <2>4, <2>5, <2>6 DEF WorkerStep
<1>8. ASSUME NEW w \in Workers, ClientLeaves(w) PROVE EraseGoesOn(x)
  BY <1>6, <1>8 DEF ClientLeaves
<1>9. CASE UNCHANGED workerVars
  BY <1>1, <1>9 DEF workerVars
<1>. QED BY <1>4, <1>7, <1>8, <1>9
         DEF Step, NotifierReaps, NotifierCloses, Broadcast, StopSessions, StopServer,
             Tick

LEMMA ClosedStep ==
  ASSUME TypeOK, PcInv, ObjInv, ClosedSessionsLeave, Step
  PROVE  ClosedSessionsLeave'
<1>0. /\ sess \in [Ids -> Objs \cup {NoObj}]
      /\ closed \in [Objs -> BOOLEAN]
      /\ doomed \in [Threads -> SUBSET Objs]
  BY DEF TypeOK
<1>1. \A x \in Workers : wpc[x] = "erase" =>
        \/ wpc'[x] = "erase" /\ wobj'[x] = wobj[x] /\ wid'[x] = wid[x]
        \/ wid[x] \in Ids => sess'[wid[x]] = NoObj
  BY ErasersGoOn DEF Erasing, EraseGoesOn
<1>2. ASSUME NEW w \in Workers, CreateSession(w) \/ InsertExplicit(w)
      PROVE  ClosedSessionsLeave'
  <2>1. PICK i \in Ids, E \in Evictees, kind \in BOOLEAN : Insert(i, E, kind)
    <3>1. CASE CreateSession(w)
      BY <3>1 DEF CreateSession
    <3>2. CASE InsertExplicit(w)
      <4>1. wid[w] \in Ids /\ \E E \in Evictees : Insert(wid[w], E, TRUE)
        BY <3>2 DEF InsertExplicit, PcInv
      <4>. QED BY <4>1
    <3>. QED BY <1>2, <3>1, <3>2
  <2>2. \A x \in Workers : wpc[x] = "erase" =>
          wpc'[x] = "erase" /\ wobj'[x] = wobj[x] /\ wid'[x] = wid[x]
    <3>1. /\ wpc \in [Workers -> WorkerPc]
          /\ wobj \in [Workers -> Objs \cup {NoObj}]
          /\ wid \in [Workers -> Ids \cup {NoId}]
      BY DEF TypeOK
    <3>2. wpc[w] # "erase" /\ \E l : wpc' = [wpc EXCEPT ![w] = l]
      BY <1>2 DEF CreateSession, InsertExplicit, Goto
    <3>3. \A y \in Workers \ {w} : wid'[y] = wid[y]
      BY <1>2, <3>1 DEF CreateSession, InsertExplicit
    <3>4. \A y \in Workers \ {w} : wobj'[y] = wobj[y]
      BY <1>2, <3>1 DEF CreateSession, InsertExplicit
    <3>. QED BY <3>1, <3>2, <3>3, <3>4
  <2>. QED BY <2>1, <2>2, ClosedInsert
<1>3. ASSUME Shrinks, UNCHANGED closed PROVE ClosedSessionsLeave'
  BY <1>1, <1>3, ClosedKeep
<1>4. ASSUME NEW t \in Threads, CloseDoomed(t), UNCHANGED sess
      PROVE  ClosedSessionsLeave'
  <2>1. \A o \in Objs : closed'[o] => closed[o] \/ \A i \in Ids : sess'[i] # o
    <3>1. \A o \in Objs : closed'[o] = (closed[o] \/ o \in doomed[t])
      BY <1>4, CloseShape
    <3>2. \A i \in Ids : sess[i] \notin doomed[t]
      BY DEF ObjInv
    <3>. QED BY <1>4, <3>1, <3>2
  <2>2. Shrinks
    BY <1>4 DEF Shrinks
  <2>. QED BY <1>1, <2>1, <2>2, ClosedKeep
<1>5. ASSUME NEW w \in Workers, Request(w) PROVE ClosedSessionsLeave'
  <2>1. Shrinks
    <3>1. CASE \E i \in Ids : DeleteSession(w, i)
      BY <3>1, WithoutType DEF DeleteSession, Shrinks
    <3>2. CASE UNCHANGED sess
      BY <3>2 DEF Shrinks
    <3>. QED BY <1>5, <3>1, <3>2
             DEF Request, OpenStream, PostStreamable, PostLegacy, tableVars
  <2>2. \/ closed' = closed
        \/ \E i \in Ids : closed' = [closed EXCEPT ![sess[i]] = FALSE]
    BY <1>5 DEF Request, OpenStream, PostStreamable, PostLegacy, DeleteSession
  <2>3. \A o \in Objs : closed'[o] => closed[o]
    BY <1>0, <2>2
  <2>. QED BY <1>1, <2>1, <2>3, ClosedKeep
<1>6. ASSUME NEW w \in Workers, WorkerStep(w) PROVE ClosedSessionsLeave'
  <2>0. w \in Threads
    BY DEF Threads
  <2>1. CASE WorkerReaps(w)
    <3>1. Shrinks
      BY <2>0, <2>1, ReapShape DEF WorkerReaps, Shrinks
    <3>. QED BY <1>3, <2>1, <3>1 DEF WorkerReaps
  <2>2. CASE WorkerCloses(w) \/ TerminateSession(w)
    BY <1>4, <2>0, <2>2 DEF WorkerCloses, TerminateSession, tableVars
  <2>3. CASE Release(w)
    <3>1. Shrinks
      BY <2>3 DEF Release, tableVars, Shrinks
    <3>2. CASE closed' = closed
      BY <1>3, <3>1, <3>2
    <3>3. CASE closed' = [closed EXCEPT ![wobj[w]] = TRUE]
               /\ Goto(w, "erase") /\ UNCHANGED <<wobj, wid>>
      <4>1. wpc'[w] = "erase"
        BY <3>3 DEF Goto, TypeOK
      <4>2. wobj[w] # NoObj
        BY <2>3 DEF Release, PcInv
      <4>3. \A i \in Ids : sess[i] = wobj[w] => wid[w] = i
        BY <4>2 DEF ObjInv
      <4>4. \A o \in Objs : closed'[o] => closed[o] \/ o = wobj[w]
        BY <1>0, <3>3
      <4>5. \A o \in Objs : closed'[o] => closed[o] \/ \A i \in Ids : sess[i] = o =>
              \E x \in Workers : wpc'[x] = "erase" /\ wobj'[x] = o /\ wid'[x] = i
        BY <3>3, <4>1, <4>3, <4>4
      <4>. QED BY <1>1, <3>1, <4>5, ClosedKeep
    <3>. QED BY <2>3, <3>2, <3>3 DEF Release
  <2>4. CASE EraseReleased(w)
    <3>1. Shrinks
      BY <2>4, WithoutType DEF EraseReleased, Shrinks
    <3>. QED BY <1>3, <2>4, <3>1 DEF EraseReleased
  <2>5. CASE UNCHANGED <<sess, closed>>
    BY <1>3, <2>5 DEF Shrinks
  <2>. QED BY <1>2, <1>6, <2>1, <2>2, <2>3, <2>4, <2>5
           DEF WorkerStep, Respond, RegisterExplicit, PopMessage, WriteMessage,
               EndStream, tableVars, objVars
<1>7. CASE NotifierReaps
  <2>1. Shrinks
    BY <1>7, ReapShape DEF NotifierReaps, Shrinks, Threads
  <2>. QED BY <1>3, <1>7, <2>1 DEF NotifierReaps
<1>8. CASE NotifierCloses
  BY <1>4, <1>8 DEF NotifierCloses, Threads, tableVars
<1>9. CASE StopSessions
  <2>1. \A i \in Ids : sess'[i] = NoObj
    BY <1>9, WithoutType DEF StopSessions
  <2>. QED BY <2>1 DEF ClosedSessionsLeave, Used
<1>10. CASE UNCHANGED <<sess, closed>>
  BY <1>3, <1>10 DEF Shrinks
<1>. QED BY <1>5, <1>6, <1>7, <1>8, <1>9, <1>10
         DEF Step, Broadcast, StopServer, Tick, ClientLeaves, tableVars, objVars

-----------------------------------------------------------------------------
(* The table and TaskRegistry.                                             *)

(* For one id: who has inserted a session and not yet registered it finds  *)
(* it in the table, who has erased one does not.                           *)
AgreeAt(i) ==
  /\ (\E w \in Workers : Halfway(w, i)) \/ (i \in registered <=> sess[i] # NoObj)
  /\ \A w \in Workers : wpc[w] = "register" /\ wid[w] = i => sess[i] # NoObj
  /\ \A w \in Workers : wpc[w] = "terminate" /\ wid[w] = i => sess[i] = NoObj

AgreeInv == stopPc = "no" => \A i \in Ids \ raced : AgreeAt(i)

(* Nobody starts or ends a change of the entry of i.                       *)
HalvesSame(i) ==
  \A x \in Workers : Halfway(x, i) \/ Halfway(x, i)' =>
    wpc'[x] = wpc[x] /\ wid'[x] = wid[x]

LEMMA AgreeKeep ==
  ASSUME NEW i \in Ids, AgreeAt(i), HalvesSame(i),
         sess'[i] = sess[i] \/ \A x \in Workers : ~Halfway(x, i),
         \/ i \in registered' <=> sess'[i] # NoObj
         \/ sess'[i] = sess[i] /\ (i \in registered' <=> i \in registered)
  PROVE  AgreeAt(i)'
<1>1. \A x \in Workers : Halfway(x, i)' <=> Halfway(x, i)
  BY DEF HalvesSame, Halfway
<1>2. \A x \in Workers : wpc'[x] \in {"register", "terminate"} /\ wid'[x] = i =>
        /\ wpc'[x] = wpc[x] /\ wid'[x] = wid[x]
        /\ Halfway(x, i) /\ sess'[i] = sess[i]
  BY <1>1 DEF HalvesSame, Halfway
<1>3. \/ \E x \in Workers : Halfway(x, i)'
      \/ i \in registered' <=> sess'[i] # NoObj
  <2>1. CASE \E x \in Workers : Halfway(x, i)
    BY <1>1, <2>1
  <2>2. CASE ~\E x \in Workers : Halfway(x, i)
    BY <2>2 DEF AgreeAt
  <2>. QED BY <2>1, <2>2
<1>4. \A x \in Workers : wpc'[x] = "register" /\ wid'[x] = i => sess'[i] # NoObj
  BY <1>2 DEF AgreeAt
<1>5. \A x \in Workers : wpc'[x] = "terminate" /\ wid'[x] = i => sess'[i] = NoObj
  BY <1>2 DEF AgreeAt
<1>. QED BY <1>3, <1>4, <1>5 DEF AgreeAt

(* A worker that is elsewhere in its program disturbs no half-made change. *)
LEMMA HalvesElsewhere ==
  ASSUME TypeOK, NEW i, NEW w \in Workers,
         wpc[w] \notin {"register", "terminate"}, wpc'[w] \notin {"register", "terminate"},
         \A x \in Workers \ {w} : wpc'[x] = wpc[x] /\ wid'[x] = wid[x]
  PROVE  HalvesSame(i)
  BY DEF HalvesSame, Halfway

LEMMA AgreeStep ==
  ASSUME TypeOK, PcInv, ObjInv, Step, stopPc' = "no", NEW i \in Ids, AgreeAt(i),
         sess'[i] = sess[i] \/ \A x \in Workers : ~Halfway(x, i)
  PROVE  AgreeAt(i)'
<1>0. /\ wpc \in [Workers -> WorkerPc]
      /\ wid \in [Workers -> Ids \cup {NoId}]
      /\ sess \in [Ids -> Objs \cup {NoObj}]
  BY DEF TypeOK
<1>1. ASSUME UNCHANGED <<wpc, wid>> PROVE HalvesSame(i)
  BY <1>1 DEF HalvesSame
<1>2. ASSUME NEW w \in Workers, NEW l, Goto(w, l), l \notin {"register", "terminate"},
             wpc[w] \notin {"register", "terminate"},
             \A x \in Workers \ {w} : wid'[x] = wid[x]
      PROVE  HalvesSame(i)
  BY <1>0, <1>2, HalvesElsewhere DEF Goto
<1>3. ASSUME NEW w \in Workers, NEW op, NEW j, NEW o, NEW l, Begin(w, op, j, o, l),
             l \notin {"register", "terminate"}
      PROVE  HalvesSame(i)
  <2>1. wpc[w] = "free" /\ Goto(w, l)
    BY <1>3 DEF Begin
  <2>2. \A x \in Workers \ {w} : wid'[x] = wid[x]
    BY <1>0, <1>3 DEF Begin
  <2>. QED BY <1>2, <1>3, <2>1, <2>2
<1>4. ASSUME NEW w \in Workers, wpc[w] \notin {"register", "terminate"}, Finish(w)
      PROVE  HalvesSame(i)
  <2>1. Goto(w, "free")
    BY <1>4 DEF Finish
  <2>2. \A x \in Workers \ {w} : wid'[x] = wid[x]
    BY <1>4, FinishShape
  <2>. QED BY <1>2, <1>4, <2>1, <2>2
<1>5. ASSUME HalvesSame(i), UNCHANGED <<sess, registered>>
      PROVE  AgreeAt(i)'
  BY <1>5, AgreeKeep
<1>6. ASSUME HalvesSame(i), NEW t \in Threads, Reap(t)
      PROVE  AgreeAt(i)'
  <2>1. sess'[i] = IF Reapable(i) THEN NoObj ELSE sess[i]
    BY <1>6, ReapShape
  <2>2. registered' = registered \ {j \in Ids : Reapable(j)}
    BY <1>6 DEF Reap
  <2>. QED BY <1>6, <2>1, <2>2, AgreeKeep
<1>7. ASSUME NEW w \in Workers, NEW j \in Ids, DeleteSession(w, j)
      PROVE  AgreeAt(i)'
  <2>1. /\ sess[j] # NoObj /\ registered' = registered
        /\ Begin(w, "DELETE", j, NoObj, "terminate")
        /\ \A k \in Ids : sess'[k] = IF k \in {j} THEN NoObj ELSE sess[k]
    BY <1>7, WithoutType DEF DeleteSession
  <2>2. /\ wpc[w] = "free" /\ wpc'[w] = "terminate" /\ wid'[w] = j
        /\ \A x \in Workers \ {w} : wpc'[x] = wpc[x] /\ wid'[x] = wid[x]
    <3>1. /\ wpc[w] = "free" /\ wpc' = [wpc EXCEPT ![w] = "terminate"]
          /\ wid' = [wid EXCEPT ![w] = j]
      BY <2>1 DEF Begin, Goto
    <3>. QED BY <1>0, <3>1
  <2>3. CASE j = i
    <3>1. \A x \in Workers : ~Halfway(x, i)
      BY <2>1, <2>3
    <3>2. Halfway(w, i)' /\ sess'[i] = NoObj
      BY <2>1, <2>2, <2>3 DEF Halfway
    <3>3. \A x \in Workers : ~(wpc'[x] = "register" /\ wid'[x] = i)
      BY <2>2, <3>1 DEF Halfway
    <3>. QED BY <3>2, <3>3 DEF AgreeAt
  <2>4. CASE j # i
    <3>1. HalvesSame(i)
      BY <2>2, <2>4 DEF HalvesSame, Halfway
    <3>2. sess'[i] = sess[i]
      BY <2>1, <2>4
    <3>. QED BY <2>1, <3>1, <3>2, AgreeKeep
  <2>. QED BY <2>3, <2>4
<1>8. ASSUME NEW w \in Workers, Request(w) PROVE AgreeAt(i)'
  <2>1. CASE \E j \in Ids : DeleteSession(w, j)
    BY <1>7, <2>1
  <2>2. CASE UNCHANGED <<sess, registered, wpc, wid>>
    BY <1>1, <1>5, <2>2
  <2>3. CASE UNCHANGED <<sess, registered>> /\ \E op, j, o, l :
               Begin(w, op, j, o, l) /\ l \in {"stream", "reap", "respond"}
    BY <1>3, <1>5, <2>3
  <2>. QED BY <1>8, <2>1, <2>2, <2>3
           DEF Request, OpenStream, PostStreamable, PostLegacy, tableVars
<1>9. ASSUME NEW w \in Workers, CreateSession(w) PROVE AgreeAt(i)'
  <2>1. PICK j \in Ids, E \in Evictees :
          /\ Insert(j, E, wop[w] # "GET legacy")
          /\ registered' = (registered \ E) \cup {j}
          /\ wid' = [wid EXCEPT ![w] = IF wop[w] = "POST" THEN NoId ELSE j]
    BY <1>9 DEF CreateSession
  <2>2. HalvesSame(i)
    <3>1. \A x \in Workers \ {w} : wid'[x] = wid[x]
      BY <1>0, <2>1
    <3>2. /\ wpc[w] \notin {"register", "terminate"}
          /\ Goto(w, "free") \/ Goto(w, "stream")
      BY <1>9 DEF CreateSession
    <3>. QED BY <1>2, <3>1, <3>2
  <2>3. /\ E \subseteq Ids /\ nextObj \in Objs /\ sess'[j] = nextObj
        /\ \A k \in Ids : k # j => sess'[k] = IF k \in E THEN NoObj ELSE sess[k]
    BY <2>1, InsertShape
  <2>4. nextObj # NoObj
    BY Numbers
  <2>. QED BY <2>1, <2>2, <2>3, <2>4, AgreeKeep
<1>10. ASSUME NEW w \in Workers, InsertExplicit(w) PROVE AgreeAt(i)'
  <2>1. PICK E \in Evictees : Insert(wid[w], E, TRUE) /\ registered' = registered \ E
    BY <1>10 DEF InsertExplicit
  <2>2. wid[w] \in Ids /\ wpc[w] = "insert" /\ wid' = wid
        /\ wpc' = [wpc EXCEPT ![w] = "register"]
    BY <1>10 DEF InsertExplicit, PcInv, Goto
  <2>3. /\ E \subseteq Ids /\ nextObj \in Objs /\ sess'[wid[w]] = nextObj
        /\ \A k \in Ids : k # wid[w] => sess'[k] = IF k \in E THEN NoObj ELSE sess[k]
    BY <2>1, <2>2, InsertShape
  <2>4. nextObj # NoObj /\ nextObj \in Nat
    BY Numbers
  <2>5. CASE wid[w] = i
    <3>1. sess'[i] # sess[i]
      BY <1>0, <2>3, <2>4, <2>5 DEF ObjInv
    <3>2. \A x \in Workers : ~Halfway(x, i)
      BY <3>1
    <3>3. Halfway(w, i)' /\ sess'[i] # NoObj
      BY <1>0, <2>2, <2>3, <2>4, <2>5 DEF Halfway
    <3>4. \A x \in Workers : ~(wpc'[x] = "terminate" /\ wid'[x] = i)
      BY <1>0, <2>2, <3>2 DEF Halfway
    <3>. QED BY <3>3, <3>4 DEF AgreeAt
  <2>6. CASE wid[w] # i
    <3>1. HalvesSame(i)
      BY <1>0, <2>2, <2>6 DEF HalvesSame, Halfway
    <3>. QED BY <2>1, <2>3, <2>6, <3>1, AgreeKeep
  <2>. QED BY <2>5, <2>6
<1>11. ASSUME NEW w \in Workers, RegisterExplicit(w) \/ TerminateSession(w)
       PROVE  AgreeAt(i)'
  <2>1. /\ sess' = sess /\ wpc'[w] = "free"
        /\ \A x \in Workers \ {w} : wpc'[x] = wpc[x] /\ wid'[x] = wid[x]
    BY <1>11, FinishShape DEF RegisterExplicit, TerminateSession
  <2>2. \/ wpc[w] = "register" /\ registered' = registered \cup {wid[w]}
        \/ wpc[w] = "terminate" /\ registered' = registered \ {wid[w]}
    BY <1>11 DEF RegisterExplicit, TerminateSession
  <2>3. CASE wid[w] = i
    <3>1. i \in registered' <=> sess[i] # NoObj
      BY <2>2, <2>3 DEF AgreeAt
    <3>2. \A x \in Workers : wpc'[x] \in {"register", "terminate"} =>
            wpc'[x] = wpc[x] /\ wid'[x] = wid[x]
      BY <2>1
    <3>. QED BY <2>1, <3>1, <3>2 DEF AgreeAt
  <2>4. CASE wid[w] # i
    <3>1. HalvesSame(i)
      BY <2>1, <2>2, <2>4 DEF HalvesSame, Halfway
    <3>. QED BY <2>1, <2>2, <2>4, <3>1, AgreeKeep
  <2>. QED BY <2>3, <2>4
<1>12. ASSUME NEW w \in Workers, EraseReleased(w) PROVE AgreeAt(i)'
  <2>1. HalvesSame(i)
    BY <1>4, <1>12 DEF EraseReleased
  <2>2. /\ sess'[i] = IF i \in {wid[w]} THEN NoObj ELSE sess[i]
        /\ registered' = registered \ {wid[w]}
    BY <1>12, WithoutType DEF EraseReleased
  <2>. QED BY <2>1, <2>2, AgreeKeep
<1>13. ASSUME NEW w \in Workers, WorkerStep(w) PROVE AgreeAt(i)'
  <2>0. w \in Threads
    BY DEF Threads
  <2>1. CASE WorkerReaps(w)
    <3>1. HalvesSame(i)
      BY <1>2, <2>1 DEF WorkerReaps
    <3>. QED BY <1>6, <2>0, <2>1, <3>1 DEF WorkerReaps
  <2>2. CASE Respond(w)
    BY <1>4, <1>5, <2>2 DEF Respond, tableVars
  <2>3. CASE WorkerCloses(w)
    <3>1. \E l : Goto(w, l) /\ l \in {"create", "insert"}
      BY <2>3 DEF WorkerCloses
    <3>2. wpc[w] = "close" /\ UNCHANGED <<wid, sess, registered>>
      BY <2>3 DEF WorkerCloses, tableVars
    <3>. QED BY <1>2, <1>5, <3>1, <3>2
  <2>4. CASE PopMessage(w) \/ EndStream(w)
    BY <1>2, <1>5, <2>4 DEF PopMessage, EndStream, tableVars
  <2>5. CASE WriteMessage(w)
    BY <1>2, <1>5, <2>5 DEF WriteMessage, tableVars
  <2>6. CASE Release(w)
    BY <1>2, <1>4, <1>5, <2>6 DEF Release, tableVars
  <2>. QED BY <1>9, <1>10, <1>11, <1>12, <1>13, <2>1, <2>2, <2>3, <2>4, <2>5, <2>6
           DEF WorkerStep
<1>14. ASSUME NEW w \in Workers, ClientLeaves(w) PROVE AgreeAt(i)'
  BY <1>2, <1>5, <1>14 DEF ClientLeaves, tableVars
<1>15. CASE NotifierReaps
  BY <1>1, <1>6, <1>15 DEF NotifierReaps, Threads, workerVars
<1>16. CASE NotifierCloses \/ Broadcast \/ Tick
  BY <1>1, <1>5, <1>16 DEF NotifierCloses, Broadcast, Tick, workerVars, tableVars
<1>17. ~StopSessions /\ ~StopServer
  BY DEF StopSessions, StopServer
<1>. QED BY <1>8, <1>13, <1>14, <1>15, <1>16, <1>17 DEF Step

LEMMA StopsForGood ==
  ASSUME Step, stopPc' = "no"
  PROVE  stopPc = "no"
  BY DEF Step, Request, OpenStream, PostStreamable, PostLegacy, DeleteSession, WorkerStep,
         Respond, WorkerReaps, WorkerCloses, CreateSession, InsertExplicit,
         RegisterExplicit, PopMessage, WriteMessage, EndStream, Release, EraseReleased,
         TerminateSession, ClientLeaves, NotifierReaps, NotifierCloses, Broadcast,
         StopSessions, StopServer, Tick

-----------------------------------------------------------------------------
(* Messages.                                                               *)

In(m, s) == \E j \in DOMAIN s : s[j] = m

(* What worker x has taken off the queue, as a set.                        *)
Mine(x, m) == In(m, got[x]) \/ m = wmsg[x]

MsgInv ==
  /\ \A o \in Objs : Increasing(queue[o]) /\ \A m \in Msgs : In(m, queue[o]) => m <= sent
  /\ \A x \in Workers : Increasing(got[x]) /\ \A m \in Msgs : Mine(x, m) => m <= sent
  /\ \A x \in Workers : wmsg[x] # 0 => \A m \in Msgs : In(m, got[x]) => m < wmsg[x]
  /\ \A x \in Workers : wobj[x] # NoObj =>
       \A m, n \in Msgs : In(m, queue[wobj[x]]) /\ Mine(x, n) => n < m
  /\ \A x, y \in Workers : x # y /\ wobj[x] = wobj[y] /\ wobj[x] # NoObj =>
       \A m \in Msgs : ~(Mine(x, m) /\ Mine(y, m))

LEMMA AppendIn ==
  ASSUME NEW s \in Seq(Msgs), NEW e \in Msgs
  PROVE  \A m : In(m, Append(s, e)) <=> In(m, s) \/ m = e
<1>1. /\ Append(s, e) \in Seq(Msgs) /\ Len(Append(s, e)) = Len(s) + 1 /\ Len(s) \in Nat
      /\ \A j \in 1..Len(s) : Append(s, e)[j] = s[j]
      /\ Append(s, e)[Len(s) + 1] = e
  OBVIOUS
<1>2. DOMAIN Append(s, e) = 1..(Len(s) + 1) /\ DOMAIN s = 1..Len(s)
  BY <1>1
<1>. QED BY <1>1, <1>2 DEF In

LEMMA AppendIncreasing ==
  ASSUME NEW s \in Seq(Msgs), NEW e \in Msgs, Increasing(s),
         \A m \in Msgs : In(m, s) => m < e
  PROVE  Increasing(Append(s, e))
<1>1. /\ Len(Append(s, e)) = Len(s) + 1 /\ Len(s) \in Nat
      /\ \A j \in 1..Len(s) : Append(s, e)[j] = s[j]
      /\ Append(s, e)[Len(s) + 1] = e
  OBVIOUS
<1>2. DOMAIN Append(s, e) = 1..(Len(s) + 1) /\ DOMAIN s = 1..Len(s)
  BY <1>1
<1>3. \A j \in 1..Len(s) : s[j] \in Msgs /\ s[j] < e
  BY <1>2 DEF In
<1>. QED BY <1>1, <1>2, <1>3 DEF Increasing

LEMMA TailShape ==
  ASSUME NEW s \in Seq(Msgs), s # <<>>, Increasing(s)
  PROVE  /\ Increasing(Tail(s))
         /\ In(Head(s), s)
         /\ \A m : In(m, Tail(s)) => In(m, s)
         /\ \A m : In(m, Tail(s)) => Head(s) < m
<1>1. /\ Len(s) \in Nat \ {0} /\ Len(Tail(s)) = Len(s) - 1 /\ Tail(s) \in Seq(Msgs)
      /\ \A j \in 1..(Len(s) - 1) : Tail(s)[j] = s[j + 1]
      /\ Head(s) = s[1]
  OBVIOUS
<1>2. DOMAIN Tail(s) = 1..(Len(s) - 1) /\ DOMAIN s = 1..Len(s)
  BY <1>1
<1>3. \A j \in 1..(Len(s) - 1) : j + 1 \in DOMAIN s /\ 1 \in DOMAIN s /\ 1 < j + 1
  BY <1>1, <1>2
<1>4. Increasing(Tail(s))
  <2> SUFFICES ASSUME NEW j \in 1..(Len(s) - 1), NEW k \in 1..(Len(s) - 1), j < k
               PROVE  s[j + 1] < s[k + 1]
    BY <1>1, <1>2 DEF Increasing
  <2>1. j + 1 \in DOMAIN s /\ k + 1 \in DOMAIN s /\ j + 1 < k + 1
    BY <1>1, <1>3
  <2>. QED BY <2>1 DEF Increasing
<1>5. \A m : In(m, Tail(s)) => In(m, s) /\ s[1] < m
  <2> SUFFICES ASSUME NEW j \in 1..(Len(s) - 1)
               PROVE  In(s[j + 1], s) /\ s[1] < s[j + 1]
    BY <1>1, <1>2 DEF In
  <2>. QED BY <1>3 DEF In, Increasing
<1>. QED BY <1>1, <1>2, <1>4, <1>5 DEF In

LEMMA ConcatShape ==
  ASSUME NEW s \in Seq(Msgs), NEW t \in Seq(Msgs), Increasing(s), Increasing(t),
         \A m, n \in Msgs : In(m, s) /\ In(n, t) => m < n
  PROVE  /\ s \o t \in Seq(Msgs)
         /\ Increasing(s \o t)
         /\ \A m : In(m, s \o t) <=> In(m, s) \/ In(m, t)
<1>1. /\ s \o t \in Seq(Msgs) /\ Len(s \o t) = Len(s) + Len(t)
      /\ Len(s) \in Nat /\ Len(t) \in Nat
      /\ \A j \in 1..(Len(s) + Len(t)) :
           (s \o t)[j] = IF j <= Len(s) THEN s[j] ELSE t[j - Len(s)]
  OBVIOUS
<1>2. /\ DOMAIN (s \o t) = 1..(Len(s) + Len(t))
      /\ DOMAIN s = 1..Len(s) /\ DOMAIN t = 1..Len(t)
  BY <1>1
<1>3. \A j \in 1..Len(s), k \in 1..Len(t) : s[j] < t[k]
  BY <1>2 DEF In
<1>4. Increasing(s \o t)
  <2> SUFFICES ASSUME NEW j \in 1..(Len(s) + Len(t)), NEW k \in 1..(Len(s) + Len(t)),
                      j < k
               PROVE  (s \o t)[j] < (s \o t)[k]
    BY <1>2 DEF Increasing
  <2>1. CASE k <= Len(s)
    BY <1>1, <1>2, <2>1 DEF Increasing
  <2>2. CASE j <= Len(s) /\ ~(k <= Len(s))
    <3>1. j \in 1..Len(s) /\ k - Len(s) \in 1..Len(t)
      BY <1>1, <2>2
    <3>. QED BY <1>1, <1>3, <2>2, <3>1
  <2>3. CASE ~(j <= Len(s))
    <3>1. /\ j - Len(s) \in 1..Len(t) /\ k - Len(s) \in 1..Len(t)
          /\ j - Len(s) < k - Len(s) /\ ~(k <= Len(s))
      BY <1>1, <2>3
    <3>. QED BY <1>1, <1>2, <2>3, <3>1 DEF Increasing
  <2>. QED BY <2>1, <2>2, <2>3
<1>5. \A j \in 1..Len(s) : j \in 1..(Len(s) + Len(t)) /\ (s \o t)[j] = s[j]
  BY <1>1
<1>6. \A j \in 1..Len(t) : Len(s) + j \in 1..(Len(s) + Len(t)) /\ (s \o t)[Len(s) + j] = t[j]
  BY <1>1
<1>7. \A j \in 1..(Len(s) + Len(t)) :
        \/ j \in 1..Len(s) /\ (s \o t)[j] = s[j]
        \/ j - Len(s) \in 1..Len(t) /\ (s \o t)[j] = t[j - Len(s)]
  BY <1>1
<1>8. \A m : In(m, s \o t) <=> In(m, s) \/ In(m, t)
  BY <1>2, <1>5, <1>6, <1>7 DEF In
<1>. QED BY <1>1, <1>4, <1>8

LEMMA MessageTypes ==
  ASSUME TypeOK
  PROVE  /\ queue \in [Objs -> Seq(Msgs)] /\ got \in [Workers -> Seq(Msgs)]
         /\ wmsg \in [Workers -> 0..MaxMsg] /\ wobj \in [Workers -> Objs \cup {NoObj}]
         /\ sent \in Nat /\ MaxMsg \in Nat
         /\ \A m \in Msgs : m \in Nat /\ m # 0
<1>1. \A m \in Msgs : m \in Nat /\ m # 0
  BY SessionsAssumption DEF Msgs
<1>. QED BY <1>1, Numbers DEF TypeOK

LEMMA NothingIn == \A m : ~In(m, <<>>)
  BY DEF In

(* Messages are queued, and streams begin and end.                         *)
LEMMA MsgKeep ==
  ASSUME TypeOK, MsgInv, sent' \in Nat, sent' >= sent,
         \A x \in Workers :
           \/ got'[x] = <<>> /\ wmsg'[x] = 0
           \/ got'[x] = got[x] /\ wmsg'[x] = wmsg[x] /\ wobj'[x] = wobj[x],
         \A x \in Workers : wobj'[x] # NoObj => wobj'[x] \in Objs,
         \A o \in Objs :
           \/ queue'[o] = queue[o]
           \/ sent + 1 \in Msgs /\ sent' = sent + 1
              /\ queue'[o] = Append(queue[o], sent + 1)
  PROVE  MsgInv'
<1>0. /\ queue \in [Objs -> Seq(Msgs)] /\ sent \in Nat
      /\ \A m \in Msgs : m \in Nat /\ m # 0
  BY MessageTypes
<1>1. \A x \in Workers, m \in Msgs : Mine(x, m)' =>
        /\ Mine(x, m) /\ wobj'[x] = wobj[x]
        /\ got'[x] = got[x] /\ wmsg'[x] = wmsg[x]
  BY <1>0, NothingIn DEF Mine
<1>2. \A o \in Objs, m \in Msgs : In(m, queue'[o]) =>
        In(m, queue[o]) \/ (m = sent + 1 /\ sent' = sent + 1)
  BY <1>0, AppendIn
<1>3. \A o \in Objs, m \in Msgs : In(m, queue'[o]) => m <= sent'
  BY <1>0, <1>2 DEF MsgInv
<1>4. \A o \in Objs : Increasing(queue'[o])
  <2> SUFFICES ASSUME NEW o \in Objs PROVE Increasing(queue'[o])
    OBVIOUS
  <2>1. CASE queue'[o] = queue[o]
    BY <2>1 DEF MsgInv
  <2>2. CASE sent + 1 \in Msgs /\ queue'[o] = Append(queue[o], sent + 1)
    <3>1. \A m \in Msgs : In(m, queue[o]) => m < sent + 1
      BY <1>0 DEF MsgInv
    <3>. QED BY <1>0, <2>2, <3>1, AppendIncreasing DEF MsgInv
  <2>. QED BY <2>1, <2>2
<1>5. \A x \in Workers : Increasing(got'[x])
  BY DEF MsgInv, Increasing
<1>6. \A x \in Workers : \A m \in Msgs : Mine(x, m)' => m <= sent'
  BY <1>0, <1>1 DEF MsgInv
<1>7. \A x \in Workers : wmsg'[x] # 0 => \A m \in Msgs : In(m, got'[x]) => m < wmsg'[x]
  BY DEF MsgInv
<1>8. \A x \in Workers : wobj'[x] # NoObj =>
        \A m, n \in Msgs : In(m, queue'[wobj'[x]]) /\ Mine(x, n)' => n < m
  <2> SUFFICES ASSUME NEW x \in Workers, wobj'[x] # NoObj, NEW m \in Msgs, NEW n \in Msgs,
                      In(m, queue'[wobj'[x]]), Mine(x, n)'
               PROVE  n < m
    OBVIOUS
  <2>1. Mine(x, n) /\ wobj'[x] = wobj[x] /\ wobj[x] \in Objs
    BY <1>1
  <2>2. CASE In(m, queue[wobj[x]])
    BY <2>1, <2>2 DEF MsgInv
  <2>3. CASE m = sent + 1
    BY <1>0, <2>1, <2>3 DEF MsgInv
  <2>. QED BY <1>2, <2>1, <2>2, <2>3
<1>9. \A x, y \in Workers : x # y /\ wobj'[x] = wobj'[y] /\ wobj'[x] # NoObj =>
        \A m \in Msgs : ~(Mine(x, m)' /\ Mine(y, m)')
  BY <1>1 DEF MsgInv
<1>. QED BY <1>3, <1>4, <1>5, <1>6, <1>7, <1>8, <1>9 DEF MsgInv, Mine

LEMMA MsgPop ==
  ASSUME TypeOK, PcInv, MsgInv, NEW w \in Workers, PopMessage(w)
  PROVE  MsgInv'
<1>0. /\ queue \in [Objs -> Seq(Msgs)] /\ sent \in Nat
      /\ wmsg \in [Workers -> 0..MaxMsg]
      /\ \A m \in Msgs : m \in Nat /\ m # 0
  BY MessageTypes
<1> DEFINE o == wobj[w]
           h == Head(queue[o])
<1>1. o \in Objs /\ o # NoObj
  <2>1. o # NoObj
    BY DEF PopMessage, PcInv
  <2>. QED BY <2>1, MessageTypes
<1>2. queue[o] # <<>> /\ queue[o] \in Seq(Msgs) /\ Increasing(queue[o])
  BY <1>0, <1>1 DEF PopMessage, MsgInv
<1>3. wmsg[w] = 0 /\ wmsg' = [wmsg EXCEPT ![w] = h]
      /\ queue' = [queue EXCEPT ![o] = Tail(queue[o])]
      /\ UNCHANGED <<wobj, got, sent>>
  BY DEF PopMessage, PcInv
<1> HIDE DEF o, h
<1>4. h \in Msgs /\ In(h, queue[o]) /\ Increasing(Tail(queue[o]))
      /\ \A m : In(m, Tail(queue[o])) => In(m, queue[o]) /\ h < m
  BY <1>2, TailShape, HeadTail DEF h
<1>5. /\ \A x \in Workers \ {w} : wmsg'[x] = wmsg[x]
      /\ wmsg'[w] = h
      /\ \A p \in Objs \ {o} : queue'[p] = queue[p]
      /\ queue'[o] = Tail(queue[o])
  BY <1>0, <1>1, <1>3
<1>6. \A x \in Workers, m \in Msgs : Mine(x, m)' => Mine(x, m) \/ (x = w /\ m = h)
  BY <1>3, <1>5 DEF Mine
<1>7. \A p \in Objs, m \in Msgs : In(m, queue'[p]) =>
        In(m, queue[p]) /\ (p = o => h < m)
  BY <1>4, <1>5
<1>8. \A x \in Workers, m \in Msgs : wobj[x] = o /\ Mine(x, m) => m < h
  BY <1>1, <1>4 DEF MsgInv
<1>9. \A p \in Objs : Increasing(queue'[p]) /\ \A m \in Msgs : In(m, queue'[p]) => m <= sent'
  BY <1>3, <1>4, <1>5, <1>7 DEF MsgInv
<1>10. \A x \in Workers : Increasing(got'[x]) /\ \A m \in Msgs : Mine(x, m)' => m <= sent'
  <2>1. h <= sent
    BY <1>1, <1>4 DEF MsgInv
  <2>. QED BY <1>3, <1>6, <2>1 DEF MsgInv
<1>11. \A x \in Workers : wmsg'[x] # 0 => \A m \in Msgs : In(m, got'[x]) => m < wmsg'[x]
  <2>1. \A m \in Msgs : In(m, got[w]) => m < h
    BY <1>8 DEF Mine, o
  <2>. QED BY <1>3, <1>5, <2>1 DEF MsgInv
<1>12. \A x \in Workers : wobj'[x] # NoObj =>
         \A m, n \in Msgs : In(m, queue'[wobj'[x]]) /\ Mine(x, n)' => n < m
  <2> SUFFICES ASSUME NEW x \in Workers, wobj[x] # NoObj, NEW m \in Msgs, NEW n \in Msgs,
                      In(m, queue'[wobj[x]]), Mine(x, n)'
               PROVE  n < m
    BY <1>3
  <2>1. wobj[x] \in Objs
    BY MessageTypes
  <2>2. CASE Mine(x, n)
    BY <1>7, <2>1, <2>2 DEF MsgInv
  <2>3. CASE x = w /\ n = h
    BY <1>7, <2>1, <2>3 DEF o
  <2>. QED BY <1>6, <2>2, <2>3
<1>13. \A x, y \in Workers : x # y /\ wobj'[x] = wobj'[y] /\ wobj'[x] # NoObj =>
         \A m \in Msgs : ~(Mine(x, m)' /\ Mine(y, m)')
  <2> SUFFICES ASSUME NEW x \in Workers, NEW y \in Workers, x # y, wobj[x] = wobj[y],
                      wobj[x] # NoObj, NEW m \in Msgs, Mine(x, m)', Mine(y, m)'
               PROVE  FALSE
    BY <1>3
  <2>1. ~(Mine(x, m) /\ Mine(y, m))
    BY DEF MsgInv
  <2>2. CASE x = w /\ m = h
    <3>1. Mine(y, h) /\ wobj[y] = o
      BY <1>6, <2>2 DEF o
    <3>. QED BY <1>0, <1>4, <1>8, <3>1
  <2>3. CASE y = w /\ m = h
    <3>1. Mine(x, h) /\ wobj[x] = o
      BY <1>6, <2>3 DEF o
    <3>. QED BY <1>0, <1>4, <1>8, <3>1
  <2>. QED BY <1>6, <2>1, <2>2, <2>3
<1>. QED BY <1>9, <1>10, <1>11, <1>12, <1>13 DEF MsgInv, Mine

LEMMA MsgWrite ==
  ASSUME TypeOK, PcInv, MsgInv, NEW w \in Workers, WriteMessage(w)
  PROVE  MsgInv'
<1>0. /\ got \in [Workers -> Seq(Msgs)]
      /\ wmsg \in [Workers -> 0..MaxMsg] /\ MaxMsg \in Nat
      /\ \A m \in Msgs : m \in Nat /\ m # 0
  BY MessageTypes
<1>1. wmsg[w] # 0 /\ wmsg' = [wmsg EXCEPT ![w] = 0] /\ UNCHANGED <<queue, sent, wobj>>
      /\ (got' = got \/ got' = [got EXCEPT ![w] = Append(@, wmsg[w])])
  BY DEF WriteMessage, PcInv, objVars
<1>2. wmsg[w] \in Msgs
  BY <1>0, <1>1 DEF Msgs
<1>3. /\ wmsg'[w] = 0
      /\ got'[w] = got[w] \/ got'[w] = Append(got[w], wmsg[w])
      /\ \A x \in Workers \ {w} : got'[x] = got[x] /\ wmsg'[x] = wmsg[x]
  BY <1>0, <1>1
<1>4. \A x \in Workers, m \in Msgs : Mine(x, m)' => Mine(x, m)
  <2>1. \A m \in Msgs : Mine(w, m)' => Mine(w, m)
    <3>1. \A m \in Msgs : In(m, got'[w]) => In(m, got[w]) \/ m = wmsg[w]
      <4>1. got[w] \in Seq(Msgs)
        BY <1>0
      <4>2. \A m : In(m, Append(got[w], wmsg[w])) <=> In(m, got[w]) \/ m = wmsg[w]
        BY <1>2, <4>1, AppendIn
      <4>. QED BY <1>3, <4>2
    <3>. QED BY <1>0, <1>3, <3>1 DEF Mine
  <2>. QED BY <1>3, <2>1 DEF Mine
<1>5. \A x \in Workers : Increasing(got'[x])
  <2>1. Increasing(Append(got[w], wmsg[w]))
    BY <1>0, <1>1, <1>2, AppendIncreasing DEF MsgInv
  <2>. QED BY <1>3, <2>1 DEF MsgInv
<1>6. \A x \in Workers : wmsg'[x] # 0 => \A m \in Msgs : In(m, got'[x]) => m < wmsg'[x]
  BY <1>3 DEF MsgInv
<1>7. \A o \in Objs : Increasing(queue'[o]) /\ \A m \in Msgs : In(m, queue'[o]) => m <= sent'
  BY <1>1 DEF MsgInv
<1>8. \A x \in Workers, m \in Msgs : Mine(x, m)' => m <= sent'
  BY <1>1, <1>4 DEF MsgInv
<1>9. \A x \in Workers : wobj'[x] # NoObj =>
        \A m, n \in Msgs : In(m, queue'[wobj'[x]]) /\ Mine(x, n)' => n < m
  BY <1>1, <1>4 DEF MsgInv
<1>10. \A x, y \in Workers : x # y /\ wobj'[x] = wobj'[y] /\ wobj'[x] # NoObj =>
         \A m \in Msgs : ~(Mine(x, m)' /\ Mine(y, m)')
  BY <1>1, <1>4 DEF MsgInv
<1>. QED BY <1>5, <1>6, <1>7, <1>8, <1>9, <1>10 DEF MsgInv, Mine

LEMMA MsgStep ==
  ASSUME TypeOK, TypeOK', PcInv, MsgInv, Step
  PROVE  MsgInv'
<1>0. /\ queue \in [Objs -> Seq(Msgs)] /\ got \in [Workers -> Seq(Msgs)]
      /\ wmsg \in [Workers -> 0..MaxMsg] /\ wobj \in [Workers -> Objs \cup {NoObj}]
      /\ sent \in Nat /\ MaxMsg \in Nat
  BY MessageTypes
<1>1. /\ \A x \in Workers : wobj'[x] # NoObj => wobj'[x] \in Objs
      /\ sent' \in Nat
  <2>1. wobj' \in [Workers -> Objs \cup {NoObj}] /\ sent' \in 0..MaxMsg
    BY DEF TypeOK
  <2>. QED BY <1>0, <2>1
<1>2. ASSUME \A x \in Workers :
               \/ got'[x] = <<>> /\ wmsg'[x] = 0
               \/ got'[x] = got[x] /\ wmsg'[x] = wmsg[x] /\ wobj'[x] = wobj[x],
             UNCHANGED <<queue, sent>>
      PROVE  MsgInv'
  BY <1>0, <1>1, <1>2, MsgKeep
<1>3. ASSUME UNCHANGED <<got, wmsg, wobj, queue, sent>> PROVE MsgInv'
  BY <1>2, <1>3
<1>4. ASSUME NEW w \in Workers, NEW op, NEW i, NEW o, NEW l, Begin(w, op, i, o, l),
             UNCHANGED <<got, wmsg, queue, sent>>
      PROVE  MsgInv'
  <2>1. got[w] = <<>> /\ wmsg[w] = 0
    BY <1>4 DEF Begin, PcInv
  <2>2. \A x \in Workers \ {w} : wobj'[x] = wobj[x]
    BY <1>0, <1>4 DEF Begin
  <2>. QED BY <1>2, <1>4, <2>1, <2>2
<1>5. ASSUME NEW w \in Workers, Finish(w), UNCHANGED <<queue, sent>> PROVE MsgInv'
  BY <1>2, <1>5, FinishShape
<1>6. ASSUME NEW w \in Workers, Request(w) PROVE MsgInv'
  BY <1>3, <1>4, <1>6
     DEF Request, OpenStream, PostStreamable, PostLegacy, DeleteSession
<1>7. ASSUME NEW w \in Workers, WorkerStep(w) PROVE MsgInv'
  <2>1. CASE Respond(w)
    <3>1. sent + 1 \in Msgs /\ sent' = sent + 1
      BY <2>1, AppendType DEF Respond
    <3>2. \A o \in Objs : queue'[o] = queue[o] \/ queue'[o] = Append(queue[o], sent + 1)
      BY <1>0, <2>1 DEF Respond
    <3>3. \A x \in Workers :
            \/ got'[x] = <<>> /\ wmsg'[x] = 0
            \/ got'[x] = got[x] /\ wmsg'[x] = wmsg[x] /\ wobj'[x] = wobj[x]
      BY <2>1, FinishShape DEF Respond
    <3>. QED BY <1>0, <1>1, <3>1, <3>2, <3>3, MsgKeep
  <2>2. CASE CreateSession(w)
    <3>1. got[w] = <<>> /\ wmsg[w] = 0 /\ UNCHANGED <<got, wmsg, queue, sent>>
      BY <2>2 DEF CreateSession, PcInv
    <3>2. \A x \in Workers \ {w} : wobj'[x] = wobj[x]
      BY <1>0, <2>2 DEF CreateSession
    <3>. QED BY <1>2, <3>1, <3>2
  <2>3. CASE PopMessage(w) \/ WriteMessage(w)
    BY <2>3, MsgPop, MsgWrite
  <2>4. CASE Release(w)
    BY <1>3, <1>5, <2>4 DEF Release
  <2>5. CASE RegisterExplicit(w) \/ EraseReleased(w) \/ TerminateSession(w)
    BY <1>5, <2>5 DEF RegisterExplicit, EraseReleased, TerminateSession, objVars
  <2>6. CASE UNCHANGED <<got, wmsg, wobj, queue, sent>>
    BY <1>3, <2>6
  <2>. QED BY <1>7, <2>1, <2>2, <2>3, <2>4, <2>5, <2>6
           DEF WorkerStep, WorkerReaps, WorkerCloses, InsertExplicit, EndStream, objVars
<1>8. CASE Broadcast
  <2>1. /\ sent + 1 \in Msgs /\ sent' = sent + 1
        /\ UNCHANGED <<got, wmsg, wobj>>
    BY <1>8, AppendType DEF Broadcast, workerVars
  <2>2. \A o \in Objs : queue'[o] = queue[o] \/ queue'[o] = Append(queue[o], sent + 1)
    BY <1>8 DEF Broadcast
  <2>. QED BY <1>0, <1>1, <2>1, <2>2, MsgKeep
<1>9. CASE UNCHANGED <<got, wmsg, wobj, queue, sent>>
  BY <1>3, <1>9
<1>. QED BY <1>6, <1>7, <1>8, <1>9
         DEF Step, ClientLeaves, NotifierReaps, NotifierCloses, StopSessions, StopServer,
             Tick, workerVars, objVars

LEMMA WrittenIsMine ==
  ASSUME TypeOK, MsgInv, NEW x \in Workers
  PROVE  /\ got[x] \o InHand(x) \in Seq(Msgs)
         /\ Increasing(got[x] \o InHand(x))
         /\ \A m : In(m, got[x] \o InHand(x)) => Mine(x, m) /\ m \in Msgs
         /\ \A m \in Written(x) : Mine(x, m) /\ m \in Msgs
<1>0. /\ got[x] \in Seq(Msgs) /\ wmsg[x] \in 0..MaxMsg /\ MaxMsg \in Nat
      /\ \A m \in Msgs : m \in Nat /\ m # 0
  BY MessageTypes
<1>1. /\ InHand(x) \in Seq(Msgs) /\ Increasing(InHand(x))
      /\ \A m : In(m, InHand(x)) => wmsg[x] # 0 /\ m = wmsg[x]
  <2>1. CASE wmsg[x] = 0
    BY <2>1, EmptyMsgs, NothingIn DEF InHand, Increasing
  <2>2. CASE wmsg[x] # 0
    <3>1. wmsg[x] \in Msgs
      BY <1>0, <2>2 DEF Msgs
    <3>2. InHand(x) = <<wmsg[x]>>
      BY <2>2 DEF InHand
    <3>3. InHand(x) \in Seq(Msgs) /\ DOMAIN InHand(x) = {1} /\ InHand(x)[1] = wmsg[x]
      BY <3>1, <3>2
    <3>. QED BY <2>2, <3>3 DEF In, Increasing
  <2>. QED BY <2>1, <2>2
<1>2. \A m, n \in Msgs : In(m, got[x]) /\ In(n, InHand(x)) => m < n
  BY <1>1 DEF MsgInv
<1>3. /\ got[x] \o InHand(x) \in Seq(Msgs)
      /\ Increasing(got[x] \o InHand(x))
      /\ \A m : In(m, got[x] \o InHand(x)) <=> In(m, got[x]) \/ In(m, InHand(x))
  BY <1>0, <1>1, <1>2, ConcatShape DEF MsgInv
<1>4. \A m : In(m, got[x] \o InHand(x)) => Mine(x, m) /\ m \in Msgs
  <2>1. \A m : In(m, got[x] \o InHand(x)) => m \in Msgs
    BY <1>3 DEF In
  <2>. QED BY <1>1, <1>3, <2>1 DEF Mine
<1>5. \A m \in Written(x) : In(m, got[x] \o InHand(x))
  BY DEF Written, In
<1>. QED BY <1>3, <1>4, <1>5

LEMMA MessagesFollow ==
  ASSUME TypeOK, MsgInv
  PROVE  MessagesInOrderOnce
<1>1. ASSUME NEW x \in Workers, wobj[x] # NoObj
      PROVE  Increasing(got[x] \o InHand(x) \o queue[wobj[x]])
  <2>1. /\ wobj[x] \in Objs /\ queue[wobj[x]] \in Seq(Msgs)
        /\ Increasing(queue[wobj[x]])
    BY <1>1, MessageTypes DEF MsgInv
  <2>2. \A m, n \in Msgs : In(m, got[x] \o InHand(x)) /\ In(n, queue[wobj[x]]) => m < n
    BY <1>1, WrittenIsMine DEF MsgInv
  <2> DEFINE s == got[x] \o InHand(x)
             t == queue[wobj[x]]
  <2>3. s \in Seq(Msgs) /\ Increasing(s) /\ t \in Seq(Msgs) /\ Increasing(t)
    BY <2>1, WrittenIsMine
  <2>4. \A m, n \in Msgs : In(m, s) /\ In(n, t) => m < n
    BY <2>2
  <2> HIDE DEF s, t
  <2>5. Increasing(s \o t)
    BY <2>3, <2>4, ConcatShape
  <2>. QED BY <2>5 DEF s, t
<1>2. ASSUME NEW x \in Workers, NEW y \in Workers, x # y, wobj[x] = wobj[y],
             wobj[x] # NoObj
      PROVE  Written(x) \cap Written(y) = {}
  BY <1>2, WrittenIsMine DEF MsgInv
<1>. QED BY <1>1, <1>2 DEF MessagesInOrderOnce

-----------------------------------------------------------------------------
(* The inductive invariant and the theorems.                               *)

SessionsInv ==
  TypeOK /\ PcInv /\ ObjInv /\ RoomInv /\ ClosedSessionsLeave /\ AgreeInv /\ MsgInv

LEMMA SessionsInit == Init => SessionsInv
<1> SUFFICES ASSUME Init PROVE SessionsInv
  OBVIOUS
<1>1. TypeOK
  BY SessionsStart
<1>2. PcInv
  BY DEF Init, PcInv
<1>3. ObjInv
  BY DEF Init, ObjInv
<1>4. Used = {}
  BY DEF Init, Used
<1>5. RoomInv
  BY <1>4, FS_EmptySet, SessionsAssumption DEF RoomInv, SessionLimit
<1>6. ClosedSessionsLeave
  BY <1>4 DEF ClosedSessionsLeave
<1>7. AgreeInv
  BY DEF Init, AgreeInv, AgreeAt
<1>8. MsgInv
  <2>1. /\ \A o \in Objs : queue[o] = <<>>
        /\ \A x \in Workers : got[x] = <<>> /\ wmsg[x] = 0 /\ wobj[x] = NoObj
    BY DEF Init
  <2>2. Increasing(<<>>)
    BY DEF Increasing
  <2>3. \A x \in Workers, m \in Msgs : ~Mine(x, m)
    BY <1>1, <2>1, MessageTypes, NothingIn DEF Mine
  <2>. QED BY <2>1, <2>2, <2>3, NothingIn DEF MsgInv
<1>. QED BY <1>1, <1>2, <1>3, <1>5, <1>6, <1>7, <1>8 DEF SessionsInv

LEMMA SessionsStep == SessionsInv /\ [Next]_vars => SessionsInv'
<1> SUFFICES ASSUME SessionsInv, [Next]_vars PROVE SessionsInv'
  OBVIOUS
<1> USE DEF SessionsInv
<1>1. CASE Next
  <2>1. Step /\ raced' \subseteq Ids
    BY <1>1 DEF Next, TypeOK
  <2>2. TypeOK'
    BY <2>1, TypesStep
  <2>3. PcInv' /\ ObjInv' /\ RoomInv' /\ ClosedSessionsLeave' /\ MsgInv'
    BY <2>1, <2>2, PcStep, ObjStep, RoomStep, ClosedStep, MsgStep
  <2>4. AgreeInv'
    <3> SUFFICES ASSUME stopPc' = "no", NEW i \in Ids \ raced' PROVE AgreeAt(i)'
      BY DEF AgreeInv
    <3>1. /\ i \notin raced
          /\ sess'[i] = sess[i] \/ \A x \in Workers : ~Halfway(x, i)
      BY <1>1 DEF Next
    <3>2. AgreeAt(i)
      BY <2>1, <3>1, StopsForGood DEF AgreeInv
    <3>. QED BY <2>1, <3>1, <3>2, AgreeStep
  <2>. QED BY <2>2, <2>3, <2>4
<1>2. CASE UNCHANGED vars
  <2> USE <1>2 DEF vars, tableVars, objVars, workerVars
  <2>1. TypeOK'
    BY DEF TypeOK
  <2>2. PcInv' /\ ObjInv'
    BY DEF PcInv, ObjInv
  <2>3. RoomInv' /\ ClosedSessionsLeave'
    BY DEF RoomInv, SessionLimit, Used, ClosedSessionsLeave
  <2>4. AgreeInv'
    BY DEF AgreeInv, AgreeAt, Halfway
  <2>5. MsgInv'
    BY DEF MsgInv, Mine
  <2>. QED BY <2>1, <2>2, <2>3, <2>4, <2>5
<1>. QED BY <1>1, <1>2

THEOREM SessionsInductive == Spec => []SessionsInv
  BY SessionsInit, SessionsStep, PTL DEF Spec

(* The table keeps its types and never holds more than MAX_MCP_SESSIONS,   *)
(* however many requests make sessions at once.                            *)
THEOREM TableBounded == Spec => []TableOK
<1>1. SessionsInv => TableOK
  BY DEF SessionsInv, RoomInv, TableOK
<1>. QED BY <1>1, SessionsInductive, PTL

(* A closed session stays in the table only while its stream is being      *)
(* released.                                                               *)
THEOREM ClosedLeave == Spec => []ClosedSessionsLeave
<1>1. SessionsInv => ClosedSessionsLeave
  BY DEF SessionsInv
<1>. QED BY <1>1, SessionsInductive, PTL

(* The table and TaskRegistry agree wherever nobody changed an entry in    *)
(* the middle of another's change.                                         *)
THEOREM RegistryFollows == Spec => []RegistryAgrees
<1>1. SessionsInv => RegistryAgrees
  BY DEF SessionsInv, AgreeInv, AgreeAt, RegistryAgrees, Used
<1>. QED BY <1>1, SessionsInductive, PTL

(* Streams write messages in the order they were queued, each once.        *)
THEOREM MessagesOnce == Spec => []MessagesInOrderOnce
<1>1. SessionsInv => MessagesInOrderOnce
  BY MessagesFollow DEF SessionsInv
<1>. QED BY <1>1, SessionsInductive, PTL
=============================================================================
