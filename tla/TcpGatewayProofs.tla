-------------------------- MODULE TcpGatewayProofs --------------------------
(***************************************************************************)
(* Proofs about ToolRegistry, for any set of clients, tool names and       *)
(* scores within the range of the C++ integers that hold them, and about   *)
(* TcpGateway, for any number of satellites, callers, descriptors, tools   *)
(* and requests.                                                           *)
(***************************************************************************)
EXTENDS TcpGateway, WellFoundedInduction, TLAPS

-----------------------------------------------------------------------------
(* The registry.                                                           *)

(* A non-empty set of integers with an upper bound has a greatest element. *)
LEMMA BoundedMax ==
  ASSUME NEW S, S \subseteq Int, S # {},
         NEW b \in Int, \A s \in S : s <= b
  PROVE  \E m \in S : \A s \in S : s <= m
<1> DEFINE D == {b - s : s \in S}
<1>1. D \subseteq Nat
  <2>1. \A s \in S : b - s \in Nat
    OBVIOUS
  <2>. QED BY <2>1
<1>0. D # {}
  <2>1. PICK s \in S : TRUE
    OBVIOUS
  <2>2. b - s \in D
    OBVIOUS
  <2>. QED BY <2>2
<1>2. PICK d \in D : \A e \in D : ~(<<e, d>> \in OpToRel(<, Nat))
  BY <1>0, <1>1, NatLessThanWellFounded, WFMin
<1>3. \A e \in D : ~(e < d)
  BY <1>1, <1>2 DEF OpToRel
<1>4. PICK m \in S : d = b - m
  OBVIOUS
<1>5. ASSUME NEW s \in S PROVE s <= m
  <2>1. b - s \in D
    OBVIOUS
  <2>2. ~(b - s < b - m)
    BY <1>3, <1>4, <2>1
  <2>. QED BY <2>2
<1>. QED BY <1>5

(* Among finitely or infinitely many offers of a tool there is a best one, *)
(* because scores and client ids are bounded integers.                     *)
LEMMA BestExists ==
  ASSUME NEW S, S \subseteq Provider, S # {}
  PROVE  \E p \in S : IsBest(p, S)
<1> USE ClientsBounded DEF ClientsAssumption
<1> USE ScoresBounded DEF ScoresAssumption
<1>1. \A p \in S : /\ p.score \in Int /\ p.score <= MaxScore
                   /\ p.client \in Int /\ p.client <= MaxClient
  BY DEF Provider
<1> DEFINE Top == {p.score : p \in S}
<1>2. PICK m \in Top : \A s \in Top : s <= m
  <2>1. Top \subseteq Int
    BY <1>1
  <2>2. \A s \in Top : s <= MaxScore
    BY <1>1
  <2>3. Top # {}
    OBVIOUS
  <2> HIDE DEF Top
  <2>. QED BY <2>1, <2>2, <2>3, BoundedMax
<1> DEFINE Young == {p.client : p \in {q \in S : q.score = m}}
<1>3. PICK k \in Young : \A c \in Young : c <= k
  <2>1. Young \subseteq Int
    BY <1>1
  <2>2. \A c \in Young : c <= MaxClient
    BY <1>1
  <2>3. Young # {}
    BY <1>2
  <2> HIDE DEF Young
  <2>. QED BY <2>1, <2>2, <2>3, BoundedMax
<1>4. PICK p \in S : p.score = m /\ p.client = k
  BY <1>3
<1>5. ASSUME NEW q \in S PROVE ~Beats(q, p)
  <2>1. q.score <= m
    BY <1>2
  <2>2. q.score = m => q.client <= k
    BY <1>3
  <2>. QED BY <1>1, <1>4, <2>1, <2>2 DEF Beats
<1>. QED BY <1>5 DEF IsBest

(* Best picks a best offer of the tool, and nothing when there is none.    *)
LEMMA BestIsBest ==
  ASSUME NEW ct, NEW n \in ToolNames
  PROVE  IF Providers(ct, n) = {}
         THEN Best(ct, n) = NoTool
         ELSE IsBest(Best(ct, n), Providers(ct, n))
<1>1. CASE Providers(ct, n) = {}
  BY <1>1 DEF Best
<1>2. CASE Providers(ct, n) # {}
  <2>1. Providers(ct, n) \subseteq Provider
    BY DEF Providers
  <2>2. \E p \in Providers(ct, n) : IsBest(p, Providers(ct, n))
    BY <1>2, <2>1, BestExists
  <2>. QED BY <1>2, <2>2 DEF Best
<1>. QED BY <1>1, <1>2

LEMMA BestType ==
  ASSUME NEW ct, NEW n \in ToolNames
  PROVE  Best(ct, n) \in Provider \cup {NoTool}
BY BestIsBest DEF IsBest, Providers

(* Replacing client c's list leaves the offers of every other name alone.  *)
LEMMA ProvidersUntouched ==
  ASSUME NEW ct \in [Clients -> SUBSET Offer], NEW c \in Clients,
         NEW offers \in SUBSET Offer, NEW n \in ToolNames,
         n \notin NamesOf(offers) \cup NamesOf(ct[c])
  PROVE  Providers([ct EXCEPT ![c] = offers], n) = Providers(ct, n)
<1> DEFINE o(p) == [name |-> n, score |-> p.score]
<1>1. ASSUME NEW p \in Provider
      PROVE  o(p) \in [ct EXCEPT ![c] = offers][p.client] <=> o(p) \in ct[p.client]
  <2>1. o(p).name = n
    OBVIOUS
  <2>2. o(p) \notin offers /\ o(p) \notin ct[c]
    BY <2>1 DEF NamesOf
  <2>3. p.client \in Clients
    BY DEF Provider
  <2>. QED BY <2>2, <2>3
<1>. QED BY <1>1 DEF Providers

-----------------------------------------------------------------------------

(* What a step that replaces one client's list does to the two maps:       *)
(* registerTools with the new list, unregisterClient with the empty one.   *)
Replaces(c, offers) ==
  LET ct == [clientTools EXCEPT ![c] = offers] IN
  /\ clientTools' = ct
  /\ tools' = Recomputed(ct, NamesOf(offers) \cup NamesOf(clientTools[c]))

LEMMA UnregisterReplaces ==
  ASSUME NEW c \in Clients, UnregisterClient(c)
  PROVE  Replaces(c, {})
<1>1. NamesOf({}) \cup NamesOf(clientTools[c]) = NamesOf(clientTools[c])
  BY DEF NamesOf
<1>. QED BY <1>1 DEF UnregisterClient, Replaces

RegInv == RegTypeOK /\ TableIsBest

LEMMA ReplacesInv ==
  ASSUME RegInv, NEW c \in Clients, NEW offers \in SUBSET Offer,
         Replaces(c, offers)
  PROVE  RegInv'
<1> DEFINE ct == [clientTools EXCEPT ![c] = offers]
<1> DEFINE names == NamesOf(offers) \cup NamesOf(clientTools[c])
<1>1. clientTools \in [Clients -> SUBSET Offer]
  BY DEF RegInv, RegTypeOK
<1>2. clientTools' = ct /\ tools' = Recomputed(ct, names)
  BY DEF Replaces
<1>3. ct \in [Clients -> SUBSET Offer]
  BY <1>1
<1>4. RegTypeOK'
  <2>1. \A n \in ToolNames : Best(ct, n) \in Provider \cup {NoTool}
    BY BestType
  <2>2. tools' \in [ToolNames -> Provider \cup {NoTool}]
    BY <1>2, <2>1 DEF Recomputed, RegInv, RegTypeOK
  <2>. QED BY <1>2, <1>3, <2>2 DEF RegTypeOK
<1>5. ASSUME NEW n \in ToolNames
      PROVE  IF Providers(ct, n) = {}
             THEN tools'[n] = NoTool
             ELSE IsBest(tools'[n], Providers(ct, n))
  <2>1. CASE n \in names
    <3>1. tools'[n] = Best(ct, n)
      BY <1>2, <2>1 DEF Recomputed
    <3>. QED BY <3>1, BestIsBest
  <2>2. CASE n \notin names
    <3>1. tools'[n] = tools[n]
      BY <1>2, <2>2 DEF Recomputed
    <3>2. Providers(ct, n) = Providers(clientTools, n)
      BY <1>1, <2>2, ProvidersUntouched
    <3>. QED BY <3>1, <3>2 DEF RegInv, TableIsBest
  <2>. QED BY <2>1, <2>2
<1>. QED BY <1>2, <1>4, <1>5 DEF RegInv, TableIsBest

LEMMA RegNextInv == RegInv /\ [RegNext]_regVars => RegInv'
<1> SUFFICES ASSUME RegInv, [RegNext]_regVars PROVE RegInv'
  OBVIOUS
<1>1. ASSUME NEW c \in Clients, NEW offers \in SUBSET Offer,
             RegisterTools(c, offers)
      PROVE  RegInv'
  BY <1>1, ReplacesInv DEF RegisterTools, Replaces
<1>2. ASSUME NEW c \in Clients, UnregisterClient(c)
      PROVE  RegInv'
  BY <1>2, UnregisterReplaces, ReplacesInv
<1>3. CASE Clear
  <2>1. \A n \in ToolNames : Providers(clientTools', n) = {}
    BY <1>3 DEF Clear, Providers, Provider
  <2>. QED BY <1>3, <2>1 DEF Clear, RegInv, RegTypeOK, TableIsBest
<1>4. CASE UNCHANGED regVars
  BY <1>4 DEF regVars, RegInv, RegTypeOK, TableIsBest
<1>. QED BY <1>1, <1>2, <1>3, <1>4 DEF RegNext

LEMMA RegInitInv == RegInit => RegInv
<1> SUFFICES ASSUME RegInit PROVE RegInv
  OBVIOUS
<1>1. \A n \in ToolNames : Providers(clientTools, n) = {}
  BY DEF RegInit, Providers, Provider
<1>. QED BY <1>1 DEF RegInit, RegInv, RegTypeOK, TableIsBest

(* The two maps keep their types.                                          *)
THEOREM RegTypeCorrect == RegSpec => []RegTypeOK
<1>1. RegInv => RegTypeOK
  BY DEF RegInv
<1>. QED BY <1>1, RegInitInv, RegNextInv, PTL DEF RegSpec

(* The provider advertised for a tool (DynamicToolRegistry::_tools) is at  *)
(* all times the best of everything on offer, although only the names a    *)
(* call touched are recomputed.                                            *)
THEOREM AdvertisedIsBest == RegSpec => []TableIsBest
<1>1. RegInv => TableIsBest
  BY DEF RegInv
<1>. QED BY <1>1, RegInitInv, RegNextInv, PTL DEF RegSpec

(* No registration takes a tool from a provider that it does not beat.     *)
THEOREM WeakerNeverDisplaces == RegSpec => OnlyBetterDisplaces
<1> DEFINE Kept == \A n \in ToolNames :
              /\ tools[n] # NoTool
              /\ tools'[n] # tools[n]
              /\ tools[n] \in Providers(clientTools', n)
              => tools'[n] # NoTool /\ Beats(tools'[n], tools[n])
<1>1. RegInv /\ RegInv' => Kept
  <2> SUFFICES ASSUME RegInv, RegInv', NEW n \in ToolNames,
                      tools'[n] # tools[n],
                      tools[n] \in Providers(clientTools', n)
               PROVE  tools'[n] # NoTool /\ Beats(tools'[n], tools[n])
    OBVIOUS
  <2>1. IsBest(tools'[n], Providers(clientTools', n))
    BY DEF RegInv, TableIsBest
  <2>2. tools[n] \in Provider /\ tools'[n] \in Provider
    BY <2>1 DEF IsBest, Providers
  <2>3. ~Beats(tools[n], tools'[n])
    BY <2>1 DEF IsBest
  <2>4. /\ tools[n].score \in Int /\ tools'[n].score \in Int
        /\ tools[n].client \in Int /\ tools'[n].client \in Int
    BY <2>2, ClientsBounded, ScoresBounded
       DEF Provider, ClientsAssumption, ScoresAssumption
  <2>5. \/ tools[n].score # tools'[n].score
        \/ tools[n].client # tools'[n].client
    BY <2>2 DEF Provider
  <2>6. tools'[n] # NoTool
    BY <2>2, NoToolIsNoProvider
  <2>. QED BY <2>3, <2>4, <2>5, <2>6 DEF Beats
<1>2. RegInv /\ [RegNext]_regVars => RegInv'
  BY RegNextInv
<1>. QED BY <1>1, <1>2, RegInitInv, PTL DEF RegSpec, OnlyBetterDisplaces

-----------------------------------------------------------------------------
(* The gateway uses the registry.                                          *)

(* Whatever the gateway does, the registry sees one of its own operations  *)
(* or nothing.                                                             *)
LEMMA RegistryStep == Next => [RegNext]_regVars
<1> SUFFICES ASSUME Next PROVE [RegNext]_regVars
  OBVIOUS
<1>1. ASSUME NEW c \in Clients, Accept(c) \/ PeerCloses(c)
      PROVE  UNCHANGED regVars
  BY <1>1 DEF Accept, PeerCloses
<1>2. ASSUME NEW c \in Clients, ReaderMessage(c) PROVE [RegNext]_regVars
  <2>1. ASSUME NEW offers \in Catalogs, HandleRegister(c, offers)
        PROVE  RegNext
    BY <2>1, GatewayAssumption DEF HandleRegister, RegNext
  <2>2. CASE HandleUnregister(c)
    BY <2>2 DEF HandleUnregister, RegNext
  <2>3. ASSUME NEW r \in Req, NEW a \in Answers, ReadAnswer(c, r, a)
        PROVE  UNCHANGED regVars
    BY <2>3 DEF ReadAnswer
  <2>. QED BY <1>2, <2>1, <2>2, <2>3 DEF ReaderMessage
<1>3. ASSUME NEW c \in Clients, ReaderStep(c) PROVE [RegNext]_regVars
  <2>1. CASE UnregisterTools(c)
    BY <2>1 DEF UnregisterTools, RegNext
  <2>2. CASE ~UnregisterTools(c)
    BY <1>3, <2>2 DEF ReaderStep, NotifyToolsChanged, DeliverAnswer, ReadEof,
       EraseClient, LockPending, FailPending, UnlockPending
  <2>. QED BY <2>1, <2>2
<1>4. ASSUME NEW k \in Callers, NEW n \in ToolNames, CallTool(k, n)
      PROVE  UNCHANGED regVars
  BY <1>4 DEF CallTool
<1>5. ASSUME NEW k \in Callers, CallerStep(k) PROVE UNCHANGED regVars
  BY <1>5 DEF CallerStep, SelectCandidate, NoCandidateLeft, InsertPending,
     ReadSocketFd, SendRequest, SendFails, DropUnsent, EnterWait, Wake,
     Timeout, ErasePending, Decide
<1>6. CASE StopListening
  BY <1>6 DEF StopListening
<1>7. CASE StopStep
  BY <1>7 DEF StopStep, StopClients, StopLockPending, StopFailPending,
     StopClearPending, StopClearRegistry, RegNext
<1>. QED BY <1>1, <1>2, <1>3, <1>4, <1>5, <1>6, <1>7 DEF Next

(* The gateway implements the registry: connections, calls and stop() only *)
(* ever use registerTools, unregisterClient and clear.                     *)
THEOREM ImplementsRegistry == Spec => RegSpec
<1>1. Init => RegInit
  BY DEF Init
<1>2. [Next]_vars => [RegNext]_regVars
  BY RegistryStep DEF vars
<1>. QED BY <1>1, <1>2, PTL DEF Spec, RegSpec

(* So the provider a call is routed to first is always the best one on     *)
(* offer, whatever connections come and go.                                *)
THEOREM RoutedToBest == Spec => []TableIsBest
BY ImplementsRegistry, AdvertisedIsBest, PTL

-----------------------------------------------------------------------------
(* Types.                                                                  *)

(* A reader on its way to deliver holds an answer to some request, and a   *)
(* caller past the insertion has created one.                              *)
Handing == \A c \in Clients : rpc[c] = "deliver" => handing[c] \in Req \X Answers

Waiting == {"readfd", "write", "sendfailed", "enterwait", "waiting",
            "woken", "timedout"}
Deciding == {"decide", "decidetimeout"}

Requested == \A k \in Callers : cpc[k] \in Waiting \cup Deciding => req[k] \in Req

(* The caller of a selected candidate knows its client.                    *)
Selected == \A k \in Callers :
              cpc[k] \in {"insert"} \cup Waiting \cup Deciding => cur[k] \in Clients

GwTypeOK == TypeOK /\ Handing /\ Requested /\ Selected

LEMMA GwTypeInit == Init => GwTypeOK
<1> SUFFICES ASSUME Init PROVE GwTypeOK
  OBVIOUS
<1>1. RegTypeOK
  BY RegInitInv DEF Init, RegInv
<1>2. ConnTypeOK /\ SatTypeOK
  BY DEF Init, ConnTypeOK, SatTypeOK
<1>3. ReaderTypeOK
  BY DEF Init, ReaderTypeOK, ReaderPc
<1>4. CallTypeOK /\ LockTypeOK
  BY GatewayAssumption DEF Init, CallTypeOK, LockTypeOK, CallState, FreshCall, Req
<1>5. CallerTypeOK
  BY GatewayAssumption DEF Init, CallerTypeOK, CallerPc, Outcomes
<1>6. StopTypeOK /\ announced \subseteq ToolNames
  BY DEF Init, StopTypeOK, StopPc
<1>7. Handing /\ Requested /\ Selected
  BY DEF Init, Handing, Requested, Selected, Waiting, Deciding
<1>. QED BY <1>1, <1>2, <1>3, <1>4, <1>5, <1>6, <1>7 DEF GwTypeOK, TypeOK

LEMMA GwTypeNext == GwTypeOK /\ RegTypeOK' /\ Next => GwTypeOK'
<1> SUFFICES ASSUME GwTypeOK, RegTypeOK', Next PROVE GwTypeOK'
  OBVIOUS
<1> USE GatewayAssumption
    DEF GwTypeOK, TypeOK, Threads, GotoR, GotoC,
        ReaderPc, CallerPc, StopPc, Outcomes,
        connVars, satVars, readerVars, callVars, lockVars, callerVars, stopVars
<1>1. ASSUME NEW c \in Clients, Accept(c) PROVE GwTypeOK'
  <2>1. CallTypeOK' /\ LockTypeOK' /\ CallerTypeOK' /\ StopTypeOK'
    BY <1>1 DEF Accept, CallTypeOK, LockTypeOK, CallerTypeOK, StopTypeOK
  <2>2. ConnTypeOK'
    BY <1>1 DEF Accept, ConnTypeOK
  <2>3. SatTypeOK'
    BY <1>1 DEF Accept, SatTypeOK
  <2>4. ReaderTypeOK'
    BY <1>1 DEF Accept, ReaderTypeOK
  <2>5. Handing' /\ Requested' /\ Selected'
    BY <1>1 DEF Accept, ReaderTypeOK, CallerTypeOK, Handing, Requested, Selected, Waiting, Deciding
  <2>. QED BY <1>1, <2>1, <2>2, <2>3, <2>4, <2>5 DEF Accept
<1>2. ASSUME NEW c \in Clients, NEW r \in Req, NEW a \in Answers, ReadAnswer(c, r, a) PROVE GwTypeOK'
  <2>1. ConnTypeOK' /\ CallTypeOK' /\ LockTypeOK' /\ CallerTypeOK' /\ StopTypeOK'
    BY <1>2 DEF ReadAnswer, ConnTypeOK, CallTypeOK, LockTypeOK, CallerTypeOK, StopTypeOK
  <2>2. SatTypeOK'
    BY <1>2 DEF ReadAnswer, SatTypeOK
  <2>3. ReaderTypeOK'
    BY <1>2 DEF ReadAnswer, ReaderTypeOK
  <2>4. Handing'
    <3>1. CASE r \in pending
      <4>1. handing'[c] = <<r, a>>
        BY <1>2, <3>1 DEF ReadAnswer, ReaderTypeOK
      <4>2. \A d \in Clients \ {c} : handing'[d] = handing[d] /\ rpc'[d] = rpc[d]
        BY <1>2, <3>1 DEF ReadAnswer, ReaderTypeOK
      <4>3. handing'[c] \in Req \X Answers
        BY <4>1
      <4>. QED BY <4>2, <4>3 DEF Handing
    <3>2. CASE r \notin pending
      BY <1>2, <3>2 DEF ReadAnswer, Handing
    <3>. QED BY <3>1, <3>2
  <2>5. Requested' /\ Selected'
    BY <1>2 DEF ReadAnswer, Requested, Selected
  <2>. QED BY <1>2, <2>1, <2>2, <2>3, <2>4, <2>5 DEF ReadAnswer
<1>3. ASSUME NEW c \in Clients, DeliverAnswer(c) PROVE GwTypeOK'
  <2>1. ConnTypeOK' /\ SatTypeOK' /\ LockTypeOK' /\ CallerTypeOK' /\ StopTypeOK'
    BY <1>3 DEF DeliverAnswer, ConnTypeOK, SatTypeOK, LockTypeOK, CallerTypeOK, StopTypeOK
  <2>2. ReaderTypeOK'
    BY <1>3 DEF DeliverAnswer, ReaderTypeOK
  <2>3. CallTypeOK'
    <3> DEFINE r == handing[c][1]
               s == [call[r] EXCEPT !.done = TRUE, !.answer = handing[c][2]]
    <3>1. r \in Req /\ handing[c][2] \in Answers
      BY <1>3 DEF DeliverAnswer, Handing
    <3>2. call[r] \in CallState
      BY <3>1 DEF CallTypeOK
    <3>3. s \in CallState
      BY <3>1, <3>2 DEF CallState
    <3>4. call' = [call EXCEPT ![r] = s]
      BY <1>3 DEF DeliverAnswer
    <3> HIDE DEF r, s
    <3>. QED BY <1>3, <3>3, <3>4 DEF DeliverAnswer, CallTypeOK
  <2>4. Handing'
    BY <1>3 DEF DeliverAnswer, Handing, ReaderTypeOK
  <2>5. Requested' /\ Selected'
    BY <1>3 DEF DeliverAnswer, Requested, Selected
  <2>. QED BY <1>3, <2>1, <2>2, <2>3, <2>4, <2>5 DEF DeliverAnswer
<1>4. ASSUME NEW c \in Clients, NEW r \in Req, FailPending(c, r) PROVE GwTypeOK'
  <2>1. ConnTypeOK' /\ SatTypeOK' /\ LockTypeOK' /\ CallerTypeOK' /\ StopTypeOK'
    BY <1>4 DEF FailPending, ConnTypeOK, SatTypeOK, LockTypeOK, CallerTypeOK, StopTypeOK
  <2>2. ReaderTypeOK'
    BY <1>4 DEF FailPending, ReaderTypeOK, FailCall
  <2>3. CallTypeOK'
    BY <1>4 DEF FailPending, CallTypeOK, FailCall, CallState, Failures
  <2>4. Handing' /\ Requested' /\ Selected'
    BY <1>4 DEF FailPending, ReaderTypeOK, CallerTypeOK, Handing, Requested, Selected, Waiting, Deciding
  <2>. QED BY <1>4, <2>1, <2>2, <2>3, <2>4 DEF FailPending
<1>5. ASSUME NEW k \in Callers, NEW n \in ToolNames, CallTool(k, n) PROVE GwTypeOK'
  <2>1. ConnTypeOK' /\ SatTypeOK' /\ ReaderTypeOK' /\ CallTypeOK' /\ LockTypeOK' /\ StopTypeOK'
    BY <1>5 DEF CallTool, ConnTypeOK, SatTypeOK, ReaderTypeOK, CallTypeOK, LockTypeOK, StopTypeOK
  <2>2. Handing'
    BY <1>5 DEF CallTool, Handing
  <2>3. Providers(clientTools, n) \in SUBSET Provider
    BY DEF Providers
  <2>4. CallerTypeOK'
    <3>1. cpc' \in [Callers -> CallerPc] /\ outcome' \in [Callers -> Outcomes]
      BY <1>5 DEF CallTool, Return, CallerTypeOK
    <3>2. left' \in [Callers -> SUBSET Provider]
      BY <1>5, <2>3 DEF CallTool, Return, CallerTypeOK
    <3>0. 0 \in 0..MaxReq
      OBVIOUS
    <3>3. req' \in [Callers -> 0..MaxReq]
      BY <3>0, <1>5 DEF CallTool, CallerTypeOK
    <3>. QED BY <1>5, <3>1, <3>2, <3>3 DEF CallTool, CallerTypeOK
  <2>5. /\ cpc'[k] \in {"idle", "select"}
        /\ \A j \in Callers \ {k} : cpc'[j] = cpc[j] /\ req'[j] = req[j] /\ cur'[j] = cur[j]
    BY <1>5 DEF CallTool, Return, CallerTypeOK
  <2>6. Requested' /\ Selected'
    BY <2>5 DEF Requested, Selected, Waiting, Deciding
  <2>. QED BY <1>5, <2>1, <2>2, <2>4, <2>6 DEF CallTool
<1>6. ASSUME NEW k \in Callers, SelectCandidate(k) PROVE GwTypeOK'
  <2>1. ConnTypeOK' /\ SatTypeOK' /\ ReaderTypeOK' /\ CallTypeOK' /\ LockTypeOK' /\ StopTypeOK'
    BY <1>6 DEF SelectCandidate, ConnTypeOK, SatTypeOK, ReaderTypeOK, CallTypeOK, LockTypeOK, StopTypeOK
  <2>2. Handing'
    BY <1>6 DEF SelectCandidate, Handing
  <2>3. PICK p \in left[k] :
          IF p.client \in known /\ active[p.client] /\ fd[p.client] # NoFd
          THEN /\ cur' = [cur EXCEPT ![k] = p.client]
               /\ attempted' = [attempted EXCEPT ![k] = TRUE]
               /\ GotoC(k, "insert")
               /\ UNCHANGED left
          ELSE /\ left' = [left EXCEPT ![k] = @ \ {p}]
               /\ UNCHANGED <<cur, attempted, cpc>>
    BY <1>6 DEF SelectCandidate
  <2>4. p.client \in Clients /\ left[k] \ {p} \in SUBSET Provider
    <3>1. left[k] \in SUBSET Provider
      BY DEF CallerTypeOK
    <3>2. p \in Provider
      BY <2>3, <3>1
    <3>. QED BY <3>1, <3>2 DEF Provider
  <2>5. CASE p.client \in known /\ active[p.client] /\ fd[p.client] # NoFd
    <3>1. cur' = [cur EXCEPT ![k] = p.client] /\ cpc' = [cpc EXCEPT ![k] = "insert"]
          /\ attempted' = [attempted EXCEPT ![k] = TRUE] /\ UNCHANGED left
      BY <2>3, <2>5
    <3>2. CallerTypeOK'
      BY <1>6, <2>4, <3>1 DEF SelectCandidate, CallerTypeOK
    <3>3. Requested' /\ Selected'
      BY <1>6, <2>4, <3>1 DEF SelectCandidate, Requested, Selected, Waiting, Deciding, CallerTypeOK
    <3>. QED BY <1>6, <2>1, <2>2, <3>2, <3>3 DEF SelectCandidate
  <2>6. CASE ~(p.client \in known /\ active[p.client] /\ fd[p.client] # NoFd)
    <3>1. left' = [left EXCEPT ![k] = left[k] \ {p}] /\ UNCHANGED <<cur, attempted, cpc>>
      BY <2>3, <2>6
    <3>2. CallerTypeOK' /\ Requested' /\ Selected'
      BY <1>6, <2>4, <3>1 DEF SelectCandidate, CallerTypeOK, Requested, Selected
    <3>. QED BY <1>6, <2>1, <2>2, <3>2 DEF SelectCandidate
  <2>. QED BY <2>5, <2>6
<1>7. ASSUME NEW k \in Callers, InsertPending(k) PROVE GwTypeOK'
  <2>1. ConnTypeOK' /\ SatTypeOK' /\ ReaderTypeOK' /\ LockTypeOK' /\ StopTypeOK'
    BY <1>7 DEF InsertPending, ConnTypeOK, SatTypeOK, ReaderTypeOK, LockTypeOK, StopTypeOK
  <2>2. nextReq \in Req /\ nextReq \in 0..MaxReq /\ nextReq + 1 \in 1..(MaxReq + 1)
    BY <1>7 DEF InsertPending, CallTypeOK, Req
  <2>3. CallTypeOK'
    BY <1>7, <2>2 DEF InsertPending, CallTypeOK
  <2>4. CallerTypeOK'
    BY <1>7, <2>2 DEF InsertPending, CallerTypeOK
  <2>5. Handing'
    BY <1>7 DEF InsertPending, Handing
  <2>6. Requested' /\ Selected'
    BY <1>7, <2>2 DEF InsertPending, Requested, Selected, Waiting, Deciding, CallerTypeOK
  <2>. QED BY <1>7, <2>1, <2>3, <2>4, <2>5, <2>6 DEF InsertPending
<1>8. ASSUME NEW k \in Callers, SendRequest(k) PROVE GwTypeOK'
  <2>1. ConnTypeOK' /\ ReaderTypeOK' /\ CallTypeOK' /\ LockTypeOK' /\ StopTypeOK'
    BY <1>8 DEF SendRequest, ConnTypeOK, ReaderTypeOK, CallTypeOK, LockTypeOK, StopTypeOK
  <2>2. SatTypeOK'
    <3>1. req[k] \in Req
      BY <1>8 DEF SendRequest, Requested, Waiting
    <3>. QED BY <1>8, <3>1 DEF SendRequest, SatTypeOK
  <2>3. CallerTypeOK'
    BY <1>8 DEF SendRequest, CallerTypeOK
  <2>4. Handing' /\ Requested' /\ Selected'
    BY <1>8 DEF SendRequest, Handing, Requested, Selected, Waiting, Deciding, CallerTypeOK
  <2>. QED BY <1>8, <2>1, <2>2, <2>3, <2>4 DEF SendRequest
<1>9. ASSUME NEW k \in Callers, DropUnsent(k) PROVE GwTypeOK'
  <2>1. ConnTypeOK' /\ SatTypeOK' /\ ReaderTypeOK' /\ LockTypeOK' /\ StopTypeOK'
    BY <1>9 DEF DropUnsent, ConnTypeOK, SatTypeOK, ReaderTypeOK, LockTypeOK, StopTypeOK
  <2>2. CallTypeOK'
    BY <1>9 DEF DropUnsent, CallTypeOK
  <2>3. Handing'
    BY <1>9 DEF DropUnsent, Handing
  <2> DEFINE rest == {p \in left[k] : ~IsBest(p, left[k])}
  <2>4. rest \in SUBSET Provider
    BY DEF CallerTypeOK
  <2>5. /\ cpc' \in [Callers -> CallerPc] /\ cpc'[k] \in {"idle", "select"}
        /\ \A j \in Callers \ {k} : cpc'[j] = cpc[j]
        /\ left' \in [Callers -> SUBSET Provider]
        /\ outcome' \in [Callers -> Outcomes]
    <3>1. CASE MoreCandidates(k)
      <4>1. left' = [left EXCEPT ![k] = rest] /\ GotoC(k, "select") /\ UNCHANGED outcome
        BY <1>9, <3>1 DEF DropUnsent, NextCandidate, CallerTypeOK
      <4> HIDE DEF rest
      <4>. QED BY <1>9, <2>4, <4>1 DEF DropUnsent, CallerTypeOK
    <3>2. CASE ~MoreCandidates(k)
      BY <1>9, <3>2 DEF DropUnsent, Return, CallerTypeOK
    <3>. QED BY <3>1, <3>2
  <2>6. CallerTypeOK'
    BY <1>9, <2>5 DEF DropUnsent, CallerTypeOK
  <2>7. Requested' /\ Selected'
    BY <1>9, <2>5 DEF DropUnsent, Requested, Selected, Waiting, Deciding, CallerTypeOK
  <2>. QED BY <1>9, <2>1, <2>2, <2>3, <2>6, <2>7 DEF DropUnsent
<1>10. ASSUME NEW k \in Callers, EnterWait(k) PROVE GwTypeOK'
  <2>1. ConnTypeOK' /\ SatTypeOK' /\ ReaderTypeOK' /\ CallTypeOK' /\ StopTypeOK'
    BY <1>10 DEF EnterWait, ConnTypeOK, SatTypeOK, ReaderTypeOK, CallTypeOK, StopTypeOK
  <2>2. LockTypeOK'
    BY <1>10 DEF EnterWait, LockTypeOK
  <2>3. CallerTypeOK'
    BY <1>10 DEF EnterWait, CallerTypeOK
  <2>4. /\ cpc'[k] \in Waiting /\ cpc[k] \in Waiting
        /\ \A j \in Callers \ {k} : cpc'[j] = cpc[j]
    BY <1>10 DEF EnterWait, CallerTypeOK, Waiting
  <2>5. Handing' /\ Requested' /\ Selected'
    BY <1>10, <2>4 DEF EnterWait, Handing, Requested, Selected
  <2>. QED BY <1>10, <2>1, <2>2, <2>3, <2>5 DEF EnterWait
<1>11. ASSUME NEW k \in Callers, Wake(k) PROVE GwTypeOK'
  <2>1. ConnTypeOK' /\ SatTypeOK' /\ ReaderTypeOK' /\ CallTypeOK' /\ StopTypeOK'
    BY <1>11 DEF Wake, ConnTypeOK, SatTypeOK, ReaderTypeOK, CallTypeOK, StopTypeOK
  <2>2. LockTypeOK'
    BY <1>11 DEF Wake, LockTypeOK
  <2>3. CallerTypeOK'
    BY <1>11 DEF Wake, CallerTypeOK
  <2>4. Handing' /\ Requested' /\ Selected'
    BY <1>11 DEF Wake, ReaderTypeOK, CallerTypeOK, Handing, Requested, Selected, Waiting, Deciding
  <2>. QED BY <1>11, <2>1, <2>2, <2>3, <2>4 DEF Wake
<1>12. ASSUME NEW k \in Callers, Decide(k) PROVE GwTypeOK'
  <2>1. ConnTypeOK' /\ SatTypeOK' /\ ReaderTypeOK' /\ CallTypeOK' /\ StopTypeOK'
    BY <1>12 DEF Decide, ConnTypeOK, SatTypeOK, ReaderTypeOK, CallTypeOK, StopTypeOK
  <2>2. LockTypeOK'
    BY <1>12 DEF Decide, LockTypeOK
  <2>3. Handing'
    BY <1>12 DEF Decide, Handing
  <2> DEFINE rest == {p \in left[k] : ~IsBest(p, left[k])}
  <2>4. /\ rest \in SUBSET Provider
        /\ Verdict(call[req[k]]) \in Outcomes
    <3>1. req[k] \in Req
      BY <1>12 DEF Decide, Requested, Deciding
    <3>2. call[req[k]] \in CallState
      BY <3>1 DEF CallTypeOK
    <3>. QED BY <3>2 DEF CallerTypeOK, Verdict, CallState, Answers, Failures
  <2>5. /\ cpc' \in [Callers -> CallerPc] /\ cpc'[k] \in {"idle", "select"}
        /\ \A j \in Callers \ {k} : cpc'[j] = cpc[j]
        /\ left' \in [Callers -> SUBSET Provider]
        /\ outcome' \in [Callers -> Outcomes]
    <3> DEFINE more == /\ cpc[k] # "decidetimeout"
                       /\ ~active[cur[k]] \/ call[req[k]].err = "disconnected"
                       /\ MoreCandidates(k)
    <3>1. CASE more
      <4>1. left' = [left EXCEPT ![k] = rest] /\ GotoC(k, "select") /\ UNCHANGED outcome
        BY <1>12, <3>1 DEF Decide, NextCandidate, CallerTypeOK
      <4> HIDE DEF rest
      <4>. QED BY <1>12, <2>4, <4>1 DEF Decide, CallerTypeOK
    <3>2. CASE ~more
      <4>1. PICK o \in Outcomes : Return(k, o)
        BY <1>12, <2>4, <3>2 DEF Decide
      <4>. QED BY <1>12, <4>1 DEF Return, CallerTypeOK
    <3>. QED BY <3>1, <3>2
  <2>6. CallerTypeOK'
    BY <1>12, <2>5 DEF Decide, CallerTypeOK
  <2>7. Requested' /\ Selected'
    BY <1>12, <2>5 DEF Decide, Requested, Selected, Waiting, Deciding, CallerTypeOK
  <2>. QED BY <1>12, <2>1, <2>2, <2>3, <2>6, <2>7 DEF Decide
<1>13. ASSUME NEW r \in Req, StopFailPending(r) PROVE GwTypeOK'
  <2>1. ConnTypeOK' /\ SatTypeOK' /\ LockTypeOK' /\ CallerTypeOK' /\ StopTypeOK'
    BY <1>13 DEF StopFailPending, ConnTypeOK, SatTypeOK, LockTypeOK, CallerTypeOK, StopTypeOK
  <2>2. ReaderTypeOK'
    BY <1>13 DEF StopFailPending, ReaderTypeOK, FailCall
  <2>3. CallTypeOK'
    BY <1>13 DEF StopFailPending, CallTypeOK, FailCall, CallState, Failures
  <2>4. Handing' /\ Requested' /\ Selected'
    BY <1>13 DEF StopFailPending, ReaderTypeOK, CallerTypeOK, Handing, Requested, Selected, Waiting, Deciding
  <2>. QED BY <1>13, <2>1, <2>2, <2>3, <2>4 DEF StopFailPending
<1> USE DEF ConnTypeOK, SatTypeOK, ReaderTypeOK, CallTypeOK, LockTypeOK,
            CallerTypeOK, StopTypeOK, Handing, Requested, Selected, Waiting,
            Deciding
<1>14. ASSUME NEW c \in Clients, PeerCloses(c) PROVE GwTypeOK'
  BY <1>14 DEF PeerCloses
<1>15. ASSUME NEW c \in Clients, NEW offers \in Catalogs, HandleRegister(c, offers) PROVE GwTypeOK'
  BY <1>15 DEF HandleRegister
<1>16. ASSUME NEW c \in Clients, HandleUnregister(c) PROVE GwTypeOK'
  BY <1>16 DEF HandleUnregister
<1>17. ASSUME NEW c \in Clients, NotifyToolsChanged(c) PROVE GwTypeOK'
  BY <1>17 DEF NotifyToolsChanged, Listed
<1>18. ASSUME NEW c \in Clients, ReadEof(c) PROVE GwTypeOK'
  BY <1>18 DEF ReadEof
<1>19. ASSUME NEW c \in Clients, UnregisterTools(c) PROVE GwTypeOK'
  BY <1>19 DEF UnregisterTools
<1>20. ASSUME NEW c \in Clients, EraseClient(c) PROVE GwTypeOK'
  BY <1>20 DEF EraseClient
<1>21. ASSUME NEW c \in Clients, LockPending(c) PROVE GwTypeOK'
  BY <1>21 DEF LockPending
<1>22. ASSUME NEW c \in Clients, UnlockPending(c) PROVE GwTypeOK'
  BY <1>22 DEF UnlockPending
<1>23. ASSUME NEW k \in Callers, NoCandidateLeft(k) PROVE GwTypeOK'
  BY <1>23 DEF NoCandidateLeft, Return
<1>24. ASSUME NEW k \in Callers, ReadSocketFd(k) PROVE GwTypeOK'
  BY <1>24 DEF ReadSocketFd
<1>25. ASSUME NEW k \in Callers, SendFails(k) PROVE GwTypeOK'
  BY <1>25 DEF SendFails
<1>26. ASSUME NEW k \in Callers, Timeout(k) PROVE GwTypeOK'
  BY <1>26 DEF Timeout
<1>27. ASSUME NEW k \in Callers, ErasePending(k) PROVE GwTypeOK'
  BY <1>27 DEF ErasePending
<1>28. CASE StopListening
  BY <1>28 DEF StopListening
<1>29. CASE StopClients
  BY <1>29 DEF StopClients
<1>30. CASE StopLockPending
  BY <1>30 DEF StopLockPending
<1>31. CASE StopClearPending
  BY <1>31 DEF StopClearPending
<1>32. CASE StopClearRegistry
  BY <1>32 DEF StopClearRegistry
<1>. QED
  BY <1>1, <1>2, <1>3, <1>4, <1>5, <1>6, <1>7, <1>8, <1>9, <1>10, <1>11, <1>12, <1>13, <1>14, <1>15, <1>16, <1>17, <1>18, <1>19, <1>20, <1>21, <1>22, <1>23, <1>24, <1>25, <1>26, <1>27, <1>28, <1>29, <1>30, <1>31, <1>32
  DEF Next, ReaderMessage, ReaderStep, CallerStep, StopStep

GwInv == RegInv /\ GwTypeOK

LEMMA GwInvInit == Init => GwInv
BY GwTypeInit, RegInitInv DEF Init, GwInv

LEMMA GwInvNext == GwInv /\ [Next]_vars => GwInv'
<1> SUFFICES ASSUME GwInv, [Next]_vars PROVE GwInv'
  OBVIOUS
<1>1. RegInv'
  BY RegistryStep, RegNextInv DEF GwInv, vars
<1>2. CASE Next
  BY <1>1, <1>2, GwTypeNext DEF GwInv, RegInv
<1>3. CASE UNCHANGED vars
  BY <1>3 DEF vars, regVars, connVars, satVars, readerVars, callVars, lockVars,
     callerVars, stopVars, GwInv, GwTypeOK, TypeOK, RegInv, RegTypeOK,
     ConnTypeOK, SatTypeOK, ReaderTypeOK, CallTypeOK, LockTypeOK, CallerTypeOK,
     StopTypeOK, Handing, Requested, Selected, TableIsBest
<1>. QED BY <1>1, <1>2, <1>3 DEF GwInv

LEMMA TypeCorrect == Spec => []TypeOK
<1>1. GwInv => TypeOK
  BY DEF GwInv, GwTypeOK
<1>. QED BY <1>1, GwInvInit, GwInvNext, PTL DEF Spec

-----------------------------------------------------------------------------
(* The table of pending calls.                                             *)

LEMMA PendingNext ==
  ASSUME CallerTypeOK, NoLeakedPending, Next
  PROVE  NoLeakedPending'
<1> USE DEF Waiting, connVars, satVars, readerVars, callVars, lockVars,
            callerVars, stopVars, GotoR, GotoC
<1> DEFINE Held(r, k) == req[k] = r /\ cpc[k] \in Waiting
<1>0. \A r \in pending : \E k \in Callers : Held(r, k)
  BY DEF NoLeakedPending
<1>1. SUFFICES \A r \in pending' : \E k \in Callers : Held(r, k)'
  BY DEF NoLeakedPending
<1> HIDE DEF Held
(* What a caller k in a step of its own leaves of the other entries.       *)
<1>2. ASSUME NEW k \in Callers, NEW P \in SUBSET pending, pending' = P,
             \A j \in Callers \ {k} : req'[j] = req[j] /\ cpc'[j] = cpc[j],
             \A r \in P : Held(r, k) => Held(r, k)'
      PROVE  \A r \in pending' : \E j \in Callers : Held(r, j)'
  BY <1>0, <1>2 DEF Held
<1>3. ASSUME NEW k \in Callers, NEW n \in ToolNames, CallTool(k, n)
      PROVE  \A r \in pending' : \E j \in Callers : Held(r, j)'
  BY <1>2, <1>3 DEF CallTool, Return, CallerTypeOK, Held
<1>4. ASSUME NEW k \in Callers, CallerStep(k)
      PROVE  \A r \in pending' : \E j \in Callers : Held(r, j)'
  <2>1. CASE InsertPending(k)
    <3>1. \A r \in pending : \E j \in Callers : Held(r, j) /\ j # k
      BY <1>0, <2>1 DEF InsertPending, Held
    <3>2. req'[k] = nextReq /\ cpc'[k] \in Waiting
      BY <2>1 DEF InsertPending, Held, CallerTypeOK
    <3>3. \A j \in Callers \ {k} : req'[j] = req[j] /\ cpc'[j] = cpc[j]
      BY <2>1 DEF InsertPending, CallerTypeOK
    <3>. QED BY <2>1, <3>1, <3>2, <3>3 DEF InsertPending, Held
  <2>2. CASE SelectCandidate(k) \/ NoCandidateLeft(k) \/ DropUnsent(k)
             \/ ErasePending(k) \/ Decide(k)
    <3>1. \A j \in Callers \ {k} : req'[j] = req[j] /\ cpc'[j] = cpc[j]
      BY <2>2 DEF SelectCandidate, NoCandidateLeft, DropUnsent, ErasePending,
         Decide, NextCandidate, Return, CallerTypeOK
    <3>2. pending' \in SUBSET pending
      BY <2>2 DEF SelectCandidate, NoCandidateLeft, DropUnsent, ErasePending, Decide
    <3>3. \A r \in pending' : ~Held(r, k)
      BY <2>2 DEF SelectCandidate, NoCandidateLeft, DropUnsent, ErasePending,
         Decide, Held
    <3>. QED BY <1>2, <3>1, <3>2, <3>3
  <2>3. CASE ReadSocketFd(k) \/ SendRequest(k) \/ SendFails(k) \/ EnterWait(k)
             \/ Wake(k) \/ Timeout(k)
    <3>1. /\ pending' = pending /\ req' = req /\ cpc'[k] \in Waiting
          /\ \A j \in Callers \ {k} : cpc'[j] = cpc[j]
      BY <2>3 DEF ReadSocketFd, SendRequest, SendFails, EnterWait, Wake,
         Timeout, CallerTypeOK
    <3>. QED BY <1>2, <3>1 DEF Held
  <2>. QED BY <1>4, <2>1, <2>2, <2>3 DEF CallerStep
<1>5. CASE pending' \in SUBSET pending /\ UNCHANGED <<cpc, req>>
  BY <1>0, <1>5 DEF Held
<1>6. ASSUME NEW c \in Clients, Accept(c) \/ PeerCloses(c)
      PROVE  UNCHANGED <<pending, cpc, req>>
  BY <1>6 DEF Accept, PeerCloses
<1>7. ASSUME NEW c \in Clients, ReaderMessage(c) \/ ReaderStep(c)
      PROVE  UNCHANGED <<pending, cpc, req>>
  BY <1>7 DEF ReaderMessage, ReaderStep, HandleRegister, HandleUnregister,
     ReadAnswer, NotifyToolsChanged, DeliverAnswer, ReadEof, UnregisterTools,
     EraseClient, LockPending, FailPending, UnlockPending
<1>8. CASE StopListening \/ StopStep
  BY <1>5, <1>8 DEF StopListening, StopStep, StopClients, StopLockPending,
     StopFailPending, StopClearPending, StopClearRegistry
<1>. QED BY <1>3, <1>4, <1>5, <1>6, <1>7, <1>8 DEF Next

LEMMA PendingNeverLeaks == Spec => []NoLeakedPending
<1>1. Init => NoLeakedPending
  BY DEF Init, NoLeakedPending
<1>2. GwInv /\ NoLeakedPending /\ [Next]_vars => NoLeakedPending'
  <2> SUFFICES ASSUME GwInv, NoLeakedPending, [Next]_vars PROVE NoLeakedPending'
    OBVIOUS
  <2>1. CASE Next
    BY <2>1, PendingNext DEF GwInv, GwTypeOK, TypeOK
  <2>2. CASE UNCHANGED vars
    BY <2>2 DEF NoLeakedPending, vars, callVars, callerVars
  <2>. QED BY <2>1, <2>2
<1>. QED BY <1>1, <1>2, GwInvInit, GwInvNext, PTL DEF Spec

(* Every variable keeps its type, and no call leaves an entry in           *)
(* _pendingCalls, however it ends: the map holds at most one entry per     *)
(* caller.                                                                 *)
THEOREM PendingSafe == Spec => []CallsOK
BY TypeCorrect, PendingNeverLeaks, PTL DEF CallsOK

-----------------------------------------------------------------------------
(* The mutex of a pending call.                                            *)

(* A caller that has woken up holds the mutex of its call until it has     *)
(* decided.                                                                *)
Woken == {"woken", "timedout", "decide", "decidetimeout"}

HoldsItsCall == \A k \in Callers : cpc[k] \in Woken => callLock[req[k]] = k

LockInv == HoldsItsCall /\ TimeoutMeansUnanswered

(* A completed call is one whose mutex nobody held.                        *)
LEMMA CompletesUnlocked ==
  ASSUME GwTypeOK, Next, NEW r \in Req, call'[r] # call[r]
  PROVE  callLock[r] = NoThread /\ UNCHANGED <<callLock, cpc, req>>
<1> USE DEF connVars, satVars, readerVars, callVars, lockVars, callerVars,
            stopVars
<1>0. call \in [Req -> CallState]
  BY DEF GwTypeOK, TypeOK, CallTypeOK
<1>1. ASSUME NEW c \in Clients, DeliverAnswer(c)
      PROVE  callLock[r] = NoThread /\ UNCHANGED <<callLock, cpc, req>>
  BY <1>0, <1>1 DEF DeliverAnswer
<1>2. ASSUME NEW t, NEW q \in Req, NEW why, FailCall(t, q, why)
      PROVE  callLock[r] = NoThread
  BY <1>0, <1>2 DEF FailCall
<1>3. ASSUME NEW c \in Clients, NEW q \in Req, FailPending(c, q)
      PROVE  callLock[r] = NoThread /\ UNCHANGED <<callLock, cpc, req>>
  BY <1>2, <1>3 DEF FailPending
<1>4. ASSUME NEW q \in Req, StopFailPending(q)
      PROVE  callLock[r] = NoThread /\ UNCHANGED <<callLock, cpc, req>>
  BY <1>2, <1>4 DEF StopFailPending
<1>5. ASSUME NEW c \in Clients, ReaderMessage(c) \/ ReaderStep(c)
      PROVE  callLock[r] = NoThread /\ UNCHANGED <<callLock, cpc, req>>
  BY <1>1, <1>3, <1>5 DEF ReaderMessage, ReaderStep, HandleRegister,
     HandleUnregister, ReadAnswer, NotifyToolsChanged, ReadEof,
     UnregisterTools, EraseClient, LockPending, UnlockPending
<1>6. ASSUME NEW k \in Callers, NEW n \in ToolNames, CallTool(k, n) PROVE FALSE
  BY <1>6 DEF CallTool
<1>7. ASSUME NEW k \in Callers, CallerStep(k) PROVE FALSE
  BY <1>7 DEF CallerStep, SelectCandidate, NoCandidateLeft, InsertPending,
     ReadSocketFd, SendRequest, SendFails, DropUnsent, EnterWait, Wake,
     Timeout, ErasePending, Decide
<1>8. CASE StopListening \/ StopStep
  BY <1>4, <1>8 DEF StopListening, StopStep, StopClients, StopLockPending,
     StopClearPending, StopClearRegistry
<1>. QED BY <1>5, <1>6, <1>7, <1>8 DEF Next, Accept, PeerCloses

(* What a step does to the mutexes and to the callers that hold one.       *)
LEMMA LockStep ==
  ASSUME GwTypeOK, HoldsItsCall, Next, NEW k \in Callers, cpc'[k] \in Woken
  PROVE  /\ req'[k] = req[k] /\ req[k] \in Req
         /\ callLock'[req[k]] = k
         /\ \/ cpc[k] \in Woken /\ (cpc'[k] = "decidetimeout" => cpc[k] \in {"timedout", "decidetimeout"})
                              /\ (cpc'[k] = "timedout" => cpc[k] = "timedout")
            \/ callLock[req[k]] = NoThread /\ call' = call
               /\ (cpc'[k] \in {"timedout", "decidetimeout"} => ~call[req[k]].done)
<1> USE DEF connVars, satVars, readerVars, callVars, lockVars, callerVars,
            stopVars, GotoC, GotoR, Woken
<1> DEFINE Goal == /\ req'[k] = req[k] /\ req[k] \in Req
         /\ callLock'[req[k]] = k
         /\ \/ cpc[k] \in Woken /\ (cpc'[k] = "decidetimeout" => cpc[k] \in {"timedout", "decidetimeout"})
                              /\ (cpc'[k] = "timedout" => cpc[k] = "timedout")
            \/ callLock[req[k]] = NoThread /\ call' = call
               /\ (cpc'[k] \in {"timedout", "decidetimeout"} => ~call[req[k]].done)
<1>0. /\ callLock \in [Req -> Callers \cup {NoThread}]
      /\ cpc \in [Callers -> CallerPc] /\ req \in [Callers -> 0..MaxReq]
      /\ \A j \in Callers : cpc[j] \in Woken => req[j] \in Req /\ callLock[req[j]] = j
      /\ \A j \in Callers : cpc[j] \in {"enterwait", "waiting"} => req[j] \in Req
  BY DEF GwTypeOK, TypeOK, LockTypeOK, CallerTypeOK, Requested, Waiting,
     Deciding, HoldsItsCall
<1>1. CASE UNCHANGED <<cpc, req, callLock>>
  BY <1>0, <1>1
<1>2. ASSUME NEW j \in Callers, NEW n \in ToolNames, CallTool(j, n) PROVE Goal
  BY <1>0, <1>2 DEF CallTool, Return
<1>3. ASSUME NEW j \in Callers, EnterWait(j) \/ Wake(j) \/ Timeout(j) PROVE Goal
  <2>1. /\ req' = req /\ call' = call /\ req[j] \in Req
        /\ \A i \in Callers \ {j} : cpc'[i] = cpc[i]
        /\ callLock[req[j]] = NoThread
    BY <1>0, <1>3 DEF EnterWait, Wake, Timeout
  <2>2. CASE k = j
    BY <1>0, <1>3, <2>1, <2>2 DEF EnterWait, Wake, Timeout
  <2>3. CASE k # j
    <3>1. cpc[k] \in Woken /\ cpc'[k] = cpc[k] /\ callLock[req[k]] = k
      BY <1>0, <2>1, <2>3
    <3>2. req[k] # req[j]
      BY <2>1, <3>1, GatewayAssumption DEF Threads
    <3>3. callLock'[req[k]] = callLock[req[k]]
      BY <1>0, <1>3, <3>1, <3>2 DEF EnterWait, Wake, Timeout
    <3>. QED BY <1>0, <2>1, <3>1, <3>3
  <2>. QED BY <2>2, <2>3
<1>4. ASSUME NEW j \in Callers, ErasePending(j) PROVE Goal
  BY <1>0, <1>4 DEF ErasePending
<1>5. ASSUME NEW j \in Callers, Decide(j) PROVE Goal
  <2>1. callLock' = [callLock EXCEPT ![req[j]] = NoThread] /\ req' = req
    BY <1>5 DEF Decide
  <2>2. cpc'[j] \in {"idle", "select"} /\ \A i \in Callers \ {j} : cpc'[i] = cpc[i]
    BY <1>0, <1>5 DEF Decide, NextCandidate, Return
  <2>3. k # j /\ cpc[k] \in Woken /\ cpc'[k] = cpc[k]
    BY <2>2
  <2>4. req[k] # req[j]
    BY <1>0, <1>5, <2>3 DEF Decide
  <2>. QED BY <1>0, <2>1, <2>3, <2>4
<1>6. ASSUME NEW j \in Callers,
             \/ SelectCandidate(j) \/ NoCandidateLeft(j) \/ InsertPending(j)
             \/ ReadSocketFd(j) \/ SendRequest(j) \/ SendFails(j) \/ DropUnsent(j)
      PROVE  Goal
  <2>1. /\ callLock' = callLock
        /\ cpc'[j] \notin Woken
        /\ \A i \in Callers \ {j} : cpc'[i] = cpc[i] /\ req'[i] = req[i]
    BY <1>0, <1>6 DEF SelectCandidate, NoCandidateLeft, InsertPending,
       ReadSocketFd, SendRequest, SendFails, DropUnsent, NextCandidate, Return
  <2>. QED BY <1>0, <2>1
<1>7. ASSUME NEW j \in Callers, CallerStep(j) PROVE Goal
  BY <1>3, <1>4, <1>5, <1>6, <1>7 DEF CallerStep
<1>8. ASSUME NEW c \in Clients, ReaderMessage(c) \/ ReaderStep(c)
      PROVE  UNCHANGED <<cpc, req, callLock>>
  BY <1>8 DEF ReaderMessage, ReaderStep, HandleRegister, HandleUnregister,
     ReadAnswer, NotifyToolsChanged, DeliverAnswer, ReadEof, UnregisterTools,
     EraseClient, LockPending, FailPending, UnlockPending
<1>9. CASE StopListening \/ StopStep
  BY <1>1, <1>9 DEF StopListening, StopStep, StopClients, StopLockPending,
     StopFailPending, StopClearPending, StopClearRegistry
<1>. QED BY <1>1, <1>2, <1>7, <1>8, <1>9 DEF Next, Accept, PeerCloses

LEMMA LockInvNext ==
  ASSUME GwTypeOK, LockInv, Next
  PROVE  LockInv'
<1>1. HoldsItsCall'
  BY LockStep DEF LockInv, HoldsItsCall
<1>2. ASSUME NEW k \in Callers, cpc'[k] \in {"timedout", "decidetimeout"}
      PROVE  ~call'[req'[k]].done /\ callLock'[req'[k]] = k
  <2>1. HoldsItsCall /\ cpc'[k] \in Woken
    BY <1>2 DEF LockInv, Woken
  <2>2. req'[k] = req[k] /\ req[k] \in Req /\ callLock'[req[k]] = k
    BY <2>1, LockStep
  <2>3. CASE call'[req[k]] # call[req[k]]
    <3>1. callLock[req[k]] = NoThread /\ UNCHANGED <<callLock, cpc, req>>
      BY <2>2, <2>3, CompletesUnlocked
    <3>. QED BY <2>2, <3>1, GatewayAssumption DEF Threads
  <2>4. CASE call'[req[k]] = call[req[k]]
    <3>1. ~call[req[k]].done
      BY <1>2, <2>1, LockStep DEF LockInv, TimeoutMeansUnanswered, Woken
    <3>. QED BY <2>2, <2>4, <3>1
  <2>. QED BY <2>3, <2>4
<1>. QED BY <1>1, <1>2 DEF LockInv, TimeoutMeansUnanswered

(* A call that is reported as timed out has not been answered: the answer  *)
(* that races the timeout either completes the call before wait_for takes  *)
(* its mutex, or finds it gone.                                            *)
THEOREM TimeoutIsUnanswered == Spec => []TimeoutMeansUnanswered
<1>1. Init => LockInv
  BY DEF Init, LockInv, HoldsItsCall, TimeoutMeansUnanswered, Woken
<1>2. GwInv /\ LockInv /\ [Next]_vars => LockInv'
  <2> SUFFICES ASSUME GwInv, LockInv, [Next]_vars PROVE LockInv'
    OBVIOUS
  <2>1. CASE Next
    BY <2>1, LockInvNext DEF GwInv
  <2>2. CASE UNCHANGED vars
    BY <2>2 DEF LockInv, HoldsItsCall, TimeoutMeansUnanswered, vars, callVars,
       callerVars, lockVars
  <2>. QED BY <2>1, <2>2
<1>3. LockInv => TimeoutMeansUnanswered
  BY DEF LockInv
<1>. QED BY <1>1, <1>2, <1>3, GwInvInit, GwInvNext, PTL DEF Spec

-----------------------------------------------------------------------------
(* Standstill.  Whoever holds a mutex is at a step that has it.            *)
CallHolders ==
  \A r \in Req :
    callLock[r] # NoThread
      => /\ callLock[r] \in Callers
         /\ req[callLock[r]] = r
         /\ cpc[callLock[r]] \in Woken

PendingHolder ==
  /\ \A c \in Clients : pendingLock = c => rpc[c] = "failing"
  /\ pendingLock = Stopper => stopPc = "failing"

Holders == CallHolders /\ PendingHolder

LEMMA CallHoldersNext ==
  ASSUME GwTypeOK, CallHolders, Next
  PROVE  CallHolders'
<1> USE DEF connVars, satVars, readerVars, callVars, lockVars, callerVars,
            stopVars, GotoC, GotoR, Woken
<1>0. /\ callLock \in [Req -> Callers \cup {NoThread}]
      /\ cpc \in [Callers -> CallerPc] /\ req \in [Callers -> 0..MaxReq]
      /\ \A j \in Callers : cpc[j] \in {"enterwait", "waiting"} => req[j] \in Req
  BY DEF GwTypeOK, TypeOK, LockTypeOK, CallerTypeOK, Requested, Waiting
<1>1. CASE UNCHANGED <<cpc, req, callLock>>
  BY <1>1 DEF CallHolders
<1>2. ASSUME NEW j \in Callers, callLock' = callLock, cpc[j] \notin Woken,
             \A i \in Callers \ {j} : cpc'[i] = cpc[i] /\ req'[i] = req[i]
      PROVE  CallHolders'
  BY <1>0, <1>2 DEF CallHolders
<1>3. ASSUME NEW j \in Callers, NEW n \in ToolNames, CallTool(j, n)
      PROVE  CallHolders'
  <2>1. /\ callLock' = callLock /\ cpc[j] \notin Woken
        /\ \A i \in Callers \ {j} : cpc'[i] = cpc[i] /\ req'[i] = req[i]
    BY <1>0, <1>3 DEF CallTool, Return
  <2>. QED BY <1>2, <2>1
<1>4. ASSUME NEW j \in Callers, EnterWait(j) \/ Wake(j) \/ Timeout(j)
      PROVE  CallHolders'
  <2>1. /\ req' = req /\ req[j] \in Req /\ cpc[j] \notin Woken
        /\ \A i \in Callers \ {j} : cpc'[i] = cpc[i]
        /\ \/ callLock' = callLock
           \/ /\ callLock' = [callLock EXCEPT ![req[j]] = j]
              /\ cpc'[j] \in {"woken", "timedout"}
    BY <1>0, <1>4 DEF EnterWait, Wake, Timeout
  <2>. QED BY <1>0, <2>1 DEF CallHolders
<1>5. ASSUME NEW j \in Callers, ErasePending(j) PROVE CallHolders'
  BY <1>0, <1>5 DEF ErasePending, CallHolders
<1>6. ASSUME NEW j \in Callers, Decide(j) PROVE CallHolders'
  <2>1. callLock' = [callLock EXCEPT ![req[j]] = NoThread] /\ req' = req
    BY <1>6 DEF Decide
  <2>2. \A i \in Callers \ {j} : cpc'[i] = cpc[i]
    BY <1>0, <1>6 DEF Decide, NextCandidate, Return
  <2>3. ASSUME NEW r \in Req, callLock'[r] # NoThread
        PROVE  callLock'[r] = callLock[r] /\ callLock[r] # j
    BY <1>0, <2>1, <2>3 DEF CallHolders
  <2>. QED BY <1>0, <2>1, <2>2, <2>3 DEF CallHolders
<1>7. ASSUME NEW j \in Callers,
             \/ SelectCandidate(j) \/ NoCandidateLeft(j) \/ InsertPending(j)
             \/ ReadSocketFd(j) \/ SendRequest(j) \/ SendFails(j) \/ DropUnsent(j)
      PROVE  CallHolders'
  <2>1. /\ callLock' = callLock /\ cpc[j] \notin Woken
        /\ \A i \in Callers \ {j} : cpc'[i] = cpc[i] /\ req'[i] = req[i]
    BY <1>0, <1>7 DEF SelectCandidate, NoCandidateLeft, InsertPending,
       ReadSocketFd, SendRequest, SendFails, DropUnsent, NextCandidate, Return
  <2>. QED BY <1>2, <2>1
<1>8. ASSUME NEW j \in Callers, CallerStep(j) PROVE CallHolders'
  BY <1>4, <1>5, <1>6, <1>7, <1>8 DEF CallerStep
<1>9. ASSUME NEW c \in Clients, ReaderMessage(c) \/ ReaderStep(c)
      PROVE  UNCHANGED <<cpc, req, callLock>>
  BY <1>9 DEF ReaderMessage, ReaderStep, HandleRegister, HandleUnregister,
     ReadAnswer, NotifyToolsChanged, DeliverAnswer, ReadEof, UnregisterTools,
     EraseClient, LockPending, FailPending, UnlockPending
<1>10. CASE StopListening \/ StopStep
  BY <1>1, <1>10 DEF StopListening, StopStep, StopClients, StopLockPending,
     StopFailPending, StopClearPending, StopClearRegistry
<1>. QED BY <1>1, <1>3, <1>8, <1>9, <1>10 DEF Next, Accept, PeerCloses

LEMMA PendingHolderNext ==
  ASSUME GwTypeOK, PendingHolder, Next
  PROVE  PendingHolder'
<1> USE DEF connVars, satVars, readerVars, callVars, lockVars, callerVars,
            stopVars, GotoC, GotoR
<1>0. /\ rpc \in [Clients -> ReaderPc]
      /\ Stopper \notin Clients /\ NoThread \notin Clients \cup {Stopper}
  BY GatewayAssumption DEF GwTypeOK, TypeOK, ReaderTypeOK, Threads
<1>1. CASE UNCHANGED <<pendingLock, rpc, stopPc>>
  BY <1>1 DEF PendingHolder
<1>2. ASSUME NEW c \in Clients, Accept(c) \/ PeerCloses(c)
      PROVE  PendingHolder'
  BY <1>0, <1>2 DEF Accept, PeerCloses, PendingHolder
<1>3. ASSUME NEW c \in Clients, ReaderMessage(c)
      PROVE  PendingHolder'
  BY <1>0, <1>3 DEF ReaderMessage, HandleRegister, HandleUnregister, ReadAnswer,
     PendingHolder
<1>4. ASSUME NEW c \in Clients, ReaderStep(c)
      PROVE  PendingHolder'
  <2>1. CASE LockPending(c)
    BY <1>0, <2>1 DEF LockPending, PendingHolder
  <2>2. CASE UnlockPending(c)
    BY <1>0, <2>2 DEF UnlockPending, PendingHolder
  <2>3. ASSUME NEW r \in Req, FailPending(c, r)
        PROVE  PendingHolder'
    BY <1>1, <2>3 DEF FailPending
  <2>4. CASE \/ NotifyToolsChanged(c) \/ DeliverAnswer(c) \/ ReadEof(c)
             \/ UnregisterTools(c) \/ EraseClient(c)
    <3>1. /\ rpc[c] # "failing" /\ UNCHANGED <<pendingLock, stopPc>>
          /\ \A d \in Clients \ {c} : rpc'[d] = rpc[d]
      BY <1>0, <2>4 DEF NotifyToolsChanged, DeliverAnswer, ReadEof,
         UnregisterTools, EraseClient
    <3>. QED BY <1>0, <3>1 DEF PendingHolder
  <2>. QED BY <1>4, <2>1, <2>2, <2>3, <2>4 DEF ReaderStep
<1>5. ASSUME NEW k \in Callers, NEW n \in ToolNames, CallTool(k, n)
      PROVE  UNCHANGED <<pendingLock, rpc, stopPc>>
  BY <1>5 DEF CallTool
<1>6. ASSUME NEW k \in Callers, CallerStep(k)
      PROVE  UNCHANGED <<pendingLock, rpc, stopPc>>
  BY <1>6 DEF CallerStep, SelectCandidate, NoCandidateLeft, InsertPending,
     ReadSocketFd, SendRequest, SendFails, DropUnsent, EnterWait, Wake,
     Timeout, ErasePending, Decide
<1>7. CASE StopListening \/ StopStep
  BY <1>0, <1>7 DEF StopListening, StopStep, StopClients, StopLockPending,
     StopFailPending, StopClearPending, StopClearRegistry, PendingHolder
<1>. QED BY <1>1, <1>2, <1>3, <1>4, <1>5, <1>6, <1>7 DEF Next

(* A mutex that nobody can release is held in the cycle; without one,      *)
(* every thread at work can go on.                                         *)
LEMMA StandsAtRest ==
  ASSUME GwTypeOK, Holders
  PROVE  StandsOnlyInLockCycle
<1> SUFFICES ASSUME ~GatewayCanGo, ~LockCycle
             PROVE  /\ \A k \in Callers : cpc[k] = "idle"
                    /\ \A c \in Clients : rpc[c] \in {"none", "reading", "done"}
                    /\ stopPc \in {"no", "stopped"}
  BY DEF StandsOnlyInLockCycle
<1>0. /\ callLock \in [Req -> Callers \cup {NoThread}]
      /\ cpc \in [Callers -> CallerPc]
      /\ rpc \in [Clients -> ReaderPc]
      /\ stopPc \in StopPc
      /\ pendingLock \in Clients \cup {Stopper, NoThread}
      /\ visiting \in [Clients \cup {Stopper} -> SUBSET Req]
  BY DEF GwTypeOK, TypeOK, LockTypeOK, CallerTypeOK, ReaderTypeOK, StopTypeOK
<1>1. /\ \A c \in Clients : ~ReaderCanGo(c)
      /\ \A k \in Callers : ~CallerCanGo(k)
      /\ ~StopCanGo
  BY DEF GatewayCanGo
<1>2. ASSUME NEW r \in Req, callLock[r] # NoThread
      PROVE  \E k \in Callers : req[k] = r /\ cpc[k] \in {"woken", "timedout"}
  BY <1>1, <1>2 DEF Holders, CallHolders, Woken, CallerCanGo
<1>3. pendingLock = NoThread
  <2> SUFFICES ASSUME NEW t \in Clients \cup {Stopper}, pendingLock = t
               PROVE  FALSE
    BY <1>0
  <2>1. ~FindsFreeCall(t)
    BY <1>1 DEF Holders, PendingHolder, ReaderCanGo, StopCanGo
  <2>2. PICK r \in visiting[t] : callLock[r] # NoThread
    BY <2>1 DEF FindsFreeCall
  <2>3. PICK k \in Callers : req[k] = r /\ cpc[k] \in {"woken", "timedout"}
    BY <1>0, <1>2, <2>2
  <2>. QED BY <2>2, <2>3 DEF LockCycle
<1>4. \A r \in Req : callLock[r] = NoThread
  BY <1>1, <1>2, <1>3 DEF CallerCanGo
<1>5. ASSUME NEW t \in Clients \cup {Stopper}
      PROVE  FindsFreeCall(t)
  BY <1>0, <1>4 DEF FindsFreeCall
<1>6. ASSUME NEW k \in Callers
      PROVE  cpc[k] = "idle"
  <2>1. cpc[k] \in {"enterwait", "waiting"} => req[k] \in Req
    BY DEF GwTypeOK, Requested, Waiting
  <2>. QED BY <1>0, <1>1, <1>3, <1>4, <2>1 DEF CallerCanGo, CallerPc
<1>7. ASSUME NEW c \in Clients
      PROVE  rpc[c] \in {"none", "reading", "done"}
  <2>1. rpc[c] = "deliver" => handing[c][1] \in Req
    BY DEF GwTypeOK, Handing
  <2>. QED BY <1>0, <1>1, <1>3, <1>4, <1>5, <2>1 DEF ReaderCanGo, ReaderPc
<1>8. stopPc \in {"no", "stopped"}
  BY <1>0, <1>1, <1>3, <1>5 DEF StopCanGo, StopPc
<1>. QED BY <1>6, <1>7, <1>8

(* The gateway stands still only when no call is under way, every          *)
(* connection is open or cleaned up and stop() is through, or in the cycle *)
(* of the two mutexes: for any number of satellites and callers, no other  *)
(* wait is in vain (callTool 580-588, clientReadLoop 266-276, stop         *)
(* 127-141).                                                               *)
THEOREM GatewayStands == Spec => []StandsOnlyInLockCycle
<1>1. Init => Holders
  BY GatewayAssumption DEF Init, Holders, CallHolders, PendingHolder, Threads
<1>2. GwInv /\ Holders /\ [Next]_vars => Holders'
  <2> SUFFICES ASSUME GwInv, Holders, [Next]_vars PROVE Holders'
    OBVIOUS
  <2>1. CASE Next
    BY <2>1, CallHoldersNext, PendingHolderNext DEF GwInv, Holders
  <2>2. CASE UNCHANGED vars
    BY <2>2 DEF Holders, CallHolders, PendingHolder, vars, lockVars, callerVars,
       readerVars, stopVars
  <2>. QED BY <2>1, <2>2
<1>3. GwInv /\ Holders => StandsOnlyInLockCycle
  BY StandsAtRest DEF GwInv
<1>. QED BY <1>1, <1>2, <1>3, GwInvInit, GwInvNext, PTL DEF Spec

-----------------------------------------------------------------------------
(* list_changed.                                                           *)

Announcing == {"notify", "erase", "lock", "failing", "announce"}

LEMMA AnnouncedNext ==
  ASSUME ReaderTypeOK, CatalogueAnnounced, Next
  PROVE  CatalogueAnnounced'
<1> USE DEF connVars, satVars, readerVars, callVars, lockVars, callerVars,
            stopVars, GotoR, CatalogueAnnounced, ReaderTypeOK
<1>1. ASSUME UNCHANGED <<tools, announced, stopPc>>,
             \A c \in Clients : rpc[c] \in Announcing => rpc'[c] \in Announcing
      PROVE  CatalogueAnnounced'
  BY <1>1 DEF Listed, Announcing
<1>2. ASSUME NEW c \in Clients, NEW offers \in Catalogs,
             HandleRegister(c, offers) \/ HandleUnregister(c) \/ UnregisterTools(c)
      PROVE  CatalogueAnnounced'
  <2>1. rpc'[c] \in Announcing
    BY <1>2 DEF HandleRegister, HandleUnregister, UnregisterTools, Announcing
  <2>. QED BY <2>1 DEF Announcing
<1>3. ASSUME NEW c \in Clients, NotifyToolsChanged(c) PROVE CatalogueAnnounced'
  BY <1>3 DEF NotifyToolsChanged, Listed, regVars
<1>4. CASE StopClearRegistry
  BY <1>4 DEF StopClearRegistry
<1>5. ASSUME NEW c \in Clients, UNCHANGED <<regVars, announced, stopVars>>,
             \/ rpc' = rpc
             \/ rpc[c] \notin Announcing /\ \E l \in ReaderPc : GotoR(c, l)
             \/ \E l \in Announcing : GotoR(c, l)
      PROVE  CatalogueAnnounced'
  BY <1>1, <1>5 DEF regVars
<1>6. ASSUME NEW c \in Clients, Accept(c) \/ PeerCloses(c)
      PROVE  CatalogueAnnounced'
  BY <1>5, <1>6 DEF Accept, PeerCloses, Announcing, ReaderPc
<1>7. ASSUME NEW c \in Clients, ReaderMessage(c) PROVE CatalogueAnnounced'
  <2>1. ASSUME NEW r \in Req, NEW a \in Answers, ReadAnswer(c, r, a)
        PROVE  CatalogueAnnounced'
    BY <1>5, <2>1 DEF ReadAnswer, Announcing, ReaderPc
  <2>2. CASE HandleUnregister(c)
    BY <2>2 DEF HandleUnregister
  <2>. QED BY <1>2, <1>7, <2>1, <2>2 DEF ReaderMessage
<1>8. ASSUME NEW c \in Clients, ReaderStep(c) PROVE CatalogueAnnounced'
  <2>1. CASE UnregisterTools(c)
    BY <2>1 DEF UnregisterTools
  <2>2. CASE DeliverAnswer(c) \/ ReadEof(c)
    BY <1>5, <2>2 DEF DeliverAnswer, ReadEof, Announcing, ReaderPc
  <2>3. CASE EraseClient(c) \/ LockPending(c) \/ UnlockPending(c)
    BY <1>5, <2>3 DEF EraseClient, LockPending, UnlockPending, Announcing
  <2>4. ASSUME NEW r \in Req, FailPending(c, r) PROVE CatalogueAnnounced'
    BY <1>5, <2>4 DEF FailPending
  <2>. QED BY <1>3, <1>8, <2>1, <2>2, <2>3, <2>4 DEF ReaderStep
<1>9. ASSUME NEW k \in Callers, NEW n \in ToolNames, CallTool(k, n)
      PROVE  CatalogueAnnounced'
  BY <1>1, <1>9 DEF CallTool, regVars
<1>10. ASSUME NEW k \in Callers, CallerStep(k) PROVE CatalogueAnnounced'
  BY <1>1, <1>10 DEF CallerStep, SelectCandidate, NoCandidateLeft,
     InsertPending, ReadSocketFd, SendRequest, SendFails, DropUnsent,
     EnterWait, Wake, Timeout, ErasePending, Decide, regVars
<1>11. CASE StopListening \/ StopStep
  <2>1. ASSUME UNCHANGED <<regVars, announced, rpc>>, stopPc # "stopped"
        PROVE  CatalogueAnnounced'
    BY <2>1 DEF regVars, Listed
  <2>. QED BY <1>4, <1>11, <2>1 DEF StopListening, StopStep, StopClients,
              StopLockPending, StopFailPending, StopClearPending
<1>. QED BY <1>6, <1>7, <1>8, <1>9, <1>10, <1>11 DEF Next

(* No change of the catalogue goes unannounced: whatever connects,         *)
(* registers or disconnects at the same time, the agents' view is current  *)
(* or a reader is on its way to tell them.                                 *)
THEOREM ChangesAreAnnounced == Spec => []CatalogueAnnounced
<1>1. Init => CatalogueAnnounced
  BY DEF Init, RegInit, CatalogueAnnounced, Listed
<1>2. GwInv /\ CatalogueAnnounced /\ [Next]_vars => CatalogueAnnounced'
  <2> SUFFICES ASSUME GwInv, CatalogueAnnounced, [Next]_vars
               PROVE  CatalogueAnnounced'
    OBVIOUS
  <2>1. CASE Next
    BY <2>1, AnnouncedNext DEF GwInv, GwTypeOK, TypeOK
  <2>2. CASE UNCHANGED vars
    BY <2>2 DEF CatalogueAnnounced, Listed, vars, regVars, readerVars, stopVars
  <2>. QED BY <2>1, <2>2
<1>. QED BY <1>1, <1>2, GwInvInit, GwInvNext, PTL DEF Spec

-----------------------------------------------------------------------------
(* Closed connections.                                                     *)

(* The kernel's table and the connections agree on who owns a descriptor.  *)
OwnerKnowsIt ==
  \A c \in Clients, f \in Fds : fdOwner[f] = c => fd[c] = f

(* A reader that is still to unregister its tools has closed its socket.   *)
ClosedInv ==
  /\ OwnerKnowsIt
  /\ \A c \in Clients : rpc[c] = "unregister" => fd[c] = NoFd
  /\ ClosedLeavesNothing

LEMMA ClosedInvNext ==
  ASSUME GwTypeOK, ClosedInv, Next
  PROVE  ClosedInv'
<1> USE DEF satVars, readerVars, callVars, lockVars, callerVars, stopVars, GotoR
<1>0. /\ clientTools \in [Clients -> SUBSET Offer]
      /\ rpc \in [Clients -> ReaderPc]
      /\ fd \in [Clients -> Fds \cup {NoFd}]
      /\ fdOwner \in [Fds -> Clients \cup {NoConn}]
      /\ NoFd \notin Fds /\ NoConn \notin Clients
  BY GatewayAssumption DEF GwTypeOK, TypeOK, RegTypeOK, ConnTypeOK, ReaderTypeOK
<1>1. ASSUME NEW c \in Clients, UNCHANGED connVars,
             \A d \in Clients \ {c} : rpc'[d] = rpc[d] /\ clientTools'[d] = clientTools[d],
             \/ rpc'[c] = rpc[c] /\ clientTools'[c] = clientTools[c]
             \/ rpc'[c] \in {"reading", "notify", "deliver"}
             \/ rpc[c] = "unregister" /\ rpc'[c] = "erase" /\ clientTools'[c] = {}
             \/ /\ clientTools'[c] = clientTools[c]
                /\ rpc[c] \in {"lock", "failing", "announce"}
                /\ rpc'[c] \in {"failing", "announce", "done"}
      PROVE  ClosedInv'
  BY <1>0, <1>1 DEF connVars, ClosedInv, OwnerKnowsIt, ClosedLeavesNothing
<1>2. ASSUME NEW c \in Clients, Accept(c) PROVE ClosedInv'
  <2>1. PICK f \in Fds : /\ fd' = [fd EXCEPT ![c] = f]
                         /\ fdOwner' = [fdOwner EXCEPT ![f] = c]
                         /\ fdOwner[f] = NoConn
    BY <1>2 DEF Accept
  <2>2. \A g \in Fds : fdOwner[g] # c
    BY <1>2 DEF Accept, ClosedInv, ClosedLeavesNothing
  <2>3. OwnerKnowsIt'
    BY <1>0, <2>1, <2>2 DEF ClosedInv, OwnerKnowsIt
  <2>4. rpc' = [rpc EXCEPT ![c] = "reading"] /\ known' = known \cup {c} /\ UNCHANGED regVars
    BY <1>2 DEF Accept
  <2>. QED BY <1>0, <2>1, <2>3, <2>4 DEF ClosedInv, ClosedLeavesNothing, regVars
<1>3. ASSUME NEW c \in Clients, ReadEof(c) PROVE ClosedInv'
  <2>1. /\ fdOwner' = [f \in Fds |-> IF f = fd[c] THEN NoConn ELSE fdOwner[f]]
        /\ fd' = [fd EXCEPT ![c] = NoFd]
        /\ rpc' = [rpc EXCEPT ![c] = "unregister"]
        /\ UNCHANGED <<regVars, known>>
    BY <1>3 DEF ReadEof
  <2>2. OwnerKnowsIt'
    BY <1>0, <2>1 DEF ClosedInv, OwnerKnowsIt
  <2>. QED BY <1>0, <2>1, <2>2 DEF ClosedInv, ClosedLeavesNothing, regVars
<1>4. CASE StopClients
  <2>1. /\ fdOwner' = [f \in Fds |-> IF fdOwner[f] \in known THEN NoConn ELSE fdOwner[f]]
        /\ fd' = [c \in Clients |-> IF c \in known THEN NoFd ELSE fd[c]]
        /\ known' = {} /\ UNCHANGED <<regVars, rpc>>
    BY <1>4 DEF StopClients
  <2>2. OwnerKnowsIt'
    BY <1>0, <2>1 DEF ClosedInv, OwnerKnowsIt
  <2>. QED BY <1>0, <2>1, <2>2 DEF ClosedInv, ClosedLeavesNothing, regVars
<1>5. CASE StopClearRegistry
  BY <1>0, <1>5 DEF StopClearRegistry, Clear, connVars, ClosedInv, OwnerKnowsIt,
     ClosedLeavesNothing
<1>6. ASSUME NEW c \in Clients, EraseClient(c) PROVE ClosedInv'
  BY <1>0, <1>6 DEF EraseClient, ClosedInv, OwnerKnowsIt, ClosedLeavesNothing, regVars
<1>7. CASE UNCHANGED <<clientTools, connVars, rpc>>
  BY <1>7 DEF connVars, ClosedInv, OwnerKnowsIt, ClosedLeavesNothing
<1>8. ASSUME NEW c \in Clients, ReaderMessage(c) PROVE ClosedInv'
  <2>1. ASSUME NEW offers \in Catalogs, HandleRegister(c, offers) PROVE ClosedInv'
    BY <1>0, <1>1, <2>1 DEF HandleRegister, RegisterTools
  <2>2. CASE HandleUnregister(c)
    BY <1>0, <1>1, <2>2 DEF HandleUnregister, UnregisterClient
  <2>3. ASSUME NEW r \in Req, NEW a \in Answers, ReadAnswer(c, r, a) PROVE ClosedInv'
    BY <1>0, <1>1, <2>3 DEF ReadAnswer, regVars
  <2>. QED BY <1>8, <2>1, <2>2, <2>3 DEF ReaderMessage
<1>9. ASSUME NEW c \in Clients, ReaderStep(c) PROVE ClosedInv'
  <2>1. CASE (NotifyToolsChanged(c) /\ rpc[c] = "notify") \/ DeliverAnswer(c)
    BY <1>0, <1>1, <2>1 DEF NotifyToolsChanged, DeliverAnswer, regVars
  <2>2. CASE (NotifyToolsChanged(c) /\ rpc[c] = "announce")
             \/ LockPending(c) \/ UnlockPending(c)
    BY <1>0, <1>1, <2>2 DEF NotifyToolsChanged, LockPending, UnlockPending, regVars
  <2>3. CASE UnregisterTools(c)
    BY <1>0, <1>1, <2>3 DEF UnregisterTools, UnregisterClient
  <2>4. ASSUME NEW r \in Req, FailPending(c, r) PROVE ClosedInv'
    BY <1>7, <2>4 DEF FailPending, regVars
  <2>. QED BY <1>3, <1>6, <1>9, <2>1, <2>2, <2>3, <2>4
           DEF ReaderStep, NotifyToolsChanged
<1>10. ASSUME NEW k \in Callers, NEW n \in ToolNames, CallTool(k, n)
       PROVE  UNCHANGED <<clientTools, connVars, rpc>>
  BY <1>10 DEF CallTool, regVars
<1>11. ASSUME NEW k \in Callers, CallerStep(k)
       PROVE  UNCHANGED <<clientTools, connVars, rpc>>
  BY <1>11 DEF CallerStep, SelectCandidate, NoCandidateLeft, InsertPending,
     ReadSocketFd, SendRequest, SendFails, DropUnsent, EnterWait, Wake,
     Timeout, ErasePending, Decide, regVars
<1>12. CASE StopListening \/ StopStep
  BY <1>4, <1>5, <1>7, <1>12 DEF StopListening, StopStep, StopLockPending,
     StopFailPending, StopClearPending, regVars
<1>13. ASSUME NEW c \in Clients, PeerCloses(c)
       PROVE  UNCHANGED <<clientTools, connVars, rpc>>
  BY <1>13 DEF PeerCloses, regVars
<1>. QED BY <1>2, <1>7, <1>8, <1>9, <1>10, <1>11, <1>12, <1>13 DEF Next

(* A connection that has been cleaned up has left no tool, no descriptor   *)
(* and no table entry behind, whatever ran at the same time.               *)
THEOREM ClosingLeavesNothing == Spec => []ClosedLeavesNothing
<1>1. Init => ClosedInv
  BY GatewayAssumption
     DEF Init, RegInit, ClosedInv, OwnerKnowsIt, ClosedLeavesNothing
<1>2. GwInv /\ ClosedInv /\ [Next]_vars => ClosedInv'
  <2> SUFFICES ASSUME GwInv, ClosedInv, [Next]_vars PROVE ClosedInv'
    OBVIOUS
  <2>1. CASE Next
    BY <2>1, ClosedInvNext DEF GwInv
  <2>2. CASE UNCHANGED vars
    BY <2>2 DEF ClosedInv, OwnerKnowsIt, ClosedLeavesNothing, vars, regVars,
       connVars, readerVars
  <2>. QED BY <2>1, <2>2
<1>3. ClosedInv => ClosedLeavesNothing
  BY DEF ClosedInv
<1>. QED BY <1>1, <1>2, <1>3, GwInvInit, GwInvNext, PTL DEF Spec

-----------------------------------------------------------------------------
(* Refinement of ToolCalls.                                                *)

(* Request ids are not reused: those still to be given are nowhere yet,    *)
(* and no two callers have the same.                                       *)
Younger ==
  /\ \A k \in Callers : req[k] < nextReq
  /\ \A r \in Req : r >= nextReq =>
       ranOn[r] = {} /\ \A c \in Clients : r \notin inbox[c]

OwnRequest ==
  \A j, k \in Callers : req[j] = req[k] /\ req[k] # 0 => j = k

(* An answer comes from a satellite that executed the request.             *)
Executed ==
  /\ \A r \in Req : call[r].answer # "none" => ranOn[r] # {}
  /\ \A c \in Clients : rpc[c] = "deliver" => ranOn[handing[c][1]] # {}

(* A completed call has an answer or a reason, and a caller is woken by a  *)
(* completed call only.                                                    *)
Completed ==
  /\ \A r \in Req : call[r].done => call[r].answer # "none" \/ call[r].err # "none"
  /\ \A k \in Callers : cpc[k] \in {"woken", "decide"} => call[req[k]].done

(* Nobody has, or has executed, a request that is still to be sent or that *)
(* was reported as not sent; a call that tried nobody has none.            *)
UnsentOutcomes == {"not registered", "offline", "send failed"}
Nowhere(r) == r \in Req => ranOn[r] = {} /\ \A c \in Clients : r \notin inbox[c]
NeverSent ==
  \A k \in Callers :
    /\ ~attempted[k] => req[k] = 0
    /\ cpc[k] = "insert" => attempted[k]
    /\ cpc[k] # "idle" => outcome[k] = "none"
    /\ cpc[k] \in {"readfd", "write", "sendfailed"} => Nowhere(req[k])
    /\ outcome[k] \in UnsentOutcomes => Nowhere(req[k])

CallsInv == Younger /\ OwnRequest /\ Executed /\ Completed /\ NeverSent

LEMMA CallStep ==
  ASSUME GwTypeOK, Next, NEW r \in Req
  PROVE  \/ call'[r] = call[r]
         \/ /\ call'[r].done /\ call'[r].answer \in Answers
            /\ \E c \in Clients : rpc[c] = "deliver" /\ handing[c][1] = r
         \/ /\ call'[r].done /\ call'[r].err \in Failures
            /\ call'[r].answer = call[r].answer
<1> USE DEF connVars, satVars, readerVars, callVars, lockVars, callerVars,
            stopVars
<1> DEFINE Goal ==
       \/ call'[r] = call[r]
       \/ /\ call'[r].done /\ call'[r].answer \in Answers
          /\ \E c \in Clients : rpc[c] = "deliver" /\ handing[c][1] = r
       \/ /\ call'[r].done /\ call'[r].err \in Failures
          /\ call'[r].answer = call[r].answer
<1>0. call \in [Req -> CallState]
  BY DEF GwTypeOK, TypeOK, CallTypeOK
<1>1. ASSUME NEW c \in Clients, DeliverAnswer(c) PROVE Goal
  <2>1. handing[c] \in Req \X Answers /\ rpc[c] = "deliver"
    BY <1>1 DEF DeliverAnswer, GwTypeOK, Handing
  <2>2. CASE handing[c][1] = r
    <3>1. call'[r] = [call[r] EXCEPT !.done = TRUE, !.answer = handing[c][2]]
      BY <1>0, <1>1, <2>2 DEF DeliverAnswer
    <3>2. call'[r].done /\ call'[r].answer \in Answers
      BY <1>0, <2>1, <3>1 DEF CallState
    <3>. QED BY <2>1, <2>2, <3>2
  <2>3. CASE handing[c][1] # r
    BY <1>0, <1>1, <2>3 DEF DeliverAnswer
  <2>. QED BY <2>2, <2>3
<1>2. ASSUME NEW t, NEW q \in Req, NEW why \in Failures, FailCall(t, q, why)
      PROVE  Goal
  <2>1. CASE q = r /\ ~call[q].done
    <3>1. call'[r] = [call[r] EXCEPT !.done = TRUE, !.err = why]
      BY <1>0, <1>2, <2>1 DEF FailCall
    <3>2. /\ call'[r].done /\ call'[r].err = why
          /\ call'[r].answer = call[r].answer
      BY <1>0, <3>1 DEF CallState
    <3>. QED BY <3>2
  <2>2. CASE ~(q = r /\ ~call[q].done)
    BY <1>0, <1>2, <2>2 DEF FailCall
  <2>. QED BY <2>1, <2>2
<1>3. ASSUME NEW c \in Clients, NEW q \in Req, FailPending(c, q) PROVE Goal
  BY <1>2, <1>3 DEF FailPending, Failures
<1>4. ASSUME NEW q \in Req, StopFailPending(q) PROVE Goal
  BY <1>2, <1>4 DEF StopFailPending, Failures
<1>5. ASSUME NEW c \in Clients, ReaderMessage(c) \/ ReaderStep(c) PROVE Goal
  <2>1. CASE UNCHANGED call
    BY <2>1
  <2>. QED BY <1>1, <1>3, <1>5, <2>1 DEF ReaderMessage, ReaderStep,
           HandleRegister, HandleUnregister, ReadAnswer, NotifyToolsChanged,
           ReadEof, UnregisterTools, EraseClient, LockPending, UnlockPending
<1>6. ASSUME NEW k \in Callers, NEW n \in ToolNames, CallTool(k, n)
      PROVE  UNCHANGED call
  BY <1>6 DEF CallTool
<1>7. ASSUME NEW k \in Callers, CallerStep(k) PROVE UNCHANGED call
  BY <1>7 DEF CallerStep, SelectCandidate, NoCandidateLeft, InsertPending,
     ReadSocketFd, SendRequest, SendFails, DropUnsent, EnterWait, Wake,
     Timeout, ErasePending, Decide
<1>8. CASE StopListening \/ StopStep
  BY <1>4, <1>8 DEF StopListening, StopStep, StopClients, StopLockPending,
     StopClearPending, StopClearRegistry
<1>. QED BY <1>5, <1>6, <1>7, <1>8 DEF Next, Accept, PeerCloses

(* A satellite executes a request it received; otherwise ranOn is left.    *)
LEMMA RanStep ==
  ASSUME GwTypeOK, Next
  PROVE  \/ UNCHANGED ranOn
         \/ \E c \in Clients, r \in Req, a \in Answers : ReadAnswer(c, r, a)
<1> USE DEF connVars, satVars, readerVars, callVars, lockVars, callerVars,
            stopVars
<1>1. ASSUME NEW c \in Clients, ReaderStep(c) PROVE UNCHANGED ranOn
  BY <1>1 DEF ReaderStep, NotifyToolsChanged, DeliverAnswer, ReadEof,
     UnregisterTools, EraseClient, LockPending, FailPending, UnlockPending
<1>2. ASSUME NEW k \in Callers, NEW n \in ToolNames, CallTool(k, n)
      PROVE  UNCHANGED ranOn
  BY <1>2 DEF CallTool
<1>3. ASSUME NEW k \in Callers, CallerStep(k) PROVE UNCHANGED ranOn
  BY <1>3 DEF CallerStep, SelectCandidate, NoCandidateLeft, InsertPending,
     ReadSocketFd, SendRequest, SendFails, DropUnsent, EnterWait, Wake,
     Timeout, ErasePending, Decide
<1>4. CASE StopListening \/ StopStep
  BY <1>4 DEF StopListening, StopStep, StopClients, StopLockPending,
     StopFailPending, StopClearPending, StopClearRegistry
<1>. QED BY <1>1, <1>2, <1>3, <1>4 DEF Next, Accept, PeerCloses,
         ReaderMessage, HandleRegister, HandleUnregister

LEMMA RequestsNext ==
  ASSUME GwTypeOK, Younger, OwnRequest, Next
  PROVE  Younger' /\ OwnRequest'
<1> USE DEF connVars, satVars, readerVars, callVars, lockVars, callerVars,
            stopVars
<1>0. /\ req \in [Callers -> 0..MaxReq] /\ MaxReq \in Nat
      /\ nextReq \in 1..(MaxReq + 1)
      /\ inbox \in [Clients -> SUBSET Req] /\ ranOn \in [Req -> SUBSET Clients]
      /\ \A r \in Req : r \in Int /\ r # 0
  BY GatewayAssumption DEF GwTypeOK, TypeOK, CallerTypeOK, CallTypeOK, SatTypeOK, Req
<1>1. ASSUME UNCHANGED <<req, nextReq, ranOn>>,
             \A c \in Clients : inbox'[c] \subseteq inbox[c]
      PROVE  Younger' /\ OwnRequest'
  BY <1>1 DEF Younger, OwnRequest
<1>2. ASSUME NEW k \in Callers, InsertPending(k) PROVE Younger' /\ OwnRequest'
  <2>1. /\ req' = [req EXCEPT ![k] = nextReq] /\ nextReq' = nextReq + 1
        /\ UNCHANGED <<ranOn, inbox>>
    BY <1>2 DEF InsertPending
  <2>2. Younger'
    BY <1>0, <2>1 DEF Younger
  <2>3. \A j \in Callers : req[j] # nextReq
    BY <1>0 DEF Younger
  <2>. QED BY <1>0, <2>1, <2>2, <2>3 DEF OwnRequest
<1>3. ASSUME NEW k \in Callers, NEW n \in ToolNames, CallTool(k, n)
      PROVE  Younger' /\ OwnRequest'
  <2>1. req' = [req EXCEPT ![k] = 0] /\ UNCHANGED <<ranOn, inbox, nextReq>>
    BY <1>3 DEF CallTool
  <2>. QED BY <1>0, <2>1 DEF Younger, OwnRequest
<1>4. ASSUME NEW k \in Callers, SendRequest(k) PROVE Younger' /\ OwnRequest'
  <2>1. /\ UNCHANGED <<req, nextReq, ranOn>>
        /\ \A c \in Clients : inbox'[c] \subseteq inbox[c] \cup {req[k]}
    BY <1>0, <1>4 DEF SendRequest
  <2>2. req[k] < nextReq
    BY DEF Younger
  <2>3. \A r \in Req : r >= nextReq => r # req[k]
    BY <1>0, <2>2
  <2>. QED BY <2>1, <2>3 DEF Younger, OwnRequest
<1>5. ASSUME NEW c \in Clients, NEW r \in Req, NEW a \in Answers, ReadAnswer(c, r, a)
      PROVE  Younger' /\ OwnRequest'
  <2>1. /\ UNCHANGED <<req, nextReq>> /\ r \in inbox[c]
        /\ ranOn' = [ranOn EXCEPT ![r] = ranOn[r] \cup {c}]
        /\ inbox' = [inbox EXCEPT ![c] = inbox[c] \ {r}]
    BY <1>5 DEF ReadAnswer
  <2>2. \A q \in Req : q >= nextReq => q # r
    BY <2>1 DEF Younger
  <2>3. /\ \A q \in Req \ {r} : ranOn'[q] = ranOn[q]
        /\ \A d \in Clients : inbox'[d] \subseteq inbox[d]
    BY <1>0, <2>1
  <2>. QED BY <2>1, <2>2, <2>3 DEF Younger, OwnRequest
<1>6. ASSUME NEW c \in Clients,
             \/ Accept(c) \/ PeerCloses(c) \/ ReaderStep(c) \/ HandleUnregister(c)
             \/ \E offers \in Catalogs : HandleRegister(c, offers)
      PROVE  Younger' /\ OwnRequest'
  <2>1. UNCHANGED <<req, nextReq, ranOn>>
    BY <1>6 DEF Accept, PeerCloses, HandleUnregister, HandleRegister, ReaderStep,
       NotifyToolsChanged, DeliverAnswer, ReadEof, UnregisterTools,
       EraseClient, LockPending, FailPending, UnlockPending
  <2>2. inbox' = inbox \/ inbox' = [inbox EXCEPT ![c] = {}]
    BY <1>6 DEF Accept, PeerCloses, HandleUnregister, HandleRegister, ReaderStep,
       NotifyToolsChanged, DeliverAnswer, ReadEof, UnregisterTools,
       EraseClient, LockPending, FailPending, UnlockPending
  <2>. QED BY <1>0, <1>1, <2>1, <2>2
<1>7. ASSUME NEW k \in Callers, CallerStep(k), ~InsertPending(k), ~SendRequest(k)
      PROVE  UNCHANGED <<req, nextReq, ranOn, inbox>>
  BY <1>7 DEF CallerStep, SelectCandidate, NoCandidateLeft, ReadSocketFd,
     SendFails, DropUnsent, EnterWait, Wake, Timeout, ErasePending, Decide
<1>8. CASE StopListening \/ StopStep
  <2>1. UNCHANGED <<req, nextReq, ranOn, inbox>>
    BY <1>8 DEF StopListening, StopStep, StopClients, StopLockPending,
       StopFailPending, StopClearPending, StopClearRegistry
  <2>. QED BY <1>1, <2>1
<1>9. ASSUME NEW k \in Callers, CallerStep(k) PROVE Younger' /\ OwnRequest'
  BY <1>1, <1>2, <1>4, <1>7, <1>9
<1>10. ASSUME NEW c \in Clients, ReaderMessage(c) PROVE Younger' /\ OwnRequest'
  BY <1>5, <1>6, <1>10 DEF ReaderMessage
<1>. QED BY <1>3, <1>6, <1>8, <1>9, <1>10 DEF Next

LEMMA ExecutedNext ==
  ASSUME GwTypeOK, Executed, Next
  PROVE  Executed'
<1> USE DEF connVars, satVars, readerVars, callVars, lockVars, callerVars,
            stopVars, GotoR
<1>0. /\ ranOn \in [Req -> SUBSET Clients]
      /\ rpc \in [Clients -> ReaderPc] /\ handing \in [Clients -> Req \X Answers \cup {<<>>}]
      /\ \A c \in Clients : rpc[c] = "deliver" => handing[c][1] \in Req
  BY DEF GwTypeOK, TypeOK, SatTypeOK, ReaderTypeOK, Handing
<1>1. \A r \in Req : ranOn[r] \subseteq ranOn'[r]
  <2>1. ASSUME NEW c \in Clients, NEW r \in Req, NEW a \in Answers, ReadAnswer(c, r, a)
        PROVE  \A q \in Req : ranOn[q] \subseteq ranOn'[q]
    BY <1>0, <2>1 DEF ReadAnswer
  <2>. QED BY <2>1, RanStep
<1>2. ASSUME NEW r \in Req, call'[r].answer # "none" PROVE ranOn'[r] # {}
  <2>1. CASE call'[r].answer = call[r].answer
    BY <1>1, <1>2, <2>1 DEF Executed
  <2>2. CASE call'[r].answer # call[r].answer
    <3>1. \E c \in Clients : rpc[c] = "deliver" /\ handing[c][1] = r
      BY <2>2, CallStep
    <3>. QED BY <1>1, <3>1 DEF Executed
  <2>. QED BY <2>1, <2>2
<1>3. ASSUME NEW c \in Clients, rpc'[c] = "deliver" PROVE ranOn'[handing'[c][1]] # {}
  <2>1. CASE UNCHANGED <<rpc, handing>>
    BY <1>0, <1>1, <1>3, <2>1 DEF Executed
  <2>2. ASSUME NEW d \in Clients, NEW r \in Req, NEW a \in Answers, ReadAnswer(d, r, a)
        PROVE  ranOn'[handing'[c][1]] # {}
    <3>1. ranOn'[r] # {}
      BY <1>0, <2>2 DEF ReadAnswer
    <3>2. CASE c = d /\ r \in pending
      <4>1. handing'[c] = <<r, a>>
        BY <1>0, <2>2, <3>2 DEF ReadAnswer
      <4>. QED BY <3>1, <4>1
    <3>3. CASE ~(c = d /\ r \in pending)
      <4>1. rpc'[c] = rpc[c] /\ handing'[c] = handing[c]
        BY <1>0, <2>2, <3>3 DEF ReadAnswer
      <4>. QED BY <1>0, <1>1, <1>3, <4>1 DEF Executed
    <3>. QED BY <3>2, <3>3
  <2>3. ASSUME NEW d \in Clients,
               \/ Accept(d) \/ ReaderStep(d) \/ HandleUnregister(d)
               \/ \E offers \in Catalogs : HandleRegister(d, offers)
        PROVE  ranOn'[handing'[c][1]] # {}
    <3>1. rpc'[d] # "deliver" /\ \A e \in Clients \ {d} : rpc'[e] = rpc[e] /\ handing'[e] = handing[e]
      BY <1>0, <2>3 DEF Accept, HandleUnregister, HandleRegister, ReaderStep,
         NotifyToolsChanged, DeliverAnswer, ReadEof, UnregisterTools,
         EraseClient, LockPending, FailPending, UnlockPending
    <3>2. c # d
      BY <1>3, <3>1
    <3>. QED BY <1>0, <1>1, <1>3, <3>1, <3>2 DEF Executed
  <2>4. ASSUME NEW k \in Callers, NEW n \in ToolNames, CallTool(k, n)
        PROVE  UNCHANGED <<rpc, handing>>
    BY <2>4 DEF CallTool
  <2>5. ASSUME NEW k \in Callers, CallerStep(k) PROVE UNCHANGED <<rpc, handing>>
    BY <2>5 DEF CallerStep, SelectCandidate, NoCandidateLeft, InsertPending,
       ReadSocketFd, SendRequest, SendFails, DropUnsent, EnterWait, Wake,
       Timeout, ErasePending, Decide
  <2>6. CASE StopListening \/ StopStep
    <3>1. UNCHANGED <<rpc, handing>>
      BY <2>6 DEF StopListening, StopStep, StopClients, StopLockPending,
         StopFailPending, StopClearPending, StopClearRegistry
    <3>. QED BY <2>1, <3>1
  <2>7. ASSUME NEW d \in Clients, PeerCloses(d) PROVE UNCHANGED <<rpc, handing>>
    BY <2>7 DEF PeerCloses
  <2>. QED BY <2>1, <2>2, <2>3, <2>4, <2>5, <2>6, <2>7 DEF Next, ReaderMessage
<1>. QED BY <1>2, <1>3 DEF Executed

(* A caller moves in a step of its own only.                               *)
LEMMA OwnCounter ==
  ASSUME GwTypeOK, Next, NEW k \in Callers, cpc'[k] # cpc[k]
  PROVE  CallerStep(k) \/ \E n \in ToolNames : CallTool(k, n)
<1> USE DEF connVars, satVars, readerVars, callVars, lockVars, callerVars,
            stopVars
<1>0. cpc \in [Callers -> CallerPc]
  BY DEF GwTypeOK, TypeOK, CallerTypeOK
<1>1. ASSUME NEW j \in Callers, NEW n \in ToolNames, CallTool(j, n) PROVE j = k
  BY <1>0, <1>1 DEF CallTool, Return, GotoC
<1>2. ASSUME NEW j \in Callers, CallerStep(j) PROVE j = k
  BY <1>0, <1>2 DEF CallerStep, SelectCandidate, NoCandidateLeft,
     InsertPending, ReadSocketFd, SendRequest, SendFails, DropUnsent,
     EnterWait, Wake, Timeout, ErasePending, Decide, NextCandidate, Return, GotoC
<1>3. ASSUME NEW c \in Clients, ReaderMessage(c) \/ ReaderStep(c)
      PROVE  UNCHANGED cpc
  BY <1>3 DEF ReaderMessage, ReaderStep, HandleRegister, HandleUnregister,
     ReadAnswer, NotifyToolsChanged, DeliverAnswer, ReadEof, UnregisterTools,
     EraseClient, LockPending, FailPending, UnlockPending
<1>4. CASE StopListening \/ StopStep
  BY <1>4 DEF StopListening, StopStep, StopClients, StopLockPending,
     StopFailPending, StopClearPending, StopClearRegistry
<1>. QED BY <1>1, <1>2, <1>3, <1>4 DEF Next, Accept, PeerCloses

LEMMA CompletedNext ==
  ASSUME GwTypeOK, HoldsItsCall, Completed, Next
  PROVE  Completed'
<1>1. ASSUME NEW r \in Req, call'[r].done
      PROVE  call'[r].answer # "none" \/ call'[r].err # "none"
  BY <1>1, CallStep DEF Completed, Answers, Failures
<1>2. ASSUME NEW k \in Callers, cpc'[k] \in {"woken", "decide"}
      PROVE  call'[req'[k]].done
  <2>1. req'[k] = req[k] /\ req[k] \in Req
    BY <1>2, LockStep DEF Woken
  <2>2. call[req[k]].done
    <3>1. CASE cpc[k] \in {"woken", "decide"}
      BY <3>1 DEF Completed
    <3>2. CASE cpc[k] \notin {"woken", "decide"}
      <4>1. cpc'[k] # cpc[k]
        BY <1>2, <3>2
      <4>2. CallerStep(k) \/ \E n \in ToolNames : CallTool(k, n)
        BY <4>1, OwnCounter
      <4>. QED BY <1>2, <3>2, <4>2 DEF CallerStep, CallTool, SelectCandidate,
               NoCandidateLeft, InsertPending, ReadSocketFd, SendRequest,
               SendFails, DropUnsent, EnterWait, Wake, Timeout, ErasePending,
               Decide, NextCandidate, Return, GotoC, GwTypeOK, TypeOK, CallerTypeOK
    <3>. QED BY <3>1, <3>2
  <2>. QED BY <2>1, <2>2, CallStep
<1>. QED BY <1>1, <1>2 DEF Completed

LEMMA NeverSentNext ==
  ASSUME GwTypeOK, Younger, OwnRequest, NeverSent, Next
  PROVE  NeverSent'
<1> USE DEF connVars, satVars, readerVars, callVars, lockVars, callerVars,
            stopVars
<1>0. /\ req \in [Callers -> 0..MaxReq] /\ nextReq \in 1..(MaxReq + 1)
      /\ inbox \in [Clients -> SUBSET Req] /\ ranOn \in [Req -> SUBSET Clients]
      /\ cpc \in [Callers -> CallerPc] /\ outcome \in [Callers -> Outcomes]
      /\ DOMAIN attempted = Callers
      /\ 0 \notin Req
  BY GatewayAssumption DEF GwTypeOK, TypeOK, CallerTypeOK, CallTypeOK, SatTypeOK, Req
<1>1. ASSUME UNCHANGED <<req, cpc, attempted, outcome, ranOn>>,
             \A c \in Clients : inbox'[c] \subseteq inbox[c]
      PROVE  NeverSent'
  BY <1>1 DEF NeverSent, Nowhere
<1>2. ASSUME NEW c \in Clients, NEW r \in Req, NEW a \in Answers, ReadAnswer(c, r, a)
      PROVE  NeverSent'
  <2>1. /\ UNCHANGED <<req, cpc, attempted, outcome>> /\ r \in inbox[c]
        /\ ranOn' = [ranOn EXCEPT ![r] = ranOn[r] \cup {c}]
        /\ inbox' = [inbox EXCEPT ![c] = inbox[c] \ {r}]
    BY <1>2 DEF ReadAnswer
  <2>2. ASSUME NEW q, Nowhere(q) PROVE Nowhere(q)'
    BY <1>0, <2>1, <2>2 DEF Nowhere
  <2>. QED BY <2>1, <2>2 DEF NeverSent, Nowhere
(* A step of caller k, which leaves the requests of the others alone.      *)
<1>3. ASSUME NEW k \in Callers, NEW l \in CallerPc, NEW o \in Outcomes, NEW r \in 0..MaxReq,
             cpc' = [cpc EXCEPT ![k] = l], outcome' = [outcome EXCEPT ![k] = o],
             req' = [req EXCEPT ![k] = r],
             UNCHANGED ranOn,
             \A c \in Clients : inbox'[c] \subseteq inbox[c] \cup ({req[k]} \cap Req),
             \A j \in Callers \ {k} : attempted'[j] = attempted[j],
             ~attempted'[k] => r = 0,
             l = "insert" => attempted'[k],
             l # "idle" => o = "none",
             l \in {"readfd", "write", "sendfailed"} \/ o \in UnsentOutcomes => Nowhere(r)'
      PROVE  NeverSent'
  <2>. SUFFICES ASSUME NEW j \in Callers
       PROVE  /\ ~attempted'[j] => req'[j] = 0
              /\ cpc'[j] = "insert" => attempted'[j]
              /\ cpc'[j] # "idle" => outcome'[j] = "none"
              /\ cpc'[j] \in {"readfd", "write", "sendfailed"} => Nowhere(req[j])'
              /\ outcome'[j] \in UnsentOutcomes => Nowhere(req[j])'
    BY DEF NeverSent, UnsentOutcomes
  <2>1. CASE j = k
    <3>1. cpc'[j] = l /\ outcome'[j] = o /\ req'[j] = r
      BY <1>0, <1>3, <2>1
    <3>. QED BY <1>3, <2>1, <3>1 DEF Nowhere
  <2>2. CASE j # k
    <3>1. cpc'[j] = cpc[j] /\ outcome'[j] = outcome[j] /\ req'[j] = req[j] /\ attempted'[j] = attempted[j]
      BY <1>0, <1>3, <2>2
    <3>2. req[j] # 0 => req[j] # req[k]
      BY <2>2 DEF OwnRequest
    <3>3. Nowhere(req[j]) => Nowhere(req[j])'
      BY <1>0, <1>3, <3>1, <3>2 DEF Nowhere
    <3>. QED BY <3>1, <3>3 DEF NeverSent
  <2>. QED BY <2>1, <2>2
<1>4. \A k \in Callers : /\ cpc = [cpc EXCEPT ![k] = cpc[k]]
                         /\ outcome = [outcome EXCEPT ![k] = outcome[k]]
                         /\ req = [req EXCEPT ![k] = req[k]]
                         /\ cpc[k] \in CallerPc /\ outcome[k] \in Outcomes /\ req[k] \in 0..MaxReq
                         /\ \A c \in Clients : inbox[c] \subseteq inbox[c] \cup ({req[k]} \cap Req)
  BY <1>0
(* The same for one that keeps its request and its outcome, and for one    *)
(* that returns.                                                           *)
<1>5. ASSUME NEW k \in Callers, NEW l \in CallerPc \ {"insert"}, GotoC(k, l), cpc[k] # "idle",
             UNCHANGED <<req, outcome, attempted, ranOn, inbox>>,
             l \in {"readfd", "write", "sendfailed"} => Nowhere(req[k])
      PROVE  NeverSent'
  <2>1. /\ cpc' = [cpc EXCEPT ![k] = l] /\ outcome' = [outcome EXCEPT ![k] = "none"]
        /\ req' = [req EXCEPT ![k] = req[k]] /\ outcome[k] = "none"
    BY <1>4, <1>5 DEF GotoC, NeverSent
  <2>2. ~attempted[k] => req[k] = 0
    BY DEF NeverSent
  <2>3. (l \in {"readfd", "write", "sendfailed"} \/ "none" \in UnsentOutcomes) => Nowhere(req[k])'
    BY <1>5 DEF Nowhere, UnsentOutcomes
  <2>. QED BY <1>3, <1>4, <1>5, <2>1, <2>2, <2>3 DEF Outcomes
<1>6. ASSUME NEW k \in Callers, NEW o \in Outcomes, Return(k, o),
             UNCHANGED <<req, attempted, ranOn, inbox>>,
             o \in UnsentOutcomes => Nowhere(req[k])
      PROVE  NeverSent'
  <2>1. /\ cpc' = [cpc EXCEPT ![k] = "idle"] /\ outcome' = [outcome EXCEPT ![k] = o]
        /\ req' = [req EXCEPT ![k] = req[k]]
    BY <1>4, <1>6 DEF Return, GotoC
  <2>2. ~attempted[k] => req[k] = 0
    BY DEF NeverSent
  <2>3. ("idle" \in {"readfd", "write", "sendfailed"} \/ o \in UnsentOutcomes) => Nowhere(req[k])'
    BY <1>6 DEF Nowhere
  <2>. QED BY <1>3, <1>4, <1>6, <2>1, <2>2, <2>3 DEF CallerPc
<1>7. ASSUME NEW k \in Callers, NEW n \in ToolNames, CallTool(k, n) PROVE NeverSent'
  <2>1. /\ req' = [req EXCEPT ![k] = 0] /\ UNCHANGED <<ranOn, inbox>>
        /\ attempted' = [attempted EXCEPT ![k] = FALSE]
        /\ \/ /\ cpc' = [cpc EXCEPT ![k] = "idle"]
              /\ outcome' = [outcome EXCEPT ![k] = "not registered"]
           \/ /\ cpc' = [cpc EXCEPT ![k] = "select"]
              /\ outcome' = [outcome EXCEPT ![k] = "none"]
    BY <1>7 DEF CallTool, Return, GotoC
  <2>2. 0 \in 0..MaxReq
    BY GatewayAssumption
  <2>5. ~attempted'[k] /\ \A j \in Callers \ {k} : attempted'[j] = attempted[j]
    BY <1>0, <2>1
  <2>4. Nowhere(0)'
    BY <1>0 DEF Nowhere, Req
  <2>3. {"idle", "select"} \subseteq CallerPc /\ {"none", "not registered"} \subseteq Outcomes
    BY DEF CallerPc, Outcomes
  <2>. QED BY <1>3, <1>4, <2>1, <2>2, <2>3, <2>4, <2>5
<1>8. ASSUME NEW k \in Callers, SelectCandidate(k) PROVE NeverSent'
  <2>1. /\ UNCHANGED <<req, outcome, ranOn, inbox>> /\ cpc[k] = "select"
        /\ \/ cpc' = [cpc EXCEPT ![k] = "insert"] /\ attempted' = [attempted EXCEPT ![k] = TRUE]
           \/ UNCHANGED <<cpc, attempted>>
    BY <1>8 DEF SelectCandidate, GotoC
  <2>2. outcome[k] = "none"
    BY <2>1 DEF NeverSent
  <2>3. CASE UNCHANGED <<cpc, attempted>>
    BY <1>1, <2>1, <2>3
  <2>4. CASE cpc' = [cpc EXCEPT ![k] = "insert"] /\ attempted' = [attempted EXCEPT ![k] = TRUE]
    <3>1. attempted'[k] /\ \A j \in Callers \ {k} : attempted'[j] = attempted[j]
      BY <1>0, <2>4
    <3>2. outcome[k] \notin UnsentOutcomes /\ "insert" \in CallerPc
      BY <2>2 DEF UnsentOutcomes, CallerPc
    <3>3. /\ req' = [req EXCEPT ![k] = req[k]] /\ outcome' = [outcome EXCEPT ![k] = outcome[k]]
          /\ UNCHANGED <<ranOn, inbox>>
      BY <1>4, <2>1
    <3>4. cpc' = [cpc EXCEPT ![k] = "insert"]
      BY <2>4
    <3>. QED BY <1>3, <1>4, <2>2, <3>1, <3>2, <3>3, <3>4
  <2>. QED BY <2>1, <2>3, <2>4
<1>9. ASSUME NEW k \in Callers, NoCandidateLeft(k) PROVE NeverSent'
  <2>1. ~attempted[k] => Nowhere(req[k])
    BY <1>0 DEF NeverSent, Nowhere
  <2>2. UNCHANGED <<req, attempted, ranOn, inbox>>
    BY <1>9 DEF NoCandidateLeft
  <2>3. CASE attempted[k]
    <3>1. Return(k, "no message")
      BY <1>9, <2>3 DEF NoCandidateLeft
    <3>. QED BY <1>6, <2>2, <3>1 DEF Outcomes, UnsentOutcomes
  <2>4. CASE ~attempted[k]
    <3>1. Return(k, "offline")
      BY <1>9, <2>4 DEF NoCandidateLeft
    <3>. QED BY <1>6, <2>1, <2>2, <2>4, <3>1 DEF Outcomes
  <2>. QED BY <2>3, <2>4
<1>10. ASSUME NEW k \in Callers, InsertPending(k) PROVE NeverSent'
  <2>0. PICK r : r = nextReq
    OBVIOUS
  <2>1. /\ req' = [req EXCEPT ![k] = r] /\ r \in Req
        /\ cpc[k] = "insert" /\ cpc' = [cpc EXCEPT ![k] = "readfd"]
        /\ UNCHANGED <<attempted, outcome, ranOn, inbox>>
    BY <1>0, <1>10, <2>0 DEF InsertPending, GotoC, Req
  <2>2. Nowhere(r)'
    BY <1>0, <2>0, <2>1 DEF Younger, Nowhere, Req
  <2>3. attempted[k] /\ outcome[k] = "none"
    BY <2>1 DEF NeverSent
  <2>4. r \in 0..MaxReq /\ "readfd" \in CallerPc
    BY <2>1 DEF Req, CallerPc
  <2>5. outcome' = [outcome EXCEPT ![k] = outcome[k]]
    BY <1>4, <2>1
  <2>6. /\ "none" \in Outcomes
        /\ attempted'[k] /\ \A j \in Callers \ {k} : attempted'[j] = attempted[j]
        /\ \A c \in Clients : inbox'[c] \subseteq inbox[c] \cup ({req[k]} \cap Req)
    BY <2>1, <2>3 DEF Outcomes
  <2>. QED BY <1>3, <2>1, <2>2, <2>3, <2>4, <2>5, <2>6
<1>11. ASSUME NEW k \in Callers, SendRequest(k) PROVE NeverSent'
  <2>1. /\ UNCHANGED <<req, attempted, outcome, ranOn>>
        /\ cpc[k] = "write" /\ cpc' = [cpc EXCEPT ![k] = "enterwait"]
        /\ \A c \in Clients : inbox'[c] \subseteq inbox[c] \cup {req[k]}
    BY <1>0, <1>11 DEF SendRequest, GotoC
  <2>2. outcome[k] = "none" /\ (~attempted[k] => req[k] = 0)
    BY <2>1 DEF NeverSent
  <2>3. req[k] \in Req
    BY <2>1 DEF GwTypeOK, Requested, Waiting
  <2>4. /\ req' = [req EXCEPT ![k] = req[k]] /\ outcome' = [outcome EXCEPT ![k] = outcome[k]]
        /\ "enterwait" \in CallerPc /\ outcome[k] \notin UnsentOutcomes
        /\ \A c \in Clients : inbox'[c] \subseteq inbox[c] \cup ({req[k]} \cap Req)
    BY <1>4, <2>1, <2>2, <2>3 DEF CallerPc, UnsentOutcomes
  <2>. QED BY <1>3, <1>4, <2>1, <2>2, <2>4
<1>12. ASSUME NEW k \in Callers, DropUnsent(k) PROVE NeverSent'
  <2>1. /\ UNCHANGED <<req, attempted, ranOn, inbox>> /\ cpc[k] = "sendfailed"
        /\ \/ Return(k, "send failed")
           \/ GotoC(k, "select") /\ UNCHANGED outcome
    BY <1>12 DEF DropUnsent, NextCandidate
  <2>2. Nowhere(req[k])
    BY <2>1 DEF NeverSent
  <2>. QED BY <1>5, <1>6, <2>1, <2>2 DEF CallerPc, Outcomes
<1>13. ASSUME NEW k \in Callers, Decide(k) PROVE NeverSent'
  <2> DEFINE s == call[req[k]]
  <2>1. /\ UNCHANGED <<req, attempted, ranOn, inbox>> /\ cpc[k] \in {"decide", "decidetimeout"}
        /\ \/ Return(k, "timeout")
           \/ cpc[k] = "decide" /\ Return(k, Verdict(s))
           \/ GotoC(k, "select") /\ UNCHANGED outcome
    BY <1>13 DEF Decide, NextCandidate
  <2>2. cpc[k] = "decide" => Verdict(s) \in Outcomes \ UnsentOutcomes
    <3>1. cpc[k] = "decide" => s \in CallState
      BY DEF GwTypeOK, TypeOK, CallTypeOK, Requested, Deciding
    <3> HIDE DEF s
    <3>2. s \in CallState => s.answer \in Answers \cup {"none"} /\ s.err \in Failures \cup {"none"}
      BY DEF CallState
    <3>. QED BY <3>1, <3>2 DEF Verdict, Outcomes, Answers, Failures, UnsentOutcomes
  <2> HIDE DEF s
  <2>. QED BY <1>5, <1>6, <2>1, <2>2 DEF CallerPc, Outcomes, UnsentOutcomes
<1>14. ASSUME NEW k \in Callers,
              \/ ReadSocketFd(k) \/ SendFails(k)
              \/ EnterWait(k) \/ Wake(k) \/ Timeout(k) \/ ErasePending(k)
       PROVE  NeverSent'
  <2>1. /\ UNCHANGED <<req, outcome, attempted, ranOn, inbox>> /\ cpc[k] # "idle"
        /\ \E l \in CallerPc \ {"insert"} :
             /\ GotoC(k, l)
             /\ l \in {"readfd", "write", "sendfailed"} => cpc[k] \in {"readfd", "write"}
    BY <1>14 DEF ReadSocketFd, SendFails, EnterWait, Wake, Timeout, ErasePending, CallerPc
  <2>. QED BY <1>5, <2>1 DEF NeverSent
<1>15. ASSUME NEW k \in Callers, CallerStep(k) PROVE NeverSent'
  BY <1>8, <1>9, <1>10, <1>11, <1>12, <1>13, <1>14, <1>15 DEF CallerStep
<1>16. ASSUME NEW c \in Clients,
              \/ Accept(c) \/ PeerCloses(c) \/ ReaderStep(c) \/ HandleUnregister(c)
              \/ \E offers \in Catalogs : HandleRegister(c, offers)
       PROVE  NeverSent'
  <2>1. UNCHANGED <<req, cpc, attempted, outcome, ranOn>>
    BY <1>16 DEF Accept, PeerCloses, HandleUnregister, HandleRegister, ReaderStep,
       NotifyToolsChanged, DeliverAnswer, ReadEof, UnregisterTools,
       EraseClient, LockPending, FailPending, UnlockPending
  <2>2. inbox' = inbox \/ inbox' = [inbox EXCEPT ![c] = {}]
    BY <1>16 DEF Accept, PeerCloses, HandleUnregister, HandleRegister, ReaderStep,
       NotifyToolsChanged, DeliverAnswer, ReadEof, UnregisterTools,
       EraseClient, LockPending, FailPending, UnlockPending
  <2>. QED BY <1>0, <1>1, <2>1, <2>2
<1>17. CASE StopListening \/ StopStep
  <2>1. UNCHANGED <<req, cpc, attempted, outcome, ranOn, inbox>>
    BY <1>17 DEF StopListening, StopStep, StopClients, StopLockPending,
       StopFailPending, StopClearPending, StopClearRegistry
  <2>. QED BY <1>1, <2>1
<1>18. ASSUME NEW c \in Clients, ReaderMessage(c) PROVE NeverSent'
  BY <1>2, <1>16, <1>18 DEF ReaderMessage
<1>. QED BY <1>7, <1>15, <1>16, <1>17, <1>18 DEF Next

(* The abstract state.                                                     *)
Busy == [k \in Callers |-> cpc[k] # "idle"]
Ran  == [k \in Callers |-> IF req[k] = 0 THEN {} ELSE ranOn[req[k]]]

LEMMA RefinementStep ==
  ASSUME GwTypeOK, CallsInv, Next
  PROVE  [Calls!Next]_(Calls!callsVars)
<1> USE DEF connVars, satVars, readerVars, callVars, lockVars, callerVars,
            stopVars
<1> DEFINE Simulated == Calls!Next \/ UNCHANGED <<Busy, Ran, outcome>>
<1>0. /\ cpc \in [Callers -> CallerPc] /\ outcome \in [Callers -> Outcomes]
      /\ req \in [Callers -> 0..MaxReq] /\ ranOn \in [Req -> SUBSET Clients]
      /\ 0 \notin Req /\ \A k \in Callers : req[k] # 0 => req[k] \in Req
  BY GatewayAssumption DEF GwTypeOK, TypeOK, CallerTypeOK, SatTypeOK, Req
<1>1. SUFFICES Simulated
  BY DEF Calls!callsVars, Busy, Ran
<1>2. ASSUME UNCHANGED <<cpc, req, ranOn, outcome>> PROVE Simulated
  BY <1>2 DEF Busy, Ran
(* A step of caller k that keeps its request and its outcome and does not  *)
(* end the call, and one that ends it.                                     *)
<1>3. ASSUME NEW k \in Callers, NEW l, GotoC(k, l), l # "idle", cpc[k] # "idle",
             UNCHANGED <<req, ranOn, outcome>>
      PROVE  Simulated
  BY <1>0, <1>3 DEF Busy, Ran, GotoC
<1>4. ASSUME NEW k \in Callers, NEW o \in Outcomes \ {"none"}, Return(k, o),
             cpc[k] # "idle", UNCHANGED <<req, ranOn>>,
             o \in Answers => Ran[k] # {},
             o \in UnsentOutcomes => Ran[k] = {}
      PROVE  Simulated
  <2>1. Busy[k] /\ Busy' = [Busy EXCEPT ![k] = FALSE] /\ Ran' = Ran
    BY <1>0, <1>4 DEF Busy, Ran, Return, GotoC
  <2>2. outcome' = [outcome EXCEPT ![k] = o]
    BY <1>4 DEF Return
  <2>3. Calls!Return(k, o)
    BY <1>4, <2>1, <2>2 DEF Calls!Return, Busy, Ran, UnsentOutcomes
  <2>4. o \in Answers \cup (Outcomes \ (Answers \cup {"none"}))
    BY <1>4
  <2>. QED BY <2>3, <2>4 DEF Calls!Next
<1>5. ASSUME NEW k \in Callers, NEW n \in ToolNames, CallTool(k, n) PROVE Simulated
  <2>1. Ran' = [Ran EXCEPT ![k] = {}] /\ ~Busy[k]
    BY <1>0, <1>5 DEF CallTool, Ran, Busy
  <2>2. CASE Providers(clientTools, n) = {}
    <3>1. outcome' = [outcome EXCEPT ![k] = "not registered"] /\ Busy' = Busy
      BY <1>0, <1>5, <2>2 DEF CallTool, Return, GotoC, Busy
    <3>2. Calls!Refuse(k, "not registered")
      BY <2>1, <3>1 DEF Calls!Refuse, Busy, Ran, Outcomes, Answers
    <3>. QED BY <3>2 DEF Calls!Next, Outcomes, Answers
  <2>3. CASE Providers(clientTools, n) # {}
    <3>1. /\ outcome' = [outcome EXCEPT ![k] = "none"]
          /\ Busy' = [Busy EXCEPT ![k] = TRUE]
      BY <1>0, <1>5, <2>3 DEF CallTool, GotoC, Busy
    <3>2. Calls!Begin(k)
      BY <2>1, <3>1 DEF Calls!Begin, Busy, Ran
    <3>. QED BY <3>2 DEF Calls!Next
  <2>. QED BY <2>2, <2>3
<1>6. ASSUME NEW k \in Callers, InsertPending(k) PROVE Simulated
  <2>1. /\ req' = [req EXCEPT ![k] = nextReq] /\ UNCHANGED <<ranOn, outcome>>
        /\ cpc[k] = "insert" /\ cpc' = [cpc EXCEPT ![k] = "readfd"]
    BY <1>6 DEF InsertPending, GotoC
  <2>2. nextReq \in Req /\ ranOn[nextReq] = {}
    BY <1>6 DEF InsertPending, GwTypeOK, TypeOK, CallTypeOK, Req, CallsInv, Younger
  <2>3. Ran' = [Ran EXCEPT ![k] = {}]
    BY <1>0, <2>1, <2>2 DEF Ran
  <2>4. Busy[k] /\ Busy' = Busy
    BY <1>0, <2>1 DEF Busy
  <2>5. Calls!Attempt(k)
    BY <2>1, <2>3, <2>4 DEF Calls!Attempt, Busy, Ran
  <2>. QED BY <2>5 DEF Calls!Next
<1>7. ASSUME NEW c \in Clients, NEW r \in Req, NEW a \in Answers, ReadAnswer(c, r, a)
      PROVE  Simulated
  <2>1. ranOn' = [ranOn EXCEPT ![r] = ranOn[r] \cup {c}] /\ UNCHANGED <<cpc, req, outcome>>
    BY <1>7 DEF ReadAnswer
  <2>2. Busy' = Busy
    BY <2>1 DEF Busy
  <2>3. CASE \E k \in Callers : req[k] = r
    <3>1. PICK k \in Callers : req[k] = r
      BY <2>3
    <3>2. \A j \in Callers : req[j] = r => j = k
      BY <1>0, <3>1 DEF CallsInv, OwnRequest
    <3>3. Ran' = [Ran EXCEPT ![k] = Ran[k] \cup {c}]
      BY <1>0, <2>1, <3>1, <3>2 DEF Ran
    <3>4. outcome[k] \notin UnsentOutcomes
      BY <1>7, <3>1 DEF ReadAnswer, CallsInv, NeverSent, Nowhere
    <3>5. Calls!Execute(k, c)
      BY <2>1, <2>2, <3>3, <3>4 DEF Calls!Execute, Busy, Ran, UnsentOutcomes
    <3>. QED BY <3>5 DEF Calls!Next
  <2>4. CASE ~\E k \in Callers : req[k] = r
    BY <1>0, <2>1, <2>2, <2>4 DEF Ran
  <2>. QED BY <2>3, <2>4
<1>8. ASSUME NEW k \in Callers, SelectCandidate(k) PROVE Simulated
  <2>1. /\ UNCHANGED <<req, ranOn, outcome>> /\ cpc[k] = "select"
        /\ GotoC(k, "insert") \/ UNCHANGED cpc
    BY <1>8 DEF SelectCandidate
  <2>. QED BY <1>2, <1>3, <2>1
<1>9. ASSUME NEW k \in Callers, NoCandidateLeft(k) PROVE Simulated
  <2>1. cpc[k] = "select" /\ UNCHANGED <<req, ranOn>>
    BY <1>9 DEF NoCandidateLeft
  <2>2. CASE attempted[k]
    <3>1. Return(k, "no message")
      BY <1>9, <2>2 DEF NoCandidateLeft
    <3>. QED BY <1>4, <2>1, <3>1 DEF Outcomes, Answers, UnsentOutcomes
  <2>3. CASE ~attempted[k]
    <3>1. Return(k, "offline") /\ Ran[k] = {}
      BY <1>9, <2>3 DEF NoCandidateLeft, CallsInv, NeverSent, Ran
    <3>. QED BY <1>4, <2>1, <3>1 DEF Outcomes, Answers
  <2>. QED BY <2>2, <2>3
<1>10. ASSUME NEW k \in Callers, DropUnsent(k) PROVE Simulated
  <2>1. UNCHANGED <<req, ranOn>> /\ cpc[k] = "sendfailed"
    BY <1>10 DEF DropUnsent
  <2>2. \/ Return(k, "send failed")
        \/ GotoC(k, "select") /\ UNCHANGED outcome
    BY <1>10 DEF DropUnsent, NextCandidate
  <2>3. Ran[k] = {}
    BY <1>0, <2>1 DEF CallsInv, NeverSent, Nowhere, Ran
  <2>. QED BY <1>3, <1>4, <2>1, <2>2, <2>3 DEF Outcomes, Answers
<1>11. ASSUME NEW k \in Callers, Decide(k) PROVE Simulated
  <2> DEFINE s == call[req[k]]
  <2>1. UNCHANGED <<req, ranOn>> /\ cpc[k] \in {"decide", "decidetimeout"}
    BY <1>11 DEF Decide
  <2>2. \/ Return(k, "timeout")
        \/ cpc[k] = "decide" /\ Return(k, Verdict(s))
        \/ GotoC(k, "select") /\ UNCHANGED outcome
    BY <1>11 DEF Decide, NextCandidate
  <2>3. ASSUME cpc[k] = "decide"
        PROVE  /\ Verdict(s) \in Outcomes \ ({"none"} \cup UnsentOutcomes)
               /\ Verdict(s) \in Answers => Ran[k] # {}
    <3>1. req[k] \in Req /\ s \in CallState
      BY <2>3 DEF GwTypeOK, TypeOK, CallTypeOK, Requested, Deciding
    <3>2. s.done /\ (s.answer # "none" \/ s.err # "none")
      BY <2>3, <3>1 DEF CallsInv, Completed
    <3>3. s.answer # "none" => ranOn[req[k]] # {}
      BY <3>1 DEF CallsInv, Executed
    <3>4. Ran[k] = ranOn[req[k]]
      BY <1>0, <3>1 DEF Ran
    <3> HIDE DEF s
    <3>5. /\ s.answer \in Answers \cup {"none"} /\ s.err \in Failures \cup {"none"}
      BY <3>1 DEF CallState
    <3>. QED BY <3>2, <3>3, <3>4, <3>5 DEF Verdict, Outcomes, Answers, Failures, UnsentOutcomes
  <2> HIDE DEF s
  <2>. QED BY <1>3, <1>4, <2>1, <2>2, <2>3 DEF Outcomes, Answers, UnsentOutcomes
<1>12. ASSUME NEW k \in Callers,
              \/ ReadSocketFd(k) \/ SendRequest(k) \/ SendFails(k)
              \/ EnterWait(k) \/ Wake(k) \/ Timeout(k) \/ ErasePending(k)
       PROVE  Simulated
  <2>1. /\ UNCHANGED <<req, ranOn, outcome>> /\ cpc[k] # "idle"
        /\ \E l \in Waiting \cup Deciding : GotoC(k, l)
    BY <1>12 DEF ReadSocketFd, SendRequest, SendFails, EnterWait, Wake,
       Timeout, ErasePending, Waiting, Deciding
  <2>. QED BY <1>3, <2>1 DEF Waiting, Deciding
<1>13. ASSUME NEW k \in Callers, CallerStep(k) PROVE Simulated
  BY <1>6, <1>8, <1>9, <1>10, <1>11, <1>12, <1>13 DEF CallerStep
<1>14. ASSUME NEW c \in Clients, ReaderStep(c)
       PROVE  UNCHANGED <<cpc, req, ranOn, outcome>>
  BY <1>14 DEF ReaderStep, NotifyToolsChanged, DeliverAnswer, ReadEof,
     UnregisterTools, EraseClient, LockPending, FailPending, UnlockPending
<1>15. CASE StopListening \/ StopStep
  <2>1. UNCHANGED <<cpc, req, ranOn, outcome>>
    BY <1>15 DEF StopListening, StopStep, StopClients, StopLockPending,
       StopFailPending, StopClearPending, StopClearRegistry
  <2>. QED BY <1>2, <2>1
<1>16. ASSUME NEW c \in Clients, ReaderMessage(c) PROVE Simulated
  <2>1. CASE UNCHANGED <<cpc, req, ranOn, outcome>>
    BY <1>2, <2>1
  <2>. QED BY <1>7, <1>16, <2>1 DEF ReaderMessage, HandleRegister, HandleUnregister
<1>. QED BY <1>2, <1>5, <1>13, <1>14, <1>15, <1>16 DEF Next, Accept, PeerCloses

LEMMA CallsInvNext ==
  ASSUME GwInv, LockInv, CallsInv, [Next]_vars
  PROVE  CallsInv'
<1>1. CASE Next
  BY <1>1, RequestsNext, ExecutedNext, CompletedNext, NeverSentNext DEF GwInv, LockInv, CallsInv
<1>2. CASE UNCHANGED vars
  BY <1>2 DEF CallsInv, Younger, OwnRequest, Executed, Completed, NeverSent, Nowhere, vars,
     satVars, readerVars, callVars, callerVars
<1>. QED BY <1>1, <1>2

(* The gateway implements the tool calls it promises: each call returns    *)
(* once, reports an answer of a satellite only when a satellite has        *)
(* executed the attempt that is reported, and that nothing was sent only   *)
(* when none has or will.                                                  *)
THEOREM CallsAreImplemented == Spec => ImplementsToolCalls
<1>1. Init => LockInv /\ CallsInv
  BY GatewayAssumption
     DEF Init, LockInv, HoldsItsCall, TimeoutMeansUnanswered, Woken, CallsInv,
         Younger, OwnRequest, Executed, Completed, NeverSent, Nowhere, FreshCall,
         UnsentOutcomes, Req
<1>2. Init => Calls!Init
  <2> SUFFICES ASSUME Init PROVE Calls!Init
    OBVIOUS
  <2>1. /\ cpc = [k \in Callers |-> "idle"]
        /\ req = [k \in Callers |-> 0]
        /\ outcome = [k \in Callers |-> "none"]
    BY DEF Init
  <2>2. \A k \in Callers : cpc[k] = "idle" /\ req[k] = 0
    BY <2>1
  <2>3. [k \in Callers |-> cpc[k] # "idle"] = [k \in Callers |-> FALSE]
    BY <2>2
  <2>4. [k \in Callers |-> IF req[k] = 0 THEN {} ELSE ranOn[req[k]]]
          = [k \in Callers |-> {}]
    BY <2>2
  <2>. QED BY <2>1, <2>3, <2>4 DEF Calls!Init
<1>3. GwInv /\ LockInv /\ CallsInv /\ [Next]_vars => LockInv' /\ CallsInv'
  <2> SUFFICES ASSUME GwInv, LockInv, CallsInv, [Next]_vars
               PROVE  LockInv' /\ CallsInv'
    OBVIOUS
  <2>1. CallsInv'
    BY CallsInvNext
  <2>2. CASE Next
    BY <2>1, <2>2, LockInvNext DEF GwInv
  <2>3. CASE UNCHANGED vars
    BY <2>1, <2>3 DEF LockInv, HoldsItsCall, TimeoutMeansUnanswered, vars,
       callVars, callerVars, lockVars
  <2>. QED BY <2>2, <2>3
<1>4. GwInv /\ CallsInv /\ [Next]_vars
        => [Calls!Next]_(Calls!callsVars)
  <2> SUFFICES ASSUME GwInv, CallsInv, [Next]_vars
               PROVE  [Calls!Next]_(Calls!callsVars)
    OBVIOUS
  <2>1. CASE Next
    BY <2>1, RefinementStep DEF GwInv, CallsInv
  <2>2. CASE UNCHANGED vars
    BY <2>2 DEF Calls!callsVars, vars, satVars, callerVars
  <2>. QED BY <2>1, <2>2
<1>. QED BY <1>1, <1>2, <1>3, <1>4, GwInvInit, GwInvNext, PTL
         DEF Spec, ImplementsToolCalls, Calls!Spec

=============================================================================
