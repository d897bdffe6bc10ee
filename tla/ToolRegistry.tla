---------------------------- MODULE ToolRegistry ----------------------------
(***************************************************************************)
(* DynamicToolRegistry (src/src/DynamicToolRegistry.cxx): the catalogue of *)
(* tools that satellite daemons offer over the TCP gateway.                *)
(*                                                                         *)
(* The registry keeps two maps under one mutex: _clientTools, what every   *)
(* connected client offers, and _tools, for each tool name the offer that  *)
(* is advertised and routed to.  _tools is a cache: registerTools and      *)
(* unregisterClient recompute only the names they touched.                 *)
(*                                                                         *)
(* A DynamicTool is abstracted to what routing looks at: its name, its     *)
(* capability score and the client that offers it.  A client's list is the *)
(* set of its (name, score) offers, so a client without an entry and a     *)
(* client with an empty list are the same: both offer nothing.             *)
(***************************************************************************)
EXTENDS Integers

CONSTANTS
  Clients,    \* client ids, drawn from an atomic<int> counter
  ToolNames,  \* names a satellite may register
  Scores,     \* capability_score values, int64_t in the code
  MaxClient,  \* the largest client id
  MaxScore,   \* the largest capability score
  NoTool      \* "no entry in _tools"

ClientsAssumption ==
  /\ Clients \subseteq Int
  /\ MaxClient \in Int
  /\ \A c \in Clients : c <= MaxClient

ScoresAssumption ==
  /\ Scores \subseteq Int
  /\ MaxScore \in Int
  /\ \A s \in Scores : s <= MaxScore

ASSUME ClientsBounded == ClientsAssumption
ASSUME ScoresBounded == ScoresAssumption

Offer    == [name : ToolNames, score : Scores]
Provider == [client : Clients, score : Scores]

ASSUME NoToolIsNoProvider == NoTool \notin Provider

VARIABLES
  clientTools,  \* _clientTools: what each client offers
  tools         \* _tools: the advertised provider of each name, or NoTool

regVars == <<clientTools, tools>>

RegTypeOK ==
  /\ clientTools \in [Clients -> SUBSET Offer]
  /\ tools \in [ToolNames -> Provider \cup {NoTool}]

RegInit ==
  /\ clientTools = [c \in Clients |-> {}]
  /\ tools = [n \in ToolNames |-> NoTool]

-----------------------------------------------------------------------------

NamesOf(offers) == {o.name : o \in offers}

(* Every offer of tool n in the client map ct.                             *)
Providers(ct, n) ==
  {p \in Provider : [name |-> n, score |-> p.score] \in ct[p.client]}

(* recomputeBestToolLocked prefers the higher score, then the higher       *)
(* (younger) client id.                                                    *)
Beats(p, q) ==
  \/ p.score > q.score
  \/ p.score = q.score /\ p.client > q.client

IsBest(p, S) == p \in S /\ \A q \in S : ~Beats(q, p)

(* Mutated form: a name nobody offers keeps an offer of nobody.            *)
Best_Dangling(ct, n) ==
  IF Providers(ct, n) = {}
  THEN [client |-> MaxClient + 1, score |-> MaxScore]
  ELSE CHOOSE p \in Providers(ct, n) : IsBest(p, Providers(ct, n))

Best(ct, n) ==
  IF Providers(ct, n) = {}
  THEN NoTool
  ELSE CHOOSE p \in Providers(ct, n) : IsBest(p, Providers(ct, n))

(* recomputeBestToolLocked for every name in names.                        *)
Recomputed(ct, names) ==
  [n \in ToolNames |-> IF n \in names THEN Best(ct, n) ELSE tools[n]]

-----------------------------------------------------------------------------

(* Mutated forms of registerTools, for checking the properties: the names  *)
(* the client no longer offers are forgotten; the latest registration wins.*)
RegisterTools_NewNamesOnly(c, offers) ==
  LET ct == [clientTools EXCEPT ![c] = offers] IN
  /\ clientTools' = ct
  /\ tools' = Recomputed(ct, NamesOf(offers))

RegisterTools_LastWins(c, offers) ==
  LET ct == [clientTools EXCEPT ![c] = offers]
      own == [d \in Clients |-> IF d = c THEN offers ELSE {}]
  IN /\ clientTools' = ct
     /\ tools' = [n \in ToolNames |->
                    IF n \in NamesOf(offers) THEN Best(own, n)
                    ELSE Recomputed(ct, NamesOf(clientTools[c]))[n]]

(* registerTools: the new list replaces the client's list, then the added  *)
(* names and the names the client offered before are recomputed.           *)
RegisterTools(c, offers) ==
  LET ct == [clientTools EXCEPT ![c] = offers] IN
  /\ clientTools' = ct
  /\ tools' = Recomputed(ct, NamesOf(offers) \cup NamesOf(clientTools[c]))

(* unregisterClient: the entry goes, then the names it held are recomputed.*)
UnregisterClient(c) ==
  LET ct == [clientTools EXCEPT ![c] = {}] IN
  /\ clientTools' = ct
  /\ tools' = Recomputed(ct, NamesOf(clientTools[c]))

Clear ==
  /\ clientTools' = [c \in Clients |-> {}]
  /\ tools' = [n \in ToolNames |-> NoTool]

RegNext ==
  \/ \E c \in Clients : \E offers \in SUBSET Offer : RegisterTools(c, offers)
  \/ \E c \in Clients : UnregisterClient(c)
  \/ Clear

RegSpec == RegInit /\ [][RegNext]_regVars

-----------------------------------------------------------------------------

(* The advertised provider of every tool is the best of all the offers now *)
(* in the client map, and there is one exactly when somebody offers it:    *)
(* the partial recomputation of registerTools and unregisterClient         *)
(* (DynamicToolRegistry.cxx:137-144, 181-189) never leaves a stale or a    *)
(* missing entry in _tools.                                                *)
TableIsBest ==
  \A n \in ToolNames :
    IF Providers(clientTools, n) = {}
    THEN tools[n] = NoTool
    ELSE IsBest(tools[n], Providers(clientTools, n))

(* A weaker offer that arrives later never takes a tool away from the      *)
(* provider that has it: the provider of a name changes only to one that   *)
(* beats it, unless the provider itself withdrew or changed its offer      *)
(* (TestGatewayTimeout.cxx part 4a-2, "CPU must not demote GPU").          *)
OnlyBetterDisplaces ==
  [][\A n \in ToolNames :
        /\ tools[n] # NoTool
        /\ tools'[n] # tools[n]
        /\ tools[n] \in Providers(clientTools', n)
        => tools'[n] # NoTool /\ Beats(tools'[n], tools[n])]_regVars

=============================================================================
