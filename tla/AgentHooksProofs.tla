-------------------------- MODULE AgentHooksProofs --------------------------
(***************************************************************************)
(* What holds of the hook processes of a session for every number of       *)
(* processes, tool uses, kept ids and events: theorems about AgentHooks.   *)
(*                                                                         *)
(* The inductive invariant HooksInv is about three things.  Every state    *)
(* that a hook has worked out, and the one in the file, keeps the newest   *)
(* ids of those it counted (GoodState).  Every plan has its steps in the   *)
(* order of the handlers (GoodPlan), and a hook that has run alone so far  *)
(* has its state in the file once the save is behind it (Alone).  As long  *)
(* as nothing overlapped or failed, the rows and totals are those of the   *)
(* newest state less what its hook still has to write (Exact).             *)
(***************************************************************************)
EXTENDS AgentHooks, SequenceTheorems, FiniteSetTheorems, TLAPS

Steps == {"save", "start", "insert", "count", "stats"}

StateType == [started : BOOLEAN, step : Nat, tools : Nat, turns : Nat,
              ids : Seq(Uses), counted : Seq(Uses), plain : Nat]

HookType == [todo : Seq(Steps), kind : Kinds, st : StateType, calm : BOOLEAN]

SessType == [exists : BOOLEAN, calls : Nat, turns : Nat]

(* The ids a state keeps are the newest of those it has counted.           *)
Newest(st) ==
  /\ Len(st.ids) <= MaxIds /\ Len(st.ids) <= Len(st.counted)
  /\ Len(st.ids) = MaxIds \/ Len(st.ids) = Len(st.counted)
  /\ \A i \in 1..Len(st.ids) : st.ids[i] = st.counted[Len(st.counted) - Len(st.ids) + i]

CountedOnce(st) ==
  /\ st.tools = Len(st.counted) + st.plain
  /\ \A i, j \in 1..Len(st.counted) :
       (i < j /\ j - i <= MaxIds) => st.counted[i] /= st.counted[j]

(* No state counts more than the n events reported, and Claude's tools and *)
(* turns are counted only in a session that was started.                   *)
GoodState(st, agent, n) ==
  /\ st \in StateType
  /\ st.step <= n /\ st.tools <= n /\ st.turns <= n
  /\ Newest(st)
  /\ CountedOnce(st)
  /\ agent = "claude" => st.started \/ (st.tools = 0 /\ st.turns = 0)

Has(todo, s) == \E i \in 1..Len(todo) : todo[i] = s

(* Steps are not repeated, the start and the save come before all others,  *)
(* and the totals come last.                                               *)
GoodPlan(todo) ==
  /\ \A i, j \in 1..Len(todo) : i < j => todo[i] /= todo[j]
  /\ \A i, j \in 1..Len(todo) :
       (i < j /\ todo[j] \in {"save", "start"}) => todo[i] \in {"save", "start"}
  /\ \A i \in 1..Len(todo) : todo[i] = "stats" => i = Len(todo)

HookGood(h) ==
  /\ hook[h] \in HookType
  /\ GoodState(hook[h].st, provider, events)
  /\ GoodPlan(hook[h].todo)
  /\ Has(hook[h].todo, "insert") => hook[h].st.step > 0

TypeInv ==
  /\ provider \in Providers
  /\ GoodState(file, provider, events)
  /\ rows \subseteq (1..MaxEvents) \X {"TOOL_CALL", "USER_TURN"}
  /\ sess \in SessType
  /\ events \in 0..MaxEvents
  /\ disturbed \in BOOLEAN
  /\ DOMAIN hook = Hooks
  /\ \A h \in Hooks : HookGood(h)

(* While a calm hook runs no other does, and what it saved is in the file. *)
Alone(h) ==
  (Running(h) /\ hook[h].calm) =>
    /\ \A g \in Hooks \ {h} : ~Running(g)
    /\ Has(hook[h].todo, "save") \/ file = hook[h].st

CalmWhile == \A h \in Hooks : (~disturbed /\ Running(h)) => hook[h].calm

ToolRows(rs) == {r \in rs : r[2] = "TOOL_CALL"}

(* The rows are those of the state, less the one still to be inserted.     *)
RowsAre(rs, st, kind, inserts) ==
  /\ \A r \in rs : r[1] <= st.step /\ (inserts => r[1] < st.step)
  /\ (inserts /\ kind = "PostTool") => Cardinality(ToolRows(rs)) + 1 = st.tools
  /\ ~(inserts /\ kind = "PostTool") => Cardinality(ToolRows(rs)) = st.tools

(* Calls are those of the state or none, unless the hook of a tool result  *)
(* is about to set them in a row that will be there.                       *)
CallsAre(se, st, kind, counts, stats) ==
  /\ (kind = "PostTool" /\ stats) \/ se.calls \in {st.tools, 0}
  /\ (kind = "PostTool" /\ stats) => counts \/ se.exists
  /\ (kind = "PostTool" /\ counts) => stats

(* In a session of Claude they are those of the state, less what the hook  *)
(* still has to count.                                                     *)
ClaudeIs(agent, se, st, kind, counts) ==
  agent = "claude" =>
    /\ (counts /\ kind = "PostTool") => se.calls + 1 = st.tools
    /\ ~(counts /\ kind = "PostTool") => se.calls = st.tools
    /\ (counts /\ kind /= "PostTool") => se.turns + 1 = st.turns
    /\ ~(counts /\ kind /= "PostTool") => se.turns = st.turns

(* A start still to be recorded wipes nothing, but for Cursor's late one.  *)
WipesNothing(agent, se, kind) ==
  /\ agent = "claude" => se.calls = 0 /\ se.turns = 0
  /\ kind /= "SessionStart" => se.calls = 0

(* What the database shows is what a hook with this state leaves there,    *)
(* less the steps it still has to take.                                    *)
Owes(agent, rs, se, st, kind, starts, inserts, counts, stats) ==
  /\ RowsAre(rs, st, kind, inserts)
  /\ CallsAre(se, st, kind, counts, stats)
  /\ ClaudeIs(agent, se, st, kind, counts)
  /\ starts => WipesNothing(agent, se, kind)

Exact(h) ==
  LET todo == hook[h].todo IN
  Owes(provider, rows, sess, hook[h].st, hook[h].kind,
       Has(todo, "start"), Has(todo, "insert"), Has(todo, "count"), Has(todo, "stats"))

ExactAtRest == Owes(provider, rows, sess, file, "Stop", FALSE, FALSE, FALSE, FALSE)

ExactInv ==
  ~disturbed => /\ Quiet => ExactAtRest
                /\ \A h \in Hooks : Running(h) => Exact(h)

AloneInv == (\A h \in Hooks : Alone(h)) /\ CalmWhile

HooksInv == TypeInv /\ AloneInv /\ ExactInv

------------------------------------------------------------------------------
(* The states that the events make.                                        *)

LEMMA Known ==
  MaxIds \in Nat /\ MaxIds > 0 /\ MaxEvents \in Nat /\ NoUse \notin Uses
BY HooksAssumption DEF HooksAssumption

LEMMA StateFields ==
  ASSUME NEW st \in StateType
  PROVE  /\ st.started \in BOOLEAN /\ st.step \in Nat /\ st.tools \in Nat
         /\ st.turns \in Nat /\ st.ids \in Seq(Uses) /\ st.counted \in Seq(Uses)
         /\ st.plain \in Nat
BY DEF StateType

(* The ids kept are the last ones of the list.                             *)
LEMMA KeptIs ==
  ASSUME NEW ids \in Seq(Uses)
  PROVE  /\ Kept(ids) \in Seq(Uses)
         /\ Len(Kept(ids)) <= MaxIds /\ Len(Kept(ids)) <= Len(ids)
         /\ Len(Kept(ids)) = MaxIds \/ Len(Kept(ids)) = Len(ids)
         /\ \A i \in 1..Len(Kept(ids)) : Kept(ids)[i] = ids[Len(ids) - Len(Kept(ids)) + i]
<1> Len(ids) \in Nat
  BY LenProperties
<1>1. CASE Len(ids) > MaxIds
  <2>1. Kept(ids) = SubSeq(ids, Len(ids) - MaxIds + 1, Len(ids))
    BY <1>1 DEF Kept
  <2>2. Len(ids) - MaxIds + 1 \in 1..Len(ids) + 1
    BY <1>1, Known
  <2>3. Kept(ids) \in Seq(Uses) /\ Len(Kept(ids)) = MaxIds
    BY <1>1, <2>1, <2>2, Known, SubSeqProperties
  <2>4. ASSUME NEW i \in 1..Len(Kept(ids))
        PROVE  Kept(ids)[i] = ids[Len(ids) - Len(Kept(ids)) + i]
    BY <1>1, <2>1, <2>2, <2>3, Known, SubSeqProperties
  <2> QED BY <1>1, <2>3, <2>4
<1>2. CASE ~(Len(ids) > MaxIds)
  BY <1>2, Known DEF Kept
<1> QED BY <1>1, <1>2

LEMMA LaterState ==
  ASSUME NEW st, NEW agent, NEW n \in Nat, NEW m \in Nat, n <= m, GoodState(st, agent, n)
  PROVE  GoodState(st, agent, m)
<1>1. st.step \in Nat /\ st.tools \in Nat /\ st.turns \in Nat
  BY StateFields DEF GoodState
<1> QED BY <1>1 DEF GoodState

(* A use that is not among the ids kept was not among the last MaxIds      *)
(* counted, so counting it repeats none of those.                          *)
LEMMA CountedIsGood ==
  ASSUME NEW st, NEW n \in Nat, NEW u \in Uses, NEW agent,
         GoodState(st, agent, n), agent = "claude" => st.started, ~AlreadySeen(st, u)
  PROVE  GoodState(Counted(st, u), agent, n + 1)
<1> DEFINE new  == Counted(st, u)
           more == Append(st.counted, u)
           kept == Append(st.ids, u)
           C == Len(st.counted)
           I == Len(st.ids)
           K == Len(Kept(kept))
<1>1. /\ st \in StateType /\ Newest(st) /\ CountedOnce(st)
      /\ st.step <= n /\ st.tools <= n /\ st.turns <= n
  BY DEF GoodState
<1>2. /\ st.started \in BOOLEAN /\ st.step \in Nat /\ st.tools \in Nat
      /\ st.turns \in Nat /\ st.ids \in Seq(Uses) /\ st.counted \in Seq(Uses)
      /\ st.plain \in Nat /\ u /= NoUse
  BY <1>1, StateFields, Known
<1>3. /\ C \in Nat /\ I \in Nat /\ more \in Seq(Uses) /\ kept \in Seq(Uses)
      /\ Len(more) = C + 1 /\ Len(kept) = I + 1
      /\ \A i \in 1..C : more[i] = st.counted[i]
      /\ \A i \in 1..I : kept[i] = st.ids[i]
      /\ more[C + 1] = u /\ kept[I + 1] = u
  BY <1>2, AppendProperties, LenProperties
<1>4. /\ Kept(kept) \in Seq(Uses) /\ K \in Nat /\ K <= MaxIds /\ K <= I + 1
      /\ K = MaxIds \/ K = I + 1
      /\ \A i \in 1..K : Kept(kept)[i] = kept[I + 1 - K + i]
  <2>1. kept \in Seq(Uses) /\ Len(kept) = I + 1 /\ I \in Nat
    BY <1>3
  <2> HIDE DEF kept, I
  <2>2. /\ Kept(kept) \in Seq(Uses)
        /\ Len(Kept(kept)) <= MaxIds /\ Len(Kept(kept)) <= Len(kept)
        /\ Len(Kept(kept)) = MaxIds \/ Len(Kept(kept)) = Len(kept)
        /\ \A i \in 1..Len(Kept(kept)) : Kept(kept)[i] = kept[Len(kept) - Len(Kept(kept)) + i]
    BY <2>1, KeptIs
  <2>3. K \in Nat
    BY <2>2, LenProperties
  <2> QED BY <2>1, <2>2, <2>3
<1>5. /\ new.started = st.started /\ new.step = st.step + 1 /\ new.tools = st.tools + 1
      /\ new.turns = st.turns /\ new.ids = Kept(kept) /\ new.counted = more
      /\ new.plain = st.plain /\ new \in StateType
  <2>1. /\ new.started = st.started /\ new.step = st.step + 1 /\ new.tools = st.tools + 1
        /\ new.turns = st.turns /\ new.ids = Kept(kept) /\ new.counted = more
        /\ new.plain = st.plain
    BY <1>1, <1>2 DEF Counted, Remembered, StateType
  <2>2. DOMAIN new = DOMAIN st
    BY <1>2 DEF Counted, Remembered
  <2>3. new = [f \in DOMAIN st |-> new[f]]
    BY <1>2 DEF Counted, Remembered
  <2>4. st.step + 1 \in Nat /\ st.tools + 1 \in Nat
    BY <1>2
  <2> HIDE DEF new, more, kept
  <2>5. DOMAIN st = {"started", "step", "tools", "turns", "ids", "counted", "plain"}
    BY <1>1 DEF StateType
  <2>6. new = [started |-> new.started, step |-> new.step, tools |-> new.tools,
               turns |-> new.turns, ids |-> new.ids, counted |-> new.counted,
               plain |-> new.plain]
    BY <2>2, <2>3, <2>5
  <2> QED BY <1>2, <1>3, <1>4, <2>1, <2>4, <2>6 DEF StateType
<1>6. /\ I <= MaxIds /\ I <= C /\ (I = MaxIds \/ I = C)
      /\ \A i \in 1..I : st.ids[i] = st.counted[C - I + i]
  BY <1>1 DEF Newest
<1>7. /\ st.tools = C + st.plain
      /\ \A i, j \in 1..C : (i < j /\ j - i <= MaxIds) => st.counted[i] /= st.counted[j]
  BY <1>1 DEF CountedOnce
<1>8. Len(new.counted) = C + 1 /\ Len(new.ids) = K
  BY <1>3, <1>5
<1>9. \A i \in 1..I : st.ids[i] /= u
  BY DEF AlreadySeen
<1> HIDE DEF new, more, kept, C, I, K
<1>10. Newest(new)
  <2>1. K <= C + 1
    BY <1>3, <1>4, <1>6
  <2>2. K = MaxIds \/ K = C + 1
    BY <1>3, <1>4, <1>6, Known
  <2>3. ASSUME NEW i \in 1..K
        PROVE  new.ids[i] = new.counted[C + 1 - K + i]
    <3>1. CASE i = K
      BY <1>3, <1>4, <1>5, <3>1
    <3>2. CASE i /= K
      <4>1. I + 1 - K + i \in 1..I
        BY <1>3, <1>4, <3>2
      <4>2. kept[I + 1 - K + i] = st.counted[C - I + (I + 1 - K + i)]
        BY <1>3, <1>6, <4>1
      <4>3. /\ C - I + (I + 1 - K + i) = C + 1 - K + i
            /\ C + 1 - K + i \in 1..C
        BY <1>3, <1>4, <1>6, <3>2
      <4> QED BY <1>3, <1>4, <1>5, <4>2, <4>3
    <3> QED BY <3>1, <3>2
  <2>4. K <= MaxIds
    BY <1>4
  <2>5. \A i \in 1..Len(new.ids) : new.ids[i] = new.counted[Len(new.counted) - Len(new.ids) + i]
    BY <1>8, <2>3, <1>3, <1>4
  <2>6. Len(new.ids) <= MaxIds /\ Len(new.ids) <= Len(new.counted)
    BY <1>8, <2>1, <2>4
  <2>7. Len(new.ids) = MaxIds \/ Len(new.ids) = Len(new.counted)
    BY <1>8, <2>2
  <2> QED BY <2>5, <2>6, <2>7 DEF Newest
<1>11. CountedOnce(new)
  <2>1. new.tools = C + 1 + new.plain
    <3>1. /\ new.tools = st.tools + 1 /\ new.plain = st.plain /\ st.tools = C + st.plain
          /\ C \in Nat /\ st.plain \in Nat
      BY <1>2, <1>3, <1>5, <1>7
    <3> QED BY <3>1
  <2>2. ASSUME NEW i \in 1..C + 1, NEW j \in 1..C + 1, i < j, j - i <= MaxIds
        PROVE  new.counted[i] /= new.counted[j]
    <3>1. i \in 1..C
      BY <1>3, <2>2
    <3>2. CASE j \in 1..C
      BY <1>3, <1>5, <1>7, <2>2, <3>1, <3>2
    <3>3. CASE j = C + 1
      <4>1. i - (C - I) \in 1..I
        BY <1>3, <1>6, <2>2, <3>1, <3>3, Known
      <4>2. C - I + (i - (C - I)) = i
        BY <1>3, <3>1
      <4>3. st.counted[i] /= u
        BY <1>6, <1>9, <4>1, <4>2
      <4> QED BY <1>3, <1>5, <3>1, <3>3, <4>3
    <3> QED BY <1>3, <3>2, <3>3
  <2> QED BY <1>8, <2>1, <2>2 DEF CountedOnce
<1>12. new.step <= n + 1 /\ new.tools <= n + 1 /\ new.turns <= n + 1
  BY <1>1, <1>2, <1>5
<1>13. GoodState(new, agent, n + 1)
  BY <1>5, <1>10, <1>11, <1>12 DEF GoodState
<1> QED BY <1>13 DEF new

(* A use without an id is counted beside those that have one.              *)
LEMMA CountedWithoutId ==
  ASSUME NEW st, NEW n \in Nat, NEW agent,
         GoodState(st, agent, n), agent = "claude" => st.started
  PROVE  GoodState(Counted(st, NoUse), agent, n + 1)
<1> DEFINE new == Counted(st, NoUse)
<1>1. /\ st \in StateType /\ Newest(st) /\ CountedOnce(st)
      /\ st.step <= n /\ st.tools <= n /\ st.turns <= n
  BY DEF GoodState
<1>2. /\ st.step \in Nat /\ st.tools \in Nat /\ st.turns \in Nat /\ st.plain \in Nat
      /\ Len(st.counted) \in Nat
  BY <1>1, StateFields, LenProperties
<1>3. /\ new.started = st.started /\ new.step = st.step + 1 /\ new.tools = st.tools + 1
      /\ new.turns = st.turns /\ new.ids = st.ids /\ new.counted = st.counted
      /\ new.plain = st.plain + 1
  BY <1>1 DEF Counted, StateType
<1>4. new \in StateType
  <2>1. st.step + 1 \in Nat /\ st.tools + 1 \in Nat /\ st.plain + 1 \in Nat
    BY <1>2
  <2>2. [st EXCEPT !.step = st.step + 1, !.tools = st.tools + 1, !.plain = st.plain + 1]
          \in StateType
    BY <1>1, <2>1 DEF StateType
  <2> QED BY <2>2 DEF Counted
<1> HIDE DEF new
<1>5. Newest(new)
  BY <1>1, <1>3 DEF Newest
<1>6. CountedOnce(new)
  BY <1>1, <1>2, <1>3 DEF CountedOnce
<1>7. GoodState(new, agent, n + 1)
  BY <1>1, <1>2, <1>3, <1>4, <1>5, <1>6 DEF GoodState
<1> QED BY <1>7 DEF new

------------------------------------------------------------------------------
(* The plans that the events make.                                         *)

(* A plan of the handlers: which of its steps it has.                      *)
IsPlan(todo, starts, writes, stats) ==
  /\ todo \in Seq(Steps) /\ GoodPlan(todo)
  /\ Len(todo) > 0 /\ Has(todo, "save")
  /\ Has(todo, "start") <=> starts
  /\ Has(todo, "insert") <=> writes
  /\ Has(todo, "count") <=> writes
  /\ Has(todo, "stats") <=> stats

LEMMA Joined ==
  ASSUME NEW s \in Seq(Steps), NEW t \in Seq(Steps), NEW r \in Seq(Steps),
         Len(r) = Len(s) + Len(t),
         \A i \in 1..Len(s) : r[i] = s[i],
         \A i \in 1..Len(t) : r[Len(s) + i] = t[i]
  PROVE  s \o t = r
<1>1. /\ s \o t \in Seq(Steps) /\ Len(s \o t) = Len(s) + Len(t)
      /\ \A i \in 1..Len(s) + Len(t) :
           (s \o t)[i] = IF i <= Len(s) THEN s[i] ELSE t[i - Len(s)]
  BY ConcatProperties
<1>2. Len(s) \in Nat /\ Len(t) \in Nat
  BY LenProperties
<1>3. ASSUME NEW i \in 1..Len(s) + Len(t) PROVE (s \o t)[i] = r[i]
  <2>1. CASE i <= Len(s)
    BY <1>1, <1>2, <2>1
  <2>2. CASE ~(i <= Len(s))
    <3>1. i - Len(s) \in 1..Len(t) /\ Len(s) + (i - Len(s)) = i
      BY <1>2, <2>2
    <3>2. r[Len(s) + (i - Len(s))] = t[i - Len(s)]
      BY <3>1
    <3> QED BY <1>1, <2>2, <3>1, <3>2
  <2> QED BY <2>1, <2>2
<1> QED BY <1>1, <1>3, SeqEqual

LEMMA SavePlans ==
  /\ IsPlan(<<"save">>, FALSE, FALSE, FALSE)
  /\ IsPlan(<<"start">> \o <<"save">>, TRUE, FALSE, FALSE)
  /\ IsPlan(<<>> \o <<"save">>, FALSE, FALSE, FALSE)
  /\ IsPlan(<<"save", "start">>, TRUE, FALSE, FALSE)
<1>1. IsPlan(<<"save">>, FALSE, FALSE, FALSE)
  BY DEF IsPlan, GoodPlan, Has, Steps
<1>2. IsPlan(<<"start">> \o <<"save">>, TRUE, FALSE, FALSE)
  <2>1. <<"start">> \o <<"save">> = <<"start", "save">>
    <3> DEFINE s == <<"start">>
               t == <<"save">>
               r == <<"start", "save">>
    <3>1. /\ s \in Seq(Steps) /\ t \in Seq(Steps) /\ r \in Seq(Steps)
          /\ Len(r) = Len(s) + Len(t)
      BY DEF Steps
    <3>2. \A i \in 1..Len(s) : r[i] = s[i]
      OBVIOUS
    <3>3. \A i \in 1..Len(t) : r[Len(s) + i] = t[i]
      OBVIOUS
    <3> HIDE DEF s, t, r
    <3>4. s \o t = r
      BY <3>1, <3>2, <3>3, Joined
    <3> QED BY <3>4 DEF s, t, r
  <2>2. IsPlan(<<"start", "save">>, TRUE, FALSE, FALSE)
    BY DEF IsPlan, GoodPlan, Has, Steps
  <2> QED BY <2>1, <2>2
<1>3. IsPlan(<<>> \o <<"save">>, FALSE, FALSE, FALSE)
  <2>1. <<>> \o <<"save">> = <<"save">>
    OBVIOUS
  <2> QED BY <2>1, <1>1
<1>4. IsPlan(<<"save", "start">>, TRUE, FALSE, FALSE)
  BY DEF IsPlan, GoodPlan, Has, Steps
<1> QED BY <1>1, <1>2, <1>3, <1>4

LEMMA WritingPlans ==
  /\ IsPlan(<<"save">> \o <<"insert", "count">>, FALSE, TRUE, FALSE)
  /\ IsPlan(<<"save", "start">> \o <<"insert", "count">>, TRUE, TRUE, FALSE)
  /\ IsPlan(<<>> \o <<"save", "insert", "count", "stats">>, FALSE, TRUE, TRUE)
  /\ IsPlan(<<"start">> \o <<"save", "insert", "count", "stats">>, TRUE, TRUE, TRUE)
<1>1. IsPlan(<<"save">> \o <<"insert", "count">>, FALSE, TRUE, FALSE)
  <2>1. <<"save">> \o <<"insert", "count">> = <<"save", "insert", "count">>
    <3> DEFINE s == <<"save">>
               t == <<"insert", "count">>
               r == <<"save", "insert", "count">>
    <3>1. /\ s \in Seq(Steps) /\ t \in Seq(Steps) /\ r \in Seq(Steps)
          /\ Len(r) = Len(s) + Len(t)
      BY DEF Steps
    <3>2. \A i \in 1..Len(s) : r[i] = s[i]
      OBVIOUS
    <3>3. \A i \in 1..Len(t) : r[Len(s) + i] = t[i]
      OBVIOUS
    <3> HIDE DEF s, t, r
    <3>4. s \o t = r
      BY <3>1, <3>2, <3>3, Joined
    <3> QED BY <3>4 DEF s, t, r
  <2>2. IsPlan(<<"save", "insert", "count">>, FALSE, TRUE, FALSE)
    BY DEF IsPlan, GoodPlan, Has, Steps
  <2> QED BY <2>1, <2>2
<1>2. IsPlan(<<"save", "start">> \o <<"insert", "count">>, TRUE, TRUE, FALSE)
  <2>1. <<"save", "start">> \o <<"insert", "count">> = <<"save", "start", "insert", "count">>
    <3> DEFINE s == <<"save", "start">>
               t == <<"insert", "count">>
               r == <<"save", "start", "insert", "count">>
    <3>1. /\ s \in Seq(Steps) /\ t \in Seq(Steps) /\ r \in Seq(Steps)
          /\ Len(r) = Len(s) + Len(t)
      BY DEF Steps
    <3>2. \A i \in 1..Len(s) : r[i] = s[i]
      OBVIOUS
    <3>3. \A i \in 1..Len(t) : r[Len(s) + i] = t[i]
      OBVIOUS
    <3> HIDE DEF s, t, r
    <3>4. s \o t = r
      BY <3>1, <3>2, <3>3, Joined
    <3> QED BY <3>4 DEF s, t, r
  <2>2. IsPlan(<<"save", "start", "insert", "count">>, TRUE, TRUE, FALSE)
    BY DEF IsPlan, GoodPlan, Has, Steps
  <2> QED BY <2>1, <2>2
<1>3. IsPlan(<<>> \o <<"save", "insert", "count", "stats">>, FALSE, TRUE, TRUE)
  <2>1. <<>> \o <<"save", "insert", "count", "stats">> = <<"save", "insert", "count", "stats">>
    OBVIOUS
  <2>2. IsPlan(<<"save", "insert", "count", "stats">>, FALSE, TRUE, TRUE)
    BY DEF IsPlan, GoodPlan, Has, Steps
  <2> QED BY <2>1, <2>2
<1>4. IsPlan(<<"start">> \o <<"save", "insert", "count", "stats">>, TRUE, TRUE, TRUE)
  <2>1. <<"start">> \o <<"save", "insert", "count", "stats">>
          = <<"start", "save", "insert", "count", "stats">>
    <3> DEFINE s == <<"start">>
               t == <<"save", "insert", "count", "stats">>
               r == <<"start", "save", "insert", "count", "stats">>
    <3>1. /\ s \in Seq(Steps) /\ t \in Seq(Steps) /\ r \in Seq(Steps)
          /\ Len(r) = Len(s) + Len(t)
      BY DEF Steps
    <3>2. \A i \in 1..Len(s) : r[i] = s[i]
      OBVIOUS
    <3>3. \A i \in 1..Len(t) : r[Len(s) + i] = t[i]
      OBVIOUS
    <3> HIDE DEF s, t, r
    <3>4. s \o t = r
      BY <3>1, <3>2, <3>3, Joined
    <3> QED BY <3>4 DEF s, t, r
  <2>2. IsPlan(<<"start", "save", "insert", "count", "stats">>, TRUE, TRUE, TRUE)
    BY DEF IsPlan, GoodPlan, Has, Steps
  <2> QED BY <2>1, <2>2
<1> QED BY <1>1, <1>2, <1>3, <1>4

LEMMA EndingPlans ==
  /\ IsPlan(<<>> \o <<"save", "stats">>, FALSE, FALSE, TRUE)
  /\ IsPlan(<<"start">> \o <<"save", "stats">>, TRUE, FALSE, TRUE)
<1>1. IsPlan(<<>> \o <<"save", "stats">>, FALSE, FALSE, TRUE)
  <2>1. <<>> \o <<"save", "stats">> = <<"save", "stats">>
    OBVIOUS
  <2>2. IsPlan(<<"save", "stats">>, FALSE, FALSE, TRUE)
    BY DEF IsPlan, GoodPlan, Has, Steps
  <2> QED BY <2>1, <2>2
<1>2. IsPlan(<<"start">> \o <<"save", "stats">>, TRUE, FALSE, TRUE)
  <2>1. <<"start">> \o <<"save", "stats">> = <<"start", "save", "stats">>
    <3> DEFINE s == <<"start">>
               t == <<"save", "stats">>
               r == <<"start", "save", "stats">>
    <3>1. /\ s \in Seq(Steps) /\ t \in Seq(Steps) /\ r \in Seq(Steps)
          /\ Len(r) = Len(s) + Len(t)
      BY DEF Steps
    <3>2. \A i \in 1..Len(s) : r[i] = s[i]
      OBVIOUS
    <3>3. \A i \in 1..Len(t) : r[Len(s) + i] = t[i]
      OBVIOUS
    <3> HIDE DEF s, t, r
    <3>4. s \o t = r
      BY <3>1, <3>2, <3>3, Joined
    <3> QED BY <3>4 DEF s, t, r
  <2>2. IsPlan(<<"start", "save", "stats">>, TRUE, FALSE, TRUE)
    BY DEF IsPlan, GoodPlan, Has, Steps
  <2> QED BY <2>1, <2>2
<1> QED BY <1>1, <1>2

(* How the new state of an event differs from the old one.                 *)
Follows(kind, st, new, starts, writes, stats) ==
  /\ writes => new.step = st.step + 1
  /\ ~writes => new.step = st.step
  /\ (writes /\ kind = "PostTool") => new.tools = st.tools + 1
  /\ ~(writes /\ kind = "PostTool") => new.tools = st.tools
  /\ provider = "claude" =>
       /\ (writes /\ kind /= "PostTool") => new.turns = st.turns + 1
       /\ ~(writes /\ kind /= "PostTool") => new.turns = st.turns
       /\ starts => st.tools = 0 /\ st.turns = 0
  /\ kind = "PostTool" => (stats <=> writes)
  /\ (starts /\ kind /= "SessionStart") => st.tools = 0

Planned(kind, st, p, n) ==
  /\ GoodState(p.st, provider, n + 1)
  /\ \E starts, writes, stats \in BOOLEAN :
       /\ IsPlan(p.todo, starts, writes, stats)
       /\ Follows(kind, st, p.st, starts, writes, stats)

LEMMA SameIds ==
  ASSUME NEW st, NEW new, Newest(st), CountedOnce(st),
         new.ids = st.ids, new.counted = st.counted, new.tools = st.tools,
         new.plain = st.plain
  PROVE  Newest(new) /\ CountedOnce(new)
<1>1. Newest(new)
  BY DEF Newest
<1>2. CountedOnce(new)
  BY DEF CountedOnce
<1> QED BY <1>1, <1>2

LEMMA GoodParts ==
  ASSUME NEW st, NEW agent, NEW n \in Nat, GoodState(st, agent, n)
  PROVE  /\ st \in StateType /\ Newest(st) /\ CountedOnce(st)
         /\ st.step <= n /\ st.tools <= n /\ st.turns <= n
         /\ st.started \in BOOLEAN /\ st.step \in Nat /\ st.tools \in Nat
         /\ st.turns \in Nat /\ st.ids \in Seq(Uses) /\ st.counted \in Seq(Uses)
         /\ st.plain \in Nat
<1>1. st \in StateType
  BY DEF GoodState
<1> QED BY <1>1, StateFields DEF GoodState

LEMMA ThatIsAPlan ==
  ASSUME NEW kind, NEW st, NEW p, NEW n, GoodState(p.st, provider, n + 1),
         NEW starts \in BOOLEAN, NEW writes \in BOOLEAN, NEW stats \in BOOLEAN,
         IsPlan(p.todo, starts, writes, stats),
         Follows(kind, st, p.st, starts, writes, stats)
  PROVE  Planned(kind, st, p, n)
BY DEF Planned

LEMMA BegunIs ==
  ASSUME NEW st, NEW n \in Nat, GoodState(st, provider, n)
  PROVE  /\ GoodState(Begun(st), provider, n)
         /\ provider = "claude" => Begun(st).started
         /\ Begun(st).step = st.step /\ Begun(st).tools = st.tools
         /\ Begun(st).turns = st.turns /\ Begun(st).ids = st.ids
<1>1. st \in StateType
  BY DEF GoodState
<1>2. /\ Begun(st) \in StateType
      /\ Begun(st).step = st.step /\ Begun(st).tools = st.tools
      /\ Begun(st).turns = st.turns /\ Begun(st).ids = st.ids
      /\ Begun(st).counted = st.counted /\ Begun(st).plain = st.plain
      /\ provider = "claude" => Begun(st).started
  <2>1. (st.started \/ provider = "claude") \in BOOLEAN
    OBVIOUS
  <2> QED BY <1>1, <2>1 DEF Begun, StateType
<1>3. Newest(Begun(st)) /\ CountedOnce(Begun(st))
  BY <1>2, GoodParts, SameIds
<1> QED BY <1>2, <1>3 DEF GoodState

LEMMA Ensured ==
  ASSUME NEW st, NEW n \in Nat, GoodState(st, provider, n)
  PROVE  /\ EnsureStarted(st) = <<>> \/ EnsureStarted(st) = <<"start">>
         /\ EnsureStarted(st) = <<"start">> => st.tools = 0 /\ st.turns = 0
BY DEF EnsureStarted, GoodState

(* SessionStart marks the state as started.                                *)
LEMMA SessionStartsIs ==
  ASSUME NEW st, NEW n \in Nat, NEW kind, kind = "SessionStart", GoodState(st, provider, n)
  PROVE  Planned(kind, st, SessionStarts(st), n)
<1> DEFINE p == SessionStarts(st)
<1>1. st \in StateType
  BY GoodParts
<1>2. /\ p.st \in StateType /\ p.st.started
      /\ p.st.step = st.step /\ p.st.tools = st.tools
      /\ p.st.turns = st.turns /\ p.st.ids = st.ids
      /\ p.st.counted = st.counted /\ p.st.plain = st.plain
  BY <1>1 DEF SessionStarts, StateType
<1>3. p.todo = IF st.turns = 0 /\ ~st.started THEN <<"save", "start">> ELSE <<"save">>
  BY DEF SessionStarts
<1> SUFFICES Planned(kind, st, p, n)
  OBVIOUS
<1> HIDE DEF p
<1>4. GoodState(p.st, provider, n)
  <2>1. Newest(p.st) /\ CountedOnce(p.st)
    BY <1>2, GoodParts, SameIds
  <2> QED BY <1>2, <2>1, GoodParts DEF GoodState
<1>5. GoodState(p.st, provider, n + 1)
  BY <1>4, LaterState
<1>7. CASE st.turns = 0 /\ ~st.started
  <2>1. IsPlan(p.todo, TRUE, FALSE, FALSE)
    BY <1>3, <1>7, SavePlans
  <2>2. Follows(kind, st, p.st, TRUE, FALSE, FALSE)
    BY <1>2, <1>7, GoodParts DEF Follows, GoodState
  <2> QED BY <1>5, <2>1, <2>2, ThatIsAPlan
<1>8. CASE ~(st.turns = 0 /\ ~st.started)
  <2>1. IsPlan(p.todo, FALSE, FALSE, FALSE)
    BY <1>3, <1>8, SavePlans
  <2>2. Follows(kind, st, p.st, FALSE, FALSE, FALSE)
    BY <1>2 DEF Follows
  <2> QED BY <1>5, <2>1, <2>2, ThatIsAPlan
<1> QED BY <1>7, <1>8

LEMMA Stepped ==
  ASSUME NEW st \in StateType
  PROVE  /\ [st EXCEPT !.step = @ + 1] \in StateType
         /\ [st EXCEPT !.turns = @ + 1] \in StateType
         /\ [st EXCEPT !.started = TRUE] \in StateType
<1>1. st.step + 1 \in Nat /\ st.turns + 1 \in Nat /\ TRUE \in BOOLEAN
  BY StateFields
<1>2. [st EXCEPT !.step = st.step + 1] \in StateType
  BY <1>1 DEF StateType
<1>3. [st EXCEPT !.turns = st.turns + 1] \in StateType
  BY <1>1 DEF StateType
<1>4. [st EXCEPT !.started = TRUE] \in StateType
  BY <1>1 DEF StateType
<1> QED BY <1>2, <1>3, <1>4

LEMMA CursorPromptIs ==
  ASSUME NEW st, NEW n \in Nat, NEW kind, kind = "Prompt", GoodState(st, provider, n),
         provider = "cursor"
  PROVE  Planned(kind, st, CursorPrompt(st), n)
<1> DEFINE p == CursorPrompt(st)
           begun == [st EXCEPT !.started = TRUE]
           first == ~st.started /\ st.turns = 0 /\ st.tools = 0
<1>1. /\ st \in StateType /\ st.step \in Nat /\ st.tools \in Nat /\ st.turns \in Nat
      /\ st.step <= n /\ st.tools <= n /\ st.turns <= n
      /\ Newest(st) /\ CountedOnce(st)
  BY GoodParts
<1>2. /\ p.st \in StateType
      /\ p.st.step = st.step + 1 /\ p.st.tools = st.tools
      /\ p.st.turns = st.turns /\ p.st.ids = st.ids
      /\ p.st.counted = st.counted /\ p.st.plain = st.plain
  <2>1. begun \in StateType
    BY <1>1, Stepped
  <2>2. /\ begun.step = st.step /\ begun.tools = st.tools /\ begun.turns = st.turns
        /\ begun.ids = st.ids /\ begun.counted = st.counted /\ begun.plain = st.plain
    BY <1>1 DEF StateType
  <2>3. p.st = [begun EXCEPT !.step = @ + 1]
    BY DEF CursorPrompt
  <2> HIDE DEF begun, p
  <2>4. p.st \in StateType
    BY <2>1, <2>3, Stepped
  <2> QED BY <2>1, <2>2, <2>3, <2>4 DEF StateType
<1>3. p.todo = (IF first THEN <<"save", "start">> ELSE <<"save">>) \o <<"insert", "count">>
  BY DEF CursorPrompt
<1> SUFFICES Planned(kind, st, p, n)
  OBVIOUS
<1> HIDE DEF p
<1>4. GoodState(p.st, provider, n + 1)
  <2>1. Newest(p.st) /\ CountedOnce(p.st)
    BY <1>1, <1>2, SameIds
  <2> QED BY <1>1, <1>2, <2>1 DEF GoodState
<1>5. CASE first
  <2>1. IsPlan(p.todo, TRUE, TRUE, FALSE)
    BY <1>3, <1>5, WritingPlans
  <2>2. Follows(kind, st, p.st, TRUE, TRUE, FALSE)
    BY <1>2, <1>5 DEF Follows
  <2> QED BY <1>4, <2>1, <2>2, ThatIsAPlan
<1>6. CASE ~first
  <2>1. IsPlan(p.todo, FALSE, TRUE, FALSE)
    BY <1>3, <1>6, WritingPlans
  <2>2. Follows(kind, st, p.st, FALSE, TRUE, FALSE)
    BY <1>2 DEF Follows
  <2> QED BY <1>4, <2>1, <2>2, ThatIsAPlan
<1> QED BY <1>5, <1>6

(* A result known already only sees to it that the session is recorded, as *)
(* do the events that only change what is not modelled.                    *)
LEMMA OnlyBegunIs ==
  ASSUME NEW st, NEW n \in Nat, NEW kind \in Kinds, GoodState(st, provider, n)
  PROVE  Planned(kind, st, [st |-> Begun(st), todo |-> EnsureStarted(st) \o <<"save">>], n)
<1>1. GoodState(Begun(st), provider, n + 1)
  BY BegunIs, LaterState
<1>2. ASSUME NEW starts \in BOOLEAN, starts => st.tools = 0 /\ st.turns = 0
      PROVE  Follows(kind, st, Begun(st), starts, FALSE, FALSE)
  BY <1>2, BegunIs DEF Follows
<1>3. CASE EnsureStarted(st) = <<>>
  BY <1>1, <1>2, <1>3, SavePlans DEF Planned
<1>4. CASE EnsureStarted(st) = <<"start">>
  BY <1>1, <1>2, <1>4, Ensured, SavePlans DEF Planned
<1> QED BY <1>3, <1>4, Ensured

(* A result or the end of a turn writes its row and sets the totals.       *)
LEMMA WritesAndStats ==
  ASSUME NEW st, NEW n \in Nat, NEW kind \in {"PostTool", "Stop"}, NEW new,
         GoodState(st, provider, n), GoodState(new, provider, n + 1),
         new.step = st.step + 1,
         new.tools = IF kind = "PostTool" THEN st.tools + 1 ELSE st.tools,
         new.turns = IF kind = "PostTool" THEN st.turns ELSE st.turns + 1
  PROVE  Planned(kind, st,
                 [st |-> new,
                  todo |-> EnsureStarted(st) \o <<"save", "insert", "count", "stats">>], n)
<1> DEFINE p == [st |-> new,
                 todo |-> EnsureStarted(st) \o <<"save", "insert", "count", "stats">>]
<1>1. p.st = new /\ p.todo = EnsureStarted(st) \o <<"save", "insert", "count", "stats">>
  OBVIOUS
<1> SUFFICES Planned(kind, st, p, n)
  OBVIOUS
<1> HIDE DEF p
<1>2. CASE EnsureStarted(st) = <<>>
  <2>1. IsPlan(p.todo, FALSE, TRUE, TRUE)
    BY <1>1, <1>2, WritingPlans
  <2>2. Follows(kind, st, p.st, FALSE, TRUE, TRUE)
    BY <1>1 DEF Follows
  <2> QED BY <1>1, <2>1, <2>2, ThatIsAPlan
<1>3. CASE EnsureStarted(st) = <<"start">>
  <2>1. IsPlan(p.todo, TRUE, TRUE, TRUE)
    BY <1>1, <1>3, WritingPlans
  <2>2. Follows(kind, st, p.st, TRUE, TRUE, TRUE)
    BY <1>1, <1>3, Ensured DEF Follows
  <2> QED BY <1>1, <2>1, <2>2, ThatIsAPlan
<1>4. EnsureStarted(st) = <<>> \/ EnsureStarted(st) = <<"start">>
  BY Ensured
<1> QED BY <1>2, <1>3, <1>4

LEMMA ToolResultIs ==
  ASSUME NEW st, NEW n \in Nat, NEW u \in Uses \cup {NoUse}, GoodState(st, provider, n)
  PROVE  Planned("PostTool", st, ToolResult(u, st), n)
<1>1. CASE AlreadySeen(st, u)
  BY <1>1, OnlyBegunIs DEF ToolResult, Kinds
<1>2. CASE ~AlreadySeen(st, u)
  <2> DEFINE new == Counted(Begun(st), u)
  <2>1. /\ GoodState(Begun(st), provider, n) /\ (provider = "claude" => Begun(st).started)
        /\ Begun(st).step = st.step /\ Begun(st).tools = st.tools /\ Begun(st).turns = st.turns
    BY BegunIs
  <2>2. ~AlreadySeen(Begun(st), u)
    BY <1>2, BegunIs DEF AlreadySeen
  <2>3. GoodState(new, provider, n + 1)
    <3> DEFINE b == Begun(st)
    <3>1. GoodState(b, provider, n) /\ (provider = "claude" => b.started) /\ ~AlreadySeen(b, u)
      BY <2>1, <2>2
    <3> HIDE DEF b
    <3>2. GoodState(Counted(b, u), provider, n + 1)
      BY <3>1, CountedIsGood, CountedWithoutId
    <3> QED BY <3>2 DEF b
  <2>4. /\ new.step = st.step + 1 /\ new.tools = st.tools + 1 /\ new.turns = st.turns
    BY <2>1 DEF Counted, Remembered, GoodState, StateType
  <2>5. ToolResult(u, st)
          = [st |-> new, todo |-> EnsureStarted(st) \o <<"save", "insert", "count", "stats">>]
    BY <1>2 DEF ToolResult
  <2> HIDE DEF new
  <2>6. Planned("PostTool", st, ToolResult(u, st), n)
    BY <2>3, <2>4, <2>5, WritesAndStats
  <2> QED BY <2>6
<1> QED BY <1>1, <1>2

LEMMA TurnEndsIs ==
  ASSUME NEW st, NEW n \in Nat, GoodState(st, provider, n)
  PROVE  Planned("Stop", st, TurnEnds(st), n)
<1> DEFINE b == Begun(st)
           new == [b EXCEPT !.turns = @ + 1, !.step = @ + 1]
<1>1. /\ GoodState(b, provider, n) /\ (provider = "claude" => b.started)
      /\ b.step = st.step /\ b.tools = st.tools /\ b.turns = st.turns
  BY BegunIs
<1>2. TurnEnds(st)
        = [st |-> new, todo |-> EnsureStarted(st) \o <<"save", "insert", "count", "stats">>]
  BY DEF TurnEnds
<1> HIDE DEF b
<1>3. /\ b \in StateType /\ b.step \in Nat /\ b.turns \in Nat /\ b.tools \in Nat
      /\ b.step <= n /\ b.tools <= n /\ b.turns <= n
      /\ Newest(b) /\ CountedOnce(b)
  BY <1>1, GoodParts
<1>4. /\ new \in StateType /\ new.step = st.step + 1 /\ new.turns = st.turns + 1
      /\ new.tools = st.tools /\ new.started = b.started
      /\ new.ids = b.ids /\ new.counted = b.counted /\ new.plain = b.plain
  <2> DEFINE a == [b EXCEPT !.turns = @ + 1]
  <2>1. a \in StateType
    BY <1>3, Stepped
  <2>2. /\ a.turns = b.turns + 1 /\ a.step = b.step /\ a.tools = b.tools
        /\ a.started = b.started /\ a.ids = b.ids /\ a.counted = b.counted
        /\ a.plain = b.plain
    BY <1>3 DEF StateType
  <2>3. new = [a EXCEPT !.step = @ + 1]
    OBVIOUS
  <2> HIDE DEF a, new
  <2>4. new \in StateType
    BY <2>1, <2>3, Stepped
  <2> QED BY <1>1, <2>1, <2>2, <2>3, <2>4 DEF StateType
<1> HIDE DEF new
<1>5. GoodState(new, provider, n + 1)
  <2>1. Newest(new) /\ CountedOnce(new)
    <3>1. new.tools = b.tools
      BY <1>1, <1>4
    <3> QED BY <1>3, <1>4, <3>1, SameIds
  <2>2. new.step <= n + 1 /\ new.tools <= n + 1 /\ new.turns <= n + 1
    BY <1>1, <1>3, <1>4
  <2> QED BY <1>1, <1>4, <2>1, <2>2 DEF GoodState
<1> QED BY <1>2, <1>4, <1>5, WritesAndStats

LEMMA SessionEndsIs ==
  ASSUME NEW st, NEW n \in Nat, GoodState(st, provider, n)
  PROVE  Planned("SessionEnd", st, SessionEnds(st), n)
<1>1. GoodState(Begun(st), provider, n + 1)
  BY BegunIs, LaterState
<1>2. ASSUME NEW starts \in BOOLEAN, starts => st.tools = 0 /\ st.turns = 0
      PROVE  Follows("SessionEnd", st, Begun(st), starts, FALSE, TRUE)
  BY <1>2, BegunIs DEF Follows
<1>3. CASE EnsureStarted(st) = <<>>
  BY <1>1, <1>2, <1>3, EndingPlans DEF Planned, SessionEnds
<1>4. CASE EnsureStarted(st) = <<"start">>
  BY <1>1, <1>2, <1>4, Ensured, EndingPlans DEF Planned, SessionEnds
<1> QED BY <1>3, <1>4, Ensured

(* Whatever the event, its plan is one of the handlers'.                   *)
LEMMA PlanIs ==
  ASSUME NEW st, NEW n \in Nat, NEW kind \in Kinds, NEW u \in Uses \cup {NoUse},
         GoodState(st, provider, n)
  PROVE  Planned(kind, st, Plan(kind, u, st), n)
<1>1. CASE kind = "SessionStart"
  BY <1>1, SessionStartsIs DEF Plan
<1>2. CASE kind = "Prompt" /\ provider = "cursor"
  BY <1>2, CursorPromptIs DEF Plan
<1>3. CASE kind = "PostTool"
  BY <1>3, ToolResultIs DEF Plan
<1>4. CASE kind = "Stop"
  BY <1>4, TurnEndsIs DEF Plan
<1>5. CASE kind = "SessionEnd"
  BY <1>5, SessionEndsIs DEF Plan
<1>6. CASE kind = "PreTool" \/ (kind = "Prompt" /\ provider /= "cursor")
  BY <1>6, OnlyBegunIs DEF Plan
<1> QED BY <1>1, <1>2, <1>3, <1>4, <1>5, <1>6 DEF Kinds

------------------------------------------------------------------------------
(* The hooks on their way through their plans.                             *)

LEMMA HeadIs ==
  ASSUME NEW todo \in Seq(Steps), todo /= <<>>, GoodPlan(todo)
  PROVE  /\ Len(todo) \in Nat /\ Len(todo) > 0
         /\ Head(todo) = todo[1] /\ Head(todo) \in Steps /\ Has(todo, Head(todo))
         /\ Head(todo) \notin {"save", "start"} => ~Has(todo, "save") /\ ~Has(todo, "start")
         /\ Head(todo) = "stats" => Len(todo) = 1
<1>1. Len(todo) \in Nat /\ Len(todo) > 0
  BY EmptySeq, LenProperties
<1>2. 1 \in 1..Len(todo) /\ Head(todo) = todo[1]
  BY <1>1, HeadTailProperties
<1>3. Head(todo) \in Steps /\ Has(todo, Head(todo))
  BY <1>2, ElementOfSeq DEF Has
<1>4. ASSUME Head(todo) \notin {"save", "start"}, NEW s \in {"save", "start"}
      PROVE  ~Has(todo, s)
  <2>1. ASSUME NEW i \in 1..Len(todo), todo[i] = s PROVE FALSE
    <3>1. 1 < i
      BY <1>1, <1>2, <1>4, <2>1
    <3> QED BY <1>2, <1>4, <2>1, <3>1 DEF GoodPlan
  <2> QED BY <2>1 DEF Has
<1>5. Head(todo) = "stats" => Len(todo) = 1
  BY <1>2 DEF GoodPlan
<1> QED BY <1>1, <1>2, <1>3, <1>4, <1>5

LEMMA RestIs ==
  ASSUME NEW todo \in Seq(Steps), GoodPlan(todo), NEW k \in {1, 2}, Len(todo) > k,
         NEW rest, rest = SubSeq(todo, k + 1, Len(todo))
  PROVE  /\ rest \in Seq(Steps) /\ rest /= <<>> /\ GoodPlan(rest)
         /\ \A s : Has(rest, s) => Has(todo, s) /\ s /= todo[1]
         /\ k = 1 => \A s : (Has(todo, s) /\ s /= todo[1]) => Has(rest, s)
<1>1. Len(todo) \in Nat
  BY LenProperties
<1>2. /\ rest \in Seq(Steps) /\ Len(rest) = Len(todo) - k
      /\ \A i \in 1..Len(todo) - k : rest[i] = todo[k + i]
  <2>1. k + 1 \in Int /\ k + 1 \in 1..Len(todo) + 1 /\ Len(todo) \in 0..Len(todo)
    BY <1>1
  <2>2. \A i \in k + 1..Len(todo) : todo[i] \in Steps
    BY <1>1, ElementOfSeq
  <2>3. /\ SubSeq(todo, k + 1, Len(todo)) \in Seq(Steps)
        /\ Len(SubSeq(todo, k + 1, Len(todo))) = Len(todo) - (k + 1) + 1
        /\ \A i \in 1..Len(todo) - (k + 1) + 1 :
             SubSeq(todo, k + 1, Len(todo))[i] = todo[k + 1 + i - 1]
    BY <1>1, <2>1, <2>2, SubSeqProperties
  <2>4. Len(todo) - (k + 1) + 1 = Len(todo) - k
    BY <1>1
  <2>5. \A i \in 1..Len(todo) - k : k + 1 + i - 1 = k + i
    BY <1>1
  <2> QED BY <2>3, <2>4, <2>5
<1>3. \A i \in 1..Len(rest) : k + i \in 1..Len(todo) /\ rest[i] = todo[k + i] /\ 1 < k + i
  BY <1>1, <1>2
<1>4. rest /= <<>>
  <2>1. Len(rest) > 0
    BY <1>1, <1>2
  <2>2. rest = <<>> => Len(rest) = 0
    BY EmptySeq
  <2> QED BY <1>1, <1>2, <2>1, <2>2
<1>5. GoodPlan(rest)
  <2>1. \A i, j \in 1..Len(rest) : i < j => k + i < k + j
    BY <1>1, <1>2
  <2>2. \A i, j \in 1..Len(rest) : i < j => rest[i] /= rest[j]
    BY <1>3, <2>1 DEF GoodPlan
  <2>3. \A i, j \in 1..Len(rest) :
          (i < j /\ rest[j] \in {"save", "start"}) => rest[i] \in {"save", "start"}
    BY <1>3, <2>1 DEF GoodPlan
  <2>4. \A i \in 1..Len(rest) : rest[i] = "stats" => i = Len(rest)
    <3>1. \A i \in 1..Len(rest) : k + i = Len(todo) => i = Len(rest)
      BY <1>1, <1>2
    <3> QED BY <1>3, <3>1 DEF GoodPlan
  <2> QED BY <2>2, <2>3, <2>4 DEF GoodPlan
<1>6. ASSUME NEW s, Has(rest, s) PROVE Has(todo, s) /\ s /= todo[1]
  <2>1. PICK i \in 1..Len(rest) : rest[i] = s
    BY <1>6 DEF Has
  <2>2. 1 \in 1..Len(todo)
    BY <1>1
  <2> QED BY <1>3, <2>1, <2>2 DEF Has, GoodPlan
<1>7. ASSUME k = 1, NEW s, Has(todo, s), s /= todo[1] PROVE Has(rest, s)
  <2>1. PICK i \in 1..Len(todo) : todo[i] = s
    BY <1>7 DEF Has
  <2>2. i - 1 \in 1..Len(rest) /\ k + (i - 1) = i
    BY <1>1, <1>2, <1>7, <2>1
  <2> QED BY <1>3, <2>1, <2>2 DEF Has
<1> QED BY <1>2, <1>4, <1>5, <1>6, <1>7

LEMMA EndedIsGood ==
  ASSUME NEW agent, NEW n \in Nat
  PROVE  /\ Ended \in HookType /\ Ended.todo = <<>>
         /\ GoodState(NewFile, agent, n) /\ GoodState(Ended.st, agent, n)
         /\ GoodPlan(Ended.todo) /\ ~Has(Ended.todo, "insert")
<1>1. NewFile \in StateType
  BY DEF NewFile, StateType
<1>2. Newest(NewFile) /\ CountedOnce(NewFile)
  BY Known DEF NewFile, Newest, CountedOnce
<1>3. GoodState(NewFile, agent, n)
  BY <1>1, <1>2 DEF GoodState, NewFile
<1>4. Ended \in HookType
  BY <1>1 DEF Ended, HookType, Kinds
<1> QED BY <1>3, <1>4 DEF Ended, GoodPlan, Has

LEMMA HookFields ==
  ASSUME NEW h \in Hooks, TypeInv
  PROVE  /\ hook[h] \in HookType /\ hook[h].todo \in Seq(Steps) /\ hook[h].kind \in Kinds
         /\ hook[h].st \in StateType /\ hook[h].calm \in BOOLEAN
         /\ GoodState(hook[h].st, provider, events) /\ GoodPlan(hook[h].todo)
         /\ Has(hook[h].todo, "insert") => hook[h].st.step > 0
         /\ DOMAIN hook = Hooks /\ events \in Nat
<1>1. HookGood(h) /\ DOMAIN hook = Hooks /\ events \in Nat
  BY Known DEF TypeInv
<1> QED BY <1>1 DEF HookGood, HookType

(* A hook takes k steps: it ends, or goes on with the rest of its plan.    *)
LEMMA Advanced ==
  ASSUME NEW h \in Hooks, NEW k \in {1, 2}, TypeInv, Running(h), Advance(h, k)
  PROVE  /\ DOMAIN hook' = Hooks
         /\ \A g \in Hooks \ {h} : hook'[g] = hook[g]
         /\ ~Running(h)' =>
              /\ hook'[h] = Ended
              /\ k = 1 => \A s : Has(hook[h].todo, s) => s = Head(hook[h].todo)
         /\ Running(h)' =>
              /\ hook'[h] \in HookType /\ GoodPlan(hook'[h].todo)
              /\ hook'[h].st = hook[h].st /\ hook'[h].kind = hook[h].kind
              /\ hook'[h].calm = hook[h].calm
              /\ \A s : Has(hook'[h].todo, s) => Has(hook[h].todo, s) /\ s /= Head(hook[h].todo)
              /\ k = 1 => \A s : (Has(hook[h].todo, s) /\ s /= Head(hook[h].todo))
                                   => Has(hook'[h].todo, s)
<1> DEFINE todo == hook[h].todo
           rest == SubSeq(todo, k + 1, Len(todo))
<1>1. /\ hook[h] \in HookType /\ todo \in Seq(Steps) /\ GoodPlan(todo) /\ DOMAIN hook = Hooks
  BY HookFields
<1>2. /\ Len(todo) \in Nat /\ Len(todo) > 0 /\ Head(todo) = todo[1]
  BY <1>1, HeadIs DEF Running
<1>3. /\ DOMAIN hook' = Hooks
      /\ \A g \in Hooks \ {h} : hook'[g] = hook[g]
      /\ hook'[h] = IF Len(todo) <= k THEN Ended ELSE [hook[h] EXCEPT !.todo = rest]
  <2> DEFINE new == IF Len(todo) <= k THEN Ended ELSE [hook[h] EXCEPT !.todo = rest]
  <2>1. hook' = [hook EXCEPT ![h] = new]
    BY DEF Advance
  <2> HIDE DEF new
  <2>2. DOMAIN hook' = Hooks /\ (\A g \in Hooks \ {h} : hook'[g] = hook[g]) /\ hook'[h] = new
    BY <1>1, <2>1
  <2> QED BY <2>2 DEF new
<1>4. CASE Len(todo) <= k
  <2>1. hook'[h] = Ended
    BY <1>3, <1>4
  <2>2. ~Running(h)'
    BY <2>1 DEF Running, Ended
  <2>3. ASSUME k = 1, NEW s, Has(todo, s) PROVE s = Head(todo)
    BY <1>2, <1>4, <2>3 DEF Has
  <2> QED BY <1>3, <2>1, <2>2, <2>3
<1>5. CASE ~(Len(todo) <= k)
  <2>1. Len(todo) > k
    BY <1>2, <1>5
  <2> HIDE DEF rest, todo
  <2>2. /\ rest \in Seq(Steps) /\ rest /= <<>> /\ GoodPlan(rest)
        /\ \A s : Has(rest, s) => Has(todo, s) /\ s /= todo[1]
        /\ k = 1 => \A s : (Has(todo, s) /\ s /= todo[1]) => Has(rest, s)
    BY <1>1, <2>1, RestIs DEF rest
  <2>3. /\ hook'[h] \in HookType /\ hook'[h].todo = rest
        /\ hook'[h].st = hook[h].st /\ hook'[h].kind = hook[h].kind
        /\ hook'[h].calm = hook[h].calm
    BY <1>1, <1>3, <1>5, <2>2 DEF HookType
  <2>4. Running(h)'
    BY <2>2, <2>3 DEF Running
  <2> QED BY <1>2, <1>3, <2>2, <2>3, <2>4 DEF todo
<1> QED BY <1>4, <1>5

LEMMA AdvanceKeepsHooks ==
  ASSUME NEW h \in Hooks, NEW k \in {1, 2}, TypeInv, Running(h), Advance(h, k),
         UNCHANGED <<provider, events>>
  PROVE  DOMAIN hook' = Hooks /\ \A g \in Hooks : HookGood(g)'
<1>1. events \in Nat /\ events' = events /\ provider' = provider
  BY HookFields
<1>2. /\ DOMAIN hook' = Hooks
      /\ \A g \in Hooks \ {h} : hook'[g] = hook[g]
      /\ ~Running(h)' => hook'[h] = Ended
  BY Advanced
<1>3. ASSUME NEW g \in Hooks \ {h} PROVE HookGood(g)'
  <2>1. HookGood(g)
    BY DEF TypeInv
  <2> QED BY <1>1, <1>2, <2>1 DEF HookGood
<1>4. ASSUME /\ hook'[h] \in HookType /\ GoodState(hook'[h].st, provider, events)
             /\ GoodPlan(hook'[h].todo)
             /\ Has(hook'[h].todo, "insert") => hook'[h].st.step > 0
      PROVE  HookGood(h)'
  <2>1. GoodState(hook'[h].st, provider', events')
    BY <1>1, <1>4
  <2> QED BY <1>4, <2>1 DEF HookGood
<1>5. ASSUME ~Running(h)' PROVE HookGood(h)'
  <2>1. hook'[h] = Ended
    BY <1>2, <1>5
  <2>2. /\ Ended \in HookType /\ GoodState(Ended.st, provider, events)
        /\ GoodPlan(Ended.todo) /\ ~Has(Ended.todo, "insert")
    BY <1>1, EndedIsGood
  <2> QED BY <1>4, <2>1, <2>2
<1>6. ASSUME Running(h)' PROVE HookGood(h)'
  <2>1. /\ hook'[h] \in HookType /\ GoodPlan(hook'[h].todo) /\ hook'[h].st = hook[h].st
        /\ Has(hook'[h].todo, "insert") => Has(hook[h].todo, "insert")
    BY <1>6, Advanced
  <2>2. GoodState(hook[h].st, provider, events)
        /\ (Has(hook[h].todo, "insert") => hook[h].st.step > 0)
    BY HookFields
  <2> QED BY <1>4, <2>1, <2>2
<1> QED BY <1>2, <1>3, <1>5, <1>6

------------------------------------------------------------------------------
(* Types, states and plans stay good.                                      *)

LEMMA InitTypes == Init => TypeInv
<1> SUFFICES ASSUME Init PROVE TypeInv
  OBVIOUS
<1>1. 0 \in Nat /\ events = 0 /\ events \in 0..MaxEvents
  BY Known DEF Init
<1>2. GoodState(file, provider, events)
  BY <1>1, EndedIsGood DEF Init
<1>3. ASSUME NEW h \in Hooks PROVE HookGood(h)
  <2>1. hook[h] = Ended
    BY DEF Init
  <2>2. /\ Ended \in HookType /\ GoodState(Ended.st, provider, events)
        /\ GoodPlan(Ended.todo) /\ ~Has(Ended.todo, "insert")
    BY <1>1, EndedIsGood
  <2> QED BY <2>1, <2>2 DEF HookGood
<1> QED BY <1>1, <1>2, <1>3 DEF Init, TypeInv, SessType

(* What the report of an event leaves behind.                              *)
LEMMA Reported ==
  ASSUME NEW h \in Hooks, NEW kind \in Kinds, NEW u \in Uses \cup {NoUse}, TypeInv, Report(h, kind, u)
  PROVE  /\ DOMAIN hook' = Hooks /\ events' = events + 1
         /\ UNCHANGED <<provider, file, rows, sess>>
         /\ ~Running(h) /\ events < MaxEvents
         /\ hook'[h] \in HookType /\ hook'[h].kind = kind /\ Running(h)'
         /\ Has(hook'[h].todo, "save")
         /\ hook'[h].calm <=> \A g \in Hooks \ {h} : ~Running(g)
         /\ Planned(kind, file, hook'[h], events)
         /\ \A g \in Hooks \ {h} :
              /\ hook'[g] \in HookType /\ hook'[g].todo = hook[g].todo
              /\ hook'[g].kind = hook[g].kind /\ hook'[g].st = hook[g].st
              /\ Running(g)' <=> Running(g)
              /\ Running(g) => ~hook'[g].calm
         /\ disturbed' <=> disturbed \/ \E g \in Hooks \ {h} : Running(g)
<1> DEFINE p == Plan(kind, u, file)
           others == {g \in Hooks \ {h} : Running(g)}
           new == [todo |-> p.todo, kind |-> kind, st |-> p.st, calm |-> others = {}]
<1>1. /\ ~Running(h) /\ events < MaxEvents
      /\ events' = events + 1 /\ UNCHANGED <<provider, file, rows, sess>>
      /\ hook' = [g \in Hooks |->
                    CASE g = h -> new
                      [] g \in others -> [hook[g] EXCEPT !.calm = FALSE]
                      [] OTHER -> hook[g]]
      /\ disturbed' = (disturbed \/ others /= {})
  BY DEF Report
<1>2. /\ GoodState(file, provider, events) /\ events \in Nat
  BY Known DEF TypeInv
<1>3. Planned(kind, file, p, events)
  BY <1>1, <1>2, PlanIs
<1>4. (others = {}) \in BOOLEAN /\ (others = {} <=> \A g \in Hooks \ {h} : ~Running(g))
  OBVIOUS
<1> HIDE DEF p, others
<1>5. GoodState(p.st, provider, events + 1)
  BY <1>3 DEF Planned
<1>6. \E starts, writes, stats \in BOOLEAN : IsPlan(p.todo, starts, writes, stats)
  BY <1>3 DEF Planned
<1>7. p.todo \in Seq(Steps) /\ GoodPlan(p.todo) /\ Len(p.todo) > 0 /\ Has(p.todo, "save")
  BY <1>6 DEF IsPlan
<1>8. hook'[h] = new /\ DOMAIN hook' = Hooks
  <2> HIDE DEF new
  <2>1. h \notin others
    BY DEF others
  <2>2. DOMAIN hook' = Hooks
    BY <1>1
  <2>3. hook'[h] = new
    BY <1>1, <2>1
  <2> QED BY <2>2, <2>3
<1>9. new \in HookType /\ new.todo = p.todo /\ new.st = p.st /\ new.kind = kind
  BY <1>4, <1>5, <1>7 DEF HookType, GoodState
<1>10. p.todo /= <<>>
  BY <1>7
<1>11. Planned(kind, file, hook'[h], events)
  BY <1>3, <1>8, <1>9 DEF Planned
<1>12. ASSUME NEW g \in Hooks \ {h}
       PROVE  /\ hook'[g] \in HookType /\ hook'[g].todo = hook[g].todo
              /\ hook'[g].kind = hook[g].kind /\ hook'[g].st = hook[g].st
              /\ Running(g)' <=> Running(g)
              /\ Running(g) => ~hook'[g].calm
  <2>1. hook[g] \in HookType
    BY HookFields
  <2>2. CASE g \in others
    <3>1. hook'[g] = [hook[g] EXCEPT !.calm = FALSE]
      BY <1>1, <1>12, <2>2
    <3>2. /\ hook'[g] \in HookType /\ hook'[g].todo = hook[g].todo
          /\ hook'[g].kind = hook[g].kind /\ hook'[g].st = hook[g].st
          /\ ~hook'[g].calm
      BY <2>1, <3>1 DEF HookType
    <3> QED BY <3>2 DEF Running
  <2>3. CASE g \notin others
    <3>1. hook'[g] = hook[g] /\ ~Running(g)
      BY <1>1, <1>12, <2>3 DEF others
    <3> QED BY <2>1, <3>1 DEF Running
  <2> QED BY <2>2, <2>3
<1>13. Running(h)'
  BY <1>8, <1>9, <1>10 DEF Running
<1>14. hook'[h].calm <=> \A g \in Hooks \ {h} : ~Running(g)
  <2>1. hook'[h].calm = (others = {})
    BY <1>8
  <2> QED BY <1>4, <2>1
<1>15. disturbed' <=> disturbed \/ \E g \in Hooks \ {h} : Running(g)
  BY <1>1, <1>4
<1>16. hook'[h] \in HookType /\ hook'[h].kind = kind /\ Has(hook'[h].todo, "save")
  BY <1>7, <1>8, <1>9
<1> QED BY <1>1, <1>8, <1>11, <1>12, <1>13, <1>14, <1>15, <1>16

LEMMA ReportKeepsTypes ==
  ASSUME NEW h \in Hooks, NEW kind \in Kinds, NEW u \in Uses \cup {NoUse}, TypeInv, Report(h, kind, u)
  PROVE  TypeInv'
<1>1. /\ events \in Nat /\ events \in 0..MaxEvents /\ GoodState(file, provider, events)
      /\ provider \in Providers /\ disturbed \in BOOLEAN
      /\ rows \subseteq (1..MaxEvents) \X {"TOOL_CALL", "USER_TURN"}
      /\ sess \in SessType
  BY Known DEF TypeInv
<1>2. /\ DOMAIN hook' = Hooks /\ events' = events + 1 /\ events < MaxEvents
      /\ provider' = provider /\ file' = file /\ rows' = rows /\ sess' = sess
      /\ hook'[h] \in HookType /\ Planned(kind, file, hook'[h], events)
  BY Reported
<1>3. ASSUME NEW g \in Hooks \ {h} PROVE HookGood(g)'
  <2>1. /\ hook'[g] \in HookType /\ hook'[g].todo = hook[g].todo /\ hook'[g].st = hook[g].st
    BY Reported
  <2>2. /\ GoodState(hook[g].st, provider, events) /\ GoodPlan(hook[g].todo)
        /\ Has(hook[g].todo, "insert") => hook[g].st.step > 0
    BY HookFields
  <2>3. GoodState(hook[g].st, provider, events + 1)
    BY <1>1, <2>2, LaterState
  <2>4. GoodState(hook'[g].st, provider', events')
    BY <1>2, <2>1, <2>3
  <2> QED BY <2>1, <2>2, <2>4 DEF HookGood
<1>4. HookGood(h)'
  <2>1. GoodState(hook'[h].st, provider', events')
    BY <1>2 DEF Planned
  <2>2. PICK starts \in BOOLEAN, writes \in BOOLEAN, stats \in BOOLEAN :
          /\ IsPlan(hook'[h].todo, starts, writes, stats)
          /\ Follows(kind, file, hook'[h].st, starts, writes, stats)
    BY <1>2 DEF Planned
  <2>3. GoodPlan(hook'[h].todo) /\ (Has(hook'[h].todo, "insert") => writes)
    BY <2>2 DEF IsPlan
  <2>4. writes => hook'[h].st.step = file.step + 1
    BY <2>2 DEF Follows
  <2>5. file.step \in Nat
    BY <1>1, GoodParts
  <2>6. Has(hook'[h].todo, "insert") => hook'[h].st.step > 0
    BY <2>3, <2>4, <2>5
  <2> QED BY <1>2, <2>1, <2>3, <2>6 DEF HookGood
<1>5. GoodState(file', provider', events')
  BY <1>1, <1>2, LaterState
<1>6. events' \in 0..MaxEvents
  BY <1>1, <1>2, Known
<1>7. disturbed' \in BOOLEAN
  BY DEF Report
<1> QED BY <1>1, <1>2, <1>3, <1>4, <1>5, <1>6, <1>7 DEF TypeInv

(* The database steps, and the end of a hook.                              *)
LEMMA AtStepHas ==
  ASSUME NEW h \in Hooks, NEW s, TypeInv, AtStep(h, s)
  PROVE  Has(hook[h].todo, s) /\ Running(h) /\ Head(hook[h].todo) = s
<1>1. hook[h].todo \in Seq(Steps) /\ GoodPlan(hook[h].todo)
  BY HookFields
<1> QED BY <1>1, HeadIs DEF AtStep, Running

LEMMA SessSet ==
  ASSUME NEW s \in SessType, NEW n \in Nat
  PROVE  /\ [s EXCEPT !.exists = TRUE] \in SessType
         /\ [s EXCEPT !.calls = n] \in SessType
         /\ [s EXCEPT !.turns = n] \in SessType
BY DEF SessType

(* The upsert counts one call, or one turn, and leaves the row there.      *)
LEMMA CountIs ==
  ASSUME NEW h \in Hooks, Count(h), sess \in SessType
  PROVE  /\ sess' \in SessType /\ sess'.exists
         /\ hook[h].kind = "PostTool" =>
              sess'.calls = sess.calls + 1 /\ sess'.turns = sess.turns
         /\ hook[h].kind /= "PostTool" =>
              sess'.calls = sess.calls /\ sess'.turns = sess.turns + 1
<1> DEFINE there == [sess EXCEPT !.exists = TRUE]
<1>1. there \in SessType /\ there.exists /\ there.calls = sess.calls /\ there.turns = sess.turns
  BY SessSet DEF SessType
<1>2. sess.calls + 1 \in Nat /\ sess.turns + 1 \in Nat
  BY DEF SessType
<1>3. hook[h].kind = "PostTool" => sess' = [there EXCEPT !.calls = @ + 1]
  BY DEF Count, EventType
<1>4. hook[h].kind /= "PostTool" => sess' = [there EXCEPT !.turns = @ + 1]
  BY DEF Count, EventType
<1> HIDE DEF there
<1>5. CASE hook[h].kind = "PostTool"
  <2>1. sess' = [there EXCEPT !.calls = sess.calls + 1]
    BY <1>1, <1>3, <1>5
  <2>2. sess' \in SessType
    BY <1>1, <1>2, <2>1, SessSet
  <2> QED BY <1>1, <1>5, <2>1, <2>2 DEF SessType
<1>6. CASE hook[h].kind /= "PostTool"
  <2>1. sess' = [there EXCEPT !.turns = sess.turns + 1]
    BY <1>1, <1>4, <1>6
  <2>2. sess' \in SessType
    BY <1>1, <1>2, <2>1, SessSet
  <2> QED BY <1>1, <1>6, <2>1, <2>2 DEF SessType
<1> QED BY <1>5, <1>6

(* A row that is there takes the totals of the state.                      *)
LEMMA StatsIs ==
  ASSUME NEW h \in Hooks, Stats(h), sess \in SessType,
         hook[h].st.tools \in Nat, hook[h].st.turns \in Nat
  PROVE  /\ sess' \in SessType /\ sess'.exists = sess.exists
         /\ ~sess.exists => sess' = sess
         /\ sess.exists =>
              /\ sess'.calls = hook[h].st.tools
              /\ provider = "claude" => sess'.turns = hook[h].st.turns
<1> DEFINE turns == IF provider = "cursor" /\ hook[h].kind = "PostTool" /\ hook[h].st.turns = 0
                    THEN 1 ELSE hook[h].st.turns
           called == [sess EXCEPT !.calls = hook[h].st.tools]
<1>1. turns \in Nat /\ (provider = "claude" => turns = hook[h].st.turns)
  OBVIOUS
<1>2. /\ called \in SessType /\ called.calls = hook[h].st.tools
      /\ called.exists = sess.exists
  BY SessSet DEF SessType
<1>3. sess' = IF sess.exists THEN [called EXCEPT !.turns = turns] ELSE sess
  BY DEF Stats
<1> HIDE DEF turns, called
<1>4. CASE sess.exists
  <2>1. sess' = [called EXCEPT !.turns = turns]
    BY <1>3, <1>4
  <2>2. sess' \in SessType
    BY <1>1, <1>2, <2>1, SessSet
  <2>3. sess'.turns = turns /\ sess'.calls = called.calls /\ sess'.exists = called.exists
    BY <1>2, <2>1 DEF SessType
  <2> QED BY <1>1, <1>2, <1>4, <2>2, <2>3
<1>5. CASE ~sess.exists
  BY <1>3, <1>5
<1> QED BY <1>4, <1>5

LEMMA SaveKeepsTypes ==
  ASSUME NEW h \in Hooks, TypeInv, Save(h)
  PROVE  TypeInv'
<1>1. /\ Advance(h, 1) /\ Running(h) /\ file' = hook[h].st
      /\ provider' = provider /\ rows' = rows /\ sess' = sess /\ events' = events
      /\ disturbed' = disturbed
  BY DEF Save, AtStep
<1>2. GoodState(file', provider', events')
  BY <1>1, HookFields
<1>3. DOMAIN hook' = Hooks /\ \A g \in Hooks : HookGood(g)'
  BY <1>1, AdvanceKeepsHooks
<1> QED BY <1>1, <1>2, <1>3 DEF TypeInv

LEMMA DatabaseKeepsTypes ==
  ASSUME NEW h \in Hooks, TypeInv,
         RecordStart(h) \/ Insert(h) \/ Count(h) \/ Stats(h) \/ Busy(h)
  PROVE  TypeInv'
<1>1. /\ Running(h) /\ \E k \in {1, 2} : Advance(h, k)
      /\ provider' = provider /\ file' = file /\ events' = events
  BY DEF RecordStart, Insert, Count, Stats, Busy, AtStep
<1>2. DOMAIN hook' = Hooks /\ \A g \in Hooks : HookGood(g)'
  BY <1>1, AdvanceKeepsHooks
<1>3. /\ GoodState(file, provider, events) /\ events \in 0..MaxEvents /\ provider \in Providers
      /\ disturbed \in BOOLEAN /\ sess \in SessType
      /\ rows \subseteq (1..MaxEvents) \X {"TOOL_CALL", "USER_TURN"}
  BY DEF TypeInv
<1>4. GoodState(file', provider', events')
  BY <1>1, <1>3
<1>5. sess' \in SessType
  <2>1. CASE RecordStart(h)
    BY <2>1 DEF RecordStart, SessType
  <2>2. CASE Insert(h) \/ Busy(h)
    BY <1>3, <2>2 DEF Insert, Busy
  <2>3. CASE Count(h)
    BY <1>3, <2>3, CountIs
  <2>4. CASE Stats(h)
    <3>1. hook[h].st.tools \in Nat /\ hook[h].st.turns \in Nat
      BY HookFields, StateFields
    <3> QED BY <1>3, <2>4, <3>1, StatsIs
  <2> QED BY <2>1, <2>2, <2>3, <2>4
<1>6. rows' \subseteq (1..MaxEvents) \X {"TOOL_CALL", "USER_TURN"}
  <2>1. CASE Insert(h)
    <3>1. rows' = rows \cup {<<hook[h].st.step, EventType(h)>>}
      BY <2>1 DEF Insert
    <3>2. Has(hook[h].todo, "insert")
      BY <2>1, AtStepHas DEF Insert
    <3>3. hook[h].st.step > 0 /\ GoodState(hook[h].st, provider, events) /\ events \in Nat
      BY <3>2, HookFields
    <3>4. hook[h].st.step \in 1..MaxEvents
      BY <1>3, <3>3, GoodParts, Known
    <3>5. EventType(h) \in {"TOOL_CALL", "USER_TURN"}
      BY DEF EventType
    <3> QED BY <1>3, <3>1, <3>4, <3>5
  <2>2. CASE ~Insert(h)
    BY <1>3, <2>2 DEF RecordStart, Count, Stats, Busy
  <2> QED BY <2>1, <2>2
<1>7. disturbed' \in BOOLEAN
  BY <1>3 DEF RecordStart, Insert, Count, Stats, Busy
<1> QED BY <1>1, <1>2, <1>3, <1>4, <1>5, <1>6, <1>7 DEF TypeInv

LEMMA KillKeepsTypes ==
  ASSUME NEW h \in Hooks, TypeInv, Kill(h)
  PROVE  TypeInv'
<1>1. /\ hook' = [hook EXCEPT ![h] = Ended] /\ disturbed' = TRUE
      /\ provider' = provider /\ file' = file /\ rows' = rows /\ sess' = sess
      /\ events' = events
  BY DEF Kill
<1>2. DOMAIN hook = Hooks /\ events \in Nat
  BY HookFields
<1>3. ASSUME NEW g \in Hooks \ {h} PROVE HookGood(g)'
  <2>1. HookGood(g) /\ hook'[g] = hook[g]
    BY <1>1, <1>2 DEF TypeInv
  <2> QED BY <1>1, <2>1 DEF HookGood
<1>4. HookGood(h)'
  <2>1. hook'[h] = Ended
    BY <1>1, <1>2
  <2>2. /\ Ended \in HookType /\ GoodState(Ended.st, provider, events)
        /\ GoodPlan(Ended.todo) /\ ~Has(Ended.todo, "insert")
    BY <1>2, EndedIsGood
  <2>3. GoodState(hook'[h].st, provider', events')
    BY <1>1, <2>1, <2>2
  <2> QED BY <2>1, <2>2, <2>3 DEF HookGood
<1>5. GoodState(file', provider', events')
  BY <1>1 DEF TypeInv
<1> QED BY <1>1, <1>2, <1>3, <1>4, <1>5 DEF TypeInv

LEMMA RowsFinite ==
  ASSUME TypeInv
  PROVE  IsFiniteSet(rows) /\ \A r \in rows : r[1] \in Nat
<1>1. rows \subseteq (1..MaxEvents) \X {"TOOL_CALL", "USER_TURN"}
  BY DEF TypeInv
<1>2. IsFiniteSet(1..MaxEvents)
  BY Known, FS_Interval
<1>3. IsFiniteSet({"TOOL_CALL", "USER_TURN"})
  <2>1. IsFiniteSet({"TOOL_CALL"})
    BY FS_Singleton
  <2>2. {"TOOL_CALL", "USER_TURN"} = {"TOOL_CALL"} \cup {"USER_TURN"}
    OBVIOUS
  <2> QED BY <2>1, <2>2, FS_AddElement
<1>4. IsFiniteSet((1..MaxEvents) \X {"TOOL_CALL", "USER_TURN"})
  BY <1>2, <1>3, FS_Product
<1>5. \A r \in rows : r[1] \in Nat
  BY <1>1
<1> QED BY <1>1, <1>4, <1>5, FS_Subset

LEMMA BackfillKeepsTypes ==
  ASSUME TypeInv, Backfill
  PROVE  TypeInv'
<1>1. /\ provider' = provider /\ file' = file /\ rows' = rows /\ hook' = hook
      /\ events' = events /\ disturbed' = TRUE
      /\ sess' = [exists |-> TRUE, calls |-> Cardinality(Rows("TOOL_CALL")),
                  turns |-> Cardinality(Rows("USER_TURN"))]
  BY DEF Backfill
<1>2. \A type : Cardinality(Rows(type)) \in Nat
  <2>1. IsFiniteSet(rows)
    BY RowsFinite
  <2>2. \A type : Rows(type) \subseteq rows
    BY DEF Rows
  <2> QED BY <2>1, <2>2, FS_Subset, FS_CardinalityType
<1>3. sess' \in SessType
  BY <1>1, <1>2 DEF SessType
<1>4. \A h \in Hooks : HookGood(h)'
  BY <1>1 DEF TypeInv, HookGood
<1> QED BY <1>1, <1>3, <1>4 DEF TypeInv

LEMMA TypesKept ==
  ASSUME TypeInv, [Next]_vars
  PROVE  TypeInv'
<1>1. CASE UNCHANGED vars
  <2>1. /\ provider' = provider /\ file' = file /\ rows' = rows /\ sess' = sess
        /\ hook' = hook /\ events' = events /\ disturbed' = disturbed
    BY <1>1 DEF vars
  <2>2. \A h \in Hooks : HookGood(h)'
    BY <2>1 DEF TypeInv, HookGood
  <2> QED BY <2>1, <2>2 DEF TypeInv
<1>2. CASE Backfill
  BY <1>2, BackfillKeepsTypes
<1>3. CASE HookSteps
  <2>1. PICK h \in Hooks :
          \/ \E kind \in Kinds, u \in Uses \cup {NoUse} : Report(h, kind, u)
          \/ Save(h) \/ RecordStart(h) \/ Insert(h) \/ Count(h) \/ Stats(h)
          \/ Busy(h) \/ Kill(h)
    BY <1>3 DEF HookSteps
  <2> QED BY <2>1, ReportKeepsTypes, SaveKeepsTypes, DatabaseKeepsTypes, KillKeepsTypes
<1> QED BY <1>1, <1>2, <1>3 DEF Next

------------------------------------------------------------------------------
(* A calm hook runs alone, with what it saved in the file.                 *)

LEMMA AdvanceKeepsAlone ==
  ASSUME NEW h \in Hooks, NEW k \in {1, 2}, TypeInv, AloneInv, Running(h), Advance(h, k),
         \/ file' = file /\ Head(hook[h].todo) /= "save"
         \/ file' = hook[h].st,
         k = 2 => Head(hook[h].todo) = "insert",
         disturbed => disturbed'
  PROVE  AloneInv'
<1>1. /\ hook[h].todo \in Seq(Steps) /\ GoodPlan(hook[h].todo) /\ hook[h].calm \in BOOLEAN
  BY HookFields
<1>2. k = 2 => ~Has(hook[h].todo, "save")
  BY <1>1, HeadIs DEF Running
<1>3. \A g \in Hooks \ {h} : hook'[g] = hook[g] /\ (Running(g)' <=> Running(g))
  BY Advanced DEF Running
<1>4. ASSUME NEW g \in Hooks \ {h} PROVE Alone(g)'
  <2>1. ~(Running(g) /\ hook[g].calm)
    BY <1>4 DEF AloneInv, Alone
  <2> QED BY <1>3, <2>1 DEF Alone
<1>5. ASSUME Running(h)', hook'[h].calm
      PROVE  /\ \A g \in Hooks \ {h} : ~Running(g)'
             /\ Has(hook'[h].todo, "save") \/ file' = hook'[h].st
  <2>1. /\ hook'[h].st = hook[h].st /\ hook'[h].calm = hook[h].calm
        /\ k = 1 => ((Has(hook[h].todo, "save") /\ "save" /= Head(hook[h].todo))
                       => Has(hook'[h].todo, "save"))
    BY <1>5, Advanced
  <2>2. /\ \A g \in Hooks \ {h} : ~Running(g)
        /\ Has(hook[h].todo, "save") \/ file = hook[h].st
    BY <1>5, <2>1 DEF AloneInv, Alone
  <2> QED BY <1>2, <1>3, <2>1, <2>2
<1>6. Alone(h)'
  BY <1>5 DEF Alone
<1>7. ASSUME NEW g \in Hooks, ~disturbed', Running(g)' PROVE hook'[g].calm
  <2>1. CASE g = h
    <3>1. hook'[h].calm = hook[h].calm
      BY <1>7, <2>1, Advanced
    <3> QED BY <1>7, <2>1, <3>1 DEF AloneInv, CalmWhile
  <2>2. CASE g /= h
    BY <1>3, <1>7, <2>2 DEF AloneInv, CalmWhile
  <2> QED BY <2>1, <2>2
<1>8. CalmWhile'
  BY <1>7 DEF CalmWhile
<1> QED BY <1>4, <1>6, <1>8 DEF AloneInv

LEMMA ReportKeepsAlone ==
  ASSUME NEW h \in Hooks, NEW kind \in Kinds, NEW u \in Uses \cup {NoUse}, TypeInv, AloneInv, Report(h, kind, u)
  PROVE  AloneInv'
<1>1. /\ Running(h)' /\ Has(hook'[h].todo, "save")
      /\ hook'[h].calm <=> \A g \in Hooks \ {h} : ~Running(g)
      /\ \A g \in Hooks \ {h} : (Running(g)' <=> Running(g)) /\ (Running(g) => ~hook'[g].calm)
      /\ disturbed' <=> disturbed \/ \E g \in Hooks \ {h} : Running(g)
  BY Reported
<1>2. Alone(h)'
  BY <1>1 DEF Alone
<1>3. ASSUME NEW g \in Hooks \ {h} PROVE Alone(g)'
  BY <1>1 DEF Alone
<1>4. ASSUME NEW g \in Hooks, ~disturbed', Running(g)' PROVE hook'[g].calm
  BY <1>1, <1>4
<1>5. CalmWhile'
  BY <1>4 DEF CalmWhile
<1> QED BY <1>2, <1>3, <1>5 DEF AloneInv

LEMMA KillKeepsAlone ==
  ASSUME NEW h \in Hooks, TypeInv, AloneInv, Kill(h)
  PROVE  AloneInv'
<1>1. /\ Running(h) /\ hook' = [hook EXCEPT ![h] = Ended] /\ disturbed' = TRUE
      /\ DOMAIN hook = Hooks
  BY HookFields DEF Kill
<1>2. Alone(h)'
  BY <1>1 DEF Alone, Running, Ended
<1>3. ASSUME NEW g \in Hooks \ {h} PROVE Alone(g)'
  <2>1. hook'[g] = hook[g] /\ (Running(g)' <=> Running(g))
    BY <1>1 DEF Running
  <2>2. ~(Running(g) /\ hook[g].calm)
    BY <1>1, <1>3 DEF AloneInv, Alone
  <2> QED BY <2>1, <2>2 DEF Alone
<1>4. CalmWhile'
  BY <1>1 DEF CalmWhile
<1> QED BY <1>2, <1>3, <1>4 DEF AloneInv

LEMMA AloneKept ==
  ASSUME TypeInv, AloneInv, [Next]_vars
  PROVE  AloneInv'
<1>1. CASE UNCHANGED vars
  BY <1>1 DEF vars, AloneInv, Alone, CalmWhile, Running
<1>2. ASSUME NEW h \in Hooks, Save(h) PROVE AloneInv'
  <2>1. Running(h) /\ Advance(h, 1) /\ file' = hook[h].st /\ disturbed' = disturbed
    BY <1>2 DEF Save, AtStep
  <2> QED BY <2>1, AdvanceKeepsAlone
<1>3. ASSUME NEW h \in Hooks, RecordStart(h) \/ Count(h) \/ Stats(h) PROVE AloneInv'
  <2>1. /\ Running(h) /\ Advance(h, 1) /\ file' = file /\ disturbed' = disturbed
        /\ Head(hook[h].todo) /= "save"
    BY <1>3 DEF RecordStart, Count, Stats, AtStep
  <2> QED BY <2>1, AdvanceKeepsAlone
<1>4. ASSUME NEW h \in Hooks, Insert(h) \/ Busy(h) PROVE AloneInv'
  <2>1. /\ Running(h) /\ file' = file /\ (disturbed => disturbed')
        /\ Head(hook[h].todo) /= "save"
        /\ Advance(h, 1) \/ (Advance(h, 2) /\ Head(hook[h].todo) = "insert")
    BY <1>4 DEF Insert, Busy, AtStep
  <2>2. CASE Advance(h, 1)
    BY <2>1, <2>2, AdvanceKeepsAlone
  <2>3. CASE Advance(h, 2) /\ Head(hook[h].todo) = "insert"
    BY <2>1, <2>3, AdvanceKeepsAlone
  <2> QED BY <2>1, <2>2, <2>3
<1>5. CASE Backfill
  BY <1>5 DEF Backfill, AloneInv, Alone, CalmWhile, Running
<1>6. CASE HookSteps
  <2>1. PICK h \in Hooks :
          \/ \E kind \in Kinds, u \in Uses \cup {NoUse} : Report(h, kind, u)
          \/ Save(h) \/ RecordStart(h) \/ Insert(h) \/ Count(h) \/ Stats(h)
          \/ Busy(h) \/ Kill(h)
    BY <1>6 DEF HookSteps
  <2> QED BY <1>2, <1>3, <1>4, <2>1, ReportKeepsAlone, KillKeepsAlone
<1> QED BY <1>1, <1>5, <1>6 DEF Next

------------------------------------------------------------------------------
(* What one undisturbed step of a hook pays of what is owed.               *)

LEMMA StartPays ==
  ASSUME NEW agent, NEW rs, NEW se, NEW st, NEW kind, NEW new,
         NEW s, NEW i, NEW c, NEW t,
         NEW s2,
         Owes(agent, rs, se, st, kind, s, i, c, t), s, ~s2,
         new.exists, new.calls = 0, new.turns = 0
  PROVE  Owes(agent, rs, new, st, kind, s2, i, c, t)
<1>1. RowsAre(rs, st, kind, i) /\ WipesNothing(agent, se, kind)
      /\ CallsAre(se, st, kind, c, t) /\ ClaudeIs(agent, se, st, kind, c)
  BY DEF Owes
<1>2. CallsAre(new, st, kind, c, t)
  BY <1>1 DEF CallsAre
<1>3. ClaudeIs(agent, new, st, kind, c)
  BY <1>1 DEF ClaudeIs, WipesNothing
<1> QED BY <1>1, <1>2, <1>3 DEF Owes

(* The row of a new step is a new row.                                     *)
LEMMA InsertPays ==
  ASSUME NEW agent, NEW rs, NEW se, NEW st, NEW kind, NEW type,
         NEW s, NEW i, NEW c, NEW t,
         NEW i2,
         IsFiniteSet(rs), st \in StateType, \A r \in rs : r[1] \in Nat,
         type = IF kind = "PostTool" THEN "TOOL_CALL" ELSE "USER_TURN",
         Owes(agent, rs, se, st, kind, s, i, c, t), i, ~i2
  PROVE  /\ <<st.step, type>> \notin rs
         /\ Owes(agent, rs \cup {<<st.step, type>>}, se, st, kind, s, i2, c, t)
<1> DEFINE row == <<st.step, type>>
           more == rs \cup {row}
<1>1. /\ RowsAre(rs, st, kind, i) /\ CallsAre(se, st, kind, c, t)
      /\ ClaudeIs(agent, se, st, kind, c) /\ (s => WipesNothing(agent, se, kind))
  BY DEF Owes
<1>2. /\ \A r \in rs : r[1] < st.step
      /\ kind = "PostTool" => Cardinality(ToolRows(rs)) + 1 = st.tools
      /\ kind /= "PostTool" => Cardinality(ToolRows(rs)) = st.tools
  BY <1>1 DEF RowsAre
<1>3. st.step \in Nat /\ row[1] = st.step /\ row[2] = type
  BY StateFields
<1>4. row \notin rs
  <2>1. ~(st.step < st.step)
    BY <1>3
  <2> HIDE DEF row
  <2> QED BY <1>2, <1>3, <2>1
<1>5. \A r \in more : r[1] <= st.step
  <2> HIDE DEF row
  <2> QED BY <1>2, <1>3
<1>6. CASE kind = "PostTool"
  <2>1. ToolRows(more) = ToolRows(rs) \cup {row} /\ row \notin ToolRows(rs)
    BY <1>3, <1>4, <1>6 DEF ToolRows
  <2>2. IsFiniteSet(ToolRows(rs))
    BY FS_Subset DEF ToolRows
  <2>3. Cardinality(ToolRows(more)) = Cardinality(ToolRows(rs)) + 1
    BY <2>1, <2>2, FS_AddElement
  <2> QED BY <1>1, <1>2, <1>4, <1>5, <1>6, <2>3 DEF Owes, RowsAre
<1>7. CASE kind /= "PostTool"
  <2>1. ToolRows(more) = ToolRows(rs)
    BY <1>3, <1>7 DEF ToolRows
  <2> QED BY <1>1, <1>2, <1>4, <1>5, <1>7, <2>1 DEF Owes, RowsAre
<1> QED BY <1>6, <1>7

LEMMA CountPays ==
  ASSUME NEW agent, NEW rs, NEW se, NEW st, NEW kind, NEW new,
         NEW i \in BOOLEAN, NEW c \in BOOLEAN, NEW t \in BOOLEAN,
         Owes(agent, rs, se, st, kind, FALSE, i, c, t), c, new.exists,
         kind = "PostTool" => new.calls = se.calls + 1 /\ new.turns = se.turns,
         kind /= "PostTool" => new.calls = se.calls /\ new.turns = se.turns + 1
  PROVE  Owes(agent, rs, new, st, kind, FALSE, i, FALSE, t)
<1>1. /\ RowsAre(rs, st, kind, i) /\ CallsAre(se, st, kind, c, t)
      /\ ClaudeIs(agent, se, st, kind, c)
  BY DEF Owes
<1>2. CallsAre(new, st, kind, FALSE, t)
  BY <1>1 DEF CallsAre
<1>3. ClaudeIs(agent, new, st, kind, FALSE)
  BY <1>1 DEF ClaudeIs
<1> QED BY <1>1, <1>2, <1>3 DEF Owes

LEMMA StatsPays ==
  ASSUME NEW agent, NEW rs, NEW se, NEW st, NEW kind, NEW new, NEW t \in BOOLEAN,
         Owes(agent, rs, se, st, kind, FALSE, FALSE, FALSE, t), t,
         ~se.exists => new = se,
         se.exists => new.calls = st.tools /\ (agent = "claude" => new.turns = st.turns)
  PROVE  Owes(agent, rs, new, st, kind, FALSE, FALSE, FALSE, FALSE)
<1>1. /\ RowsAre(rs, st, kind, FALSE) /\ CallsAre(se, st, kind, FALSE, t)
      /\ ClaudeIs(agent, se, st, kind, FALSE)
  BY DEF Owes
<1>2. CASE se.exists
  <2>1. CallsAre(new, st, kind, FALSE, FALSE)
    BY <1>2 DEF CallsAre
  <2>2. ClaudeIs(agent, new, st, kind, FALSE)
    BY <1>1, <1>2 DEF ClaudeIs
  <2> QED BY <1>1, <2>1, <2>2 DEF Owes
<1>3. CASE ~se.exists
  <2>1. CallsAre(se, st, kind, FALSE, FALSE)
    BY <1>1, <1>3 DEF CallsAre
  <2> QED BY <1>1, <1>3, <2>1 DEF Owes
<1> QED BY <1>2, <1>3

LEMMA NothingOwed ==
  ASSUME NEW agent, NEW rs, NEW se, NEW st, NEW kind, NEW other,
         Owes(agent, rs, se, st, kind, FALSE, FALSE, FALSE, FALSE)
  PROVE  Owes(agent, rs, se, st, other, FALSE, FALSE, FALSE, FALSE)
<1>1. RowsAre(rs, st, kind, FALSE) /\ CallsAre(se, st, kind, FALSE, FALSE)
      /\ ClaudeIs(agent, se, st, kind, FALSE)
  BY DEF Owes
<1>2. RowsAre(rs, st, other, FALSE)
  BY <1>1 DEF RowsAre
<1>3. CallsAre(se, st, other, FALSE, FALSE)
  BY <1>1 DEF CallsAre
<1>4. ClaudeIs(agent, se, st, other, FALSE)
  BY <1>1 DEF ClaudeIs
<1> QED BY <1>2, <1>3, <1>4 DEF Owes

------------------------------------------------------------------------------
(* Undisturbed, the database shows what the hooks have done.               *)

(* A step is still to come after this one.                                 *)
Later(h, s) == Has(hook[h].todo, s) /\ s /= Head(hook[h].todo)

LEMMA SameFlags ==
  ASSUME NEW agent, NEW rs, NEW se, NEW st, NEW kind,
         NEW s \in BOOLEAN, NEW i \in BOOLEAN, NEW c \in BOOLEAN, NEW t \in BOOLEAN,
         NEW s2 \in BOOLEAN, NEW i2 \in BOOLEAN, NEW c2 \in BOOLEAN, NEW t2 \in BOOLEAN,
         s <=> s2, i <=> i2, c <=> c2, t <=> t2,
         Owes(agent, rs, se, st, kind, s, i, c, t)
  PROVE  Owes(agent, rs, se, st, kind, s2, i2, c2, t2)
BY DEF Owes, RowsAre, CallsAre, ClaudeIs

(* While nothing was disturbed, the hook that runs is the only one.        *)
LEMMA OnlyOne ==
  ASSUME NEW h \in Hooks, TypeInv, AloneInv, ExactInv, Running(h), ~disturbed
  PROVE  /\ \A g \in Hooks \ {h} : ~Running(g)
         /\ Has(hook[h].todo, "save") \/ file = hook[h].st
         /\ Exact(h)
BY DEF AloneInv, CalmWhile, Alone, ExactInv

LEMMA PaidIsExact ==
  ASSUME NEW h \in Hooks, TypeInv, AloneInv, ExactInv, ~disturbed, Running(h), Advance(h, 1),
         provider' = provider,
         \/ file' = hook[h].st
         \/ file' = file /\ Head(hook[h].todo) /= "save",
         Owes(provider, rows', sess', hook[h].st, hook[h].kind,
              Later(h, "start"), Later(h, "insert"), Later(h, "count"), Later(h, "stats"))
  PROVE  ExactInv'
<1>1. /\ \A g \in Hooks \ {h} : ~Running(g)
      /\ Has(hook[h].todo, "save") \/ file = hook[h].st
  BY OnlyOne
<1>2. \A g \in Hooks \ {h} : ~Running(g)'
  BY <1>1, Advanced DEF Running
<1>3. CASE Running(h)'
  <2>1. /\ hook'[h].st = hook[h].st /\ hook'[h].kind = hook[h].kind
        /\ \A s : Has(hook'[h].todo, s) <=> Later(h, s)
    BY <1>3, Advanced DEF Later
  <2>2. \A s : Has(hook'[h].todo, s) \in BOOLEAN /\ Later(h, s) \in BOOLEAN
    BY DEF Has, Later
  <2>3. Owes(provider, rows', sess', hook[h].st, hook[h].kind,
             Has(hook'[h].todo, "start"), Has(hook'[h].todo, "insert"),
             Has(hook'[h].todo, "count"), Has(hook'[h].todo, "stats"))
    BY <2>1, <2>2, SameFlags
  <2>4. Exact(h)'
    BY <2>1, <2>3 DEF Exact
  <2> QED BY <1>2, <1>3, <2>4 DEF ExactInv, Quiet
<1>4. CASE ~Running(h)'
  <2>1. \A s : Has(hook[h].todo, s) => s = Head(hook[h].todo)
    BY <1>4, Advanced
  <2>2. file' = hook[h].st
    BY <1>1, <2>1
  <2>3. ~Later(h, "start") /\ ~Later(h, "insert") /\ ~Later(h, "count") /\ ~Later(h, "stats")
    BY <2>1 DEF Later
  <2>4. \A s : Later(h, s) \in BOOLEAN
    BY DEF Later
  <2>5. Owes(provider, rows', sess', hook[h].st, hook[h].kind, FALSE, FALSE, FALSE, FALSE)
    <3> DEFINE S == Later(h, "start")
               I == Later(h, "insert")
               C == Later(h, "count")
               T == Later(h, "stats")
    <3>1. /\ Owes(provider, rows', sess', hook[h].st, hook[h].kind, S, I, C, T)
          /\ S \in BOOLEAN /\ I \in BOOLEAN /\ C \in BOOLEAN /\ T \in BOOLEAN
          /\ ~S /\ ~I /\ ~C /\ ~T
      BY <2>3, <2>4
    <3> HIDE DEF S, I, C, T
    <3> QED BY <3>1, SameFlags
  <2>6. Owes(provider, rows', sess', hook[h].st, "Stop", FALSE, FALSE, FALSE, FALSE)
    BY <2>5, NothingOwed
  <2>7. ExactAtRest'
    BY <2>2, <2>6 DEF ExactAtRest
  <2> QED BY <1>2, <1>4, <2>7 DEF ExactInv
<1> QED BY <1>3, <1>4

(* Which steps can still come after a step.                                *)
LEMMA LaterIs ==
  ASSUME NEW h \in Hooks, TypeInv, Running(h)
  PROVE  /\ \A s : s /= Head(hook[h].todo) => (Later(h, s) <=> Has(hook[h].todo, s))
         /\ ~Later(h, Head(hook[h].todo))
         /\ \A s : Later(h, s) \in BOOLEAN /\ Has(hook[h].todo, s) \in BOOLEAN
         /\ Has(hook[h].todo, Head(hook[h].todo))
         /\ Head(hook[h].todo) \notin {"save", "start"} => ~Has(hook[h].todo, "start")
         /\ Head(hook[h].todo) = "stats" =>
              /\ ~Has(hook[h].todo, "start") /\ ~Has(hook[h].todo, "insert")
              /\ ~Has(hook[h].todo, "count")
<1>1. hook[h].todo \in Seq(Steps) /\ GoodPlan(hook[h].todo) /\ hook[h].todo /= <<>>
  BY HookFields DEF Running
<1>2. /\ Len(hook[h].todo) \in Nat /\ Len(hook[h].todo) > 0
      /\ Head(hook[h].todo) = hook[h].todo[1] /\ Has(hook[h].todo, Head(hook[h].todo))
      /\ Head(hook[h].todo) \notin {"save", "start"} => ~Has(hook[h].todo, "start")
      /\ Head(hook[h].todo) = "stats" => Len(hook[h].todo) = 1
  BY <1>1, HeadIs
<1>3. \A s : (Has(hook[h].todo, s) /\ Len(hook[h].todo) = 1) => s = Head(hook[h].todo)
  BY <1>2 DEF Has
<1>4. Head(hook[h].todo) = "stats" =>
        /\ ~Has(hook[h].todo, "start") /\ ~Has(hook[h].todo, "insert")
        /\ ~Has(hook[h].todo, "count")
  BY <1>2, <1>3
<1>5. \A s : Later(h, s) \in BOOLEAN /\ Has(hook[h].todo, s) \in BOOLEAN
  BY DEF Later, Has
<1>6. /\ \A s : s /= Head(hook[h].todo) => (Later(h, s) <=> Has(hook[h].todo, s))
      /\ ~Later(h, Head(hook[h].todo))
  BY DEF Later
<1> QED BY <1>2, <1>4, <1>5, <1>6

LEMMA SaveKeepsExact ==
  ASSUME NEW h \in Hooks, TypeInv, AloneInv, ExactInv, Save(h), ~disturbed'
  PROVE  ExactInv'
<1>1. /\ Running(h) /\ Advance(h, 1) /\ file' = hook[h].st /\ ~disturbed
      /\ provider' = provider /\ rows' = rows /\ sess' = sess
      /\ Head(hook[h].todo) = "save"
  BY DEF Save, AtStep
<1>2. Exact(h)
  BY <1>1, OnlyOne
<1>3. /\ Later(h, "start") <=> Has(hook[h].todo, "start")
      /\ Later(h, "insert") <=> Has(hook[h].todo, "insert")
      /\ Later(h, "count") <=> Has(hook[h].todo, "count")
      /\ Later(h, "stats") <=> Has(hook[h].todo, "stats")
      /\ \A s : Later(h, s) \in BOOLEAN /\ Has(hook[h].todo, s) \in BOOLEAN
  BY <1>1, LaterIs
<1>4. Owes(provider, rows, sess, hook[h].st, hook[h].kind,
           Later(h, "start"), Later(h, "insert"), Later(h, "count"), Later(h, "stats"))
  BY <1>2, <1>3, SameFlags DEF Exact
<1> QED BY <1>1, <1>4, PaidIsExact

LEMMA StartKeepsExact ==
  ASSUME NEW h \in Hooks, TypeInv, AloneInv, ExactInv, RecordStart(h), ~disturbed'
  PROVE  ExactInv'
<1>1. /\ Running(h) /\ Advance(h, 1) /\ file' = file /\ ~disturbed
      /\ provider' = provider /\ rows' = rows
      /\ sess'.exists /\ sess'.calls = 0 /\ sess'.turns = 0
      /\ Head(hook[h].todo) = "start"
  BY DEF RecordStart, AtStep
<1>2. Exact(h)
  BY <1>1, OnlyOne
<1>3. /\ ~Later(h, "start") /\ Has(hook[h].todo, "start")
      /\ Later(h, "insert") <=> Has(hook[h].todo, "insert")
      /\ Later(h, "count") <=> Has(hook[h].todo, "count")
      /\ Later(h, "stats") <=> Has(hook[h].todo, "stats")
      /\ \A s : Later(h, s) \in BOOLEAN /\ Has(hook[h].todo, s) \in BOOLEAN
  BY <1>1, LaterIs
<1>4. Owes(provider, rows, sess', hook[h].st, hook[h].kind, FALSE,
           Has(hook[h].todo, "insert"), Has(hook[h].todo, "count"), Has(hook[h].todo, "stats"))
  <2> DEFINE S == Has(hook[h].todo, "start")
             I == Has(hook[h].todo, "insert")
             C == Has(hook[h].todo, "count")
             T == Has(hook[h].todo, "stats")
             N == FALSE
  <2>1. /\ Owes(provider, rows, sess, hook[h].st, hook[h].kind, S, I, C, T) /\ S /\ N \in BOOLEAN /\ ~N
        /\ S \in BOOLEAN /\ I \in BOOLEAN /\ C \in BOOLEAN /\ T \in BOOLEAN
    BY <1>2, <1>3 DEF Exact
  <2> HIDE DEF S, I, C, T, N
  <2>2. Owes(provider, rows, sess', hook[h].st, hook[h].kind, N, I, C, T)
    <3>1. sess'.exists /\ sess'.calls = 0 /\ sess'.turns = 0
      BY <1>1
    <3> QED BY <2>1, <3>1, StartPays
  <2> QED BY <2>2 DEF I, C, T, N
<1>5. Owes(provider, rows, sess', hook[h].st, hook[h].kind,
           Later(h, "start"), Later(h, "insert"), Later(h, "count"), Later(h, "stats"))
  BY <1>3, <1>4, SameFlags
<1> QED BY <1>1, <1>5, PaidIsExact

LEMMA InsertKeepsExact ==
  ASSUME NEW h \in Hooks, TypeInv, AloneInv, ExactInv, Insert(h), ~disturbed'
  PROVE  ExactInv'
<1> DEFINE row == <<hook[h].st.step, EventType(h)>>
<1>1. /\ Running(h) /\ file' = file /\ ~disturbed
      /\ provider' = provider /\ rows' = rows \cup {row} /\ sess' = sess
      /\ Head(hook[h].todo) = "insert" /\ (row \notin rows => Advance(h, 1))
  BY DEF Insert, AtStep
<1>2. Exact(h)
  BY <1>1, OnlyOne
<1>3. /\ ~Later(h, "insert") /\ Has(hook[h].todo, "insert")
      /\ Later(h, "start") <=> Has(hook[h].todo, "start")
      /\ Later(h, "count") <=> Has(hook[h].todo, "count")
      /\ Later(h, "stats") <=> Has(hook[h].todo, "stats")
      /\ \A s : Later(h, s) \in BOOLEAN /\ Has(hook[h].todo, s) \in BOOLEAN
  BY <1>1, LaterIs
<1>4. /\ row \notin rows
      /\ Owes(provider, rows \cup {row}, sess, hook[h].st, hook[h].kind,
              Has(hook[h].todo, "start"), FALSE, Has(hook[h].todo, "count"),
              Has(hook[h].todo, "stats"))
  <2>1. EventType(h) = IF hook[h].kind = "PostTool" THEN "TOOL_CALL" ELSE "USER_TURN"
    BY DEF EventType
  <2>2. hook[h].st \in StateType
    BY HookFields
  <2> DEFINE S == Has(hook[h].todo, "start")
             I == Has(hook[h].todo, "insert")
             C == Has(hook[h].todo, "count")
             T == Has(hook[h].todo, "stats")
             N == FALSE
  <2>3. /\ Owes(provider, rows, sess, hook[h].st, hook[h].kind, S, I, C, T) /\ I /\ N \in BOOLEAN /\ ~N
        /\ S \in BOOLEAN /\ I \in BOOLEAN /\ C \in BOOLEAN /\ T \in BOOLEAN
    BY <1>2, <1>3 DEF Exact
  <2>4. IsFiniteSet(rows) /\ \A r \in rows : r[1] \in Nat
    BY RowsFinite
  <2> HIDE DEF S, I, C, T, N
  <2>5. /\ row \notin rows
        /\ Owes(provider, rows \cup {row}, sess, hook[h].st, hook[h].kind, S, N, C, T)
    <3> DEFINE st == hook[h].st
               type == EventType(h)
               kind == hook[h].kind
    <3>1. /\ type = IF kind = "PostTool" THEN "TOOL_CALL" ELSE "USER_TURN"
          /\ st \in StateType /\ IsFiniteSet(rows) /\ \A r \in rows : r[1] \in Nat
          /\ Owes(provider, rows, sess, st, kind, S, I, C, T) /\ I /\ N \in BOOLEAN /\ ~N
          /\ S \in BOOLEAN /\ I \in BOOLEAN /\ C \in BOOLEAN /\ T \in BOOLEAN
      BY <2>1, <2>2, <2>3, <2>4
    <3> HIDE DEF st, type, kind
    <3>2. /\ <<st.step, type>> \notin rows
          /\ Owes(provider, rows \cup {<<st.step, type>>}, sess, st, kind, S, N, C, T)
      BY <3>1, InsertPays
    <3> QED BY <3>2 DEF st, type, kind
  <2> QED BY <2>5 DEF S, C, T, N
<1> HIDE DEF row
<1>5. Owes(provider, rows', sess, hook[h].st, hook[h].kind,
           Later(h, "start"), Later(h, "insert"), Later(h, "count"), Later(h, "stats"))
  BY <1>1, <1>3, <1>4, SameFlags
<1> QED BY <1>1, <1>4, <1>5, PaidIsExact

LEMMA CountKeepsExact ==
  ASSUME NEW h \in Hooks, TypeInv, AloneInv, ExactInv, Count(h), ~disturbed'
  PROVE  ExactInv'
<1>1. /\ Running(h) /\ Advance(h, 1) /\ file' = file /\ ~disturbed
      /\ provider' = provider /\ rows' = rows
      /\ Head(hook[h].todo) = "count"
  BY DEF Count, AtStep
<1>2. Exact(h)
  BY <1>1, OnlyOne
<1>3. /\ ~Later(h, "count") /\ Has(hook[h].todo, "count")
      /\ ~Later(h, "start") /\ ~Has(hook[h].todo, "start")
      /\ Later(h, "insert") <=> Has(hook[h].todo, "insert")
      /\ Later(h, "stats") <=> Has(hook[h].todo, "stats")
      /\ \A s : Later(h, s) \in BOOLEAN /\ Has(hook[h].todo, s) \in BOOLEAN
  BY <1>1, LaterIs
<1>4. Owes(provider, rows, sess, hook[h].st, hook[h].kind, FALSE,
           Has(hook[h].todo, "insert"), Has(hook[h].todo, "count"), Has(hook[h].todo, "stats"))
  BY <1>2, <1>3, SameFlags DEF Exact
<1>5. /\ sess'.exists
      /\ hook[h].kind = "PostTool" =>
           sess'.calls = sess.calls + 1 /\ sess'.turns = sess.turns
      /\ hook[h].kind /= "PostTool" =>
           sess'.calls = sess.calls /\ sess'.turns = sess.turns + 1
  BY CountIs DEF TypeInv
<1>6. Owes(provider, rows, sess', hook[h].st, hook[h].kind, FALSE,
           Has(hook[h].todo, "insert"), FALSE, Has(hook[h].todo, "stats"))
  <2> DEFINE I == Has(hook[h].todo, "insert")
             C == Has(hook[h].todo, "count")
             T == Has(hook[h].todo, "stats")
  <2>1. /\ Owes(provider, rows, sess, hook[h].st, hook[h].kind, FALSE, I, C, T) /\ C
        /\ I \in BOOLEAN /\ C \in BOOLEAN /\ T \in BOOLEAN
    BY <1>3, <1>4
  <2> HIDE DEF I, C, T
  <2>2. Owes(provider, rows, sess', hook[h].st, hook[h].kind, FALSE, I, FALSE, T)
    BY <1>5, <2>1, CountPays
  <2> QED BY <2>2 DEF I, T
<1>7. Owes(provider, rows, sess', hook[h].st, hook[h].kind,
           Later(h, "start"), Later(h, "insert"), Later(h, "count"), Later(h, "stats"))
  BY <1>3, <1>6, SameFlags
<1> QED BY <1>1, <1>7, PaidIsExact

LEMMA StatsKeepsExact ==
  ASSUME NEW h \in Hooks, TypeInv, AloneInv, ExactInv, Stats(h), ~disturbed'
  PROVE  ExactInv'
<1>1. /\ Running(h) /\ Advance(h, 1) /\ file' = file /\ ~disturbed
      /\ provider' = provider /\ rows' = rows
      /\ Head(hook[h].todo) = "stats"
  BY DEF Stats, AtStep
<1>2. Exact(h)
  BY <1>1, OnlyOne
<1>3. /\ ~Later(h, "stats") /\ Has(hook[h].todo, "stats")
      /\ ~Later(h, "start") /\ ~Has(hook[h].todo, "start")
      /\ ~Later(h, "insert") /\ ~Has(hook[h].todo, "insert")
      /\ ~Later(h, "count") /\ ~Has(hook[h].todo, "count")
      /\ \A s : Later(h, s) \in BOOLEAN /\ Has(hook[h].todo, s) \in BOOLEAN
  BY <1>1, LaterIs
<1>4. Owes(provider, rows, sess, hook[h].st, hook[h].kind, FALSE, FALSE, FALSE,
           Has(hook[h].todo, "stats"))
  BY <1>2, <1>3, SameFlags DEF Exact
<1>5. /\ ~sess.exists => sess' = sess
      /\ sess.exists =>
           /\ sess'.calls = hook[h].st.tools
           /\ provider = "claude" => sess'.turns = hook[h].st.turns
  <2>1. hook[h].st.tools \in Nat /\ hook[h].st.turns \in Nat
    BY HookFields, StateFields
  <2> QED BY <2>1, StatsIs DEF TypeInv
<1>6. Owes(provider, rows, sess', hook[h].st, hook[h].kind, FALSE, FALSE, FALSE, FALSE)
  BY <1>3, <1>4, <1>5, StatsPays
<1>7. Owes(provider, rows, sess', hook[h].st, hook[h].kind,
           Later(h, "start"), Later(h, "insert"), Later(h, "count"), Later(h, "stats"))
  BY <1>3, <1>6, SameFlags
<1> QED BY <1>1, <1>7, PaidIsExact

(* A new event owes what its plan adds to a state that was exact.          *)
LEMMA ReportKeepsExact ==
  ASSUME NEW h \in Hooks, NEW kind \in Kinds, NEW u \in Uses \cup {NoUse}, TypeInv, AloneInv, ExactInv,
         Report(h, kind, u), ~disturbed'
  PROVE  ExactInv'
<1>1. /\ ~Running(h) /\ Running(h)' /\ hook'[h].kind = kind
      /\ \A g \in Hooks \ {h} : ~Running(g) /\ ~Running(g)'
      /\ Planned(kind, file, hook'[h], events) /\ ~disturbed
      /\ provider' = provider /\ rows' = rows /\ sess' = sess /\ file' = file
  BY Reported
<1>2. Owes(provider, rows, sess, file, kind, FALSE, FALSE, FALSE, FALSE)
  <2>1. ExactAtRest
    BY <1>1 DEF ExactInv, Quiet
  <2> QED BY <2>1, NothingOwed DEF ExactAtRest
<1>3. PICK s \in BOOLEAN, w \in BOOLEAN, t \in BOOLEAN :
        /\ IsPlan(hook'[h].todo, s, w, t)
        /\ Follows(kind, file, hook'[h].st, s, w, t)
  BY <1>1 DEF Planned
<1>4. /\ GoodState(file, provider, events) /\ events \in Nat
      /\ GoodState(hook'[h].st, provider, events + 1)
      /\ sess.calls \in Nat /\ sess.turns \in Nat
  BY <1>1, Known DEF Planned, TypeInv, SessType
<1>5. /\ file.step \in Nat /\ file.tools \in Nat /\ file.turns \in Nat
      /\ hook'[h].st.step \in Nat /\ hook'[h].st.tools \in Nat /\ hook'[h].st.turns \in Nat
  <2>1. events + 1 \in Nat
    BY <1>4
  <2> QED BY <1>4, <2>1, GoodParts
<1>6. /\ RowsAre(rows, file, kind, FALSE) /\ CallsAre(sess, file, kind, FALSE, FALSE)
      /\ ClaudeIs(provider, sess, file, kind, FALSE)
  BY <1>2 DEF Owes
<1>7. RowsAre(rows, hook'[h].st, kind, w)
  <2>1. /\ \A r \in rows : r[1] <= file.step /\ r[1] \in Nat
        /\ Cardinality(ToolRows(rows)) = file.tools
    BY <1>6, RowsFinite DEF RowsAre
  <2>2. /\ w => hook'[h].st.step = file.step + 1
        /\ ~w => hook'[h].st.step = file.step
        /\ (w /\ kind = "PostTool") => hook'[h].st.tools = file.tools + 1
        /\ ~(w /\ kind = "PostTool") => hook'[h].st.tools = file.tools
    BY <1>3 DEF Follows
  <2>3. \A r \in rows : r[1] <= hook'[h].st.step /\ (w => r[1] < hook'[h].st.step)
    BY <1>5, <2>1, <2>2
  <2> QED BY <2>1, <2>2, <2>3 DEF RowsAre
<1>8. CallsAre(sess, hook'[h].st, kind, w, t)
  BY <1>3, <1>6 DEF CallsAre, Follows
<1>9. ClaudeIs(provider, sess, hook'[h].st, kind, w)
  BY <1>3, <1>6 DEF ClaudeIs, Follows
<1>10. s => WipesNothing(provider, sess, kind)
  BY <1>3, <1>6 DEF CallsAre, ClaudeIs, Follows, WipesNothing
<1>11. Owes(provider, rows, sess, hook'[h].st, kind, s, w, w, t)
  BY <1>7, <1>8, <1>9, <1>10 DEF Owes
<1>12. /\ Has(hook'[h].todo, "start") <=> s
       /\ Has(hook'[h].todo, "insert") <=> w
       /\ Has(hook'[h].todo, "count") <=> w
       /\ Has(hook'[h].todo, "stats") <=> t
       /\ \A x : Has(hook'[h].todo, x) \in BOOLEAN
  BY <1>3 DEF IsPlan, Has
<1>13. Owes(provider, rows, sess, hook'[h].st, kind,
            Has(hook'[h].todo, "start"), Has(hook'[h].todo, "insert"),
            Has(hook'[h].todo, "count"), Has(hook'[h].todo, "stats"))
  BY <1>11, <1>12, SameFlags
<1>14. Exact(h)'
  BY <1>1, <1>13 DEF Exact
<1> QED BY <1>1, <1>14 DEF ExactInv, Quiet

LEMMA ExactKept ==
  ASSUME TypeInv, AloneInv, ExactInv, [Next]_vars
  PROVE  ExactInv'
<1>1. CASE UNCHANGED vars
  BY <1>1 DEF vars, ExactInv, Quiet, Running, Exact, ExactAtRest
<1>2. CASE disturbed'
  BY <1>2 DEF ExactInv
<1>3. CASE HookSteps /\ ~disturbed'
  <2>1. PICK h \in Hooks :
          \/ \E kind \in Kinds, u \in Uses \cup {NoUse} : Report(h, kind, u)
          \/ Save(h) \/ RecordStart(h) \/ Insert(h) \/ Count(h) \/ Stats(h)
          \/ Busy(h) \/ Kill(h)
    BY <1>3 DEF HookSteps
  <2>2. ~Busy(h) /\ ~Kill(h)
    BY <1>3 DEF Busy, Kill
  <2> QED BY <1>3, <2>1, <2>2, ReportKeepsExact, SaveKeepsExact, StartKeepsExact,
             InsertKeepsExact, CountKeepsExact, StatsKeepsExact
<1> QED BY <1>1, <1>2, <1>3 DEF Next, Backfill

------------------------------------------------------------------------------
(* The theorems.                                                           *)

LEMMA InitHooks == Init => HooksInv
<1> SUFFICES ASSUME Init PROVE HooksInv
  OBVIOUS
<1>1. TypeInv
  BY InitTypes
<1>2. \A h \in Hooks : hook[h] = Ended /\ ~Running(h)
  BY DEF Init, Running, Ended
<1>3. AloneInv
  BY <1>2 DEF AloneInv, Alone, CalmWhile
<1>4. ExactAtRest
  <2>1. /\ rows = {} /\ file = NewFile /\ sess.calls = 0 /\ sess.turns = 0
    BY DEF Init
  <2>2. ToolRows(rows) = {}
    BY <2>1 DEF ToolRows
  <2>3. Cardinality(ToolRows(rows)) = 0
    BY <2>2, FS_EmptySet
  <2>4. file.tools = 0 /\ file.turns = 0
    BY <2>1 DEF NewFile
  <2> QED BY <2>1, <2>3, <2>4 DEF ExactAtRest, Owes, RowsAre, CallsAre, ClaudeIs
<1> QED BY <1>1, <1>2, <1>3, <1>4 DEF HooksInv, ExactInv

(* The strengthening of the three properties below.                        *)
THEOREM HooksHold == Spec => []HooksInv
<1>1. HooksInv /\ [Next]_vars => HooksInv'
  BY TypesKept, AloneKept, ExactKept DEF HooksInv
<1> QED BY <1>1, InitHooks, PTL DEF Spec

LEMMA StatesAreOK == HooksInv => StateOK
<1> SUFFICES ASSUME HooksInv PROVE StateOK
  OBVIOUS
<1>1. /\ provider \in Providers /\ GoodState(file, provider, events) /\ events \in 0..MaxEvents
      /\ rows \subseteq (1..MaxEvents) \X {"TOOL_CALL", "USER_TURN"}
      /\ sess \in SessType /\ disturbed \in BOOLEAN
  BY DEF HooksInv, TypeInv
<1>2. /\ file \in StateType /\ Newest(file) /\ CountedOnce(file)
      /\ file.step <= events /\ file.tools <= events /\ file.turns <= events
      /\ file.started \in BOOLEAN /\ file.step \in Nat /\ file.tools \in Nat
      /\ file.turns \in Nat /\ file.ids \in Seq(Uses)
      /\ file.plain \in Nat /\ Len(file.counted) \in Nat
  <2>1. events \in Nat
    BY <1>1, Known
  <2> QED BY <1>1, <2>1, GoodParts, LenProperties
<1>3. \A h \in Hooks : hook[h].kind \in Kinds /\ hook[h].calm \in BOOLEAN
  BY HookFields DEF HooksInv
<1>4. /\ file.step \in 0..MaxEvents /\ file.tools \in 0..MaxEvents
      /\ file.turns \in 0..MaxEvents /\ file.plain \in 0..MaxEvents
  BY <1>1, <1>2, Known DEF CountedOnce
<1>5. sess.exists \in BOOLEAN /\ sess.calls \in Nat /\ sess.turns \in Nat
  BY <1>1 DEF SessType
<1>6. TypeOK
  BY <1>1, <1>2, <1>3, <1>4, <1>5 DEF TypeOK, Newest
<1>7. RepeatedUseCountsOnce
  BY <1>2 DEF RepeatedUseCountsOnce, CountedOnce
<1> QED BY <1>6, <1>7 DEF StateOK

(* However many hooks of a session overlap, die or find the database busy, *)
(* and whoever opens it in between, its state counts no tool use again     *)
(* while its id is among the MaxIds counted last, and keeps at most MaxIds *)
(* ids.                                                                    *)
THEOREM StateSafe == Spec => []StateOK
BY HooksHold, StatesAreOK, PTL

LEMMA ExactAtTheEnd == HooksInv => UndisturbedIsExact
<1> SUFFICES ASSUME HooksInv, ~disturbed, Quiet
             PROVE  /\ Cardinality(Rows("TOOL_CALL")) = file.tools
                    /\ sess.calls \in {file.tools, 0}
                    /\ (provider = "claude") => sess.calls = file.tools /\ sess.turns = file.turns
  BY DEF UndisturbedIsExact
<1>1. ExactAtRest
  BY DEF HooksInv, ExactInv
<1>2. Rows("TOOL_CALL") = ToolRows(rows)
  BY DEF Rows, ToolRows
<1> QED BY <1>1, <1>2 DEF ExactAtRest, Owes, RowsAre, CallsAre, ClaudeIs

(* As long as no hook overlapped another, died or lost a write, the rows   *)
(* and totals in the database are those of the state file whenever no hook *)
(* runs.                                                                   *)
THEOREM ExactSafe == Spec => []UndisturbedIsExact
BY HooksHold, ExactAtTheEnd, PTL

(* A hook that ran alone writes the totals of the newest state, whatever   *)
(* was lost before; a start wipes calls only where hooks overlapped or     *)
(* Cursor's start comes late.                                              *)
THEOREM CallsSafe == Spec => CallsAreKept
<1>1. ASSUME HooksInv, NEW h \in Hooks, Stats(h), hook[h].calm, sess.exists
      PROVE  sess'.calls = file.tools
  <2>1. Running(h) /\ Head(hook[h].todo) = "stats" /\ TypeInv /\ AloneInv
    BY <1>1 DEF Stats, AtStep, HooksInv
  <2>2. ~Has(hook[h].todo, "save")
    BY <2>1, HookFields, HeadIs DEF Running
  <2>3. file = hook[h].st
    BY <1>1, <2>1, <2>2 DEF AloneInv, Alone
  <2>4. hook[h].st.tools \in Nat /\ hook[h].st.turns \in Nat /\ sess \in SessType
    BY <2>1, HookFields, StateFields DEF TypeInv
  <2> QED BY <1>1, <2>3, <2>4, StatsIs
<1>2. ASSUME HooksInv, NEW h \in Hooks, RecordStart(h), sess.calls > 0
      PROVE  disturbed \/ (provider = "cursor" /\ hook[h].kind = "SessionStart")
  <2>1. Running(h) /\ Head(hook[h].todo) = "start" /\ TypeInv /\ AloneInv /\ ExactInv
    BY <1>2 DEF RecordStart, AtStep, HooksInv
  <2>2. Has(hook[h].todo, "start")
    BY <2>1, LaterIs
  <2>3. CASE ~disturbed
    <3>1. WipesNothing(provider, sess, hook[h].kind)
      BY <2>1, <2>2, <2>3, OnlyOne DEF Exact, Owes
    <3>2. ~(sess.calls = 0)
      BY <1>2
    <3>3. provider = "claude" \/ provider = "cursor"
      BY <2>1, HooksAssumption DEF TypeInv, HooksAssumption
    <3> QED BY <3>1, <3>2, <3>3 DEF WipesNothing
  <2> QED BY <2>3
<1>3. HooksInv /\ [Next]_vars =>
        [\A h \in Hooks : (Stats(h) /\ hook[h].calm /\ sess.exists)
                            => sess'.calls = file.tools]_vars
  BY <1>1
<1>4. HooksInv /\ [Next]_vars =>
        [\A h \in Hooks : (RecordStart(h) /\ sess.calls > 0)
           => disturbed \/ (provider = "cursor" /\ hook[h].kind = "SessionStart")]_vars
  BY <1>2
<1>5. Spec => CalmHookRepairs
  BY <1>3, HooksHold, PTL DEF Spec, CalmHookRepairs
<1>6. Spec => StartKeepsCalls
  BY <1>4, HooksHold, PTL DEF Spec, StartKeepsCalls
<1> QED BY <1>5, <1>6 DEF CallsAreKept

=============================================================================
