-------------------------- MODULE TelemetryProofs ---------------------------
(***************************************************************************)
(* Theorems about Telemetry, for any number of steps and starts, any       *)
(* length of the run, of an hour and of the retention.                     *)
(***************************************************************************)
EXTENDS Telemetry, FiniteSetTheorems, TLAPS

(* What the daemon holds, up or down.                                      *)
Held ==
  /\ scan \in [pc : {"idle", "read", "store"}, size : Nat, read : SUBSET Steps]
  /\ prune \in [pc : {"idle", "roll", "delete"}, cutoff : Int]
  /\ {up, fresh, again, miscounted} \subseteq BOOLEAN
  /\ ~up => scan.pc = "idle" /\ prune.pc = "idle"
  /\ scan.pc = "read" => offset <= scan.size /\ scan.size <= halves
  /\ \A s \in scan.read : scan.pc = "store" /\ 2 * s <= halves
  /\ prune.pc # "idle" => prune.cutoff = now - Retention
  /\ hook \subseteq Seen

(* A row is of a step that was written, and in the history of its hour.    *)
RowsKept ==
  /\ \A s \in Steps : IF 2 * s - 1 <= halves THEN created[s] \in Times ELSE created[s] = NoTime
  /\ \A s \in Rows : <<s, HourOf(at[s])>> \in ever
  /\ \A s \in Seen : 2 * s - 1 <= halves

(* A step behind the offset, be it by a half, is accounted for.            *)
Passed ==
  \A s \in Steps : 2 * s - 1 <= offset =>
    s \in Seen \cup excused \cup (IF scan.pc = "store" THEN scan.read ELSE {})

(* A row that a prune counts and a later one deletes.                      *)
Rolled ==
  prune.pc = "delete" =>
    \A h \in Hours \ patchy : Old(h) # {} => rollup[h] = Cardinality(Old(h))

(* An hour that is not patchy has all its rows still, or none any more.    *)
HourWhole(h) == RowsOf(h) = EverOf(h) /\ (EverOf(h) = {} => rollup[h] = 0)
HourGone(h) == /\ RowsOf(h) = {} /\ rollup[h] = Cardinality(EverOf(h))
               /\ (h + 1) * HourTicks <= now - Retention
WholeOrGone == \A h \in Hours \ patchy : HourWhole(h) \/ HourGone(h)

(* The total of the session lags behind by the steps hooks have to count.  *)
Total ==
  ~miscounted /\ ~again =>
    /\ calls + Cardinality(hook) = Cardinality(Seen)
    /\ ~known => hook # {} \/ ever = {}

(* What is written beyond size has been written, and maybe reported, just  *)
(* now: the clock waits for the scan.                                      *)
Beyond(size) ==
  \A s \in Steps : 2 * (s - 1) >= size =>
    /\ 2 * s - 1 <= halves => created[s] = now
    /\ s \in Seen => at[s] = now
Abreast ==
  /\ scan.pc = "read" => Beyond(scan.size)
  /\ scan.pc = "store" \/ (up /\ ~fresh) => Beyond(offset)
  /\ scan.pc = "store" /\ ~fresh => \A s \in scan.read \cap Seen : at[s] = now

-----------------------------------------------------------------------------
(* Hours and counts.                                                       *)

LEMMA DivBounds ==
  ASSUME NEW t \in Nat, NEW k \in Nat \ {0}
  PROVE  /\ t \div k \in Nat
         /\ (t \div k) * k <= t
         /\ t < ((t \div k) + 1) * k
  OBVIOUS

LEMMA Monotone ==
  ASSUME NEW a \in Nat, NEW b \in Nat, NEW k \in Nat \ {0}, a * k < b * k
  PROVE  a < b
  OBVIOUS

LEMMA HourBounds ==
  ASSUME NEW t \in Times
  PROVE  /\ HourOf(t) \in Hours
         /\ HourOf(t) * HourTicks <= t
         /\ t < (HourOf(t) + 1) * HourTicks
<1>1. HourTicks \in Nat \ {0} /\ MaxTime \in Nat
  BY TelemetryAssumption
<1>. DEFINE m == MaxTime \div HourTicks
            h == t \div HourTicks
<1>2. t \in Nat /\ t <= MaxTime
  BY <1>1 DEF Times
<1>3. m \in Nat /\ MaxTime < (m + 1) * HourTicks
  BY <1>1, DivBounds
<1>4. h \in Nat /\ h * HourTicks <= t /\ t < (h + 1) * HourTicks
  BY <1>1, <1>2, DivBounds
<1>. HIDE DEF m, h
<1>5. h * HourTicks \in Nat /\ (m + 1) * HourTicks \in Nat
  BY <1>1, <1>3, <1>4
<1>6. h * HourTicks < (m + 1) * HourTicks
  BY <1>1, <1>2, <1>3, <1>4, <1>5
<1>7. h < m + 1
  BY <1>1, <1>3, <1>4, <1>6, Monotone
<1>. QED BY <1>3, <1>4, <1>7 DEF HourOf, Hours, h, m

(* An hour is before a time, or not yet over at it.                        *)
LEMMA HourSide ==
  ASSUME NEW t \in Times, NEW h \in Hours, NEW c \in Int
  PROVE  /\ h * HourTicks \in Nat /\ (h + 1) * HourTicks \in Nat
         /\ HourOf(t) = h /\ (h + 1) * HourTicks <= c => t < c
         /\ HourOf(t) = h /\ c <= h * HourTicks => c <= t
<1>1. HourTicks \in Nat \ {0} /\ h \in Nat /\ t \in Int
  BY TelemetryAssumption DEF Hours, Times
<1>2. HourOf(t) * HourTicks <= t /\ t < (HourOf(t) + 1) * HourTicks
  BY HourBounds
<1>3. h * HourTicks \in Nat /\ (h + 1) * HourTicks \in Nat
  BY <1>1
<1>. QED BY <1>1, <1>2, <1>3

LEMMA StepSets ==
  ASSUME NEW A \in SUBSET Steps
  PROVE  /\ IsFiniteSet(A) /\ Cardinality(A) \in Nat /\ Cardinality(A) <= MaxSteps
         /\ Cardinality(A) = 0 <=> A = {}
<1>1. IsFiniteSet(Steps) /\ Cardinality(Steps) = MaxSteps
  BY FS_Interval, TelemetryAssumption DEF Steps
<1>2. IsFiniteSet(A) /\ Cardinality(A) <= Cardinality(Steps)
  BY <1>1, FS_Subset
<1>. QED BY <1>1, <1>2, FS_CardinalityType, FS_EmptySet

LEMMA StepUnion ==
  ASSUME NEW A \in SUBSET Steps, NEW B \in SUBSET Steps, A \cap B = {}
  PROVE  Cardinality(A \cup B) = Cardinality(A) + Cardinality(B)
<1>1. IsFiniteSet(A) /\ IsFiniteSet(B) /\ Cardinality(A) \in Nat /\ Cardinality(B) \in Nat
  BY StepSets
<1>2. Cardinality(A \cup B) = Cardinality(A) + Cardinality(B) - Cardinality(A \cap B)
  BY <1>1, FS_Union
<1>3. Cardinality(A \cap B) = 0
  BY FS_EmptySet
<1>. QED BY <1>1, <1>2, <1>3

LEMMA StepsWithin ==
  ASSUME NEW B \in SUBSET Steps, NEW A \in SUBSET B
  PROVE  Cardinality(A) <= Cardinality(B)
  BY StepSets, FS_Subset

-----------------------------------------------------------------------------
(* The inductive invariant, and its parts that a step leaves alone.        *)

Inv ==
  /\ TypeOK /\ Held /\ RowsKept /\ Passed /\ RollupNeverOvercounts /\ Rolled /\ WholeOrGone
  /\ Total /\ Abreast

LEMMA SetTypes ==
  ASSUME TypeOK
  PROVE  /\ Rows \in SUBSET Steps /\ Seen \in SUBSET Steps
         /\ \A h : RowsOf(h) \in SUBSET Steps /\ EverOf(h) \in SUBSET Steps /\ Old(h) \in SUBSET RowsOf(h)
         /\ \A s \in Rows : at[s] \in Times
  BY DEF Rows, Seen, RowsOf, EverOf, Old, TypeOK

LEMMA RowsEver ==
  ASSUME TypeOK, RowsKept
  PROVE  Rows \subseteq Seen /\ \A h : RowsOf(h) \subseteq EverOf(h)
<1>1. ASSUME NEW s \in Rows PROVE s \in Seen
  <2>1. at[s] \in Times /\ s \in Steps /\ <<s, HourOf(at[s])>> \in ever
    BY SetTypes DEF RowsKept
  <2>2. HourOf(at[s]) \in Hours
    BY <2>1, HourBounds
  <2>. QED BY <2>1, <2>2 DEF Seen
<1>2. \A h : RowsOf(h) \subseteq EverOf(h)
  BY SetTypes DEF RowsKept, RowsOf, EverOf
<1>. QED BY <1>1, <1>2

LEMMA SetsKept ==
  /\ UNCHANGED at => Rows' = Rows /\ \A h : RowsOf(h)' = RowsOf(h)
  /\ UNCHANGED <<at, prune>> => \A h : Old(h)' = Old(h)
  /\ UNCHANGED ever => Seen' = Seen /\ \A h : EverOf(h)' = EverOf(h)
  BY DEF Rows, RowsOf, Old, Seen, EverOf

LEMMA RollupsKept ==
  /\ RollupNeverOvercounts /\ UNCHANGED <<rollup, ever>> => RollupNeverOvercounts'
  /\ Rolled /\ UNCHANGED <<prune, at, patchy, rollup>> => Rolled'
  /\ WholeOrGone /\ UNCHANGED <<at, ever, rollup, patchy, now>> => WholeOrGone'
<1>1. RollupNeverOvercounts /\ UNCHANGED <<rollup, ever>> => RollupNeverOvercounts'
  BY SetsKept DEF RollupNeverOvercounts
<1>2. Rolled /\ UNCHANGED <<prune, at, patchy, rollup>> => Rolled'
  BY SetsKept DEF Rolled
<1>3. WholeOrGone /\ UNCHANGED <<at, ever, rollup, patchy, now>> => WholeOrGone'
  BY SetsKept DEF WholeOrGone, HourWhole, HourGone
<1>. QED BY <1>1, <1>2, <1>3

LEMMA StepsKept ==
  /\ RowsKept /\ UNCHANGED <<halves, created, at, ever>> => RowsKept'
  /\ Passed /\ UNCHANGED <<offset, ever, excused, scan>> => Passed'
  /\ Total /\ UNCHANGED <<calls, hook, ever, known, miscounted, again>> => Total'
  /\ Abreast /\ UNCHANGED <<scan, up, fresh, offset, halves, created, ever, at, now>> => Abreast'
<1>1. RowsKept /\ UNCHANGED <<halves, created, at, ever>> => RowsKept'
  BY SetsKept DEF RowsKept
<1>2. Passed /\ UNCHANGED <<offset, ever, excused, scan>> => Passed'
  BY SetsKept DEF Passed
<1>3. Total /\ UNCHANGED <<calls, hook, ever, known, miscounted, again>> => Total'
  BY SetsKept DEF Total
<1>4. Abreast /\ UNCHANGED <<scan, up, fresh, offset, halves, created, ever, at, now>> => Abreast'
  BY SetsKept DEF Abreast, Beyond
<1>. QED BY <1>1, <1>2, <1>3, <1>4

-----------------------------------------------------------------------------
(* New rows.                                                               *)

InHour(new, time, h) == {s \in new : HourOf(time[s]) = h}

LEMMA InsertedRows ==
  ASSUME Inv, NEW new \in SUBSET (Steps \ Rows), NEW time, \A s \in new : time[s] \in Times,
         Inserted(new, time)
  PROVE  /\ at' \in [Steps -> Times \cup {NoTime}] /\ ever' \subseteq Steps \X Hours
         /\ patchy' \subseteq Hours /\ patchy \subseteq patchy'
         /\ \A s \in Steps : at'[s] = IF s \in new THEN time[s] ELSE at[s]
         /\ Rows' = Rows \cup new /\ Seen' = Seen \cup new
         /\ \A h : /\ RowsOf(h)' = RowsOf(h) \cup InHour(new, time, h)
                   /\ EverOf(h)' = EverOf(h) \cup InHour(new, time, h)
         /\ \A s \in Rows' : <<s, HourOf(at'[s])>> \in ever'
         /\ \A s \in new : time[s] < Latest => HourOf(time[s]) \in patchy'
<1>. USE DEF Inv
<1>0. Times \cap {NoTime} = {}
  BY DEF Times, NoTime
<1>1. /\ at' = [s \in Steps |-> IF s \in new THEN time[s] ELSE at[s]]
      /\ ever' = ever \cup {<<s, HourOf(time[s])>> : s \in new}
      /\ patchy' = patchy \cup {HourOf(time[s]) : s \in {s \in new : time[s] < Latest}}
  BY DEF Inserted
<1>2. \A s \in new : s \in Steps /\ s \notin Rows /\ time[s] \in Times /\ HourOf(time[s]) \in Hours
  BY HourBounds
<1>3. /\ at' \in [Steps -> Times \cup {NoTime}]
      /\ \A s \in Steps : at'[s] = IF s \in new THEN time[s] ELSE at[s]
  BY <1>1, <1>2 DEF TypeOK
<1>4. ever' \subseteq Steps \X Hours
  BY <1>1, <1>2 DEF TypeOK
<1>5. /\ patchy' \subseteq Hours /\ patchy \subseteq patchy'
      /\ \A s \in new : time[s] < Latest => HourOf(time[s]) \in patchy'
  BY <1>1, <1>2 DEF TypeOK
<1>6. Rows' = Rows \cup new
  BY <1>0, <1>2, <1>3 DEF Rows
<1>7. \A s, h : <<s, h>> \in ever' <=> <<s, h>> \in ever \/ (s \in new /\ h = HourOf(time[s]))
  BY <1>1
<1>8. Seen' = Seen \cup new
  BY <1>2, <1>7 DEF Seen
<1>9. ASSUME NEW h PROVE /\ RowsOf(h)' = RowsOf(h) \cup InHour(new, time, h)
                         /\ EverOf(h)' = EverOf(h) \cup InHour(new, time, h)
  <2>1. EverOf(h)' = EverOf(h) \cup InHour(new, time, h)
    BY <1>2, <1>7 DEF EverOf, InHour
  <2>2. \A s : s \in RowsOf(h)' <=> s \in RowsOf(h) \cup InHour(new, time, h)
    BY <1>2, <1>3, <1>6 DEF RowsOf, InHour, Rows
  <2>. QED BY <2>1, <2>2
<1>10. ASSUME NEW s \in Rows' PROVE <<s, HourOf(at'[s])>> \in ever'
  <2>1. CASE s \in new
    BY <1>2, <1>3, <1>7, <2>1
  <2>2. CASE s \notin new
    <3>1. s \in Rows /\ at'[s] = at[s]
      BY <1>3, <1>6, <2>2, SetTypes
    <3>. QED BY <1>7, <3>1 DEF RowsKept
  <2>. QED BY <2>1, <2>2
<1>. QED BY <1>3, <1>4, <1>5, <1>6, <1>8, <1>9, <1>10

LEMMA InsertedRollups ==
  ASSUME Inv, NEW new \in SUBSET (Steps \ Rows), NEW time, \A s \in new : time[s] \in Times,
         Inserted(new, time),
         prune.pc = "idle" \/ \A s \in new : time[s] >= prune.cutoff,
         UNCHANGED <<rollup, prune, now>>
  PROVE  RollupNeverOvercounts' /\ Rolled' /\ WholeOrGone'
<1>. USE DEF Inv
<1>1. /\ patchy \subseteq patchy'
      /\ \A s \in Steps : at'[s] = IF s \in new THEN time[s] ELSE at[s]
      /\ \A h : /\ RowsOf(h)' = RowsOf(h) \cup InHour(new, time, h)
                /\ EverOf(h)' = EverOf(h) \cup InHour(new, time, h)
      /\ \A s \in new : time[s] < Latest => HourOf(time[s]) \in patchy'
  BY InsertedRows
<1>2. ASSUME NEW h \in Hours PROVE rollup'[h] <= Cardinality(EverOf(h)')
  <2>1. InHour(new, time, h) \in SUBSET Steps /\ EverOf(h) \in SUBSET Steps
    BY SetTypes DEF InHour
  <2>2. EverOf(h) \in SUBSET (EverOf(h)') /\ EverOf(h)' \in SUBSET Steps
    BY <1>1, <2>1
  <2>3. Cardinality(EverOf(h)) <= Cardinality(EverOf(h)')
    BY <2>2, StepsWithin
  <2>4. Cardinality(EverOf(h)) \in Nat /\ Cardinality(EverOf(h)') \in Nat
    BY <2>1, <2>2, StepSets
  <2>5. rollup[h] \in Nat /\ rollup[h] <= Cardinality(EverOf(h)) /\ rollup'[h] = rollup[h]
    BY TelemetryAssumption DEF RollupNeverOvercounts, TypeOK
  <2>. QED BY <2>3, <2>4, <2>5
<1>3. Rolled'
  <2>. SUFFICES ASSUME prune.pc = "delete", NEW h \in Hours \ patchy', Old(h)' # {}
                PROVE  rollup[h] = Cardinality(Old(h)')
    BY DEF Rolled
  <2>1. Old(h)' = Old(h)
    <3>1. \A s \in new : s \in Steps /\ at'[s] = time[s] /\ ~(at'[s] < prune.cutoff)
      BY <1>1 DEF Times, Held
    <3>2. \A s \in RowsOf(h) : s \in Steps /\ s \notin new /\ at'[s] = at[s]
      BY <1>1 DEF RowsOf, Rows
    <3>3. InHour(new, time, h) \subseteq new
      BY DEF InHour
    <3>. QED BY <1>1, <3>1, <3>2, <3>3 DEF Old
  <2>2. h \in Hours \ patchy
    BY <1>1
  <2>. QED BY <2>1, <2>2 DEF Rolled
<1>4. WholeOrGone'
  <2>. SUFFICES ASSUME NEW h \in Hours \ patchy' PROVE HourWhole(h)' \/ HourGone(h)'
    BY DEF WholeOrGone
  <2>1. h \in Hours \ patchy
    BY <1>1
  <2>2. CASE HourWhole(h)
    BY <1>1, <2>2 DEF HourWhole
  <2>3. CASE HourGone(h)
    <3>1. ASSUME NEW s \in InHour(new, time, h) PROVE FALSE
      <4>1. s \in new /\ time[s] \in Times /\ HourOf(time[s]) = h
        BY DEF InHour
      <4>2. now - Retention \in Int
        BY TelemetryAssumption DEF TypeOK, Times
      <4>3. time[s] < Latest
        BY <2>1, <2>3, <4>1, <4>2, HourSide DEF HourGone, Latest
      <4>. QED BY <1>1, <4>1, <4>3
    <3>2. RowsOf(h)' = RowsOf(h) /\ EverOf(h)' = EverOf(h)
      BY <1>1, <3>1
    <3>. QED BY <2>3, <3>2 DEF HourGone
  <2>. QED BY <2>1, <2>2, <2>3 DEF WholeOrGone
<1>. QED BY <1>2, <1>3, <1>4 DEF RollupNeverOvercounts

-----------------------------------------------------------------------------
(* The agent and the clock.                                                *)

LEMMA TickKeeps ==
  ASSUME Inv, Tick
  PROVE  Inv'
<1>. USE DEF Inv
<1>1. /\ now < MaxTime /\ now' = now + 1
      /\ prune.pc = "idle" /\ hook = {} /\ (up => scan.pc = "idle" /\ halves = offset)
      /\ UNCHANGED <<halves, created, odd, at, known, calls, rollup, up, offset, scan, prune, starts, fresh>>
      /\ UNCHANGED <<hook, ever, excused, patchy, again, miscounted>>
  BY DEF Tick, db, daemon, history
<1>2. now \in Nat /\ now' \in Times /\ Retention \in Nat /\ MaxTime \in Nat
  BY <1>1, TelemetryAssumption DEF TypeOK, Times
<1>3. TypeOK'
  BY <1>1, <1>2 DEF TypeOK
<1>4. Held'
  BY <1>1, SetsKept DEF Held
<1>5. WholeOrGone'
  <2>1. ASSUME NEW h \in Hours, HourGone(h) PROVE HourGone(h)'
    <3>1. (h + 1) * HourTicks \in Nat
      BY <1>2, HourSide
    <3>. QED BY <1>1, <1>2, <2>1, <3>1, SetsKept DEF HourGone
  <2>2. \A h \in Hours : HourWhole(h) => HourWhole(h)'
    BY <1>1, SetsKept DEF HourWhole
  <2>. QED BY <1>1, <2>1, <2>2 DEF WholeOrGone
<1>6. Abreast'
  <2>1. scan.pc = "idle"
    BY <1>1 DEF Held
  <2>2. up => Beyond(offset)'
    <3>. SUFFICES ASSUME up, NEW s \in Steps, 2 * (s - 1) >= offset
                  PROVE  ~(2 * s - 1 <= halves) /\ s \notin Seen'
      BY <1>1 DEF Beyond
    <3>1. ~(2 * s - 1 <= halves)
      BY <1>1 DEF Steps, TypeOK
    <3>. QED BY <1>1, <3>1, SetsKept DEF RowsKept
  <2>. QED BY <1>1, <2>1, <2>2 DEF Abreast
<1>. QED BY <1>1, <1>3, <1>4, <1>5, <1>6, RollupsKept, StepsKept

LEMMA AgentWritesKeeps ==
  ASSUME Inv, AgentWrites
  PROVE  Inv'
<1>. USE DEF Inv
<1>. DEFINE n == halves \div 2 + 1
<1>1. /\ halves < 2 * MaxSteps /\ halves' = halves + 1
      /\ created' = IF created[n] = NoTime THEN [created EXCEPT ![n] = now] ELSE created
      /\ odd' \in {odd, odd \cup {n}}
      /\ UNCHANGED <<now, at, known, calls, rollup, up, offset, scan, prune, starts, fresh>>
      /\ UNCHANGED <<hook, ever, excused, patchy, again, miscounted>>
  BY DEF AgentWrites, db, daemon, history
<1>2. MaxSteps \in Nat /\ halves \in Nat /\ offset \in 0..halves
  BY TelemetryAssumption DEF TypeOK
<1>3. n \in Steps /\ (halves = 2 * n - 2 \/ halves = 2 * n - 1)
  BY <1>1, <1>2 DEF Steps
<1>. HIDE DEF n
<1>4. /\ created' \in [Steps -> Times \cup {NoTime}]
      /\ \A s \in Steps : s # n => created'[s] = created[s]
      /\ created'[n] = IF created[n] = NoTime THEN now ELSE created[n]
      /\ now \in Times
  BY <1>1, <1>3 DEF TypeOK
<1>5. TypeOK'
  <2>1. odd' \subseteq Steps
    BY <1>1, <1>3 DEF TypeOK
  <2>. QED BY <1>1, <1>2, <1>4, <2>1 DEF TypeOK
<1>6. Held'
  <2>1. \A s \in scan.read : s \in Nat /\ 2 * s <= halves + 1
    BY <1>2 DEF Held, Steps
  <2>2. scan.pc = "read" => scan.size \in Nat /\ scan.size <= halves + 1
    BY <1>2 DEF Held
  <2>. QED BY <1>1, <2>1, <2>2, SetsKept DEF Held
<1>7. RowsKept'
  <2>1. ASSUME NEW s \in Steps, 2 * s - 1 <= halves' PROVE created'[s] \in Times
    <3>1. CASE s = n
      BY <1>4, <3>1 DEF TypeOK
    <3>2. CASE s # n
      BY <1>1, <1>2, <1>3, <1>4, <2>1, <3>2 DEF RowsKept, Steps
    <3>. QED BY <3>1, <3>2
  <2>2. ASSUME NEW s \in Steps, ~(2 * s - 1 <= halves') PROVE created'[s] = NoTime
    <3>1. s # n /\ ~(2 * s - 1 <= halves)
      BY <1>1, <1>2, <1>3, <2>2 DEF Steps
    <3>. QED BY <1>4, <3>1 DEF RowsKept
  <2>3. \A s \in Seen' : 2 * s - 1 <= halves'
    BY <1>1, <1>2, SetsKept, SetTypes DEF RowsKept, Steps
  <2>. QED BY <1>1, <2>1, <2>2, <2>3, SetsKept DEF RowsKept
<1>8. Abreast'
  <2>1. ASSUME NEW z \in 0..halves, Beyond(z) PROVE Beyond(z)'
    <3>. SUFFICES ASSUME NEW s \in Steps, 2 * (s - 1) >= z
                  PROVE  2 * s - 1 <= halves' => created'[s] = now
      BY <1>1, <2>1, SetsKept DEF Beyond
    <3>1. 2 * s - 1 <= halves => created[s] = now
      BY <2>1 DEF Beyond
    <3>2. CASE s # n
      BY <1>1, <1>2, <1>3, <1>4, <3>1, <3>2 DEF Steps
    <3>3. CASE s = n /\ halves = 2 * n - 1
      BY <1>4, <3>1, <3>3 DEF Times, NoTime
    <3>4. CASE s = n /\ halves = 2 * n - 2
      <4>1. created[n] = NoTime
        BY <1>2, <1>3, <3>4 DEF RowsKept, Steps
      <4>. QED BY <1>4, <3>4, <4>1
    <3>. QED BY <1>3, <3>2, <3>3, <3>4
  <2>. QED BY <1>1, <1>2, <2>1, SetsKept DEF Abreast, Held
<1>. QED BY <1>1, <1>5, <1>6, <1>7, <1>8, RollupsKept, StepsKept

-----------------------------------------------------------------------------
(* The scan.                                                               *)

LEMMA ScanStatKeeps ==
  ASSUME Inv, ScanStat
  PROVE  Inv'
<1>. USE DEF Inv
<1>1. /\ up /\ scan.pc = "idle" /\ halves > offset
      /\ scan' = [scan EXCEPT !.pc = "read", !.size = halves]
      /\ UNCHANGED <<now, halves, created, odd, at, known, calls, rollup, up, offset, prune, starts, fresh>>
      /\ UNCHANGED <<hook, ever, excused, patchy, again, miscounted>>
  BY DEF ScanStat, file, db, history
<1>2. halves \in Nat /\ offset \in 0..halves
  BY TelemetryAssumption DEF TypeOK
<1>3. /\ scan' \in [pc : {"idle", "read", "store"}, size : Nat, read : SUBSET Steps]
      /\ scan'.pc = "read" /\ scan'.size = halves /\ scan'.read = scan.read
  BY <1>1, <1>2 DEF Held
<1>4. TypeOK'
  BY <1>1, <1>3 DEF TypeOK
<1>5. Held'
  BY <1>1, <1>2, <1>3, SetsKept DEF Held
<1>6. Passed'
  BY <1>1, <1>3, SetsKept DEF Passed
<1>7. Abreast'
  <2>1. Beyond(halves)
    <3>. SUFFICES ASSUME NEW s \in Steps, 2 * (s - 1) >= halves
                  PROVE  ~(2 * s - 1 <= halves) /\ s \notin Seen
      BY DEF Beyond
    <3>1. ~(2 * s - 1 <= halves)
      BY <1>2 DEF Steps
    <3>. QED BY <3>1 DEF RowsKept
  <2>2. \A z : Beyond(z)' <=> Beyond(z)
    BY <1>1, SetsKept DEF Beyond
  <2>. QED BY <1>1, <1>3, <2>1, <2>2 DEF Abreast
<1>. QED BY <1>1, <1>4, <1>5, <1>6, <1>7, RollupsKept, StepsKept

LEMMA ScanReadKeeps ==
  ASSUME Inv, ScanRead
  PROVE  Inv'
<1>. USE DEF Inv
<1>. DEFINE read == Whole(offset, halves)
            tail == (scan.size + 1) \div 2
            cut == IF scan.size % 2 = 1 THEN {tail} \ read ELSE {}
            thrown == IF read \cap odd # {} THEN read ELSE {}
            batch == read \ thrown
<1>1. /\ scan.pc = "read" /\ offset' = scan.size /\ fresh' = (fresh /\ batch # {})
      /\ scan' = [pc |-> IF batch = {} THEN "idle" ELSE "store", size |-> 0, read |-> batch]
      /\ excused' = excused \cup cut \cup thrown
      /\ UNCHANGED <<now, halves, created, odd, at, known, calls, rollup, up, prune, starts>>
      /\ UNCHANGED <<hook, ever, patchy, again, miscounted>>
  BY DEF ScanRead, file, db
<1>2. /\ halves \in Nat /\ offset \in Nat /\ scan.size \in Nat
      /\ offset <= scan.size /\ scan.size <= halves /\ halves <= 2 * MaxSteps /\ MaxSteps \in Nat
  BY <1>1, TelemetryAssumption DEF TypeOK, Held
<1>3. read \in SUBSET Steps /\ \A s \in Steps : s \in read <=> offset <= 2 * (s - 1) /\ 2 * s <= halves
  BY DEF Whole
<1>4. scan.size % 2 = 1 => tail \in Steps /\ scan.size = 2 * tail - 1
  BY <1>2 DEF Steps
<1>5. ASSUME NEW s \in Steps, scan.size = 2 * s - 1 PROVE scan.size % 2 = 1 /\ tail = s
  BY <1>2, <1>5 DEF Steps
<1>5a. /\ cut = IF scan.size % 2 = 1 THEN {tail} \ read ELSE {}
       /\ thrown \subseteq read /\ batch = read \ thrown
  OBVIOUS
<1>. HIDE DEF read, tail, cut, thrown, batch
<1>6. /\ scan'.pc = (IF batch = {} THEN "idle" ELSE "store") /\ scan'.size = 0 /\ scan'.read = batch
      /\ scan' \in [pc : {"idle", "read", "store"}, size : Nat, read : SUBSET Steps]
  BY <1>1, <1>3, <1>5a
<1>7. TypeOK'
  <2>1. offset' \in 0..halves'
    BY <1>1, <1>2
  <2>2. excused' \subseteq Steps
    BY <1>1, <1>3, <1>4, <1>5a DEF TypeOK
  <2>. QED BY <1>1, <1>6, <2>1, <2>2 DEF TypeOK
<1>8. Held'
  BY <1>1, <1>3, <1>5a, <1>6, SetsKept DEF Held
<1>9. Passed'
  <2>. SUFFICES ASSUME NEW s \in Steps, 2 * s - 1 <= scan.size
                PROVE  s \in Seen \cup excused' \cup batch
    BY <1>1, <1>6, SetsKept DEF Passed
  <2>1. CASE 2 * s - 1 <= offset
    <3>1. s \in Seen \cup excused
      BY <1>1, <2>1 DEF Passed
    <3>. QED BY <1>1, <3>1
  <2>2. CASE 2 * s - 1 > offset /\ 2 * s <= halves
    BY <1>1, <1>2, <1>3, <1>5a, <2>2 DEF Steps
  <2>3. CASE 2 * s > halves
    <3>1. scan.size = 2 * s - 1 /\ s \notin read
      BY <1>2, <1>3, <2>3 DEF Steps
    <3>2. s \in excused'
      BY <1>1, <1>5, <1>5a, <3>1
    <3>. QED BY <3>2
  <2>. QED BY <1>2, <2>1, <2>2, <2>3 DEF Steps
<1>10. Abreast'
  <2>1. ASSUME NEW s \in Steps, 2 * (s - 1) >= offset'
        PROVE  /\ 2 * s - 1 <= halves' => created'[s] = now'
               /\ s \in Seen' => at'[s] = now'
    <3>1. /\ 2 * s - 1 <= halves => created[s] = now
          /\ s \in Seen => at[s] = now
      BY <1>1, <2>1 DEF Abreast, Beyond
    <3>. QED BY <1>1, <3>1, SetsKept
  <2>2. ASSUME ~fresh', NEW s \in batch \cap Seen PROVE at[s] = now
    <3>1. ~fresh /\ up
      BY <1>1, <1>5a, <2>2 DEF Held
    <3>2. Beyond(offset)
      BY <3>1 DEF Abreast
    <3>3. 2 * (s - 1) >= offset
      BY <1>2, <1>3, <1>5a DEF Steps
    <3>. QED BY <1>3, <1>5a, <3>2, <3>3 DEF Beyond
  <2>. QED BY <1>1, <1>3, <1>5a, <1>6, <2>1, <2>2, SetsKept DEF Abreast, Beyond
<1>. QED BY <1>1, <1>7, <1>8, <1>9, <1>10, RollupsKept, StepsKept

LEMMA ScanStoreKeeps ==
  ASSUME Inv, ScanStore
  PROVE  Inv' /\ (again' # again => fresh)
<1>. USE DEF Inv
<1>0. PICK refused \in 0..MaxSteps :
        LET new == {s \in scan.read \ Rows : s > refused} IN
        /\ Inserted(new, created)
        /\ known' = (known \/ new # {})
        /\ calls' = calls + Cardinality(new)
        /\ again' = (again \/ new \cap Seen # {})
        /\ excused' = excused \cup {s \in scan.read \ Rows : s <= refused}
  BY DEF ScanStore
<1>. DEFINE new == {s \in scan.read \ Rows : s > refused}
<1>1. /\ Inserted(new, created) /\ known' = (known \/ new # {}) /\ calls' = calls + Cardinality(new)
      /\ again' = (again \/ new \cap Seen # {})
      /\ excused' = excused \cup {s \in scan.read \ Rows : s <= refused}
  BY <1>0
<1>2. /\ scan.pc = "store" /\ prune.pc = "idle" /\ scan' = Idle /\ fresh' = FALSE
      /\ UNCHANGED <<now, halves, created, odd, rollup, up, offset, prune, starts, hook, miscounted>>
  BY DEF ScanStore, file
<1>3. new \in SUBSET (Steps \ Rows) /\ new \subseteq scan.read
  BY DEF Held
<1>4. \A s \in scan.read : s \in new \/ s \in Rows \/ s \in excused'
  BY <1>1 DEF Held, Steps
<1>. HIDE DEF new
<1>5. \A s \in scan.read : s \in Steps /\ 2 * s <= halves /\ 2 * s - 1 <= halves /\ created[s] \in Times
  <2>1. halves \in Nat
    BY TelemetryAssumption DEF TypeOK
  <2>2. \A s \in scan.read : s \in Steps /\ 2 * s <= halves
    BY DEF Held
  <2>. QED BY <2>1, <2>2 DEF RowsKept, Steps
<1>6. \A s \in new : created[s] \in Times
  BY <1>3, <1>5
<1>7. /\ at' \in [Steps -> Times \cup {NoTime}] /\ ever' \subseteq Steps \X Hours
      /\ patchy' \subseteq Hours
      /\ \A s \in Steps : at'[s] = IF s \in new THEN created[s] ELSE at[s]
      /\ Rows' = Rows \cup new /\ Seen' = Seen \cup new
      /\ \A s \in Rows' : <<s, HourOf(at'[s])>> \in ever'
  BY <1>1, <1>3, <1>6, InsertedRows
<1>8. RollupNeverOvercounts' /\ Rolled' /\ WholeOrGone'
  BY <1>1, <1>2, <1>3, <1>6, InsertedRollups
<1>9. new \in SUBSET Steps /\ Cardinality(new) \in Nat
  BY <1>3, StepSets
<1>10. /\ scan'.pc = "idle" /\ scan'.read = {} /\ scan'.size = 0
       /\ scan' \in [pc : {"idle", "read", "store"}, size : Nat, read : SUBSET Steps]
  BY <1>2 DEF Idle
<1>11. TypeOK'
  <2>1. calls' \in Nat /\ known' \in BOOLEAN /\ excused' \subseteq Steps
    BY <1>1, <1>5, <1>9 DEF TypeOK
  <2>. QED BY <1>2, <1>7, <1>10, <2>1 DEF TypeOK
<1>12. Held'
  <2>1. {up, fresh, again, miscounted}' \subseteq BOOLEAN
    BY <1>1, <1>2 DEF Held
  <2>. QED BY <1>2, <1>7, <1>10, <2>1 DEF Held
<1>13. RowsKept'
  <2>1. \A s \in Seen' : 2 * s - 1 <= halves'
    BY <1>2, <1>3, <1>5, <1>7 DEF RowsKept
  <2>. QED BY <1>2, <1>7, <2>1 DEF RowsKept
<1>14. Passed'
  <2>1. Rows \subseteq Seen
    BY RowsEver
  <2>. QED BY <1>1, <1>2, <1>4, <1>7, <1>10, <2>1 DEF Passed
<1>15. Total'
  <2>. SUFFICES ASSUME ~miscounted, ~again, new \cap Seen = {}
                PROVE  /\ calls' + Cardinality(hook) = Cardinality(Seen')
                       /\ ~known' => hook # {} \/ ever' = {}
    BY <1>1, <1>2 DEF Total
  <2>1. /\ calls + Cardinality(hook) = Cardinality(Seen)
        /\ ~known => hook # {} \/ ever = {}
    BY DEF Total
  <2>2. Cardinality(Seen') = Cardinality(Seen) + Cardinality(new)
    BY <1>7, <1>9, SetTypes, StepUnion
  <2>3. Cardinality(Seen) \in Nat /\ Cardinality(hook) \in Nat /\ calls \in Nat
    BY SetTypes, StepSets DEF TypeOK
  <2>4. ASSUME ~known' PROVE ever' = ever
    <3>1. new = {}
      BY <1>1, <2>4
    <3>2. ever' = ever \cup {<<s, HourOf(created[s])>> : s \in new}
      BY <1>1 DEF Inserted
    <3>. QED BY <3>1, <3>2
  <2>5. known => known'
    BY <1>1
  <2>. QED BY <1>1, <1>9, <2>1, <2>2, <2>3, <2>4, <2>5
<1>16. Abreast'
  <2>1. ASSUME NEW s \in Steps, 2 * (s - 1) >= offset
        PROVE  /\ 2 * s - 1 <= halves => created[s] = now
               /\ s \in Seen' => at'[s] = now
    <3>1. /\ 2 * s - 1 <= halves => created[s] = now
          /\ s \in Seen => at[s] = now
      BY <1>2, <2>1 DEF Abreast, Beyond
    <3>. QED BY <1>3, <1>5, <1>7, <3>1
  <2>. QED BY <1>2, <1>10, <2>1 DEF Abreast, Beyond
<1>17. again' # again => fresh
  <2>. SUFFICES ASSUME ~fresh, NEW s \in new \cap Seen PROVE FALSE
    BY <1>1 DEF Held
  <2>1. at[s] = now /\ s \in Steps /\ s \notin Rows
    BY <1>2, <1>3 DEF Abreast
  <2>2. now # NoTime
    BY DEF TypeOK, Times, NoTime
  <2>. QED BY <2>1, <2>2 DEF Rows
<1>. QED BY <1>8, <1>11, <1>12, <1>13, <1>14, <1>15, <1>16, <1>17

-----------------------------------------------------------------------------
(* The hook.                                                               *)

LEMMA HookInsertKeeps ==
  ASSUME Inv, HookInsert
  PROVE  Inv'
<1>. USE DEF Inv
<1>. DEFINE n == (halves + 1) \div 2
            time == [x \in Steps |-> now]
<1>1. /\ n \in Steps \ Seen /\ Inserted({n}, time) /\ hook' = hook \cup {n}
      /\ UNCHANGED <<now, halves, created, odd, rollup, up, offset, scan, prune, starts, fresh>>
      /\ UNCHANGED <<known, calls, excused, again, miscounted>>
  BY DEF HookInsert, file, daemon
<1>2. halves \in Nat /\ now \in Times /\ now \in Int /\ 2 * n - 1 <= halves
  BY TelemetryAssumption DEF TypeOK, Times
<1>3. Rows \subseteq Seen
  BY RowsEver
<1>. HIDE DEF n
<1>4. {n} \in SUBSET (Steps \ Rows) /\ \A s \in {n} : time[s] = now
  BY <1>1, <1>3
<1>. HIDE DEF time
<1>5. /\ at' \in [Steps -> Times \cup {NoTime}] /\ ever' \subseteq Steps \X Hours
      /\ patchy' \subseteq Hours
      /\ \A s \in Steps : at'[s] = IF s \in {n} THEN time[s] ELSE at[s]
      /\ Rows' = Rows \cup {n} /\ Seen' = Seen \cup {n}
      /\ \A s \in Rows' : <<s, HourOf(at'[s])>> \in ever'
  BY <1>1, <1>2, <1>4, InsertedRows
<1>6. RollupNeverOvercounts' /\ Rolled' /\ WholeOrGone'
  <2>1. prune.pc = "idle" \/ \A s \in {n} : time[s] >= prune.cutoff
    BY <1>2, <1>4, TelemetryAssumption DEF Held
  <2>. QED BY <1>1, <1>2, <1>4, <2>1, InsertedRollups
<1>8. TypeOK'
  BY <1>1, <1>5 DEF TypeOK
<1>9. Held'
  BY <1>1, <1>5 DEF Held
<1>10. RowsKept'
  BY <1>1, <1>2, <1>5 DEF RowsKept
<1>11. Passed'
  BY <1>1, <1>5 DEF Passed
<1>12. Total'
  <2>. SUFFICES ASSUME ~miscounted, ~again
                PROVE  calls + Cardinality(hook') = Cardinality(Seen')
    BY <1>1 DEF Total
  <2>1. calls + Cardinality(hook) = Cardinality(Seen)
    BY DEF Total
  <2>2. Cardinality(hook') = Cardinality(hook) + 1 /\ Cardinality(hook) \in Nat
    BY <1>1, StepSets, FS_AddElement DEF TypeOK, Held
  <2>3. Cardinality(Seen') = Cardinality(Seen) + 1 /\ Cardinality(Seen) \in Nat
    BY <1>1, <1>5, SetTypes, StepSets, FS_AddElement
  <2>. QED BY <2>1, <2>2, <2>3 DEF TypeOK
<1>13. Abreast'
  <2>1. \A s \in Steps : s \in Seen' => (s \in Seen /\ at'[s] = at[s]) \/ at'[s] = now
    BY <1>4, <1>5
  <2>2. ASSUME NEW z, Beyond(z), NEW s \in Steps, 2 * (s - 1) >= z
        PROVE  /\ 2 * s - 1 <= halves => created[s] = now
               /\ s \in Seen' => at'[s] = now
    BY <2>1, <2>2 DEF Beyond
  <2>3. ASSUME scan.pc = "store" /\ ~fresh, NEW s \in scan.read \cap Seen' PROVE at'[s] = now
    BY <2>1, <2>3 DEF Abreast, Held
  <2>4. scan.pc = "read" => Beyond(scan.size)'
    BY <1>1, <2>2 DEF Abreast, Beyond
  <2>5. scan.pc = "store" \/ (up /\ ~fresh) => Beyond(offset)'
    BY <1>1, <2>2 DEF Abreast, Beyond
  <2>. QED BY <1>1, <2>3, <2>4, <2>5 DEF Abreast
<1>. QED BY <1>6, <1>8, <1>9, <1>10, <1>11, <1>12, <1>13

LEMMA HookGone ==
  ASSUME NEW A \in SUBSET Steps, NEW x \in A
  PROVE  Cardinality(A \ {x}) = Cardinality(A) - 1 /\ Cardinality(A) \in Nat
  BY StepSets, FS_RemoveElement

LEMMA HookCountKeeps ==
  ASSUME Inv, NEW n \in Steps, HookCount(n)
  PROVE  Inv'
<1>. USE DEF Inv
<1>1. /\ n \in hook /\ known' = TRUE /\ calls' = calls + 1 /\ hook' = hook \ {n}
      /\ UNCHANGED <<now, halves, created, odd, at, rollup, up, offset, scan, prune, starts, fresh>>
      /\ UNCHANGED <<ever, excused, patchy, again, miscounted>>
  BY DEF HookCount, file, daemon, history
<1>2. TypeOK'
  BY <1>1 DEF TypeOK
<1>3. Held'
  BY <1>1, SetsKept DEF Held
<1>4. Total'
  <2>1. Cardinality(hook') = Cardinality(hook) - 1 /\ Cardinality(hook) \in Nat /\ calls \in Nat
    BY <1>1, HookGone DEF TypeOK
  <2>. QED BY <1>1, <2>1, SetsKept DEF Total
<1>. QED BY <1>1, <1>2, <1>3, <1>4, RollupsKept, StepsKept

LEMMA HookDiesKeeps ==
  ASSUME Inv, NEW n \in Steps, HookDies(n)
  PROVE  Inv'
<1>. USE DEF Inv
<1>1. /\ hook' = hook \ {n} /\ miscounted' = TRUE
      /\ UNCHANGED <<now, halves, created, odd, at, known, calls, rollup, up, offset, scan, prune, starts, fresh>>
      /\ UNCHANGED <<ever, excused, patchy, again>>
  BY DEF HookDies, file, db, daemon
<1>2. TypeOK'
  BY <1>1 DEF TypeOK
<1>3. Held'
  BY <1>1, SetsKept DEF Held
<1>4. Total'
  BY <1>1 DEF Total
<1>. QED BY <1>1, <1>2, <1>3, <1>4, RollupsKept, StepsKept

LEMMA BackfillKeeps ==
  ASSUME Inv, Backfill, UNCHANGED <<at, hook, ever, again>>
  PROVE  /\ calls' \in Nat /\ known' \in BOOLEAN /\ miscounted' \in BOOLEAN
         /\ Total'
<1>. USE DEF Inv
<1>1. CASE UNCHANGED <<known, calls, miscounted>>
  BY <1>1, StepsKept DEF TypeOK, Held
<1>2. CASE /\ known' = (known \/ Rows # {})
           /\ calls' = IF ~known THEN Cardinality(Rows) ELSE calls
           /\ miscounted' = (miscounted \/ (hook # {} /\ ~known))
  <2>1. calls' \in Nat
    BY <1>2, SetTypes, StepSets DEF TypeOK
  <2>2. known' \in BOOLEAN /\ miscounted' \in BOOLEAN
    BY <1>2 DEF TypeOK, Held
  <2>3. Total'
    <3>. SUFFICES ASSUME ~miscounted, ~again, hook = {} \/ known PROVE Total'
      BY <1>2 DEF Total
    <3>1. CASE known
      BY <1>2, <3>1, SetsKept DEF Total
    <3>2. CASE ~known
      <4>1. hook = {} /\ ever = {}
        BY <3>2 DEF Total
      <4>2. Seen = {} /\ Rows = {} /\ Seen' = Seen
        BY <4>1, RowsEver, SetsKept DEF Seen
      <4>3. calls' = 0 /\ Cardinality(hook') = 0 /\ Cardinality(Seen') = 0
        BY <1>2, <3>2, <4>1, <4>2, FS_EmptySet
      <4>. QED BY <4>1, <4>3 DEF Total
    <3>. QED BY <3>1, <3>2
  <2>. QED BY <2>1, <2>2, <2>3
<1>. QED BY <1>1, <1>2 DEF Backfill

LEMMA HookOpensKeeps ==
  ASSUME Inv, HookOpens
  PROVE  Inv'
<1>. USE DEF Inv
<1>1. /\ Backfill
      /\ UNCHANGED <<now, halves, created, odd, at, rollup, up, offset, scan, prune, starts, fresh>>
      /\ UNCHANGED <<hook, ever, excused, patchy, again>>
  BY DEF HookOpens, file, daemon
<1>2. calls' \in Nat /\ known' \in BOOLEAN /\ miscounted' \in BOOLEAN /\ Total'
  BY <1>1, BackfillKeeps
<1>3. TypeOK'
  BY <1>1, <1>2 DEF TypeOK
<1>4. Held'
  BY <1>1, <1>2, SetsKept DEF Held
<1>. QED BY <1>1, <1>2, <1>3, <1>4, RollupsKept, StepsKept

LEMMA SessionStartKeeps ==
  ASSUME Inv, SessionStart
  PROVE  Inv'
<1>. USE DEF Inv
<1>1. /\ known' = TRUE /\ calls' = 0 /\ miscounted' = (miscounted \/ ever # {})
      /\ UNCHANGED <<now, halves, created, odd, at, rollup, up, offset, scan, prune, starts, fresh>>
      /\ UNCHANGED <<hook, ever, excused, patchy, again>>
  BY DEF SessionStart, file, daemon
<1>2. TypeOK'
  BY <1>1 DEF TypeOK
<1>3. Held'
  BY <1>1, SetsKept DEF Held
<1>4. Total'
  <2>. SUFFICES ASSUME ever = {} PROVE Total'
    BY <1>1 DEF Total
  <2>1. Seen = {} /\ hook = {}
    BY DEF Seen, Held
  <2>. QED BY <1>1, <2>1, SetsKept, FS_EmptySet DEF Total
<1>. QED BY <1>1, <1>2, <1>3, <1>4, RollupsKept, StepsKept

-----------------------------------------------------------------------------
(* The prune.                                                              *)

LEMMA PruneBeginKeeps ==
  ASSUME Inv, PruneBegin
  PROVE  Inv'
<1>. USE DEF Inv
<1>1. /\ up /\ prune' = [pc |-> "roll", cutoff |-> now - Retention]
      /\ UNCHANGED <<now, halves, created, odd, at, known, calls, rollup, up, offset, scan, starts, fresh>>
      /\ UNCHANGED <<hook, ever, excused, patchy, again, miscounted>>
  BY DEF PruneBegin, file, db, history
<1>2. now - Retention \in Int
  BY TelemetryAssumption DEF TypeOK, Times
<1>3. TypeOK'
  BY <1>1, <1>2 DEF TypeOK
<1>4. Held'
  BY <1>1, <1>2, SetsKept DEF Held
<1>5. Rolled'
  BY <1>1 DEF Rolled
<1>. QED BY <1>1, <1>3, <1>4, <1>5, RollupsKept, StepsKept

LEMMA RollUpKeeps ==
  ASSUME Inv, RollUp
  PROVE  Inv'
<1>. USE DEF Inv
<1>1. /\ prune.pc = "roll"
      /\ rollup' = [h \in Hours |-> IF Old(h) = {} THEN rollup[h] ELSE Cardinality(Old(h))]
      /\ prune' = [prune EXCEPT !.pc = "delete"]
      /\ UNCHANGED <<now, halves, created, odd, at, known, calls, up, offset, scan, starts, fresh>>
      /\ UNCHANGED <<hook, ever, excused, patchy, again, miscounted>>
  BY DEF RollUp, file, history
<1>2. /\ prune' \in [pc : {"idle", "roll", "delete"}, cutoff : Int]
      /\ prune'.pc = "delete" /\ prune'.cutoff = prune.cutoff
  BY <1>1 DEF Held
<1>3. \A h : Old(h)' = Old(h) /\ Old(h) \subseteq RowsOf(h) /\ RowsOf(h) \subseteq EverOf(h) /\ EverOf(h) \in SUBSET Steps
  BY <1>1, <1>2, SetsKept, SetTypes, RowsEver DEF Old
<1>4. \A h \in Hours : rollup'[h] = IF Old(h) = {} THEN rollup[h] ELSE Cardinality(Old(h))
  BY <1>1
<1>5. \A h : Cardinality(Old(h)) \in 0..MaxSteps /\ Cardinality(Old(h)) <= Cardinality(EverOf(h))
  BY <1>3, StepSets, StepsWithin, TelemetryAssumption
<1>6. TypeOK'
  <2>1. rollup' \in [Hours -> 0..MaxSteps]
    BY <1>1, <1>5 DEF TypeOK
  <2>. QED BY <1>1, <1>2, <2>1 DEF TypeOK
<1>7. Held'
  BY <1>1, <1>2, SetsKept DEF Held
<1>8. RollupNeverOvercounts'
  BY <1>1, <1>4, <1>5, SetsKept DEF RollupNeverOvercounts
<1>9. Rolled'
  BY <1>1, <1>3, <1>4 DEF Rolled
<1>10. WholeOrGone'
  <2>1. ASSUME NEW h \in Hours, HourWhole(h) PROVE HourWhole(h)'
    BY <1>1, <1>3, <1>4, <2>1, SetsKept DEF HourWhole
  <2>2. ASSUME NEW h \in Hours, HourGone(h) PROVE HourGone(h)'
    BY <1>1, <1>3, <1>4, <2>2, SetsKept DEF HourGone
  <2>. QED BY <1>1, <2>1, <2>2 DEF WholeOrGone
<1>. QED BY <1>1, <1>6, <1>7, <1>8, <1>9, <1>10, StepsKept

LEMMA RollUpRefusedKeeps ==
  ASSUME Inv, RollUpRefused
  PROVE  Inv'
<1>. USE DEF Inv
<1>1. /\ prune.pc = "roll"
      /\ prune' = [prune EXCEPT !.pc = "delete"]
      /\ patchy' = patchy \cup {h \in Hours : Old(h) # {}}
      /\ UNCHANGED <<now, halves, created, odd, at, known, calls, rollup, up, offset, scan, starts, fresh>>
      /\ UNCHANGED <<hook, ever, excused, again, miscounted>>
  BY DEF RollUpRefused, file, db
<1>2. /\ prune' \in [pc : {"idle", "roll", "delete"}, cutoff : Int]
      /\ prune'.pc = "delete" /\ prune'.cutoff = prune.cutoff
  BY <1>1 DEF Held
<1>3. TypeOK'
  BY <1>1, <1>2 DEF TypeOK
<1>4. Held'
  BY <1>1, <1>2, SetsKept DEF Held
<1>5. Rolled'
  BY <1>1, <1>2, SetsKept DEF Rolled, Old
<1>6. WholeOrGone'
  BY <1>1, SetsKept DEF WholeOrGone, HourWhole, HourGone
<1>. QED BY <1>1, <1>3, <1>4, <1>5, <1>6, RollupsKept, StepsKept

LEMMA PruneDeleteKeeps ==
  ASSUME Inv, PruneDelete
  PROVE  Inv'
<1>. USE DEF Inv
<1>1. /\ prune.pc = "delete"
      /\ at' = [s \in Steps |-> IF at[s] < prune.cutoff THEN NoTime ELSE at[s]]
      /\ patchy' = patchy \cup Split
      /\ prune' = NoPrune
      /\ UNCHANGED <<now, halves, created, odd, known, calls, rollup, up, offset, scan, starts, fresh>>
      /\ UNCHANGED <<hook, ever, excused, again, miscounted>>
  BY DEF PruneDelete, file
<1>2. /\ prune' \in [pc : {"idle", "roll", "delete"}, cutoff : Int]
      /\ prune'.pc = "idle" /\ prune'.cutoff = 0
  BY <1>1 DEF NoPrune
<1>3. \A s \in Steps : at'[s] = IF at[s] < prune.cutoff THEN NoTime ELSE at[s]
  BY <1>1
<1>4. Split \subseteq Hours
  BY DEF Split
<1>5. /\ \A s \in Steps : s \in Rows' <=> s \in Rows /\ ~(at[s] < prune.cutoff)
      /\ \A s \in Rows' : at'[s] = at[s]
  BY <1>3 DEF Rows
<1>6. \A h : RowsOf(h)' = RowsOf(h) \ Old(h)
  <2>. SUFFICES ASSUME NEW h, NEW s PROVE s \in RowsOf(h)' <=> s \in RowsOf(h) \ Old(h)
    OBVIOUS
  <2>1. Rows \subseteq Steps /\ Rows' \subseteq Steps
    BY DEF Rows
  <2>2. s \in RowsOf(h)' <=> s \in Rows' /\ HourOf(at'[s]) = h
    BY DEF RowsOf
  <2>3. s \in RowsOf(h) \ Old(h) <=> s \in Rows /\ ~(at[s] < prune.cutoff) /\ HourOf(at[s]) = h
    BY DEF RowsOf, Old
  <2>. QED BY <1>5, <2>1, <2>2, <2>3
<1>7. now \in Nat /\ prune.cutoff = now - Retention /\ prune.cutoff <= now /\ Retention \in Nat
  BY <1>1, TelemetryAssumption DEF TypeOK, Times, Held
<1>8. TypeOK'
  <2>1. at' \in [Steps -> Times \cup {NoTime}]
    BY <1>1 DEF TypeOK
  <2>2. patchy' \subseteq Hours
    BY <1>1, <1>4 DEF TypeOK
  <2>. QED BY <1>1, <1>2, <2>1, <2>2 DEF TypeOK
<1>9. Held'
  BY <1>1, <1>2, SetsKept DEF Held
<1>10. RowsKept'
  <2>1. ASSUME NEW s \in Rows' PROVE <<s, HourOf(at'[s])>> \in ever'
    <3>1. s \in Rows /\ at'[s] = at[s]
      BY <1>5 DEF Rows
    <3>. QED BY <1>1, <3>1 DEF RowsKept
  <2>. QED BY <1>1, <2>1, SetsKept DEF RowsKept
<1>11. Rolled'
  BY <1>2 DEF Rolled
<1>12. WholeOrGone'
  <2>. SUFFICES ASSUME NEW h \in Hours, h \notin patchy, h \notin Split
                PROVE  HourWhole(h)' \/ HourGone(h)'
    BY <1>1 DEF WholeOrGone
  <2>0. EverOf(h)' = EverOf(h)
    BY <1>1, SetsKept
  <2>1. CASE HourGone(h)
    <3>1. RowsOf(h)' = {}
      BY <1>6, <2>1 DEF HourGone
    <3>. QED BY <1>1, <2>0, <2>1, <3>1 DEF HourGone
  <2>2. CASE HourWhole(h) /\ Old(h) = {}
    BY <1>1, <1>6, <2>0, <2>2 DEF HourWhole
  <2>3. CASE HourWhole(h) /\ Old(h) # {}
    <3>1. PICK x \in RowsOf(h) : at[x] < prune.cutoff
      BY <2>3 DEF Old
    <3>2. prune.cutoff \in Int /\ \A s \in RowsOf(h) : at[s] \in Times /\ at[s] \in Int /\ HourOf(at[s]) = h
      BY <1>7, SetTypes DEF RowsOf, Times
    <3>3. h * HourTicks \in Nat /\ (h + 1) * HourTicks \in Nat
      BY <3>1, <3>2, HourSide
    <3>4. h * HourTicks < prune.cutoff
      BY <3>1, <3>2, <3>3, HourSide
    <3>5. (h + 1) * HourTicks <= prune.cutoff
      BY <3>2, <3>3, <3>4 DEF Split
    <3>6. \A s \in RowsOf(h) : at[s] < prune.cutoff
      BY <3>2, <3>5, HourSide
    <3>7. Old(h) = RowsOf(h)
      BY <3>6 DEF Old
    <3>8. rollup[h] = Cardinality(EverOf(h))
      BY <1>1, <2>3, <3>7 DEF Rolled, HourWhole
    <3>9. RowsOf(h)' = {}
      BY <1>6, <3>7
    <3>. QED BY <1>1, <1>7, <2>0, <3>5, <3>8, <3>9 DEF HourGone
  <2>. QED BY <2>1, <2>2, <2>3 DEF WholeOrGone
<1>13. Abreast'
  <2>1. \A s \in Steps : at[s] = now => at'[s] = now
    BY <1>3, <1>7
  <2>2. scan.pc = "read" => Beyond(scan.size)'
    BY <1>1, <2>1, SetsKept DEF Abreast, Beyond
  <2>3. scan.pc = "store" \/ (up /\ ~fresh) => Beyond(offset)'
    BY <1>1, <2>1, SetsKept DEF Abreast, Beyond
  <2>4. scan.read \subseteq Steps
    BY DEF Held
  <2>. QED BY <1>1, <2>1, <2>2, <2>3, <2>4, SetsKept DEF Abreast
<1>. QED BY <1>1, <1>8, <1>9, <1>10, <1>11, <1>12, <1>13, RollupsKept, StepsKept

LEMMA DeleteRefusedKeeps ==
  ASSUME Inv, DeleteRefused
  PROVE  Inv'
<1>. USE DEF Inv
<1>1. /\ prune' = NoPrune
      /\ UNCHANGED <<now, halves, created, odd, at, known, calls, rollup, up, offset, scan, starts, fresh>>
      /\ UNCHANGED <<hook, ever, excused, patchy, again, miscounted>>
  BY DEF DeleteRefused, file, db, history
<1>2. prune' \in [pc : {"idle", "roll", "delete"}, cutoff : Int] /\ prune'.pc = "idle" /\ prune'.cutoff = 0
  BY <1>1 DEF NoPrune
<1>3. TypeOK'
  BY <1>1, <1>2 DEF TypeOK
<1>4. Held'
  BY <1>1, <1>2, SetsKept DEF Held
<1>5. Rolled'
  BY <1>2 DEF Rolled
<1>. QED BY <1>1, <1>3, <1>4, <1>5, RollupsKept, StepsKept

-----------------------------------------------------------------------------
(* The daemon ends and starts.                                             *)

LEMMA CrashKeeps ==
  ASSUME Inv, Crash
  PROVE  Inv'
<1>. USE DEF Inv
<1>1. /\ up' = FALSE /\ fresh' = FALSE /\ offset' = 0 /\ scan' = Idle /\ prune' = NoPrune
      /\ UNCHANGED <<now, halves, created, odd, at, known, calls, rollup, starts>>
      /\ UNCHANGED <<hook, ever, excused, patchy, again, miscounted>>
  BY DEF Crash, file, db, history
<1>2. /\ scan'.pc = "idle" /\ scan'.read = {} /\ prune'.pc = "idle" /\ prune'.cutoff = 0
      /\ scan' \in [pc : {"idle", "read", "store"}, size : Nat, read : SUBSET Steps]
      /\ prune' \in [pc : {"idle", "roll", "delete"}, cutoff : Int]
  BY <1>1 DEF Idle, NoPrune
<1>3. TypeOK'
  BY <1>1, <1>2 DEF TypeOK
<1>4. Held'
  BY <1>1, <1>2, SetsKept DEF Held
<1>5. Passed'
  BY <1>1 DEF Passed, Steps
<1>6. Rolled' /\ Abreast'
  BY <1>1, <1>2 DEF Rolled, Abreast
<1>. QED BY <1>1, <1>3, <1>4, <1>5, <1>6, RollupsKept, StepsKept

LEMMA StartKeeps ==
  ASSUME Inv, Start
  PROVE  Inv'
<1>. USE DEF Inv
<1>1. /\ ~up /\ up' = TRUE /\ fresh' = TRUE /\ Backfill
      /\ UNCHANGED <<now, halves, created, odd, at, rollup, offset, scan, prune>>
      /\ UNCHANGED <<hook, ever, excused, patchy, again>>
  BY DEF Start, file
<1>2. calls' \in Nat /\ known' \in BOOLEAN /\ miscounted' \in BOOLEAN /\ Total'
  BY <1>1, BackfillKeeps
<1>3. scan.pc = "idle" /\ prune.pc = "idle"
  BY <1>1 DEF Held
<1>4. TypeOK'
  BY <1>1, <1>2 DEF TypeOK
<1>5. Held'
  BY <1>1, <1>2, <1>3, SetsKept DEF Held
<1>7. Abreast'
  BY <1>1, <1>3 DEF Abreast
<1>. QED BY <1>1, <1>2, <1>4, <1>5, <1>7, RollupsKept, StepsKept

-----------------------------------------------------------------------------
(* The invariant, and the theorems.                                        *)

LEMMA InitInv == Init => Inv
<1>. SUFFICES ASSUME Init PROVE Inv
  OBVIOUS
<1>1. /\ Rows = {} /\ Seen = {} /\ ever = {}
      /\ \A h : RowsOf(h) = {} /\ EverOf(h) = {} /\ Old(h) = {}
  BY DEF Init, Rows, Seen, RowsOf, EverOf, Old
<1>2. MaxSteps \in Nat /\ MaxTime \in Nat
  BY TelemetryAssumption
<1>3. Cardinality({}) = 0
  BY FS_EmptySet
<1>4. /\ scan.pc = "idle" /\ scan.read = {} /\ prune.pc = "idle" /\ prune.cutoff = 0
      /\ scan \in [pc : {"idle", "read", "store"}, size : Nat, read : SUBSET Steps]
      /\ prune \in [pc : {"idle", "roll", "delete"}, cutoff : Int]
  BY DEF Init, Idle, NoPrune
<1>5. 0 \in Times /\ 0 \in 0..MaxSteps /\ 0 \in 0..(2 * MaxSteps)
  BY <1>2 DEF Times
<1>6. TypeOK
  <2>1. /\ now \in Times /\ halves \in 0..(2 * MaxSteps)
        /\ created \in [Steps -> Times \cup {NoTime}] /\ at \in [Steps -> Times \cup {NoTime}]
        /\ rollup \in [Hours -> 0..MaxSteps]
    BY <1>5 DEF Init
  <2>2. calls \in Nat /\ offset \in 0..halves
    BY DEF Init
  <2>3. known \in BOOLEAN /\ hook \subseteq Steps /\ odd \subseteq Steps
    BY Zenon DEF Init
  <2>. QED BY <1>4, <2>1, <2>2, <2>3 DEF Init, TypeOK
<1>7. Held
  BY <1>4 DEF Init, Held
<1>8. RowsKept
  BY <1>1 DEF Init, RowsKept, Steps
<1>9. Passed
  BY DEF Init, Passed, Steps
<1>10. RollupNeverOvercounts /\ Rolled /\ WholeOrGone
  BY <1>1, <1>3 DEF Init, RollupNeverOvercounts, Rolled, WholeOrGone, HourWhole, NoPrune
<1>11. Total
  BY <1>1, <1>3 DEF Init, Total
<1>12. Abreast
  BY DEF Init, Abreast, Idle
<1>. QED BY <1>6, <1>7, <1>8, <1>9, <1>10, <1>11, <1>12 DEF Inv

LEMMA StutterKeeps == Inv /\ UNCHANGED vars => Inv'
<1>. SUFFICES ASSUME Inv, UNCHANGED vars PROVE Inv'
  OBVIOUS
<1>1. /\ UNCHANGED <<now, halves, created, odd, at, known, calls, rollup, up, offset, scan, prune, starts, fresh>>
      /\ UNCHANGED <<hook, ever, excused, patchy, again, miscounted>>
  BY DEF vars, file, db, daemon, history
<1>2. TypeOK' /\ Held'
  BY <1>1, SetsKept DEF Inv, TypeOK, Held
<1>. QED BY <1>1, <1>2, RollupsKept, StepsKept DEF Inv

LEMMA NextInv ==
  ASSUME Inv, [Next]_vars
  PROVE  Inv' /\ (again' # again => fresh)
<1>1. CASE ScanStore
  BY <1>1, ScanStoreKeeps
<1>2. CASE UNCHANGED vars
  BY <1>2, StutterKeeps DEF vars, history
<1>3. CASE Tick \/ AgentWrites \/ ScanStat \/ ScanRead
  <2>1. Inv'
    BY <1>3, TickKeeps, AgentWritesKeeps, ScanStatKeeps, ScanReadKeeps
  <2>2. again' = again
    BY <1>3 DEF Tick, AgentWrites, ScanStat, ScanRead, history
  <2>. QED BY <2>1, <2>2
<1>4. CASE \/ HookOpens \/ HookInsert \/ SessionStart
            \/ \E s \in Steps : HookCount(s) \/ HookDies(s)
  <2>1. Inv'
    BY <1>4, HookOpensKeeps, HookInsertKeeps, HookCountKeeps, HookDiesKeeps, SessionStartKeeps
  <2>2. again' = again
    BY <1>4 DEF HookOpens, HookInsert, HookCount, HookDies, SessionStart, history
  <2>. QED BY <2>1, <2>2
<1>5. CASE PruneBegin \/ RollUp \/ RollUpRefused \/ PruneDelete \/ DeleteRefused
  <2>1. Inv'
    BY <1>5, PruneBeginKeeps, RollUpKeeps, RollUpRefusedKeeps, PruneDeleteKeeps, DeleteRefusedKeeps
  <2>2. again' = again
    BY <1>5 DEF PruneBegin, RollUp, RollUpRefused, PruneDelete, DeleteRefused, history
  <2>. QED BY <2>1, <2>2
<1>6. CASE Crash \/ Start
  <2>1. Inv'
    BY <1>6, CrashKeeps, StartKeeps
  <2>2. again' = again
    BY <1>6 DEF Crash, Start, history
  <2>. QED BY <2>1, <2>2
<1>. QED BY <1>1, <1>2, <1>3, <1>4, <1>5, <1>6 DEF Next

LEMMA Invariance == Spec => []Inv
<1>1. Inv /\ [Next]_vars => Inv'
  BY NextInv
<1>. QED BY InitInv, <1>1, PTL DEF Spec

LEMMA EmptyHours == Inv => GoneHoursAreRolledUp
<1>. SUFFICES ASSUME Inv, NEW h \in Hours \ patchy, RowsOf(h) = {}
              PROVE  rollup[h] = Cardinality(EverOf(h))
  BY DEF GoneHoursAreRolledUp
<1>1. CASE HourWhole(h)
  BY <1>1, FS_EmptySet DEF HourWhole
<1>2. CASE HourGone(h)
  BY <1>2 DEF HourGone
<1>. QED BY <1>1, <1>2 DEF Inv, WholeOrGone

(* However the prune, its refusals and the daemon's ends interleave with   *)
(* the rows of the scan and of the hook, the rollup of an hour never       *)
(* counts more steps than the hour had, and counts all of them once its    *)
(* rows are deleted, unless the hour was split, late or not rolled up.     *)
THEOREM RollupSafe == Spec => []RollupOK
<1>1. Inv => RollupOK
  BY EmptyHours DEF Inv, RollupOK
<1>. QED BY Invariance, <1>1, PTL

(* The scan moves on only past steps that have had their row, which it has *)
(* cut in half, which it read together with a field of another type, or    *)
(* which the database refused.                                             *)
THEOREM PassedSafe == Spec => []PassedStepsAreSeen
<1>1. Inv => PassedStepsAreSeen
  <2>. SUFFICES ASSUME Inv, scan.pc # "store", NEW s \in Steps, 2 * s <= offset
                PROVE  s \in Seen \cup excused
    BY DEF PassedStepsAreSeen
  <2>1. 2 * s - 1 <= offset
    BY DEF Inv, TypeOK, Steps
  <2>. QED BY <2>1 DEF Inv, Passed
<1>. QED BY Invariance, <1>1, PTL

(* The total that the hook, the scan and the backfill of a new process all *)
(* write is the number of steps that ever had a row, however many hooks    *)
(* run at a time, as long as none of them dies half-way, no backfill falls *)
(* between the first rows and their counts, the session is not started     *)
(* again and no pruned step comes back.                                    *)
THEOREM CountSafe == Spec => []EachStepCountsOnce
<1>1. Inv => EachStepCountsOnce
  BY FS_EmptySet DEF Inv, Total, EachStepCountsOnce, TypeOK
<1>. QED BY Invariance, <1>1, PTL

(* A daemon that has finished its first scan never brings back a step      *)
(* whose row was pruned.                                                   *)
THEOREM RecountSafe == Spec => OnlyFirstScanRecounts
<1>1. Inv /\ [Next]_vars => [again' # again => fresh]_vars
  BY NextInv
<1>. QED BY Invariance, <1>1, PTL DEF Spec, OnlyFirstScanRecounts
==============================================================================
