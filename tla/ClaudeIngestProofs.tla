------------------------- MODULE ClaudeIngestProofs -------------------------
(***************************************************************************)
(* Theorems about ClaudeIngest, for any files, messages, lines, batches,   *)
(* limits and numbers of writes, failures and replacements.                *)
(***************************************************************************)
EXTENDS ClaudeIngest, FiniteSetTheorems, SequenceTheorems, WellFoundedInduction, TLAPS

(* Upto and RowsOf as functions of the lines of a file.                    *)
Bytes(s, n) == 2 * n + (LongLen - 2) * Cardinality({m \in 1..n : s[m] = Long})
UsageIn(s) == {s[n] : n \in 1..Len(s)} \cap Row

(* A file grows at its end.                                                *)
Extended(s, t) == Len(s) <= Len(t) /\ \A n \in 1..Len(s) : t[n] = s[n]

(* An offset that follows a line, and the usage before it being in C.      *)
Clean(s, offset) == \E k \in 0..Len(s) : offset = Bytes(s, k)
Settled(s, offset, C) ==
  \A n \in 1..Len(s) : Bytes(s, n) <= offset /\ s[n] \in Row => s[n] \in C

Tally == {r \in Row : Counted(r)}
Scanning == pc \in {"read", "flush", "lastflush", "save"}

(* Every file has been made, and every line written.                       *)
Disk ==
  /\ \A f \in Files : inode[f] < nextInode /\ whole[f] < nextInode /\ (f \in todo => inode[f] # 0)
  /\ \A i \in Inodes : IF i < nextInode
                       THEN Len(lines[i]) <= writes /\ (part[i] # NoLine => Len(lines[i]) < writes)
                       ELSE lines[i] = <<>> /\ part[i] = NoLine

(* What a scan holds.                                                      *)
Held ==
  /\ Scanning => scan.file \in Files /\ scan.inode \in Inodes /\ scan.inode < nextInode
  /\ pc = "save" => scan.batch = {}
  /\ \A r \in scan.batch : Scanning /\ r \in UsageIn(lines[scan.inode])

(* A cursor that counts one file stands behind a line of it, and what is   *)
(* before it has been counted; a scan that goes on from such a cursor has  *)
(* the rest in its batch.                                                  *)
CursorsSettled ==
  \A f \in Files : cursors[f] # <<>> /\ whole[f] # 0 =>
    /\ Clean(lines[whole[f]], cursors[f].offset)
    /\ Settled(lines[whole[f]], cursors[f].offset, Tally)
ScanSettled ==
  Scanning /\ (scan.from = 0 \/ whole[scan.file] = scan.inode) =>
    /\ Clean(lines[scan.inode], scan.committed)
    /\ Settled(lines[scan.inode], scan.committed, Tally \cup scan.batch)

(* What the last prune has left, if it was carried out, and what came in   *)
(* since.                                                                  *)
Pruned ==
  /\ lastPrune <= now /\ polled <= now
  /\ refusedAt = lastPrune \/ \A m \in Messages : rows[m] > 0 =>
       StampOf[m] >= lastPrune - Retention \/ storedAt[m] >= lastPrune
  /\ polled = now /\ refusedAt <= now - PruneEvery =>
       \A m \in Messages : rows[m] > 0 =>
         StampOf[m] >= now - Retention - PruneEvery \/ storedAt[m] > now - PruneEvery

Inv ==
  /\ TypeOK /\ Disk /\ Held /\ CursorsSettled /\ ScanSettled /\ OnlyWholeLines /\ Pruned

-----------------------------------------------------------------------------
(* Lines and bytes.                                                        *)

LEMMA Numbers ==
  /\ {MaxOutput, LongLen, PollLimit, BatchRows, Retention, PruneEvery, MaxInode} \subseteq Nat
  /\ {MaxWrites, MaxFaults, MaxTime} \subseteq Nat
  /\ LongLen >= 3 /\ PruneEvery > 0
  BY IngestAssumption

LEMMA TimesGrow == ASSUME NEW a \in Nat, NEW b \in Nat, NEW k \in Nat, a <= b PROVE k * a <= k * b
  OBVIOUS

LEMMA LongLines ==
  ASSUME NEW s, NEW n \in Nat
  PROVE  LET S == {m \in 1..n : s[m] = Long} IN
         IsFiniteSet(S) /\ Cardinality(S) \in Nat /\ Cardinality(S) <= n
<1>. DEFINE S == {m \in 1..n : s[m] = Long}
<1>1. IsFiniteSet(1..n) /\ Cardinality(1..n) = n
  BY FS_Interval
<1>2. IsFiniteSet(S) /\ Cardinality(S) <= n
  BY <1>1, FS_Subset
<1>. QED BY <1>2, FS_CardinalityType

LEMMA BytesBounds ==
  ASSUME NEW s, NEW n \in Nat
  PROVE  Bytes(s, n) \in Nat /\ 2 * n <= Bytes(s, n) /\ Bytes(s, n) <= LongLen * n
<1>. DEFINE c == Cardinality({m \in 1..n : s[m] = Long})
            k == LongLen - 2
<1>1. c \in Nat /\ c <= n
  BY LongLines
<1>2. k \in Nat /\ LongLen = k + 2
  BY Numbers
<1>3. Bytes(s, n) = 2 * n + k * c
  BY DEF Bytes
<1>. HIDE DEF c, k
<1>4. k * c \in Nat /\ k * c <= k * n
  BY <1>1, <1>2, TimesGrow
<1>5. LongLen * n = k * n + 2 * n
  BY <1>2
<1>6. k * n \in Nat
  BY <1>2
<1>. QED BY <1>3, <1>4, <1>5, <1>6

LEMMA BytesGrow ==
  ASSUME NEW s, NEW m \in Nat, NEW n \in Nat, m <= n
  PROVE  Bytes(s, m) + 2 * (n - m) <= Bytes(s, n)
<1>. DEFINE L(x) == {y \in 1..x : s[y] = Long}
            k == LongLen - 2
<1>1. IsFiniteSet(L(n)) /\ Cardinality(L(n)) \in Nat /\ Cardinality(L(m)) \in Nat
  BY LongLines
<1>2. L(m) \subseteq L(n)
  OBVIOUS
<1>3. Cardinality(L(m)) <= Cardinality(L(n))
  BY <1>1, <1>2, FS_Subset
<1>4. Bytes(s, m) = 2 * m + k * Cardinality(L(m)) /\ Bytes(s, n) = 2 * n + k * Cardinality(L(n))
  BY DEF Bytes
<1>5. k \in Nat
  BY Numbers
<1>. HIDE DEF L, k
<1>6. /\ k * Cardinality(L(m)) <= k * Cardinality(L(n))
      /\ k * Cardinality(L(m)) \in Nat /\ k * Cardinality(L(n)) \in Nat
  BY <1>1, <1>3, <1>5, TimesGrow
<1>. QED BY <1>4, <1>6

LEMMA BytesSame ==
  ASSUME NEW s, NEW t, NEW n \in Nat, \A m \in 1..n : t[m] = s[m]
  PROVE  Bytes(t, n) = Bytes(s, n)
<1>1. {m \in 1..n : t[m] = Long} = {m \in 1..n : s[m] = Long}
  OBVIOUS
<1>. QED BY <1>1 DEF Bytes

LEMMA NoBytes == ASSUME NEW s PROVE Bytes(s, 0) = 0
<1>1. {m \in 1..0 : s[m] = Long} = {}
  OBVIOUS
<1>. QED BY <1>1, FS_EmptySet, Numbers DEF Bytes

(* Before an offset that follows a line there are only whole lines.        *)
LEMMA LinesBefore ==
  ASSUME NEW s, NEW k \in Nat, NEW n \in Nat \ {0}
  PROVE  /\ Bytes(s, n) <= Bytes(s, k) <=> n <= k
         /\ Bytes(s, n - 1) <= Bytes(s, k) /\ Bytes(s, k) < Bytes(s, n) => k = n - 1
<1>1. /\ Bytes(s, n) \in Nat /\ Bytes(s, k) \in Nat /\ Bytes(s, n - 1) \in Nat
      /\ k + 1 \in Nat /\ n - 1 \in Nat
  BY BytesBounds
<1>2. n <= k => Bytes(s, n) <= Bytes(s, k)
  BY <1>1, BytesGrow
<1>3. k < n => Bytes(s, k) + 2 * (n - k) <= Bytes(s, n)
  BY <1>1, BytesGrow
<1>4. k < n - 1 => Bytes(s, k) + 2 * (n - 1 - k) <= Bytes(s, n - 1)
  BY <1>1, BytesGrow
<1>. QED BY <1>1, <1>2, <1>3, <1>4

(* A line that is added comes after every offset there was.                *)
LEMMA SettledGrows ==
  ASSUME NEW s, NEW t, Len(s) \in Nat, Len(t) \in Nat, Extended(s, t),
         NEW offset, Clean(s, offset), NEW C, NEW D, Settled(s, offset, C),
         \A n \in 1..Len(s) : s[n] \in Row /\ s[n] \in C => s[n] \in D
  PROVE  Clean(t, offset) /\ Settled(t, offset, D)
<1>1. PICK k \in 0..Len(s) : offset = Bytes(s, k)
  BY DEF Clean
<1>2. offset = Bytes(t, k) /\ k \in 0..Len(t)
  BY <1>1, BytesSame DEF Extended
<1>3. ASSUME NEW n \in 1..Len(t), Bytes(t, n) <= offset, t[n] \in Row PROVE t[n] \in D
  <2>1. n <= k
    BY <1>2, <1>3, LinesBefore
  <2>2. n \in 1..Len(s) /\ t[n] = s[n]
    BY <1>1, <2>1 DEF Extended
  <2>3. Bytes(s, n) <= offset
    BY <1>1, <2>1, <2>2, LinesBefore
  <2>. QED BY <1>3, <2>2, <2>3 DEF Settled
<1>. QED BY <1>2, <1>3 DEF Clean, Settled

LEMMA AppendExtends ==
  ASSUME NEW s \in Seq(Line), NEW l \in Line
  PROVE  /\ Append(s, l) \in Seq(Line) /\ Len(Append(s, l)) = Len(s) + 1
         /\ Extended(s, Append(s, l))
<1>1. /\ Append(s, l) \in Seq(Line) /\ Len(Append(s, l)) = Len(s) + 1
      /\ \A n \in 1..Len(s) : Append(s, l)[n] = s[n]
  BY AppendProperties
<1>2. Len(s) \in Nat
  BY LenProperties
<1>. QED BY <1>1, <1>2 DEF Extended

LEMMA UsageGrows ==
  ASSUME NEW s, NEW t, Len(s) \in Nat, Len(t) \in Nat, Extended(s, t)
  PROVE  UsageIn(s) \subseteq UsageIn(t)
  BY DEF Extended, UsageIn

LEMMA InTerms ==
  /\ \A i, n : Upto(i, n) = Bytes(lines[i], n)
  /\ \A i : RowsOf(i) = UsageIn(lines[i])
  BY DEF Upto, Bytes, RowsOf, UsageIn

-----------------------------------------------------------------------------
(* The parts of the invariant that a step leaves alone.                    *)

LEMMA Types ==
  ASSUME TypeOK
  PROVE  /\ \A i \in Inodes : lines[i] \in Seq(Line) /\ Len(lines[i]) \in Nat
         /\ nextInode \in Nat /\ writes \in Nat /\ now \in Nat /\ lastPrune \in Int /\ polled \in Nat
         /\ Inodes \subseteq Nat \ {0}
         /\ \A f \in Files : whole[f] \in Nat /\ inode[f] \in Nat
         /\ \A f \in Files : whole[f] # 0 => whole[f] \in Inodes
         /\ \A f \in Files : inode[f] # 0 => inode[f] \in Inodes
         /\ \A m \in Messages : rows[m] \in Nat /\ storedAt[m] \in Nat
<1>1. Inodes \subseteq Nat \ {0} /\ Inodes = 1..MaxInode /\ MaxInode \in Nat
  BY Numbers DEF Inodes
<1>2. \A i \in Inodes : lines[i] \in Seq(Line) /\ Len(lines[i]) \in Nat
  BY LenProperties DEF TypeOK
<1>3. /\ nextInode \in Nat /\ writes \in Nat /\ now \in Nat /\ lastPrune \in Int /\ polled \in Nat
      /\ \A f \in Files : whole[f] \in 0..MaxInode /\ inode[f] \in 0..MaxInode
  <2>1. nextInode \in Nat /\ writes \in Nat /\ now \in Nat /\ lastPrune \in Int /\ polled \in Nat
    BY Numbers DEF TypeOK
  <2>2. \A f \in Files : whole[f] \in 0..MaxInode /\ inode[f] \in 0..MaxInode
    BY DEF TypeOK
  <2>. QED BY <2>1, <2>2
<1>4. \A m \in Messages : rows[m] \in Nat /\ storedAt[m] \in Nat
  <2>1. \A m \in Messages : rows[m] \in 0..MaxOutput /\ storedAt[m] \in 0..MaxTime
    BY DEF TypeOK
  <2>. QED BY <2>1, Numbers
<1>. QED BY <1>1, <1>2, <1>3, <1>4

LEMMA RefusedType == TypeOK => refusedAt \in Int
  BY Numbers DEF TypeOK

LEMMA SettledMore ==
  ASSUME NEW s, NEW offset, NEW C, NEW D, C \subseteq D, Settled(s, offset, C)
  PROVE  Settled(s, offset, D)
  BY DEF Settled

LEMMA TallyKept == UNCHANGED <<rows, now>> => Tally' = Tally
  BY DEF Tally, Counted, Expired

LEMMA PartsKept ==
  /\ Disk /\ UNCHANGED <<inode, whole, nextInode, lines, part, writes>> /\ todo' \subseteq todo => Disk'
  /\ Held /\ UNCHANGED <<pc, scan, lines, nextInode>> => Held'
  /\ OnlyWholeLines /\ UNCHANGED <<rows, lines>> => OnlyWholeLines'
  /\ Pruned /\ UNCHANGED <<lastPrune, now, polled, refusedAt, rows, storedAt>> => Pruned'
<1>1. Disk /\ UNCHANGED <<inode, whole, nextInode, lines, part, writes>> /\ todo' \subseteq todo => Disk'
  BY DEF Disk
<1>2. Held /\ UNCHANGED <<pc, scan, lines, nextInode>> => Held'
  BY DEF Held, Scanning
<1>3. OnlyWholeLines /\ UNCHANGED <<rows, lines>> => OnlyWholeLines'
  BY DEF OnlyWholeLines, RowsOf
<1>4. Pruned /\ UNCHANGED <<lastPrune, now, polled, refusedAt, rows, storedAt>> => Pruned'
  BY DEF Pruned
<1>. QED BY <1>1, <1>2, <1>3, <1>4

LEMMA CursorsKept ==
  ASSUME CursorsSettled, Tally \subseteq Tally', UNCHANGED <<cursors, whole, lines>>
  PROVE  CursorsSettled'
<1>. SUFFICES ASSUME NEW f \in Files, cursors[f] # <<>>, whole[f] # 0
              PROVE  /\ Clean(lines[whole[f]], cursors[f].offset)
                     /\ Settled(lines[whole[f]], cursors[f].offset, Tally')
  BY DEF CursorsSettled
<1>1. Clean(lines[whole[f]], cursors[f].offset) /\ Settled(lines[whole[f]], cursors[f].offset, Tally)
  BY DEF CursorsSettled
<1>. QED BY <1>1, SettledMore

LEMMA ScanKept ==
  ASSUME ScanSettled, Tally \subseteq Tally', UNCHANGED <<pc, scan, whole, lines>>
  PROVE  ScanSettled'
<1>. SUFFICES ASSUME Scanning, scan.from = 0 \/ whole[scan.file] = scan.inode
              PROVE  /\ Clean(lines[scan.inode], scan.committed)
                     /\ Settled(lines[scan.inode], scan.committed, Tally' \cup scan.batch)
  BY DEF ScanSettled, Scanning
<1>1. /\ Clean(lines[scan.inode], scan.committed)
      /\ Settled(lines[scan.inode], scan.committed, Tally \cup scan.batch)
  BY DEF ScanSettled
<1>. QED BY <1>1, SettledMore

-----------------------------------------------------------------------------
(* The agents.                                                             *)

LEMMA FilesGrow ==
  ASSUME Inv, lines' \in [Inodes -> Seq(Line)], nextInode' \in Nat, nextInode <= nextInode',
         \A i \in Inodes : i < nextInode => Extended(lines[i], lines'[i]),
         UNCHANGED <<rows, cursors, pc, todo, scan, lastPrune, now, faults, whole, storedAt, polled, refusedAt>>
  PROVE  Held' /\ CursorsSettled' /\ ScanSettled' /\ OnlyWholeLines' /\ Pruned'
<1>. USE DEF Inv
<1>1. \A i \in Inodes : Len(lines[i]) \in Nat /\ Len(lines'[i]) \in Nat
  BY Types, LenProperties
<1>2. \A i \in Inodes : i < nextInode => UsageIn(lines[i]) \subseteq UsageIn(lines'[i])
  BY <1>1, UsageGrows
<1>3. Tally' = Tally
  BY TallyKept
<1>4. Held'
  BY <1>2, Types DEF Held, Scanning
<1>5. CursorsSettled'
  <2>. SUFFICES ASSUME NEW f \in Files, cursors[f] # <<>>, whole[f] # 0
                PROVE  /\ Clean(lines'[whole[f]], cursors[f].offset)
                       /\ Settled(lines'[whole[f]], cursors[f].offset, Tally)
    BY <1>3 DEF CursorsSettled
  <2>1. whole[f] \in Inodes /\ whole[f] < nextInode
    BY Types DEF Disk
  <2>2. Clean(lines[whole[f]], cursors[f].offset) /\ Settled(lines[whole[f]], cursors[f].offset, Tally)
    BY DEF CursorsSettled
  <2>. QED BY <1>1, <2>1, <2>2, SettledGrows
<1>6. ScanSettled'
  <2>. SUFFICES ASSUME Scanning, scan.from = 0 \/ whole[scan.file] = scan.inode
                PROVE  /\ Clean(lines'[scan.inode], scan.committed)
                       /\ Settled(lines'[scan.inode], scan.committed, Tally \cup scan.batch)
    BY <1>3 DEF ScanSettled, Scanning
  <2>1. scan.inode \in Inodes /\ scan.inode < nextInode
    BY DEF Held
  <2>2. /\ Clean(lines[scan.inode], scan.committed)
        /\ Settled(lines[scan.inode], scan.committed, Tally \cup scan.batch)
    BY DEF ScanSettled
  <2>. DEFINE i == scan.inode
              C == Tally \cup scan.batch
  <2>3. Extended(lines[i], lines'[i]) /\ Len(lines[i]) \in Nat /\ Len(lines'[i]) \in Nat
    BY <1>1, <2>1
  <2>4. Clean(lines[i], scan.committed) /\ Settled(lines[i], scan.committed, C)
    BY <2>2
  <2>. HIDE DEF i, C
  <2>5. Clean(lines'[i], scan.committed) /\ Settled(lines'[i], scan.committed, C)
    BY <2>3, <2>4, SettledGrows
  <2>. QED BY <2>5 DEF i, C
<1>7. OnlyWholeLines'
  <2>. SUFFICES ASSUME NEW m \in Messages, rows[m] > 0
                PROVE  \E i \in Inodes : [msg |-> m, output |-> rows[m]] \in UsageIn(lines'[i])
    BY DEF OnlyWholeLines, RowsOf, UsageIn
  <2>1. PICK i \in Inodes : [msg |-> m, output |-> rows[m]] \in UsageIn(lines[i])
    BY DEF OnlyWholeLines, RowsOf, UsageIn
  <2>2. i < nextInode
    <3>. SUFFICES ASSUME ~(i < nextInode) PROVE FALSE
      OBVIOUS
    <3>1. lines[i] = <<>>
      BY DEF Disk
    <3>. QED BY <2>1, <3>1 DEF UsageIn
  <2>. QED BY <1>2, <2>1, <2>2
<1>. QED BY <1>4, <1>5, <1>6, <1>7, PartsKept

LEMMA AppendLineKeeps ==
  ASSUME Inv, NEW f \in Files, NEW l \in Line, AppendLine(f, l)
  PROVE  Inv'
<1>. USE DEF Inv
<1>. DEFINE j == inode[f]
<1>1. /\ j # 0 /\ part[j] = NoLine /\ writes < MaxWrites /\ writes' = writes + 1
      /\ lines' = [lines EXCEPT ![j] = Append(@, l)] /\ mtime' = [mtime EXCEPT ![j] = writes + 1]
      /\ UNCHANGED <<inode, nextInode, part, rows, cursors, pc, todo, scan, lastPrune>>
      /\ UNCHANGED <<now, faults, whole, storedAt, polled, refusedAt>>
  BY DEF AppendLine, Written, storeVars, pollVars, historyVars
<1>2. j \in Inodes /\ j < nextInode /\ nextInode \in Nat /\ MaxWrites \in Nat
  BY <1>1, Types, Numbers DEF Disk
<1>. HIDE DEF j
<1>3. /\ lines' \in [Inodes -> Seq(Line)]
      /\ \A i \in Inodes : i # j => lines'[i] = lines[i]
      /\ lines'[j] = Append(lines[j], l)
      /\ Len(lines'[j]) = Len(lines[j]) + 1 /\ Extended(lines[j], lines'[j])
  BY <1>1, <1>2, AppendExtends DEF TypeOK
<1>4. ASSUME NEW i \in Inodes PROVE Extended(lines[i], lines'[i])
  <2>1. CASE i = j
    BY <1>3, <2>1
  <2>2. CASE i # j
    <3>1. Len(lines[i]) \in Nat /\ lines'[i] = lines[i]
      BY <1>3, <2>2, Types
    <3>. QED BY <3>1 DEF Extended
  <2>. QED BY <2>1, <2>2
<1>5. Held' /\ CursorsSettled' /\ ScanSettled' /\ OnlyWholeLines' /\ Pruned'
  BY <1>1, <1>2, <1>3, <1>4, FilesGrow
<1>6. TypeOK'
  <2>1. mtime' \in [Inodes -> 0..MaxWrites] /\ writes' \in 0..MaxWrites
    BY <1>1, <1>2 DEF TypeOK
  <2>. QED BY <1>1, <1>3, <2>1 DEF TypeOK
<1>7. Disk'
  <2>1. ASSUME NEW i \in Inodes, i < nextInode
        PROVE  Len(lines'[i]) <= writes' /\ (part[i] # NoLine => Len(lines'[i]) < writes')
    <3>1. Len(lines[i]) \in Nat /\ writes \in Nat
      BY Types
    <3>2. Len(lines[i]) <= writes /\ (part[i] # NoLine => Len(lines[i]) < writes)
      BY <2>1 DEF Disk
    <3>3. Len(lines'[i]) = IF i = j THEN Len(lines[i]) + 1 ELSE Len(lines[i])
      BY <1>3
    <3>4. writes' = writes + 1 /\ (i = j => part[i] = NoLine)
      BY <1>1
    <3>. QED BY <3>1, <3>2, <3>3, <3>4
  <2>2. \A i \in Inodes : ~(i < nextInode) => lines'[i] = <<>> /\ part[i] = NoLine
    BY <1>2, <1>3 DEF Disk
  <2>. QED BY <1>1, <2>1, <2>2 DEF Disk
<1>. QED BY <1>5, <1>6, <1>7

LEMMA BeginLineKeeps ==
  ASSUME Inv, NEW f \in Files, NEW l \in Line, BeginLine(f, l)
  PROVE  Inv'
<1>. USE DEF Inv
<1>. DEFINE j == inode[f]
<1>1. /\ j # 0 /\ part[j] = NoLine /\ writes < MaxWrites /\ writes' = writes + 1
      /\ part' = [part EXCEPT ![j] = l] /\ mtime' = [mtime EXCEPT ![j] = writes + 1]
      /\ UNCHANGED <<inode, nextInode, lines, rows, cursors, pc, todo, scan, lastPrune>>
      /\ UNCHANGED <<now, faults, whole, storedAt, polled, refusedAt>>
  BY DEF BeginLine, Written, storeVars, pollVars, historyVars
<1>2. j \in Inodes /\ j < nextInode /\ nextInode \in Nat /\ MaxWrites \in Nat
  BY <1>1, Types, Numbers DEF Disk
<1>. HIDE DEF j
<1>3. /\ part' \in [Inodes -> Line \cup {NoLine}]
      /\ \A i \in Inodes : i # j => part'[i] = part[i]
  BY <1>1, <1>2 DEF TypeOK
<1>4. Tally' = Tally
  BY <1>1, TallyKept
<1>5. TypeOK'
  <2>1. mtime' \in [Inodes -> 0..MaxWrites] /\ writes' \in 0..MaxWrites
    BY <1>1, <1>2 DEF TypeOK
  <2>. QED BY <1>1, <1>3, <2>1 DEF TypeOK
<1>6. Disk'
  <2>1. ASSUME NEW i \in Inodes, i < nextInode
        PROVE  Len(lines[i]) <= writes' /\ (part'[i] # NoLine => Len(lines[i]) < writes')
    <3>1. Len(lines[i]) \in Nat /\ writes \in Nat
      BY Types
    <3>2. Len(lines[i]) <= writes /\ (part[i] # NoLine => Len(lines[i]) < writes)
      BY <2>1 DEF Disk
    <3>3. writes' = writes + 1 /\ (part'[i] = part[i] \/ part[i] = NoLine)
      BY <1>1, <1>3
    <3>. QED BY <3>1, <3>2, <3>3
  <2>2. \A i \in Inodes : ~(i < nextInode) => lines[i] = <<>> /\ part'[i] = NoLine
    BY <1>2, <1>3 DEF Disk
  <2>. QED BY <1>1, <2>1, <2>2 DEF Disk
<1>. QED BY <1>1, <1>4, <1>5, <1>6, PartsKept, CursorsKept, ScanKept

LEMMA EndLineKeeps ==
  ASSUME Inv, NEW f \in Files, EndLine(f)
  PROVE  Inv'
<1>. USE DEF Inv
<1>. DEFINE j == inode[f]
            l == part[j]
<1>1. /\ j # 0 /\ l # NoLine /\ writes < MaxWrites /\ writes' = writes + 1
      /\ lines' = [lines EXCEPT ![j] = Append(@, l)] /\ mtime' = [mtime EXCEPT ![j] = writes + 1]
      /\ part' = [part EXCEPT ![j] = NoLine]
      /\ UNCHANGED <<inode, nextInode, rows, cursors, pc, todo, scan, lastPrune>>
      /\ UNCHANGED <<now, faults, whole, storedAt, polled, refusedAt>>
  BY DEF EndLine, Written, storeVars, pollVars, historyVars
<1>2. j \in Inodes /\ j < nextInode /\ nextInode \in Nat /\ MaxWrites \in Nat
  BY <1>1, Types, Numbers DEF Disk
<1>3. l \in Line
  BY <1>1, <1>2 DEF TypeOK
<1>4. part[j] # NoLine
  BY <1>1
<1>. HIDE DEF j, l
<1>5. /\ lines' \in [Inodes -> Seq(Line)]
      /\ \A i \in Inodes : i # j => lines'[i] = lines[i]
      /\ lines'[j] = Append(lines[j], l)
      /\ Len(lines'[j]) = Len(lines[j]) + 1 /\ Extended(lines[j], lines'[j])
  BY <1>1, <1>2, <1>3, AppendExtends DEF TypeOK
<1>6. /\ part' \in [Inodes -> Line \cup {NoLine}] /\ part'[j] = NoLine
      /\ \A i \in Inodes : i # j => part'[i] = part[i]
  BY <1>1, <1>2 DEF TypeOK
<1>7. ASSUME NEW i \in Inodes PROVE Extended(lines[i], lines'[i])
  <2>1. CASE i = j
    BY <1>5, <2>1
  <2>2. CASE i # j
    <3>1. Len(lines[i]) \in Nat /\ lines'[i] = lines[i]
      BY <1>5, <2>2, Types
    <3>. QED BY <3>1 DEF Extended
  <2>. QED BY <2>1, <2>2
<1>8. Held' /\ CursorsSettled' /\ ScanSettled' /\ OnlyWholeLines' /\ Pruned'
  BY <1>1, <1>2, <1>5, <1>7, FilesGrow
<1>9. TypeOK'
  <2>1. mtime' \in [Inodes -> 0..MaxWrites] /\ writes' \in 0..MaxWrites
    BY <1>1, <1>2 DEF TypeOK
  <2>. QED BY <1>1, <1>5, <1>6, <2>1 DEF TypeOK
<1>10. Disk'
  <2>1. ASSUME NEW i \in Inodes, i < nextInode
        PROVE  Len(lines'[i]) <= writes' /\ (part'[i] # NoLine => Len(lines'[i]) < writes')
    <3>1. Len(lines[i]) \in Nat /\ writes \in Nat /\ writes' = writes + 1
      BY <1>1, Types
    <3>2. Len(lines[i]) <= writes /\ (part[i] # NoLine => Len(lines[i]) < writes)
      BY <2>1 DEF Disk
    <3>3. CASE i = j
      BY <1>4, <1>5, <1>6, <3>1, <3>2, <3>3
    <3>4. CASE i # j
      <4>1. lines'[i] = lines[i] /\ part'[i] = part[i]
        BY <1>5, <1>6, <3>4
      <4>. QED BY <3>1, <3>2, <4>1
    <3>. QED BY <3>3, <3>4
  <2>2. \A i \in Inodes : ~(i < nextInode) => lines'[i] = <<>> /\ part'[i] = NoLine
    BY <1>2, <1>5, <1>6 DEF Disk
  <2>. QED BY <1>1, <2>1, <2>2 DEF Disk
<1>. QED BY <1>8, <1>9, <1>10

LEMMA ReplaceFileKeeps ==
  ASSUME Inv, NEW f \in Files, NEW l \in Line, ReplaceFile(f, l)
  PROVE  Inv'
<1>. USE DEF Inv
<1>1. /\ nextInode <= MaxInode /\ nextInode' = nextInode + 1
      /\ inode' = [inode EXCEPT ![f] = nextInode] /\ lines' = [lines EXCEPT ![nextInode] = <<l>>]
      /\ writes < MaxWrites /\ writes' = writes + 1 /\ mtime' = [mtime EXCEPT ![nextInode] = writes + 1]
      /\ UNCHANGED <<part, rows, cursors, pc, todo, scan, lastPrune>>
      /\ UNCHANGED <<now, faults, whole, storedAt, polled, refusedAt>>
  BY DEF ReplaceFile, Written, storeVars, pollVars, historyVars
<1>2. nextInode \in Inodes /\ nextInode \in Nat /\ nextInode' \in 1..(MaxInode + 1)
  <2>1. MaxInode \in Nat /\ nextInode \in 1..(MaxInode + 1)
    BY Numbers DEF TypeOK
  <2>. QED BY <1>1, <2>1 DEF Inodes
<1>3. <<l>> \in Seq(Line) /\ Len(<<l>>) = 1
  OBVIOUS
<1>4. /\ lines' \in [Inodes -> Seq(Line)] /\ lines'[nextInode] = <<l>>
      /\ \A i \in Inodes : i # nextInode => lines'[i] = lines[i]
  BY <1>1, <1>2, <1>3 DEF TypeOK
<1>5. ASSUME NEW i \in Inodes, i < nextInode PROVE Extended(lines[i], lines'[i])
  <2>1. Len(lines[i]) \in Nat /\ lines'[i] = lines[i]
    BY <1>2, <1>4, <1>5, Types
  <2>. QED BY <2>1 DEF Extended
<1>6. Held' /\ CursorsSettled' /\ ScanSettled' /\ OnlyWholeLines' /\ Pruned'
  <2>1. nextInode' \in Nat /\ nextInode <= nextInode'
    BY <1>1, <1>2
  <2>. QED BY <1>1, <1>4, <1>5, <2>1, FilesGrow
<1>7. TypeOK'
  <2>1. MaxWrites \in Nat /\ writes \in 0..MaxWrites /\ writes' \in 0..MaxWrites
    <3>1. MaxWrites \in Nat
      BY Numbers
    <3>2. writes \in 0..MaxWrites
      BY DEF TypeOK
    <3>. QED BY <1>1, <3>1, <3>2
  <2>4. mtime' \in [Inodes -> 0..MaxWrites]
    BY <1>1, <1>2, <2>1 DEF TypeOK
  <2>2. inode' \in [Files -> 0..MaxInode]
    BY <1>1, <1>2 DEF TypeOK
  <2>. QED BY <1>1, <1>2, <1>4, <2>1, <2>2, <2>4 DEF TypeOK
<1>8. Disk'
  <2>1. ASSUME NEW i \in Inodes, i < nextInode'
        PROVE  Len(lines'[i]) <= writes' /\ (part[i] # NoLine => Len(lines'[i]) < writes')
    <3>1. writes \in Nat /\ writes' = writes + 1 /\ i \in Nat
      BY <1>1, Types
    <3>2. CASE i = nextInode
      <4>1. ~(i < nextInode) /\ lines'[i] = <<l>>
        BY <1>2, <1>4, <3>2
      <4>2. part[i] = NoLine
        BY <4>1 DEF Disk
      <4>. QED BY <1>3, <3>1, <4>1, <4>2
    <3>3. CASE i < nextInode
      <4>1. /\ Len(lines[i]) <= writes /\ (part[i] # NoLine => Len(lines[i]) < writes)
            /\ lines'[i] = lines[i] /\ Len(lines[i]) \in Nat
        BY <1>2, <1>4, <3>1, <3>3, Types DEF Disk
      <4>. QED BY <3>1, <4>1
    <3>. QED BY <1>1, <1>2, <2>1, <3>1, <3>2, <3>3
  <2>2. ASSUME NEW i \in Inodes, ~(i < nextInode') PROVE lines'[i] = <<>> /\ part[i] = NoLine
    <3>1. i # nextInode /\ ~(i < nextInode)
      BY <1>1, <1>2, <2>2, Types
    <3>. QED BY <1>4, <3>1 DEF Disk
  <2>3. ASSUME NEW g \in Files PROVE inode'[g] < nextInode' /\ whole[g] < nextInode' /\ (g \in todo => inode'[g] # 0)
    <3>1. inode[g] \in Nat /\ whole[g] \in Nat /\ inode[g] < nextInode /\ whole[g] < nextInode /\ (g \in todo => inode[g] # 0)
      BY Types DEF Disk
    <3>2. inode'[g] = IF g = f THEN nextInode ELSE inode[g]
      BY <1>1 DEF TypeOK
    <3>3. nextInode # 0
      BY <1>2, Types
    <3>. QED BY <1>1, <1>2, <3>1, <3>2, <3>3
  <2>. QED BY <1>1, <2>1, <2>2, <2>3 DEF Disk
<1>. QED BY <1>6, <1>7, <1>8

LEMMA TickKeeps ==
  ASSUME Inv, Tick
  PROVE  Inv'
<1>. USE DEF Inv
<1>1. /\ pc = "idle" /\ now < MaxTime /\ now' = now + 1
      /\ UNCHANGED <<inode, nextInode, lines, part, mtime, writes, rows, cursors>>
      /\ UNCHANGED <<pc, todo, scan, lastPrune, faults, whole, storedAt, polled, refusedAt>>
  BY DEF Tick, diskVars, storeVars, pollVars, historyVars
<1>2. now \in Nat /\ now' \in 0..MaxTime /\ Retention \in Nat
  BY <1>1, Types, Numbers
<1>3. Tally \subseteq Tally'
  <2>1. \A m \in Messages : StampOf[m] \in Int
    BY IngestAssumption
  <2>2. \A r \in Row : r.msg \in Messages
    BY DEF Row
  <2>. QED BY <1>1, <1>2, <2>1, <2>2 DEF Tally, Counted, Expired
<1>4. TypeOK'
  BY <1>1, <1>2 DEF TypeOK
<1>5. Pruned'
  <2>1. lastPrune \in Int /\ polled \in Nat /\ refusedAt \in Int
    BY Types, RefusedType
  <2>. QED BY <1>1, <1>2, <2>1 DEF Pruned
<1>. QED BY <1>1, <1>3, <1>4, <1>5, PartsKept, CursorsKept, ScanKept

-----------------------------------------------------------------------------
(* The poll.                                                               *)

LEMMA SizeFits ==
  ASSUME TypeOK, Disk, NEW i \in Inodes, i < nextInode
  PROVE  Size(i) \in Offsets
<1>. DEFINE n == Len(lines[i])
            b == Bytes(lines[i], n)
            p == IF part[i] = NoLine THEN 0 ELSE Length(part[i]) - 1
<1>1. n \in Nat /\ n <= writes /\ (part[i] # NoLine => n < writes)
  BY Types DEF Disk
<1>2. writes <= MaxWrites /\ MaxWrites \in Nat /\ writes \in Nat /\ LongLen \in Nat /\ LongLen >= 3
  BY Types, Numbers DEF TypeOK
<1>3. b \in Nat /\ b <= LongLen * n
  BY <1>1, BytesBounds
<1>4. p \in Nat /\ p <= LongLen
  BY <1>2 DEF Length
<1>5. Size(i) = b + p
  BY InTerms DEF Size
<1>. HIDE DEF b, p, n
<1>6. LongLen * n <= LongLen * MaxWrites
  BY <1>1, <1>2, TimesGrow
<1>7. /\ LongLen * (MaxWrites + 1) = LongLen * MaxWrites + LongLen
      /\ LongLen * MaxWrites \in Nat /\ LongLen * n \in Nat
  BY <1>1, <1>2
<1>8. b + p \in Nat /\ b + p <= LongLen * MaxWrites + LongLen
  BY <1>2, <1>3, <1>4, <1>6, <1>7
<1>. QED BY <1>5, <1>7, <1>8 DEF Offsets

ScanType ==
  [file : Files \cup {NoFile}, inode : 0..MaxInode,
   size : Offsets, mtime : 0..MaxWrites, from : Offsets,
   position : Offsets, committed : Offsets, batch : SUBSET Row]

LEMMA NoOffset == 0 \in Offsets /\ Offsets \subseteq Nat
<1>1. LongLen * (MaxWrites + 1) \in Nat
  BY Numbers
<1>. QED BY <1>1 DEF Offsets

LEMMA NoScanType == NoScan \in ScanType /\ NoScan.batch = {}
<1>1. 0 \in 0..MaxInode /\ 0 \in 0..MaxWrites /\ 0 \in Offsets /\ {} \in SUBSET Row
  BY Numbers, NoOffset
<1>. QED BY <1>1 DEF NoScan, ScanType

LEMMA ScanTyped == TypeOK => scan \in ScanType
  BY DEF TypeOK, ScanType

LEMMA BeginPollKeeps ==
  ASSUME Inv, BeginPoll
  PROVE  Inv'
<1>. USE DEF Inv
<1>1. /\ pc = "idle" /\ pc' = "walk" /\ todo' = {f \in Files : inode[f] # 0}
      /\ UNCHANGED <<inode, nextInode, lines, part, mtime, writes, rows, cursors>>
      /\ UNCHANGED <<scan, lastPrune, now, faults, whole, storedAt, polled, refusedAt>>
  BY DEF BeginPoll, diskVars, storeVars, historyVars
<1>2. Tally' = Tally
  BY <1>1, TallyKept
<1>3. TypeOK'
  BY <1>1 DEF TypeOK
<1>4. Disk'
  BY <1>1 DEF Disk
<1>5. Held' /\ ScanSettled'
  BY <1>1 DEF Held, ScanSettled, Scanning
<1>. QED BY <1>1, <1>2, <1>3, <1>4, <1>5, PartsKept, CursorsKept

LEMMA OpenFileKeeps ==
  ASSUME Inv, NEW f \in Files, OpenFile(f)
  PROVE  Inv'
<1>. USE DEF Inv
<1>. DEFINE i == inode[f]
            c == cursors[f]
            from == IF c # <<>> /\ Size(i) >= c.offset THEN c.offset ELSE 0
<1>1. /\ pc = "walk" /\ f \in todo /\ todo' = todo \ {f}
      /\ UNCHANGED <<inode, nextInode, lines, part, mtime, writes, rows, cursors>>
      /\ UNCHANGED <<lastPrune, now, faults, whole, storedAt, polled, refusedAt>>
  BY DEF OpenFile, diskVars, storeVars, historyVars
<1>2. \/ UNCHANGED <<pc, scan>>
      \/ /\ scan' = [file |-> f, inode |-> i, size |-> Size(i),
                     mtime |-> mtime[i], from |-> from,
                     position |-> from, committed |-> from, batch |-> {}]
         /\ pc' = "read"
  BY DEF OpenFile
<1>3. Tally' = Tally
  BY <1>1, TallyKept
<1>4. i \in Inodes /\ i < nextInode
  BY <1>1, Types DEF Disk
<1>5. Disk' /\ CursorsSettled' /\ OnlyWholeLines' /\ Pruned'
  BY <1>1, <1>3, PartsKept, CursorsKept
<1>6. CASE UNCHANGED <<pc, scan>>
  <2>1. TypeOK'
    BY <1>1, <1>6 DEF TypeOK
  <2>. QED BY <1>1, <1>3, <1>5, <1>6, <2>1, PartsKept, ScanKept
<1>7. CASE /\ scan' = [file |-> f, inode |-> i, size |-> Size(i),
                       mtime |-> mtime[i], from |-> from,
                       position |-> from, committed |-> from, batch |-> {}]
           /\ pc' = "read"
  <2>1. c # <<>> => c.offset \in Offsets
    BY DEF TypeOK, Cursor
  <2>2. from \in Offsets
    BY <2>1, NoOffset
  <2>3. from = 0 \/ (c # <<>> /\ from = c.offset)
    OBVIOUS
  <2>4. Size(i) \in Offsets /\ mtime[i] \in 0..MaxWrites /\ i \in 0..MaxInode
    BY <1>4, SizeFits DEF TypeOK
  <2>. HIDE DEF from
  <2>5. /\ scan' \in ScanType /\ scan'.file = f /\ scan'.inode = i /\ scan'.from = from
        /\ scan'.committed = from /\ scan'.batch = {}
    BY <1>7, <2>2, <2>4 DEF ScanType
  <2>6. TypeOK'
    BY <1>1, <1>7, <2>5 DEF TypeOK, ScanType
  <2>7. Held'
    BY <1>1, <1>4, <1>7, <2>5 DEF Held, Scanning
  <2>8. ScanSettled'
    <3>. SUFFICES ASSUME from = 0 \/ whole[f] = i
                  PROVE  Clean(lines[i], from) /\ Settled(lines[i], from, Tally)
      BY <1>1, <1>3, <2>5 DEF ScanSettled
    <3>1. CASE from = 0
      <4>1. Len(lines[i]) \in Nat
        BY <1>4, Types
      <4>2. Clean(lines[i], 0)
        BY <4>1, NoBytes DEF Clean
      <4>3. \A n \in 1..Len(lines[i]) : Bytes(lines[i], n) \in Nat /\ 2 * n <= Bytes(lines[i], n)
        BY <4>1, BytesBounds
      <4>4. Settled(lines[i], 0, Tally)
        BY <4>1, <4>3 DEF Settled
      <4>. QED BY <3>1, <4>2, <4>4
    <3>2. CASE whole[f] = i /\ c # <<>> /\ from = c.offset
      BY <1>4, <3>2, Types DEF CursorsSettled
    <3>. QED BY <2>3, <3>1, <3>2
  <2>. QED BY <1>5, <2>6, <2>7, <2>8
<1>. QED BY <1>2, <1>6, <1>7

LEMMA ReadChunkKeeps ==
  ASSUME Inv, ReadChunk
  PROVE  Inv'
<1>. USE DEF Inv
<1>1. /\ pc = "read"
      /\ UNCHANGED <<inode, nextInode, lines, part, mtime, writes, rows, cursors>>
      /\ UNCHANGED <<pc, todo, lastPrune, now, faults, whole, storedAt, polled, refusedAt>>
  BY DEF ReadChunk, diskVars, storeVars, historyVars
<1>2. PICK p \in {Size(scan.inode), scan.from + PollLimit} :
        /\ p <= Size(scan.inode) /\ scan' = [scan EXCEPT !.position = p]
  BY DEF ReadChunk
<1>3. Size(scan.inode) \in Offsets /\ scan \in ScanType
  BY <1>1, SizeFits, ScanTyped DEF Held, Scanning
<1>4. p \in Offsets
  <2>1. scan.from \in Nat /\ PollLimit \in Nat /\ Size(scan.inode) \in Nat
    BY <1>3, NoOffset, Numbers DEF ScanType
  <2>. QED BY <1>2, <1>3, <2>1, Numbers DEF Offsets
<1>5. /\ scan' \in ScanType /\ scan'.file = scan.file /\ scan'.inode = scan.inode
      /\ scan'.from = scan.from /\ scan'.committed = scan.committed /\ scan'.batch = scan.batch
  BY <1>2, <1>3, <1>4 DEF ScanType
<1>6. Tally' = Tally
  BY <1>1, TallyKept
<1>7. TypeOK'
  BY <1>1, <1>5 DEF TypeOK, ScanType
<1>8. Held'
  BY <1>1, <1>5 DEF Held, Scanning
<1>9. ScanSettled'
  BY <1>1, <1>5, <1>6 DEF ScanSettled, Scanning
<1>. QED BY <1>1, <1>6, <1>7, <1>8, <1>9, PartsKept, CursorsKept

LEMMA TakeLineKeeps ==
  ASSUME Inv, NEW n, TakeLine(n)
  PROVE  Inv'
<1>. USE DEF Inv
<1>. DEFINE i == scan.inode
            s == lines[i]
            new == IF Upto(i, n - 1) = scan.committed THEN {s[n]} \cap Row ELSE {}
            batch == scan.batch \cup new
<1>1. /\ pc = "read" /\ n \in NextLine
      /\ scan' = [scan EXCEPT !.committed = Upto(i, n), !.batch = batch]
      /\ pc' = IF Cardinality(batch) >= BatchRows THEN "flush" ELSE "read"
      /\ UNCHANGED <<inode, nextInode, lines, part, mtime, writes, rows, cursors>>
      /\ UNCHANGED <<todo, lastPrune, now, faults, whole, storedAt, polled, refusedAt>>
  BY DEF TakeLine, diskVars, storeVars, historyVars
<1>2. /\ n \in 1..Len(s) /\ Bytes(s, n) > scan.committed /\ Bytes(s, n) <= scan.position
      /\ Bytes(s, n - 1) <= scan.committed
  BY <1>1, InTerms DEF NextLine
<1>3. scan \in ScanType /\ i \in Inodes /\ i < nextInode /\ Len(s) \in Nat
  BY <1>1, ScanTyped, Types DEF Held, Scanning
<1>4. n \in Nat \ {0} /\ n - 1 \in Nat
  BY <1>2, <1>3
<1>5. Upto(i, n) = Bytes(s, n) /\ Upto(i, n - 1) = Bytes(s, n - 1)
  BY InTerms
<1>6. Bytes(s, n) \in Offsets
  <2>1. scan.position \in Offsets /\ Bytes(s, n) \in Nat
    BY <1>3, <1>4, BytesBounds DEF ScanType
  <2>. QED BY <1>2, <2>1, Numbers DEF Offsets
<1>7. new \in SUBSET Row /\ new \subseteq UsageIn(s)
  BY <1>2 DEF UsageIn
<1>8. batch \in SUBSET Row /\ batch \subseteq UsageIn(s)
  BY <1>1, <1>3, <1>7 DEF Held, ScanType
<1>9. scan.committed = Bytes(s, n - 1) /\ s[n] \in Row => s[n] \in batch
  BY <1>5
<1>10. scan.batch \subseteq batch
  OBVIOUS
<1>. HIDE DEF new, batch
<1>11. /\ scan' \in ScanType /\ scan'.file = scan.file /\ scan'.inode = i /\ scan'.from = scan.from
       /\ scan'.committed = Bytes(s, n) /\ scan'.batch = batch
  BY <1>1, <1>3, <1>5, <1>6, <1>8 DEF ScanType
<1>12. Tally' = Tally
  BY <1>1, TallyKept
<1>13. TypeOK'
  BY <1>1, <1>11 DEF TypeOK, ScanType
<1>14. Held'
  BY <1>1, <1>8, <1>11 DEF Held, Scanning
<1>15. ScanSettled'
  <2>. SUFFICES ASSUME scan.from = 0 \/ whole[scan.file] = i
                PROVE  /\ Clean(s, Bytes(s, n))
                       /\ Settled(s, Bytes(s, n), Tally \cup batch)
    BY <1>1, <1>11, <1>12 DEF ScanSettled
  <2>1. Clean(s, scan.committed) /\ Settled(s, scan.committed, Tally \cup scan.batch)
    BY <1>1 DEF ScanSettled, Scanning
  <2>2. PICK k \in 0..Len(s) : scan.committed = Bytes(s, k)
    BY <2>1 DEF Clean
  <2>3. k \in Nat /\ Bytes(s, k) \in Nat /\ Bytes(s, n) \in Nat
    BY <1>3, <1>4, <2>2, BytesBounds
  <2>4. k = n - 1
    BY <1>2, <1>4, <2>2, <2>3, LinesBefore
  <2>5. ASSUME NEW m \in 1..Len(s), Bytes(s, m) <= Bytes(s, n), s[m] \in Row
        PROVE  s[m] \in Tally \cup batch
    <3>1. m \in Nat \ {0} /\ m <= n
      BY <1>3, <1>4, <2>5, LinesBefore
    <3>2. CASE m = n
      BY <1>9, <2>2, <2>4, <2>5, <3>2
    <3>3. CASE m # n
      <4>1. m <= k
        BY <1>4, <2>4, <3>1, <3>3
      <4>2. Bytes(s, m) <= scan.committed
        BY <2>2, <2>3, <3>1, <4>1, LinesBefore
      <4>3. s[m] \in Tally \cup scan.batch
        BY <2>1, <2>5, <4>2 DEF Settled
      <4>. QED BY <1>10, <4>3
    <3>. QED BY <3>2, <3>3
  <2>. QED BY <1>2, <2>5 DEF Clean, Settled
<1>. QED BY <1>1, <1>12, <1>13, <1>14, <1>15, PartsKept, CursorsKept

LEMMA EndOfScanKeeps ==
  ASSUME Inv, EndOfScan
  PROVE  Inv'
<1>. USE DEF Inv
<1>1. /\ pc = "read" /\ pc' = "lastflush"
      /\ UNCHANGED <<inode, nextInode, lines, part, mtime, writes, rows, cursors>>
      /\ UNCHANGED <<scan, todo, lastPrune, now, faults, whole, storedAt, polled, refusedAt>>
  BY DEF EndOfScan, diskVars, storeVars, historyVars
<1>2. Tally' = Tally
  BY <1>1, TallyKept
<1>3. TypeOK'
  BY <1>1 DEF TypeOK
<1>4. Held'
  BY <1>1 DEF Held, Scanning
<1>5. ScanSettled'
  BY <1>1, <1>2 DEF ScanSettled, Scanning
<1>. QED BY <1>1, <1>2, <1>3, <1>4, <1>5, PartsKept, CursorsKept

(* Some of the outputs of a message is the greatest.                       *)
LEMMA BoundedMax ==
  ASSUME NEW b \in Nat, NEW S \in SUBSET (0..b), S # {}
  PROVE  \E x \in S : \A y \in S : y <= x
<1>. DEFINE D == {b - y : y \in S}
<1>1. D \subseteq Nat
  OBVIOUS
<1>2. D # {}
  OBVIOUS
<1>3. PICK d \in D : \A e \in D : ~(<<e, d>> \in OpToRel(<, Nat))
  BY <1>1, <1>2, NatLessThanWellFounded, WFMin
<1>4. \A e \in D : ~(e < d)
  BY <1>1, <1>3 DEF OpToRel
<1>5. PICK x \in S : d = b - x
  OBVIOUS
<1>6. ASSUME NEW y \in S PROVE y <= x
  <2>1. b - y \in D
    OBVIOUS
  <2>. QED BY <1>4, <1>5, <2>1
<1>. QED BY <1>6

LEMMA GreatestIs ==
  ASSUME NEW m \in Messages, NEW S \in SUBSET Row
  PROVE  /\ Greatest(m, S) \in 0..MaxOutput
         /\ \A r \in S : r.msg = m => r.output <= Greatest(m, S)
         /\ Greatest(m, S) = 0 \/ [msg |-> m, output |-> Greatest(m, S)] \in S
<1>. DEFINE O == {o \in 0..MaxOutput : o = 0 \/ \E r \in S : r = [msg |-> m, output |-> o]}
            G(o) == /\ \A r \in S : r.msg = m => r.output <= o
                    /\ o = 0 \/ \E r \in S : r = [msg |-> m, output |-> o]
<1>1. MaxOutput \in Nat
  BY Numbers
<1>2. 0 \in O
  BY <1>1
<1>3. PICK x \in O : \A y \in O : y <= x
  BY <1>1, <1>2, BoundedMax
<1>4. ASSUME NEW r \in S, r.msg = m PROVE r.output <= x
  <2>1. r = [msg |-> m, output |-> r.output] /\ r.output \in 0..MaxOutput
    BY <1>1, <1>4 DEF Row
  <2>2. r.output \in O
    BY <2>1
  <2>. QED BY <1>3, <2>2
<1>5. G(x) /\ x \in 0..MaxOutput
  BY <1>4
<1>6. Greatest(m, S) = CHOOSE o \in 0..MaxOutput : G(o)
  BY DEF Greatest
<1>. HIDE DEF G
<1>7. Greatest(m, S) \in 0..MaxOutput /\ G(Greatest(m, S))
  BY <1>5, <1>6
<1>. QED BY <1>7 DEF G

LEMMA FlushStores ==
  ASSUME TypeOK, Held, Flush
  PROVE  /\ rows' \in [Messages -> 0..MaxOutput]
         /\ \A m \in Messages : rows'[m] >= rows[m] /\ rows'[m] \in Nat
         /\ \A r \in scan.batch : r \in Row /\ rows'[r.msg] >= r.output
         /\ \A m \in Messages : rows'[m] = rows[m] \/ [msg |-> m, output |-> rows'[m]] \in scan.batch
<1>1. rows' = [m \in Messages |-> IF Greatest(m, scan.batch) > rows[m]
                                  THEN Greatest(m, scan.batch) ELSE rows[m]]
  BY DEF Flush, Ingest
<1>2. scan.batch \in SUBSET Row /\ MaxOutput \in Nat
  BY ScanTyped, Numbers DEF ScanType
<1>3. ASSUME NEW m \in Messages
      PROVE  /\ rows'[m] \in 0..MaxOutput /\ rows'[m] \in Nat /\ rows'[m] >= rows[m]
             /\ \A r \in scan.batch : r.msg = m => rows'[m] >= r.output
             /\ rows'[m] = rows[m] \/ [msg |-> m, output |-> rows'[m]] \in scan.batch
  <2>. DEFINE g == Greatest(m, scan.batch)
  <2>1. /\ g \in 0..MaxOutput
        /\ \A r \in scan.batch : r.msg = m => r.output <= g
        /\ g = 0 \/ [msg |-> m, output |-> g] \in scan.batch
    BY <1>2, GreatestIs
  <2>2. rows'[m] = IF g > rows[m] THEN g ELSE rows[m]
    BY <1>1
  <2>3. rows[m] \in 0..MaxOutput
    BY DEF TypeOK
  <2>4. \A r \in scan.batch : r.output \in Nat
    BY <1>2 DEF Row
  <2>. HIDE DEF g
  <2>. QED BY <1>2, <2>1, <2>2, <2>3, <2>4
<1>4. \A r \in scan.batch : r \in Row /\ r.msg \in Messages
  BY <1>2 DEF Row
<1>5. rows' \in [Messages -> 0..MaxOutput]
  <2>. DEFINE E(m) == IF Greatest(m, scan.batch) > rows[m] THEN Greatest(m, scan.batch) ELSE rows[m]
  <2>1. rows' = [m \in Messages |-> E(m)] /\ \A m \in Messages : E(m) = rows'[m]
    BY <1>1
  <2>. HIDE DEF E
  <2>2. \A m \in Messages : E(m) \in 0..MaxOutput
    BY <1>3, <2>1
  <2>3. [m \in Messages |-> E(m)] \in [Messages -> 0..MaxOutput]
    BY <2>2, Zenon
  <2>. QED BY <2>1, <2>3
<1>6. \A m \in Messages : rows'[m] >= rows[m] /\ rows'[m] \in Nat
  BY <1>3
<1>7. \A r \in scan.batch : r \in Row /\ rows'[r.msg] >= r.output
  BY <1>3, <1>4
<1>. QED BY <1>3, <1>5, <1>6, <1>7

LEMMA FlushKeeps ==
  ASSUME Inv, Flush
  PROVE  Inv'
<1>. USE DEF Inv
<1>1. /\ pc \in {"flush", "lastflush"} /\ pc' = IF pc = "flush" THEN "read" ELSE "save"
      /\ storedAt' = [m \in Messages |-> IF rows[m] = 0 /\ rows'[m] > 0 THEN now ELSE storedAt[m]]
      /\ scan' = [scan EXCEPT !.batch = {}]
      /\ UNCHANGED <<inode, nextInode, lines, part, mtime, writes, cursors>>
      /\ UNCHANGED <<todo, lastPrune, now, faults, whole, polled, refusedAt>>
  BY DEF Flush, diskVars
<1>2. /\ rows' \in [Messages -> 0..MaxOutput]
      /\ \A m \in Messages : rows'[m] >= rows[m] /\ rows'[m] \in Nat
      /\ \A r \in scan.batch : r \in Row /\ rows'[r.msg] >= r.output
      /\ \A m \in Messages : rows'[m] = rows[m] \/ [msg |-> m, output |-> rows'[m]] \in scan.batch
  BY FlushStores
<1>3. /\ scan' \in ScanType /\ scan'.file = scan.file /\ scan'.inode = scan.inode
      /\ scan'.from = scan.from /\ scan'.committed = scan.committed /\ scan'.batch = {}
  BY <1>1, ScanTyped DEF ScanType
<1>4. \A m \in Messages : rows[m] \in Nat /\ storedAt[m] \in 0..MaxTime /\ now \in 0..MaxTime
  BY Types DEF TypeOK
<1>5. Tally \subseteq Tally'
  <2>1. \A r \in Row : r.msg \in Messages /\ r.output \in Nat
    BY DEF Row
  <2>. QED BY <1>1, <1>2, <1>4, <2>1 DEF Tally, Counted, Expired
<1>6. scan.batch \subseteq Tally'
  BY <1>2 DEF Tally, Counted
<1>7. TypeOK'
  <2>1. storedAt' \in [Messages -> 0..MaxTime]
    BY <1>1, <1>4 DEF TypeOK
  <2>2. pc' \in {"read", "save"}
    BY <1>1
  <2>. QED BY <1>1, <1>2, <1>3, <2>1, <2>2 DEF TypeOK, ScanType
<1>8. Disk'
  BY <1>1, PartsKept
<1>9. Held'
  BY <1>1, <1>3 DEF Held, Scanning
<1>10. ScanSettled'
  <2>. SUFFICES ASSUME scan.from = 0 \/ whole[scan.file] = scan.inode
                PROVE  /\ Clean(lines[scan.inode], scan.committed)
                       /\ Settled(lines[scan.inode], scan.committed, Tally' \cup {})
    BY <1>1, <1>3 DEF ScanSettled
  <2>1. /\ Clean(lines[scan.inode], scan.committed)
        /\ Settled(lines[scan.inode], scan.committed, Tally \cup scan.batch)
    BY <1>1 DEF ScanSettled, Scanning
  <2>2. Tally \cup scan.batch \subseteq Tally' \cup {}
    BY <1>5, <1>6
  <2>. QED BY <2>1, <2>2, SettledMore
<1>11. OnlyWholeLines'
  <2>1. \A i : RowsOf(i)' = RowsOf(i)
    BY <1>1 DEF RowsOf
  <2>2. ASSUME NEW m \in Messages, rows'[m] > 0
        PROVE  \E i \in Inodes : [msg |-> m, output |-> rows'[m]] \in RowsOf(i)
    <3>1. CASE rows'[m] = rows[m]
      BY <2>2, <3>1 DEF OnlyWholeLines
    <3>2. CASE [msg |-> m, output |-> rows'[m]] \in scan.batch
      BY <1>1, <3>2, InTerms DEF Held, Scanning
    <3>. QED BY <1>2, <3>1, <3>2
  <2>. QED BY <2>1, <2>2 DEF OnlyWholeLines
<1>12. Pruned'
  <2>1. lastPrune \in Int /\ polled \in Nat /\ now \in Nat /\ PruneEvery \in Nat /\ PruneEvery > 0
    BY Types, Numbers
  <2>2. \A m \in Messages : /\ rows[m] = 0 /\ rows'[m] > 0 => storedAt'[m] = now
                            /\ rows[m] > 0 => storedAt'[m] = storedAt[m]
    BY <1>1, <1>4
  <2>3. \A m \in Messages : rows[m] = 0 \/ rows[m] > 0
    BY <1>4
  <2>. QED BY <1>1, <2>1, <2>2, <2>3 DEF Pruned
<1>. QED BY <1>1, <1>5, <1>7, <1>8, <1>9, <1>10, <1>11, <1>12, CursorsKept

LEMMA SaveCursorKeeps ==
  ASSUME Inv, SaveCursor
  PROVE  Inv'
<1>. USE DEF Inv
<1>. DEFINE f == scan.file
            i == scan.inode
            cursor == [offset |-> scan.committed,
                       size |-> IF HitLimit THEN scan.committed ELSE scan.size,
                       mtime |-> scan.mtime]
            one == IF scan.from = 0 \/ whole[f] = i THEN i ELSE 0
<1>1. /\ pc = "save" /\ pc' = "walk" /\ scan' = NoScan
      /\ cursors' = [cursors EXCEPT ![f] = cursor]
      /\ whole' = [whole EXCEPT ![f] = one]
      /\ UNCHANGED <<inode, nextInode, lines, part, mtime, writes, rows>>
      /\ UNCHANGED <<todo, lastPrune, now, faults, storedAt, polled, refusedAt>>
  BY DEF SaveCursor, diskVars
<1>2. f \in Files /\ i \in Inodes /\ i < nextInode /\ scan.batch = {} /\ scan \in ScanType
  BY <1>1, ScanTyped DEF Held, Scanning
<1>3. cursor \in Cursor /\ cursor.offset = scan.committed
  BY <1>2 DEF Cursor, ScanType
<1>4. one \in 0..MaxInode /\ one < nextInode
  BY <1>2, Types, Numbers DEF Inodes
<1>5. one # 0 => one = i /\ (scan.from = 0 \/ whole[f] = i)
  OBVIOUS
<1>. HIDE DEF f, i, cursor, one
<1>6. Tally' = Tally
  BY <1>1, TallyKept
<1>7. \A g \in Files : /\ cursors'[g] = IF g = f THEN cursor ELSE cursors[g]
                       /\ whole'[g] = IF g = f THEN one ELSE whole[g]
  BY <1>1 DEF TypeOK
<1>8. TypeOK'
  <2>1. cursors' \in [Files -> Cursor \cup {<<>>}] /\ whole' \in [Files -> 0..MaxInode]
    BY <1>1, <1>2, <1>3, <1>4 DEF TypeOK
  <2>. QED BY <1>1, <2>1, NoScanType DEF TypeOK, ScanType
<1>9. Disk'
  BY <1>1, <1>4, <1>7 DEF Disk
<1>10. Held' /\ ScanSettled'
  BY <1>1, NoScanType DEF Held, ScanSettled, Scanning
<1>11. CursorsSettled'
  <2>1. ASSUME one # 0
        PROVE  Clean(lines[one], scan.committed) /\ Settled(lines[one], scan.committed, Tally)
    <3>1. Tally \cup scan.batch = Tally
      BY <1>2
    <3>. QED BY <1>1, <1>5, <2>1, <3>1 DEF ScanSettled, Scanning, f, i
  <2>2. ASSUME NEW g \in Files, cursors'[g] # <<>>, whole'[g] # 0
        PROVE  /\ Clean(lines[whole'[g]], cursors'[g].offset)
               /\ Settled(lines[whole'[g]], cursors'[g].offset, Tally)
    <3>1. CASE g = f
      BY <1>3, <1>7, <2>1, <2>2, <3>1
    <3>2. CASE g # f
      BY <1>7, <2>2, <3>2 DEF CursorsSettled
    <3>. QED BY <3>1, <3>2
  <2>. QED BY <1>1, <1>6, <2>2 DEF CursorsSettled
<1>. QED BY <1>1, <1>8, <1>9, <1>10, <1>11, PartsKept

LEMMA EndPollKeeps ==
  ASSUME Inv, EndPoll
  PROVE  Inv' /\ \A m \in Messages : rows'[m] = rows[m] \/ (rows'[m] = 0 /\ Expired(m))
<1>. USE DEF Inv
<1>1. /\ pc = "walk" /\ pc' = "idle" /\ polled' = now
      /\ UNCHANGED <<inode, nextInode, lines, part, mtime, writes, cursors>>
      /\ UNCHANGED <<scan, todo, now, whole, storedAt>>
  BY DEF EndPoll, diskVars
<1>2. \/ /\ now - lastPrune >= PruneEvery /\ lastPrune' = now
         /\ rows' = [m \in Messages |-> IF StampOf[m] < now - Retention THEN 0 ELSE rows[m]]
         /\ refusedAt' = 0 - PruneEvery /\ UNCHANGED faults
      \/ /\ now - lastPrune >= PruneEvery /\ lastPrune' = now /\ refusedAt' = now
         /\ faults < MaxFaults /\ faults' = faults + 1 /\ UNCHANGED rows
      \/ ~(now - lastPrune >= PruneEvery) /\ UNCHANGED <<rows, lastPrune, faults, refusedAt>>
  BY DEF EndPoll, Prune, PruneRefused
<1>3. /\ now \in 0..MaxTime /\ lastPrune \in (0 - PruneEvery)..MaxTime /\ polled \in Nat
      /\ refusedAt \in (0 - PruneEvery)..MaxTime /\ refusedAt \in Int
      /\ now \in Nat /\ lastPrune \in Int
      /\ \A m \in Messages : rows[m] \in 0..MaxOutput /\ rows[m] \in Nat /\ storedAt[m] \in Nat
  BY Types DEF TypeOK
<1>4. /\ {Retention, PruneEvery, MaxTime, MaxOutput} \subseteq Nat /\ PruneEvery > 0
      /\ \A m \in Messages : StampOf[m] \in Int
  BY Numbers, IngestAssumption
<1>5. \A m \in Messages : rows'[m] = rows[m] \/ (rows'[m] = 0 /\ Expired(m))
  BY <1>2 DEF Expired
<1>6. Tally \subseteq Tally'
  <2>1. \A r \in Row : r.msg \in Messages
    BY DEF Row
  <2>2. \A m \in Messages : Expired(m)' <=> Expired(m)
    BY <1>1 DEF Expired
  <2>. QED BY <1>5, <2>1, <2>2 DEF Tally, Counted
<1>7. TypeOK'
  <2>1. rows' \in [Messages -> 0..MaxOutput]
    <3>1. 0 \in 0..MaxOutput
      BY <1>4
    <3>2. CASE UNCHANGED rows
      BY <3>2 DEF TypeOK
    <3>3. CASE rows' = [m \in Messages |-> IF StampOf[m] < now - Retention THEN 0 ELSE rows[m]]
      BY <1>3, <3>1, <3>3
    <3>. QED BY <1>2, <3>2, <3>3
  <2>2. lastPrune' \in (0 - PruneEvery)..MaxTime
    BY <1>2, <1>3, <1>4
  <2>3. polled' \in 0..MaxTime
    BY <1>1, <1>3
  <2>4. faults' \in 0..MaxFaults
    <3>1. faults \in 0..MaxFaults /\ MaxFaults \in Nat
      BY Numbers DEF TypeOK
    <3>. QED BY <1>2, <3>1
  <2>5. refusedAt' \in (0 - PruneEvery)..MaxTime
    BY <1>2, <1>3, <1>4
  <2>. QED BY <1>1, <2>1, <2>2, <2>3, <2>4, <2>5 DEF TypeOK
<1>8. Disk'
  BY <1>1, PartsKept
<1>9. Held' /\ ScanSettled'
  BY <1>1 DEF Held, ScanSettled, Scanning
<1>10. OnlyWholeLines'
  <2>1. \A i : RowsOf(i)' = RowsOf(i)
    BY <1>1 DEF RowsOf
  <2>2. ASSUME NEW m \in Messages, rows'[m] > 0
        PROVE  \E i \in Inodes : [msg |-> m, output |-> rows'[m]] \in RowsOf(i)
    BY <1>5, <2>2 DEF OnlyWholeLines
  <2>. QED BY <2>1, <2>2 DEF OnlyWholeLines
<1>11. Pruned'
  <2>1. CASE ~(now - lastPrune >= PruneEvery) /\ UNCHANGED <<rows, lastPrune, refusedAt>>
    BY <1>1, <1>3, <1>4, <2>1 DEF Pruned
  <2>2. CASE /\ now - lastPrune >= PruneEvery /\ lastPrune' = now
             /\ rows' = [m \in Messages |-> IF StampOf[m] < now - Retention THEN 0 ELSE rows[m]]
    <3>1. \A m \in Messages : rows'[m] > 0 => StampOf[m] >= now - Retention
      BY <1>3, <1>4, <2>2
    <3>. QED BY <1>1, <1>3, <1>4, <2>2, <3>1 DEF Pruned
  <2>3. CASE lastPrune' = now /\ refusedAt' = now /\ UNCHANGED rows
    BY <1>1, <1>3, <1>4, <2>3 DEF Pruned
  <2>. QED BY <1>2, <2>1, <2>2, <2>3
<1>. QED BY <1>1, <1>5, <1>6, <1>7, <1>8, <1>9, <1>10, <1>11, CursorsKept

-----------------------------------------------------------------------------
(* Failures.                                                               *)

LEMMA ScanFailsKeeps ==
  ASSUME Inv, ScanFails
  PROVE  Inv'
<1>. USE DEF Inv
<1>1. /\ faults < MaxFaults /\ faults' = faults + 1 /\ scan' = NoScan /\ pc' = "walk"
      /\ UNCHANGED <<inode, nextInode, lines, part, mtime, writes, rows, cursors>>
      /\ UNCHANGED <<todo, lastPrune, now, whole, storedAt, polled, refusedAt>>
  BY DEF ScanFails, diskVars, storeVars, historyVars
<1>2. Tally' = Tally
  BY <1>1, TallyKept
<1>3. TypeOK'
  <2>1. faults \in 0..MaxFaults /\ MaxFaults \in Nat
    BY Numbers DEF TypeOK
  <2>2. faults' \in 0..MaxFaults
    BY <1>1, <2>1
  <2>. QED BY <1>1, <2>2, NoScanType DEF TypeOK, ScanType
<1>4. Held' /\ ScanSettled'
  BY <1>1, NoScanType DEF Held, ScanSettled, Scanning
<1>. QED BY <1>1, <1>2, <1>3, <1>4, PartsKept, CursorsKept

LEMMA CrashKeeps ==
  ASSUME Inv, Crash
  PROVE  Inv'
<1>. USE DEF Inv
<1>1. /\ faults < MaxFaults /\ faults' = faults + 1 /\ scan' = NoScan /\ pc' = "idle"
      /\ todo' = {} /\ lastPrune' = 0 - PruneEvery
      /\ UNCHANGED <<inode, nextInode, lines, part, mtime, writes, rows, cursors>>
      /\ UNCHANGED <<now, whole, storedAt, polled, refusedAt>>
  BY DEF Crash, diskVars, storeVars, historyVars
<1>2. Tally' = Tally
  BY <1>1, TallyKept
<1>3. PruneEvery \in Nat /\ MaxTime \in Nat /\ lastPrune' \in (0 - PruneEvery)..MaxTime
  BY <1>1, Numbers
<1>4. TypeOK'
  <2>1. faults \in 0..MaxFaults /\ MaxFaults \in Nat
    BY Numbers DEF TypeOK
  <2>2. faults' \in 0..MaxFaults
    BY <1>1, <2>1
  <2>. QED BY <1>1, <1>3, <2>2, NoScanType DEF TypeOK, ScanType
<1>5. Held' /\ ScanSettled'
  BY <1>1, NoScanType DEF Held, ScanSettled, Scanning
<1>6. Pruned'
  BY <1>1, <1>3, Types DEF Pruned
<1>. QED BY <1>1, <1>2, <1>4, <1>5, <1>6, PartsKept, CursorsKept

-----------------------------------------------------------------------------
(* The invariant, and the theorems.                                        *)

LEMMA InitInv == Init => Inv
<1>. SUFFICES ASSUME Init PROVE Inv
  OBVIOUS
<1>1. /\ {MaxOutput, MaxInode, MaxWrites, MaxFaults, MaxTime, PruneEvery} \subseteq Nat
      /\ 0 \in 0..MaxOutput /\ 0 \in 0..MaxInode /\ 0 \in 0..MaxWrites
      /\ 0 \in 0..MaxTime /\ 0 \in 0..MaxFaults
      /\ 1 \in 1..(MaxInode + 1) /\ 0 - PruneEvery \in (0 - PruneEvery)..MaxTime
  BY Numbers
<1>2. <<>> \in Seq(Line)
  OBVIOUS
<1>3. TypeOK
  <2>1. /\ inode \in [Files -> 0..MaxInode] /\ nextInode \in 1..(MaxInode + 1)
        /\ lines \in [Inodes -> Seq(Line)] /\ part \in [Inodes -> Line \cup {NoLine}]
        /\ mtime \in [Inodes -> 0..MaxWrites] /\ writes \in 0..MaxWrites /\ now \in 0..MaxTime
    BY <1>1, <1>2 DEF Init
  <2>2. /\ rows \in [Messages -> 0..MaxOutput] /\ cursors \in [Files -> Cursor \cup {<<>>}]
        /\ whole \in [Files -> 0..MaxInode] /\ storedAt \in [Messages -> 0..MaxTime]
        /\ polled \in 0..MaxTime /\ faults \in 0..MaxFaults
        /\ lastPrune \in (0 - PruneEvery)..MaxTime
        /\ refusedAt \in (0 - PruneEvery)..MaxTime
    BY <1>1 DEF Init
  <2>3. scan \in ScanType /\ todo \subseteq Files /\ pc = "idle"
    BY NoScanType DEF Init
  <2>. QED BY <2>1, <2>2, <2>3 DEF TypeOK, ScanType
<1>4. Disk
  <2>1. \A i \in Inodes : lines[i] = <<>> /\ part[i] = NoLine /\ Len(lines[i]) <= writes
    BY DEF Init
  <2>2. \A f \in Files : inode[f] = 0 /\ whole[f] = 0 /\ f \notin todo /\ nextInode = 1
    BY DEF Init
  <2>. QED BY <2>1, <2>2 DEF Disk
<1>5. Held /\ CursorsSettled /\ ScanSettled /\ OnlyWholeLines
  BY NoScanType DEF Init, Held, CursorsSettled, ScanSettled, Scanning, OnlyWholeLines
<1>6. Pruned
  BY <1>1 DEF Init, Pruned
<1>. QED BY <1>3, <1>4, <1>5, <1>6 DEF Inv

(* What a step may do to the table.                                        *)
RowsGrow == \A m \in Messages : rows'[m] < rows[m] => rows'[m] = 0 /\ Expired(m)

LEMMA NextInv ==
  ASSUME Inv, [Next]_vars
  PROVE  Inv' /\ RowsGrow
<1>. USE DEF Inv
<1>1. \A m \in Messages : rows[m] \in Nat
  BY Types
<1>2. ASSUME UNCHANGED rows PROVE RowsGrow
  BY <1>1, <1>2 DEF RowsGrow
<1>3. CASE Writers
  <2>1. Inv'
    BY <1>3, AppendLineKeeps, BeginLineKeeps, EndLineKeeps, ReplaceFileKeeps DEF Writers
  <2>2. UNCHANGED rows
    BY <1>3 DEF Writers, AppendLine, BeginLine, EndLine, ReplaceFile, Written, storeVars
  <2>. QED BY <1>2, <2>1, <2>2
<1>4. CASE Tick \/ ScanFails \/ Crash
  <2>1. Inv'
    BY <1>4, TickKeeps, ScanFailsKeeps, CrashKeeps
  <2>2. UNCHANGED rows
    BY <1>4 DEF Tick, ScanFails, Crash, storeVars
  <2>. QED BY <1>2, <2>1, <2>2
<1>5. CASE BeginPoll \/ (\E f \in Files : OpenFile(f)) \/ ReadChunk
             \/ (\E n \in 1..(MaxWrites + 1) : TakeLine(n)) \/ EndOfScan \/ SaveCursor
  <2>1. Inv'
    BY <1>5, BeginPollKeeps, OpenFileKeeps, ReadChunkKeeps, TakeLineKeeps, EndOfScanKeeps, SaveCursorKeeps
  <2>2. UNCHANGED rows
    BY <1>5 DEF BeginPoll, OpenFile, ReadChunk, TakeLine, EndOfScan, SaveCursor, storeVars
  <2>. QED BY <1>2, <2>1, <2>2
<1>6. CASE Flush
  <2>1. \A m \in Messages : rows'[m] >= rows[m] /\ rows'[m] \in Nat
    BY <1>6, FlushStores
  <2>2. RowsGrow
    BY <1>1, <2>1 DEF RowsGrow
  <2>. QED BY <1>6, <2>2, FlushKeeps
<1>7. CASE EndPoll
  <2>1. \A m \in Messages : rows'[m] = rows[m] \/ (rows'[m] = 0 /\ Expired(m))
    BY <1>7, EndPollKeeps
  <2>2. RowsGrow
    BY <1>1, <2>1 DEF RowsGrow
  <2>. QED BY <1>7, <2>2, EndPollKeeps
<1>8. CASE UNCHANGED vars
  <2>1. /\ UNCHANGED <<inode, nextInode, lines, part, mtime, writes, rows, cursors>>
        /\ UNCHANGED <<pc, todo, scan, lastPrune, now, faults, whole, storedAt, polled, refusedAt>>
    BY <1>8 DEF vars, diskVars, storeVars, pollVars, historyVars
  <2>2. TypeOK'
    BY <2>1 DEF TypeOK
  <2>3. Tally' = Tally
    BY <2>1, TallyKept
  <2>. QED BY <1>2, <2>1, <2>2, <2>3, PartsKept, CursorsKept, ScanKept
<1>. QED BY <1>3, <1>4, <1>5, <1>6, <1>7, <1>8 DEF Next, Poller

LEMMA Invariance == Spec => []Inv
<1>1. Inv /\ [Next]_vars => Inv'
  BY NextInv
<1>. QED BY InitInv, <1>1, PTL DEF Spec

(* Whatever is stored was once a whole line of a transcript: lines being   *)
(* written are put off, and a line whose start was not read is skipped.    *)
THEOREM RowsSafe == Spec => []RowsOK
<1>1. Inv => RowsOK
  BY DEF Inv, RowsOK
<1>. QED BY Invariance, <1>1, PTL

(* A cursor moves past a line only when the line is in the table or too    *)
(* old for it, whatever fails or dies between storing the rows and saving  *)
(* the cursor, and however the file grows while it is read.                *)
THEOREM CursorsSafe == Spec => []NothingSkipped
<1>1. Inv => NothingSkipped
  <2>. SUFFICES ASSUME Inv, NEW f \in Files, cursors[f] # <<>>, whole[f] # 0,
                       NEW n \in 1..Len(lines[whole[f]]),
                       Upto(whole[f], n) <= cursors[f].offset, lines[whole[f]][n] \in Row
                PROVE  Counted(lines[whole[f]][n])
    BY DEF NothingSkipped
  <2>1. Settled(lines[whole[f]], cursors[f].offset, Tally)
    BY DEF Inv, CursorsSettled
  <2>2. Bytes(lines[whole[f]], n) <= cursors[f].offset
    BY InTerms
  <2>3. lines[whole[f]][n] \in Tally
    BY <2>1, <2>2 DEF Settled
  <2>. QED BY <2>3 DEF Tally
<1>. QED BY Invariance, <1>1, PTL

(* After a poll, a row older than the window and the interval between two  *)
(* prunes came in less than one interval ago, unless a prune was refused   *)
(* less than one interval ago.                                             *)
THEOREM OverstaySafe == Spec => []OverstayIsBounded
<1>1. Inv => OverstayIsBounded
  BY DEF Inv, Pruned, OverstayIsBounded
<1>. QED BY Invariance, <1>1, PTL

(* No step lowers what is stored for a message, except the prune, which    *)
(* removes a message that is too old.                                      *)
THEOREM OutputSafe == Spec => OutputOnlyGrows
<1>1. Inv /\ [Next]_vars => [RowsGrow]_vars
  BY NextInv
<1>. QED BY Invariance, <1>1, PTL DEF Spec, OutputOnlyGrows, RowsGrow
==============================================================================
