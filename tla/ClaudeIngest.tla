---------------------------- MODULE ClaudeIngest ----------------------------
(***************************************************************************)
(* ClaudeCollector::fetchStatus and scanFile (src/src/ClaudeCollector.cxx) *)
(* with ClaudeUsageStore (src/src/ClaudeUsageStore.cxx): how usage lines   *)
(* of growing transcripts get into the table of messages.                  *)
(*                                                                         *)
(* A transcript is read from where its cursor stands.  Rows are stored in  *)
(* batches, each one transaction, and the cursor is saved last, so that a  *)
(* crash or a failure in between has the same lines read again; the table  *)
(* keeps one row per message, with the greatest output.  Agents append to  *)
(* a file, or replace it, while it is being read: an open descriptor       *)
(* follows the inode, not the name.                                        *)
(*                                                                         *)
(* Bytes: a line with usage, or one without, is 2 units long, and 1 as     *)
(* long as its newline is missing; a Long line has LongLen units.  A       *)
(* row's time depends on its message only.  One account; what rows cost    *)
(* and how they are summed up is left out.                                 *)
(***************************************************************************)
EXTENDS Integers, FiniteSets, Sequences

CONSTANTS
  Files,        \* transcript paths
  Messages,     \* keys (message id, request id)
  MaxOutput,    \* bound on a row's output tokens
  Line,         \* the lines agents write: rows, Junk and Long
  StampOf,      \* the time of each message's rows
  LongLen,      \* length of a Long line
  PollLimit,    \* kMaxBytesPerFilePerPoll
  BatchRows,    \* kBatchRows
  Retention,    \* retentionDays
  PruneEvery,   \* kPruneEveryNSec
  MaxInode,     \* bound on the files ever made
  MaxWrites,    \* bound on the writes to transcripts
  MaxFaults,    \* bound on crashes and failures
  MaxTime,      \* bound on the clock
  Junk, Long, NoLine, NoFile

Row    == [msg : Messages, output : 1..MaxOutput]
Inodes == 1..MaxInode

ASSUME IngestAssumption ==
  /\ {MaxOutput, LongLen, PollLimit, BatchRows, Retention, PruneEvery,
      MaxInode, MaxWrites, MaxFaults, MaxTime} \subseteq Nat
  /\ LongLen > PollLimit
  /\ PollLimit > 1
  /\ BatchRows > 0
  /\ PruneEvery > 0
  /\ StampOf \in [Messages -> Int]
  /\ Line \subseteq Row \cup {Junk, Long}
  /\ NoLine \notin Line
  /\ NoFile \notin Files

VARIABLES
  inode,      \* external: the file each path names; 0 for none
  nextInode,  \* external: the next file to be made
  lines,      \* external: the complete lines of each file
  part,       \* external: its last line, when the newline is missing
  mtime,      \* external: the number of the write that changed it last
  writes,     \* external: number of writes so far
  now,        \* external: the clock
  rows,       \* claude_usage_rows: the output stored per message; 0 for none
  cursors,    \* claude_file_cursors
  pc,         \* where fetchStatus is
  todo,       \* transcripts this poll has still to scan
  scan,       \* locals of scanFile
  lastPrune,  \* _lastPruneEpoch
  faults,     \* number of crashes and failures so far
  whole,      \* history: the inode a cursor counts, 0 if more than one
  storedAt,   \* history: when the row of a message was inserted
  polled,     \* history: the time of the last poll that ended
  refusedAt   \* history: when the last prune was refused; before the first
              \* poll if it was carried out

diskVars   == <<inode, nextInode, lines, part, mtime, writes>>
storeVars  == <<rows, cursors>>
pollVars   == <<pc, todo, scan, lastPrune>>
historyVars == <<whole, storedAt, polled, refusedAt>>
vars == <<diskVars, storeVars, pollVars, now, faults, historyVars>>

-----------------------------------------------------------------------------

Length(l) == IF l = Long THEN LongLen ELSE 2

(* Bytes of the first n lines of file i.                                   *)
Upto(i, n) ==
  2 * n + (LongLen - 2) * Cardinality({m \in 1..n : lines[i][m] = Long})

Size(i) == Upto(i, Len(lines[i]))
             + IF part[i] = NoLine THEN 0 ELSE Length(part[i]) - 1

Offsets == 0..(LongLen * (MaxWrites + 1))

Cursor == [offset : Offsets, size : Offsets, mtime : 0..MaxWrites]

NoScan == [file |-> NoFile, inode |-> 0, size |-> 0, mtime |-> 0, from |-> 0,
           position |-> 0, committed |-> 0, batch |-> {}]

TypeOK ==
  /\ inode \in [Files -> 0..MaxInode]
  /\ nextInode \in 1..(MaxInode + 1)
  /\ lines \in [Inodes -> Seq(Line)]
  /\ part \in [Inodes -> Line \cup {NoLine}]
  /\ mtime \in [Inodes -> 0..MaxWrites]
  /\ writes \in 0..MaxWrites
  /\ now \in 0..MaxTime
  /\ rows \in [Messages -> 0..MaxOutput]
  /\ cursors \in [Files -> Cursor \cup {<<>>}]
  /\ pc \in {"idle", "walk", "read", "flush", "lastflush", "save"}
  /\ todo \subseteq Files
  /\ scan \in [file : Files \cup {NoFile}, inode : 0..MaxInode,
               size : Offsets, mtime : 0..MaxWrites, from : Offsets,
               position : Offsets, committed : Offsets, batch : SUBSET Row]
  /\ lastPrune \in (0 - PruneEvery)..MaxTime
  /\ faults \in 0..MaxFaults
  /\ whole \in [Files -> 0..MaxInode]
  /\ storedAt \in [Messages -> 0..MaxTime]
  /\ polled \in 0..MaxTime
  /\ refusedAt \in (0 - PruneEvery)..MaxTime

Init ==
  /\ inode = [f \in Files |-> 0]
  /\ nextInode = 1
  /\ lines = [i \in Inodes |-> <<>>]
  /\ part = [i \in Inodes |-> NoLine]
  /\ mtime = [i \in Inodes |-> 0]
  /\ writes = 0
  /\ now = 0
  /\ rows = [m \in Messages |-> 0]
  /\ cursors = [f \in Files |-> <<>>]
  /\ pc = "idle"
  /\ todo = {}
  /\ scan = NoScan
  /\ lastPrune = 0 - PruneEvery
  /\ faults = 0
  /\ whole = [f \in Files |-> 0]
  /\ storedAt = [m \in Messages |-> 0]
  /\ polled = 0
  /\ refusedAt = 0 - PruneEvery

-----------------------------------------------------------------------------
(* External: agents write transcripts, and time passes between polls.      *)

Written(i) ==
  /\ writes < MaxWrites
  /\ writes' = writes + 1
  /\ mtime' = [mtime EXCEPT ![i] = writes + 1]
  /\ UNCHANGED <<storeVars, pollVars, now, faults, historyVars>>

AppendLine(f, l) ==
  /\ inode[f] # 0
  /\ part[inode[f]] = NoLine
  /\ lines' = [lines EXCEPT ![inode[f]] = Append(@, l)]
  /\ Written(inode[f])
  /\ UNCHANGED <<inode, nextInode, part>>

BeginLine(f, l) ==
  /\ inode[f] # 0
  /\ part[inode[f]] = NoLine
  /\ part' = [part EXCEPT ![inode[f]] = l]
  /\ Written(inode[f])
  /\ UNCHANGED <<inode, nextInode, lines>>

EndLine(f) ==
  /\ inode[f] # 0
  /\ part[inode[f]] # NoLine
  /\ lines' = [lines EXCEPT ![inode[f]] = Append(@, part[inode[f]])]
  /\ part' = [part EXCEPT ![inode[f]] = NoLine]
  /\ Written(inode[f])
  /\ UNCHANGED <<inode, nextInode>>

(* A new file under the path, with one line.                               *)
ReplaceFile(f, l) ==
  /\ nextInode <= MaxInode
  /\ nextInode' = nextInode + 1
  /\ inode' = [inode EXCEPT ![f] = nextInode]
  /\ lines' = [lines EXCEPT ![nextInode] = <<l>>]
  /\ Written(nextInode)
  /\ UNCHANGED part

Tick ==
  /\ pc = "idle"
  /\ now < MaxTime
  /\ now' = now + 1
  /\ UNCHANGED <<diskVars, storeVars, pollVars, faults, historyVars>>

-----------------------------------------------------------------------------
(* fetchStatus and scanFile.                                               *)

BeginPoll ==
  /\ pc = "idle"
  /\ pc' = "walk"
  /\ todo' = {f \in Files : inode[f] # 0}
  /\ UNCHANGED <<diskVars, storeVars, scan, lastPrune, now, faults,
                 historyVars>>

(* fstat, and where to read from: the cursor, or the start if the file has *)
(* shrunk below it; a file of the cursor's size and time is skipped.       *)
OpenFile(f) ==
  /\ pc = "walk"
  /\ f \in todo
  /\ todo' = todo \ {f}
  /\ LET i == inode[f]
         c == cursors[f]
         from == IF c # <<>> /\ Size(i) >= c.offset THEN c.offset ELSE 0
         unchanged == c # <<>> /\ c.size = Size(i) /\ c.mtime = mtime[i]
     IN IF unchanged /\ from = c.offset
        THEN UNCHANGED <<pc, scan>>
        ELSE /\ scan' = [file |-> f, inode |-> i, size |-> Size(i),
                         mtime |-> mtime[i], from |-> from,
                         position |-> from, committed |-> from, batch |-> {}]
             /\ pc' = "read"
  /\ UNCHANGED <<diskVars, storeVars, lastPrune, now, faults, historyVars>>

HitLimit == scan.position - scan.from >= PollLimit

(* The next line whose newline has been read.                              *)
NextLine ==
  LET i == scan.inode IN
  {n \in 1..Len(lines[i]) : /\ Upto(i, n) > scan.committed
                            /\ Upto(i, n) <= scan.position
                            /\ Upto(i, n - 1) <= scan.committed}

(* read(): up to the limit, or to what is now the end of the file, which   *)
(* may be past the size fstat saw.                                         *)
ReadChunk ==
  /\ pc = "read"
  /\ NextLine = {}
  /\ ~HitLimit
  /\ scan.position < Size(scan.inode)
  /\ \E p \in {Size(scan.inode), scan.from + PollLimit} :
       /\ p <= Size(scan.inode)
       /\ p <= scan.from + PollLimit
       /\ scan' = [scan EXCEPT !.position = p]
  /\ UNCHANGED <<diskVars, storeVars, pc, todo, lastPrune, now, faults,
                 historyVars>>

(* A line is parsed: usage goes into the batch, anything else, and the     *)
(* rest of a line whose start was not read, is skipped.                    *)
TakeLine(n) ==
  LET i == scan.inode
      unbroken == Upto(i, n - 1) = scan.committed
      batch == scan.batch \cup IF unbroken THEN {lines[i][n]} \cap Row ELSE {}
  IN
  /\ pc = "read"
  /\ n \in NextLine
  /\ scan' = [scan EXCEPT !.committed = Upto(i, n), !.batch = batch]
  /\ pc' = IF Cardinality(batch) >= BatchRows THEN "flush" ELSE "read"
  /\ UNCHANGED <<diskVars, storeVars, todo, lastPrune, now, faults,
                 historyVars>>

(* Mutated form: what is left when the file ends is parsed as a line.      *)
EndOfScan_Partial ==
  /\ pc = "read"
  /\ NextLine = {}
  /\ HitLimit \/ scan.position >= Size(scan.inode)
  /\ pc' = "lastflush"
  /\ scan' = [scan EXCEPT !.batch = @ \cup ({part[scan.inode]} \cap Row)]
  /\ UNCHANGED <<diskVars, storeVars, todo, lastPrune, now, faults,
                 historyVars>>

(* Nothing more to read now, or enough for one poll.                       *)
EndOfScan ==
  /\ pc = "read"
  /\ NextLine = {}
  /\ HitLimit \/ scan.position >= Size(scan.inode)
  /\ pc' = "lastflush"
  /\ UNCHANGED <<diskVars, storeVars, todo, scan, lastPrune, now, faults,
                 historyVars>>

Greatest(m, S) ==
  CHOOSE o \in 0..MaxOutput :
    /\ \A r \in S : r.msg = m => r.output <= o
    /\ o = 0 \/ \E r \in S : r = [msg |-> m, output |-> o]

(* Mutated form: the outputs of a repeated message add up.                 *)
Ingest_AddsUp(S) ==
  rows' = [m \in Messages |-> rows[m] + Greatest(m, S)]

(* Mutated form: a repeated message replaces what is stored.               *)
Ingest_LastWins(S) ==
  rows' = [m \in Messages |-> IF Greatest(m, S) > 0 THEN Greatest(m, S)
                                                   ELSE rows[m]]

(* One transaction: the row with the greatest output of a message stays.   *)
Ingest(S) ==
  rows' = [m \in Messages |-> IF Greatest(m, S) > rows[m]
                              THEN Greatest(m, S) ELSE rows[m]]

Flush ==
  /\ pc \in {"flush", "lastflush"}
  /\ Ingest(scan.batch)
  /\ storedAt' = [m \in Messages |-> IF rows[m] = 0 /\ rows'[m] > 0
                                     THEN now ELSE storedAt[m]]
  /\ scan' = [scan EXCEPT !.batch = {}]
  /\ pc' = IF pc = "flush" THEN "read" ELSE "save"
  /\ UNCHANGED <<diskVars, cursors, todo, lastPrune, now, faults,
                 whole, polled, refusedAt>>

(* Mutated form: a file that was not read to its end looks unchanged.      *)
SaveCursor_FullSize ==
  /\ pc = "save"
  /\ cursors' = [cursors EXCEPT ![scan.file] =
       [offset |-> scan.committed, size |-> scan.size, mtime |-> scan.mtime]]
  /\ whole' = [whole EXCEPT ![scan.file] =
       IF scan.from = 0 \/ @ = scan.inode THEN scan.inode ELSE 0]
  /\ scan' = NoScan
  /\ pc' = "walk"
  /\ UNCHANGED <<diskVars, rows, todo, lastPrune, now, faults,
                 storedAt, polled, refusedAt>>

(* Mutated form: what was read counts, up to its last byte.                *)
SaveCursor_AtSize ==
  /\ pc = "save"
  /\ cursors' = [cursors EXCEPT ![scan.file] =
       [offset |-> IF HitLimit THEN scan.committed ELSE scan.position,
        size |-> IF HitLimit THEN scan.committed ELSE scan.size,
        mtime |-> scan.mtime]]
  /\ whole' = [whole EXCEPT ![scan.file] =
       IF scan.from = 0 \/ @ = scan.inode THEN scan.inode ELSE 0]
  /\ scan' = NoScan
  /\ pc' = "walk"
  /\ UNCHANGED <<diskVars, rows, todo, lastPrune, now, faults,
                 storedAt, polled, refusedAt>>

(* The cursor stands after the last complete line; its size and time are   *)
(* those of fstat, so that whatever was written since shows up later.      *)
SaveCursor ==
  /\ pc = "save"
  /\ cursors' = [cursors EXCEPT ![scan.file] =
       [offset |-> scan.committed,
        size |-> IF HitLimit THEN scan.committed ELSE scan.size,
        mtime |-> scan.mtime]]
  /\ whole' = [whole EXCEPT ![scan.file] =
       IF scan.from = 0 \/ @ = scan.inode THEN scan.inode ELSE 0]
  /\ scan' = NoScan
  /\ pc' = "walk"
  /\ UNCHANGED <<diskVars, rows, todo, lastPrune, now, faults,
                 storedAt, polled, refusedAt>>

(* pruneOlderThan: the rows older than the window go.                      *)
Prune ==
  /\ rows' = [m \in Messages |-> IF StampOf[m] < now - Retention
                                 THEN 0 ELSE rows[m]]
  /\ refusedAt' = 0 - PruneEvery
  /\ UNCHANGED faults

(* It answers -1 (the DELETE is refused), and nobody looks.                *)
PruneRefused ==
  /\ faults < MaxFaults
  /\ faults' = faults + 1
  /\ refusedAt' = now
  /\ UNCHANGED rows

(* Mutated form: every poll counts as a prune.                             *)
EndPoll_Restarts ==
  /\ pc = "walk"
  /\ todo = {}
  /\ IF now - lastPrune >= PruneEvery
     THEN Prune \/ PruneRefused
     ELSE UNCHANGED <<rows, faults, refusedAt>>
  /\ lastPrune' = now
  /\ pc' = "idle"
  /\ polled' = now
  /\ UNCHANGED <<diskVars, cursors, todo, scan, now, whole, storedAt>>

(* Retention runs after ingestion, at most every PruneEvery; a refused     *)
(* prune counts as one.                                                    *)
EndPoll ==
  /\ pc = "walk"
  /\ todo = {}
  /\ IF now - lastPrune >= PruneEvery
     THEN (Prune \/ PruneRefused) /\ lastPrune' = now
     ELSE UNCHANGED <<rows, lastPrune, faults, refusedAt>>
  /\ pc' = "idle"
  /\ polled' = now
  /\ UNCHANGED <<diskVars, cursors, todo, scan, now, whole, storedAt>>

-----------------------------------------------------------------------------
(* Failures: reading, storing or saving fails and the file is given up for *)
(* this poll, without its cursor; or the daemon dies.                      *)

ScanFails ==
  /\ pc \in {"read", "flush", "lastflush", "save"}
  /\ faults < MaxFaults
  /\ faults' = faults + 1
  /\ scan' = NoScan
  /\ pc' = "walk"
  /\ UNCHANGED <<diskVars, storeVars, todo, lastPrune, now, historyVars>>

Crash ==
  /\ pc # "idle"
  /\ faults < MaxFaults
  /\ faults' = faults + 1
  /\ scan' = NoScan
  /\ pc' = "idle"
  /\ todo' = {}
  /\ lastPrune' = 0 - PruneEvery
  /\ UNCHANGED <<diskVars, storeVars, now, historyVars>>

-----------------------------------------------------------------------------

Writers ==
  \E f \in Files :
    \/ \E l \in Line : AppendLine(f, l) \/ BeginLine(f, l) \/ ReplaceFile(f, l)
    \/ EndLine(f)

Poller ==
  \/ BeginPoll
  \/ \E f \in Files : OpenFile(f)
  \/ ReadChunk
  \/ \E n \in 1..(MaxWrites + 1) : TakeLine(n)
  \/ EndOfScan
  \/ Flush
  \/ SaveCursor
  \/ EndPoll

Next == Writers \/ Tick \/ Poller \/ ScanFails \/ Crash

Spec == Init /\ [][Next]_vars

(* The poller thread goes on polling; nothing is assumed of the agents.    *)
FairSpec == Spec /\ WF_vars(Poller)

-----------------------------------------------------------------------------

RowsOf(i) == {lines[i][n] : n \in 1..Len(lines[i])} \cap Row
Expired(m) == StampOf[m] < now - Retention
Counted(r) == rows[r.msg] >= r.output \/ Expired(r.msg)

(* Every line before a cursor is in the table, or too old for it, whatever *)
(* crashed or failed between storing rows and saving cursors, and however  *)
(* the file grew meanwhile (scanFile 594-701).  The cursor of a file that  *)
(* was replaced by one no shorter than it counts two files: see below.     *)
NothingSkipped ==
  \A f \in Files :
    cursors[f] # <<>> /\ whole[f] # 0 =>
      LET i == whole[f] IN
      \A n \in 1..Len(lines[i]) :
        Upto(i, n) <= cursors[f].offset /\ lines[i][n] \in Row
          => Counted(lines[i][n])

(* What is stored was once a whole line of some transcript: lines that are *)
(* still being written are put off (scanFile 640-680).                     *)
OnlyWholeLines ==
  \A m \in Messages :
    rows[m] > 0 =>
      \E i \in Inodes : [msg |-> m, output |-> rows[m]] \in RowsOf(i)

(* Variables keep their types, and rows are whole lines.                   *)
RowsOK == TypeOK /\ OnlyWholeLines

(* A message is counted once, with the greatest of its streamed outputs:   *)
(* no repeat in another file and no line read again lowers it              *)
(* (ClaudeUsageStore::ingest 263-275).                                     *)
OutputOnlyGrows ==
  [][\A m \in Messages : rows'[m] < rows[m] => rows'[m] = 0 /\ Expired(m)]_vars

(* "Retention runs after ingestion so old lines never outlive their window"*)
(* (805), up to the interval between two prunings: when a poll has ended,  *)
(* a row that is older than that came in less than one interval ago.  A    *)
(* refused prune leaves everything for one more interval, and no longer.   *)
OverstayIsBounded ==
  pc = "idle" /\ polled = now /\ refusedAt <= now - PruneEvery =>
    \A m \in Messages :
      rows[m] > 0 =>
        \/ StampOf[m] >= now - Retention - PruneEvery
        \/ storedAt[m] > now - PruneEvery

(* Once the agents stop writing (MaxWrites), every whole line gets counted.*)
(* Two exceptions: a line longer than one poll reads, which is read again  *)
(* and again (622, 695), and a cursor that counts two files.               *)
Stuck(f) ==
  LET i == inode[f] IN
  \/ part[i] = Long
  \/ \E n \in 1..Len(lines[i]) : lines[i][n] = Long
  \/ cursors[f] # <<>> /\ whole[f] # i /\ cursors[f].offset <= Size(i)

Behind(f) ==
  inode[f] # 0 /\ ~Stuck(f) /\ \E r \in RowsOf(inode[f]) : ~Counted(r)

LinesGetCounted == <>[](\A f \in Files : ~Behind(f))

(* What is counted stays counted at its greatest, and all of it gets there.*)
CountedForGood == OutputOnlyGrows /\ LinesGetCounted

-----------------------------------------------------------------------------

(* Design.md 425, "shrunk or replaced files re-read": a file its cursor    *)
(* calls unchanged has been read.                                          *)
UnchangedMeansRead ==
  \A f \in Files :
    /\ inode[f] # 0
    /\ cursors[f] # <<>>
    /\ cursors[f].size = Size(inode[f])
    /\ cursors[f].mtime = mtime[inode[f]]
    => \A r \in RowsOf(inode[f]) : Counted(r)

=============================================================================
