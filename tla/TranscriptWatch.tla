-------------------------- MODULE TranscriptWatch --------------------------
(***************************************************************************)
(* WebServer::scanTranscriptsForNotifications (src/src/WebServer.cxx): the *)
(* thread that watches the transcripts of agent conversations and turns    *)
(* "the agent asks" and "the agent has answered" into events.              *)
(*                                                                         *)
(* A transcript is the sequence of its steps, each known by its index and  *)
(* by what it means to the watcher:                                        *)
(*   user      USER_INPUT                                                  *)
(*   work      tool calls, or a reply that waits for a background task     *)
(*   running   a step whose status is not yet DONE                         *)
(*   question  ask_question or a request for feedback                      *)
(*   reply     a last PLANNER_RESPONSE without tool calls, or a CHECKPOINT *)
(* Agents write while the watcher looks at the file's time and size and,   *)
(* later, reads it.  An untouched file is skipped: dirty[f] says that time *)
(* or size differ from what the watcher recorded.  The two loops of the    *)
(* code (Antigravity; Claude and Cursor) differ in parsing only and are    *)
(* one action here; transcripts of subagents are left out.                 *)
(***************************************************************************)
EXTENDS AgentEvents

CONSTANTS
  Settle,   \* AIMON_NOTIFICATION_SETTLE_MS, in ticks
  MaxLen,   \* bound on the steps of a transcript
  Scanner,  \* the notification thread
  NoConv    \* no transcript

ASSUME WatchAssumption ==
  /\ Settle \in Nat
  /\ MaxLen \in Nat \ {0, 1}    \* transcripts start with up to two steps
  /\ Steps = 1..MaxLen
  /\ Scanner \in Senders
  /\ {"agent_question", "prompt_answered"} \subseteq Kinds
  /\ NoConv \notin Convs

StepKinds == {"user", "work", "running", "question", "reply"}

VARIABLES
  steps,       \* external: the transcript
  dirty,       \* the file changed since its time and size were recorded
  old,         \* the file was last written more than 900 s ago
  tracked,     \* the keys of _watchedTranscripts
  notified,    \* lastNotifiedStepIndex
  pending,     \* pendingStepIndex; 0 for none
  waited,      \* time since pendingSince, up to Settle
  reading,     \* the transcript about to be read, or NoConv
  toSeed,      \* transcripts start() has still to look at
  settled,     \* history: time since the last step was written
  atStart,     \* history: length of the transcript at startup
  oldAtStart,  \* history: the transcript was too old to be seeded
  fired        \* history: the events handed to the gateway

fileVars == <<steps, dirty, old>>
watchVars == <<tracked, notified, pending, waited, reading, toSeed>>
vars == <<evVars, fileVars, watchVars, settled, atStart, oldAtStart, fired>>

TypeOK ==
  /\ EvTypeOK
  /\ steps \in [Convs -> Seq(StepKinds)]
  /\ dirty \in [Convs -> BOOLEAN]
  /\ old \in [Convs -> BOOLEAN]
  /\ tracked \subseteq Convs
  /\ notified \in [Convs -> 0..MaxLen]
  /\ pending \in [Convs -> 0..MaxLen]
  /\ waited \in [Convs -> 0..Settle]
  /\ reading \in Convs \cup {NoConv}
  /\ toSeed \subseteq Convs
  /\ settled \in [Convs -> 0..Settle]
  /\ fired \in Seq(Event)

Earlier == {<<>>, <<"user", "reply">>, <<"user", "running">>}

Init ==
  /\ EvInit
  /\ steps \in [Convs -> Earlier]
  /\ dirty = [f \in Convs |-> TRUE]
  /\ old \in [Convs -> BOOLEAN]
  /\ tracked = {}
  /\ notified = [f \in Convs |-> 0]
  /\ pending = [f \in Convs |-> 0]
  /\ waited = [f \in Convs |-> 0]
  /\ reading = NoConv
  /\ toSeed = Convs
  /\ settled = [f \in Convs |-> 0]
  /\ atStart = [f \in Convs |-> Len(steps[f])]
  /\ oldAtStart = old
  /\ fired = <<>>

Last(f) == IF steps[f] = <<>> THEN "none" ELSE steps[f][Len(steps[f])]

-----------------------------------------------------------------------------
(* External: the agents.                                                   *)

Written(f) ==
  /\ dirty' = [dirty EXCEPT ![f] = TRUE]
  /\ old' = [old EXCEPT ![f] = FALSE]
  /\ settled' = [settled EXCEPT ![f] = 0]
  /\ UNCHANGED <<evVars, watchVars, atStart, oldAtStart, fired>>

AppendStep(f) ==
  /\ Len(steps[f]) < MaxLen
  /\ Last(f) # "running"
  /\ \E k \in StepKinds :
       /\ steps[f] = <<>> => k = "user"
       /\ steps' = [steps EXCEPT ![f] = Append(@, k)]
  /\ Written(f)

(* A running step is done; its line is written again.                      *)
FinishStep(f) ==
  /\ Last(f) = "running"
  /\ \E k \in {"work", "question", "reply"} :
       steps' = [steps EXCEPT ![f] = [@ EXCEPT ![Len(steps[f])] = k]]
  /\ Written(f)

-----------------------------------------------------------------------------
(* The watcher.                                                            *)

Ready == reading = NoConv /\ pushing[Scanner] = 0

(* A file first seen when it is too old is passed over.                    *)
Watched(f) == f \in tracked \/ ~old[f]

(* Mutated form: an untouched file is always skipped.                      *)
LookAt_SkipsPending(f) ==
  /\ Ready
  /\ Watched(f)
  /\ IF toSeed # {} THEN f \in toSeed ELSE dirty[f]
  /\ tracked' = tracked \cup {f}
  /\ dirty' = [dirty EXCEPT ![f] = FALSE]
  /\ reading' = f
  /\ UNCHANGED <<evVars, steps, old, notified, pending, waited, toSeed,
                 settled, atStart, oldAtStart, fired>>

(* Time and size are looked at and recorded; a file that is unchanged is   *)
(* skipped unless a reply in it waits to settle.                           *)
LookAt(f) ==
  /\ Ready
  /\ Watched(f)
  /\ IF toSeed # {} THEN f \in toSeed ELSE dirty[f] \/ pending[f] # 0
  /\ tracked' = tracked \cup {f}
  /\ dirty' = [dirty EXCEPT ![f] = FALSE]
  /\ reading' = f
  /\ UNCHANGED <<evVars, steps, old, notified, pending, waited, toSeed,
                 settled, atStart, oldAtStart, fired>>

PassOver(f) ==
  /\ Ready
  /\ f \in toSeed
  /\ ~Watched(f)
  /\ toSeed' = toSeed \ {f}
  /\ UNCHANGED <<evVars, fileVars, tracked, notified, pending, waited,
                 reading, settled, atStart, oldAtStart, fired>>

(* Nothing to tell about f now.                                            *)
Quiet(f) ==
  /\ pending' = [pending EXCEPT ![f] = 0]
  /\ UNCHANGED <<evVars, notified, waited, fired>>

(* Mutated form: the next step counts as announced too.                    *)
Fire_NextStep(f, kind) ==
  LET ev == [conv |-> f, step |-> Len(steps[f]), kind |-> kind] IN
  /\ notified' = [notified EXCEPT ![f] = Len(steps[f]) + 1]
  /\ pending' = [pending EXCEPT ![f] = 0]
  /\ fired' = Append(fired, ev)
  /\ Record(Scanner, ev)
  /\ UNCHANGED waited

Fire(f, kind) ==
  LET ev == [conv |-> f, step |-> Len(steps[f]), kind |-> kind] IN
  /\ notified' = [notified EXCEPT ![f] = Len(steps[f])]
  /\ pending' = [pending EXCEPT ![f] = 0]
  /\ fired' = Append(fired, ev)
  /\ Record(Scanner, ev)
  /\ UNCHANGED waited

(* Mutated form: the length is not taken.                                  *)
SeedTranscript_TimeOnly(f) ==
  /\ reading = f
  /\ f \in toSeed
  /\ pending' = [pending EXCEPT ![f] = 0]
  /\ toSeed' = toSeed \ {f}
  /\ reading' = NoConv
  /\ UNCHANGED <<evVars, fileVars, tracked, notified, waited, settled,
                 atStart, oldAtStart, fired>>

(* The transcript is read: the first time only its length is taken.        *)
SeedTranscript(f) ==
  /\ reading = f
  /\ f \in toSeed
  /\ IF "user" \in {steps[f][i] : i \in DOMAIN steps[f]}
     THEN notified' = [notified EXCEPT ![f] = Len(steps[f])]
     ELSE UNCHANGED notified
  /\ pending' = [pending EXCEPT ![f] = 0]
  /\ toSeed' = toSeed \ {f}
  /\ reading' = NoConv
  /\ UNCHANGED <<evVars, fileVars, tracked, waited, settled, atStart,
                 oldAtStart, fired>>

(* Mutated form: a newer reply inherits the time of the one before it.     *)
HoldBack_OldTimer(f) ==
  /\ waited' = [waited EXCEPT ![f] = IF pending[f] = 0 THEN 0 ELSE @]
  /\ pending' = [pending EXCEPT ![f] = Len(steps[f])]
  /\ waited'[f] < Settle
  /\ UNCHANGED <<evVars, notified, fired>>

(* A reply is held back until it has been the last step for Settle.        *)
HoldBack(f) ==
  /\ waited' = [waited EXCEPT ![f] = IF pending[f] = Len(steps[f]) THEN @ ELSE 0]
  /\ pending' = [pending EXCEPT ![f] = Len(steps[f])]
  /\ waited'[f] < Settle
  /\ UNCHANGED <<evVars, notified, fired>>

(* Mutated form: the step is not remembered.                               *)
ReadTranscript_Forgets(f) ==
  /\ reading = f
  /\ f \notin toSeed
  /\ reading' = NoConv
  /\ IF Last(f) = "question" /\ nextSeq < MaxSeq
     THEN /\ fired' = Append(fired, [conv |-> f, step |-> Len(steps[f]),
                                     kind |-> "agent_question"])
          /\ UNCHANGED <<evVars, notified, pending, waited>>
     ELSE Quiet(f)
  /\ UNCHANGED <<fileVars, tracked, toSeed, settled, atStart, oldAtStart>>

ReadTranscript(f) ==
  /\ reading = f
  /\ f \notin toSeed
  /\ reading' = NoConv
  /\ IF Len(steps[f]) <= notified[f]
     THEN Quiet(f)
     ELSE CASE Last(f) = "question" -> Fire(f, "agent_question")
            [] Last(f) = "reply" ->
                 IF Settle = 0 \/ (pending[f] = Len(steps[f]) /\ waited[f] = Settle)
                 THEN Fire(f, "prompt_answered")
                 ELSE HoldBack(f)
            [] OTHER -> Quiet(f)
  /\ UNCHANGED <<fileVars, tracked, toSeed, settled, atStart, oldAtStart>>

PushEvent(s) ==
  /\ Push(s)
  /\ UNCHANGED <<fileVars, watchVars, settled, atStart, oldAtStart, fired>>

(* A web worker hands the gateway a test event, which has no step.  The    *)
(* bound leaves numbers for the steps of the transcripts.                  *)
TestEvent(s) ==
  /\ s # Scanner /\ nextSeq + MaxLen < MaxSeq
  /\ \E f \in Convs : Record(s, [conv |-> f, step |-> NoStep, kind |-> "prompt_answered"])
  /\ UNCHANGED <<fileVars, watchVars, settled, atStart, oldAtStart, fired>>

PollEvents(p) ==
  /\ Poll(p)
  /\ UNCHANGED <<fileVars, watchVars, settled, atStart, oldAtStart, fired>>

(* The daemon starts again: the watcher and the ring forget everything.    *)
Restart ==
  /\ \A p \in Pollers : fresh[p]    \* bound: once
  /\ ResetEvents
  /\ dirty' = [f \in Convs |-> TRUE]
  /\ tracked' = {} /\ reading' = NoConv /\ toSeed' = Convs
  /\ notified' = [f \in Convs |-> 0]
  /\ pending' = [f \in Convs |-> 0] /\ waited' = [f \in Convs |-> 0]
  /\ atStart' = [f \in Convs |-> Len(steps[f])] /\ oldAtStart' = old
  /\ fired' = <<>>
  /\ UNCHANGED <<steps, old, settled>>

(* External: the steady clock.                                             *)
Tick ==
  /\ waited' = [f \in Convs |-> IF waited[f] < Settle /\ pending[f] # 0
                                THEN waited[f] + 1 ELSE waited[f]]
  /\ settled' = [f \in Convs |-> IF settled[f] < Settle
                                 THEN settled[f] + 1 ELSE settled[f]]
  /\ UNCHANGED <<evVars, fileVars, tracked, notified, pending, reading, toSeed,
                 atStart, oldAtStart, fired>>

-----------------------------------------------------------------------------

Watch(f) == LookAt(f) \/ PassOver(f)
Read(f)  == SeedTranscript(f) \/ ReadTranscript(f)

Next ==
  \/ \E f \in Convs : AppendStep(f) \/ FinishStep(f) \/ Watch(f) \/ Read(f)
  \/ \E s \in Senders : PushEvent(s) \/ TestEvent(s)
  \/ \E p \in Pollers : PollEvents(p)
  \/ Restart
  \/ Tick

Spec == Init /\ [][Next]_vars

(* The thread goes through all transcripts every 500 ms, so each of them   *)
(* has its turn again and again (strong fairness: it may look at one only  *)
(* when it is not reading another).  Agents need not write anything.       *)
Fairness ==
  /\ \A f \in Convs : SF_vars(Watch(f)) /\ WF_vars(Read(f))
  /\ \A s \in Senders : WF_vars(PushEvent(s))
  /\ WF_vars(Tick)

FairSpec == Spec /\ Fairness

-----------------------------------------------------------------------------

(* No step is announced twice, though its file is read again whenever it   *)
(* grows and while a reply settles (11921-11929, 12007-12009).             *)
NoStepTwice ==
  \A i, j \in DOMAIN fired :
    i # j /\ fired[i].conv = fired[j].conv => fired[i].step # fired[j].step

(* A reply is announced only when nothing was written to the transcript    *)
(* for Settle, although the file is read at other times than it is looked  *)
(* at (12024-12047).                                                       *)
OnlySettledReplies ==
  [][Len(fired') > Len(fired) /\ fired'[Len(fired')].kind = "prompt_answered" =>
       LET f == fired'[Len(fired')].conv IN
       settled[f] = Settle /\ fired'[Len(fired')].step = Len(steps[f])]_vars

(* "Seed pre-existing transcript steps so historical turns do not fire     *)
(* alerts on startup" (11554): unless the file was too old to be looked at.*)
HistoryIsQuiet ==
  \A i \in DOMAIN fired :
    LET f == fired[i].conv IN oldAtStart[f] \/ fired[i].step > atStart[f]

(* A question or a reply that stays the last step is announced, whatever   *)
(* was written between the look at the file and the reading of it, unless  *)
(* it was there when the watcher first read the transcript.                *)
Waiting(f) ==
  /\ toSeed = {}
  /\ Last(f) \in {"question", "reply"}
  /\ Len(steps[f]) > notified[f]
  /\ Watched(f)

LastStepAnnounced ==
  \A f \in Convs : \A n \in Steps :
    (Waiting(f) /\ Len(steps[f]) = n) ~> (notified[f] >= n \/ Len(steps[f]) > n)

(* Variables keep their types; no step is announced twice, the ring holds  *)
(* the latest events, and each of them is pushed to the streams once.      *)
AnnouncedOnce == TypeOK /\ RingIsRecent /\ PushedOnce /\ NoStepTwice

=============================================================================
