-------------------------- MODULE EdaPluginsProofs --------------------------
(***************************************************************************)
(* Theorems about EdaPlugins, for any programs, tool calls, descriptor     *)
(* numbers and plugin connections.                                         *)
(***************************************************************************)
EXTENDS EdaPlugins, TLAPS

(* What the threads hold, by their steps.                                  *)
Held ==
  /\ reader = [s \in Ids |-> [at |-> reader[s].at, on |-> reader[s].on, fd |-> reader[s].fd]]
  /\ \A s \in Ids : /\ reader[s].at = "register" => reader[s].on \in Apps
                    /\ reader[s].at = "deliver" => reader[s].on \in Execs
                    /\ reader[s].fd # 0 => reader[s].at \in {"reading", "close"}
  /\ \A e \in Execs : exec[e].at \in {"picked", "send", "sending"} => exec[e].s \in Ids
  /\ main.at \in {"close", "clear"} => main.s \in Ids
  /\ main.fd # 0 => main.at = "close"

(* A call comes by a transport once.                                       *)
CameOnce ==
  \A c \in Calls :
    /\ call[c].at = "idle" => exec[<<c, "client">>].at = "none"
    /\ call[c].at \in {"idle", "client"} => exec[<<c, "gateway">>].at = "none"

BeforeSend == {"none", "queued", "admitted", "picked", "send", "sending"}

(* Only what was sent is at a plugin; only what has run is answered.       *)
Traces ==
  /\ \A e \in Execs : exec[e].at \in BeforeSend => e \notin ran /\ \A s \in Ids : e \notin got[s]
  /\ \A s \in Ids : answers[s] \subseteq ran
  /\ \A s \in Ids : reader[s].at = "deliver" => reader[s].on \in ran
  /\ \A e \in Execs : reply[e] = "result" => e \in ran

(* An outcome is had at the end of the wait.                               *)
OutcomesLate ==
  \A e \in Execs : /\ exec[e].at \notin {"woken", "done"} => exec[e].out = "none"
                   /\ exec[e].at = "woken" => exec[e].out \in {"timeout", "result", "stopped"}

(* The mutex of EasyEDA's tools.                                           *)
SerialAlone ==
  \A e, g \in Execs : e # g /\ AppOf(e) = AppOf(g) /\ AppOf(e) \in Serial
                      => ~(exec[e].at \in InHand /\ exec[g].at \in InHand)

Live == {"reading", "register", "deliver"}
Past == {"close", "clear", "done"}
MainAt(s) == main.at \in {"close", "clear"} /\ main.s = s

(* The life of a session, by the step of its reader.                       *)
Life ==
  /\ \A s, t \in Ids : s < t /\ reader[s].at \in {"none", "accepted"} => reader[t].at = "none"
  /\ \A s \in Ids :
       /\ reader[s].at = "none" => sess[s] = [app |-> NoApp, active |-> FALSE, sock |-> 0]
       /\ reader[s].at = "accepted" => sess[s].app = NoApp /\ sess[s].active
       /\ reader[s].at \in Live /\ ~sess[s].active /\ sess[s].sock # 0 => MainAt(s)
       /\ reader[s].at \in Past => ~sess[s].active
       /\ reader[s].at = "done" => sess[s].sock = 0
       /\ sess[s].active => sess[s].sock # 0
       /\ MainAt(s) => ~sess[s].active /\ reader[s].at \in Live \cup Past
       /\ MainAt(s) /\ reader[s].at \in Past => s \in twoClose
       /\ s \in twoClose => ~sess[s].active /\ reader[s].at \in Live \cup Past

(* A session or an older one was closed by its reader and main at a time.  *)
Shaken(s) == \E t \in twoClose : t <= s

(* A number in a session's hands is its own or a later connection's ...    *)
Later(f, s) == f # 0 => owner[f] = 0 \/ owner[f] >= s
NumbersAge ==
  /\ \A s \in Ids : Later(sess[s].sock, s) /\ Later(reader[s].fd, s)
  /\ main.at = "close" => Later(main.fd, main.s)
  /\ \A f \in Fds : owner[f] # 0 => reader[owner[f]].at # "none"

(* ... and its own for sure unless one of that age was closed by two.      *)
Own(f, s) == f # 0 => owner[f] = s
NumbersOwn ==
  \A s \in Ids : ~Shaken(s) =>
    /\ sess[s].active => Own(sess[s].sock, s)
    /\ reader[s].at = "close" => reader[s].fd = sess[s].sock /\ Own(reader[s].fd, s)
    /\ main.at = "close" /\ main.s = s => main.fd = sess[s].sock /\ Own(main.fd, s)

(* A request in hand is for a connection that was there.                   *)
Aimed ==
  \A e \in Execs :
    /\ exec[e].at \in {"picked", "send", "sending"} => reader[exec[e].s].at # "none"
    /\ exec[e].at \in {"send", "sending"} /\ sess[exec[e].s].active
         => exec[e].fd = sess[exec[e].s].sock

(* A registration under way at a switch is remembered, and main has still  *)
(* to come to any other session of the program.                            *)
OffOrSwept ==
  /\ \A s \in Ids : reader[s].at = "register" /\ ~enabled[reader[s].on] => s \in raced
  /\ \A s \in Ids : sess[s].active /\ sess[s].app # NoApp /\ ~enabled[sess[s].app]
       => \/ s \in raced \/ Stopping
          \/ ~PluginsFree /\ sess[s].app = main.app /\ s > main.s

-----------------------------------------------------------------------------
(* The reader of a session, after a step.                                  *)

LEMMA ReaderSet ==
  ASSUME Held, NEW s \in Ids, NEW a, NEW o, NEW f,
         reader' = [reader EXCEPT ![s] = [at |-> a, on |-> o, fd |-> f]]
  PROVE  /\ \A t \in Ids : reader'[t] = IF t = s THEN [at |-> a, on |-> o, fd |-> f] ELSE reader[t]
         /\ reader' = [t \in Ids |-> [at |-> reader'[t].at, on |-> reader'[t].on, fd |-> reader'[t].fd]]
<1>1. reader = [t \in Ids |-> [at |-> reader[t].at, on |-> reader[t].on, fd |-> reader[t].fd]]
  BY DEF Held
<1>2. DOMAIN reader = Ids
  BY <1>1
<1>3. \A t \in Ids : reader'[t] = IF t = s THEN [at |-> a, on |-> o, fd |-> f] ELSE reader[t]
  BY <1>2
<1>4. \A t \in Ids : reader[t] = [at |-> reader[t].at, on |-> reader[t].on, fd |-> reader[t].fd]
  BY <1>1
<1>5. \A t \in Ids : reader'[t] = [at |-> reader'[t].at, on |-> reader'[t].on, fd |-> reader'[t].fd]
  BY <1>3, <1>4
<1>6. reader' = [t \in Ids |-> reader'[t]]
  BY <1>2
<1>. QED BY <1>3, <1>5, <1>6

LEMMA ReaderAt ==
  ASSUME Held, NEW s \in Ids, NEW a, reader' = [reader EXCEPT ![s].at = a]
  PROVE  reader' = [reader EXCEPT ![s] = [at |-> a, on |-> reader[s].on, fd |-> reader[s].fd]]
<1>1. reader = [t \in Ids |-> [at |-> reader[t].at, on |-> reader[t].on, fd |-> reader[t].fd]]
  BY DEF Held
<1>2. reader[s] = [at |-> reader[s].at, on |-> reader[s].on, fd |-> reader[s].fd]
  BY <1>1
<1>3. [reader[s] EXCEPT !.at = a] = [at |-> a, on |-> reader[s].on, fd |-> reader[s].fd]
  BY <1>2
<1>. QED BY <1>3

-----------------------------------------------------------------------------
(* The inductive invariant, and its parts that a step leaves alone.        *)

SockTyped ==
  /\ sess \in [Ids -> [app : Apps \cup {NoApp}, active : BOOLEAN, sock : Fds \cup {0}]]
  /\ owner \in [Fds -> Ids \cup {0}]
ReaderTyped == \A s \in Ids : reader[s].at \in ReaderSteps /\ reader[s].fd \in Fds \cup {0}
PlugTyped == got \in [Ids -> SUBSET Execs] /\ answers \in [Ids -> SUBSET Execs] /\ ran \subseteq Execs
Outs == {"none", "refused", "unsent", "timeout", "result", "stopped", "headless", "lost"}
ExecTyped ==
  /\ exec \in [Execs -> [at : ExecSteps, s : Ids \cup {0}, fd : Fds \cup {0}, out : Outs]]
  /\ pending \subseteq {e \in Execs : exec[e].at \in InHand}
ReplyTyped == reply \in [Execs -> {"no", "result", "stopped"}]
CallTyped == call \in [Calls -> [app : Apps, at : {"idle", "client", "gateway", "ended"}]]
MainTyped ==
  /\ enabled \in [Apps -> BOOLEAN] /\ orders \in 0..MaxOrders /\ raced \subseteq Ids
  /\ main \in [at : MainSteps, app : Apps \cup {NoApp}, s : Ids \cup {0}, fd : Fds \cup {0}]
TwoTyped == twoClose \subseteq Ids

Inv ==
  /\ SockTyped /\ ReaderTyped /\ PlugTyped /\ ExecTyped /\ ReplyTyped /\ CallTyped
  /\ MainTyped /\ TwoTyped /\ Held /\ CameOnce /\ Traces /\ OutcomesLate /\ OutcomesAreTrue
  /\ SerialAlone /\ Life /\ NumbersAge /\ NumbersOwn /\ Aimed /\ OffOrSwept

LEMMA TypeParts ==
  Inv => TypeOK
  BY DEF Inv, TypeOK, SockTyped, ReaderTyped, PlugTyped, ExecTyped, ReplyTyped, CallTyped,
         MainTyped, TwoTyped, Outs

LEMMA TypedKept ==
  /\ SockTyped /\ UNCHANGED <<sess, owner>> => SockTyped'
  /\ ReaderTyped /\ UNCHANGED reader => ReaderTyped'
  /\ PlugTyped /\ UNCHANGED <<got, answers, ran>> => PlugTyped'
  /\ ExecTyped /\ UNCHANGED <<exec, pending>> => ExecTyped'
  /\ ReplyTyped /\ UNCHANGED reply => ReplyTyped'
  /\ CallTyped /\ UNCHANGED call => CallTyped'
  /\ MainTyped /\ UNCHANGED <<enabled, orders, raced, main>> => MainTyped'
  /\ TwoTyped /\ UNCHANGED twoClose => TwoTyped'
<1>1. SockTyped /\ UNCHANGED <<sess, owner>> => SockTyped'
  BY DEF SockTyped
<1>2. ReaderTyped /\ UNCHANGED reader => ReaderTyped'
  BY DEF ReaderTyped
<1>3. PlugTyped /\ UNCHANGED <<got, answers, ran>> => PlugTyped'
  BY DEF PlugTyped
<1>4. ExecTyped /\ UNCHANGED <<exec, pending>> => ExecTyped'
  BY DEF ExecTyped
<1>5. ReplyTyped /\ UNCHANGED reply => ReplyTyped'
  BY DEF ReplyTyped
<1>6. CallTyped /\ UNCHANGED call => CallTyped'
  BY DEF CallTyped
<1>7. MainTyped /\ UNCHANGED <<enabled, orders, raced, main>> => MainTyped'
  BY DEF MainTyped
<1>8. TwoTyped /\ UNCHANGED twoClose => TwoTyped'
  BY DEF TwoTyped
<1>. QED BY <1>1, <1>2, <1>3, <1>4, <1>5, <1>6, <1>7, <1>8

LEMMA Kept ==
  /\ Held /\ UNCHANGED <<reader, exec, main>> => Held'
  /\ CameOnce /\ UNCHANGED <<exec, call>> => CameOnce'
  /\ Traces /\ UNCHANGED <<exec, got, ran, answers, reader, reply>> => Traces'
  /\ OutcomesLate /\ UNCHANGED exec => OutcomesLate'
  /\ OutcomesAreTrue /\ UNCHANGED <<exec, got, ran, call>> => OutcomesAreTrue'
  /\ SerialAlone /\ UNCHANGED <<exec, call>> => SerialAlone'
<1>1. Held /\ UNCHANGED <<reader, exec, main>> => Held'
  BY DEF Held
<1>2. CameOnce /\ UNCHANGED <<exec, call>> => CameOnce'
  BY DEF CameOnce
<1>3. Traces /\ UNCHANGED <<exec, got, ran, answers, reader, reply>> => Traces'
  BY DEF Traces
<1>4. OutcomesLate /\ UNCHANGED exec => OutcomesLate'
  BY DEF OutcomesLate
<1>5. OutcomesAreTrue /\ UNCHANGED <<exec, got, ran, call>> => OutcomesAreTrue'
  BY DEF OutcomesAreTrue, AppOf
<1>6. SerialAlone /\ UNCHANGED <<exec, call>> => SerialAlone'
  BY DEF SerialAlone, AppOf
<1>. QED BY <1>1, <1>2, <1>3, <1>4, <1>5, <1>6

LEMMA SessionsKept ==
  /\ Life /\ UNCHANGED <<sess, reader, main, twoClose>> => Life'
  /\ NumbersAge /\ UNCHANGED <<sess, owner, reader, main>> => NumbersAge'
  /\ NumbersOwn /\ UNCHANGED <<sess, owner, reader, main, twoClose>> => NumbersOwn'
  /\ Aimed /\ UNCHANGED <<sess, reader, exec>> => Aimed'
  /\ OffOrSwept /\ UNCHANGED <<sess, reader, enabled, main, raced>> => OffOrSwept'
<1>1. Life /\ UNCHANGED <<sess, reader, main, twoClose>> => Life'
  BY DEF Life, MainAt
<1>2. NumbersAge /\ UNCHANGED <<sess, owner, reader, main>> => NumbersAge'
  BY DEF NumbersAge, Later
<1>3. NumbersOwn /\ UNCHANGED <<sess, owner, reader, main, twoClose>> => NumbersOwn'
  BY DEF NumbersOwn, Own, Shaken
<1>4. Aimed /\ UNCHANGED <<sess, reader, exec>> => Aimed'
  BY DEF Aimed
<1>5. OffOrSwept /\ UNCHANGED <<sess, reader, enabled, main, raced>> => OffOrSwept'
  BY DEF OffOrSwept, Stopping, PluginsFree
<1>. QED BY <1>1, <1>2, <1>3, <1>4, <1>5

LEMMA LifeOf ==
  ASSUME Life, NEW t \in Ids
  PROVE  /\ reader[t].at = "none" => sess[t] = [app |-> NoApp, active |-> FALSE, sock |-> 0]
         /\ reader[t].at = "accepted" => sess[t].app = NoApp /\ sess[t].active
         /\ reader[t].at \in Live /\ ~sess[t].active /\ sess[t].sock # 0 => MainAt(t)
         /\ reader[t].at \in Past => ~sess[t].active
         /\ reader[t].at = "done" => sess[t].sock = 0
         /\ sess[t].active => sess[t].sock # 0
         /\ MainAt(t) => ~sess[t].active /\ reader[t].at \in Live \cup Past
         /\ MainAt(t) /\ reader[t].at \in Past => t \in twoClose
         /\ t \in twoClose => ~sess[t].active /\ reader[t].at \in Live \cup Past
  BY DEF Life

-----------------------------------------------------------------------------
(* The readers' steps.                                                     *)

(* A reader that goes on leaves its session's number as it is.             *)
LEMMA GoesOn ==
  ASSUME Inv, NEW s \in Ids, NEW a \in Live, NEW o, NEW f \in {0, sess[s].sock},
         reader[s].at \in Live \cup {"accepted"},
         reader' = [reader EXCEPT ![s] = [at |-> a, on |-> o, fd |-> f]],
         \A t \in Ids : /\ sess'[t].active = sess[t].active /\ sess'[t].sock = sess[t].sock
                        /\ reader[t].at \in {"none", "accepted"} => sess'[t] = sess[t],
         UNCHANGED <<owner, exec, main, twoClose>>
  PROVE  ReaderTyped' /\ Life' /\ NumbersAge' /\ NumbersOwn' /\ Aimed'
<1>1. /\ \A t \in Ids : reader'[t] = IF t = s THEN [at |-> a, on |-> o, fd |-> f] ELSE reader[t]
      /\ a \in ReaderSteps
  BY ReaderSet DEF Inv, Live, ReaderSteps
<1>8. f \in Fds \cup {0}
  BY DEF Inv, SockTyped
<1>2. /\ \A t \in Ids : /\ reader'[t].at = IF t = s THEN a ELSE reader[t].at
                        /\ reader'[t].fd = reader[t].fd \/ (t = s /\ reader'[t].fd = f)
      /\ a \notin {"none", "accepted", "close", "clear", "done"} /\ reader[s].at \notin Past \cup {"none"}
  BY <1>1 DEF Live, Past
<1>3. ReaderTyped'
  BY <1>1, <1>8 DEF Inv, ReaderTyped
<1>4. Life'
  <2>1. Life /\ \A t \in Ids : MainAt(t)' = MainAt(t)
    BY DEF Inv, MainAt
  <2>2. \A t, u \in Ids : t < u /\ reader'[t].at \in {"none", "accepted"} => reader'[u].at = "none"
    BY <1>2, <2>1 DEF Life
  <2>3. ASSUME NEW t \in Ids PROVE
        /\ reader'[t].at = "none" => sess'[t] = [app |-> NoApp, active |-> FALSE, sock |-> 0]
        /\ reader'[t].at = "accepted" => sess'[t].app = NoApp /\ sess'[t].active
    <3>1. reader'[t].at \in {"none", "accepted"} => reader[t].at = reader'[t].at /\ sess'[t] = sess[t]
      BY <1>2
    <3>2. /\ reader[t].at = "none" => sess[t] = [app |-> NoApp, active |-> FALSE, sock |-> 0]
          /\ reader[t].at = "accepted" => sess[t].app = NoApp /\ sess[t].active
      BY <2>1 DEF Life
    <3>. QED BY <3>1, <3>2
  <2>4. ASSUME NEW t \in Ids PROVE
        /\ reader'[t].at \in Live /\ ~sess'[t].active /\ sess'[t].sock # 0 => MainAt(t)'
        /\ reader'[t].at \in Past => ~sess'[t].active
        /\ sess'[t].active => sess'[t].sock # 0
        /\ reader'[t].at = "done" => sess'[t].sock = 0
    BY <1>2, <2>1 DEF Life, Past
  <2>5. ASSUME NEW t \in Ids PROVE
        /\ MainAt(t)' => ~sess'[t].active /\ reader'[t].at \in Live \cup Past
        /\ MainAt(t)' /\ reader'[t].at \in Past => t \in twoClose'
        /\ t \in twoClose' => ~sess'[t].active /\ reader'[t].at \in Live \cup Past
    BY <1>2, <2>1 DEF Life, Past
  <2>. QED BY <2>2, <2>3, <2>4, <2>5 DEF Life
<1>5. NumbersAge'
  BY <1>2 DEF Inv, NumbersAge, Later, SockTyped
<1>6. NumbersOwn'
  BY <1>2 DEF Inv, NumbersOwn, Own, Shaken
<1>7. Aimed'
  BY <1>2 DEF Inv, Aimed, Held
<1>. QED BY <1>3, <1>4, <1>5, <1>6, <1>7

(* The number a reader that goes back to its loop reads.                   *)
LEMMA ReadsOnSets ==
  ASSUME NEW s \in Ids, ReadsOn(s)
  PROVE  \E f \in {0, sess[s].sock} :
           reader' = [reader EXCEPT ![s] = [at |-> "reading", on |-> "none", fd |-> f]]
  BY DEF ReadsOn

LEMMA ListedKeeps ==
  ASSUME Inv, NEW s \in Ids, Listed(s)
  PROVE  Inv'
<1>. USE DEF Inv
<1>1. /\ reader[s].at = "accepted"
      /\ UNCHANGED <<sess, owner, got, answers, ran, exec, pending, reply, call>>
      /\ UNCHANGED <<enabled, main, orders, raced, twoClose>>
  BY DEF Listed, sockVars, plugVars, execVars, mainVars
<1>2. PICK f \in {0, sess[s].sock} :
        reader' = [reader EXCEPT ![s] = [at |-> "reading", on |-> "none", fd |-> f]]
  BY ReadsOnSets DEF Listed
<1>4. ReaderTyped' /\ Life' /\ NumbersAge' /\ NumbersOwn' /\ Aimed'
  BY <1>1, <1>2, GoesOn DEF Live
<1>5. /\ \A t \in Ids : reader'[t] = IF t = s THEN [at |-> "reading", on |-> "none", fd |-> f]
                                               ELSE reader[t]
      /\ reader' = [t \in Ids |-> [at |-> reader'[t].at, on |-> reader'[t].on, fd |-> reader'[t].fd]]
  BY <1>2, ReaderSet
<1>6. Held'
  BY <1>1, <1>5 DEF Held
<1>7. Traces' /\ OffOrSwept'
  BY <1>1, <1>5 DEF Traces, OffOrSwept, Stopping, PluginsFree
<1>. QED BY <1>1, <1>4, <1>6, <1>7, TypedKept, Kept

LEMMA RegisterChecksKeeps ==
  ASSUME Inv, NEW s \in Ids, NEW a \in Apps, RegisterChecks(s, a)
  PROVE  Inv'
<1>. USE DEF Inv
<1>1. /\ reader' = [reader EXCEPT ![s] = [at |-> "register", on |-> a, fd |-> 0]]
      /\ reader[s].at = "reading" /\ enabled[a]
      /\ UNCHANGED <<sess, owner, got, answers, ran, exec, pending, reply, call>>
      /\ UNCHANGED <<enabled, main, orders, raced, twoClose>>
  BY DEF RegisterChecks, sockVars, plugVars, execVars, mainVars
<1>2. ReaderTyped' /\ Life' /\ NumbersAge' /\ NumbersOwn' /\ Aimed'
  BY <1>1, GoesOn DEF Live
<1>3. /\ \A t \in Ids : reader'[t] = IF t = s THEN [at |-> "register", on |-> a, fd |-> 0]
                                               ELSE reader[t]
      /\ reader' = [t \in Ids |-> [at |-> reader'[t].at, on |-> reader'[t].on, fd |-> reader'[t].fd]]
  BY <1>1, ReaderSet
<1>4. Held'
  BY <1>1, <1>3 DEF Held
<1>5. Traces' /\ OffOrSwept'
  BY <1>1, <1>3 DEF Traces, OffOrSwept, Stopping, PluginsFree
<1>. QED BY <1>1, <1>2, <1>4, <1>5, TypedKept, Kept

LEMMA RegisterSetsKeeps ==
  ASSUME Inv, NEW s \in Ids, RegisterSets(s)
  PROVE  Inv'
<1>. USE DEF Inv
<1>1. /\ sess' = [sess EXCEPT ![s].app = reader[s].on]
      /\ reader[s].at = "register"
      /\ UNCHANGED <<owner, got, answers, ran, exec, pending, reply, call>>
      /\ UNCHANGED <<enabled, main, orders, raced, twoClose>>
  BY DEF RegisterSets, sockVars, plugVars, execVars, mainVars
<1>9. PICK f \in {0, sess[s].sock} :
        reader' = [reader EXCEPT ![s] = [at |-> "reading", on |-> "none", fd |-> f]]
  BY ReadsOnSets DEF RegisterSets
<1>2. SockTyped'
  BY <1>1 DEF Held, SockTyped
<1>3. \A t \in Ids : /\ sess'[t].active = sess[t].active /\ sess'[t].sock = sess[t].sock
                     /\ t # s => sess'[t] = sess[t]
                     /\ sess'[s].app = reader[s].on
  BY <1>1 DEF SockTyped
<1>4. ReaderTyped' /\ Life' /\ NumbersAge' /\ NumbersOwn' /\ Aimed'
  BY <1>1, <1>3, <1>9, GoesOn DEF Live
<1>5. /\ \A t \in Ids : reader'[t] = IF t = s THEN [at |-> "reading", on |-> "none", fd |-> f]
                                               ELSE reader[t]
      /\ reader' = [t \in Ids |-> [at |-> reader'[t].at, on |-> reader'[t].on, fd |-> reader'[t].fd]]
  BY <1>9, ReaderSet
<1>6. Held'
  BY <1>1, <1>5 DEF Held
<1>7. Traces'
  BY <1>1, <1>5 DEF Traces
<1>8. OffOrSwept'
  BY <1>1, <1>3, <1>5 DEF OffOrSwept, Stopping, PluginsFree
<1>. QED BY <1>1, <1>2, <1>4, <1>6, <1>7, <1>8, TypedKept, Kept

LEMMA AnswerFindsKeeps ==
  ASSUME Inv, NEW s \in Ids, NEW e \in Execs, AnswerFinds(s, e)
  PROVE  Inv'
<1>. USE DEF Inv
<1>. DEFINE x == owner[reader[s].fd]
<1>1. /\ reader[s].at = "reading" /\ e \in answers[x]
      /\ answers' = [answers EXCEPT ![x] = @ \ {e}]
      /\ UNCHANGED <<sess, owner, got, ran, exec, pending, reply, call>>
      /\ UNCHANGED <<enabled, main, orders, raced, twoClose>>
  BY DEF AnswerFinds, Heard, sockVars, execVars, mainVars
<1>2. x \in Ids
  BY DEF AnswerFinds, Heard, Gone, ReaderTyped, SockTyped
<1>3. PlugTyped' /\ (\A t \in Ids : answers'[t] \subseteq answers[t]) /\ e \in ran
  BY <1>1, <1>2 DEF PlugTyped, Traces
<1>4. PICK a, o, f :
        /\ a \in {"reading", "deliver"} /\ f \in {0, sess[s].sock}
        /\ reader' = [reader EXCEPT ![s] = [at |-> a, on |-> o, fd |-> f]]
        /\ a = "deliver" => o = e /\ f = 0
  <2>. HIDE DEF Inv
  <2>1. CASE ReadsOn(s)
    BY <2>1, ReadsOnSets
  <2>2. CASE reader' = [reader EXCEPT ![s] = [at |-> "deliver", on |-> e, fd |-> 0]]
    BY <2>2
  <2>. QED BY <2>1, <2>2 DEF AnswerFinds
<1>5. ReaderTyped' /\ Life' /\ NumbersAge' /\ NumbersOwn' /\ Aimed'
  BY <1>1, <1>4, GoesOn DEF Live
<1>6. /\ \A t \in Ids : reader'[t] = IF t = s THEN [at |-> a, on |-> o, fd |-> f] ELSE reader[t]
      /\ reader' = [t \in Ids |-> [at |-> reader'[t].at, on |-> reader'[t].on, fd |-> reader'[t].fd]]
  BY <1>4, ReaderSet
<1>7. Held'
  BY <1>1, <1>4, <1>6 DEF Held
<1>8. Traces' /\ OffOrSwept'
  BY <1>1, <1>3, <1>4, <1>6 DEF Traces, OffOrSwept, Stopping, PluginsFree
<1>. QED BY <1>1, <1>3, <1>5, <1>7, <1>8, TypedKept, Kept

LEMMA AnswerCompletesKeeps ==
  ASSUME Inv, NEW s \in Ids, AnswerCompletes(s)
  PROVE  Inv'
<1>. USE DEF Inv
<1>. DEFINE e == reader[s].on
<1>1. /\ reader[s].at = "deliver"
      /\ reply' = reply \/ reply' = [reply EXCEPT ![e] = "result"]
      /\ UNCHANGED <<sess, owner, got, answers, ran, exec, pending, call>>
      /\ UNCHANGED <<enabled, main, orders, raced, twoClose>>
  BY DEF AnswerCompletes, sockVars, plugVars, mainVars
<1>7. PICK f \in {0, sess[s].sock} :
        reader' = [reader EXCEPT ![s] = [at |-> "reading", on |-> "none", fd |-> f]]
  BY ReadsOnSets DEF AnswerCompletes
<1>2. ReplyTyped' /\ \A g \in Execs : reply'[g] = reply[g] \/ g = e
  BY <1>1 DEF ReplyTyped
<1>3. ReaderTyped' /\ Life' /\ NumbersAge' /\ NumbersOwn' /\ Aimed'
  BY <1>1, <1>7, GoesOn DEF Live
<1>4. /\ \A t \in Ids : reader'[t] = IF t = s THEN [at |-> "reading", on |-> "none", fd |-> f]
                                               ELSE reader[t]
      /\ reader' = [t \in Ids |-> [at |-> reader'[t].at, on |-> reader'[t].on, fd |-> reader'[t].fd]]
  BY <1>7, ReaderSet
<1>5. Held'
  BY <1>1, <1>4 DEF Held
<1>6. Traces' /\ OffOrSwept'
  BY <1>1, <1>2, <1>4 DEF Traces, OffOrSwept, Stopping, PluginsFree
<1>. QED BY <1>1, <1>2, <1>3, <1>5, <1>6, TypedKept, Kept

LEMMA AcceptKeeps ==
  ASSUME Inv, NEW s \in Ids, Accept(s)
  PROVE  Inv'
<1>. USE DEF Inv
<1>1. PICK f \in Fds : /\ owner[f] = 0 /\ owner' = [owner EXCEPT ![f] = s]
                       /\ sess' = [sess EXCEPT ![s] = [app |-> NoApp, active |-> TRUE, sock |-> f]]
  BY DEF Accept
<1>2. /\ reader[s].at = "none" /\ \A t \in Ids : t < s => reader[t].at \notin {"none", "accepted"}
      /\ reader' = [reader EXCEPT ![s].at = "accepted"]
      /\ UNCHANGED <<got, answers, ran, exec, pending, reply, call>>
      /\ UNCHANGED <<enabled, main, orders, raced, twoClose>>
  BY DEF Accept, plugVars, execVars, mainVars
<1>3. /\ f # 0 /\ s # 0
      /\ \A g \in Fds : owner'[g] = IF g = f THEN s ELSE owner[g]
      /\ \A t \in Ids : sess'[t] = IF t = s THEN [app |-> NoApp, active |-> TRUE, sock |-> f] ELSE sess[t]
  BY <1>1, PluginsAssumption DEF SockTyped, Ids
<1>4. SockTyped'
  BY <1>1 DEF SockTyped
<1>5. reader' = [reader EXCEPT ![s] = [at |-> "accepted", on |-> reader[s].on, fd |-> reader[s].fd]]
  BY <1>2, ReaderAt
<1>6. /\ \A t \in Ids : reader'[t] = IF t = s THEN [at |-> "accepted", on |-> reader[s].on, fd |-> reader[s].fd]
                                               ELSE reader[t]
      /\ reader' = [t \in Ids |-> [at |-> reader'[t].at, on |-> reader'[t].on, fd |-> reader'[t].fd]]
  BY <1>5, ReaderSet
<1>7. reader[s].fd = 0
  BY <1>2 DEF Held
<1>8. ReaderTyped' /\ Held'
  BY <1>2, <1>6, <1>7 DEF ReaderTyped, ReaderSteps, Held
<1>9. /\ \A t \in Ids : reader'[t].fd = reader[t].fd /\ reader'[t].at = IF t = s THEN "accepted" ELSE reader[t].at
      /\ \A t \in Ids : t # s => reader'[t] = reader[t]
      /\ \A t \in Ids : t # s /\ reader[t].at # "none" => t < s
      /\ ~MainAt(s) /\ s \notin twoClose
  BY <1>2, <1>6 DEF Life, Live, Past, Ids
<1>10. Life'
  <2>1. \A t : MainAt(t)' = MainAt(t)
    BY <1>2 DEF MainAt
  <2>2. ASSUME NEW t \in Ids, NEW u \in Ids, t < u, reader'[t].at \in {"none", "accepted"}
        PROVE  reader'[u].at = "none"
    BY <1>2, <1>9, <2>2 DEF Life, Ids
  <2>3. ASSUME NEW t \in Ids PROVE
        /\ reader'[t].at = "none" => sess'[t] = [app |-> NoApp, active |-> FALSE, sock |-> 0]
        /\ reader'[t].at = "accepted" => sess'[t].app = NoApp /\ sess'[t].active
        /\ reader'[t].at \in Live /\ ~sess'[t].active /\ sess'[t].sock # 0 => MainAt(t)'
        /\ reader'[t].at \in Past => ~sess'[t].active
        /\ reader'[t].at = "done" => sess'[t].sock = 0
        /\ sess'[t].active => sess'[t].sock # 0
        /\ MainAt(t)' => ~sess'[t].active /\ reader'[t].at \in Live \cup Past
        /\ MainAt(t)' /\ reader'[t].at \in Past => t \in twoClose'
        /\ t \in twoClose' => ~sess'[t].active /\ reader'[t].at \in Live \cup Past
    <3>1. CASE t = s
      BY <1>2, <1>3, <1>9, <2>1, <3>1 DEF Live, Past
    <3>2. CASE t # s
      <4>1. sess'[t] = sess[t] /\ reader'[t] = reader[t] /\ MainAt(t)' = MainAt(t) /\ twoClose' = twoClose
        BY <1>2, <1>3, <1>9, <2>1, <3>2
      <4>. QED BY <4>1, LifeOf
    <3>. QED BY <3>1, <3>2
  <2>. QED BY <2>2, <2>3 DEF Life
<1>11. NumbersAge'
  <2>1. ASSUME NEW t \in Ids, t # s PROVE Later(sess[t].sock, t)' /\ Later(reader[t].fd, t)'
    <3>1. \A g \in Fds \cup {0} : reader[t].at # "none" /\ Later(g, t) => (g # 0 => owner'[g] = 0 \/ owner'[g] >= t)
      BY <1>3, <1>9, <2>1 DEF Later, Ids
    <3>2. reader[t].at = "none" => sess[t].sock = 0 /\ reader[t].fd = 0
      <4>1. reader[t].at = "none" => sess[t] = [app |-> NoApp, active |-> FALSE, sock |-> 0]
        BY DEF Life
      <4>2. reader[t].fd # 0 => reader[t].at \in {"reading", "close"}
        BY DEF Held
      <4>. QED BY <4>1, <4>2
    <3>3. sess[t].sock \in Fds \cup {0} /\ reader[t].fd \in Fds \cup {0}
      BY DEF SockTyped, ReaderTyped
    <3>. QED BY <1>3, <1>9, <2>1, <3>1, <3>2, <3>3 DEF NumbersAge, Later
  <2>2. Later(sess[s].sock, s)' /\ Later(reader[s].fd, s)'
    BY <1>3, <1>7, <1>9 DEF Later, Ids
  <2>3. main.at = "close" => Later(main.fd, main.s)'
    <3>. SUFFICES ASSUME main.at = "close" PROVE Later(main.fd, main.s)'
      OBVIOUS
    <3>1. main.s \in Ids /\ main.fd \in Fds \cup {0} /\ MainAt(main.s)
      BY DEF Held, MainTyped, MainAt
    <3>2. reader[main.s].at # "none" /\ main.s # s
      BY <1>9, <3>1 DEF Life, Live, Past
    <3>3. main.s < s
      BY <1>9, <3>1, <3>2
    <3>. QED BY <1>2, <1>3, <3>1, <3>3 DEF NumbersAge, Later, Ids
  <2>4. \A g \in Fds : owner'[g] # 0 => reader'[owner'[g]].at # "none"
    BY <1>3, <1>9 DEF NumbersAge, SockTyped
  <2>. QED BY <1>2, <2>1, <2>2, <2>3, <2>4 DEF NumbersAge
<1>12. NumbersOwn'
  <2>1. ASSUME NEW t \in Ids, ~Shaken(t), t # s PROVE
        /\ sess'[t].active => Own(sess[t].sock, t)'
        /\ reader'[t].at = "close" => reader'[t].fd = sess'[t].sock /\ Own(reader[t].fd, t)'
        /\ main'.at = "close" /\ main'.s = t => main'.fd = sess'[t].sock /\ Own(main.fd, t)'
    <3>1. \A g \in Fds \cup {0} : Own(g, t) => (g # 0 => owner'[g] = t)
      BY <1>1, <1>3 DEF Own, Ids
    <3>2. sess[t].sock \in Fds \cup {0} /\ reader[t].fd \in Fds \cup {0} /\ main.fd \in Fds \cup {0}
      BY DEF SockTyped, ReaderTyped, MainTyped
    <3>. QED BY <1>2, <1>3, <1>9, <2>1, <3>1, <3>2 DEF NumbersOwn, Own
  <2>2. /\ Own(sess[s].sock, s)' /\ reader'[s].at # "close"
        /\ ~(main'.at = "close" /\ main'.s = s)
    BY <1>2, <1>3, <1>9 DEF Own, MainAt
  <2>3. \A t \in Ids : Shaken(t)' = Shaken(t)
    BY <1>2 DEF Shaken
  <2>. QED BY <2>1, <2>2, <2>3 DEF NumbersOwn
<1>13. Aimed'
  BY <1>2, <1>3, <1>9 DEF Aimed, Held
<1>14. Traces'
  BY <1>2, <1>6 DEF Traces
<1>15. OffOrSwept'
  BY <1>2, <1>3, <1>6 DEF OffOrSwept, Stopping, PluginsFree
<1>. QED BY <1>2, <1>4, <1>8, <1>10, <1>11, <1>12, <1>13, <1>14, <1>15, TypedKept, Kept

LEMMA PluginRunsKeeps ==
  ASSUME Inv, NEW s \in Ids, NEW e \in Execs, PluginRuns(s, e)
  PROVE  Inv'
<1>. USE DEF Inv
<1>1. /\ e \in got[s] /\ got' = [got EXCEPT ![s] = @ \ {e}] /\ ran' = ran \cup {e}
      /\ answers' = [answers EXCEPT ![s] = @ \cup {e}] \/ answers' = answers
      /\ UNCHANGED <<sess, owner, reader, exec, pending, reply, call>>
      /\ UNCHANGED <<enabled, main, orders, raced, twoClose>>
  BY DEF PluginRuns, sockVars, execVars, mainVars
<1>2. /\ PlugTyped'
      /\ \A t \in Ids : got'[t] \subseteq got[t] /\ answers'[t] \subseteq answers[t] \cup {e}
  BY <1>1 DEF PlugTyped
<1>3. exec[e].at \notin BeforeSend /\ exec[e].out \notin NotSent
  BY <1>1 DEF Traces, OutcomesAreTrue
<1>4. Traces' /\ OutcomesAreTrue'
  BY <1>1, <1>2, <1>3 DEF Traces, OutcomesAreTrue, AppOf
<1>. QED BY <1>1, <1>2, <1>4, TypedKept, Kept, SessionsKept

(* Who closes a number that another connection has now was closed by two,  *)
(* or is later than one that was.                                          *)
LEMMA CloseHits ==
  ASSUME Inv, NEW t \in Ids, NEW f \in Fds \cup {0}, Close(f),
         \/ reader[t].at = "close" /\ f \in Seen(reader[t].fd, t)
         \/ main.at = "close" /\ main.s = t /\ f \in Seen(main.fd, t)
  PROVE  /\ owner' \in [Fds -> Ids \cup {0}]
         /\ \A g \in Fds : owner'[g] = IF g = f THEN 0 ELSE owner[g]
         /\ f # 0 /\ owner[f] # 0 /\ owner[f] # t => Shaken(t) /\ t < owner[f]
         /\ \A x \in Ids, g \in Fds : x # t /\ ~Shaken(x) /\ owner[g] = x => owner'[g] = x
<1>. USE DEF Inv
<1>1. /\ owner' \in [Fds -> Ids \cup {0}]
      /\ \A g \in Fds : owner'[g] = IF g = f THEN 0 ELSE owner[g]
  BY PluginsAssumption DEF Close, SockTyped
<1>2. Later(f, t)
  BY DEF Seen, NumbersAge
<1>3. ~Shaken(t) => Own(f, t)
  BY DEF Seen, NumbersOwn
<1>4. f # 0 => owner[f] \in Nat /\ t \in Nat
  BY DEF SockTyped, Ids
<1>5. f # 0 /\ owner[f] # 0 /\ owner[f] # t => Shaken(t) /\ t < owner[f]
  BY <1>2, <1>3, <1>4 DEF Later, Own
<1>6. ASSUME NEW x \in Ids, NEW g \in Fds, x # t, ~Shaken(x), owner[g] = x, g = f PROVE FALSE
  <2>1. f # 0 /\ owner[f] = x /\ x # 0
    BY <1>6, PluginsAssumption DEF Ids
  <2>2. Shaken(t) /\ t < x
    BY <1>5, <1>6, <2>1
  <2>3. PICK u \in twoClose : u <= t
    BY <2>2 DEF Shaken
  <2>4. u \in Nat /\ t \in Nat /\ x \in Nat
    <3>1. twoClose \subseteq Ids
      BY DEF TwoTyped
    <3>2. \A i \in Ids : i \in Nat
      BY DEF Ids
    <3>3. x \in Ids
      BY <1>6
    <3>. QED BY <2>3, <3>1, <3>2, <3>3
  <2>5. u <= x
    BY <2>2, <2>3, <2>4
  <2>. QED BY <1>6, <2>5 DEF Shaken
<1>. QED BY <1>1, <1>5, <1>6

LEMMA ShakenSelf ==
  ASSUME TwoTyped, NEW s \in Ids, s \in twoClose
  PROVE  Shaken(s)
  BY DEF Shaken, Ids

LEMMA ReaderEndsKeeps ==
  ASSUME Inv, NEW s \in Ids, ReaderEnds(s)
  PROVE  Inv'
<1>. USE DEF Inv
<1>1. /\ reader[s].at = "reading"
      /\ sess' = [sess EXCEPT ![s].active = FALSE, ![s].app = NoApp]
      /\ reader' = [reader EXCEPT ![s] = [at |-> "close", on |-> "none", fd |-> sess[s].sock]]
      /\ answers' = [answers EXCEPT ![s] = {}]
      /\ twoClose' = IF MainAt(s) THEN twoClose \cup {s} ELSE twoClose
      /\ UNCHANGED <<owner, got, ran, exec, pending, reply, call, enabled, main, orders, raced>>
  BY DEF ReaderEnds, execVars, mainVars, MainAt
<1>2. /\ SockTyped' /\ TwoTyped'
      /\ sess[s].sock \in Fds \cup {0}
      /\ sess'[s].app = NoApp /\ ~sess'[s].active /\ sess'[s].sock = sess[s].sock
      /\ \A t \in Ids : t # s => sess'[t] = sess[t]
  <2>1. /\ SockTyped /\ sess[s] \in [app : Apps \cup {NoApp}, active : BOOLEAN, sock : Fds \cup {0}]
        /\ DOMAIN sess = Ids
    BY DEF SockTyped
  <2>2. sess' = [sess EXCEPT ![s] = [sess[s] EXCEPT !.active = FALSE, !.app = NoApp]]
    BY <1>1, <2>1
  <2>. DEFINE r == [sess[s] EXCEPT !.active = FALSE, !.app = NoApp]
  <2>3. /\ r.app = NoApp /\ ~r.active /\ r.sock = sess[s].sock /\ sess[s].sock \in Fds \cup {0}
        /\ r \in [app : Apps \cup {NoApp}, active : BOOLEAN, sock : Fds \cup {0}]
    BY <2>1
  <2>. HIDE DEF r
  <2>4. sess'[s] = r /\ \A t \in Ids : t # s => sess'[t] = sess[t]
    BY <2>1, <2>2 DEF r
  <2>5. SockTyped'
    BY <1>1, <2>2, <2>3 DEF SockTyped, r
  <2>6. TwoTyped'
    BY <1>1 DEF TwoTyped
  <2>. QED BY <2>3, <2>4, <2>5, <2>6
<1>3. /\ \A t \in Ids : reader'[t] = IF t = s THEN [at |-> "close", on |-> "none", fd |-> sess[s].sock]
                                               ELSE reader[t]
      /\ reader' = [t \in Ids |-> [at |-> reader'[t].at, on |-> reader'[t].on, fd |-> reader'[t].fd]]
  BY <1>1, ReaderSet
<1>. HIDE DEF Inv
<1>11. /\ reader'[s].at = "close" /\ reader'[s].fd = sess[s].sock
       /\ \A t \in Ids : t # s => reader'[t] = reader[t] /\ (t \in twoClose' <=> t \in twoClose)
       /\ MainAt(s) => s \in twoClose'
       /\ ~MainAt(s) => twoClose' = twoClose
       /\ \A t : MainAt(t)' = MainAt(t)
  BY <1>1, <1>3 DEF MainAt
<1>. USE DEF Inv
<1>4. ReaderTyped' /\ Held'
  BY <1>1, <1>2, <1>3 DEF ReaderTyped, ReaderSteps, Held
<1>5. PlugTyped' /\ Traces'
  BY <1>1, <1>3 DEF PlugTyped, Traces
<1>6. Life'
  <2>2. ASSUME NEW t \in Ids, NEW u \in Ids, t < u, reader'[t].at \in {"none", "accepted"}
        PROVE  reader'[u].at = "none"
    <3>1. t # s /\ reader[t].at \in {"none", "accepted"} /\ reader[s].at # "none"
      BY <1>1, <1>11, <2>2
    <3>2. reader[u].at = "none"
      BY <2>2, <3>1 DEF Life
    <3>. QED BY <1>1, <1>11, <3>1, <3>2
  <2>3. ASSUME NEW t \in Ids PROVE
        /\ reader'[t].at = "none" => sess'[t] = [app |-> NoApp, active |-> FALSE, sock |-> 0]
        /\ reader'[t].at = "accepted" => sess'[t].app = NoApp /\ sess'[t].active
        /\ reader'[t].at \in Live /\ ~sess'[t].active /\ sess'[t].sock # 0 => MainAt(t)'
        /\ reader'[t].at \in Past => ~sess'[t].active
        /\ reader'[t].at = "done" => sess'[t].sock = 0
        /\ sess'[t].active => sess'[t].sock # 0
        /\ MainAt(t)' => ~sess'[t].active /\ reader'[t].at \in Live \cup Past
        /\ MainAt(t)' /\ reader'[t].at \in Past => t \in twoClose'
        /\ t \in twoClose' => ~sess'[t].active /\ reader'[t].at \in Live \cup Past
    <3>1. CASE t = s
      BY <1>2, <1>11, <3>1 DEF Live, Past
    <3>2. CASE t # s
      <4>1. /\ sess'[t] = sess[t] /\ reader'[t] = reader[t] /\ MainAt(t)' = MainAt(t)
            /\ t \in twoClose' <=> t \in twoClose
        BY <1>2, <1>11, <3>2
      <4>. QED BY <4>1, LifeOf
    <3>. QED BY <3>1, <3>2
  <2>. QED BY <2>2, <2>3 DEF Life
<1>7. NumbersAge'
  BY <1>1, <1>2, <1>3 DEF NumbersAge, Later, SockTyped
<1>8. NumbersOwn'
  <2>. SUFFICES ASSUME NEW t \in Ids, ~Shaken(t)' PROVE
        /\ sess'[t].active => Own(sess[t].sock, t)'
        /\ reader'[t].at = "close" => reader'[t].fd = sess'[t].sock /\ Own(reader[t].fd, t)'
        /\ main'.at = "close" /\ main'.s = t => main'.fd = sess'[t].sock /\ Own(main.fd, t)'
    BY DEF NumbersOwn
  <2>1. ~Shaken(t) /\ t \notin twoClose'
    <3>1. t \notin twoClose'
      BY <1>2 DEF Shaken, TwoTyped, Ids
    <3>2. twoClose \subseteq twoClose'
      BY <1>1
    <3>. QED BY <3>1, <3>2 DEF Shaken
  <2>2. CASE t = s
    <3>1. ~MainAt(s)
      BY <1>1, <2>1, <2>2
    <3>2. sess[s].active \/ sess[s].sock = 0
      BY <1>1, <3>1 DEF Life, Live
    <3>3. sess[s].active => Own(sess[s].sock, s)
      BY <2>1, <2>2 DEF NumbersOwn
    <3>4. Own(sess[s].sock, s)
      BY <3>2, <3>3 DEF Own
    <3>. QED BY <1>1, <1>2, <1>11, <2>2, <3>1, <3>4 DEF Own, MainAt
  <2>3. CASE t # s
    <3>1. /\ sess[t].active => Own(sess[t].sock, t)
          /\ reader[t].at = "close" => reader[t].fd = sess[t].sock /\ Own(reader[t].fd, t)
          /\ main.at = "close" /\ main.s = t => main.fd = sess[t].sock /\ Own(main.fd, t)
      BY <2>1 DEF NumbersOwn
    <3>2. sess'[t] = sess[t] /\ reader'[t] = reader[t]
      BY <1>2, <1>11, <2>3
    <3>. QED BY <1>1, <3>1, <3>2 DEF Own
  <2>. QED BY <2>2, <2>3
<1>9. Aimed'
  <2>. SUFFICES ASSUME NEW e \in Execs, exec[e].at \in {"picked", "send", "sending"}
       PROVE  /\ reader'[exec[e].s].at # "none"
              /\ exec[e].at # "picked" /\ sess'[exec[e].s].active => exec[e].fd = sess'[exec[e].s].sock
    BY <1>1 DEF Aimed
  <2>1. /\ exec[e].s \in Ids /\ reader[exec[e].s].at # "none"
        /\ exec[e].at # "picked" /\ sess[exec[e].s].active => exec[e].fd = sess[exec[e].s].sock
    BY DEF Aimed, Held
  <2>. QED BY <1>2, <1>11, <2>1
<1>10. OffOrSwept'
  BY <1>1, <1>2, <1>11 DEF OffOrSwept, Stopping, PluginsFree
<1>. QED BY <1>1, <1>2, <1>4, <1>5, <1>6, <1>7, <1>8, <1>9, <1>10, TypedKept, Kept

LEMMA ReaderClosesKeeps ==
  ASSUME Inv, NEW s \in Ids, ReaderCloses(s)
  PROVE  Inv'
<1>. USE DEF Inv
<1>1. PICK f \in Seen(reader[s].fd, s) : Close(f)
  BY DEF ReaderCloses
<1>2. /\ reader[s].at = "close"
      /\ reader' = [reader EXCEPT ![s] = [at |-> "clear", on |-> "none", fd |-> 0]]
      /\ UNCHANGED <<sess, got, answers, ran, exec, pending, reply, call>>
      /\ UNCHANGED <<enabled, main, orders, raced, twoClose>>
  <2>. HIDE DEF Inv
  <2>. QED BY DEF ReaderCloses, At, plugVars, execVars, mainVars
<1>3. f \in Fds \cup {0}
  BY DEF Seen, SockTyped, ReaderTyped
<1>4. /\ owner' \in [Fds -> Ids \cup {0}]
      /\ \A g \in Fds : owner'[g] = IF g = f THEN 0 ELSE owner[g]
      /\ \A x \in Ids, g \in Fds : x # s /\ ~Shaken(x) /\ owner[g] = x => owner'[g] = x
  <2>1. reader[s].at = "close" /\ f \in Seen(reader[s].fd, s)
    BY <1>1, <1>2
  <2>. QED BY <1>1, <1>3, <2>1, CloseHits
<1>5. /\ \A t \in Ids : reader'[t] = IF t = s THEN [at |-> "clear", on |-> "none", fd |-> 0]
                                               ELSE reader[t]
      /\ reader' = [t \in Ids |-> [at |-> reader'[t].at, on |-> reader'[t].on, fd |-> reader'[t].fd]]
  BY <1>2, ReaderSet
<1>6. SockTyped' /\ ReaderTyped' /\ Held' /\ Traces'
  BY <1>2, <1>4, <1>5 DEF SockTyped, ReaderTyped, ReaderSteps, Held, Traces
<1>7. Life'
  BY <1>2, <1>5 DEF Life, MainAt, Live, Past
<1>8. NumbersAge'
  <2>1. \A t \in Ids : Later(sess[t].sock, t)' /\ Later(reader[t].fd, t)'
    BY <1>2, <1>4, <1>5 DEF NumbersAge, Later, SockTyped, ReaderTyped
  <2>2. main.at = "close" => Later(main.fd, main.s)'
    BY <1>2, <1>4 DEF NumbersAge, Later, MainTyped
  <2>3. \A g \in Fds : owner'[g] # 0 => reader'[owner'[g]].at # "none"
    BY <1>4, <1>5 DEF NumbersAge, SockTyped
  <2>. QED BY <1>2, <2>1, <2>2, <2>3 DEF NumbersAge
<1>9. NumbersOwn'
  <2>. SUFFICES ASSUME NEW t \in Ids, ~Shaken(t) PROVE
        /\ sess'[t].active => Own(sess[t].sock, t)'
        /\ reader'[t].at = "close" => reader'[t].fd = sess'[t].sock /\ Own(reader[t].fd, t)'
        /\ main'.at = "close" /\ main'.s = t => main'.fd = sess'[t].sock /\ Own(main.fd, t)'
    BY <1>2 DEF NumbersOwn, Shaken
  <2>1. CASE t = s
    <3>1. s \notin twoClose
      BY <2>1, ShakenSelf
    <3>2. ~sess[s].active /\ ~MainAt(s)
      BY <1>2, <3>1 DEF Life, Past
    <3>. QED BY <1>2, <1>5, <2>1, <3>2 DEF MainAt
  <2>2. CASE t # s
    BY <1>2, <1>4, <1>5, <2>2 DEF NumbersOwn, Own, SockTyped, ReaderTyped, MainTyped
  <2>. QED BY <2>1, <2>2
<1>10. Aimed' /\ OffOrSwept'
  BY <1>2, <1>5 DEF Aimed, Held, OffOrSwept, Stopping, PluginsFree
<1>. QED BY <1>2, <1>6, <1>7, <1>8, <1>9, <1>10, TypedKept, Kept

LEMMA ReaderClearsKeeps ==
  ASSUME Inv, NEW s \in Ids, ReaderClears(s)
  PROVE  Inv'
<1>. USE DEF Inv
<1>1. /\ reader[s].at = "clear" /\ reader[s].fd = 0
      /\ sess' = [sess EXCEPT ![s].sock = 0]
      /\ reader' = [reader EXCEPT ![s].at = "done"]
      /\ UNCHANGED <<owner, got, answers, ran, exec, pending, reply, call>>
      /\ UNCHANGED <<enabled, main, orders, raced, twoClose>>
  BY DEF ReaderClears, Held, plugVars, execVars, mainVars
<1>2. /\ SockTyped' /\ ~sess[s].active
      /\ \A t \in Ids : /\ sess'[t].active = sess[t].active /\ sess'[t].app = sess[t].app
                        /\ t # s => sess'[t] = sess[t]
                        /\ sess'[s].sock = 0
  BY <1>1 DEF SockTyped, Life, Past
<1>3. reader' = [reader EXCEPT ![s] = [at |-> "done", on |-> reader[s].on, fd |-> 0]]
  BY <1>1, ReaderAt
<1>4. /\ \A t \in Ids : reader'[t] = IF t = s THEN [at |-> "done", on |-> reader[s].on, fd |-> 0]
                                               ELSE reader[t]
      /\ reader' = [t \in Ids |-> [at |-> reader'[t].at, on |-> reader'[t].on, fd |-> reader'[t].fd]]
  BY <1>3, ReaderSet
<1>10. /\ reader'[s].at = "done" /\ reader'[s].fd = 0
       /\ \A t \in Ids : t # s => reader'[t] = reader[t]
       /\ \A t : MainAt(t)' = MainAt(t)
  BY <1>1, <1>4 DEF MainAt
<1>5. ReaderTyped' /\ Held' /\ Traces'
  BY <1>1, <1>4 DEF ReaderTyped, ReaderSteps, Held, Traces
<1>6. Life'
  <2>1. ASSUME NEW t \in Ids, NEW u \in Ids, t < u, reader'[t].at \in {"none", "accepted"}
        PROVE  reader'[u].at = "none"
    BY <1>1, <1>10, <2>1 DEF Life
  <2>2. ASSUME NEW t \in Ids PROVE
        /\ reader'[t].at = "none" => sess'[t] = [app |-> NoApp, active |-> FALSE, sock |-> 0]
        /\ reader'[t].at = "accepted" => sess'[t].app = NoApp /\ sess'[t].active
        /\ reader'[t].at \in Live /\ ~sess'[t].active /\ sess'[t].sock # 0 => MainAt(t)'
        /\ reader'[t].at \in Past => ~sess'[t].active
        /\ reader'[t].at = "done" => sess'[t].sock = 0
        /\ sess'[t].active => sess'[t].sock # 0
        /\ MainAt(t)' => ~sess'[t].active /\ reader'[t].at \in Live \cup Past
        /\ MainAt(t)' /\ reader'[t].at \in Past => t \in twoClose'
        /\ t \in twoClose' => ~sess'[t].active /\ reader'[t].at \in Live \cup Past
    <3>1. CASE t = s
      <4>1. MainAt(s) => s \in twoClose
        BY <1>1 DEF Life, Past
      <4>. QED BY <1>1, <1>2, <1>10, <3>1, <4>1 DEF Live, Past
    <3>2. CASE t # s
      <4>1. sess'[t] = sess[t] /\ reader'[t] = reader[t] /\ twoClose' = twoClose /\ MainAt(t)' = MainAt(t)
        BY <1>1, <1>2, <1>10, <3>2
      <4>. QED BY <4>1, LifeOf
    <3>. QED BY <3>1, <3>2
  <2>. QED BY <2>1, <2>2 DEF Life
<1>7. NumbersAge'
  <2>1. \A t \in Ids : Later(sess[t].sock, t)' /\ Later(reader[t].fd, t)'
    BY <1>1, <1>2, <1>10 DEF NumbersAge, Later
  <2>2. main.at = "close" => Later(main.fd, main.s)'
    BY <1>1 DEF NumbersAge, Later
  <2>3. \A g \in Fds : owner'[g] # 0 => reader'[owner'[g]].at # "none"
    BY <1>1, <1>10 DEF NumbersAge, SockTyped
  <2>. QED BY <1>1, <2>1, <2>2, <2>3 DEF NumbersAge
<1>8. NumbersOwn'
  <2>. SUFFICES ASSUME NEW t \in Ids, ~Shaken(t) PROVE
        /\ sess'[t].active => Own(sess[t].sock, t)'
        /\ reader'[t].at = "close" => reader'[t].fd = sess'[t].sock /\ Own(reader[t].fd, t)'
        /\ main'.at = "close" /\ main'.s = t => main'.fd = sess'[t].sock /\ Own(main.fd, t)'
    BY <1>1 DEF NumbersOwn, Shaken
  <2>1. CASE t = s
    <3>1. s \notin twoClose
      BY <2>1, ShakenSelf
    <3>2. ~MainAt(s)
      BY <1>1, <3>1 DEF Life, Past
    <3>. QED BY <1>1, <1>2, <1>4, <2>1, <3>2 DEF MainAt
  <2>2. CASE t # s
    BY <1>1, <1>2, <1>4, <2>2 DEF NumbersOwn, Own
  <2>. QED BY <2>1, <2>2
<1>9. Aimed' /\ OffOrSwept'
  <2>1. Aimed'
    BY <1>1, <1>2, <1>10 DEF Aimed, Held
  <2>2. OffOrSwept'
    BY <1>1, <1>2, <1>10 DEF OffOrSwept, Stopping, PluginsFree
  <2>. QED BY <2>1, <2>2
<1>. QED BY <1>1, <1>2, <1>5, <1>6, <1>7, <1>8, <1>9, TypedKept, Kept

-----------------------------------------------------------------------------
(* The steps of a tool call.                                               *)

Rec == [at : ExecSteps, s : Ids \cup {0}, fd : Fds \cup {0}, out : Outs]

LEMMA ExecMoves ==
  ASSUME Inv, NEW e \in Execs, NEW r \in Rec, exec' = [exec EXCEPT ![e] = r],
         exec[e].at # "none",
         r.at \in {"picked", "send", "sending"} =>
           /\ r.s \in Ids /\ reader[r.s].at # "none"
           /\ r.at # "picked" /\ sess[r.s].active => r.fd = sess[r.s].sock,
         r.at \notin {"woken", "done"} => r.out = "none",
         r.at = "woken" => r.out \in {"timeout", "result", "stopped"},
         r.at \in InHand =>
           \/ exec[e].at \in InHand
           \/ \A g \in Execs : AppOf(g) = AppOf(e) /\ AppOf(e) \in Serial => exec[g].at \notin InHand,
         pending' \subseteq pending \cup {e}, e \in pending' => r.at \in InHand,
         UNCHANGED <<sess, reader, call, main>>
  PROVE  /\ ExecTyped' /\ Held' /\ CameOnce' /\ OutcomesLate' /\ SerialAlone' /\ Aimed'
         /\ \A g \in Execs : exec'[g] = IF g = e THEN r ELSE exec[g]
<1>. USE DEF Inv
<1>1. /\ \A g \in Execs : exec'[g] = IF g = e THEN r ELSE exec[g]
      /\ exec' \in [Execs -> Rec]
  BY DEF ExecTyped, Rec
<1>2. exec'[e] = r /\ \A g \in Execs : g # e => exec'[g] = exec[g]
  BY <1>1
<1>3. ExecTyped'
  BY <1>1, <1>2 DEF ExecTyped, Rec
<1>4. Held'
  BY <1>2 DEF Held
<1>5. CameOnce'
  <2>. SUFFICES ASSUME NEW c \in Calls, NEW t \in Transports, exec[<<c, t>>].at = "none"
                PROVE  exec'[<<c, t>>].at = "none"
    BY DEF CameOnce, Transports
  <2>1. <<c, t>> \in Execs /\ <<c, t>> # e
    BY DEF Execs
  <2>. QED BY <1>2, <2>1
<1>6. OutcomesLate'
  BY <1>2 DEF OutcomesLate
<1>7. SerialAlone'
  <2>1. \A g, h \in Execs : g # h /\ AppOf(g) = AppOf(h) /\ AppOf(g) \in Serial
          => ~(exec[g].at \in InHand /\ exec[h].at \in InHand)
    BY DEF SerialAlone
  <2>2. ASSUME NEW h \in Execs, h # e, AppOf(e) = AppOf(h), AppOf(e) \in Serial,
               r.at \in InHand, exec[h].at \in InHand
        PROVE  FALSE
    BY <2>1, <2>2
  <2>3. \A g \in Execs : AppOf(g)' = AppOf(g)
    BY DEF AppOf
  <2>. QED BY <1>2, <2>1, <2>2, <2>3 DEF SerialAlone
<1>8. Aimed'
  BY <1>2 DEF Aimed
<1>. QED BY <1>1, <1>3, <1>4, <1>5, <1>6, <1>7, <1>8

(* What becomes of requests and answers when a call moves.                 *)
LEMMA ExecTraces ==
  ASSUME Inv, NEW e \in Execs, NEW r \in Rec,
         \A g \in Execs : exec'[g] = IF g = e THEN r ELSE exec[g],
         r.at \in BeforeSend => exec[e].at \in BeforeSend,
         r.out = "result" => e \in ran,
         r.out \in NotSent => exec[e].at \in BeforeSend,
         r.out = "headless" => AppOf(e) \notin Serial,
         \A g \in Execs : reply'[g] = "result" => reply[g] = "result",
         \A g \in Execs : AppOf(g)' = AppOf(g),
         UNCHANGED <<got, ran, answers, reader>>
  PROVE  Traces' /\ OutcomesAreTrue'
<1>1. exec'[e] = r /\ \A g \in Execs : g # e => exec'[g] = exec[g]
  OBVIOUS
<1>2. Traces'
  BY <1>1 DEF Inv, Traces
<1>3. OutcomesAreTrue'
  BY <1>1 DEF Inv, Traces, OutcomesAreTrue
<1>. QED BY <1>2, <1>3

LEMMA ExecOf ==
  ASSUME Inv, NEW e \in Execs
  PROVE  /\ exec[e] \in Rec /\ exec[e].at \in ExecSteps
         /\ exec[e].s \in Ids \cup {0} /\ exec[e].fd \in Fds \cup {0} /\ exec[e].out \in Outs
  BY DEF Inv, ExecTyped, Rec

LEMMA DoneRec ==
  ASSUME NEW out \in Outs
  PROVE  LET r == [NewExec EXCEPT !.at = "done", !.out = out] IN
           r \in Rec /\ r.at = "done" /\ r.out = out
  BY DEF NewExec, Rec, ExecSteps

LEMMA EndsKeeps ==
  ASSUME Inv, NEW e \in Execs, NEW out \in Outs, Ended(e, out), exec[e].at # "none",
         out = "headless" => AppOf(e) \notin Serial,
         pending' = pending \/ pending' = pending \ {e},
         e \notin pending',
         out = "result" => e \in ran, out \in NotSent => exec[e].at \in BeforeSend,
         UNCHANGED <<sess, owner, reader, got, answers, ran, reply, call>>,
         UNCHANGED <<enabled, main, orders, raced, twoClose>>
  PROVE  Inv'
<1>. DEFINE r == [NewExec EXCEPT !.at = "done", !.out = out]
<1>1. exec' = [exec EXCEPT ![e] = r]
  BY DEF Ended
<1>2. r \in Rec /\ r.at = "done" /\ r.out = out
  BY DoneRec
<1>. HIDE DEF r
<1>3. r.at \notin InHand /\ r.at \notin BeforeSend /\ r.at # "woken"
  BY <1>2 DEF InHand, BeforeSend
<1>4. /\ ExecTyped' /\ Held' /\ CameOnce' /\ OutcomesLate' /\ SerialAlone' /\ Aimed'
      /\ \A g \in Execs : exec'[g] = IF g = e THEN r ELSE exec[g]
  BY <1>1, <1>2, <1>3, ExecMoves
<1>5. Traces' /\ OutcomesAreTrue'
  BY <1>2, <1>3, <1>4, ExecTraces DEF AppOf
<1>. QED BY <1>4, <1>5, TypedKept, Kept, SessionsKept DEF Inv

(* A tool's handler gives callPlugin()'s outcome on, or a headless answer. *)
LEMMA ToldOf ==
  ASSUME NEW e \in Execs, NEW out, Returns(e, out)
  PROVE  \E o \in {out, "headless"} : Ended(e, o) /\ (o = "headless" => o = out \/ AppOf(e) \notin Serial)
  BY DEF Returns, Told

LEMMA ReturnsKeeps ==
  ASSUME Inv, NEW e \in Execs, NEW out \in Outs \ {"headless"}, Returns(e, out), exec[e].at # "none",
         pending' = pending \/ pending' = pending \ {e},
         e \notin pending',
         out = "result" => e \in ran, out \in NotSent => exec[e].at \in BeforeSend,
         UNCHANGED <<sess, owner, reader, got, answers, ran, reply, call>>,
         UNCHANGED <<enabled, main, orders, raced, twoClose>>
  PROVE  Inv'
<1>1. PICK o \in {out, "headless"} : Ended(e, o) /\ (o = "headless" => AppOf(e) \notin Serial)
  BY ToldOf
<1>2. o \in Outs /\ (o = "result" => e \in ran) /\ (o \in NotSent => exec[e].at \in BeforeSend)
  BY <1>1 DEF Outs, NotSent
<1>. QED BY <1>1, <1>2, EndsKeeps

LEMMA DispatchKeeps ==
  ASSUME Inv, NEW e \in Execs, Dispatch(e)
  PROVE  Inv'
<1>1. /\ exec[e].at = "queued"
      /\ exec' = [exec EXCEPT ![e].at = "admitted"] \/ Ended(e, "refused")
      /\ UNCHANGED <<sess, owner, reader, got, answers, ran, pending, reply, call>>
      /\ UNCHANGED <<enabled, main, orders, raced, twoClose>>
  BY DEF Dispatch, sockVars, plugVars, mainVars
<1>2. e \notin pending
  BY <1>1 DEF Inv, ExecTyped, InHand
<1>3. CASE Ended(e, "refused")
  BY <1>1, <1>2, <1>3, EndsKeeps DEF Outs, BeforeSend
<1>4. CASE exec' = [exec EXCEPT ![e].at = "admitted"]
  <2>. DEFINE r == [exec[e] EXCEPT !.at = "admitted"]
  <2>1. exec' = [exec EXCEPT ![e] = r]
    BY <1>4
  <2>2. r \in Rec /\ r.at = "admitted" /\ r.out = exec[e].out
    BY ExecOf DEF Rec, ExecSteps
  <2>. HIDE DEF r
  <2>3. r.out = "none"
    BY <1>1, <2>2 DEF Inv, OutcomesLate
  <2>4. /\ ExecTyped' /\ Held' /\ CameOnce' /\ OutcomesLate' /\ SerialAlone' /\ Aimed'
        /\ \A g \in Execs : exec'[g] = IF g = e THEN r ELSE exec[g]
    BY <1>1, <1>2, <2>1, <2>2, <2>3, ExecMoves DEF InHand
  <2>5. Traces' /\ OutcomesAreTrue'
    BY <1>1, <2>2, <2>3, <2>4, ExecTraces DEF BeforeSend, NotSent, AppOf
  <2>. QED BY <1>1, <2>4, <2>5, TypedKept, Kept, SessionsKept DEF Inv
<1>. QED BY <1>1, <1>3, <1>4

LEMMA PickKeeps ==
  ASSUME Inv, NEW e \in Execs, Pick(e)
  PROVE  Inv'
<1>1. /\ exec[e].at = "admitted"
      /\ AppOf(e) \in Serial => \A g \in Execs : AppOf(g) = AppOf(e) => exec[g].at \notin InHand
      /\ \/ Returns(e, "unsent") /\ pending' = pending
         \/ /\ \E s \in Targets(AppOf(e)) : exec' = [exec EXCEPT ![e].at = "picked", ![e].s = s]
            /\ pending' = pending \cup {e}
      /\ UNCHANGED <<sess, owner, reader, got, answers, ran, reply, call>>
      /\ UNCHANGED <<enabled, main, orders, raced, twoClose>>
  BY DEF Pick, sockVars, plugVars, mainVars
<1>2. e \notin pending
  BY <1>1 DEF Inv, ExecTyped, InHand
<1>3. CASE Returns(e, "unsent") /\ pending' = pending
  BY <1>1, <1>2, <1>3, ReturnsKeeps DEF Outs, BeforeSend
<1>4. ASSUME NEW s \in Targets(AppOf(e)), exec' = [exec EXCEPT ![e].at = "picked", ![e].s = s],
             pending' = pending \cup {e}
      PROVE  Inv'
  <2>. DEFINE r == [exec[e] EXCEPT !.at = "picked", !.s = s]
  <2>1. exec' = [exec EXCEPT ![e] = r]
    BY <1>4
  <2>2. s \in Ids /\ sess[s].active
    BY DEF Targets
  <2>3. r \in Rec /\ r.at = "picked" /\ r.s = s /\ r.out = exec[e].out
    BY <2>2, ExecOf DEF Rec, ExecSteps
  <2>. HIDE DEF r
  <2>4. r.out = "none" /\ reader[s].at # "none"
    BY <1>1, <2>2, <2>3, LifeOf DEF Inv, OutcomesLate
  <2>5. /\ ExecTyped' /\ Held' /\ CameOnce' /\ OutcomesLate' /\ SerialAlone' /\ Aimed'
        /\ \A g \in Execs : exec'[g] = IF g = e THEN r ELSE exec[g]
    BY <1>1, <1>4, <2>1, <2>2, <2>3, <2>4, ExecMoves DEF InHand
  <2>6. Traces' /\ OutcomesAreTrue'
    BY <1>1, <2>3, <2>4, <2>5, ExecTraces DEF BeforeSend, NotSent, AppOf
  <2>. QED BY <1>1, <2>5, <2>6, TypedKept, Kept, SessionsKept DEF Inv
<1>. QED BY <1>1, <1>3, <1>4

LEMMA UnaskedKeeps ==
  ASSUME Inv, NEW e \in Execs, Unasked(e)
  PROVE  Inv'
<1>1. /\ exec[e].at = "admitted" /\ AppOf(e) \notin Serial /\ Ended(e, "headless")
      /\ UNCHANGED <<sess, owner, reader, got, answers, ran, pending, reply, call>>
      /\ UNCHANGED <<enabled, main, orders, raced, twoClose>>
  BY DEF Unasked, sockVars, plugVars, mainVars
<1>2. e \notin pending
  BY <1>1 DEF Inv, ExecTyped, InHand
<1>. QED BY <1>1, <1>2, EndsKeeps DEF Outs, NotSent

LEMMA SendChecksKeeps ==
  ASSUME Inv, NEW e \in Execs, SendChecks(e)
  PROVE  Inv'
<1>. DEFINE s == exec[e].s
<1>1. /\ exec[e].at = "picked"
      /\ \/ exec' = [exec EXCEPT ![e].at = "send", ![e].fd = sess[s].sock] /\ pending' = pending
         \/ Returns(e, "unsent") /\ pending' = pending \ {e}
      /\ UNCHANGED <<sess, owner, reader, got, answers, ran, reply, call>>
      /\ UNCHANGED <<enabled, main, orders, raced, twoClose>>
  BY DEF SendChecks, NotPending, sockVars, plugVars, mainVars
<1>2. CASE Returns(e, "unsent") /\ pending' = pending \ {e}
  BY <1>1, <1>2, ReturnsKeeps DEF Outs, BeforeSend
<1>3. CASE exec' = [exec EXCEPT ![e].at = "send", ![e].fd = sess[s].sock] /\ pending' = pending
  <2>. DEFINE r == [exec[e] EXCEPT !.at = "send", !.fd = sess[s].sock]
  <2>1. exec' = [exec EXCEPT ![e] = r]
    BY <1>3
  <2>2. s \in Ids /\ reader[s].at # "none"
    BY <1>1 DEF Inv, Held, Aimed
  <2>3. sess[s].sock \in Fds \cup {0}
    BY <2>2 DEF Inv, SockTyped
  <2>4. r \in Rec /\ r.at = "send" /\ r.s = s /\ r.fd = sess[s].sock /\ r.out = exec[e].out
    BY <2>3, ExecOf DEF Rec, ExecSteps
  <2>. HIDE DEF r
  <2>5. r.out = "none"
    BY <1>1, <2>4 DEF Inv, OutcomesLate
  <2>6. /\ ExecTyped' /\ Held' /\ CameOnce' /\ OutcomesLate' /\ SerialAlone' /\ Aimed'
        /\ \A g \in Execs : exec'[g] = IF g = e THEN r ELSE exec[g]
    <3>1. /\ r.s \in Ids /\ reader[r.s].at # "none"
          /\ r.at # "picked" /\ sess[r.s].active => r.fd = sess[r.s].sock
      BY <2>2, <2>4
    <3>2. exec[e].at \in InHand /\ exec[e].at # "none" /\ r.at \in InHand
      BY <1>1, <2>4 DEF InHand
    <3>. QED BY <1>1, <1>3, <2>1, <2>4, <2>5, <3>1, <3>2, ExecMoves
  <2>7. Traces' /\ OutcomesAreTrue'
    BY <1>1, <2>4, <2>5, <2>6, ExecTraces DEF BeforeSend, NotSent, AppOf
  <2>. QED BY <1>1, <1>3, <2>6, <2>7, TypedKept, Kept, SessionsKept DEF Inv
<1>. QED BY <1>1, <1>2, <1>3

LEMMA WaitingRec ==
  LET r == [NewExec EXCEPT !.at = "waiting"] IN r \in Rec /\ r.at = "waiting" /\ r.out = "none"
  BY DEF NewExec, Rec, ExecSteps, Outs

LEMMA SendBeginsKeeps ==
  ASSUME Inv, NEW e \in Execs, SendBegins(e)
  PROVE  Inv'
<1>. DEFINE s == exec[e].s
<1>1. PICK f \in Seen(exec[e].fd, s) : exec' = [exec EXCEPT ![e].at = "sending", ![e].fd = f]
  BY DEF SendBegins
<1>2. /\ exec[e].at = "send"
      /\ UNCHANGED <<sess, owner, reader, got, answers, ran, pending, reply, call>>
      /\ UNCHANGED <<enabled, main, orders, raced, twoClose>>
  BY DEF SendBegins, sockVars, plugVars, mainVars
<1>3. /\ s \in Ids /\ reader[s].at # "none"
      /\ sess[s].active => exec[e].fd = sess[s].sock
  BY <1>2 DEF Inv, Held, Aimed
<1>4. f \in Fds \cup {0} /\ (sess[s].active => f = sess[s].sock)
  BY <1>1, <1>3, ExecOf DEF Seen, Inv, SockTyped
<1>. DEFINE r == [exec[e] EXCEPT !.at = "sending", !.fd = f]
<1>5. exec' = [exec EXCEPT ![e] = r]
  BY <1>1
<1>6. r \in Rec /\ r.at = "sending" /\ r.s = s /\ r.fd = f /\ r.out = exec[e].out
  BY <1>4, ExecOf DEF Rec, ExecSteps
<1>. HIDE DEF r
<1>7. r.out = "none"
  BY <1>2, <1>6 DEF Inv, OutcomesLate
<1>8. /\ ExecTyped' /\ Held' /\ CameOnce' /\ OutcomesLate' /\ SerialAlone' /\ Aimed'
      /\ \A g \in Execs : exec'[g] = IF g = e THEN r ELSE exec[g]
  <2>1. /\ r.s \in Ids /\ reader[r.s].at # "none"
        /\ r.at # "picked" /\ sess[r.s].active => r.fd = sess[r.s].sock
    BY <1>3, <1>4, <1>6
  <2>2. exec[e].at \in InHand /\ exec[e].at # "none" /\ r.at \in InHand
    BY <1>2, <1>6 DEF InHand
  <2>. QED BY <1>2, <1>5, <1>6, <1>7, <2>1, <2>2, ExecMoves
<1>9. Traces' /\ OutcomesAreTrue'
  BY <1>2, <1>6, <1>7, <1>8, ExecTraces DEF BeforeSend, NotSent, AppOf
<1>. QED BY <1>2, <1>8, <1>9, TypedKept, Kept, SessionsKept DEF Inv

LEMMA SendsKeeps ==
  ASSUME Inv, NEW e \in Execs, Sends(e)
  PROVE  Inv'
<1>. DEFINE r == [NewExec EXCEPT !.at = "waiting"]
            s == owner[exec[e].fd]
<1>1. /\ exec[e].at = "sending"
      /\ got' = got \/ got' = [got EXCEPT ![s] = @ \cup {e}]
      /\ exec' = [exec EXCEPT ![e] = r]
      /\ UNCHANGED <<sess, owner, reader, answers, ran, pending, reply, call>>
      /\ UNCHANGED <<enabled, main, orders, raced, twoClose>>
  BY DEF Sends, sockVars, mainVars
<1>2. r \in Rec /\ r.at = "waiting" /\ r.out = "none"
  BY WaitingRec
<1>. HIDE DEF r
<1>3. /\ ExecTyped' /\ Held' /\ CameOnce' /\ OutcomesLate' /\ SerialAlone' /\ Aimed'
      /\ \A g \in Execs : exec'[g] = IF g = e THEN r ELSE exec[g]
  BY <1>1, <1>2, ExecMoves DEF InHand
<1>4. exec'[e] = r /\ \A g \in Execs : g # e => exec'[g] = exec[g]
  BY <1>3
<1>5. got' \in [Ids -> SUBSET Execs] /\ \A t \in Ids : got'[t] \subseteq got[t] \cup {e}
  BY <1>1 DEF Inv, PlugTyped
<1>6. Traces'
  BY <1>1, <1>2, <1>4, <1>5 DEF Inv, Traces, BeforeSend
<1>7. OutcomesAreTrue'
  BY <1>1, <1>2, <1>4, <1>5 DEF Inv, OutcomesAreTrue, NotSent, AppOf
<1>8. PlugTyped'
  BY <1>1, <1>5 DEF Inv, PlugTyped
<1>. QED BY <1>1, <1>3, <1>6, <1>7, <1>8, TypedKept, Kept, SessionsKept DEF Inv

LEMMA SendFailsKeeps ==
  ASSUME Inv, NEW e \in Execs, SendFails(e)
  PROVE  Inv'
<1>1. /\ exec[e].at = "sending" /\ Returns(e, "unsent") /\ pending' = pending \ {e}
      /\ UNCHANGED <<sess, owner, reader, got, answers, ran, reply, call>>
      /\ UNCHANGED <<enabled, main, orders, raced, twoClose>>
  BY DEF SendFails, NotPending, sockVars, plugVars, mainVars
<1>. QED BY <1>1, ReturnsKeeps DEF Outs, BeforeSend

LEMMA WaitReturnsKeeps ==
  ASSUME Inv, NEW e \in Execs, WaitReturns(e)
  PROVE  Inv'
<1>. DEFINE out == IF reply[e] = "no" THEN "timeout" ELSE reply[e]
            r == [exec[e] EXCEPT !.at = "woken", !.out = out]
<1>1. /\ exec[e].at = "waiting"
      /\ exec' = [exec EXCEPT ![e] = r]
      /\ reply' = [reply EXCEPT ![e] = "no"]
      /\ UNCHANGED <<sess, owner, reader, got, answers, ran, pending, call>>
      /\ UNCHANGED <<enabled, main, orders, raced, twoClose>>
  BY DEF WaitReturns, sockVars, plugVars, mainVars
<1>2. reply[e] \in {"no", "result", "stopped"}
  BY DEF Inv, ReplyTyped
<1>3. out \in Outs /\ out \in {"timeout", "result", "stopped"} /\ (out = "result" => reply[e] = "result")
  BY <1>2 DEF Outs
<1>. HIDE DEF out
<1>4. r \in Rec /\ r.at = "woken" /\ r.out = out
  BY <1>3, ExecOf DEF Rec, ExecSteps
<1>. HIDE DEF r
<1>5. /\ ExecTyped' /\ Held' /\ CameOnce' /\ OutcomesLate' /\ SerialAlone' /\ Aimed'
      /\ \A g \in Execs : exec'[g] = IF g = e THEN r ELSE exec[g]
  BY <1>1, <1>3, <1>4, ExecMoves DEF InHand
<1>6. ReplyTyped' /\ \A g \in Execs : reply'[g] = "result" => reply[g] = "result"
  BY <1>1 DEF Inv, ReplyTyped
<1>7. out = "result" => e \in ran
  BY <1>3 DEF Inv, Traces
<1>8. Traces' /\ OutcomesAreTrue'
  BY <1>1, <1>3, <1>4, <1>5, <1>6, <1>7, ExecTraces DEF BeforeSend, NotSent, AppOf
<1>. QED BY <1>1, <1>5, <1>6, <1>8, TypedKept, Kept, SessionsKept DEF Inv

LEMMA LeaveKeeps ==
  ASSUME Inv, NEW e \in Execs, Leave(e)
  PROVE  Inv'
<1>1. /\ exec[e].at = "woken" /\ pending' = pending \ {e} /\ Returns(e, exec[e].out)
      /\ UNCHANGED <<sess, owner, reader, got, answers, ran, reply, call>>
      /\ UNCHANGED <<enabled, main, orders, raced, twoClose>>
  BY DEF Leave, NotPending, sockVars, plugVars, mainVars
<1>2. /\ exec[e].out \in Outs \ {"headless"} /\ exec[e].out \notin NotSent
      /\ exec[e].out = "result" => e \in ran
  BY <1>1, ExecOf DEF Inv, OutcomesLate, OutcomesAreTrue, NotSent
<1>. QED BY <1>1, <1>2, ReturnsKeeps

-----------------------------------------------------------------------------
(* The daemon's steps.                                                     *)

(* A call that moves on at the daemon, and may arrive by a transport.      *)
LEMMA ArrivesKeeps ==
  ASSUME Inv, NEW c \in Calls, NEW at \in {"client", "gateway", "ended"},
         call[c].at \in {"idle", "client", "gateway"}, at = "client" => call[c].at = "idle",
         call' = [call EXCEPT ![c].at = at],
         \/ exec' = exec
         \/ at = "client" /\ Arrives(c, "client")
         \/ at = "gateway" /\ call[c].at = "client" /\ Arrives(c, "gateway"),
         UNCHANGED <<sess, owner, reader, got, answers, ran, pending, reply>>,
         UNCHANGED <<enabled, main, orders, raced, twoClose>>
  PROVE  Inv'
<1>. USE DEF Inv
<1>1. /\ CallTyped' /\ call'[c].at = at
      /\ \A d \in Calls : call'[d].app = call[d].app /\ (d # c => call'[d] = call[d])
  BY DEF CallTyped
<1>2. \A g \in Execs : AppOf(g)' = AppOf(g)
  BY <1>1 DEF AppOf, Execs
<1>3. CASE exec' = exec
  <2>1. CameOnce'
    BY <1>1, <1>3 DEF CameOnce
  <2>2. SerialAlone'
    BY <1>2, <1>3 DEF SerialAlone
  <2>3. OutcomesAreTrue'
    BY <1>2, <1>3 DEF OutcomesAreTrue
  <2>. QED BY <1>1, <1>3, <2>1, <2>2, <2>3, TypedKept, Kept, SessionsKept
<1>4. ASSUME NEW t \in Transports, Arrives(c, t), t = at,
             \/ t = "client"
             \/ t = "gateway" /\ call[c].at = "client"
      PROVE  Inv'
  <2>. DEFINE e == <<c, t>>
              r == [exec[e] EXCEPT !.at = "queued"]
  <2>1. e \in Execs /\ exec[e].at = "none" /\ exec' = [exec EXCEPT ![e] = r]
    BY <1>4 DEF Execs, CameOnce, Arrives
  <2>2. r \in Rec /\ r.at = "queued" /\ r.out = "none"
    BY <2>1, ExecOf DEF Rec, ExecSteps, OutcomesLate
  <2>. HIDE DEF r
  <2>3. exec'[e] = r /\ \A g \in Execs : g # e => exec'[g] = exec[g]
    BY <2>1 DEF ExecTyped
  <2>4. ExecTyped'
    BY <2>1, <2>2, <2>3 DEF ExecTyped, Rec, InHand
  <2>. HIDE DEF e
  <2>5. Held' /\ OutcomesLate' /\ Aimed'
    BY <2>2, <2>3 DEF Held, OutcomesLate, Aimed
  <2>6. CameOnce'
    <3>1. \A d \in Calls, u \in Transports : <<d, u>> \in Execs
      BY DEF Execs
    <3>2. \A d \in Calls : d # c => <<d, "client">> # e /\ <<d, "gateway">> # e
      BY DEF e
    <3>3. t = "client" => <<c, "gateway">> # e
      BY DEF e
    <3>4. ASSUME NEW d \in Calls, d # c PROVE
          /\ call'[d].at = "idle" => exec'[<<d, "client">>].at = "none"
          /\ call'[d].at \in {"idle", "client"} => exec'[<<d, "gateway">>].at = "none"
      <4>1. /\ call'[d] = call[d] /\ exec'[<<d, "client">>] = exec[<<d, "client">>]
            /\ exec'[<<d, "gateway">>] = exec[<<d, "gateway">>]
        BY <1>1, <2>3, <3>1, <3>2, <3>4 DEF Transports
      <4>. QED BY <4>1 DEF CameOnce
    <3>5. call'[c].at = "client" => exec'[<<c, "gateway">>].at = "none"
      <4>1. call'[c].at = "client" => call[c].at = "idle" /\ t = "client"
        BY <1>1, <1>4
      <4>2. call'[c].at = "client" => exec'[<<c, "gateway">>] = exec[<<c, "gateway">>]
        BY <2>3, <3>1, <3>3, <4>1 DEF Transports
      <4>. QED BY <4>1, <4>2 DEF CameOnce
    <3>. QED BY <1>1, <3>4, <3>5 DEF CameOnce
  <2>7. SerialAlone'
    BY <1>2, <2>2, <2>3 DEF SerialAlone, InHand
  <2>8. Traces' /\ OutcomesAreTrue'
    BY <1>2, <2>1, <2>2, <2>3, ExecTraces DEF BeforeSend, NotSent
  <2>. QED BY <1>1, <2>4, <2>5, <2>6, <2>7, <2>8, TypedKept, Kept, SessionsKept
<1>. QED BY <1>3, <1>4 DEF Transports

LEMMA CallKeeps ==
  ASSUME Inv, NEW c \in Calls, CallBegins(c) \/ CallGoesOn(c) \/ CallEnds(c)
  PROVE  Inv'
<1>1. CASE CallBegins(c)
  BY <1>1, ArrivesKeeps DEF CallBegins, callRest, sockVars, plugVars, mainVars
<1>2. CASE CallGoesOn(c)
  BY <1>2, ArrivesKeeps DEF CallGoesOn, callRest, sockVars, plugVars, mainVars
<1>3. CASE CallEnds(c)
  BY <1>3, ArrivesKeeps DEF CallEnds, callRest, sockVars, plugVars, mainVars
<1>. QED BY <1>1, <1>2, <1>3

-----------------------------------------------------------------------------
(* Main's steps.                                                           *)

(* Main moves, and has no session in its hands before or after.            *)
LEMMA MainMoves ==
  ASSUME Inv, main.at \notin {"close", "clear"}, main'.at \notin {"close", "clear"}, main'.fd = 0,
         UNCHANGED <<sess, owner, reader, twoClose>>
  PROVE  Life' /\ NumbersAge' /\ NumbersOwn' /\ (UNCHANGED exec => Held')
<1>1. \A t : ~MainAt(t) /\ ~MainAt(t)'
  BY DEF MainAt
<1>2. Life'
  BY <1>1 DEF Inv, Life
<1>3. NumbersAge' /\ NumbersOwn'
  BY DEF Inv, NumbersAge, NumbersOwn, Later, Own, Shaken
<1>4. UNCHANGED exec => Held'
  BY DEF Inv, Held
<1>. QED BY <1>2, <1>3, <1>4

LEMMA ToggleKeeps ==
  ASSUME Inv, NEW a \in Apps, Toggle(a)
  PROVE  Inv'
<1>. USE DEF Inv
<1>1. /\ main = Idle /\ orders < MaxOrders /\ orders' = orders + 1
      /\ enabled' = [enabled EXCEPT ![a] = ~@]
      /\ UNCHANGED <<sess, owner, reader, got, answers, ran, exec, pending, reply, call, twoClose>>
  BY DEF Toggle, sockVars, plugVars, execVars
<1>2. \/ /\ enabled[a] /\ main' = [Idle EXCEPT !.at = "sweep", !.app = a]
         /\ raced' = raced \cup {s \in Ids : reader[s].at = "register" /\ reader[s].on = a}
      \/ ~enabled[a] /\ UNCHANGED <<main, raced>>
  BY DEF Toggle
<1>3. /\ main.at = "idle" /\ main.fd = 0
      /\ \/ main' = main
         \/ main'.at = "sweep" /\ main'.app = a /\ main'.s = 0 /\ main'.fd = 0
  BY <1>1, <1>2 DEF Idle
<1>4. MainTyped'
  <2>1. orders' \in 0..MaxOrders
    BY <1>1, PluginsAssumption DEF MainTyped
  <2>2. main' \in [at : MainSteps, app : Apps \cup {NoApp}, s : Ids \cup {0}, fd : Fds \cup {0}]
    BY <1>2 DEF MainTyped, Idle, MainSteps
  <2>3. enabled' \in [Apps -> BOOLEAN] /\ raced' \subseteq Ids
    BY <1>1, <1>2 DEF MainTyped
  <2>. QED BY <2>1, <2>2, <2>3 DEF MainTyped
<1>5. Life' /\ NumbersAge' /\ NumbersOwn' /\ Held'
  BY <1>1, <1>3, MainMoves
<1>6. OffOrSwept'
  <2>1. ASSUME NEW s \in Ids, NEW b \in Apps, ~enabled'[b]
        PROVE  /\ b # a => ~enabled[b]
               /\ b = a => enabled[a]
    BY <1>1, <2>1 DEF MainTyped
  <2>2. raced \subseteq raced' /\ ~Stopping /\ PluginsFree
    BY <1>1, <1>2, <1>3 DEF Stopping, PluginsFree
  <2>3. ASSUME NEW s \in Ids, reader[s].at = "register", ~enabled'[reader[s].on] PROVE s \in raced'
    <3>1. reader[s].on \in Apps
      BY <2>3 DEF Held
    <3>2. CASE reader[s].on = a
      BY <1>2, <2>1, <2>3, <3>1, <3>2
    <3>3. CASE reader[s].on # a
      BY <2>1, <2>2, <2>3, <3>1, <3>3 DEF OffOrSwept
    <3>. QED BY <3>2, <3>3
  <2>4. ASSUME NEW s \in Ids, sess[s].active, sess[s].app # NoApp, ~enabled'[sess[s].app]
        PROVE  s \in raced' \/ (~PluginsFree' /\ sess[s].app = main'.app /\ s > main'.s)
    <3>1. sess[s].app \in Apps
      BY <2>4 DEF SockTyped
    <3>2. CASE sess[s].app = a
      <4>1. enabled[a]
        BY <2>1, <2>4, <3>1, <3>2
      <4>2. main'.at = "sweep" /\ main'.app = a /\ main'.s = 0
        BY <1>2, <4>1 DEF Idle
      <4>. QED BY <3>2, <4>2 DEF PluginsFree, Ids
    <3>3. CASE sess[s].app # a
      BY <2>1, <2>2, <2>4, <3>1, <3>3 DEF OffOrSwept
    <3>. QED BY <3>2, <3>3
  <2>. QED BY <1>1, <2>3, <2>4 DEF OffOrSwept
<1>. QED BY <1>1, <1>4, <1>5, <1>6, TypedKept, Kept, SessionsKept

LEMMA StopKeeps ==
  ASSUME Inv, Stop
  PROVE  Inv'
<1>. USE DEF Inv
<1>1. /\ main = Idle /\ orders < MaxOrders /\ orders' = orders + 1
      /\ main' = [Idle EXCEPT !.at = "gateway"]
      /\ UNCHANGED <<sess, owner, reader, got, answers, ran, exec, pending, reply, call, twoClose>>
      /\ UNCHANGED <<enabled, raced>>
  BY DEF Stop, sockVars, plugVars, execVars
<1>2. main.at = "idle" /\ main'.at = "gateway" /\ main'.app = NoApp /\ main'.fd = 0
  BY <1>1 DEF Idle
<1>3. MainTyped'
  BY <1>1, PluginsAssumption DEF MainTyped, Idle, MainSteps
<1>4. Life' /\ NumbersAge' /\ NumbersOwn' /\ Held'
  BY <1>1, <1>2, MainMoves
<1>5. OffOrSwept'
  BY <1>1, <1>2 DEF OffOrSwept, Stopping, PluginsFree
<1>. QED BY <1>1, <1>3, <1>4, <1>5, TypedKept, Kept, SessionsKept

LEMMA StopJoinsKeeps ==
  ASSUME Inv, StopJoins
  PROVE  Inv'
<1>. USE DEF Inv
<1>. DEFINE lost == [NewExec EXCEPT !.at = "done", !.out = "lost"]
<1>1. /\ main.at = "gateway" /\ main' = [main EXCEPT !.at = "sweep"]
      /\ exec' = [e \in Execs |-> IF e[2] = "gateway" /\ exec[e].at = "queued" THEN lost ELSE exec[e]]
      /\ UNCHANGED <<sess, owner, reader, got, answers, ran, pending, reply, call, twoClose>>
      /\ UNCHANGED <<enabled, orders, raced>>
  BY DEF StopJoins, sockVars, plugVars
<1>2. /\ main'.at = "sweep" /\ main'.app = main.app /\ main'.s = main.s /\ main'.fd = main.fd
      /\ MainTyped' /\ main.fd = 0
  BY <1>1 DEF MainTyped, MainSteps, Held
<1>3. lost \in Rec /\ lost.at = "done" /\ lost.out = "lost"
  BY DoneRec DEF Outs
<1>. HIDE DEF lost
<1>4. \A e \in Execs : exec'[e] = exec[e] \/ (exec[e].at = "queued" /\ exec'[e] = lost)
  BY <1>1
<1>5. ExecTyped'
  <2>1. exec' \in [Execs -> Rec]
    BY <1>1, <1>3, ExecOf
  <2>2. pending' \subseteq {e \in Execs : exec'[e].at \in InHand}
    BY <1>1, <1>4 DEF ExecTyped, InHand
  <2>. QED BY <2>1, <2>2 DEF ExecTyped, Rec
<1>6. Life' /\ NumbersAge' /\ NumbersOwn'
  BY <1>1, <1>2, MainMoves
<1>7. Held'
  BY <1>1, <1>2, <1>3, <1>4 DEF Held
<1>8. CameOnce'
  <2>1. \A e \in Execs : exec[e].at = "none" => exec'[e].at = "none"
    BY <1>4
  <2>. QED BY <1>1, <2>1 DEF CameOnce, Execs, Transports
<1>9. OutcomesLate' /\ OutcomesAreTrue'
  BY <1>1, <1>3, <1>4 DEF OutcomesLate, OutcomesAreTrue, Traces, BeforeSend, AppOf
<1>10. SerialAlone'
  <2>1. \A e \in Execs : exec'[e].at \in InHand => exec[e].at \in InHand
    BY <1>3, <1>4 DEF InHand
  <2>. QED BY <1>1, <2>1 DEF SerialAlone, AppOf
<1>11. Aimed' /\ Traces'
  BY <1>1, <1>3, <1>4 DEF Aimed, Traces, BeforeSend
<1>12. OffOrSwept'
  BY <1>1, <1>2 DEF OffOrSwept, Stopping, PluginsFree
<1>. QED BY <1>1, <1>2, <1>5, <1>6, <1>7, <1>8, <1>9, <1>10, <1>11, <1>12, TypedKept

LEMMA StopGoesOnKeeps ==
  ASSUME Inv, StopJoinsReaders \/ StopEnds
  PROVE  Inv'
<1>1. /\ main.at \in {"readers", "answer"}
      /\ \/ main' = [main EXCEPT !.at = "answer"]
         \/ main' = [main EXCEPT !.at = "stopped"]
      /\ UNCHANGED <<sess, owner, reader, got, answers, ran, exec, pending, reply, call, twoClose>>
      /\ UNCHANGED <<enabled, orders, raced>>
  BY DEF StopJoinsReaders, StopEnds, sockVars, plugVars, execVars
<1>2. /\ main'.at \in {"answer", "stopped"} /\ main'.app = main.app /\ main'.fd = 0
      /\ MainTyped'
  BY <1>1 DEF Inv, MainTyped, MainSteps, Held
<1>3. Life' /\ NumbersAge' /\ NumbersOwn' /\ Held'
  BY <1>1, <1>2, MainMoves
<1>4. OffOrSwept'
  BY <1>1, <1>2 DEF Inv, OffOrSwept, Stopping, PluginsFree
<1>. QED BY <1>1, <1>2, <1>3, <1>4, TypedKept, Kept, SessionsKept DEF Inv

LEMMA StopAnswersKeeps ==
  ASSUME Inv, NEW e \in Execs, StopAnswers(e)
  PROVE  Inv'
<1>1. /\ pending' = pending \ {e}
      /\ reply' = [reply EXCEPT ![e] = IF @ = "no" THEN "stopped" ELSE @]
      /\ UNCHANGED <<sess, owner, reader, got, answers, ran, exec, call, twoClose>>
      /\ UNCHANGED <<enabled, main, orders, raced>>
  BY DEF StopAnswers, sockVars, plugVars, mainVars
<1>2. ReplyTyped' /\ \A g \in Execs : reply'[g] = "result" => reply[g] = "result"
  BY <1>1 DEF Inv, ReplyTyped
<1>3. ExecTyped'
  BY <1>1 DEF Inv, ExecTyped
<1>4. Traces'
  BY <1>1, <1>2 DEF Inv, Traces
<1>. QED BY <1>1, <1>2, <1>3, <1>4, TypedKept, Kept, SessionsKept DEF Inv

LEMMA SweepEndsKeeps ==
  ASSUME Inv, SweepEnds
  PROVE  Inv'
<1>. USE DEF Inv
<1>1. /\ main.at = "sweep" /\ ToClose = {}
      /\ main' = IF main.app = NoApp THEN [Idle EXCEPT !.at = "readers"] ELSE Idle
      /\ UNCHANGED <<sess, owner, reader, got, answers, ran, exec, pending, reply, call, twoClose>>
      /\ UNCHANGED <<enabled, orders, raced>>
  BY DEF SweepEnds, sockVars, plugVars, execVars
<1>2. /\ main'.at \in {"idle", "readers"} /\ main'.app = NoApp /\ main'.fd = 0
      /\ MainTyped'
      /\ main.app = NoApp => main'.at = "readers"
  BY <1>1 DEF MainTyped, MainSteps, Idle
<1>3. Life' /\ NumbersAge' /\ NumbersOwn' /\ Held'
  BY <1>1, <1>2, MainMoves
<1>4. OffOrSwept'
  <2>1. main.app = NoApp => Stopping'
    BY <1>1, <1>2 DEF Stopping
  <2>2. ASSUME NEW s \in Ids, sess[s].active, sess[s].app # NoApp, sess[s].app = main.app, s > main.s
        PROVE  FALSE
    <3>1. reader[s].at \notin {"none", "accepted"}
      BY <2>2, LifeOf
    <3>2. s \in ToClose
      BY <2>2, <3>1 DEF ToClose
    <3>. QED BY <1>1, <3>2
  <2>. QED BY <1>1, <2>1, <2>2 DEF OffOrSwept, Stopping
<1>. QED BY <1>1, <1>2, <1>3, <1>4, TypedKept, Kept, SessionsKept

LEMMA MarksKeeps ==
  ASSUME Inv, NEW s \in Ids, Marks(s)
  PROVE  Inv'
<1>. USE DEF Inv
<1>1. /\ main.at = "sweep" /\ s \in ToClose /\ \A t \in ToClose : s <= t
      /\ sess' = [sess EXCEPT ![s].active = FALSE]
      /\ main' = [main EXCEPT !.at = "close", !.s = s, !.fd = sess[s].sock]
      /\ twoClose' = IF reader[s].at \in {"close", "clear"} THEN twoClose \cup {s} ELSE twoClose
      /\ UNCHANGED <<owner, reader, got, answers, ran, exec, pending, reply, call>>
      /\ UNCHANGED <<enabled, orders, raced>>
  BY DEF Marks, plugVars, execVars
<1>2. /\ SockTyped' /\ sess[s].sock \in Fds \cup {0}
      /\ ~sess'[s].active /\ sess'[s].sock = sess[s].sock /\ sess'[s].app = sess[s].app
      /\ \A t \in Ids : t # s => sess'[t] = sess[t]
  BY <1>1 DEF SockTyped
<1>3. /\ main'.at = "close" /\ main'.s = s /\ main'.fd = sess[s].sock /\ main'.app = main.app
      /\ MainTyped'
  BY <1>1, <1>2 DEF MainTyped, MainSteps
<1>4. TwoTyped'
  BY <1>1 DEF TwoTyped
<1>5. /\ \A t : ~MainAt(t) /\ (MainAt(t)' <=> t = s)
      /\ twoClose \subseteq twoClose' /\ twoClose' \subseteq twoClose \cup {s}
      /\ reader[s].at \in {"close", "clear"} => s \in twoClose'
  BY <1>1, <1>3 DEF MainAt
<1>6. Held'
  BY <1>1, <1>3 DEF Held
<1>7. reader[s].at \in Live \cup {"close", "clear"}
  <2>1. reader[s].at \in ReaderSteps \ {"none", "accepted"} /\ (sess[s].active \/ sess[s].sock # 0)
    BY <1>1 DEF ToClose, ReaderTyped
  <2>2. reader[s].at # "done"
    BY <2>1, LifeOf DEF Past
  <2>. QED BY <2>1, <2>2 DEF ReaderSteps, Live
<1>8. sess[s].active \/ sess[s].sock = 0 \/ reader[s].at \in {"close", "clear"}
  BY <1>5, <1>7, LifeOf
<1>9. Life'
  <2>1. \A t, u \in Ids : t < u /\ reader'[t].at \in {"none", "accepted"} => reader'[u].at = "none"
    BY <1>1 DEF Life
  <2>2. ASSUME NEW t \in Ids PROVE
        /\ reader'[t].at = "none" => sess'[t] = [app |-> NoApp, active |-> FALSE, sock |-> 0]
        /\ reader'[t].at = "accepted" => sess'[t].app = NoApp /\ sess'[t].active
        /\ reader'[t].at \in Live /\ ~sess'[t].active /\ sess'[t].sock # 0 => MainAt(t)'
        /\ reader'[t].at \in Past => ~sess'[t].active
        /\ reader'[t].at = "done" => sess'[t].sock = 0
        /\ sess'[t].active => sess'[t].sock # 0
        /\ MainAt(t)' => ~sess'[t].active /\ reader'[t].at \in Live \cup Past
        /\ MainAt(t)' /\ reader'[t].at \in Past => t \in twoClose'
        /\ t \in twoClose' => ~sess'[t].active /\ reader'[t].at \in Live \cup Past
    <3>1. CASE t = s
      BY <1>1, <1>2, <1>5, <1>7, <3>1 DEF Live, Past
    <3>2. CASE t # s
      <4>1. /\ sess'[t] = sess[t] /\ reader'[t] = reader[t] /\ (t \in twoClose' <=> t \in twoClose)
            /\ ~MainAt(t)' /\ ~MainAt(t)
        BY <1>1, <1>2, <1>5, <3>2
      <4>. QED BY <4>1, LifeOf
    <3>. QED BY <3>1, <3>2
  <2>. QED BY <2>1, <2>2 DEF Life
<1>10. NumbersAge'
  <2>1. \A t \in Ids : Later(sess[t].sock, t)' /\ Later(reader[t].fd, t)'
    BY <1>1, <1>2 DEF NumbersAge, Later
  <2>2. Later(main.fd, main.s)'
    BY <1>1, <1>3 DEF NumbersAge, Later
  <2>. QED BY <1>1, <2>1, <2>2 DEF NumbersAge
<1>11. NumbersOwn'
  <2>. SUFFICES ASSUME NEW t \in Ids, ~Shaken(t)' PROVE
        /\ sess'[t].active => Own(sess[t].sock, t)'
        /\ reader'[t].at = "close" => reader'[t].fd = sess'[t].sock /\ Own(reader[t].fd, t)'
        /\ main'.at = "close" /\ main'.s = t => main'.fd = sess'[t].sock /\ Own(main.fd, t)'
    BY DEF NumbersOwn
  <2>1. ~Shaken(t) /\ t \notin twoClose'
    <3>1. t \notin twoClose'
      BY <1>4 DEF Shaken, TwoTyped, Ids
    <3>. QED BY <1>5, <3>1 DEF Shaken
  <2>2. /\ sess[t].active => Own(sess[t].sock, t)
        /\ reader[t].at = "close" => reader[t].fd = sess[t].sock /\ Own(reader[t].fd, t)
    BY <2>1 DEF NumbersOwn
  <2>3. CASE t = s
    <3>1. reader[s].at \notin {"close", "clear"}
      BY <1>5, <2>1, <2>3
    <3>2. Own(sess[s].sock, s)
      BY <1>8, <2>2, <2>3, <3>1 DEF Own
    <3>. QED BY <1>1, <1>2, <1>3, <2>3, <3>1, <3>2 DEF Own
  <2>4. CASE t # s
    BY <1>1, <1>2, <1>3, <2>2, <2>4 DEF Own
  <2>. QED BY <2>3, <2>4
<1>12. Aimed'
  <2>. SUFFICES ASSUME NEW e \in Execs, exec[e].at \in {"picked", "send", "sending"}
       PROVE  /\ reader[exec[e].s].at # "none"
              /\ exec[e].at # "picked" /\ sess'[exec[e].s].active => exec[e].fd = sess'[exec[e].s].sock
    BY <1>1 DEF Aimed
  <2>1. /\ exec[e].s \in Ids /\ reader[exec[e].s].at # "none"
        /\ exec[e].at # "picked" /\ sess[exec[e].s].active => exec[e].fd = sess[exec[e].s].sock
    BY DEF Aimed, Held
  <2>. QED BY <1>2, <2>1
<1>13. OffOrSwept'
  <2>1. Stopping' <=> Stopping
    BY <1>1, <1>3 DEF Stopping
  <2>2. ASSUME NEW t \in Ids, sess'[t].active, sess'[t].app # NoApp, ~enabled[sess'[t].app],
               t \notin raced, ~Stopping
        PROVE  sess'[t].app = main'.app /\ t > s
    <3>1. t # s /\ sess'[t] = sess[t]
      BY <1>2, <2>2
    <3>2. sess[t].app = main.app /\ t > main.s
      BY <2>2, <3>1 DEF OffOrSwept
    <3>3. reader[t].at \notin {"none", "accepted"}
      BY <2>2, <3>1, LifeOf
    <3>4. t \in ToClose
      BY <2>2, <3>1, <3>2, <3>3 DEF ToClose
    <3>. QED BY <1>1, <1>3, <3>1, <3>2, <3>4 DEF Ids
  <2>3. ~PluginsFree'
    BY <1>3 DEF PluginsFree
  <2>4. \A t \in Ids : reader[t].at = "register" /\ ~enabled[reader[t].on] => t \in raced
    BY DEF OffOrSwept
  <2>. QED BY <1>1, <1>3, <2>1, <2>2, <2>3, <2>4 DEF OffOrSwept
<1>. QED BY <1>1, <1>2, <1>3, <1>4, <1>6, <1>9, <1>10, <1>11, <1>12, <1>13, TypedKept, Kept

LEMMA ClosesKeeps ==
  ASSUME Inv, Closes
  PROVE  Inv'
<1>. USE DEF Inv
<1>. DEFINE s == main.s
<1>1. PICK f \in Seen(main.fd, s) : Close(f)
  BY DEF Closes
<1>2. /\ main.at = "close" /\ main' = [main EXCEPT !.at = "clear", !.fd = 0]
      /\ UNCHANGED <<sess, reader, got, answers, ran, exec, pending, reply, call>>
      /\ UNCHANGED <<enabled, orders, raced, twoClose>>
  BY DEF Closes, plugVars, execVars
<1>3. /\ main'.at = "clear" /\ main'.s = s /\ main'.fd = 0 /\ main'.app = main.app
      /\ MainTyped'
  BY <1>2 DEF MainTyped, MainSteps
<1>4. s \in Ids /\ f \in Fds \cup {0}
  BY <1>2 DEF Held, Seen, SockTyped, MainTyped
<1>5. \A t : MainAt(t)' <=> MainAt(t)
  BY <1>2, <1>3 DEF MainAt
<1>6. /\ owner' \in [Fds -> Ids \cup {0}]
      /\ \A g \in Fds : owner'[g] = IF g = f THEN 0 ELSE owner[g]
      /\ \A x \in Ids, g \in Fds : x # s /\ ~Shaken(x) /\ owner[g] = x => owner'[g] = x
  <2>1. main.at = "close" /\ main.s = s /\ f \in Seen(main.fd, s)
    BY <1>1, <1>2
  <2>. HIDE DEF s
  <2>. QED BY <1>1, <1>4, <2>1, CloseHits
<1>7. SockTyped'
  BY <1>2, <1>6 DEF SockTyped
<1>8. Held'
  BY <1>2, <1>3, <1>4 DEF Held
<1>9. Life'
  BY <1>2, <1>5 DEF Life
<1>10. NumbersAge'
  <2>1. \A t \in Ids : Later(sess[t].sock, t)' /\ Later(reader[t].fd, t)'
    BY <1>2, <1>6 DEF NumbersAge, Later, SockTyped, ReaderTyped
  <2>2. \A g \in Fds : owner'[g] # 0 => reader'[owner'[g]].at # "none"
    BY <1>2, <1>6 DEF NumbersAge
  <2>. QED BY <1>3, <2>1, <2>2 DEF NumbersAge
<1>11. NumbersOwn'
  <2>. SUFFICES ASSUME NEW t \in Ids, ~Shaken(t) PROVE
        /\ sess[t].active => Own(sess[t].sock, t)'
        /\ reader[t].at = "close" => reader[t].fd = sess[t].sock /\ Own(reader[t].fd, t)'
    BY <1>2, <1>3 DEF NumbersOwn, Shaken
  <2>1. CASE t = s
    <3>1. t \notin twoClose /\ MainAt(t)
      BY <1>2, <2>1, ShakenSelf DEF MainAt
    <3>. QED BY <3>1, LifeOf DEF Past
  <2>2. CASE t # s
    BY <1>2, <1>6, <2>2 DEF NumbersOwn, Own, SockTyped, ReaderTyped
  <2>. QED BY <2>1, <2>2
<1>12. Aimed'
  BY <1>2 DEF Aimed
<1>13. OffOrSwept'
  BY <1>2, <1>3 DEF OffOrSwept, Stopping, PluginsFree
<1>. QED BY <1>2, <1>3, <1>7, <1>8, <1>9, <1>10, <1>11, <1>12, <1>13, TypedKept, Kept

LEMMA ClearsKeeps ==
  ASSUME Inv, Clears
  PROVE  Inv'
<1>. USE DEF Inv
<1>. DEFINE s == main.s
<1>1. /\ main.at = "clear" /\ main' = [main EXCEPT !.at = "sweep"]
      /\ sess' = [sess EXCEPT ![s].sock = 0]
      /\ UNCHANGED <<owner, reader, got, answers, ran, exec, pending, reply, call>>
      /\ UNCHANGED <<enabled, orders, raced, twoClose>>
  BY DEF Clears, plugVars, execVars
<1>2. /\ main'.at = "sweep" /\ main'.s = s /\ main'.fd = 0 /\ main'.app = main.app
      /\ MainTyped' /\ s \in Ids /\ MainAt(s)
  BY <1>1 DEF MainTyped, MainSteps, Held, MainAt
<1>3. ~sess[s].active
  BY <1>2, LifeOf
<1>4. \A t : ~MainAt(t)' /\ (MainAt(t) <=> t = s)
  BY <1>1, <1>2 DEF MainAt
<1>. HIDE DEF s
<1>5. /\ SockTyped' /\ ~sess'[s].active /\ sess'[s].sock = 0 /\ sess'[s].app = sess[s].app
      /\ \A t \in Ids : t # s => sess'[t] = sess[t]
  BY <1>1, <1>2, <1>3 DEF SockTyped
<1>6. Held'
  BY <1>1, <1>2 DEF Held
<1>7. Life'
  <2>1. \A t, u \in Ids : t < u /\ reader'[t].at \in {"none", "accepted"} => reader'[u].at = "none"
    BY <1>1 DEF Life
  <2>2. ASSUME NEW t \in Ids PROVE
        /\ reader'[t].at = "none" => sess'[t] = [app |-> NoApp, active |-> FALSE, sock |-> 0]
        /\ reader'[t].at = "accepted" => sess'[t].app = NoApp /\ sess'[t].active
        /\ reader'[t].at \in Live /\ ~sess'[t].active /\ sess'[t].sock # 0 => MainAt(t)'
        /\ reader'[t].at \in Past => ~sess'[t].active
        /\ reader'[t].at = "done" => sess'[t].sock = 0
        /\ sess'[t].active => sess'[t].sock # 0
        /\ MainAt(t)' => ~sess'[t].active /\ reader'[t].at \in Live \cup Past
        /\ MainAt(t)' /\ reader'[t].at \in Past => t \in twoClose'
        /\ t \in twoClose' => ~sess'[t].active /\ reader'[t].at \in Live \cup Past
    <3>1. CASE t = s
      <4>1. reader[s].at \in Live \cup Past
        BY <1>2, LifeOf
      <4>. QED BY <1>1, <1>4, <1>5, <3>1, <4>1 DEF Live, Past
    <3>2. CASE t # s
      <4>1. /\ sess'[t] = sess[t] /\ reader'[t] = reader[t] /\ twoClose' = twoClose
            /\ ~MainAt(t)' /\ ~MainAt(t)
        BY <1>1, <1>4, <1>5, <3>2
      <4>. QED BY <4>1, LifeOf
    <3>. QED BY <3>1, <3>2
  <2>. QED BY <2>1, <2>2 DEF Life
<1>8. NumbersAge'
  <2>1. \A t \in Ids : Later(sess[t].sock, t)' /\ Later(reader[t].fd, t)'
    BY <1>1, <1>5 DEF NumbersAge, Later
  <2>. QED BY <1>1, <1>2, <2>1 DEF NumbersAge
<1>9. NumbersOwn'
  <2>. SUFFICES ASSUME NEW t \in Ids, ~Shaken(t) PROVE
        /\ sess'[t].active => Own(sess[t].sock, t)'
        /\ reader[t].at = "close" => reader[t].fd = sess'[t].sock /\ Own(reader[t].fd, t)'
    BY <1>1, <1>2 DEF NumbersOwn, Shaken
  <2>1. CASE t = s
    <3>1. t \notin twoClose /\ MainAt(t)
      BY <1>2, <2>1, ShakenSelf
    <3>2. reader[t].at # "close"
      BY <3>1, LifeOf DEF Past
    <3>. QED BY <1>5, <2>1, <3>2
  <2>2. CASE t # s
    BY <1>1, <1>5, <2>2 DEF NumbersOwn, Own
  <2>. QED BY <2>1, <2>2
<1>10. Aimed'
  <2>. SUFFICES ASSUME NEW e \in Execs, exec[e].at \in {"picked", "send", "sending"}
       PROVE  /\ reader[exec[e].s].at # "none"
              /\ exec[e].at # "picked" /\ sess'[exec[e].s].active => exec[e].fd = sess'[exec[e].s].sock
    BY <1>1 DEF Aimed
  <2>1. /\ exec[e].s \in Ids /\ reader[exec[e].s].at # "none"
        /\ exec[e].at # "picked" /\ sess[exec[e].s].active => exec[e].fd = sess[exec[e].s].sock
    BY DEF Aimed, Held
  <2>. QED BY <1>5, <2>1
<1>11. OffOrSwept'
  <2>1. \A t \in Ids : sess'[t].active => sess'[t] = sess[t]
    BY <1>5
  <2>. QED BY <1>1, <1>2, <2>1 DEF OffOrSwept, Stopping, PluginsFree, s
<1>. QED BY <1>1, <1>2, <1>5, <1>6, <1>7, <1>8, <1>9, <1>10, <1>11, TypedKept, Kept

-----------------------------------------------------------------------------
(* The theorems.                                                           *)

LEMMA InitInv ==
  Init => Inv
<1>. SUFFICES ASSUME Init PROVE Inv
  OBVIOUS
<1>. USE DEF Init
<1>1. SockTyped /\ ReaderTyped /\ PlugTyped
  BY DEF SockTyped, ReaderTyped, PlugTyped, At, ReaderSteps
<1>2. ExecTyped /\ ReplyTyped /\ CallTyped
  BY DEF ExecTyped, ReplyTyped, CallTyped, NewExec, ExecSteps, Outs
<1>3. MainTyped /\ TwoTyped
  BY PluginsAssumption DEF MainTyped, TwoTyped, Idle, MainSteps
<1>4. \A s \in Ids : reader[s] = [at |-> "none", on |-> "none", fd |-> 0]
  BY DEF At
<1>5. \A e \in Execs : exec[e].at = "none" /\ exec[e].out = "none"
  BY DEF NewExec
<1>6. main.at = "idle" /\ main.fd = 0
  BY DEF Idle
<1>7. Held
  BY <1>4, <1>5, <1>6 DEF Held
<1>8. CameOnce /\ OutcomesLate /\ SerialAlone
  BY <1>5 DEF CameOnce, OutcomesLate, SerialAlone, InHand, Execs, Transports
<1>9. Traces /\ OutcomesAreTrue
  BY <1>4, <1>5 DEF Traces, OutcomesAreTrue, NotSent
<1>10. Life /\ NumbersAge /\ NumbersOwn
  BY <1>4, <1>6 DEF Life, NumbersAge, NumbersOwn, Later, Own, MainAt, Live, Past
<1>11. Aimed /\ OffOrSwept
  BY <1>4, <1>5 DEF Aimed, OffOrSwept
<1>. QED BY <1>1, <1>2, <1>3, <1>7, <1>8, <1>9, <1>10, <1>11 DEF Inv

LEMMA NextInv ==
  Inv /\ [Next]_vars => Inv'
<1>. SUFFICES ASSUME Inv, [Next]_vars PROVE Inv'
  OBVIOUS
<1>1. ASSUME NEW s \in Ids, Accept(s) \/ ReaderEnds(s) PROVE Inv'
  BY <1>1, AcceptKeeps, ReaderEndsKeeps
<1>2. ASSUME NEW s \in Ids, ReaderNext(s) PROVE Inv'
  BY <1>2, ListedKeeps, RegisterSetsKeeps, AnswerCompletesKeeps, ReaderClosesKeeps,
     ReaderClearsKeeps, AnswerFindsKeeps DEF ReaderNext
<1>3. ASSUME NEW s \in Ids, NEW a \in Apps, RegisterChecks(s, a) PROVE Inv'
  BY <1>3, RegisterChecksKeeps
<1>4. ASSUME NEW s \in Ids, NEW e \in Execs, PluginRuns(s, e) PROVE Inv'
  BY <1>4, PluginRunsKeeps
<1>5. ASSUME NEW e \in Execs, ExecNext(e) PROVE Inv'
  BY <1>5, DispatchKeeps, PickKeeps, UnaskedKeeps, SendChecksKeeps, SendBeginsKeeps,
     WaitReturnsKeeps, LeaveKeeps DEF ExecNext
<1>11. ASSUME NEW e \in Execs, Sends(e) \/ SendFails(e) PROVE Inv'
  BY <1>11, SendsKeeps, SendFailsKeeps
<1>6. ASSUME NEW c \in Calls, CallBegins(c) \/ CallGoesOn(c) \/ CallEnds(c) PROVE Inv'
  BY <1>6, CallKeeps
<1>7. ASSUME NEW a \in Apps, Toggle(a) PROVE Inv'
  BY <1>7, ToggleKeeps
<1>8. CASE Stop
  BY <1>8, StopKeeps
<1>9. CASE MainNext
  BY <1>9, StopJoinsKeeps, ClosesKeeps, ClearsKeeps, SweepEndsKeeps, StopGoesOnKeeps, MarksKeeps,
     StopAnswersKeeps DEF MainNext
<1>10. CASE UNCHANGED vars
  <2>1. /\ UNCHANGED <<sess, owner, reader, got, answers, ran, exec, pending, reply, call>>
        /\ UNCHANGED <<enabled, main, orders, raced, twoClose>>
    BY <1>10 DEF vars, sockVars, plugVars, execVars, mainVars
  <2>. QED BY <2>1, TypedKept, Kept, SessionsKept DEF Inv
<1>. QED BY <1>1, <1>2, <1>3, <1>4, <1>5, <1>6, <1>7, <1>8, <1>9, <1>10, <1>11 DEF Next

LEMMA Invariance ==
  Spec => []Inv
<1>. QED BY InitInv, NextInv, PTL DEF Spec

(* Types hold, and a program that is switched off keeps no session but one *)
(* whose registration passed its check before the switch                   *)
(* (SessionsOK, setBridgeEnabled() against plugin/register).               *)
THEOREM SessionsSafe ==
  Spec => []SessionsOK
<1>1. Inv => OffOrSwept /\ MainTyped /\ SockTyped
  BY DEF Inv
<1>2. Inv => OffOnlyByRace
  BY <1>1 DEF OffOnlyByRace, OffOrSwept, Stopping, PluginsFree
<1>3. Inv => SessionsOK
  BY <1>2, TypeParts DEF SessionsOK
<1>. QED BY <1>3, Invariance, PTL

(* What a call is told has happened: a result is of this call, which has   *)
(* run; a call that was refused, not sent, or lost on its way has not run  *)
(* and is at no plugin; and only tools of programs whose calls may run     *)
(* together answer without their plugin                                    *)
(* (OutcomesAreTrue, callPlugin(), completePluginCall() and the handlers   *)
(* of the tools).                                                          *)
THEOREM OutcomesSafe ==
  Spec => []OutcomesAreTrue
<1>1. Inv => OutcomesAreTrue
  BY DEF Inv
<1>. QED BY <1>1, Invariance, PTL

(* Two requests are at the plugins of EasyEDA at a time only when one of   *)
(* them is waited for no more (OverlapOnlyAbandoned, the mutex of          *)
(* EasyEDA's tools in callPlugin()).                                       *)
THEOREM OverlapSafe ==
  Spec => []OverlapOnlyAbandoned
<1>1. ASSUME Inv PROVE OverlapOnlyAbandoned
  <2>1. ASSUME NEW e \in Execs, NEW s \in Ids, e \in got[s], exec[e].at # "done"
        PROVE  exec[e].at \in InHand
    <3>1. exec[e].at \notin BeforeSend /\ exec[e].at \in ExecSteps
      BY <1>1, <2>1, ExecOf DEF Inv, Traces
    <3>. QED BY <2>1, <3>1 DEF BeforeSend, ExecSteps, InHand
  <2>2. SerialAlone
    BY <1>1 DEF Inv
  <2>. QED BY <2>1, <2>2 DEF OverlapOnlyAbandoned, SerialAlone
<1>. QED BY <1>1, Invariance, PTL

(* Which steps move requests to plugins, and descriptor numbers.           *)
LEMMA WhoMoves ==
  ASSUME [Next]_vars
  PROVE  /\ \/ got' = got
            \/ \E s \in Ids, e \in Execs : PluginRuns(s, e)
            \/ \E e \in Execs : Sends(e)
         /\ \/ owner' = owner
            \/ \E s \in Ids : Accept(s) \/ ReaderCloses(s)
            \/ Closes
<1>. USE DEF sockVars, plugVars, execVars, mainVars
<1>1. ASSUME NEW s \in Ids, Accept(s) \/ ReaderEnds(s)
      PROVE  got' = got /\ (owner' = owner \/ Accept(s))
  BY <1>1 DEF Accept, ReaderEnds
<1>2. ASSUME NEW s \in Ids, ReaderNext(s)
      PROVE  got' = got /\ (owner' = owner \/ ReaderCloses(s))
  BY <1>2 DEF ReaderNext, Listed, RegisterSets, AnswerCompletes, ReaderCloses, ReaderClears, AnswerFinds
<1>3. ASSUME NEW s \in Ids, NEW a \in Apps, RegisterChecks(s, a)
      PROVE  got' = got /\ owner' = owner
  BY <1>3 DEF RegisterChecks
<1>4. ASSUME NEW s \in Ids, NEW e \in Execs, PluginRuns(s, e)
      PROVE  owner' = owner
  BY <1>4 DEF PluginRuns
<1>5. ASSUME NEW e \in Execs, ExecNext(e)
      PROVE  got' = got /\ owner' = owner
  <2>1. CASE Dispatch(e)
    BY <2>1 DEF Dispatch
  <2>2. CASE Pick(e)
    BY <2>2 DEF Pick
  <2>3. CASE SendChecks(e)
    BY <2>3 DEF SendChecks
  <2>4. CASE Unasked(e) \/ SendBegins(e)
    BY <2>4 DEF Unasked, SendBegins
  <2>5. CASE WaitReturns(e)
    BY <2>5 DEF WaitReturns
  <2>6. CASE Leave(e)
    BY <2>6 DEF Leave
  <2>. QED BY <1>5, <2>1, <2>2, <2>3, <2>4, <2>5, <2>6 DEF ExecNext
<1>11. ASSUME NEW e \in Execs, Sends(e) \/ SendFails(e)
       PROVE  (got' = got \/ Sends(e)) /\ owner' = owner
  BY <1>11 DEF Sends, SendFails
<1>6. ASSUME NEW c \in Calls, CallBegins(c) \/ CallGoesOn(c) \/ CallEnds(c)
      PROVE  got' = got /\ owner' = owner
  BY <1>6 DEF CallBegins, CallGoesOn, CallEnds, callRest
<1>7. ASSUME NEW a \in Apps, Toggle(a)
      PROVE  got' = got /\ owner' = owner
  BY <1>7 DEF Toggle
<1>8. CASE Stop
  BY <1>8 DEF Stop
<1>9. ASSUME MainNext
      PROVE  got' = got /\ (owner' = owner \/ Closes)
  <2>1. CASE StopJoins
    BY <2>1 DEF StopJoins
  <2>2. CASE Closes
    BY <2>2 DEF Closes
  <2>3. CASE Clears
    BY <2>3 DEF Clears
  <2>4. CASE SweepEnds
    BY <2>4 DEF SweepEnds
  <2>5. CASE StopJoinsReaders
    BY <2>5 DEF StopJoinsReaders
  <2>6. CASE StopEnds
    BY <2>6 DEF StopEnds
  <2>7. ASSUME NEW s \in Ids, Marks(s) PROVE got' = got /\ owner' = owner
    BY <2>7 DEF Marks
  <2>8. ASSUME NEW e \in Execs, StopAnswers(e) PROVE got' = got /\ owner' = owner
    BY <2>8 DEF StopAnswers
  <2>. QED BY <1>9, <2>1, <2>2, <2>3, <2>4, <2>5, <2>6, <2>7, <2>8 DEF MainNext
<1>10. CASE UNCHANGED vars
  BY <1>10 DEF vars
<1>. QED BY <1>1, <1>2, <1>3, <1>4, <1>5, <1>6, <1>7, <1>8, <1>9, <1>10, <1>11 DEF Next

LEMMA StrayStep ==
  ASSUME Inv, [Next]_vars, NEW e \in Execs, NEW s \in Ids, e \in got'[s] \ got[s], s # exec[e].s
  PROVE  ~sess[exec[e].s].active \/ \E t \in twoClose : t < exec[e].s
<1>. DEFINE x == exec[e].s
<1>1. CASE got' = got
  BY <1>1
<1>2. ASSUME NEW r \in Ids, NEW g \in Execs, PluginRuns(r, g) PROVE FALSE
  BY <1>2 DEF PluginRuns, Inv, PlugTyped
<1>3. ASSUME NEW g \in Execs, Sends(g), got' # got, sess[x].active
      PROVE  \E t \in twoClose : t < x
  <2>. DEFINE f == exec[g].fd
  <2>1. f # 0 /\ owner[f] # 0 /\ got' = [got EXCEPT ![owner[f]] = @ \cup {g}]
    BY <1>3 DEF Sends, Gone
  <2>2. g = e /\ s = owner[f]
    BY <2>1 DEF Inv, PlugTyped
  <2>3. exec[e].at = "sending"
    BY <1>3, <2>2 DEF Sends
  <2>4. x \in Ids /\ exec[e].fd = sess[x].sock
    BY <1>3, <2>3 DEF Inv, Held, Aimed
  <2>. HIDE DEF x, f
  <2>5. f = sess[x].sock
    BY <2>2, <2>4 DEF f
  <2>6. Shaken(x)
    BY <1>3, <2>1, <2>2, <2>4, <2>5 DEF Inv, NumbersOwn, Own, x
  <2>7. PICK t \in twoClose : t <= x
    BY <2>6 DEF Shaken
  <2>8. t \in Ids
    BY DEF Inv, TwoTyped
  <2>9. t # x
    BY <1>3, <2>4, <2>8, LifeOf DEF Inv
  <2>. QED BY <2>4, <2>7, <2>8, <2>9 DEF Ids
<1>. QED BY <1>1, <1>2, <1>3, WhoMoves

LEMMA StrangerStep ==
  ASSUME Inv, [Next]_vars, NEW f \in Fds, owner[f] # 0, owner'[f] = 0, sess[owner[f]].active
  PROVE  \E t \in twoClose : t < owner[f]
<1>0. owner[f] \in Ids
  BY DEF Inv, SockTyped
<1>1. CASE owner' = owner
  BY <1>1
<1>2. ASSUME NEW s \in Ids, Accept(s) PROVE FALSE
  BY <1>2 DEF Accept, Inv, SockTyped, Ids
<1>3. ASSUME NEW s \in Ids, ~sess[s].active, Shaken(s), s < owner[f]
      PROVE  \E t \in twoClose : t < owner[f]
  <2>1. PICK t \in twoClose : t <= s
    BY <1>3 DEF Shaken
  <2>2. t \in Ids
    BY DEF Inv, TwoTyped
  <2>. QED BY <1>0, <1>3, <2>1, <2>2 DEF Ids
<1>4. ASSUME NEW s \in Ids, ReaderCloses(s) PROVE \E t \in twoClose : t < owner[f]
  <2>1. PICK g \in Seen(reader[s].fd, s) : Close(g)
    BY <1>4 DEF ReaderCloses
  <2>2. reader[s].at = "close" /\ ~sess[s].active /\ g \in Fds \cup {0}
    BY <1>4, LifeOf DEF ReaderCloses, Past, Seen, Inv, SockTyped, ReaderTyped
  <2>3. /\ \A h \in Fds : owner'[h] = IF h = g THEN 0 ELSE owner[h]
        /\ g # 0 /\ owner[g] # 0 /\ owner[g] # s => Shaken(s) /\ s < owner[g]
    BY <2>1, <2>2, CloseHits
  <2>4. f = g /\ f # 0 /\ owner[f] # s
    BY <2>2, <2>3, PluginsAssumption
  <2>. QED BY <1>3, <2>2, <2>3, <2>4
<1>5. CASE Closes
  <2>. DEFINE s == main.s
  <2>1. PICK g \in Seen(main.fd, s) : Close(g)
    BY <1>5 DEF Closes
  <2>2. main.at = "close" /\ s \in Ids /\ MainAt(s)
    BY <1>5 DEF Closes, Inv, Held, MainAt
  <2>3. ~sess[s].active /\ g \in Fds \cup {0} /\ main.s = s
    BY <2>2, LifeOf DEF Seen, Inv, SockTyped, MainTyped
  <2>. HIDE DEF s
  <2>4. /\ \A h \in Fds : owner'[h] = IF h = g THEN 0 ELSE owner[h]
        /\ g # 0 /\ owner[g] # 0 /\ owner[g] # s => Shaken(s) /\ s < owner[g]
    BY <2>1, <2>2, <2>3, CloseHits
  <2>5. f = g /\ f # 0 /\ owner[f] # s
    BY <2>3, <2>4, PluginsAssumption
  <2>. QED BY <1>3, <2>2, <2>3, <2>4, <2>5
<1>. QED BY <1>1, <1>2, <1>4, <1>5, WhoMoves

(* Whatever numbers the sockets get, a request for a session that is       *)
(* active goes to its own connection, and a connection in use is closed by *)
(* its own session, unless a session older than it was closed by its       *)
(* reader and main at a time (StrangersOnlyByRace, sendPluginJson() and    *)
(* the two places that close a plugin's socket).                           *)
THEOREM StrangersSafe ==
  Spec => StrangersOnlyByRace
<1>. DEFINE Stray == \A e \in Execs, s \in Ids :
                       e \in got'[s] \ got[s] /\ s # exec[e].s
                       => ~sess[exec[e].s].active \/ \E t \in twoClose : t < exec[e].s
            Stranger == \A f \in Fds :
                          owner[f] # 0 /\ owner'[f] = 0 /\ sess[owner[f]].active
                          => \E s \in twoClose : s < owner[f]
<1>1. Inv /\ [Next]_vars => Stray
  BY StrayStep
<1>2. Inv /\ [Next]_vars => Stranger
  BY StrangerStep
<1>3. Spec => [][Stray]_vars
  BY <1>1, Invariance, PTL DEF Spec
<1>4. Spec => [][Stranger]_vars
  BY <1>2, Invariance, PTL DEF Spec
<1>. QED BY <1>3, <1>4 DEF StrangersOnlyByRace, StrayOnlyWhenClosed, StrangersClosedOnlyByTwo

-----------------------------------------------------------------------------
(* That stop() leaves nothing to wait for.                                 *)

(* How far the sweep of stop() is: behind it no session has a number, so   *)
(* every reader that still reads finds its connection closed.              *)
StopSwept ==
  /\ main.at \in {"gateway", "readers", "answer", "stopped"} => main.app = NoApp
  /\ main.at = "gateway" => main.s = 0
  /\ Stopping /\ main.at # "gateway" => \A s \in Ids : reader[s].at # "accepted"
  /\ Stopping /\ ~PluginsFree => \A s \in Ids : s <= main.s /\ ~MainAt(s) => sess[s].sock = 0
  /\ main.at \in {"readers", "answer", "stopped"} => \A s \in Ids : sess[s].sock = 0
  /\ main.at \in {"answer", "stopped"} => \A s \in Ids : reader[s].at \in {"none", "done"}

(* What others than main do to it.                                         *)
LEMMA SweptKept ==
  ASSUME StopSwept, UNCHANGED main,
         \A t \in Ids : sess'[t].sock = sess[t].sock \/ sess'[t].sock = 0,
         \A t \in Ids : reader'[t].at # reader[t].at
                        => reader[t].at \notin {"none", "done"} /\ reader'[t].at # "accepted"
  PROVE  StopSwept'
<1>1. \A t : MainAt(t)' = MainAt(t)
  BY DEF MainAt
<1>. QED BY <1>1 DEF StopSwept, Stopping, PluginsFree

LEMMA SweptReader ==
  ASSUME Inv, StopSwept, NEW s \in Ids, ReaderEnds(s) \/ ReaderNext(s)
  PROVE  StopSwept'
<1>. USE DEF Inv, execVars, plugVars, sockVars, mainVars, callRest
<1>0. /\ DOMAIN reader = Ids /\ DOMAIN sess = Ids
      /\ sess[s] \in [app : Apps \cup {NoApp}, active : BOOLEAN, sock : Fds \cup {0}]
  BY DEF Held, SockTyped
<1>1. ASSUME NEW a, NEW o, NEW f, reader' = [reader EXCEPT ![s] = [at |-> a, on |-> o, fd |-> f]],
             a # "accepted", reader[s].at \notin {"none", "done"}, UNCHANGED main,
             \A t \in Ids : sess'[t].sock = sess[t].sock \/ sess'[t].sock = 0
      PROVE  StopSwept'
  <2>1. \A t \in Ids : reader'[t] = IF t = s THEN [at |-> a, on |-> o, fd |-> f] ELSE reader[t]
    BY <1>1, ReaderSet
  <2>. QED BY <1>1, <2>1, SweptKept
<1>2. CASE Listed(s)
  BY <1>1, <1>2, ReadsOnSets DEF Listed
<1>3. CASE RegisterSets(s)
  <2>1. \A t \in Ids : sess'[t].sock = sess[t].sock
    BY <1>0, <1>3 DEF RegisterSets
  <2>. QED BY <1>1, <1>3, <2>1, ReadsOnSets DEF RegisterSets
<1>4. ASSUME NEW e \in Execs, AnswerFinds(s, e) PROVE StopSwept'
  <2>1. CASE ReadsOn(s)
    BY <1>1, <1>4, <2>1, ReadsOnSets DEF AnswerFinds, Heard
  <2>2. CASE reader' = [reader EXCEPT ![s] = [at |-> "deliver", on |-> e, fd |-> 0]]
    BY <1>1, <1>4, <2>2 DEF AnswerFinds, Heard
  <2>. QED BY <1>4, <2>1, <2>2 DEF AnswerFinds
<1>5. CASE AnswerCompletes(s)
  BY <1>1, <1>5, ReadsOnSets DEF AnswerCompletes
<1>6. CASE ReaderCloses(s)
  <2>1. reader' = [reader EXCEPT ![s] = [at |-> "clear", on |-> "none", fd |-> 0]]
    BY <1>6 DEF ReaderCloses, At
  <2>2. reader[s].at = "close" /\ UNCHANGED <<main, sess>>
    BY <1>6 DEF ReaderCloses
  <2>. QED BY <1>1, <2>1, <2>2
<1>7. CASE ReaderClears(s)
  <2>1. reader' = [reader EXCEPT ![s] = [at |-> "done", on |-> reader[s].on, fd |-> reader[s].fd]]
    BY <1>7, ReaderAt DEF ReaderClears
  <2>2. \A t \in Ids : sess'[t].sock = sess[t].sock \/ sess'[t].sock = 0
    BY <1>0, <1>7 DEF ReaderClears
  <2>3. reader[s].at = "clear" /\ UNCHANGED main
    BY <1>7 DEF ReaderClears
  <2>. QED BY <1>1, <2>1, <2>2, <2>3
<1>8. CASE ReaderEnds(s)
  <2>1. \A t \in Ids : sess'[t].sock = sess[t].sock
    BY <1>0, <1>8 DEF ReaderEnds
  <2>. QED BY <1>1, <1>8, <2>1 DEF ReaderEnds
<1>. QED BY <1>2, <1>3, <1>4, <1>5, <1>6, <1>7, <1>8 DEF ReaderNext

LEMMA SweptMain ==
  ASSUME Inv, StopSwept, MainNext
  PROVE  StopSwept'
<1>. USE DEF Inv, execVars, plugVars, sockVars, mainVars
<1>0. /\ DOMAIN sess = Ids /\ \A s \in Ids : sess[s].sock \in Fds \cup {0}
      /\ main \in [at : MainSteps, app : Apps \cup {NoApp}, s : Ids \cup {0}, fd : Fds \cup {0}]
      /\ \A s \in Ids : s \in Nat /\ s # 0
  BY DEF SockTyped, MainTyped, Ids
<1>1. CASE StopJoins
  <2>1. main'.at = "sweep" /\ main'.app = main.app /\ main'.s = main.s /\ UNCHANGED <<sess, reader>>
    BY <1>0, <1>1 DEF StopJoins
  <2>2. main.s = 0
    BY <1>1 DEF StopJoins, StopSwept
  <2>. QED BY <1>0, <1>1, <2>1, <2>2 DEF StopJoins, StopSwept, Stopping, PluginsFree
<1>2. ASSUME NEW s \in Ids, Marks(s) PROVE StopSwept'
  <2>1. /\ main'.at = "close" /\ main'.app = main.app /\ main'.s = s /\ UNCHANGED reader
        /\ main.at = "sweep" /\ \A t \in ToClose : s <= t
        /\ \A t \in Ids : sess'[t].sock = sess[t].sock
    BY <1>0, <1>2 DEF Marks
  <2>2. ASSUME Stopping, NEW t \in Ids, t < s, t > main.s PROVE sess[t].sock = 0
    <3>1. t \notin ToClose
      BY <1>0, <2>1, <2>2
    <3>2. reader[t].at \in {"none", "accepted"} \/ sess[t].sock = 0
      BY <2>2, <3>1 DEF ToClose, Stopping
    <3>3. reader[t].at # "accepted"
      BY <2>1, <2>2 DEF StopSwept
    <3>4. reader[t].at = "none" => sess[t].sock = 0
      BY LifeOf
    <3>. QED BY <3>2, <3>3, <3>4
  <2>3. Stopping => \A t \in Ids : t <= s /\ t # s => sess'[t].sock = 0
    <3>. SUFFICES ASSUME Stopping, NEW t \in Ids, t <= s, t # s PROVE sess[t].sock = 0
      BY <2>1
    <3>1. CASE t <= main.s
      BY <2>1, <3>1 DEF StopSwept, PluginsFree, MainAt
    <3>2. CASE t > main.s
      BY <1>0, <2>2, <3>2
    <3>. QED BY <1>0, <3>1, <3>2
  <2>4. Stopping' = Stopping /\ \A t \in Ids : MainAt(t)' <=> t = s
    BY <2>1 DEF Stopping, MainAt
  <2>. QED BY <2>1, <2>3, <2>4 DEF StopSwept
<1>3. CASE Closes
  <2>1. /\ main'.at = "clear" /\ main'.app = main.app /\ main'.s = main.s /\ main.at = "close"
        /\ UNCHANGED <<sess, reader>>
    BY <1>0, <1>3 DEF Closes
  <2>. QED BY <2>1 DEF StopSwept, Stopping, PluginsFree, MainAt
<1>4. CASE Clears
  <2>1. /\ main'.at = "sweep" /\ main'.app = main.app /\ main'.s = main.s /\ main.at = "clear"
        /\ UNCHANGED reader
        /\ \A t \in Ids : sess'[t].sock = IF t = main.s THEN 0 ELSE sess[t].sock
    BY <1>0, <1>4 DEF Clears
  <2>. QED BY <2>1 DEF StopSwept, Stopping, PluginsFree, MainAt
<1>5. CASE SweepEnds
  <2>1. /\ main.at = "sweep" /\ ToClose = {} /\ UNCHANGED <<sess, reader>>
        /\ main.app # NoApp => main'.at = "idle"
        /\ main.app = NoApp => main'.at = "readers" /\ main'.app = NoApp
    BY <1>5 DEF SweepEnds, Idle
  <2>2. ASSUME main.app = NoApp, NEW t \in Ids PROVE sess[t].sock = 0
    <3>1. Stopping /\ ~PluginsFree /\ ~MainAt(t)
      BY <2>1, <2>2 DEF Stopping, PluginsFree, MainAt
    <3>2. CASE t <= main.s
      BY <3>1, <3>2 DEF StopSwept
    <3>3. CASE t > main.s
      <4>1. reader[t].at \in {"none", "accepted"} \/ sess[t].sock = 0
        BY <2>1, <2>2, <3>3 DEF ToClose
      <4>2. reader[t].at # "accepted"
        BY <2>1, <3>1 DEF StopSwept
      <4>3. reader[t].at = "none" => sess[t].sock = 0
        BY LifeOf
      <4>. QED BY <4>1, <4>2, <4>3
    <3>. QED BY <1>0, <3>2, <3>3
  <2>3. main.app = NoApp => \A t \in Ids : reader[t].at # "accepted"
    BY <2>1 DEF StopSwept, Stopping
  <2>. QED BY <2>1, <2>2, <2>3 DEF StopSwept, Stopping, PluginsFree
<1>6. CASE StopJoinsReaders
  <2>1. /\ main.at = "readers" /\ main'.at = "answer" /\ main'.app = main.app
        /\ \A s \in Ids : reader[s].at \in {"none", "done"}
        /\ UNCHANGED <<sess, reader>>
    BY <1>0, <1>6 DEF StopJoinsReaders
  <2>. QED BY <2>1 DEF StopSwept, Stopping, PluginsFree
<1>7. CASE StopEnds
  <2>1. /\ main.at = "answer" /\ main'.at = "stopped" /\ main'.app = main.app
        /\ UNCHANGED <<sess, reader>>
    BY <1>0, <1>7 DEF StopEnds
  <2>. QED BY <2>1 DEF StopSwept, Stopping, PluginsFree
<1>8. ASSUME NEW e \in Execs, StopAnswers(e) PROVE StopSwept'
  BY <1>8, SweptKept DEF StopAnswers
<1>. QED BY <1>1, <1>2, <1>3, <1>4, <1>5, <1>6, <1>7, <1>8 DEF MainNext

LEMMA SweptNext ==
  Inv /\ StopSwept /\ [Next]_vars => StopSwept'
<1>. SUFFICES ASSUME Inv, StopSwept, [Next]_vars PROVE StopSwept'
  OBVIOUS
<1>. USE DEF sockVars, plugVars, execVars, mainVars
<1>1. ASSUME NEW s \in Ids, Accept(s) PROVE StopSwept'
  <2>1. UNCHANGED main /\ (~Stopping \/ main.at = "gateway")
    BY <1>1 DEF Accept
  <2>. QED BY <2>1 DEF StopSwept, Stopping, PluginsFree
<1>2. ASSUME NEW s \in Ids, ReaderEnds(s) \/ ReaderNext(s) PROVE StopSwept'
  BY <1>2, SweptReader
<1>3. ASSUME NEW s \in Ids, NEW a \in Apps, RegisterChecks(s, a) PROVE StopSwept'
  <2>1. /\ reader' = [reader EXCEPT ![s] = [at |-> "register", on |-> a, fd |-> 0]]
        /\ reader[s].at = "reading" /\ UNCHANGED <<sess, main>>
    BY <1>3 DEF RegisterChecks
  <2>2. \A t \in Ids : reader'[t] = IF t = s THEN [at |-> "register", on |-> a, fd |-> 0] ELSE reader[t]
    BY <2>1, ReaderSet DEF Inv
  <2>. QED BY <2>1, <2>2, SweptKept
<1>4. ASSUME UNCHANGED <<sess, reader, main>> PROVE StopSwept'
  BY <1>4, SweptKept
<1>5. ASSUME NEW s \in Ids, NEW e \in Execs, PluginRuns(s, e) PROVE StopSwept'
  BY <1>4, <1>5 DEF PluginRuns
<1>6. ASSUME NEW e \in Execs, ExecNext(e) PROVE StopSwept'
  <2>1. UNCHANGED <<sess, reader, main>>
    BY <1>6 DEF ExecNext, Dispatch, Pick, Unasked, SendChecks, SendBegins, WaitReturns, Leave
  <2>. QED BY <1>4, <2>1
<1>12. ASSUME NEW e \in Execs, Sends(e) \/ SendFails(e) PROVE StopSwept'
  BY <1>4, <1>12 DEF Sends, SendFails
<1>7. ASSUME NEW c \in Calls, CallBegins(c) \/ CallGoesOn(c) \/ CallEnds(c) PROVE StopSwept'
  BY <1>4, <1>7 DEF CallBegins, CallGoesOn, CallEnds, callRest
<1>8. ASSUME NEW a \in Apps, Toggle(a) PROVE StopSwept'
  <2>1. main = Idle /\ UNCHANGED <<sess, reader>>
    BY <1>8 DEF Toggle
  <2>2. \/ main' = main
        \/ main'.at = "sweep" /\ main'.app = a /\ main'.s = 0
    BY <1>8 DEF Toggle, Idle
  <2>3. a # NoApp
    BY PluginsAssumption
  <2>. QED BY <1>4, <2>1, <2>2, <2>3 DEF StopSwept, Stopping
<1>9. CASE Stop
  <2>1. main'.at = "gateway" /\ main'.app = NoApp /\ main'.s = 0
    BY <1>9 DEF Stop, Idle
  <2>. QED BY <2>1 DEF StopSwept, Stopping, PluginsFree
<1>10. CASE MainNext
  BY <1>10, SweptMain
<1>11. CASE UNCHANGED vars
  BY <1>4, <1>11 DEF vars
<1>. QED BY <1>1, <1>2, <1>3, <1>5, <1>6, <1>7, <1>8, <1>9, <1>10, <1>11, <1>12 DEF Next

(* The number of a connection is its session's, and who closes that        *)
(* session has it.                                                         *)
HasNumber(s, f) ==
  /\ sess[s].sock = f
  /\ reader[s].at \notin {"clear", "done"}
  /\ reader[s].at = "close" => reader[s].fd = f
  /\ MainAt(s) => main.at = "close" /\ main.fd = f
Holders == \A f \in Fds : owner[f] # 0 => HasNumber(owner[f], f)

LEMMA HoldersReader ==
  ASSUME Inv, Holders, NEW s \in Ids, ReaderEnds(s) \/ ReaderNext(s)
  PROVE  Holders'
<1>. USE DEF execVars, plugVars, sockVars, mainVars
<1>0. /\ DOMAIN sess = Ids /\ \A f \in Fds : owner[f] # 0 => owner[f] \in Ids
      /\ sess[s] \in [app : Apps \cup {NoApp}, active : BOOLEAN, sock : Fds \cup {0}]
      /\ Held
  BY DEF Inv, SockTyped
<1>1. ASSUME NEW a, NEW o, NEW f, reader' = [reader EXCEPT ![s] = [at |-> a, on |-> o, fd |-> f]],
             a \notin Past, UNCHANGED <<owner, main>>,
             \A t \in Ids : sess'[t].sock = sess[t].sock
      PROVE  Holders'
  <2>1. \A t \in Ids : reader'[t] = IF t = s THEN [at |-> a, on |-> o, fd |-> f] ELSE reader[t]
    BY <1>0, <1>1, ReaderSet
  <2>2. ASSUME NEW g \in Fds, owner[g] # 0 PROVE HasNumber(owner[g], g)'
    <3>1. HasNumber(owner[g], g) /\ owner[g] \in Ids
      BY <1>0, <2>2 DEF Holders
    <3>. QED BY <1>1, <2>1, <3>1 DEF HasNumber, MainAt, Past
  <2>. QED BY <1>1, <2>2 DEF Holders
<1>2. CASE Listed(s)
  BY <1>1, <1>2, ReadsOnSets DEF Listed, Past
<1>3. CASE RegisterSets(s)
  <2>1. \A t \in Ids : sess'[t].sock = sess[t].sock
    BY <1>0, <1>3 DEF RegisterSets
  <2>. QED BY <1>1, <1>3, <2>1, ReadsOnSets DEF RegisterSets, Past
<1>4. ASSUME NEW e \in Execs, AnswerFinds(s, e) PROVE Holders'
  <2>1. CASE ReadsOn(s)
    BY <1>1, <1>4, <2>1, ReadsOnSets DEF AnswerFinds, Past
  <2>2. CASE reader' = [reader EXCEPT ![s] = [at |-> "deliver", on |-> e, fd |-> 0]]
    <3>1. UNCHANGED <<owner, main, sess>>
      BY <1>4 DEF AnswerFinds
    <3>2. "deliver" \notin Past
      BY DEF Past
    <3>3. \A t \in Ids : sess'[t].sock = sess[t].sock
      BY <3>1
    <3>. HIDE DEF sockVars
    <3>. QED BY <1>1, <2>2, <3>1, <3>2, <3>3
  <2>. QED BY <1>4, <2>1, <2>2 DEF AnswerFinds
<1>5. CASE AnswerCompletes(s)
  BY <1>1, <1>5, ReadsOnSets DEF AnswerCompletes, Past
<1>6. CASE ReaderCloses(s)
  <2>1. reader' = [reader EXCEPT ![s] = [at |-> "clear", on |-> "none", fd |-> 0]]
    BY <1>6 DEF ReaderCloses, At
  <2>2. reader[s].at = "close" /\ UNCHANGED <<main, sess>>
    BY <1>6 DEF ReaderCloses
  <2>3. \A t \in Ids : t # s => reader'[t] = reader[t]
    BY <1>0, <2>1, ReaderSet
  <2>4. PICK f \in Seen(reader[s].fd, s) : Close(f)
    BY <1>6 DEF ReaderCloses
  <2>5. \A g \in Fds : owner'[g] # 0 => owner'[g] = owner[g] /\ g # f
    BY <2>4, PluginsAssumption DEF Close, Inv, SockTyped
  <2>6. ASSUME NEW g \in Fds, owner'[g] # 0 PROVE HasNumber(owner[g], g)'
    <3>1. HasNumber(owner[g], g) /\ owner[g] \in Ids /\ owner'[g] = owner[g]
      BY <1>0, <2>5, <2>6 DEF Holders
    <3>2. owner[g] # s
      BY <2>2, <2>4, <2>5, <2>6, <3>1 DEF HasNumber, Seen
    <3>. QED BY <2>2, <2>3, <3>1, <3>2 DEF HasNumber, MainAt
  <2>. QED BY <2>6 DEF Holders
<1>7. CASE ReaderClears(s)
  <2>1. /\ reader[s].at = "clear" /\ UNCHANGED <<owner, main>>
        /\ \A t \in Ids : t # s => sess'[t].sock = sess[t].sock /\ reader'[t] = reader[t]
    BY <1>0, <1>7 DEF ReaderClears, Held
  <2>2. ASSUME NEW g \in Fds, owner[g] # 0 PROVE HasNumber(owner[g], g)'
    <3>1. HasNumber(owner[g], g) /\ owner[g] \in Ids
      BY <1>0, <2>2 DEF Holders
    <3>2. owner[g] # s
      BY <2>1, <3>1 DEF HasNumber
    <3>. QED BY <2>1, <3>1, <3>2 DEF HasNumber, MainAt
  <2>. QED BY <2>1, <2>2 DEF Holders
<1>8. CASE ReaderEnds(s)
  <2>1. /\ reader' = [reader EXCEPT ![s] = [at |-> "close", on |-> "none", fd |-> sess[s].sock]]
        /\ UNCHANGED <<owner, main>> /\ \A t \in Ids : sess'[t].sock = sess[t].sock
    BY <1>0, <1>8 DEF ReaderEnds
  <2>2. \A t \in Ids : reader'[t] = IF t = s THEN [at |-> "close", on |-> "none", fd |-> sess[s].sock]
                                            ELSE reader[t]
    BY <1>0, <2>1, ReaderSet
  <2>3. ASSUME NEW g \in Fds, owner[g] # 0 PROVE HasNumber(owner[g], g)'
    <3>1. HasNumber(owner[g], g) /\ owner[g] \in Ids
      BY <1>0, <2>3 DEF Holders
    <3>. QED BY <2>1, <2>2, <3>1 DEF HasNumber, MainAt
  <2>. QED BY <2>1, <2>3 DEF Holders
<1>. QED BY <1>2, <1>3, <1>4, <1>5, <1>6, <1>7, <1>8 DEF ReaderNext

LEMMA HoldersMain ==
  ASSUME Inv, Holders, MainNext
  PROVE  Holders'
<1>. USE DEF execVars, plugVars, sockVars, mainVars
<1>0. /\ DOMAIN sess = Ids /\ \A f \in Fds : owner[f] # 0 => owner[f] \in Ids
      /\ main \in [at : MainSteps, app : Apps \cup {NoApp}, s : Ids \cup {0}, fd : Fds \cup {0}]
  BY DEF Inv, SockTyped, MainTyped
<1>1. ASSUME NEW s \in Ids, Marks(s) PROVE Holders'
  <2>1. /\ main'.at = "close" /\ main'.s = s /\ main'.fd = sess[s].sock /\ UNCHANGED <<owner, reader>>
        /\ \A t \in Ids : sess'[t].sock = sess[t].sock
    BY <1>0, <1>1 DEF Marks
  <2>. QED BY <1>0, <2>1 DEF Holders, HasNumber, MainAt
<1>2. CASE Closes
  <2>1. /\ main.at = "close" /\ main'.at = "clear" /\ main'.s = main.s /\ UNCHANGED <<sess, reader>>
    BY <1>0, <1>2 DEF Closes
  <2>2. PICK f \in Seen(main.fd, main.s) : Close(f)
    BY <1>2 DEF Closes
  <2>3. \A g \in Fds : owner'[g] # 0 => owner'[g] = owner[g] /\ g # f
    BY <2>2, PluginsAssumption DEF Close, Inv, SockTyped
  <2>4. ASSUME NEW g \in Fds, owner'[g] # 0 PROVE HasNumber(owner[g], g)'
    <3>1. HasNumber(owner[g], g) /\ owner'[g] = owner[g] /\ g # f
      BY <2>3, <2>4 DEF Holders
    <3>2. owner[g] # main.s
      BY <2>1, <2>2, <3>1 DEF HasNumber, Seen, MainAt
    <3>. QED BY <2>1, <3>1, <3>2 DEF HasNumber, MainAt
  <2>. QED BY <2>4 DEF Holders
<1>3. CASE Clears
  <2>1. /\ main.at = "clear" /\ main'.at = "sweep" /\ UNCHANGED <<owner, reader>>
        /\ \A t \in Ids : t # main.s => sess'[t].sock = sess[t].sock
    BY <1>0, <1>3 DEF Clears
  <2>2. ASSUME NEW g \in Fds, owner[g] # 0 PROVE HasNumber(owner[g], g)'
    <3>1. HasNumber(owner[g], g) /\ owner[g] \in Ids
      BY <1>0, <2>2 DEF Holders
    <3>2. owner[g] # main.s
      BY <2>1, <3>1 DEF HasNumber, MainAt
    <3>. QED BY <2>1, <3>1, <3>2 DEF HasNumber, MainAt
  <2>. QED BY <2>1, <2>2 DEF Holders
<1>4. ASSUME main'.at \notin {"close", "clear"}, UNCHANGED <<sess, owner, reader>> PROVE Holders'
  BY <1>4 DEF Holders, HasNumber, MainAt
<1>5. CASE StopJoins \/ SweepEnds
  BY <1>0, <1>4, <1>5 DEF StopJoins, SweepEnds, Idle
<1>6. CASE StopJoinsReaders \/ StopEnds
  BY <1>0, <1>4, <1>6 DEF StopJoinsReaders, StopEnds
<1>7. ASSUME NEW e \in Execs, StopAnswers(e) PROVE Holders'
  BY <1>7 DEF StopAnswers, Holders, HasNumber, MainAt
<1>. QED BY <1>1, <1>2, <1>3, <1>5, <1>6, <1>7 DEF MainNext

LEMMA HoldersNext ==
  Inv /\ Holders /\ [Next]_vars => Holders'
<1>. SUFFICES ASSUME Inv, Holders, [Next]_vars PROVE Holders'
  OBVIOUS
<1>. USE DEF sockVars, plugVars, execVars, mainVars
<1>1. ASSUME NEW s \in Ids, Accept(s) PROVE Holders'
  <2>1. PICK f \in Fds : /\ owner[f] = 0 /\ owner' = [owner EXCEPT ![f] = s]
                         /\ sess' = [sess EXCEPT ![s] = [app |-> NoApp, active |-> TRUE, sock |-> f]]
    BY <1>1 DEF Accept
  <2>2. /\ reader[s].at = "none" /\ UNCHANGED main
        /\ \A t \in Ids : IF t = s THEN reader'[t].at = "accepted" ELSE reader'[t] = reader[t]
    BY <1>1 DEF Accept, Inv, Held
  <2>3. /\ \A g \in Fds : owner'[g] = IF g = f THEN s ELSE owner[g]
        /\ \A t \in Ids : sess'[t].sock = IF t = s THEN f ELSE sess[t].sock
        /\ \A g \in Fds : owner[g] # 0 => owner[g] \in Ids
    BY <2>1 DEF Inv, SockTyped
  <2>4. ~MainAt(s)
    BY <2>2, LifeOf DEF Inv, Live, Past
  <2>5. HasNumber(s, f)'
    BY <2>2, <2>3, <2>4 DEF HasNumber, MainAt
  <2>6. ASSUME NEW g \in Fds, owner[g] # 0 PROVE HasNumber(owner[g], g)'
    <3>1. reader[owner[g]].at # "none"
      BY <2>6 DEF Inv, NumbersAge
    <3>2. owner[g] # s /\ owner[g] \in Ids /\ HasNumber(owner[g], g)
      BY <2>2, <2>3, <2>6, <3>1 DEF Holders
    <3>3. owner'[g] = owner[g]
      BY <2>1, <2>3, <2>6
    <3>. QED BY <2>2, <2>3, <3>2, <3>3 DEF HasNumber, MainAt
  <2>. QED BY <2>3, <2>5, <2>6 DEF Holders
<1>2. ASSUME NEW s \in Ids, ReaderEnds(s) \/ ReaderNext(s) PROVE Holders'
  BY <1>2, HoldersReader
<1>3. ASSUME NEW s \in Ids, NEW a \in Apps, RegisterChecks(s, a) PROVE Holders'
  <2>1. /\ reader' = [reader EXCEPT ![s] = [at |-> "register", on |-> a, fd |-> 0]]
        /\ UNCHANGED <<sess, owner, main>>
    BY <1>3 DEF RegisterChecks
  <2>2. \A t \in Ids : reader'[t] = IF t = s THEN [at |-> "register", on |-> a, fd |-> 0] ELSE reader[t]
    BY <2>1, ReaderSet DEF Inv
  <2>3. ASSUME NEW g \in Fds, owner[g] # 0 PROVE HasNumber(owner[g], g)'
    <3>1. HasNumber(owner[g], g) /\ owner[g] \in Ids
      BY <2>3 DEF Holders, Inv, SockTyped
    <3>. QED BY <2>1, <2>2, <3>1 DEF HasNumber, MainAt
  <2>. QED BY <2>1, <2>3 DEF Holders
<1>4. ASSUME UNCHANGED <<sess, owner, reader, main>> PROVE Holders'
  BY <1>4 DEF Holders, HasNumber, MainAt
<1>5. ASSUME NEW s \in Ids, NEW e \in Execs, PluginRuns(s, e) PROVE Holders'
  BY <1>4, <1>5 DEF PluginRuns
<1>6. ASSUME NEW e \in Execs, ExecNext(e) PROVE Holders'
  <2>1. UNCHANGED <<sess, owner, reader, main>>
    BY <1>6 DEF ExecNext, Dispatch, Pick, Unasked, SendChecks, SendBegins, WaitReturns, Leave
  <2>. QED BY <1>4, <2>1
<1>7. ASSUME NEW e \in Execs, Sends(e) \/ SendFails(e) PROVE Holders'
  BY <1>4, <1>7 DEF Sends, SendFails
<1>8. ASSUME NEW c \in Calls, CallBegins(c) \/ CallGoesOn(c) \/ CallEnds(c) PROVE Holders'
  BY <1>4, <1>8 DEF CallBegins, CallGoesOn, CallEnds, callRest
<1>9. ASSUME main'.at \notin {"close", "clear"}, UNCHANGED <<sess, owner, reader>> PROVE Holders'
  BY <1>9 DEF Holders, HasNumber, MainAt
<1>10. ASSUME NEW a \in Apps, Toggle(a) PROVE Holders'
  <2>1. main'.at \in {"idle", "sweep"} /\ UNCHANGED <<sess, owner, reader>>
    <3>1. UNCHANGED <<sess, owner, reader>> /\ main = Idle
      BY <1>10 DEF Toggle
    <3>2. main' = main \/ main' = [Idle EXCEPT !.at = "sweep", !.app = a]
      BY <1>10 DEF Toggle
    <3>4. Idle.at = "idle" /\ [Idle EXCEPT !.at = "sweep", !.app = a].at = "sweep"
      BY DEF Idle
    <3>3. main'.at \in {"idle", "sweep"}
      BY <3>1, <3>2, <3>4
    <3>. QED BY <3>1, <3>3
  <2>. QED BY <1>9, <2>1
<1>11. CASE Stop
  BY <1>9, <1>11 DEF Stop, Idle
<1>12. CASE MainNext
  BY <1>12, HoldersMain
<1>13. CASE UNCHANGED vars
  BY <1>4, <1>13 DEF vars
<1>. QED BY <1>1, <1>2, <1>3, <1>5, <1>6, <1>7, <1>8, <1>10, <1>11, <1>12, <1>13 DEF Next

(* Behind the sweep of stop() no number stands for a connection.           *)
LEMMA SweptGone ==
  ASSUME Inv, StopSwept, Holders, main.at \in {"readers", "answer", "stopped"}, NEW f
  PROVE  f \in Fds \cup {0} => Gone(f)
<1>1. ASSUME f \in Fds, owner[f] # 0 PROVE FALSE
  <2>1. owner[f] \in Ids /\ sess[owner[f]].sock = f
    BY <1>1 DEF Holders, HasNumber, Inv, SockTyped
  <2>2. f # 0
    BY <1>1, PluginsAssumption
  <2>. QED BY <2>1, <2>2 DEF StopSwept
<1>. QED BY <1>1 DEF Gone

(* With the list of calls free and no send that its plugin holds up,       *)
(* whoever can not go on has nothing to do.                                *)
LEMMA StandsAtRest ==
  ASSUME Inv, StopSwept, Holders, ~ServerCanGo, PendingFree, \A e \in Execs : ~Unread(e)
  PROVE  /\ \A e \in Execs : exec[e].at \in {"none", "done"}
         /\ main.at \in {"idle", "stopped"}
<1>1. PluginsFree /\ main.at \in MainSteps
  BY DEF ServerCanGo, MainCanGo, PluginsFree, Inv, MainTyped
<1>2. \A e \in Execs : exec[e].at \in ExecSteps /\ ~ExecCanGo(e)
  BY DEF Inv, ExecTyped, ServerCanGo
<1>10. \A e \in Execs : exec[e].at # "sending"
  BY <1>2 DEF ExecCanGo, Unread
<1>11. \A e \in Execs : exec[e].at # "send"
  BY <1>2, <1>10 DEF ExecCanGo, WriteFree
<1>3. \A e \in Execs : exec[e].at \notin InHand
  BY <1>2, <1>10, <1>11 DEF ExecCanGo, InHand
<1>4. \A e \in Execs : exec[e].at # "admitted"
  BY <1>1, <1>2, <1>3 DEF ExecCanGo
<1>5. \A e \in Execs : exec[e].at # "queued"
  BY <1>2, <1>3, <1>4 DEF ExecCanGo
<1>6. \A e \in Execs : exec[e].at \in {"none", "done"}
  BY <1>2, <1>3, <1>4, <1>5 DEF ExecSteps, InHand
<1>7. \A s \in Ids : reader[s].at \in {"none", "done"} \/ (reader[s].at = "reading" /\ ~Gone(reader[s].fd))
  <2>. SUFFICES ASSUME NEW s \in Ids
       PROVE  reader[s].at \in {"none", "done"} \/ (reader[s].at = "reading" /\ ~Gone(reader[s].fd))
    OBVIOUS
  <2>1. reader[s].at \in ReaderSteps /\ ~ReaderCanGo(s)
    BY DEF Inv, ReaderTyped, ServerCanGo
  <2>2. reader[s].at # "deliver"
    <3>1. reader[s].at = "deliver" => reader[s].on \in Execs
      BY DEF Inv, Held
    <3>. QED BY <1>3, <2>1, <3>1 DEF ReaderCanGo, InHand
  <2>. QED BY <1>1, <2>1, <2>2 DEF ReaderCanGo, ReaderSteps
<1>8. main.at # "gateway"
  <2>1. \A s \in Ids : reader[s].at # "accepted"
    BY <1>7
  <2>. QED BY <1>3, <1>4, <2>1 DEF ServerCanGo, MainCanGo
<1>9. main.at # "readers"
  <2>. SUFFICES ASSUME main.at = "readers" PROVE FALSE
    OBVIOUS
  <2>1. \A s \in Ids : Gone(reader[s].fd)
    BY SweptGone DEF Inv, ReaderTyped
  <2>2. \A s \in Ids : reader[s].at \in {"none", "done"}
    BY <1>7, <2>1
  <2>. QED BY <2>2 DEF ServerCanGo, MainCanGo
<1>. QED BY <1>1, <1>6, <1>8, <1>9 DEF PluginsFree, PendingFree, MainSteps
(* When no thread of the server can take a step, by the guards of its      *)
(* steps, then no tool call is in hand and stop() is not under way, but    *)
(* for two: main, which answers the pending calls with their list locked,  *)
(* meets a call that waits for that lock with the mutex main needs; or a   *)
(* plugin that is still connected does not read what a call sends it, and  *)
(* stop() at most waits for the thread of the gateway, before it closes    *)
(* the connections (StandsOnlyWhenHeld, EdaRpcServer::stop() against       *)
(* callPlugin() and sendAllBytes()).                                       *)
THEOREM BridgeStands ==
  Spec => []StandsOnlyWhenHeld
<1>1. Init => StopSwept /\ Holders
  BY DEF Init, Idle, StopSwept, Stopping, PluginsFree, Holders
<1>2. Inv /\ Inv' /\ StopSwept /\ Holders /\ [Next]_vars => StopSwept' /\ Holders'
  BY SweptNext, HoldersNext
<1>3. Spec => [](StopSwept /\ Holders)
  BY <1>1, <1>2, Invariance, PTL DEF Spec
<1>4. ASSUME Inv, StopSwept, Holders PROVE StandsOnlyWhenHeld
  <2>1. ASSUME ~ServerCanGo, ~PendingFree PROVE LockCycle
    <3>1. main.at = "answer" /\ pending # {} /\ \A e \in pending : exec[e].at = "woken"
      BY <2>1 DEF ServerCanGo, MainCanGo, PendingFree
    <3>. QED BY <3>1 DEF LockCycle
  <2>2. ASSUME ~ServerCanGo, PendingFree, NEW e \in Execs, Unread(e)
        PROVE  main.at \in {"idle", "gateway"}
    <3>1. main.at \in {"idle", "gateway", "readers", "stopped"}
      BY <1>4, <2>2 DEF ServerCanGo, MainCanGo, PendingFree, Inv, MainTyped, MainSteps
    <3>2. main.at \in {"readers", "stopped"} => Gone(exec[e].fd)
      BY <1>4, SweptGone, ExecOf
    <3>. QED BY <2>2, <3>1, <3>2 DEF Unread
  <2>. QED BY <1>4, <2>1, <2>2, StandsAtRest DEF StandsOnlyWhenHeld
<1>. QED BY <1>3, <1>4, Invariance, PTL

-----------------------------------------------------------------------------
(* Refinement of ToolCalls.                                                *)

(* What the abstract variables take from a tool call's record.             *)
UnderWay(r) == r.at \notin {"none", "done"} \/ r.out = "lost"
Reported(r) == IF r.at = "done" /\ r.out # "lost" THEN r.out ELSE "none"
Busy == [e \in Execs |-> UnderWay(exec[e])]
Ran  == [e \in Execs |-> IF e \in ran THEN {"plugin"} ELSE {}]
Reports == [e \in Execs |-> Reported(exec[e])]

(* Steps that the abstract state does not see.                             *)
LEMMA Unseen ==
  ASSUME \A e \in Execs : /\ UnderWay(exec'[e]) = UnderWay(exec[e])
                          /\ Reported(exec'[e]) = Reported(exec[e]),
         UNCHANGED ran
  PROVE  UNCHANGED Promised!callsVars
<1>1. Ran' = Ran
  BY DEF Ran
<1>2. Busy' = Busy
  BY DEF Busy, UnderWay
<1>3. Reports' = Reports
  BY DEF Reports
<1>. QED BY <1>1, <1>2, <1>3 DEF Promised!callsVars, Busy, Ran, Reports, UnderWay, Reported

LEMMA BeginStep ==
  ASSUME Inv, NEW e \in Execs, exec[e].at = "none", exec' = [exec EXCEPT ![e].at = "queued"],
         UNCHANGED ran
  PROVE  Promised!Next
<1>1. /\ exec[e] \in Rec /\ exec[e].out = "none" /\ e \notin ran
      /\ DOMAIN exec = Execs /\ exec' = [exec EXCEPT ![e] = [exec[e] EXCEPT !.at = "queued"]]
  BY ExecOf DEF Inv, OutcomesLate, Traces, BeforeSend, ExecTyped
<1>. DEFINE r == [exec[e] EXCEPT !.at = "queued"]
<1>2. r.at = "queued" /\ r.out = "none"
  BY <1>1 DEF Rec
<1>. HIDE DEF r
<1>3. \A g \in Execs : exec'[g] = IF g = e THEN r ELSE exec[g]
  BY <1>1 DEF r
<1>4. ~UnderWay(exec[e]) /\ UnderWay(r) /\ Reported(r) = "none"
  BY <1>1, <1>2 DEF UnderWay, Reported
<1>5. ~Busy[e] /\ Busy' = [Busy EXCEPT ![e] = TRUE]
  BY <1>3, <1>4 DEF Busy, UnderWay
<1>8. Reports' = [Reports EXCEPT ![e] = "none"]
  <2>1. exec'[e] = r /\ \A g \in Execs : g # e => exec'[g] = exec[g]
    BY <1>3
  <2>2. \A g \in Execs : Reported(exec'[g]) = IF g = e THEN "none" ELSE Reported(exec[g])
    BY <1>2, <2>1 DEF Reported
  <2>3. Reports' = [g \in Execs |-> IF g = e THEN "none" ELSE Reports[g]]
    BY <2>2 DEF Reports
  <2>. QED BY <2>3 DEF Reports
<1>6. Ran' = [Ran EXCEPT ![e] = {}]
  BY <1>1 DEF Ran
<1>7. Promised!Begin(e)
  BY <1>5, <1>6, <1>8 DEF Promised!Begin, Busy, Ran, Reports, UnderWay, Reported
<1>. QED BY <1>7 DEF Promised!Next

LEMMA ReturnStep ==
  ASSUME Inv, NEW e \in Execs, NEW o \in {"refused", "unsent", "timeout", "stopped", "headless", "result"},
         exec[e].at \notin {"none", "done"}, Ended(e, o), UNCHANGED ran,
         o = "result" => e \in ran, o \in NotSent => e \notin ran
  PROVE  Promised!Next
<1>. DEFINE r == [NewExec EXCEPT !.at = "done", !.out = o]
<1>1. exec' = [exec EXCEPT ![e] = r] /\ r.at = "done" /\ r.out = o /\ o # "lost" /\ DOMAIN exec = Execs
  BY DoneRec DEF Ended, Outs, Inv, ExecTyped
<1>. HIDE DEF r
<1>2. \A g \in Execs : exec'[g] = IF g = e THEN r ELSE exec[g]
  BY <1>1
<1>3. UnderWay(exec[e]) /\ ~UnderWay(r) /\ Reported(r) = o
  BY <1>1 DEF UnderWay, Reported
<1>4. /\ Busy[e] /\ Busy' = [Busy EXCEPT ![e] = FALSE]
      /\ Reports' = [Reports EXCEPT ![e] = o] /\ Ran' = Ran
  BY <1>2, <1>3 DEF Busy, Reports, Ran, UnderWay
<1>5. (o \in {"result"} => Ran[e] # {}) /\ (o \in {"refused", "unsent"} => Ran[e] = {})
  BY DEF Ran, NotSent
<1>6. Promised!Return(e, o)
  BY <1>4, <1>5 DEF Promised!Return, Busy, Ran, Reports, UnderWay, Reported
<1>. QED BY <1>6 DEF Promised!Next

LEMMA ExecuteStep ==
  ASSUME Inv, NEW s \in Ids, NEW e \in Execs, PluginRuns(s, e)
  PROVE  Promised!Next
<1>1. e \in got[s] /\ ran' = ran \cup {e} /\ UNCHANGED exec
  BY DEF PluginRuns, execVars
<1>2. exec[e].out \notin NotSent
  BY <1>1 DEF Inv, OutcomesAreTrue
<1>3. Busy' = Busy /\ Reports' = Reports /\ Reports[e] \notin {"refused", "unsent"}
  BY <1>1, <1>2 DEF Busy, Reports, UnderWay, Reported, NotSent
<1>4. Ran' = [Ran EXCEPT ![e] = Ran[e] \cup {"plugin"}]
  BY <1>1 DEF Ran
<1>5. Promised!Execute(e, "plugin")
  BY <1>3, <1>4 DEF Promised!Execute, Busy, Ran, Reports, UnderWay, Reported
<1>. QED BY <1>5 DEF Promised!Next

(* The steps of a tool call that do not end it, and those that do.         *)
LEMMA ExecStep ==
  ASSUME Inv, NEW e \in Execs, ExecNext(e) \/ Sends(e) \/ SendFails(e)
  PROVE  Promised!Next \/ UNCHANGED Promised!callsVars
<1>. USE DEF plugVars
<1>0. /\ DOMAIN exec = Execs /\ exec[e] \in Rec
      /\ exec[e].at \in BeforeSend => e \notin ran
      /\ UNCHANGED ran
  BY ExecOf DEF Inv, ExecTyped, Traces, ExecNext, Dispatch, Pick, Unasked, SendChecks, SendBegins,
     Sends, SendFails, WaitReturns, Leave
<1>1. ASSUME NEW r, exec' = [exec EXCEPT ![e] = r],
             r.at \notin {"none", "done"}, exec[e].at \notin {"none", "done"}
      PROVE  UNCHANGED Promised!callsVars
  <2>1. \A g \in Execs : exec'[g] = IF g = e THEN r ELSE exec[g]
    BY <1>0, <1>1
  <2>2. /\ UnderWay(r) = UnderWay(exec[e]) /\ Reported(r) = Reported(exec[e])
    BY <1>1 DEF UnderWay, Reported
  <2>. QED BY <1>0, <2>1, <2>2, Unseen
<1>8. ASSUME NEW out \in {"unsent", "timeout", "stopped", "result"}, Returns(e, out),
             exec[e].at \notin {"none", "done"},
             out = "result" => e \in ran, out \in NotSent => e \notin ran
      PROVE  Promised!Next
  <2>1. PICK o \in {out, "headless"} : Ended(e, o)
    BY <1>8, ToldOf
  <2>. QED BY <1>0, <1>8, <2>1, ReturnStep DEF NotSent
<1>2. CASE Dispatch(e)
  <2>1. CASE Ended(e, "refused")
    BY <1>0, <1>2, <2>1, ReturnStep DEF Dispatch, BeforeSend
  <2>2. CASE exec' = [exec EXCEPT ![e].at = "admitted"]
    <3>1. [exec[e] EXCEPT !.at = "admitted"].at = "admitted"
      BY <1>0 DEF Rec
    <3>2. exec' = [exec EXCEPT ![e] = [exec[e] EXCEPT !.at = "admitted"]] /\ exec[e].at = "queued"
      BY <1>2, <2>2 DEF Dispatch
    <3>. QED BY <1>1, <3>1, <3>2
  <2>. QED BY <1>2, <2>1, <2>2 DEF Dispatch
<1>3. CASE Pick(e)
  <2>1. CASE Returns(e, "unsent")
    BY <1>0, <1>3, <1>8, <2>1 DEF Pick, BeforeSend
  <2>2. ASSUME NEW s \in Targets(AppOf(e)), exec' = [exec EXCEPT ![e].at = "picked", ![e].s = s]
        PROVE  UNCHANGED Promised!callsVars
    <3>1. [exec[e] EXCEPT !.at = "picked", !.s = s].at = "picked"
      BY <1>0 DEF Rec
    <3>2. exec' = [exec EXCEPT ![e] = [exec[e] EXCEPT !.at = "picked", !.s = s]] /\ exec[e].at = "admitted"
      BY <1>3, <2>2 DEF Pick
    <3>. QED BY <1>1, <3>1, <3>2
  <2>. QED BY <1>3, <2>1, <2>2 DEF Pick
<1>4. CASE SendChecks(e)
  <2>. DEFINE f == sess[exec[e].s].sock
  <2>1. CASE Returns(e, "unsent")
    BY <1>0, <1>4, <1>8, <2>1 DEF SendChecks, BeforeSend
  <2>2. CASE exec' = [exec EXCEPT ![e].at = "send", ![e].fd = f]
    <3>1. [exec[e] EXCEPT !.at = "send", !.fd = f].at = "send"
      BY <1>0 DEF Rec
    <3>2. exec' = [exec EXCEPT ![e] = [exec[e] EXCEPT !.at = "send", !.fd = f]] /\ exec[e].at = "picked"
      BY <1>4, <2>2 DEF SendChecks
    <3>. QED BY <1>1, <3>1, <3>2
  <2>. QED BY <1>4, <2>1, <2>2 DEF SendChecks
<1>9. CASE Unasked(e)
  BY <1>0, <1>9, ReturnStep DEF Unasked, NotSent
<1>10. CASE SendBegins(e)
  <2>1. PICK f : exec' = [exec EXCEPT ![e].at = "sending", ![e].fd = f]
    BY <1>10 DEF SendBegins
  <2>2. [exec[e] EXCEPT !.at = "sending", !.fd = f].at = "sending"
    BY <1>0 DEF Rec
  <2>3. exec' = [exec EXCEPT ![e] = [exec[e] EXCEPT !.at = "sending", !.fd = f]] /\ exec[e].at = "send"
    BY <1>10, <2>1 DEF SendBegins
  <2>. QED BY <1>1, <2>2, <2>3
<1>5. CASE Sends(e)
  <2>1. [NewExec EXCEPT !.at = "waiting"].at = "waiting" /\ exec[e].at = "sending"
    BY <1>5, WaitingRec DEF Sends
  <2>2. exec' = [exec EXCEPT ![e] = [NewExec EXCEPT !.at = "waiting"]]
    BY <1>5 DEF Sends
  <2>. QED BY <1>1, <2>1, <2>2
<1>11. CASE SendFails(e)
  BY <1>0, <1>8, <1>11 DEF SendFails, BeforeSend
<1>6. CASE WaitReturns(e)
  <2>. DEFINE o == IF reply[e] = "no" THEN "timeout" ELSE reply[e]
  <2>1. [exec[e] EXCEPT !.at = "woken", !.out = o].at = "woken"
    BY <1>0 DEF Rec
  <2>2. exec' = [exec EXCEPT ![e] = [exec[e] EXCEPT !.at = "woken", !.out = o]] /\ exec[e].at = "waiting"
    BY <1>6 DEF WaitReturns
  <2>. QED BY <1>1, <2>1, <2>2
<1>7. CASE Leave(e)
  <2>1. exec[e].at = "woken" /\ Returns(e, exec[e].out)
    BY <1>7 DEF Leave
  <2>2. PICK o : o = exec[e].out
    OBVIOUS
  <2>3. o \in {"timeout", "result", "stopped"} /\ (o = "result" => e \in ran)
    BY <2>1, <2>2 DEF Inv, OutcomesLate, OutcomesAreTrue
  <2>. QED BY <1>8, <2>1, <2>2, <2>3 DEF NotSent
<1>. QED BY <1>2, <1>3, <1>4, <1>5, <1>6, <1>7, <1>9, <1>10, <1>11 DEF ExecNext

LEMMA PromisedStep ==
  ASSUME Inv, [Next]_vars
  PROVE  [Promised!Next]_(Promised!callsVars)
<1>. DEFINE Goal == Promised!Next \/ UNCHANGED Promised!callsVars
<1>. SUFFICES Goal
  OBVIOUS
<1>. USE DEF sockVars, plugVars, execVars, mainVars
<1>1. ASSUME UNCHANGED <<exec, ran>> PROVE Goal
  BY <1>1, Unseen
<1>2. ASSUME NEW s \in Ids, Accept(s) \/ ReaderEnds(s) PROVE UNCHANGED <<exec, ran>>
  BY <1>2 DEF Accept, ReaderEnds
<1>3. ASSUME NEW s \in Ids, ReaderNext(s) PROVE UNCHANGED <<exec, ran>>
  BY <1>3 DEF ReaderNext, Listed, RegisterSets, AnswerCompletes, ReaderCloses, ReaderClears, AnswerFinds
<1>4. ASSUME NEW s \in Ids, NEW a \in Apps, RegisterChecks(s, a) PROVE UNCHANGED <<exec, ran>>
  BY <1>4 DEF RegisterChecks
<1>5. ASSUME NEW s \in Ids, NEW e \in Execs, PluginRuns(s, e) PROVE Goal
  BY <1>5, ExecuteStep
<1>6. ASSUME NEW e \in Execs, ExecNext(e) \/ Sends(e) \/ SendFails(e) PROVE Goal
  BY <1>6, ExecStep
<1>7. ASSUME NEW c \in Calls, CallBegins(c) \/ CallGoesOn(c) \/ CallEnds(c) PROVE Goal
  <2>1. CASE UNCHANGED exec
    BY <1>1, <1>7, <2>1 DEF CallBegins, CallGoesOn, CallEnds, callRest
  <2>2. ASSUME NEW t \in Transports, Arrives(c, t), exec[<<c, t>>].at = "none" PROVE Goal
    <3>1. <<c, t>> \in Execs /\ UNCHANGED ran
      BY <1>7 DEF Execs, CallBegins, CallGoesOn, CallEnds, callRest
    <3>. QED BY <2>2, <3>1, BeginStep DEF Arrives
  <2>3. \/ UNCHANGED exec
        \/ call[c].at = "idle" /\ Arrives(c, "client")
        \/ call[c].at = "client" /\ Arrives(c, "gateway")
    BY <1>7 DEF CallBegins, CallGoesOn, CallEnds
  <2>. QED BY <2>1, <2>2, <2>3 DEF Inv, CameOnce, Transports
<1>8. ASSUME NEW a \in Apps, Toggle(a) PROVE UNCHANGED <<exec, ran>>
  BY <1>8 DEF Toggle
<1>9. CASE Stop
  BY <1>1, <1>9 DEF Stop
<1>10. CASE StopJoins
  <2>. DEFINE lost == [NewExec EXCEPT !.at = "done", !.out = "lost"]
  <2>1. /\ exec' = [e \in Execs |-> IF e[2] = "gateway" /\ exec[e].at = "queued" THEN lost ELSE exec[e]]
        /\ UNCHANGED ran
    BY <1>10 DEF StopJoins
  <2>2. lost.at = "done" /\ lost.out = "lost"
    BY DoneRec DEF Outs
  <2>. HIDE DEF lost
  <2>3. \A e \in Execs : exec'[e] = exec[e] \/ (exec[e].at = "queued" /\ exec'[e] = lost)
    BY <2>1
  <2>4. \A e \in Execs : /\ UnderWay(exec'[e]) = UnderWay(exec[e])
                         /\ Reported(exec'[e]) = Reported(exec[e])
    BY <2>2, <2>3 DEF UnderWay, Reported
  <2>. QED BY <2>1, <2>4, Unseen
<1>11. ASSUME MainNext, ~StopJoins PROVE UNCHANGED <<exec, ran>>
  BY <1>11 DEF MainNext, Closes, Clears, SweepEnds, StopJoinsReaders, StopEnds, Marks, StopAnswers
<1>12. CASE UNCHANGED vars
  BY <1>1, <1>12 DEF vars
<1>. QED BY <1>1, <1>2, <1>3, <1>4, <1>5, <1>6, <1>7, <1>8, <1>9, <1>10, <1>11, <1>12 DEF Next

(* Whatever becomes of sessions and of their descriptor numbers, each way  *)
(* of a tool call keeps the promise that the gateway keeps: it returns at  *)
(* most once, with the plugin's result only when this call has run, and it *)
(* is reported as refused or not sent only when it has not run and never   *)
(* will.  A headless answer of KiCad's and FreeCAD's tools promises        *)
(* neither, though it may claim to be a result                             *)
(* (ImplementsToolCalls, callPlugin(), sendPluginJson() and the dispatch   *)
(* of the calls to the tools' handlers).                                   *)
THEOREM BridgeImplementsToolCalls ==
  Spec => ImplementsToolCalls
<1>1. Init => Promised!Init
  <2>. SUFFICES ASSUME Init PROVE Promised!Init
    OBVIOUS
  <2>1. \A e \in Execs : exec[e].at = "none" /\ exec[e].out = "none" /\ e \notin ran
    BY DEF Init, NewExec
  <2>2. /\ Busy = [e \in Execs |-> FALSE] /\ Ran = [e \in Execs |-> {}]
        /\ Reports = [e \in Execs |-> "none"]
    BY <2>1 DEF Busy, Ran, Reports, UnderWay, Reported
  <2>. QED BY <2>2 DEF Promised!Init, Busy, Ran, Reports, UnderWay, Reported
<1>2. Inv /\ [Next]_vars => [Promised!Next]_(Promised!callsVars)
  BY PromisedStep
<1>. QED BY <1>1, <1>2, Invariance, PTL DEF Spec, ImplementsToolCalls, Promised!Spec
==============================================================================
