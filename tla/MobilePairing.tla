---------------------------- MODULE MobilePairing ---------------------------
(***************************************************************************)
(* MobileGateway, pairing half (src/src/MobileGateway.cxx): pairing        *)
(* secrets shown as a QR code, the tokens devices get for them, revocation *)
(* and the file mobile_devices.json that carries the devices over a        *)
(* restart.                                                                *)
(*                                                                         *)
(* Every operation holds _mutex from beginning to end, so operations do    *)
(* not interleave with each other.  A crash can fall anywhere, also        *)
(* between the change in memory, the rename() of the new file and the      *)
(* answer to the client, so those are steps of their own.  A write to a    *)
(* temporary file that is not renamed leaves the old file as it was.       *)
(***************************************************************************)
EXTENDS Naturals

CONSTANTS
  Secrets,      \* pairing secrets, random and never repeated
  Tokens,       \* device tokens, random and never repeated
  Devices,      \* device ids
  Validity,     \* validitySeconds of createPairingSecret, 300
  ReuseMargin,  \* a secret with less time left is not shown again, 30
  MaxTime,      \* bound on the clock
  SaveMayFail,  \* whether writing the file may fail
  NoSecret, NoDevice

ASSUME PairingAssumption ==
  /\ Validity \in Nat \ {0}
  /\ ReuseMargin \in 0..Validity
  /\ MaxTime \in Nat
  /\ SaveMayFail \in BOOLEAN
  /\ NoSecret \notin Secrets
  /\ NoDevice \notin Devices

VARIABLES
  now,
  expires,      \* _pairingSecrets; 0 for a secret that is not there
  last,         \* _lastGeneratedSecret
  lastExpires,  \* _lastGeneratedExpires
  owner,        \* _sessions: the device of each token
  revoked,      \* the tokens with isRevoked
  disk,         \* the file: the device of each token
  step,         \* the operation under way: none, or what it has still to do
  issuing,      \* the token the operation will answer with
  dropping,     \* the tokens the operation takes away
  usedSecrets, usedTokens,  \* history: random values drawn so far
  issued,       \* history: tokens a device has been given
  asked,        \* history: tokens whose end was begun
  ended,        \* history: tokens whose end was confirmed
  shown,        \* history: until when the first answer with a secret said it lasts
  answered,     \* history: the same of the last answer
  pairings      \* history: how often each secret has paired a device

memory  == <<expires, last, lastExpires, owner, revoked>>
opVars  == <<step, issuing, dropping>>
history == <<usedSecrets, usedTokens, issued, asked, ended, shown, answered,
             pairings>>
pairingVars == <<now, memory, disk, opVars, history>>

Times == 0..(MaxTime + Validity)

PairingTypeOK ==
  /\ now \in 0..MaxTime
  /\ expires \in [Secrets -> Times]
  /\ last \in Secrets \cup {NoSecret}
  /\ lastExpires \in Times
  /\ owner \in [Tokens -> Devices \cup {NoDevice}]
  /\ revoked \subseteq Tokens
  /\ disk \in [Tokens -> Devices \cup {NoDevice}]
  /\ step \in {"none", "save", "answer"}
  /\ issuing \subseteq Tokens
  /\ dropping \subseteq Tokens
  /\ usedSecrets \subseteq Secrets
  /\ usedTokens \subseteq Tokens
  /\ issued \subseteq Tokens
  /\ asked \subseteq Tokens
  /\ ended \subseteq Tokens
  /\ shown \in [Secrets -> Times] /\ answered \in [Secrets -> Times]
  /\ pairings \in [Secrets -> 0..2]

PairingInit ==
  /\ now = 0
  /\ expires = [s \in Secrets |-> 0]
  /\ last = NoSecret
  /\ lastExpires = 0
  /\ owner = [t \in Tokens |-> NoDevice]
  /\ revoked = {}
  /\ disk = [t \in Tokens |-> NoDevice]
  /\ step = "none"
  /\ issuing = {}
  /\ dropping = {}
  /\ usedSecrets = {}
  /\ usedTokens = {}
  /\ issued = {}
  /\ asked = {}
  /\ ended = {}
  /\ shown = [s \in Secrets |-> 0] /\ answered = [s \in Secrets |-> 0]
  /\ pairings = [s \in Secrets |-> 0]

-----------------------------------------------------------------------------

(* authenticate: the token is known and not revoked.                       *)
Valid(t) == owner[t] # NoDevice /\ t \notin revoked

TokensOf(d) == {t \in Tokens : Valid(t) /\ owner[t] = d}

(* Mutated form: the last second is left out, the next one kept.           *)
Purged_Late ==
  [s \in Secrets |-> IF now > expires[s] + 1 THEN 0 ELSE expires[s]]

(* Both operations on secrets purge the expired ones first.                *)
Purged == [s \in Secrets |-> IF now > expires[s] THEN 0 ELSE expires[s]]

(* Mutated form: reused whatever time it has left.                         *)
Reusable_AnyTime == last # NoSecret /\ Purged[last] # 0

Reusable ==
  /\ last # NoSecret
  /\ now + ReuseMargin <= lastExpires
  /\ Purged[last] # 0

(* GET /api/mobile/qr answers "expires_in": 300 whatever it was given.     *)
ExpiresIn == Validity

(* createPairingSecret: the last secret again, or a new one; and what the  *)
(* handler says of it.                                                     *)
CreatePairingSecret ==
  /\ step = "none"
  /\ \E s \in Secrets :
       /\ IF Reusable
          THEN /\ s = last
               /\ expires' = Purged
               /\ UNCHANGED <<last, lastExpires, shown>>
          ELSE /\ s \notin usedSecrets
               /\ expires' = [Purged EXCEPT ![s] = now + Validity]
               /\ last' = s
               /\ lastExpires' = now + Validity
               /\ shown' = [shown EXCEPT ![s] = now + ExpiresIn]
       /\ usedSecrets' = usedSecrets \cup {s}
       /\ answered' = [answered EXCEPT ![s] = now + ExpiresIn]
  /\ UNCHANGED <<now, owner, revoked, disk, opVars, usedTokens, issued, asked,
                 ended, pairings>>

(* Mutated forms of pairDevice: the secret stays valid; the device keeps   *)
(* its earlier tokens.                                                     *)
PairDevice_Reusable(s, d) ==
  /\ step = "none"
  /\ s \in usedSecrets
  /\ Purged[s] # 0
  /\ \E t \in Tokens \ usedTokens :
       /\ owner' = [owner EXCEPT ![t] = d]
       /\ issuing' = {t}
       /\ usedTokens' = usedTokens \cup {t}
  /\ expires' = Purged
  /\ pairings' = [pairings EXCEPT ![s] = @ + 1]
  /\ step' = "save"
  /\ UNCHANGED <<now, last, lastExpires, revoked, dropping, disk, usedSecrets,
                 issued, asked, ended, shown, answered>>

PairDevice_KeepsOld(s, d) ==
  /\ step = "none"
  /\ s \in usedSecrets
  /\ Purged[s] # 0
  /\ \E t \in Tokens \ usedTokens :
       /\ owner' = [owner EXCEPT ![t] = d]
       /\ issuing' = {t}
       /\ usedTokens' = usedTokens \cup {t}
  /\ expires' = [Purged EXCEPT ![s] = 0]
  /\ pairings' = [pairings EXCEPT ![s] = @ + 1]
  /\ step' = "save"
  /\ UNCHANGED <<now, last, lastExpires, revoked, dropping, disk, usedSecrets,
                 issued, asked, ended, shown, answered>>

(* pairDevice: an unknown or expired secret only purges; a valid one is    *)
(* used up, and the device's new token replaces the tokens it had.         *)
PairDevice(s, d) ==
  /\ step = "none"
  /\ s \in usedSecrets
  /\ IF Purged[s] = 0
     THEN /\ expires' = Purged
          /\ UNCHANGED <<last, lastExpires, owner, revoked, opVars,
                         usedTokens, asked, pairings>>
     ELSE /\ \E t \in Tokens \ usedTokens :
               /\ owner' = [u \in Tokens |->
                              IF u = t THEN d
                              ELSE IF owner[u] = d THEN NoDevice
                              ELSE owner[u]]
               /\ issuing' = {t}
               /\ usedTokens' = usedTokens \cup {t}
          /\ revoked' = {u \in revoked : owner[u] # d}
          /\ dropping' = TokensOf(d)
          /\ asked' = asked \cup TokensOf(d)
          /\ expires' = [Purged EXCEPT ![s] = 0]
          /\ last' = IF last = s THEN NoSecret ELSE last
          /\ lastExpires' = IF last = s THEN 0 ELSE lastExpires
          /\ pairings' = [pairings EXCEPT ![s] = @ + 1]
          /\ step' = "save"
  /\ UNCHANGED <<now, disk, usedSecrets, issued, ended, shown, answered>>

(* Mutated form: the file is not written.                                  *)
RevokeDevice_NotSaved(d) ==
  /\ step = "none"
  /\ TokensOf(d) # {}
  /\ revoked' = revoked \cup TokensOf(d)
  /\ dropping' = TokensOf(d)
  /\ asked' = asked \cup TokensOf(d)
  /\ step' = "answer"
  /\ UNCHANGED <<now, expires, last, lastExpires, owner, disk, issuing,
                 usedSecrets, usedTokens, issued, ended, shown, answered, pairings>>

(* revokeDevice marks the device's tokens; they stay in memory.            *)
RevokeDevice(d) ==
  /\ step = "none"
  /\ TokensOf(d) # {}
  /\ revoked' = revoked \cup TokensOf(d)
  /\ dropping' = TokensOf(d)
  /\ asked' = asked \cup TokensOf(d)
  /\ step' = "save"
  /\ UNCHANGED <<now, expires, last, lastExpires, owner, disk, issuing,
                 usedSecrets, usedTokens, issued, ended, shown, answered, pairings>>

(* Mutated form: the file is updated in place, starting from an empty one. *)
SaveSessions_InPlace ==
  /\ step = "save"
  /\ \/ /\ disk' = [t \in Tokens |-> NoDevice]
        /\ UNCHANGED step
     \/ /\ disk' = [t \in Tokens |-> IF Valid(t) THEN owner[t] ELSE NoDevice]
        /\ step' = "answer"
  /\ UNCHANGED <<now, memory, issuing, dropping, history>>

(* saveSessionsLocked: the tokens that are not revoked replace the file.   *)
(* Neither caller looks at the result.                                     *)
SaveSessions ==
  /\ step = "save"
  /\ \/ disk' = [t \in Tokens |-> IF Valid(t) THEN owner[t] ELSE NoDevice]
     \/ SaveMayFail /\ UNCHANGED disk
  /\ step' = "answer"
  /\ UNCHANGED <<now, memory, issuing, dropping, history>>

(* Mutated form: the client is answered before the file is written.        *)
Answer_Early ==
  /\ step \in {"save", "answer"}
  /\ issued' = issued \cup issuing
  /\ ended' = ended \cup dropping
  /\ step' = "none"
  /\ issuing' = {}
  /\ dropping' = {}
  /\ UNCHANGED <<now, memory, disk, usedSecrets, usedTokens, asked, shown,
                 answered, pairings>>

Answer ==
  /\ step = "answer"
  /\ issued' = issued \cup issuing
  /\ ended' = ended \cup dropping
  /\ step' = "none"
  /\ issuing' = {}
  /\ dropping' = {}
  /\ UNCHANGED <<now, memory, disk, usedSecrets, usedTokens, asked, shown,
                 answered, pairings>>

(* The daemon crashes or is stopped, starts again and loads the file.      *)
PairingRestart ==
  /\ expires' = [s \in Secrets |-> 0]
  /\ last' = NoSecret
  /\ lastExpires' = 0
  /\ owner' = disk
  /\ revoked' = {}
  /\ step' = "none"
  /\ issuing' = {}
  /\ dropping' = {}
  /\ shown' = [s \in Secrets |-> 0] /\ answered' = [s \in Secrets |-> 0]
  /\ UNCHANGED <<now, disk, usedSecrets, usedTokens, issued, asked, ended,
                 pairings>>

(* External: the clock, bounded by MaxTime.                                *)
PairingTick ==
  /\ now < MaxTime
  /\ now' = now + 1
  /\ UNCHANGED <<memory, disk, opVars, history>>

PairingNext ==
  \/ CreatePairingSecret
  \/ \E s \in Secrets, d \in Devices : PairDevice(s, d)
  \/ \E d \in Devices : RevokeDevice(d)
  \/ SaveSessions
  \/ Answer
  \/ PairingRestart
  \/ PairingTick

PairingSpec == PairingInit /\ [][PairingNext]_pairingVars

-----------------------------------------------------------------------------

(* A token whose revocation or replacement has been confirmed is never     *)
(* accepted again, whatever restarts follow (revokeDevice 292-307,         *)
(* pairDevice 240-247).                                                    *)
EndedStaysEnded == \A t \in ended : ~Valid(t)

(* A token handed to a device is accepted until somebody begins to end it, *)
(* whenever the daemon crashes (saveSessionsLocked 141-166).               *)
IssuedStaysValid == \A t \in issued \ asked : Valid(t)

(* A device has one valid token at a time, in memory and in the file, so   *)
(* pairing again locks out whoever held the old one (pairDevice 240-247).  *)
OneTokenPerDevice ==
  \A t, u \in Tokens :
    t # u => /\ Valid(t) /\ Valid(u) => owner[t] # owner[u]
             /\ disk[t] # NoDevice => disk[t] # disk[u]

(* A secret pairs one device at most: neither reuse of the last secret nor *)
(* a restart brings a used one back (createPairingSecret 202-207).         *)
SecretPairsOnce == \A s \in Secrets : pairings[s] <= 1

(* A secret can be used, once, for as long as the first answer with it     *)
(* said; a later answer says too much by Validity - ReuseMargin at most:   *)
(* reuse, purge and expiry agree on the time (192-216, WebServer.cxx:5633).*)
ShownSecretLasts ==
  \A s \in Secrets :
    shown[s] # 0 /\ pairings[s] = 0 =>
      /\ now <= shown[s] => Purged[s] # 0
      /\ answered[s] + ReuseMargin <= shown[s] + Validity

(* Not so: the answer is right of a secret that is shown again, which the  *)
(* page presents as "Valid for 300s" (web/app.js:2000).                    *)
AnswerIsRight ==
  \A s \in Secrets :
    now <= answered[s] /\ answered[s] # 0 /\ pairings[s] = 0 => Purged[s] # 0

(* The tokens the file gives each device.                                  *)
TokensKept(d) == {t \in Tokens : disk[t] = d}

Table == INSTANCE DeviceTable WITH
  holds <- [d \in Devices |-> TokensOf(d)],
  kept <- [d \in Devices |-> TokensKept(d)],
  drawn <- usedTokens,
  working <- (step # "none")

(* The devices are a table with a copy that a crash falls back to: a       *)
(* request changes one device's tokens and is answered only once the file  *)
(* says the same as memory, so that no crash undoes an answer and none     *)
(* undoes half of a request (pairDevice 240-259, revokeDevice 292-307,     *)
(* saveSessionsLocked 141-166, loadSessions).                              *)
ImplementsDeviceTable == Table!Spec

(* What is confirmed outlasts every crash: the tokens that were ended stay *)
(* ended, and those that were issued stay valid (MobileGateway.cxx:141-307).*)
TokensOutlastCrashes == EndedStaysEnded /\ IssuedStaysValid

(* Variables keep their types; a device has one token, a secret pairs one  *)
(* device, and a secret lasts as it was shown (MobileGateway.cxx:189-272). *)
PairingsOK ==
  PairingTypeOK /\ OneTokenPerDevice /\ SecretPairsOnce /\ ShownSecretLasts

=============================================================================
