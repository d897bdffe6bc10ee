---------------------------- MODULE MobileProofs ----------------------------
(***************************************************************************)
(* Theorems about the two halves of MobileGateway: MobilePairing, for any  *)
(* numbers of secrets, tokens and devices and any times; and AgentEvents   *)
(* with TranscriptWatch, for any numbers of conversations, steps, events,  *)
(* threads and telephones and any size of the ring.                        *)
(***************************************************************************)
EXTENDS MobilePairing, TranscriptWatch, SequenceTheorems, WellFoundedInduction,
        TLAPS

USE DEF Times

-----------------------------------------------------------------------------
(* Secrets.  One that has paired a device is gone for good, because new    *)
(* ones are never old ones; the last one is kept with its own expiry; and  *)
(* one that is shown expires no sooner than the first answer with it said. *)
SecretInv ==
  /\ PairingTypeOK
  /\ \A s \in Secrets :
       /\ expires[s] # 0 => s \in usedSecrets
       /\ pairings[s] > 0 => s \in usedSecrets /\ expires[s] = 0
       /\ pairings[s] <= 1
       /\ shown[s] # 0 /\ pairings[s] = 0 /\ now <= shown[s]
            => expires[s] >= shown[s]
       /\ shown[s] # 0 => answered[s] + ReuseMargin <= shown[s] + Validity
  /\ last # NoSecret => /\ expires[last] \in {0, lastExpires}
                        /\ shown[last] = lastExpires

LEMMA SecretsStart == PairingInit => SecretInv
  BY PairingAssumption DEF PairingInit, SecretInv, PairingTypeOK

LEMMA PurgedType ==
  ASSUME PairingTypeOK
  PROVE  /\ Purged \in [Secrets -> Times]
         /\ \A s \in Secrets : Purged[s] \in {0, expires[s]}
         /\ \A s \in Secrets : expires[s] >= now => Purged[s] = expires[s]
         /\ \A s \in Secrets : Purged[s] # 0 => Purged[s] = expires[s]
  BY PairingAssumption DEF PairingTypeOK, Purged

LEMMA SecretsStep == SecretInv /\ [PairingNext]_pairingVars => SecretInv'
<1> SUFFICES ASSUME SecretInv, [PairingNext]_pairingVars
             PROVE  SecretInv'
  OBVIOUS
<1> USE PairingAssumption DEF SecretInv
<1>1. CASE CreatePairingSecret
  <2>1. PICK s \in Secrets :
          /\ IF Reusable
             THEN /\ s = last
                  /\ expires' = Purged
                  /\ UNCHANGED <<last, lastExpires, shown>>
             ELSE /\ s \notin usedSecrets
                  /\ expires' = [Purged EXCEPT ![s] = now + Validity]
                  /\ last' = s
                  /\ lastExpires' = now + Validity
                  /\ shown' = [shown EXCEPT ![s] = now + Validity]
          /\ usedSecrets' = usedSecrets \cup {s}
          /\ answered' = [answered EXCEPT ![s] = now + Validity]
    BY <1>1 DEF CreatePairingSecret, ExpiresIn
  <2>2. UNCHANGED <<now, owner, revoked, disk, opVars, usedTokens, issued, asked,
                    ended, pairings>>
    BY <1>1 DEF CreatePairingSecret
  <2>3. CASE Reusable
    BY <2>1, <2>2, <2>3, PurgedType DEF PairingTypeOK, opVars, Reusable
  <2>4. CASE ~Reusable
    BY <2>1, <2>2, <2>4, PurgedType DEF PairingTypeOK, opVars
  <2>. QED BY <2>3, <2>4
<1>2. ASSUME NEW s \in Secrets, NEW d \in Devices, PairDevice(s, d)
      PROVE  SecretInv'
  <2>1. CASE Purged[s] = 0
    BY <1>2, <2>1, PurgedType DEF PairDevice, PairingTypeOK, opVars
  <2>2. CASE Purged[s] # 0
    <3>1. pairings[s] = 0
      BY <2>2, PurgedType DEF PairingTypeOK
    <3>2. PICK t \in Tokens \ usedTokens :
            /\ owner' = [u \in Tokens |->
                           IF u = t THEN d
                           ELSE IF owner[u] = d THEN NoDevice
                           ELSE owner[u]]
            /\ issuing' = {t}
            /\ usedTokens' = usedTokens \cup {t}
      BY <1>2, <2>2 DEF PairDevice
    <3>3. /\ revoked' = {u \in revoked : owner[u] # d}
          /\ dropping' = TokensOf(d)
          /\ asked' = asked \cup TokensOf(d)
          /\ expires' = [Purged EXCEPT ![s] = 0]
          /\ last' = IF last = s THEN NoSecret ELSE last
          /\ lastExpires' = IF last = s THEN 0 ELSE lastExpires
          /\ pairings' = [pairings EXCEPT ![s] = @ + 1]
          /\ step' = "save"
          /\ UNCHANGED <<now, disk, usedSecrets, issued, ended, shown, answered>>
      BY <1>2, <2>2 DEF PairDevice
    <3>4. s \in usedSecrets
      BY <1>2 DEF PairDevice
    <3>5. PairingTypeOK'
      BY <3>1, <3>2, <3>3, PurgedType DEF PairingTypeOK, TokensOf
    <3>. QED
      BY <3>1, <3>3, <3>4, <3>5, PurgedType DEF PairingTypeOK
  <2>. QED BY <2>1, <2>2
<1>3. ASSUME NEW d \in Devices, RevokeDevice(d)
      PROVE  SecretInv'
  BY <1>3 DEF RevokeDevice, TokensOf, PairingTypeOK
<1>4. CASE SaveSessions
  BY <1>4 DEF SaveSessions, PairingTypeOK, memory, history
<1>5. CASE Answer
  BY <1>5 DEF Answer, PairingTypeOK, memory
<1>6. CASE PairingRestart
  BY <1>6 DEF PairingRestart, PairingTypeOK
<1>7. CASE PairingTick
  BY <1>7 DEF PairingTick, PairingTypeOK, memory, opVars, history
<1>8. CASE UNCHANGED pairingVars
  BY <1>8 DEF pairingVars, memory, opVars, history, PairingTypeOK
<1>. QED
  BY <1>1, <1>2, <1>3, <1>4, <1>5, <1>6, <1>7, <1>8 DEF PairingNext

-----------------------------------------------------------------------------
(* One token per device, in memory and in the file.                        *)

LEMMA OneTokenStep ==
  PairingTypeOK /\ OneTokenPerDevice /\ [PairingNext]_pairingVars => OneTokenPerDevice'
<1> SUFFICES ASSUME PairingTypeOK, OneTokenPerDevice, [PairingNext]_pairingVars
             PROVE  OneTokenPerDevice'
  OBVIOUS
<1> USE PairingAssumption DEF OneTokenPerDevice, Valid, PairingTypeOK
<1>1. CASE CreatePairingSecret
  BY <1>1 DEF CreatePairingSecret
<1>2. ASSUME NEW s \in Secrets, NEW d \in Devices, PairDevice(s, d)
      PROVE  OneTokenPerDevice'
  <2>1. CASE Purged[s] = 0
    BY <1>2, <2>1 DEF PairDevice
  <2>2. CASE Purged[s] # 0
    <3>1. PICK t \in Tokens \ usedTokens :
            owner' = [u \in Tokens |-> IF u = t THEN d
                                       ELSE IF owner[u] = d THEN NoDevice
                                       ELSE owner[u]]
      BY <1>2, <2>2 DEF PairDevice
    <3>2. revoked' = {u \in revoked : owner[u] # d} /\ disk' = disk
      BY <1>2, <2>2 DEF PairDevice
    <3>. QED BY <3>1, <3>2
  <2>. QED BY <2>1, <2>2
<1>3. ASSUME NEW d \in Devices, RevokeDevice(d)
      PROVE  OneTokenPerDevice'
  BY <1>3 DEF RevokeDevice
<1>4. CASE SaveSessions
  BY <1>4 DEF SaveSessions, memory
<1>5. CASE Answer
  BY <1>5 DEF Answer, memory
<1>6. CASE PairingRestart
  BY <1>6 DEF PairingRestart
<1>7. CASE PairingTick
  BY <1>7 DEF PairingTick, memory
<1>8. CASE UNCHANGED pairingVars
  BY <1>8 DEF pairingVars, memory
<1>. QED
  BY <1>1, <1>2, <1>3, <1>4, <1>5, <1>6, <1>7, <1>8 DEF PairingNext

(* Types, one token per device, one device per secret, and secrets that    *)
(* last while they are shown (createPairingSecret, pairDevice).            *)
THEOREM PairingsHold == PairingSpec => []PairingsOK
<1>1. PairingInit => SecretInv /\ OneTokenPerDevice
  BY SecretsStart, PairingAssumption DEF PairingInit, OneTokenPerDevice, Valid
<1>2. SecretInv /\ OneTokenPerDevice /\ [PairingNext]_pairingVars
        => SecretInv' /\ OneTokenPerDevice'
  BY SecretsStep, OneTokenStep DEF SecretInv
<1>3. SecretInv /\ OneTokenPerDevice => PairingsOK
  BY PurgedType, PairingAssumption
     DEF SecretInv, PairingsOK, SecretPairsOnce, ShownSecretLasts, PairingTypeOK
<1>. QED BY <1>1, <1>2, <1>3, PTL DEF PairingSpec
-----------------------------------------------------------------------------
(* Tokens, as long as the file can be written.  Every step of an operation *)
(* keeps the tokens it ends out of memory, then out of the file, before    *)
(* they are called ended; and those it issues in memory, then in the file. *)
TokenInv ==
  /\ PairingTypeOK
  /\ step = "none" => issuing = {} /\ dropping = {}
  /\ issued \cup ended \cup issuing \cup dropping \cup revoked \subseteq usedTokens
  /\ \A t \in Tokens : owner[t] # NoDevice \/ disk[t] # NoDevice => t \in usedTokens
  /\ \A t \in ended : ~Valid(t) /\ disk[t] = NoDevice
  /\ \A t \in dropping : ~Valid(t) /\ (step = "answer" => disk[t] = NoDevice)
  /\ \A t \in issued \ asked : Valid(t) /\ disk[t] # NoDevice
  /\ \A t \in issuing \ asked : Valid(t) /\ (step = "answer" => disk[t] # NoDevice)

LEMMA TokensStart == PairingInit => TokenInv
  BY SecretsStart DEF PairingInit, TokenInv, SecretInv, Valid

LEMMA TokensStep ==
  ASSUME SaveMayFail = FALSE, SecretInv, TokenInv, [PairingNext]_pairingVars
  PROVE  TokenInv'
<1>0. PairingTypeOK'
  BY SecretsStep DEF SecretInv
<1> USE <1>0, PairingAssumption DEF TokenInv, Valid
<1>1. CASE CreatePairingSecret
  BY <1>1 DEF CreatePairingSecret, opVars
<1>2. ASSUME NEW s \in Secrets, NEW d \in Devices, PairDevice(s, d)
      PROVE  TokenInv'
  <2>1. CASE Purged[s] = 0
    BY <1>2, <2>1 DEF PairDevice, opVars
  <2>2. CASE Purged[s] # 0
    <3>1. PICK t \in Tokens \ usedTokens :
            /\ owner' = [u \in Tokens |-> IF u = t THEN d
                                          ELSE IF owner[u] = d THEN NoDevice
                                          ELSE owner[u]]
            /\ issuing' = {t}
            /\ usedTokens' = usedTokens \cup {t}
      BY <1>2, <2>2 DEF PairDevice
    <3>2. /\ revoked' = {u \in revoked : owner[u] # d}
          /\ dropping' = TokensOf(d)
          /\ asked' = asked \cup TokensOf(d)
          /\ step' = "save"
          /\ UNCHANGED <<disk, issued, ended>>
      BY <1>2, <2>2 DEF PairDevice
    <3>3. t \notin TokensOf(d) /\ TokensOf(d) \subseteq usedTokens
      BY <3>1 DEF TokensOf
    <3>4. \A u \in Tokens : u # t =>
            /\ Valid(u)' => Valid(u)
            /\ Valid(u) /\ u \notin TokensOf(d) => Valid(u)'
            /\ u \in TokensOf(d) => ~Valid(u)'
      BY <3>1, <3>2 DEF TokensOf, PairingTypeOK
    <3>5. Valid(t)'
      BY <3>1, <3>2
    <3>6. \A u \in Tokens : owner'[u] # NoDevice \/ disk'[u] # NoDevice
                              => u \in usedTokens'
      BY <3>1, <3>2
    <3>7. issued \subseteq Tokens /\ ended \subseteq Tokens
      BY DEF PairingTypeOK
    <3>8. /\ \A u \in ended' : ~Valid(u)' /\ disk'[u] = NoDevice
          /\ \A u \in dropping' : ~Valid(u)'
          /\ \A u \in issued' \ asked' : Valid(u)' /\ disk'[u] # NoDevice
          /\ \A u \in issuing' \ asked' : Valid(u)'
      BY <3>1, <3>2, <3>3, <3>4, <3>5, <3>7 DEF TokensOf
    <3>. QED
      BY <3>1, <3>2, <3>3, <3>6, <3>8
  <2>. QED BY <2>1, <2>2
<1>3. ASSUME NEW d \in Devices, RevokeDevice(d)
      PROVE  TokenInv'
  BY <1>3 DEF RevokeDevice, TokensOf, PairingTypeOK
<1>4. CASE SaveSessions
  BY <1>4 DEF SaveSessions, memory, history, PairingTypeOK
<1>5. CASE Answer
  BY <1>5 DEF Answer, memory, PairingTypeOK
<1>6. CASE PairingRestart
  BY <1>6 DEF PairingRestart, PairingTypeOK
<1>7. CASE PairingTick
  BY <1>7 DEF PairingTick, memory, opVars, history
<1>8. CASE UNCHANGED pairingVars
  BY <1>8 DEF pairingVars, memory, opVars, history
<1>. QED
  BY <1>1, <1>2, <1>3, <1>4, <1>5, <1>6, <1>7, <1>8 DEF PairingNext

LEMMA TokensHold ==
  ASSUME SaveMayFail = FALSE
  PROVE  PairingSpec => []TokenInv
<1>1. PairingInit => SecretInv /\ TokenInv
  BY SecretsStart, TokensStart
<1>2. SecretInv /\ TokenInv /\ [PairingNext]_pairingVars => SecretInv' /\ TokenInv'
  BY SecretsStep, TokensStep
<1>. QED BY <1>1, <1>2, PTL DEF PairingSpec

LEMMA EndedForGood ==
  ASSUME SaveMayFail = FALSE
  PROVE  PairingSpec => []EndedStaysEnded
<1>1. TokenInv => EndedStaysEnded
  BY DEF TokenInv, EndedStaysEnded
<1>. QED BY <1>1, TokensHold, PTL

LEMMA IssuedUntilAsked ==
  ASSUME SaveMayFail = FALSE
  PROVE  PairingSpec => []IssuedStaysValid
<1>1. TokenInv => IssuedStaysValid
  BY DEF TokenInv, IssuedStaysValid
<1>. QED BY <1>1, TokensHold, PTL

(* A token whose end was confirmed is never accepted again, and one that   *)
(* was handed out is accepted until its end is begun, whatever crashes and *)
(* restarts follow (revokeDevice, pairDevice, saveSessionsLocked, init).   *)
THEOREM CrashesUndoNothing ==
  ASSUME SaveMayFail = FALSE
  PROVE  PairingSpec => []TokensOutlastCrashes
BY EndedForGood, IssuedUntilAsked, PTL DEF TokensOutlastCrashes

-----------------------------------------------------------------------------
(* The devices implement DeviceTable, as long as the file can be written:  *)
(* except while it waits to be written, it says what memory says.          *)
Saved ==
  step # "save" =>
    \A t \in Tokens : disk[t] = IF Valid(t) THEN owner[t] ELSE NoDevice

TableInv ==
  /\ PairingTypeOK
  /\ \A t \in Tokens : owner[t] # NoDevice => t \in usedTokens
  /\ revoked \subseteq usedTokens
  /\ Saved

LEMMA SavedStep ==
  ASSUME SaveMayFail = FALSE, PairingTypeOK, Saved, [PairingNext]_pairingVars
  PROVE  Saved'
<1> USE PairingAssumption DEF Saved, Valid, PairingTypeOK
<1>1. CASE CreatePairingSecret
  BY <1>1 DEF CreatePairingSecret, opVars
<1>2. ASSUME NEW s \in Secrets, NEW d \in Devices, PairDevice(s, d)
      PROVE  Saved'
  <2>1. CASE Purged[s] = 0
    BY <1>2, <2>1 DEF PairDevice, opVars
  <2>2. CASE Purged[s] # 0
    BY <1>2, <2>2 DEF PairDevice
  <2>. QED BY <2>1, <2>2
<1>3. ASSUME NEW d \in Devices, RevokeDevice(d)
      PROVE  Saved'
  BY <1>3 DEF RevokeDevice
<1>4. CASE SaveSessions
  BY <1>4 DEF SaveSessions, memory
<1>5. CASE Answer
  BY <1>5 DEF Answer, memory
<1>6. CASE PairingRestart
  BY <1>6 DEF PairingRestart
<1>7. CASE PairingTick
  BY <1>7 DEF PairingTick, memory, opVars
<1>8. CASE UNCHANGED pairingVars
  BY <1>8 DEF pairingVars, memory, opVars
<1>. QED
  BY <1>1, <1>2, <1>3, <1>4, <1>5, <1>6, <1>7, <1>8 DEF PairingNext

LEMMA TableHolds ==
  ASSUME SaveMayFail = FALSE
  PROVE  PairingSpec => []TableInv
<1>1. PairingInit => SecretInv /\ TokenInv /\ Saved
  BY SecretsStart, TokensStart, PairingAssumption DEF PairingInit, Saved, Valid
<1>2. SecretInv /\ TokenInv /\ Saved /\ [PairingNext]_pairingVars
        => SecretInv' /\ TokenInv' /\ Saved'
  BY SecretsStep, TokensStep, SavedStep DEF SecretInv
<1>3. TokenInv /\ Saved => TableInv
  BY DEF TokenInv, TableInv
<1>. QED BY <1>1, <1>2, <1>3, PTL DEF PairingSpec

(* Tokens that stay as they are, in memory and in the file.                *)
LEMMA SameTokens ==
  ASSUME owner' = owner, revoked' = revoked
  PROVE  \A d \in Devices : TokensOf(d)' = TokensOf(d)
BY DEF TokensOf, Valid

LEMMA SameKept ==
  ASSUME disk' = disk
  PROVE  \A d \in Devices : TokensKept(d)' = TokensKept(d)
BY DEF TokensKept

(* Outside of an operation, and after the write, the copy is the table.    *)
LEMMA CopyIsTable ==
  ASSUME TableInv, step # "save"
  PROVE  \A d \in Devices : TokensKept(d) = TokensOf(d)
BY PairingAssumption DEF TableInv, Saved, TokensKept, TokensOf, Valid

LEMMA PairStep ==
  ASSUME TableInv, NEW s \in Secrets, NEW d \in Devices, PairDevice(s, d),
         Purged[s] # 0
  PROVE  Table!Pair(d)
<1>1. PICK t \in Tokens \ usedTokens :
        /\ owner' = [u \in Tokens |-> IF u = t THEN d
                                      ELSE IF owner[u] = d THEN NoDevice
                                      ELSE owner[u]]
        /\ usedTokens' = usedTokens \cup {t}
  BY DEF PairDevice
<1>2. /\ revoked' = {u \in revoked : owner[u] # d}
      /\ step = "none" /\ step' = "save"
      /\ disk' = disk
  BY DEF PairDevice
<1>3. owner[t] = NoDevice /\ t \notin revoked'
  BY <1>1, <1>2 DEF TableInv
<1>4. TokensOf(d)' = {t}
  <2>1. t \in TokensOf(d)'
    BY <1>1, <1>3, PairingAssumption DEF TokensOf, Valid
  <2>2. \A u \in Tokens : u # t => u \notin TokensOf(d)'
    BY <1>1, PairingAssumption DEF TokensOf, Valid
  <2>. QED BY <2>1, <2>2 DEF TokensOf
<1>5. ASSUME NEW e \in Devices, e # d
      PROVE  TokensOf(e)' = TokensOf(e)
  <2>1. t \notin TokensOf(e) /\ t \notin TokensOf(e)'
    BY <1>1, <1>3, <1>5, PairingAssumption DEF TokensOf, Valid
  <2>2. \A u \in Tokens : u # t => (u \in TokensOf(e)' <=> u \in TokensOf(e))
    BY <1>1, <1>2, <1>5, PairingAssumption DEF TokensOf, Valid
  <2>. QED BY <2>1, <2>2 DEF TokensOf
<1>6. [e \in Devices |-> TokensOf(e)]'
        = [[e \in Devices |-> TokensOf(e)] EXCEPT ![d] = {t}]
  BY <1>4, <1>5
<1>7. UNCHANGED [e \in Devices |-> TokensKept(e)]
  BY <1>2, SameKept
<1>. QED BY <1>1, <1>2, <1>6, <1>7 DEF Table!Pair

LEMMA RevokeStep ==
  ASSUME TableInv, NEW d \in Devices, RevokeDevice(d)
  PROVE  Table!Revoke(d)
<1>1. /\ revoked' = revoked \cup TokensOf(d)
      /\ step = "none" /\ step' = "save"
      /\ TokensOf(d) # {}
      /\ UNCHANGED <<owner, disk, usedTokens>>
  BY DEF RevokeDevice
<1>2. TokensOf(d)' = {}
  BY <1>1 DEF TokensOf, Valid
<1>3. \A e \in Devices : e # d => TokensOf(e)' = TokensOf(e)
  BY <1>1 DEF TokensOf, Valid
<1>4. [e \in Devices |-> TokensOf(e)]'
        = [[e \in Devices |-> TokensOf(e)] EXCEPT ![d] = {}]
  BY <1>2, <1>3
<1>5. UNCHANGED [e \in Devices |-> TokensKept(e)]
  BY <1>1, SameKept
<1>6. [e \in Devices |-> TokensOf(e)][d] # {}
  BY <1>1
<1>. QED BY <1>1, <1>4, <1>5, <1>6 DEF Table!Revoke

LEMMA TableStep ==
  ASSUME SaveMayFail = FALSE, TableInv, TableInv', [PairingNext]_pairingVars
  PROVE  [Table!Next]_(Table!tableVars)
<1> DEFINE Stays == /\ owner' = owner /\ revoked' = revoked
                    /\ disk' = disk /\ usedTokens' = usedTokens
                    /\ step' = step
<1>0. ASSUME Stays PROVE UNCHANGED Table!tableVars
  BY <1>0, SameTokens, SameKept DEF Table!tableVars
<1>1. CASE CreatePairingSecret
  BY <1>0, <1>1 DEF CreatePairingSecret, opVars
<1>2. ASSUME NEW s \in Secrets, NEW d \in Devices, PairDevice(s, d)
      PROVE  [Table!Next]_(Table!tableVars)
  <2>1. CASE Purged[s] = 0
    BY <1>0, <1>2, <2>1 DEF PairDevice, opVars
  <2>2. CASE Purged[s] # 0
    BY <1>2, <2>2, PairStep DEF Table!Next
  <2>. QED BY <2>1, <2>2
<1>3. ASSUME NEW d \in Devices, RevokeDevice(d)
      PROVE  [Table!Next]_(Table!tableVars)
  BY <1>3, RevokeStep DEF Table!Next
<1>4. CASE SaveSessions
  <2>1. /\ step = "save" /\ step' = "answer"
        /\ UNCHANGED <<owner, revoked, usedTokens>>
    BY <1>4 DEF SaveSessions, memory, history
  <2>2. \A d \in Devices : TokensOf(d)' = TokensOf(d)
    BY <2>1, SameTokens
  <2>3. \A d \in Devices : TokensKept(d)' = TokensOf(d)'
    BY <2>1, PairingAssumption
       DEF TableInv, Saved, TokensKept, TokensOf, Valid
  <2>. QED BY <2>1, <2>2, <2>3 DEF Table!Next, Table!Save
<1>5. CASE Answer
  <2>1. /\ step = "answer" /\ step' = "none"
        /\ UNCHANGED <<owner, revoked, disk, usedTokens>>
    BY <1>5 DEF Answer, memory
  <2>. QED
    BY <2>1, SameTokens, SameKept, CopyIsTable DEF Table!Next, Table!Reply
<1>6. CASE PairingRestart
  <2>1. /\ owner' = disk /\ revoked' = {} /\ step' = "none"
        /\ UNCHANGED <<disk, usedTokens>>
    BY <1>6 DEF PairingRestart
  <2>2. \A d \in Devices : TokensOf(d)' = TokensKept(d)
    BY <2>1, PairingAssumption DEF TokensOf, TokensKept, Valid
  <2>. QED BY <2>1, <2>2, SameKept DEF Table!Next, Table!Crash
<1>7. CASE PairingTick
  BY <1>0, <1>7 DEF PairingTick, memory, opVars, history
<1>8. CASE UNCHANGED pairingVars
  BY <1>0, <1>8 DEF pairingVars, memory, opVars, history
<1>. QED
  BY <1>1, <1>2, <1>3, <1>4, <1>5, <1>6, <1>7, <1>8 DEF PairingNext

(* The devices do what DeviceTable promises: a request is answered only    *)
(* once the file says what memory says, so a crash undoes no answer and    *)
(* undoes a request only as a whole (pairDevice, revokeDevice,             *)
(* saveSessionsLocked, loadSessionsLocked).                                *)
THEOREM DevicesAreATable ==
  ASSUME SaveMayFail = FALSE
  PROVE  PairingSpec => ImplementsDeviceTable
<1>1. PairingInit => Table!Init
  <2>1. ASSUME PairingInit, NEW d \in Devices
        PROVE  TokensOf(d) = {} /\ TokensKept(d) = {}
    BY <2>1, PairingAssumption DEF PairingInit, TokensOf, TokensKept, Valid
  <2>. QED BY <2>1 DEF PairingInit, Table!Init
<1>2. TableInv /\ TableInv' /\ [PairingNext]_pairingVars
        => [Table!Next]_(Table!tableVars)
  BY TableStep
<1>3. PairingSpec => []TableInv
  BY TableHolds
<1>. QED BY <1>1, <1>2, <1>3, PTL DEF PairingSpec, ImplementsDeviceTable, Table!Spec

-----------------------------------------------------------------------------
(* What a poller is sent.  The prover has no induction over sequences, so  *)
(* Newer is shown to be a certain end of the ring: the function that       *)
(* returns that end meets Newer's equations, and only one function does.   *)

(* What Newer computes step by step; the function it is.                   *)
Takes(r, n, F) ==
  F = [i \in 0..Len(r) |->
         IF i = 0 THEN <<>>
         ELSE IF r[i].seq > n THEN Append(F[i - 1], r[i]) ELSE F[i - 1]]

(* In a sequence with ascending numbers, of which the first k are not newer. *)
RestOf(r, k, i) == IF i <= k THEN <<>> ELSE SubSeq(r, k + 1, i)

LEMMA TakesRest ==
  ASSUME NEW S, NEW r \in Seq(S), NEW n, NEW k \in 0..Len(r),
         \A i \in 1..Len(r) : r[i].seq > n <=> i > k
  PROVE  Takes(r, n, [i \in 0..Len(r) |-> RestOf(r, k, i)])
<1> DEFINE F == [i \in 0..Len(r) |-> RestOf(r, k, i)]
<1>0. Len(r) \in Nat
  OBVIOUS
<1>1. ASSUME NEW i \in 0..Len(r), i # 0
      PROVE  F[i] = IF r[i].seq > n THEN Append(F[i - 1], r[i]) ELSE F[i - 1]
  <2>0. i \in 1..Len(r) /\ i - 1 \in 0..Len(r)
    BY <1>0, <1>1
  <2>1. CASE i <= k
    BY <2>0, <2>1 DEF RestOf
  <2>2. CASE i = k + 1
    <3>1. F[i] = SubSeq(r, i, i) /\ F[i - 1] = <<>>
      BY <2>0, <2>2 DEF RestOf
    <3>2. SubSeq(r, i, i) = SubSeq(r, i, i - 1) \o <<r[i]>>
      BY <2>0, SubSeqRecursiveSecond
    <3>3. SubSeq(r, i, i - 1) = <<>>
      BY <2>0, SubSeqEmpty
    <3>4. r[i].seq > n /\ r[i] \in S
      BY <2>0, <2>2
    <3>5. <<>> \in Seq(S) /\ Append(<<>>, r[i]) = <<>> \o <<r[i]>>
      BY <3>4, AppendIsConcat
    <3>. QED BY <3>1, <3>2, <3>3, <3>4, <3>5
  <2>3. CASE i > k + 1
    <3>1. F[i] = SubSeq(r, k + 1, i) /\ F[i - 1] = SubSeq(r, k + 1, i - 1)
      BY <2>0, <2>3 DEF RestOf
    <3>2. SubSeq(r, k + 1, i) = SubSeq(r, k + 1, i - 1) \o <<r[i]>>
      <4>1. k + 1 \in 1..Len(r) /\ i \in (k + 1)..Len(r)
        BY <1>0, <2>0, <2>3
      <4>. QED BY <4>1, SubSeqRecursiveSecond
    <3>4. r[i].seq > n /\ r[i] \in S
      BY <2>0, <2>3
    <3>5. SubSeq(r, k + 1, i - 1) \in Seq(S)
      BY <2>0, <2>3
    <3>. QED BY <3>1, <3>2, <3>4, <3>5, AppendIsConcat
  <2>. QED BY <2>0, <2>1, <2>2, <2>3
<1>2. F[0] = <<>>
  BY DEF RestOf
<1> HIDE DEF F
<1>3. DOMAIN F = 0..Len(r) /\ F = [i \in 0..Len(r) |-> F[i]]
  BY DEF F
<1>. QED BY <1>1, <1>2, <1>3 DEF Takes, F

(* There is one such function.                                             *)
LEMMA TakesOne ==
  ASSUME NEW r, Len(r) \in Nat, NEW n, NEW F, NEW G, Takes(r, n, F), Takes(r, n, G)
  PROVE  F[Len(r)] = G[Len(r)]
<1> DEFINE D == {i \in 0..Len(r) : F[i] # G[i]}
<1> SUFFICES ASSUME F[Len(r)] # G[Len(r)] PROVE FALSE
  OBVIOUS
<1>1. D \subseteq Nat /\ D # {}
  <2>1. Len(r) \in D
    OBVIOUS
  <2>. QED BY <2>1
<1>2. PICK d \in D : \A e \in D : ~(<<e, d>> \in OpToRel(<, Nat))
  BY <1>1, NatLessThanWellFounded, WFMin
<1>3. d # 0
  BY DEF Takes
<1>4. d - 1 \in 0..Len(r) /\ d - 1 \notin D
  <2>1. d \in Nat /\ d - 1 \in Nat /\ d - 1 < d /\ d - 1 \in 0..Len(r)
    BY <1>3
  <2>2. <<d - 1, d>> \in OpToRel(<, Nat)
    BY <2>1 DEF OpToRel
  <2>. QED BY <1>2, <2>1, <2>2
<1>5. F[d - 1] = G[d - 1]
  BY <1>4
<1>6. d \in 0..Len(r)
  OBVIOUS
<1>7. F[d] = IF r[d].seq > n THEN Append(F[d - 1], r[d]) ELSE F[d - 1]
  BY <1>3, <1>6 DEF Takes
<1>8. G[d] = IF r[d].seq > n THEN Append(G[d - 1], r[d]) ELSE G[d - 1]
  BY <1>3, <1>6 DEF Takes
<1>. QED BY <1>5, <1>7, <1>8

LEMMA NewerIs ==
  ASSUME NEW S, ring \in Seq(S), NEW n, NEW k \in 0..Len(ring),
         \A i \in 1..Len(ring) : ring[i].seq > n <=> i > k
  PROVE  Newer(n) = RestOf(ring, k, Len(ring))
<1> DEFINE G == [i \in 0..Len(ring) |-> RestOf(ring, k, i)]
<1>1. Takes(ring, n, G)
  BY TakesRest
<1> DEFINE F == CHOOSE H : Takes(ring, n, H)
<1>2. Takes(ring, n, F)
  BY <1>1
<1>3. Newer(n) = F[Len(ring)]
  BY DEF Newer, Takes
<1>4. Len(ring) \in Nat /\ G[Len(ring)] = RestOf(ring, k, Len(ring))
  OBVIOUS
<1> HIDE DEF F, G
<1>. QED BY <1>1, <1>2, <1>3, <1>4, TakesOne

-----------------------------------------------------------------------------
(* The ring of events.                                                     *)

(* Every number is pushed or about to be, by one sender.                   *)
Numbered ==
  /\ \A n \in 1..nextSeq :
       \/ \E i \in DOMAIN pushed : pushed[i] = n
       \/ \E s \in Senders : pushing[s] = n
  /\ \A i \in DOMAIN pushed : pushed[i] <= nextSeq
  /\ \A i, j \in DOMAIN pushed : i # j => pushed[i] # pushed[j]
  /\ \A s \in Senders :
       pushing[s] # 0 => /\ pushing[s] <= nextSeq
                         /\ \A i \in DOMAIN pushed : pushed[i] # pushing[s]
  /\ \A s, t \in Senders : s # t /\ pushing[s] # 0 => pushing[s] # pushing[t]

(* Only a restart takes the numbers back behind a poller.                  *)
Behind == \A p \in Pollers : fresh[p] => since[p] <= nextSeq

EvInv == EvTypeOK /\ RingIsRecent /\ Numbered /\ Behind

LEMMA EventsStart == EvInit => EvInv
<1> SUFFICES ASSUME EvInit PROVE EvInv
  OBVIOUS
<1> USE EventsAssumption DEF EvInit
<1>1. EvTypeOK
  BY DEF EvTypeOK
<1>2. RingIsRecent
  BY DEF RingIsRecent
<1>3. Numbered /\ Behind
  BY DEF Numbered, Behind
<1>. QED BY <1>1, <1>2, <1>3 DEF EvInv

(* Recording appends the event and drops d entries at the front.           *)
Longer(ev) == Append(ring, [seq |-> nextSeq + 1, ev |-> ev])

LEMMA RecordedAs ==
  ASSUME EvInv, NEW ev \in Event, nextSeq < MaxSeq
  PROVE  /\ Longer(ev) \in Seq(Entry)
         /\ \A i \in 1..Len(ring) : Longer(ev)[i] = ring[i]
         /\ Longer(ev)[Len(ring) + 1].seq = nextSeq + 1
         /\ Longer(ev)[Len(ring) + 1].ev = ev
         /\ Trimmed(Longer(ev)) \in Seq(Entry)
         /\ \E d \in {0, 1} :
              /\ Len(Trimmed(Longer(ev))) = Len(ring) + 1 - d
              /\ d = IF nextSeq < RingSize THEN 0 ELSE 1
              /\ \A i \in 1..(Len(ring) + 1 - d) :
                   Trimmed(Longer(ev))[i] = Longer(ev)[i + d]
<1> DEFINE e == [seq |-> nextSeq + 1, ev |-> ev]
<1> DEFINE r == Longer(ev)
<1>1. ring \in Seq(Entry) /\ Len(ring) \in Nat /\ nextSeq \in Nat /\ RingSize \in Nat \ {0}
  BY EventsAssumption DEF EvInv, EvTypeOK
<1>2. e \in Entry /\ e.seq = nextSeq + 1 /\ e.ev = ev
  BY <1>1, EventsAssumption DEF Entry, Seqs
<1>3. /\ r \in Seq(Entry) /\ Len(r) = Len(ring) + 1
      /\ \A i \in 1..Len(ring) : r[i] = ring[i]
      /\ r[Len(ring) + 1] = e
  BY <1>1, <1>2, AppendProperties DEF Longer
<1> HIDE DEF e, r
<1>4. nextSeq < RingSize => Len(ring) = nextSeq
  BY DEF EvInv, RingIsRecent
<1>5. ~(nextSeq < RingSize) => Len(ring) = RingSize
  BY DEF EvInv, RingIsRecent
<1> DEFINE Cut(d) ==
      /\ Trimmed(r) \in Seq(Entry)
      /\ Len(Trimmed(r)) = Len(ring) + 1 - d
      /\ \A i \in 1..(Len(ring) + 1 - d) : Trimmed(r)[i] = r[i + d]
<1>6. ASSUME nextSeq < RingSize PROVE Cut(0)
  <2>1. Trimmed(r) = r
    BY <1>1, <1>3, <1>4, <1>6 DEF Trimmed
  <2>2. ASSUME NEW i \in 1..(Len(ring) + 1 - 0) PROVE Trimmed(r)[i] = r[i + 0]
    <3>1. i + 0 = i
      BY <1>1
    <3>. QED BY <2>1, <3>1
  <2>3. Len(Trimmed(r)) = Len(ring) + 1 - 0
    BY <1>1, <1>3, <2>1
  <2>. QED BY <1>3, <2>1, <2>2, <2>3
<1>7. ASSUME ~(nextSeq < RingSize) PROVE Cut(1)
  <2>1. Trimmed(r) = SubSeq(r, 2, Len(ring) + 1)
    <3>1. Len(r) > RingSize /\ Len(r) - RingSize + 1 = 2
      BY <1>1, <1>3, <1>5, <1>7
    <3>. QED BY <1>3, <3>1 DEF Trimmed
  <2>2. \A i \in 2..(Len(ring) + 1) : r[i] \in Entry
    BY <1>1, <1>3, ElementOfSeq
  <2>3. /\ Trimmed(r) \in Seq(Entry)
        /\ Len(Trimmed(r)) = Len(ring)
        /\ \A i \in 1..Len(ring) : Trimmed(r)[i] = r[i + 1]
    <3> DEFINE n == Len(ring) + 1
    <3>1. /\ n \in Int /\ 2 \in Int /\ 2 <= n
          /\ n - 2 + 1 = Len(ring)
          /\ \A i \in 1..Len(ring) : 2 + i - 1 = i + 1
      BY <1>1, <1>5, <1>7
    <3>2. /\ SubSeq(r, 2, n) \in Seq(Entry)
          /\ Len(SubSeq(r, 2, n)) = n - 2 + 1
          /\ \A i \in 1..(n - 2 + 1) : SubSeq(r, 2, n)[i] = r[2 + i - 1]
      BY <2>2, <3>1, SubSeqProperties
    <3>. QED BY <2>1, <3>1, <3>2
  <2>4. Len(ring) + 1 - 1 = Len(ring)
    BY <1>1
  <2>. QED BY <2>3, <2>4
<1>. QED BY <1>2, <1>3, <1>6, <1>7 DEF r

(* An event that is recorded keeps the ring recent, whichever thread hands *)
(* it in.                                                                  *)
LEMMA RecordKeeps ==
  ASSUME EvInv, NEW w \in Senders, NEW ev \in Event, Record(w, ev)
  PROVE  EvInv'
<1>0. UNCHANGED <<pushed, since, news, fresh>> /\ pushing[w] = 0
  BY DEF Record
<1>1. CASE AlreadyRecorded(ev)
  <2>1. UNCHANGED <<ring, nextSeq, pushing>>
    BY <1>1 DEF Record
  <2>. QED
    BY <1>0, <2>1 DEF EvInv, EvTypeOK, RingIsRecent, Numbered, Behind
<1>2. CASE ~AlreadyRecorded(ev)
  <2> DEFINE r == Longer(ev)
  <2>1. /\ nextSeq < MaxSeq
        /\ nextSeq' = nextSeq + 1
        /\ ring' = Trimmed(r)
        /\ pushing' = [pushing EXCEPT ![w] = nextSeq + 1]
    BY <1>2 DEF Record, Longer
  <2>2. PICK d \in {0, 1} :
          /\ Len(Trimmed(r)) = Len(ring) + 1 - d
          /\ d = IF nextSeq < RingSize THEN 0 ELSE 1
          /\ \A i \in 1..(Len(ring) + 1 - d) : Trimmed(r)[i] = r[i + d]
    BY <2>1, RecordedAs
  <2>3. /\ Trimmed(r) \in Seq(Entry)
        /\ \A i \in 1..Len(ring) : r[i] = ring[i]
        /\ r[Len(ring) + 1].seq = nextSeq + 1 /\ r[Len(ring) + 1].ev = ev
    BY <2>1, RecordedAs
  <2> HIDE DEF r
  <2>4. /\ ring \in Seq(Entry) /\ Len(ring) \in Nat /\ DOMAIN ring = 1..Len(ring)
        /\ nextSeq \in 0..MaxSeq /\ MaxSeq \in Nat /\ RingSize \in Nat \ {0}
        /\ pushing \in [Senders -> 0..MaxSeq]
    BY EventsAssumption DEF EvInv, EvTypeOK
  <2>5. EvTypeOK'
    <3>1. nextSeq + 1 \in 0..MaxSeq /\ nextSeq + 1 \in Nat
      BY <2>1, <2>4
    <3>2. pushing' \in [Senders -> 0..MaxSeq]
      BY <2>1, <2>4, <3>1
    <3>. QED BY <1>0, <2>1, <2>3, <3>1, <3>2 DEF EvInv, EvTypeOK
  <2>6. RingIsRecent'
    <3>1. /\ DOMAIN ring' = 1..(Len(ring) + 1 - d)
          /\ Len(ring') = Len(ring) + 1 - d
          /\ \A i \in 1..(Len(ring) + 1 - d) : ring'[i] = r[i + d]
      BY <2>1, <2>2, <2>3
    <3>2. Len(ring) = IF nextSeq < RingSize THEN nextSeq ELSE RingSize
      BY DEF EvInv, RingIsRecent
    <3>3. Len(ring') = IF nextSeq' < RingSize THEN nextSeq' ELSE RingSize
      BY <2>1, <2>2, <2>4, <3>1, <3>2
    <3>4. ASSUME NEW i \in 1..(Len(ring) + 1 - d)
          PROVE  ring'[i].seq = nextSeq' - Len(ring') + i
      <4>0. i + d \in 1..(Len(ring) + 1)
        BY <2>4
      <4>1. CASE i + d \in 1..Len(ring)
        <5>1. ring[i + d].seq = nextSeq - Len(ring) + (i + d)
          BY <2>4, <4>1 DEF EvInv, RingIsRecent
        <5>2. ring'[i].seq = ring[i + d].seq
          BY <2>3, <3>1, <4>1
        <5>3. Len(ring') = Len(ring) + 1 - d
          BY <3>1
        <5>. QED BY <2>1, <2>4, <5>1, <5>2, <5>3
      <4>2. CASE i + d = Len(ring) + 1
        <5>1. ring'[i].seq = nextSeq + 1
          BY <2>3, <3>1, <4>2
        <5>2. i = Len(ring') /\ Len(ring') \in Nat
          BY <2>4, <3>1, <4>2
        <5>. QED BY <2>1, <2>4, <5>1, <5>2
      <4>. QED BY <2>4, <4>0, <4>1, <4>2
    <3>5. ASSUME NEW i \in 1..(Len(ring) + 1), NEW j \in 1..(Len(ring) + 1),
                 i # j, r[i].ev = r[j].ev
          PROVE  r[i].ev.step = NoStep
      <4>1. \A k \in 1..Len(ring) : r[k].ev = ev => ev.step = NoStep
        BY <1>2, <2>3, <2>4 DEF AlreadyRecorded
      <4>2. CASE i \in 1..Len(ring) /\ j \in 1..Len(ring)
        BY <2>3, <2>4, <3>5, <4>2 DEF EvInv, RingIsRecent
      <4>3. CASE i = Len(ring) + 1
        <5>1. j \in 1..Len(ring)
          BY <2>4, <3>5, <4>3
        <5>. QED BY <2>3, <3>5, <4>1, <4>3, <5>1
      <4>4. CASE j = Len(ring) + 1
        <5>1. i \in 1..Len(ring)
          BY <2>4, <3>5, <4>4
        <5>. QED BY <2>3, <3>5, <4>1, <4>4, <5>1
      <4>. QED BY <2>4, <4>2, <4>3, <4>4
    <3>6. ASSUME NEW i \in 1..(Len(ring) + 1 - d), NEW j \in 1..(Len(ring) + 1 - d),
                 i # j, ring'[i].ev = ring'[j].ev
          PROVE  ring'[i].ev.step = NoStep
      <4>1. i + d \in 1..(Len(ring) + 1) /\ j + d \in 1..(Len(ring) + 1) /\ i + d # j + d
        BY <2>4, <3>6
      <4>2. ring'[i] = r[i + d] /\ ring'[j] = r[j + d]
        BY <3>1
      <4>. QED BY <3>5, <3>6, <4>1, <4>2
    <3>. QED BY <3>1, <3>3, <3>4, <3>6 DEF RingIsRecent
  <2>7. Numbered'
    <3>1. /\ pushing'[w] = nextSeq + 1
          /\ \A s \in Senders : s # w => pushing'[s] = pushing[s]
      BY <2>1, <2>4
    <3>2. \A s \in Senders : pushing[s] # nextSeq + 1
      <4>1. \A s \in Senders : pushing[s] # 0 => pushing[s] <= nextSeq
        BY DEF EvInv, Numbered
      <4>. QED BY <2>4, <4>1
    <3>3. \A i \in DOMAIN pushed : pushed[i] \in Nat /\ pushed[i] <= nextSeq
      <4>1. \A i \in DOMAIN pushed : pushed[i] \in Seqs
        BY DEF EvInv, EvTypeOK
      <4>. QED BY <4>1, <2>4 DEF EvInv, Numbered, Seqs
    <3>4. ASSUME NEW n \in 1..(nextSeq + 1)
          PROVE  (\E i \in DOMAIN pushed : pushed[i] = n) \/ (\E s \in Senders : pushing'[s] = n)
      <4>1. CASE n = nextSeq + 1
        BY <3>1, <4>1
      <4>2. CASE n # nextSeq + 1
        <5>1. n \in 1..nextSeq
          BY <2>4, <4>2
        <5>2. \A s \in Senders : pushing[s] = n => s # w
          BY <1>0, <5>1
        <5>. QED BY <3>1, <5>1, <5>2 DEF EvInv, Numbered
      <4>. QED BY <4>1, <4>2
    <3>5. \A s \in Senders : pushing'[s] # 0 => pushing'[s] <= nextSeq + 1
      <4>1. \A s \in Senders : pushing[s] # 0 => pushing[s] <= nextSeq
        BY DEF EvInv, Numbered
      <4>. QED BY <2>4, <3>1, <4>1
    <3>6. \A s \in Senders : pushing'[s] # 0 => \A i \in DOMAIN pushed : pushed[i] # pushing'[s]
      <4>1. \A i \in DOMAIN pushed : pushed[i] # nextSeq + 1
        BY <2>4, <3>3
      <4>. QED BY <3>1, <4>1 DEF EvInv, Numbered
    <3>7. \A s, t \in Senders : s # t /\ pushing'[s] # 0 => pushing'[s] # pushing'[t]
      BY <3>1, <3>2 DEF EvInv, Numbered
    <3>8. \A i \in DOMAIN pushed : pushed[i] <= nextSeq + 1
      BY <2>4, <3>3
    <3>9. \A i, j \in DOMAIN pushed : i # j => pushed[i] # pushed[j]
      BY DEF EvInv, Numbered
    <3>. QED
      BY <1>0, <2>1, <3>4, <3>5, <3>6, <3>7, <3>8, <3>9 DEF Numbered
  <2>8. Behind'
    <3>1. \A p \in Pollers : since[p] \in Nat /\ (fresh[p] => since[p] <= nextSeq)
      BY <2>4 DEF EvInv, EvTypeOK, Behind
    <3>. QED BY <1>0, <2>1, <2>4, <3>1 DEF Behind
  <2>. QED BY <2>5, <2>6, <2>7, <2>8 DEF EvInv
<1>. QED BY <1>1, <1>2

(* What a poller is sent: the entries from some place on, which ends with  *)
(* the latest, and all it has not seen when they are still in the ring.    *)
LEMMA NewerThan ==
  ASSUME EvInv, NEW n \in 0..MaxSeq
  PROVE  /\ Newer(n) \in Seq(Entry)
         /\ Newer(n) # <<>> => Newer(n)[Len(Newer(n))].seq = nextSeq
         /\ n <= nextSeq /\ nextSeq - n <= RingSize
              => /\ Len(Newer(n)) = nextSeq - n
                 /\ \A i \in 1..(nextSeq - n) : Newer(n)[i].seq = n + i
<1> DEFINE L == Len(ring)
<1>1. /\ ring \in Seq(Entry) /\ L \in Nat /\ nextSeq \in Nat /\ n \in Nat
      /\ RingSize \in Nat \ {0}
  BY EventsAssumption DEF EvInv, EvTypeOK
<1>2. \A i \in 1..L : ring[i].seq = nextSeq - L + i
  BY <1>1 DEF EvInv, RingIsRecent
<1>3. (nextSeq < RingSize => L = nextSeq) /\ (~(nextSeq < RingSize) => L = RingSize)
  BY DEF EvInv, RingIsRecent
<1> HIDE DEF L
<1>4. PICK k \in 0..L :
        /\ \A i \in 1..L : ring[i].seq > n <=> i > k
        /\ n <= nextSeq /\ nextSeq - n <= RingSize => k = n - nextSeq + L
  <2>1. CASE n >= nextSeq
    <3>1. \A i \in 1..L : ~(ring[i].seq > n) /\ ~(i > L)
      BY <1>1, <1>2, <2>1
    <3>2. n <= nextSeq => L = n - nextSeq + L
      BY <1>1, <2>1
    <3>3. L \in 0..L
      BY <1>1
    <3>. QED BY <3>1, <3>2, <3>3
  <2>2. CASE n < nextSeq /\ n - nextSeq + L >= 0
    <3> DEFINE k == n - nextSeq + L
    <3>1. k \in 0..L
      BY <1>1, <2>2
    <3>2. \A i \in 1..L : ring[i].seq > n <=> i > k
      BY <1>1, <1>2, <2>2
    <3>. QED BY <3>1, <3>2
  <2>3. CASE n < nextSeq /\ n - nextSeq + L < 0
    <3>1. \A i \in 1..L : ring[i].seq > n /\ i > 0
      BY <1>1, <1>2, <2>3
    <3>2. ~(nextSeq - n <= RingSize)
      BY <1>1, <1>3, <2>3
    <3>3. 0 \in 0..L
      BY <1>1
    <3>. QED BY <3>1, <3>2, <3>3
  <2>. QED BY <1>1, <2>1, <2>2, <2>3
<1>5. Newer(n) = RestOf(ring, k, L)
  BY <1>1, <1>4, NewerIs DEF L
<1>6. CASE L <= k
  <2>1. Newer(n) = <<>>
    BY <1>5, <1>6 DEF RestOf
  <2>2. n <= nextSeq /\ nextSeq - n <= RingSize => nextSeq - n = 0
    BY <1>1, <1>4, <1>6
  <2>. QED BY <1>1, <2>1, <2>2
<1>7. CASE ~(L <= k)
  <2>1. Newer(n) = SubSeq(ring, k + 1, L)
    BY <1>5, <1>7 DEF RestOf
  <2>2. \A i \in (k + 1)..L : ring[i] \in Entry
    BY <1>1, <1>4, ElementOfSeq DEF L
  <2>3. k + 1 \in Int /\ L \in Int /\ k + 1 <= L /\ L - (k + 1) + 1 = L - k
    BY <1>1, <1>4, <1>7
  <2>4. /\ Newer(n) \in Seq(Entry)
        /\ Len(Newer(n)) = L - (k + 1) + 1
        /\ \A i \in 1..(L - (k + 1) + 1) : Newer(n)[i] = ring[(k + 1) + i - 1]
    BY <2>1, <2>2, <2>3, SubSeqProperties
  <2>5. ASSUME NEW i \in 1..(L - k)
        PROVE  Newer(n)[i].seq = nextSeq - L + k + i
    <3>1. (k + 1) + i - 1 = k + i /\ k + i \in 1..L
      BY <1>1, <1>4
    <3>2. Newer(n)[i] = ring[k + i]
      BY <2>3, <2>4, <3>1
    <3>3. ring[k + i].seq = nextSeq - L + (k + i)
      BY <1>2, <3>1
    <3>. QED BY <1>1, <1>4, <3>2, <3>3
  <2>6. Newer(n)[Len(Newer(n))].seq = nextSeq
    <3>1. L - k \in 1..(L - k) /\ Len(Newer(n)) = L - k
      BY <1>1, <1>4, <1>7, <2>4
    <3>2. Newer(n)[L - k].seq = nextSeq - L + k + (L - k)
      BY <2>5, <3>1
    <3>. QED BY <1>1, <1>4, <3>1, <3>2
  <2>7. ASSUME n <= nextSeq, nextSeq - n <= RingSize
        PROVE  /\ Len(Newer(n)) = nextSeq - n
               /\ \A i \in 1..(nextSeq - n) : Newer(n)[i].seq = n + i
    <3>1. k = n - nextSeq + L
      BY <1>4, <2>7
    <3>2. L - k = nextSeq - n /\ Len(Newer(n)) = L - k
      BY <1>1, <1>4, <2>3, <2>4, <3>1
    <3>3. ASSUME NEW i \in 1..(L - k)
          PROVE  Newer(n)[i].seq = n + i
      <4>1. nextSeq - L + k + i = n + i
        BY <1>1, <1>4, <3>1
      <4>. QED BY <2>5, <4>1
    <3>. QED BY <3>2, <3>3
  <2>. QED BY <2>4, <2>6, <2>7
<1>. QED BY <1>1, <1>4, <1>6, <1>7

LEMMA PushKeeps ==
  ASSUME EvInv, NEW w \in Senders, Push(w)
  PROVE  EvInv'
<1>1. /\ pushing[w] # 0
      /\ pushed' = Append(pushed, pushing[w])
      /\ pushing' = [pushing EXCEPT ![w] = 0]
      /\ UNCHANGED <<ring, nextSeq, since, news, fresh>>
  BY DEF Push
<1>2. /\ pushing \in [Senders -> 0..MaxSeq] /\ pushed \in Seq(Seqs)
      /\ Len(pushed) \in Nat /\ DOMAIN pushed = 1..Len(pushed)
      /\ MaxSeq \in Nat /\ nextSeq \in Nat
  BY EventsAssumption DEF EvInv, EvTypeOK
<1>3. pushing[w] \in Seqs
  BY <1>1, <1>2 DEF Seqs
<1>4. /\ pushed' \in Seq(Seqs) /\ DOMAIN pushed' = 1..(Len(pushed) + 1)
      /\ \A i \in 1..Len(pushed) : pushed'[i] = pushed[i]
      /\ pushed'[Len(pushed) + 1] = pushing[w]
  BY <1>1, <1>2, <1>3, AppendProperties
<1>5. /\ pushing' \in [Senders -> 0..MaxSeq] /\ pushing'[w] = 0
      /\ \A s \in Senders : s # w => pushing'[s] = pushing[s]
  BY <1>1, <1>2
<1>6. EvTypeOK'
  BY <1>1, <1>4, <1>5 DEF EvInv, EvTypeOK
<1>7. RingIsRecent' /\ Behind'
  BY <1>1 DEF EvInv, RingIsRecent, Behind
<1>8. Numbered'
  <2>0. \A i \in DOMAIN pushed' : i \in 1..Len(pushed) \/ i = Len(pushed) + 1
    BY <1>2, <1>4
  <2>1. ASSUME NEW n \in 1..nextSeq
        PROVE  (\E i \in DOMAIN pushed' : pushed'[i] = n) \/ (\E s \in Senders : pushing'[s] = n)
    <3>1. CASE \E i \in DOMAIN pushed : pushed[i] = n
      BY <1>2, <1>4, <3>1
    <3>2. CASE pushing[w] = n
      <4>1. Len(pushed) + 1 \in DOMAIN pushed'
        BY <1>2, <1>4
      <4>. QED BY <1>4, <3>2, <4>1
    <3>3. ASSUME NEW s \in Senders, s # w, pushing[s] = n
          PROVE  pushing'[s] = n
      BY <1>5, <3>3
    <3>. QED BY <3>1, <3>2, <3>3 DEF EvInv, Numbered
  <2>2. pushing[w] <= nextSeq /\ \A i \in DOMAIN pushed : pushed[i] # pushing[w]
    BY <1>1 DEF EvInv, Numbered
  <2>3. \A i \in DOMAIN pushed' : pushed'[i] <= nextSeq
    <3>1. \A i \in DOMAIN pushed : pushed[i] <= nextSeq
      BY DEF EvInv, Numbered
    <3>. QED BY <1>2, <1>4, <2>0, <2>2, <3>1
  <2>4. \A i, j \in DOMAIN pushed' : i # j => pushed'[i] # pushed'[j]
    <3>1. \A i, j \in DOMAIN pushed : i # j => pushed[i] # pushed[j]
      BY DEF EvInv, Numbered
    <3>. QED BY <1>2, <1>4, <2>0, <2>2, <3>1
  <2>5. ASSUME NEW s \in Senders, pushing'[s] # 0
        PROVE  /\ pushing'[s] <= nextSeq
               /\ \A i \in DOMAIN pushed' : pushed'[i] # pushing'[s]
               /\ \A t \in Senders : s # t => pushing'[s] # pushing'[t]
    <3>1. s # w /\ pushing'[s] = pushing[s]
      BY <1>5, <2>5
    <3>2. /\ pushing[s] <= nextSeq
          /\ \A i \in DOMAIN pushed : pushed[i] # pushing[s]
          /\ \A t \in Senders : s # t => pushing[s] # pushing[t]
      BY <2>5, <3>1 DEF EvInv, Numbered
    <3>. QED BY <1>2, <1>4, <1>5, <2>0, <2>5, <3>1, <3>2
  <2>. QED BY <1>1, <2>1, <2>3, <2>4, <2>5 DEF Numbered
<1>. QED BY <1>6, <1>7, <1>8 DEF EvInv

LEMMA PollKeeps ==
  ASSUME EvInv, NEW p \in Pollers, Poll(p)
  PROVE  EvInv'
<1> DEFINE new == Newer(since[p])
<1>1. /\ news' = [news EXCEPT ![p] = new]
      /\ since' = [since EXCEPT ![p] = IF new = <<>> THEN @ ELSE new[Len(new)].seq]
      /\ UNCHANGED <<ring, nextSeq, pushing, pushed, fresh>>
  BY DEF Poll
<1>2. /\ since \in [Pollers -> 0..MaxSeq] /\ news \in [Pollers -> Seq(Entry)]
      /\ nextSeq \in 0..MaxSeq
  BY DEF EvInv, EvTypeOK
<1>3. new \in Seq(Entry) /\ (new # <<>> => new[Len(new)].seq = nextSeq)
  BY <1>2, NewerThan
<1> HIDE DEF new
<1>4. /\ since' \in [Pollers -> 0..MaxSeq] /\ news' \in [Pollers -> Seq(Entry)]
      /\ \A q \in Pollers : since'[q] \in {since[q], nextSeq}
  BY <1>1, <1>2, <1>3
<1>5. EvTypeOK' /\ RingIsRecent' /\ Numbered'
  BY <1>1, <1>4 DEF EvInv, EvTypeOK, RingIsRecent, Numbered
<1>6. Behind'
  BY <1>1, <1>2, <1>4 DEF EvInv, Behind
<1>. QED BY <1>5, <1>6 DEF EvInv

LEMMA ResetKeeps ==
  ASSUME EvInv, ResetEvents
  PROVE  EvInv'
<1> USE EventsAssumption DEF ResetEvents
<1>1. EvTypeOK'
  BY DEF EvInv, EvTypeOK
<1>2. RingIsRecent'
  BY DEF RingIsRecent
<1>3. Numbered' /\ Behind'
  BY DEF Numbered, Behind
<1>. QED BY <1>1, <1>2, <1>3 DEF EvInv

LEMMA EventsStay ==
  ASSUME EvInv, UNCHANGED evVars
  PROVE  EvInv'
BY DEF EvInv, evVars, EvTypeOK, RingIsRecent, Numbered, Behind

-----------------------------------------------------------------------------
(* The watcher.                                                            *)

WatchTypes ==
  /\ steps \in [Convs -> Seq(StepKinds)]
  /\ dirty \in [Convs -> BOOLEAN]
  /\ old \in [Convs -> BOOLEAN]
  /\ tracked \subseteq Convs
  /\ notified \in [Convs -> 0..MaxLen]
  /\ pending \in [Convs -> 0..MaxLen]
  /\ waited \in [Convs -> 0..Settle]
  /\ reading \in Convs \cup {NoConv}
  /\ toSeed \subseteq Convs
  /\ settled \in [Convs -> 0..Settle]
  /\ atStart \in [Convs -> Nat]
  /\ oldAtStart \in [Convs -> BOOLEAN]
  /\ fired \in Seq(Event)

(* What the watcher knows of a transcript: it never remembers more steps   *)
(* than there are; a reply that it holds back is still the last step and   *)
(* has not waited longer than the file was left alone; and once looked at, *)
(* the steps of the start are behind it.                                   *)
Followed(f) ==
  /\ Len(steps[f]) <= MaxLen
  /\ steps[f] # <<>> => steps[f][1] = "user"
  /\ atStart[f] <= Len(steps[f])
  /\ notified[f] <= Len(steps[f])
  /\ pending[f] <= Len(steps[f])
  /\ pending[f] # 0 /\ pending[f] = Len(steps[f])
       => steps[f][Len(steps[f])] = "reply" /\ waited[f] <= settled[f]
  /\ old[f] => oldAtStart[f]
  /\ f \notin toSeed /\ ~oldAtStart[f] => atStart[f] <= notified[f]

(* What has been announced is behind the watcher.                          *)
Told ==
  \A i \in DOMAIN fired : fired[i].step \in 1..notified[fired[i].conv]

Announced == Told /\ NoStepTwice /\ HistoryIsQuiet

WatchInv == WatchTypes /\ (\A f \in Convs : Followed(f)) /\ Announced

NotifyInv == EvInv /\ WatchInv

LEMMA TypeParts == WatchTypes /\ EvTypeOK => TypeOK
BY DEF WatchTypes, TypeOK

LEMMA Known ==
  ASSUME WatchTypes
  PROVE  /\ MaxLen \in Nat /\ Settle \in Nat /\ Steps = 1..MaxLen
         /\ \A f \in Convs :
              /\ steps[f] \in Seq(StepKinds) /\ Len(steps[f]) \in Nat
              /\ DOMAIN steps[f] = 1..Len(steps[f])
              /\ notified[f] \in 0..MaxLen /\ notified[f] \in Nat
              /\ pending[f] \in 0..MaxLen /\ pending[f] \in Nat
              /\ waited[f] \in 0..Settle /\ waited[f] \in Nat
              /\ settled[f] \in 0..Settle /\ settled[f] \in Nat
              /\ atStart[f] \in Nat
              /\ old[f] \in BOOLEAN /\ oldAtStart[f] \in BOOLEAN
         /\ \A i \in DOMAIN fired :
              /\ fired[i] \in Event /\ fired[i].conv \in Convs
              /\ i \in 1..Len(fired)
<1>1. MaxLen \in Nat /\ Settle \in Nat /\ Steps = 1..MaxLen
  BY WatchAssumption
<1>2. ASSUME NEW f \in Convs
      PROVE  /\ steps[f] \in Seq(StepKinds) /\ Len(steps[f]) \in Nat
             /\ DOMAIN steps[f] = 1..Len(steps[f])
  BY DEF WatchTypes
<1>3. ASSUME NEW f \in Convs
      PROVE  /\ notified[f] \in 0..MaxLen /\ pending[f] \in 0..MaxLen
             /\ waited[f] \in 0..Settle /\ settled[f] \in 0..Settle
             /\ atStart[f] \in Nat
  BY DEF WatchTypes
<1>4. ASSUME NEW f \in Convs
      PROVE  old[f] \in BOOLEAN /\ oldAtStart[f] \in BOOLEAN
  BY Zenon DEF WatchTypes
<1>5. \A i \in DOMAIN fired : fired[i] \in Event /\ i \in 1..Len(fired)
  BY DEF WatchTypes
<1>6. \A e \in Event : e.conv \in Convs
  BY DEF Event
<1>. QED BY <1>1, <1>2, <1>3, <1>4, <1>5, <1>6

(* A transcript nobody touches stays followed.                             *)
LEMMA FollowedStays ==
  ASSUME NEW f \in Convs, Followed(f),
         steps'[f] = steps[f], atStart'[f] = atStart[f],
         notified'[f] = notified[f], pending'[f] = pending[f],
         waited'[f] = waited[f], settled'[f] = settled[f],
         old'[f] <=> old[f], oldAtStart'[f] <=> oldAtStart[f],
         f \notin toSeed' => f \notin toSeed
  PROVE  Followed(f)'
BY DEF Followed

(* What has been announced stays true while the watcher forgets nothing.   *)
LEMMA AnnouncedStays ==
  ASSUME WatchTypes, WatchTypes', Announced,
         UNCHANGED <<fired, atStart, oldAtStart>>,
         \A f \in Convs : notified[f] <= notified'[f]
  PROVE  Announced'
<1>1. NoStepTwice' /\ HistoryIsQuiet'
  BY DEF Announced, NoStepTwice, HistoryIsQuiet
<1>2. ASSUME NEW i \in DOMAIN fired
      PROVE  fired[i].step \in 1..notified'[fired[i].conv]
  <2>1. fired[i].conv \in Convs
    BY Known
  <2>2. /\ notified[fired[i].conv] \in Nat /\ notified'[fired[i].conv] \in Nat
        /\ notified[fired[i].conv] <= notified'[fired[i].conv]
    BY <2>1, Known DEF WatchTypes
  <2>3. fired[i].step \in 1..notified[fired[i].conv]
    BY DEF Announced, Told
  <2>. QED BY <2>2, <2>3
<1>. QED BY <1>1, <1>2 DEF Announced, Told

LEMMA WatchStays ==
  ASSUME WatchInv, UNCHANGED <<fileVars, watchVars, settled, atStart, oldAtStart, fired>>
  PROVE  WatchInv'
BY DEF WatchInv, WatchTypes, Followed, Announced, Told, NoStepTwice,
       HistoryIsQuiet, fileVars, watchVars

LEMMA WatchStart == Init => WatchInv
<1> SUFFICES ASSUME Init PROVE WatchInv
  OBVIOUS
<1> USE WatchAssumption
<1>1. ASSUME NEW f \in Convs
      PROVE  /\ steps[f] \in Seq(StepKinds) /\ Len(steps[f]) <= 2
             /\ steps[f] # <<>> => steps[f][1] = "user"
             /\ Len(steps[f]) \in Nat
  <2>1. steps[f] \in Earlier
    BY DEF Init
  <2>2. \A k \in {"reply", "running"} :
          /\ <<"user", k>> \in Seq(StepKinds) /\ Len(<<"user", k>>) = 2
          /\ <<"user", k>>[1] = "user"
    BY DEF StepKinds
  <2>3. <<>> \in Seq(StepKinds) /\ Len(<<>>) = 0
    OBVIOUS
  <2>4. steps[f] = <<>> \/ \E k \in {"reply", "running"} : steps[f] = <<"user", k>>
    BY <2>1 DEF Earlier
  <2>5. CASE steps[f] = <<>>
    BY <2>3, <2>5
  <2>6. ASSUME NEW k \in {"reply", "running"}, steps[f] = <<"user", k>>
        PROVE  /\ steps[f] \in Seq(StepKinds) /\ Len(steps[f]) = 2
               /\ steps[f][1] = "user"
    BY <2>2, <2>6, Zenon
  <2>7. CASE \E k \in {"reply", "running"} : steps[f] = <<"user", k>>
    <3>1. PICK k \in {"reply", "running"} : steps[f] = <<"user", k>>
      BY <2>7
    <3>2. steps[f] \in Seq(StepKinds) /\ Len(steps[f]) = 2 /\ steps[f][1] = "user"
      BY <2>6, <3>1
    <3>. QED BY <3>2
  <2>. QED BY <2>4, <2>5, <2>7
<1>2. /\ steps \in [Convs -> Seq(StepKinds)]
      /\ \A f \in Convs : atStart[f] = Len(steps[f])
      /\ atStart = [f \in Convs |-> Len(steps[f])]
  BY <1>1 DEF Init
<1>3. WatchTypes
  BY <1>1, <1>2 DEF Init, WatchTypes
<1>4. ASSUME NEW f \in Convs PROVE Followed(f)
  BY <1>1, <1>2 DEF Init, Followed
<1>5. Announced
  BY DEF Init, Announced, Told, NoStepTwice, HistoryIsQuiet
<1>. QED BY <1>3, <1>4, <1>5 DEF WatchInv

(* Agents write.                                                           *)
LEMMA AppendKeeps ==
  ASSUME WatchInv, NEW f \in Convs, AppendStep(f)
  PROVE  WatchInv'
<1>0. PICK k \in StepKinds :
        /\ steps[f] = <<>> => k = "user"
        /\ steps' = [steps EXCEPT ![f] = Append(steps[f], k)]
  BY DEF AppendStep
<1>1. /\ Len(steps[f]) < MaxLen
      /\ dirty' = [dirty EXCEPT ![f] = TRUE]
      /\ old' = [old EXCEPT ![f] = FALSE]
      /\ settled' = [settled EXCEPT ![f] = 0]
      /\ UNCHANGED <<tracked, notified, pending, waited, reading, toSeed>>
      /\ UNCHANGED <<atStart, oldAtStart, fired>>
  BY DEF AppendStep, Written, watchVars
<1>2. WatchTypes /\ Followed(f) /\ Announced
  BY DEF WatchInv
<1>3. /\ steps[f] \in Seq(StepKinds) /\ Len(steps[f]) \in Nat
      /\ MaxLen \in Nat /\ Settle \in Nat
      /\ notified[f] \in Nat /\ pending[f] \in Nat /\ atStart[f] \in Nat
  BY <1>2, Known
<1>4. /\ steps'[f] = Append(steps[f], k)
      /\ Append(steps[f], k) \in Seq(StepKinds)
      /\ Len(steps'[f]) = Len(steps[f]) + 1
      /\ \A i \in 1..Len(steps[f]) : steps'[f][i] = steps[f][i]
      /\ steps'[f][Len(steps[f]) + 1] = k
  <2>1. steps'[f] = Append(steps[f], k)
    BY <1>0, <1>2 DEF WatchTypes
  <2>. QED BY <1>3, <2>1, AppendProperties
<1>5. WatchTypes'
  BY <1>0, <1>1, <1>2, <1>3, <1>4 DEF WatchTypes
<1>6. Followed(f)'
  <2>1. steps'[f][1] = "user"
    <3>1. CASE steps[f] = <<>>
      <4>1. Len(steps[f]) + 1 = 1
        BY <3>1
      <4>. QED BY <1>0, <1>4, <3>1, <4>1
    <3>2. CASE steps[f] # <<>>
      <4>1. 1 \in 1..Len(steps[f])
        BY <1>3, <3>2
      <4>. QED BY <1>2, <1>4, <3>2, <4>1 DEF Followed
    <3>. QED BY <3>1, <3>2
  <2>2. /\ notified'[f] = notified[f] /\ pending'[f] = pending[f]
        /\ atStart'[f] = atStart[f] /\ oldAtStart'[f] = oldAtStart[f]
        /\ toSeed' = toSeed /\ ~old'[f]
    BY <1>1, <1>2 DEF WatchTypes
  <2>3. /\ Len(steps'[f]) <= MaxLen
        /\ atStart'[f] <= Len(steps'[f]) /\ notified'[f] <= Len(steps'[f])
        /\ pending'[f] <= Len(steps'[f]) /\ pending'[f] # Len(steps'[f])
    BY <1>1, <1>2, <1>3, <1>4, <2>2 DEF Followed
  <2>4. f \notin toSeed' /\ ~oldAtStart'[f] => atStart'[f] <= notified'[f]
    BY <1>2, <2>2 DEF Followed
  <2>. QED BY <2>1, <2>2, <2>3, <2>4 DEF Followed
<1>7. ASSUME NEW g \in Convs, g # f PROVE Followed(g)'
  <2>1. Followed(g)
    BY DEF WatchInv
  <2>2. /\ steps'[g] = steps[g] /\ old'[g] = old[g] /\ settled'[g] = settled[g]
    BY <1>0, <1>1, <1>2, <1>7 DEF WatchTypes
  <2>. QED BY <1>1, <2>1, <2>2, FollowedStays
<1>8. Announced'
  <2>1. \A g \in Convs : notified[g] <= notified'[g]
    BY <1>1, <1>2, Known
  <2>. QED BY <1>1, <1>2, <1>5, <2>1, AnnouncedStays
<1>. QED BY <1>5, <1>6, <1>7, <1>8 DEF WatchInv

LEMMA FinishKeeps ==
  ASSUME WatchInv, NEW f \in Convs, FinishStep(f)
  PROVE  WatchInv'
<1> DEFINE n == Len(steps[f])
<1>0. PICK k \in {"work", "question", "reply"} :
        steps' = [steps EXCEPT ![f] = [steps[f] EXCEPT ![n] = k]]
  BY DEF FinishStep
<1>1. /\ Last(f) = "running"
      /\ dirty' = [dirty EXCEPT ![f] = TRUE]
      /\ old' = [old EXCEPT ![f] = FALSE]
      /\ settled' = [settled EXCEPT ![f] = 0]
      /\ UNCHANGED <<tracked, notified, pending, waited, reading, toSeed>>
      /\ UNCHANGED <<atStart, oldAtStart, fired>>
  BY DEF FinishStep, Written, watchVars
<1>2. WatchTypes /\ Followed(f) /\ Announced
  BY DEF WatchInv
<1>3. /\ steps[f] \in Seq(StepKinds) /\ n \in Nat
      /\ Settle \in Nat
      /\ notified[f] \in Nat /\ pending[f] \in Nat /\ atStart[f] \in Nat
  BY <1>2, Known
<1>4. steps[f] # <<>> /\ steps[f][n] = "running" /\ n \in 1..n /\ n # 1
  <2>1. steps[f] # <<>> /\ steps[f][n] = "running"
    BY <1>1 DEF Last
  <2>. QED BY <1>2, <1>3, <2>1 DEF Followed
<1>5. /\ steps'[f] \in Seq(StepKinds)
      /\ Len(steps'[f]) = n
      /\ \A i \in 1..n : i # n => steps'[f][i] = steps[f][i]
  <2>1. k \in StepKinds
    BY DEF StepKinds
  <2>2. steps'[f] = [steps[f] EXCEPT ![n] = k]
    BY <1>0, <1>2 DEF WatchTypes
  <2>. QED BY <1>3, <1>4, <2>1, <2>2, ExceptSeq
<1>6. WatchTypes'
  <2>1. steps' \in [Convs -> Seq(StepKinds)]
    <3>1. DOMAIN steps' = Convs /\ steps' = [g \in Convs |-> steps'[g]]
      BY <1>0, <1>2 DEF WatchTypes
    <3>2. \A g \in Convs : g # f => steps'[g] = steps[g]
      BY <1>0, <1>2 DEF WatchTypes
    <3>3. \A g \in Convs : steps'[g] \in Seq(StepKinds)
      BY <1>2, <1>5, <3>2 DEF WatchTypes
    <3>. QED BY <3>1, <3>3
  <2>2. settled' \in [Convs -> 0..Settle]
    BY <1>1, <1>2, <1>3 DEF WatchTypes
  <2>3. dirty' \in [Convs -> BOOLEAN] /\ old' \in [Convs -> BOOLEAN]
    BY <1>1, <1>2 DEF WatchTypes
  <2>. QED BY <1>1, <1>2, <2>1, <2>2, <2>3 DEF WatchTypes
<1>7. Followed(f)'
  <2>1. 1 \in 1..n /\ steps'[f][1] = "user"
    BY <1>2, <1>3, <1>4, <1>5 DEF Followed
  <2>2. /\ notified'[f] = notified[f] /\ pending'[f] = pending[f]
        /\ atStart'[f] = atStart[f] /\ oldAtStart'[f] = oldAtStart[f]
        /\ toSeed' = toSeed /\ ~old'[f]
    BY <1>1, <1>2 DEF WatchTypes
  <2>3. pending[f] # n \/ pending[f] = 0
    BY <1>2, <1>4 DEF Followed
  <2>. QED BY <1>2, <1>5, <2>1, <2>2, <2>3 DEF Followed
<1>8. ASSUME NEW g \in Convs, g # f PROVE Followed(g)'
  <2>1. Followed(g)
    BY DEF WatchInv
  <2>2. /\ steps'[g] = steps[g] /\ old'[g] = old[g] /\ settled'[g] = settled[g]
    BY <1>0, <1>1, <1>2, <1>8 DEF WatchTypes
  <2>. QED BY <1>1, <2>1, <2>2, FollowedStays
<1>9. Announced'
  <2>1. \A g \in Convs : notified[g] <= notified'[g]
    BY <1>1, <1>2, Known
  <2>. QED BY <1>1, <1>2, <1>6, <2>1, AnnouncedStays
<1>. QED BY <1>6, <1>7, <1>8, <1>9 DEF WatchInv

(* The watcher looks.                                                      *)
LEMMA LookKeeps ==
  ASSUME WatchInv, NEW f \in Convs, LookAt(f)
  PROVE  WatchInv'
<1>1. /\ tracked' = tracked \cup {f}
      /\ dirty' = [dirty EXCEPT ![f] = FALSE]
      /\ reading' = f
      /\ UNCHANGED <<steps, old, notified, pending, waited, toSeed>>
      /\ UNCHANGED <<settled, atStart, oldAtStart, fired>>
  BY DEF LookAt
<1>2. WatchTypes /\ Announced
  BY DEF WatchInv
<1>3. WatchTypes'
  BY <1>1, <1>2 DEF WatchTypes
<1>4. \A g \in Convs : Followed(g)'
  BY <1>1, FollowedStays DEF WatchInv
<1>5. \A g \in Convs : notified[g] <= notified'[g]
  BY <1>1, <1>2, Known
<1>. QED BY <1>1, <1>2, <1>3, <1>4, <1>5, AnnouncedStays DEF WatchInv

LEMMA PassOverKeeps ==
  ASSUME WatchInv, NEW f \in Convs, PassOver(f)
  PROVE  WatchInv'
<1>1. /\ old[f] /\ toSeed' = toSeed \ {f}
      /\ UNCHANGED <<steps, dirty, old, tracked, notified, pending, waited, reading>>
      /\ UNCHANGED <<settled, atStart, oldAtStart, fired>>
  BY DEF PassOver, Watched, fileVars
<1>2. WatchTypes /\ Announced /\ Followed(f)
  BY DEF WatchInv
<1>3. WatchTypes'
  BY <1>1, <1>2 DEF WatchTypes
<1>4. Followed(f)'
  BY <1>1, <1>2 DEF Followed
<1>5. ASSUME NEW g \in Convs, g # f PROVE Followed(g)'
  <2>1. Followed(g) /\ (g \notin toSeed' => g \notin toSeed)
    BY <1>1, <1>5 DEF WatchInv
  <2>. QED BY <1>1, <2>1, FollowedStays
<1>6. \A g \in Convs : notified[g] <= notified'[g]
  BY <1>1, <1>2, Known
<1>. QED BY <1>1, <1>2, <1>3, <1>4, <1>5, <1>6, AnnouncedStays DEF WatchInv

(* The first time a transcript is read, its length is taken; one without a *)
(* prompt is empty.                                                        *)
LEMMA SeedKeeps ==
  ASSUME WatchInv, NEW f \in Convs, SeedTranscript(f)
  PROVE  WatchInv'
<1> DEFINE n == Len(steps[f])
<1>1. /\ pending' = [pending EXCEPT ![f] = 0]
      /\ toSeed' = toSeed \ {f} /\ reading' = NoConv
      /\ UNCHANGED <<steps, dirty, old, tracked, waited>>
      /\ UNCHANGED <<settled, atStart, oldAtStart, fired>>
  BY DEF SeedTranscript, fileVars
<1>2. WatchTypes /\ Announced /\ Followed(f)
  BY DEF WatchInv
<1>3. /\ steps[f] \in Seq(StepKinds) /\ n \in Nat /\ DOMAIN steps[f] = 1..n
      /\ notified[f] \in Nat /\ MaxLen \in Nat /\ atStart[f] \in Nat
  BY <1>2, Known
<1>4. notified' = [notified EXCEPT ![f] = n]
  <2>1. CASE "user" \in {steps[f][i] : i \in DOMAIN steps[f]}
    BY <2>1 DEF SeedTranscript
  <2>2. CASE "user" \notin {steps[f][i] : i \in DOMAIN steps[f]}
    <3>1. notified' = notified
      BY <2>2 DEF SeedTranscript
    <3>2. steps[f] = <<>>
      <4>1. SUFFICES ASSUME steps[f] # <<>> PROVE FALSE
        OBVIOUS
      <4>2. 1 \in DOMAIN steps[f] /\ steps[f][1] = "user"
        BY <1>2, <1>3, <4>1 DEF Followed
      <4>. QED BY <2>2, <4>2
    <3>3. n = 0 /\ notified[f] = 0
      BY <1>2, <1>3, <3>2 DEF Followed
    <3>. QED BY <1>2, <3>1, <3>3 DEF WatchTypes
  <2>. QED BY <2>1, <2>2
<1>5. /\ notified'[f] = n /\ pending'[f] = 0
      /\ \A g \in Convs : g # f => notified'[g] = notified[g] /\ pending'[g] = pending[g]
  BY <1>1, <1>2, <1>4 DEF WatchTypes
<1>6. n \in 0..MaxLen /\ notified[f] <= n /\ atStart[f] <= n
  BY <1>2, <1>3 DEF Followed
<1>7. WatchTypes'
  BY <1>1, <1>2, <1>3, <1>4, <1>6 DEF WatchTypes
<1>8. Followed(f)'
  BY <1>1, <1>2, <1>3, <1>5, <1>6 DEF Followed
<1>9. ASSUME NEW g \in Convs, g # f PROVE Followed(g)'
  <2>1. Followed(g) /\ (g \notin toSeed' => g \notin toSeed)
    BY <1>1, <1>9 DEF WatchInv
  <2>. QED BY <1>1, <1>5, <1>9, <2>1, FollowedStays
<1>10. \A g \in Convs : notified[g] <= notified'[g]
  <2>1. \A g \in Convs : notified[g] \in Nat
    BY <1>2, Known
  <2>. QED BY <1>5, <1>6, <2>1
<1>. QED BY <1>1, <1>2, <1>7, <1>8, <1>9, <1>10, AnnouncedStays DEF WatchInv

(* The transcript is read.                                                 *)
LEMMA QuietKeeps ==
  ASSUME WatchInv, NEW f \in Convs, f \notin toSeed, Quiet(f), reading' = NoConv,
         UNCHANGED <<fileVars, tracked, toSeed, settled, atStart, oldAtStart>>
  PROVE  WatchInv'
<1>1. /\ pending' = [pending EXCEPT ![f] = 0]
      /\ UNCHANGED <<steps, dirty, old, tracked, notified, waited, toSeed>>
      /\ UNCHANGED <<settled, atStart, oldAtStart, fired>>
  BY DEF Quiet, fileVars
<1>2. WatchTypes /\ Announced /\ Followed(f)
  BY DEF WatchInv
<1>3. pending'[f] = 0 /\ \A g \in Convs : g # f => pending'[g] = pending[g]
  BY <1>1, <1>2 DEF WatchTypes
<1>4. WatchTypes'
  <2>1. 0 \in 0..MaxLen
    BY <1>2, Known
  <2>. QED BY <1>1, <1>2, <2>1 DEF WatchTypes
<1>5. Len(steps[f]) \in Nat
  BY <1>2, Known
<1>6. Followed(f)'
  BY <1>1, <1>2, <1>3, <1>5 DEF Followed
<1>7. \A g \in Convs : g # f => Followed(g)'
  BY <1>1, <1>3, FollowedStays DEF WatchInv
<1>8. \A g \in Convs : notified[g] <= notified'[g]
  BY <1>1, <1>2, Known
<1>. QED BY <1>1, <1>2, <1>4, <1>6, <1>7, <1>8, AnnouncedStays DEF WatchInv

LEMMA HoldBackKeeps ==
  ASSUME WatchInv, NEW f \in Convs, f \notin toSeed, Last(f) = "reply", HoldBack(f),
         reading' = NoConv,
         UNCHANGED <<fileVars, tracked, toSeed, settled, atStart, oldAtStart>>
  PROVE  WatchInv'
<1> DEFINE n == Len(steps[f])
<1>1. /\ pending' = [pending EXCEPT ![f] = n]
      /\ waited' = [waited EXCEPT ![f] = IF pending[f] = n THEN waited[f] ELSE 0]
      /\ UNCHANGED <<steps, dirty, old, tracked, notified, toSeed>>
      /\ UNCHANGED <<settled, atStart, oldAtStart, fired>>
  BY DEF HoldBack, fileVars
<1>2. WatchTypes /\ Announced /\ Followed(f)
  BY DEF WatchInv
<1>3. /\ n \in Nat /\ pending[f] \in Nat /\ waited[f] \in Nat /\ settled[f] \in Nat
      /\ MaxLen \in Nat /\ Settle \in Nat /\ waited[f] \in 0..Settle
  BY <1>2, Known
<1>4. /\ pending'[f] = n /\ waited'[f] \in {waited[f], 0}
      /\ pending[f] # n => waited'[f] = 0
      /\ pending[f] = n => waited'[f] = waited[f]
      /\ \A g \in Convs : g # f => pending'[g] = pending[g] /\ waited'[g] = waited[g]
  BY <1>1, <1>2 DEF WatchTypes
<1>5. WatchTypes'
  <2>1. n \in 0..MaxLen
    BY <1>2, <1>3 DEF Followed
  <2>2. waited' \in [Convs -> 0..Settle]
    <3>1. 0 \in 0..Settle
      BY <1>3
    <3>. QED BY <1>1, <1>2, <1>3, <3>1 DEF WatchTypes
  <2>. QED BY <1>1, <1>2, <2>1, <2>2 DEF WatchTypes
<1>6. n # 0 => steps[f][n] = "reply"
  <2>1. n # 0 => steps[f] # <<>>
    OBVIOUS
  <2>. QED BY <2>1 DEF Last
<1>7. n # 0 => waited'[f] <= settled[f]
  BY <1>2, <1>3, <1>4 DEF Followed
<1>8. Followed(f)'
  BY <1>1, <1>2, <1>3, <1>4, <1>6, <1>7 DEF Followed
<1>9. \A g \in Convs : g # f => Followed(g)'
  BY <1>1, <1>4, FollowedStays DEF WatchInv
<1>10. \A g \in Convs : notified[g] <= notified'[g]
  BY <1>1, <1>2, Known
<1>. QED BY <1>1, <1>2, <1>5, <1>8, <1>9, <1>10, AnnouncedStays DEF WatchInv

LEMMA FireKeeps ==
  ASSUME WatchInv, NEW f \in Convs, f \notin toSeed, NEW kind \in Kinds,
         Len(steps[f]) > notified[f], Fire(f, kind), reading' = NoConv,
         UNCHANGED <<fileVars, tracked, toSeed, settled, atStart, oldAtStart>>
  PROVE  /\ WatchInv'
         /\ [conv |-> f, step |-> Len(steps[f]), kind |-> kind] \in Event
<1> DEFINE n == Len(steps[f])
<1> DEFINE ev == [conv |-> f, step |-> n, kind |-> kind]
<1>1. /\ notified' = [notified EXCEPT ![f] = n]
      /\ pending' = [pending EXCEPT ![f] = 0]
      /\ fired' = Append(fired, ev)
      /\ UNCHANGED <<steps, dirty, old, tracked, waited, toSeed>>
      /\ UNCHANGED <<settled, atStart, oldAtStart>>
  BY DEF Fire, fileVars
<1>2. WatchTypes /\ Announced /\ Followed(f)
  BY DEF WatchInv
<1>3. /\ n \in Nat /\ notified[f] \in Nat /\ MaxLen \in Nat /\ Steps = 1..MaxLen
      /\ atStart[f] \in Nat
  BY <1>2, Known
<1>4. n \in 1..MaxLen /\ n \in 0..MaxLen
  BY <1>2, <1>3 DEF Followed
<1>5. ev \in Event /\ ev.conv = f /\ ev.step = n
  BY <1>3, <1>4 DEF Event
<1> HIDE DEF ev
<1>6. /\ notified'[f] = n /\ pending'[f] = 0
      /\ \A g \in Convs : g # f => notified'[g] = notified[g] /\ pending'[g] = pending[g]
  BY <1>1, <1>2 DEF WatchTypes
<1>7. /\ fired \in Seq(Event) /\ Len(fired) \in Nat /\ DOMAIN fired = 1..Len(fired)
      /\ fired' \in Seq(Event) /\ DOMAIN fired' = 1..(Len(fired) + 1)
      /\ \A i \in 1..Len(fired) : fired'[i] = fired[i]
      /\ fired'[Len(fired) + 1] = ev
  BY <1>1, <1>2, <1>5, AppendProperties DEF WatchTypes
<1>8. WatchTypes'
  <2>1. 0 \in 0..MaxLen
    BY <1>2, Known
  <2>. QED BY <1>1, <1>2, <1>4, <1>7, <2>1 DEF WatchTypes
<1>9. Followed(f)'
  BY <1>1, <1>2, <1>3, <1>6 DEF Followed
<1>10. \A g \in Convs : g # f => Followed(g)'
  BY <1>1, <1>6, FollowedStays DEF WatchInv
<1>11. \A i \in DOMAIN fired' : i \in 1..Len(fired) \/ i = Len(fired) + 1
  BY <1>7
<1>12. ASSUME NEW i \in 1..Len(fired)
       PROVE  /\ fired[i].conv \in Convs
              /\ fired[i].step \in 1..notified'[fired[i].conv]
              /\ fired[i].conv = f => fired[i].step < n
              /\ oldAtStart[fired[i].conv] \/ fired[i].step > atStart[fired[i].conv]
  <2>1. i \in DOMAIN fired /\ fired[i].conv \in Convs
    BY <1>2, <1>7, Known
  <2>2. fired[i].step \in 1..notified[fired[i].conv]
    BY <1>2, <2>1 DEF Announced, Told
  <2>3. notified[fired[i].conv] \in Nat
    BY <1>2, <2>1, Known
  <2>4. fired[i].step \in 1..notified'[fired[i].conv]
    <3>1. CASE fired[i].conv = f
      BY <1>3, <1>6, <2>2, <2>3, <3>1
    <3>2. CASE fired[i].conv # f
      BY <1>6, <2>1, <2>2, <3>2
    <3>. QED BY <3>1, <3>2
  <2>5. fired[i].conv = f => fired[i].step < n
    BY <1>3, <2>2
  <2>6. oldAtStart[fired[i].conv] \/ fired[i].step > atStart[fired[i].conv]
    BY <1>2, <2>1 DEF Announced, HistoryIsQuiet
  <2>. QED BY <2>1, <2>4, <2>5, <2>6
<1>13. Told'
  <2>1. fired'[Len(fired) + 1].step \in 1..notified'[fired'[Len(fired) + 1].conv]
    BY <1>4, <1>5, <1>6, <1>7
  <2>. QED BY <1>7, <1>11, <1>12, <2>1 DEF Told
<1>14. NoStepTwice'
  <2>1. ASSUME NEW i \in 1..Len(fired), NEW j \in 1..Len(fired), i # j,
               fired[i].conv = fired[j].conv
        PROVE  fired[i].step # fired[j].step
    BY <1>2, <1>7, <2>1 DEF Announced, NoStepTwice
  <2>2. \A i \in 1..Len(fired) : fired[i].conv = f => fired[i].step # n
    <3>1. ASSUME NEW i \in 1..Len(fired), fired[i].conv = f
          PROVE  fired[i].step # n
      <4>1. fired[i].step < n
        BY <1>12, <3>1
      <4>2. fired[i].step \in 1..notified'[fired[i].conv]
        BY <1>12
      <4>3. fired[i].step \in Nat
        BY <1>3, <1>6, <3>1, <4>2
      <4>. QED BY <1>3, <4>1, <4>3
    <3>. QED BY <3>1
  <2>. QED BY <1>5, <1>7, <1>11, <2>1, <2>2 DEF NoStepTwice
<1>15. HistoryIsQuiet'
  <2>1. oldAtStart[f] \/ n > atStart[f]
    BY <1>2, <1>3 DEF Followed
  <2>2. ASSUME NEW i \in DOMAIN fired'
        PROVE  oldAtStart[fired'[i].conv] \/ fired'[i].step > atStart[fired'[i].conv]
    <3>1. CASE i \in 1..Len(fired)
      BY <1>7, <1>12, <3>1
    <3>2. CASE i = Len(fired) + 1
      BY <1>5, <1>7, <2>1, <3>2
    <3>. QED BY <1>11, <3>1, <3>2
  <2>. QED BY <1>1, <2>2 DEF HistoryIsQuiet
<1>. QED
  BY <1>5, <1>8, <1>9, <1>10, <1>13, <1>14, <1>15 DEF WatchInv, Announced, ev

LEMMA ReadKeeps ==
  ASSUME NotifyInv, NEW f \in Convs, ReadTranscript(f)
  PROVE  NotifyInv'
<1> DEFINE n == Len(steps[f])
<1>1. /\ f \notin toSeed /\ reading' = NoConv
      /\ UNCHANGED <<fileVars, tracked, toSeed, settled, atStart, oldAtStart>>
  BY DEF ReadTranscript
<1>2. EvInv /\ WatchInv /\ n \in Nat /\ notified[f] \in Nat
  BY Known DEF NotifyInv, WatchInv
<1>3. CASE Quiet(f)
  <2>1. UNCHANGED evVars
    BY <1>3 DEF Quiet
  <2>. QED BY <1>1, <1>2, <1>3, <2>1, QuietKeeps, EventsStay DEF NotifyInv
<1>4. CASE Last(f) = "reply" /\ HoldBack(f)
  <2>1. UNCHANGED evVars
    BY <1>4 DEF HoldBack
  <2>. QED BY <1>1, <1>2, <1>4, <2>1, HoldBackKeeps, EventsStay DEF NotifyInv
<1>5. ASSUME NEW kind \in {"agent_question", "prompt_answered"}, n > notified[f],
             Fire(f, kind)
      PROVE  NotifyInv'
  <2>1. kind \in Kinds
    BY WatchAssumption
  <2>2. WatchInv' /\ [conv |-> f, step |-> n, kind |-> kind] \in Event
    BY <1>1, <1>2, <1>5, <2>1, FireKeeps
  <2>3. Record(Scanner, [conv |-> f, step |-> n, kind |-> kind]) /\ Scanner \in Senders
    BY <1>5, WatchAssumption DEF Fire
  <2>. QED BY <1>2, <2>2, <2>3, RecordKeeps DEF NotifyInv
<1>6. \/ Quiet(f)
      \/ Last(f) = "reply" /\ HoldBack(f)
      \/ n > notified[f] /\ Fire(f, "agent_question")
      \/ n > notified[f] /\ Fire(f, "prompt_answered")
  BY <1>2 DEF ReadTranscript
<1>. QED BY <1>3, <1>4, <1>5, <1>6

(* Time passes.                                                            *)
LEMMA TickKeeps ==
  ASSUME WatchInv, Tick
  PROVE  WatchInv'
<1>1. /\ waited' = [f \in Convs |-> IF waited[f] < Settle /\ pending[f] # 0
                                    THEN waited[f] + 1 ELSE waited[f]]
      /\ settled' = [f \in Convs |-> IF settled[f] < Settle
                                     THEN settled[f] + 1 ELSE settled[f]]
      /\ UNCHANGED <<steps, dirty, old, tracked, notified, pending, reading, toSeed>>
      /\ UNCHANGED <<atStart, oldAtStart, fired>>
  BY DEF Tick, fileVars
<1>2. WatchTypes /\ Announced
  BY DEF WatchInv
<1>3. ASSUME NEW f \in Convs
      PROVE  /\ waited'[f] \in 0..Settle /\ settled'[f] \in 0..Settle
             /\ waited[f] <= settled[f] => waited'[f] <= settled'[f]
  BY <1>1, <1>2, Known
<1>4. WatchTypes'
  <2>1. waited' \in [Convs -> 0..Settle] /\ settled' \in [Convs -> 0..Settle]
    BY <1>1, <1>3
  <2>. QED BY <1>1, <1>2, <2>1 DEF WatchTypes
<1>5. ASSUME NEW f \in Convs PROVE Followed(f)'
  <2>1. Followed(f)
    BY DEF WatchInv
  <2>. QED BY <1>1, <1>3, <2>1 DEF Followed
<1>6. \A g \in Convs : notified[g] <= notified'[g]
  BY <1>1, <1>2, Known
<1>. QED BY <1>1, <1>2, <1>4, <1>5, <1>6, AnnouncedStays DEF WatchInv

LEMMA RestartKeeps ==
  ASSUME WatchInv, Restart
  PROVE  WatchInv'
<1>1. /\ dirty' = [f \in Convs |-> TRUE]
      /\ tracked' = {} /\ reading' = NoConv /\ toSeed' = Convs
      /\ notified' = [f \in Convs |-> 0]
      /\ pending' = [f \in Convs |-> 0] /\ waited' = [f \in Convs |-> 0]
      /\ atStart' = [f \in Convs |-> Len(steps[f])] /\ oldAtStart' = old
      /\ fired' = <<>>
      /\ UNCHANGED <<steps, old, settled>>
  BY DEF Restart
<1>2. WatchTypes
  BY DEF WatchInv
<1>3. 0 \in 0..MaxLen /\ 0 \in 0..Settle /\ \A f \in Convs : Len(steps[f]) \in Nat
  BY <1>2, Known
<1>4. WatchTypes'
  BY <1>1, <1>2, <1>3 DEF WatchTypes
<1>5. ASSUME NEW f \in Convs PROVE Followed(f)'
  <2>1. Followed(f) /\ Len(steps[f]) \in Nat
    BY <1>3 DEF WatchInv
  <2>2. /\ steps'[f] = steps[f] /\ atStart'[f] = Len(steps[f])
        /\ notified'[f] = 0 /\ pending'[f] = 0
        /\ old'[f] = old[f] /\ oldAtStart'[f] = old[f] /\ f \in toSeed'
    BY <1>1
  <2>. QED BY <2>1, <2>2 DEF Followed
<1>6. Announced'
  <2>1. DOMAIN fired' = {}
    BY <1>1
  <2>. QED BY <2>1 DEF Announced, Told, NoStepTwice, HistoryIsQuiet
<1>. QED BY <1>4, <1>5, <1>6 DEF WatchInv

LEMMA WatchNext == NotifyInv /\ [Next]_vars => NotifyInv'
<1> SUFFICES ASSUME NotifyInv, [Next]_vars PROVE NotifyInv'
  OBVIOUS
<1>0. EvInv /\ WatchInv
  BY DEF NotifyInv
<1>1. ASSUME NEW f \in Convs, AppendStep(f) PROVE NotifyInv'
  <2>1. UNCHANGED evVars
    BY <1>1 DEF AppendStep, Written
  <2>. QED BY <1>0, <1>1, <2>1, AppendKeeps, EventsStay DEF NotifyInv
<1>2. ASSUME NEW f \in Convs, FinishStep(f) PROVE NotifyInv'
  <2>1. UNCHANGED evVars
    BY <1>2 DEF FinishStep, Written
  <2>. QED BY <1>0, <1>2, <2>1, FinishKeeps, EventsStay DEF NotifyInv
<1>3. ASSUME NEW f \in Convs, LookAt(f) PROVE NotifyInv'
  <2>1. UNCHANGED evVars
    BY <1>3 DEF LookAt
  <2>. QED BY <1>0, <1>3, <2>1, LookKeeps, EventsStay DEF NotifyInv
<1>4. ASSUME NEW f \in Convs, PassOver(f) PROVE NotifyInv'
  <2>1. UNCHANGED evVars
    BY <1>4 DEF PassOver
  <2>. QED BY <1>0, <1>4, <2>1, PassOverKeeps, EventsStay DEF NotifyInv
<1>5. ASSUME NEW f \in Convs, SeedTranscript(f) PROVE NotifyInv'
  <2>1. UNCHANGED evVars
    BY <1>5 DEF SeedTranscript
  <2>. QED BY <1>0, <1>5, <2>1, SeedKeeps, EventsStay DEF NotifyInv
<1>6. ASSUME NEW w \in Senders, PushEvent(w) PROVE NotifyInv'
  BY <1>0, <1>6, PushKeeps, WatchStays DEF PushEvent, NotifyInv
<1>7. ASSUME NEW w \in Senders, TestEvent(w) PROVE NotifyInv'
  <2>1. PICK f \in Convs :
          Record(w, [conv |-> f, step |-> NoStep, kind |-> "prompt_answered"])
    BY <1>7 DEF TestEvent
  <2>2. "prompt_answered" \in Kinds
    BY WatchAssumption
  <2>3. [conv |-> f, step |-> NoStep, kind |-> "prompt_answered"] \in Event
    BY <2>2 DEF Event
  <2>4. EvInv'
    BY <1>0, <2>1, <2>3, RecordKeeps
  <2>. QED BY <1>0, <1>7, <2>4, WatchStays DEF TestEvent, NotifyInv
<1>8. ASSUME NEW p \in Pollers, PollEvents(p) PROVE NotifyInv'
  BY <1>0, <1>8, PollKeeps, WatchStays DEF PollEvents, NotifyInv
<1>9. CASE Restart
  <2>1. ResetEvents
    BY <1>9 DEF Restart
  <2>. QED BY <1>0, <1>9, <2>1, RestartKeeps, ResetKeeps DEF NotifyInv
<1>10. CASE Tick
  <2>1. UNCHANGED evVars
    BY <1>10 DEF Tick
  <2>. QED BY <1>0, <1>10, <2>1, TickKeeps, EventsStay DEF NotifyInv
<1>11. CASE UNCHANGED vars
  BY <1>0, <1>11, EventsStay, WatchStays DEF vars, NotifyInv
<1>. QED
  BY <1>1, <1>2, <1>3, <1>4, <1>5, <1>6, <1>7, <1>8, <1>9, <1>10, <1>11,
     ReadKeeps DEF Next, Watch, Read

LEMMA WatchInvariance == Spec => []NotifyInv
<1>1. Init => NotifyInv
  BY WatchStart, EventsStart DEF Init, NotifyInv
<1>. QED BY <1>1, WatchNext, PTL DEF Spec

(* Whatever threads record and push beside each other, no step is          *)
(* announced twice, the ring holds the latest events without a gap, and    *)
(* each is pushed once or about to be (AnnouncedOnce,                      *)
(* broadcastAgentSessionEvent and scanTranscriptsForNotifications).        *)
THEOREM AnnouncedSafe == Spec => []AnnouncedOnce
<1>1. Numbered /\ EvTypeOK => PushedOnce
  <2> SUFFICES ASSUME Numbered, EvTypeOK, NEW n \in 1..nextSeq
               PROVE  \/ \E i \in DOMAIN pushed :
                           pushed[i] = n /\ \A j \in DOMAIN pushed : pushed[j] = n => j = i
                      \/ \E s \in Senders :
                           pushing[s] = n /\ \A j \in DOMAIN pushed : pushed[j] # n
    BY DEF PushedOnce
  <2>1. CASE \E i \in DOMAIN pushed : pushed[i] = n
    BY <2>1 DEF Numbered
  <2>2. ASSUME NEW s \in Senders, pushing[s] = n
        PROVE  \A j \in DOMAIN pushed : pushed[j] # n
    <3>1. pushing[s] # 0
      BY <2>2 DEF EvTypeOK
    <3>. QED BY <2>2, <3>1 DEF Numbered
  <2>. QED BY <2>1, <2>2 DEF Numbered
<1>2. NotifyInv => AnnouncedOnce
  BY <1>1, TypeParts DEF NotifyInv, EvInv, WatchInv, Announced, AnnouncedOnce
<1>. QED BY <1>2, WatchInvariance, PTL

(* Steps that were there when the daemon started are not announced, unless *)
(* the file was too old to be looked at then (start() and the first        *)
(* reading).                                                               *)
THEOREM HistorySafe == Spec => []HistoryIsQuiet
<1>1. NotifyInv => HistoryIsQuiet
  BY DEF NotifyInv, WatchInv, Announced
<1>. QED BY <1>1, WatchInvariance, PTL

(* A reply is announced only when its transcript was left alone for Settle *)
(* and it still is the last step, whenever the file was looked at and read *)
(* (the settling in scanTranscriptsForNotifications).                      *)
THEOREM SettledSafe == Spec => OnlySettledReplies
<1> DEFINE A == Len(fired') > Len(fired) /\ fired'[Len(fired')].kind = "prompt_answered" =>
       LET f == fired'[Len(fired')].conv IN
       settled[f] = Settle /\ fired'[Len(fired')].step = Len(steps[f])
<1>1. NotifyInv /\ [Next]_vars => A
  <2> SUFFICES ASSUME NotifyInv, [Next]_vars, Len(fired') > Len(fired),
                      fired'[Len(fired')].kind = "prompt_answered"
               PROVE  LET f == fired'[Len(fired')].conv IN
                      settled[f] = Settle /\ fired'[Len(fired')].step = Len(steps[f])
    OBVIOUS
  <2>0. WatchTypes /\ fired \in Seq(Event) /\ Len(fired) \in Nat
    BY DEF NotifyInv, WatchInv, WatchTypes
  <2>1. fired' # fired /\ fired' # <<>>
    BY <2>0
  <2>2. PICK f \in Convs : ReadTranscript(f)
    BY <2>1 DEF Next, vars, AppendStep, FinishStep, Written, Watch, LookAt, PassOver,
       Read, SeedTranscript, PushEvent, TestEvent, PollEvents, Restart, Tick
  <2>3. PICK kind : /\ Fire(f, kind)
                    /\ kind = "agent_question" \/ Last(f) = "reply"
                    /\ kind = "agent_question" \/ Settle = 0
                         \/ (pending[f] = Len(steps[f]) /\ waited[f] = Settle)
    BY <2>1, <2>2 DEF ReadTranscript, Quiet, HoldBack
  <2> DEFINE ev == [conv |-> f, step |-> Len(steps[f]), kind |-> kind]
  <2>4. fired' = Append(fired, ev)
    BY <2>3 DEF Fire
  <2>5. ev.conv = f /\ ev.step = Len(steps[f]) /\ ev.kind = kind
    OBVIOUS
  <2> HIDE DEF ev
  <2>6. fired'[Len(fired')] = ev
    BY <2>0, <2>4
  <2>7. kind # "agent_question"
    BY <2>5, <2>6
  <2>8. Followed(f) /\ Len(steps[f]) \in Nat /\ settled[f] \in 0..Settle
        /\ Settle \in Nat /\ waited[f] \in Nat
    BY <2>0, Known DEF NotifyInv, WatchInv
  <2>9. settled[f] = Settle
    <3>1. CASE Settle = 0
      BY <2>8, <3>1
    <3>2. CASE pending[f] = Len(steps[f]) /\ waited[f] = Settle
      <4>1. Len(steps[f]) # 0
        BY <2>3, <2>7, <2>8 DEF Last
      <4>. QED BY <2>8, <3>2, <4>1 DEF Followed
    <3>. QED BY <2>3, <2>7, <3>1, <3>2
  <2>. QED BY <2>5, <2>6, <2>9
<1>. QED BY <1>1, WatchInvariance, PTL DEF Spec, OnlySettledReplies

(* A telephone that comes back in time is sent exactly the events that it  *)
(* has not seen, in order (getRecentAgentEventsSince).                     *)
THEOREM PollsSafe == Spec => PollIsComplete
<1> DEFINE A == \A p \in Pollers :
        /\ since'[p] # since[p] \/ news'[p] # news[p]
        /\ fresh[p]
        /\ nextSeq - since[p] <= RingSize
        => /\ since'[p] = nextSeq
           /\ Len(news'[p]) = nextSeq - since[p]
           /\ \A i \in DOMAIN news'[p] : news'[p][i].seq = since[p] + i
<1>1. NotifyInv /\ [Next]_vars => A
  <2> SUFFICES ASSUME NotifyInv, [Next]_vars, NEW p \in Pollers,
                      since'[p] # since[p] \/ news'[p] # news[p],
                      fresh[p], nextSeq - since[p] <= RingSize
               PROVE  /\ since'[p] = nextSeq
                      /\ Len(news'[p]) = nextSeq - since[p]
                      /\ \A i \in DOMAIN news'[p] : news'[p][i].seq = since[p] + i
    OBVIOUS
  <2>0. /\ EvInv /\ since \in [Pollers -> 0..MaxSeq] /\ news \in [Pollers -> Seq(Entry)]
        /\ nextSeq \in Nat /\ since[p] \in 0..MaxSeq /\ since[p] \in Nat
    BY EventsAssumption DEF NotifyInv, EvInv, EvTypeOK
  <2>1. PICK q \in Pollers : Poll(q)
    BY DEF Next, vars, evVars, AppendStep, FinishStep, Written, Watch, LookAt,
       PassOver, Read, SeedTranscript, ReadTranscript, Quiet, Fire, HoldBack,
       PushEvent, TestEvent, PollEvents, Record, Push, Restart, ResetEvents, Tick
  <2> DEFINE new == Newer(since[p])
  <2>2. p = q
    BY <2>0, <2>1 DEF Poll
  <2>3. /\ news'[p] = new
        /\ since'[p] = IF new = <<>> THEN since[p] ELSE new[Len(new)].seq
    BY <2>0, <2>1, <2>2 DEF Poll
  <2>4. since[p] <= nextSeq
    BY DEF NotifyInv, EvInv, Behind
  <2>5. /\ new \in Seq(Entry)
        /\ new # <<>> => new[Len(new)].seq = nextSeq
        /\ Len(new) = nextSeq - since[p]
        /\ \A i \in 1..(nextSeq - since[p]) : new[i].seq = since[p] + i
    BY <2>0, <2>4, NewerThan
  <2> HIDE DEF new
  <2>6. new = <<>> => since[p] = nextSeq
    BY <2>0, <2>5
  <2>7. DOMAIN new = 1..(nextSeq - since[p])
    BY <2>5
  <2>. QED BY <2>3, <2>5, <2>6, <2>7
<1>2. NotifyInv /\ [Next]_vars => [A]_evVars
  BY <1>1
<1>. QED BY <1>2, WatchInvariance, PTL DEF Spec, PollIsComplete

=============================================================================
