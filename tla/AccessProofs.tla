---------------------------- MODULE AccessProofs ----------------------------
(***************************************************************************)
(* What holds of ClientAccess for all keys, calls and faults.              *)
(***************************************************************************)
EXTENDS ClientAccess, TLAPS

LEMMA NewKeyTyping ==
    ASSUME NEW type \in KeyTypes
    PROVE  NewKey(type) \in KeyRow /\ AbsentKey \in KeyRow
BY DEF NewKey, AbsentKey, KeyRow, KeyTypes

LEMMA NoCallTyping == NoCall \in CallRecord
BY NewKeyTyping DEF NoCall, CallRecord, CallPc, Kinds, KeyTypes

LEMMA InitTyping == AccessInit => AccessTypeOK
<1> SUFFICES ASSUME AccessInit PROVE AccessTypeOK
  OBVIOUS
<1>1. NewKey("ADMIN") \in KeyRow /\ AbsentKey \in KeyRow
  BY NewKeyTyping DEF KeyTypes
<1>2. apiKey \in [Keys -> KeyRow]
  BY <1>1 DEF AccessInit
<1>3. NoCall \in CallRecord
  BY NoCallTyping
<1>4. call \in [Calls -> CallRecord]
  BY <1>3 DEF AccessInit
<1>5. /\ audit = {} /\ disclosed = {RootKey} /\ faults = 0
  BY DEF AccessInit
<1> QED
  BY <1>2, <1>4, <1>5, AccessAssumption, FaultAssumption DEF AccessTypeOK

\* What the typing rests on: a call that goes on has a key that somebody was
\* given, a key that was ever used is one of these, and all of these but the
\* first were recorded.
KeyOf(c) ==
    /\ call[c].pc \notin {"idle", "done"} => call[c].key \in disclosed
    /\ call[c].pc = "saveAudit" => call[c].target \in Keys

KeyInv ==
    /\ AccessTypeOK
    /\ \A c \in Calls : KeyOf(c)
    /\ disclosed \subseteq audit \cup {RootKey}
    /\ \A k \in Keys : apiKey[k].used => k \in disclosed

\* The steps of a call keep every table and record in its type.
LEMMA CallTyping ==
    ASSUME KeyInv, NEW c \in Calls, CallStep(c)
    PROVE  AccessTypeOK'
<1> USE DEF AccessTypeOK
<1>k. AccessTypeOK /\ KeyOf(c)
  BY DEF KeyInv
<1>d. call[c] \in CallRecord
  BY <1>k
<1>a. \A pc \in CallPc : Goto(c, pc) => call' \in [Calls -> CallRecord]
  BY <1>k DEF Goto, CallRecord
<1>b. \A response \in {"none", "ok", "refused", "limited", "error", "lost"} :
        Respond(c, response) => call' \in [Calls -> CallRecord]
  <2> SUFFICES ASSUME NEW response \in {"none", "ok", "refused", "limited", "error", "lost"},
                      Respond(c, response)
               PROVE  call' \in [Calls -> CallRecord]
    OBVIOUS
  <2> DEFINE rec == [NoCall EXCEPT !.pc = "done", !.response = response]
  <2>1. rec \in CallRecord
    BY NoCallTyping DEF CallRecord, CallPc
  <2>2. call' = [call EXCEPT ![c] = rec]
    BY <1>k DEF Respond
  <2> HIDE DEF rec
  <2> QED BY <1>k, <2>1, <2>2
<1>c. \A kind : Fault(kind) => faults' \in 0..MaxFaults
  BY <1>k, AccessAssumption, FaultAssumption DEF Fault
<1>e. call[c].key \in Keys => UsedKey(c) \in [Keys -> KeyRow]
  BY <1>k, <1>d DEF UsedKey, KeyRow, CallRecord
<1>f. UsedKey(c) \in [Keys -> KeyRow]
  <2>1. CASE call[c].key \in Keys
    BY <2>1, <1>e
  <2>2. CASE call[c].key \notin Keys
    <3>1. UsedKey(c) = apiKey
      BY <1>k, <2>2 DEF UsedKey
    <3> QED BY <1>k, <3>1
  <2> QED BY <2>1, <2>2
<1>g. \A k \in Keys, type \in KeyTypes :
        CreatedKey(k, type) \in [Keys -> KeyRow]
  BY <1>k, NewKeyTyping DEF CreatedKey
<1>1. ASSUME NEW kind \in Kinds, NEW k \in Keys, ReceiveCall(c, kind, k)
      PROVE  AccessTypeOK'
  BY <1>k, <1>1, <1>d DEF ReceiveCall, CallRecord, CallPc
<1>2. ASSUME FindKey(c) PROVE AccessTypeOK'
  <2>1. CASE Respond(c, "refused")
    BY <1>k, <1>2, <2>1, <1>b DEF FindKey
  <2>2. CASE /\ Accepts(call[c].kind, apiKey[call[c].key])
             /\ call' = [call EXCEPT ![c].pc = "findApp",
                                     ![c].copy = apiKey[call[c].key]]
    <3>1. apiKey[call[c].key] \in KeyRow
      BY <1>k, <1>2 DEF KeyOf, FindKey, At
    <3> QED BY <1>k, <1>2, <2>2, <3>1, <1>d DEF FindKey, CallRecord, CallPc
  <2> QED BY <1>k, <1>2, <2>1, <2>2 DEF FindKey
<1>3. ASSUME FindApp(c) PROVE AccessTypeOK'
  BY <1>k, <1>3, <1>a, <1>b DEF FindApp, CallPc
<1>4. ASSUME SaveUse(c) PROVE AccessTypeOK'
  BY <1>k, <1>4, <1>a, <1>f DEF SaveUse, AfterGuard, CallPc
<1>5. ASSUME SaveUseFails(c) PROVE AccessTypeOK'
  BY <1>k, <1>5, <1>b, <1>c, <1>f DEF SaveUseFails, AfterFailedSave
<1>6. ASSUME RateLimit(c) PROVE AccessTypeOK'
  BY <1>k, <1>6, <1>a, <1>b DEF RateLimit, CallPc
<1>7. ASSUME FindPermission(c) PROVE AccessTypeOK'
  BY <1>k, <1>7, <1>b DEF FindPermission
<1>8. ASSUME FindTarget(c) PROVE AccessTypeOK'
  BY <1>k, <1>8, <1>a, <1>b DEF FindTarget, CallPc
<1>9. ASSUME NEW k \in Keys, NEW type \in KeyTypes,
              SaveKey(c, k, type)
       PROVE  AccessTypeOK'
  BY <1>k, <1>9, <1>d, <1>g DEF SaveKey, CallRecord, CallPc
<1>10. ASSUME NEW k \in Keys, NEW type \in KeyTypes,
              SaveKeyFails(c, k, type)
       PROVE  AccessTypeOK'
  BY <1>k, <1>10, <1>b, <1>c, <1>g DEF SaveKeyFails, AfterFailedSave
<1>11. ASSUME SaveAudit(c) PROVE AccessTypeOK'
  BY <1>k, <1>11, <1>b, <1>d DEF SaveAudit, KeyOf, At
<1>12. ASSUME SaveAuditFails(c) PROVE AccessTypeOK'
  BY <1>k, <1>12, <1>b, <1>c, <1>d DEF SaveAuditFails, AfterFailedSave, KeyOf, At
<1>13. ASSUME ReadFails(c) PROVE AccessTypeOK'
  BY <1>k, <1>13, <1>b, <1>c DEF ReadFails
<1>14. ASSUME CallCrash(c) PROVE AccessTypeOK'
  BY <1>k, <1>14, <1>b, <1>c DEF CallCrash
<1> QED
  BY <1>1, <1>2, <1>3, <1>4, <1>5, <1>6, <1>7, <1>8, <1>9,
     <1>10, <1>11, <1>12, <1>13, <1>14 DEF CallStep

\* A step of one call changes no other call.
LEMMA OtherCalls ==
    ASSUME AccessTypeOK, NEW c \in Calls, CallStep(c), NEW d \in Calls, d # c
    PROVE  call'[d] = call[d]
BY DEF AccessTypeOK, CallStep, ReceiveCall, FindKey, FindApp, SaveUse, SaveUseFails,
   RateLimit, FindPermission, FindTarget, SaveAudit, SaveAuditFails,
   SaveKey, SaveKeyFails, ReadFails, CallCrash, Goto, Respond

\* Keys are only ever added to the recorded and the disclosed ones, together.
LEMMA DisclosedWithRecord ==
    ASSUME KeyInv, NEW c \in Calls, CallStep(c)
    PROVE  /\ disclosed \subseteq disclosed'
           /\ disclosed' \subseteq audit' \cup {RootKey}
<1> USE DEF KeyInv
<1>1. CASE SaveAudit(c)
  BY <1>1 DEF SaveAudit
<1>2. CASE SaveAuditFails(c)
  BY <1>2 DEF SaveAuditFails, AfterFailedSave
<1>3. CASE ~SaveAudit(c) /\ ~SaveAuditFails(c)
  <2>1. UNCHANGED <<audit, disclosed>>
    BY <1>3 DEF CallStep, ReceiveCall, FindKey, FindApp, SaveUse, SaveUseFails,
       RateLimit, FindPermission, FindTarget, SaveKey, SaveKeyFails,
       ReadFails, CallCrash
  <2> QED BY <2>1
<1> QED BY <1>1, <1>2, <1>3

\* A call keeps its key, and writes the record of a key it created.
LEMMA KeyOfStep ==
    ASSUME KeyInv, NEW c \in Calls, CallStep(c)
    PROVE  KeyOf(c)'
<1>1. call[c] \in CallRecord /\ KeyOf(c) /\ disclosed \subseteq disclosed'
  BY DisclosedWithRecord DEF KeyInv, AccessTypeOK
<1>2. CASE \E kind \in Kinds, k \in Keys : ReceiveCall(c, kind, k)
  BY <1>2 DEF ReceiveCall, KeyOf, KeyInv, AccessTypeOK
<1>3. CASE \E k \in Keys, type \in KeyTypes :
             SaveKey(c, k, type)
  BY <1>1, <1>3 DEF SaveKey, KeyOf, KeyInv, AccessTypeOK, At
<1>4. ASSUME NEW response, Respond(c, response)
      PROVE  call'[c].pc = "done"
  BY <1>1, <1>4 DEF Respond, NoCall, KeyInv, AccessTypeOK
<1>5. ASSUME NEW pc, Goto(c, pc)
      PROVE  call'[c].key = call[c].key /\ call'[c].pc = pc
  BY <1>1, <1>5 DEF Goto, KeyInv, AccessTypeOK, CallRecord
<1>6. CASE \/ SaveUseFails(c) \/ FindPermission(c) \/ SaveAudit(c)
           \/ SaveAuditFails(c) \/ ReadFails(c) \/ CallCrash(c)
           \/ \E k \in Keys, type \in KeyTypes :
                 SaveKeyFails(c, k, type)
  <2>1. call[c].pc # "idle" /\ \E response : Respond(c, response)
    BY <1>6 DEF SaveUseFails, FindPermission, SaveAudit, SaveAuditFails,
       ReadFails, CallCrash, SaveKeyFails, At
  <2> QED BY <1>1, <1>4, <2>1 DEF KeyOf
<1>7. CASE FindApp(c) \/ SaveUse(c) \/ RateLimit(c) \/ FindTarget(c)
  <2>1. /\ call[c].pc \notin {"idle", "done"}
        /\ \/ \E response : Respond(c, response)
           \/ \E pc \in CallPc \ {"saveAudit"} : Goto(c, pc)
    BY <1>7 DEF FindApp, SaveUse, RateLimit, FindTarget, At, AfterGuard, CallPc
  <2> QED BY <1>1, <1>4, <1>5, <2>1 DEF KeyOf
<1>8. CASE FindKey(c)
  <2>1. CASE Respond(c, "refused")
    BY <1>4, <2>1 DEF KeyOf
  <2>2. CASE ~Respond(c, "refused")
    BY <1>1, <1>8, <2>2 DEF FindKey, At, KeyInv, AccessTypeOK, CallRecord, KeyOf
  <2> QED BY <2>1, <2>2
<1> QED BY <1>2, <1>3, <1>6, <1>7, <1>8 DEF CallStep

\* The row of a key is marked as used by a call that has it, or was before.
LEMMA UsedByHolder ==
    ASSUME KeyInv, NEW c \in Calls, CallStep(c), NEW k \in Keys, apiKey'[k].used
    PROVE  k \in disclosed
<1>1. /\ apiKey \in [Keys -> KeyRow]
      /\ KeyOf(c)
      /\ apiKey[k].used => k \in disclosed
  BY DEF KeyInv, AccessTypeOK
<1>2. CASE SaveUse(c) \/ SaveUseFails(c)
  <2>1. call[c].key \in disclosed
    BY <1>1, <1>2 DEF SaveUse, SaveUseFails, At, KeyOf
  <2>2. apiKey' = UsedKey(c) \/ apiKey' = apiKey
    BY <1>2 DEF SaveUse, SaveUseFails, AfterFailedSave
  <2>3. k # call[c].key => UsedKey(c)[k] = apiKey[k]
    BY <1>1 DEF UsedKey
  <2> QED BY <1>1, <2>1, <2>2, <2>3
<1>3. CASE \E n \in Keys, type \in KeyTypes :
             SaveKey(c, n, type) \/ SaveKeyFails(c, n, type)
  <2>1. PICK n \in Keys, type \in KeyTypes :
          apiKey' = CreatedKey(n, type) \/ apiKey' = apiKey
    BY <1>3 DEF SaveKey, SaveKeyFails, AfterFailedSave
  <2>2. apiKey'[k] = NewKey(type) \/ apiKey'[k] = apiKey[k]
    BY <1>1, <2>1 DEF CreatedKey
  <2> QED BY <1>1, <2>2 DEF NewKey
<1>4. CASE apiKey' = apiKey
  BY <1>1, <1>4
<1> QED
  BY <1>2, <1>3, <1>4 DEF CallStep, ReceiveCall, FindKey, FindApp, RateLimit,
     FindPermission, FindTarget, SaveAudit, SaveAuditFails, ReadFails,
     CallCrash

LEMMA KeyInvInit == AccessInit => KeyInv
BY InitTyping DEF AccessInit, NoCall, KeyInv, KeyOf, NewKey, AbsentKey

LEMMA KeyInvStep == KeyInv /\ [AccessNext]_accessVars => KeyInv'
<1> SUFFICES ASSUME KeyInv, [AccessNext]_accessVars PROVE KeyInv'
  OBVIOUS
<1>1. ASSUME NEW c \in Calls, CallStep(c) PROVE KeyInv'
  <2>1. AccessTypeOK'
    BY <1>1, CallTyping
  <2>2. disclosed \subseteq disclosed' /\ disclosed' \subseteq audit' \cup {RootKey}
    BY <1>1, DisclosedWithRecord
  <2>3. ASSUME NEW d \in Calls PROVE KeyOf(d)'
    <3>1. CASE d = c
      BY <1>1, <3>1, KeyOfStep
    <3>2. CASE d # c
      BY <1>1, <2>2, <3>2, OtherCalls DEF KeyOf, KeyInv
    <3> QED BY <3>1, <3>2
  <2>4. \A k \in Keys : apiKey'[k].used => k \in disclosed'
    BY <1>1, <2>2, UsedByHolder
  <2> QED BY <2>1, <2>2, <2>3, <2>4 DEF KeyInv
<1>2. ASSUME NEW k \in Keys, RevokeKey(k) PROVE KeyInv'
  <2>1. apiKey' \in [Keys -> KeyRow]
    BY <1>2 DEF RevokeKey, KeyInv, AccessTypeOK, KeyRow
  <2>2. \A n \in Keys : apiKey'[n].used = apiKey[n].used
    BY <1>2 DEF RevokeKey, KeyInv, AccessTypeOK, KeyRow
  <2> QED BY <1>2, <2>1, <2>2 DEF RevokeKey, KeyInv, AccessTypeOK, KeyOf
<1>3. CASE UNCHANGED accessVars
  BY <1>3 DEF accessVars, KeyInv, AccessTypeOK, KeyOf
<1> QED BY <1>1, <1>2, <1>3 DEF AccessNext

LEMMA KeyInvariance == AccessSpec => []KeyInv
BY KeyInvInit, KeyInvStep, PTL DEF AccessSpec

\* Every table, Redis set and call record keeps its type.
THEOREM AccessTypeCorrect == AccessSpec => []AccessTypeOK
<1>1. KeyInv => AccessTypeOK
  BY DEF KeyInv
<1> QED BY <1>1, KeyInvariance, PTL

\* No key without an audit record of its creation ever authenticates a call,
\* whichever save fails and wherever the process dies: the secret is shown only
\* after the record is there, and a call needs the secret.
THEOREM UsedKeysAreRecorded == AccessSpec => []UsedIsRecorded
<1>1. KeyInv => UsedIsRecorded
  BY DEF KeyInv, UsedIsRecorded
<1> QED BY <1>1, KeyInvariance, PTL

-----------------------------------------------------------------------------
(* The revoked keys.                                                        *)

\* Only a call that read the key ACTIVE, or an operator, writes the row of a key
\* that is there.
LEMMA RevokedRow ==
    ASSUME KeyInv, NEW c \in Calls, CallStep(c), NEW k \in Keys, QuietlyRevoked(k)
    PROVE  apiKey'[k] = apiKey[k]
<1>1. apiKey \in [Keys -> KeyRow] /\ apiKey[k].status = "REVOKED"
  BY DEF KeyInv, AccessTypeOK, QuietlyRevoked
<1>2. CASE SaveUse(c) \/ SaveUseFails(c)
  <2>1. call[c].key # k
    BY <1>2 DEF SaveUse, SaveUseFails, At, QuietlyRevoked
  <2>2. apiKey' = UsedKey(c) \/ apiKey' = apiKey
    BY <1>2 DEF SaveUse, SaveUseFails, AfterFailedSave
  <2> QED BY <1>1, <2>1, <2>2 DEF UsedKey
<1>3. CASE \E n \in Keys, type \in KeyTypes :
             SaveKey(c, n, type) \/ SaveKeyFails(c, n, type)
  <2>1. PICK n \in Keys, type \in KeyTypes :
          /\ apiKey[n].status = "ABSENT"
          /\ apiKey' = CreatedKey(n, type) \/ apiKey' = apiKey
    BY <1>3 DEF SaveKey, SaveKeyFails, AfterFailedSave
  <2> QED BY <1>1, <2>1 DEF CreatedKey
<1>4. CASE apiKey' = apiKey
  BY <1>4
<1> QED
  BY <1>2, <1>3, <1>4 DEF CallStep, ReceiveCall, FindKey, FindApp, RateLimit,
     FindPermission, FindTarget, SaveAudit, SaveAuditFails, ReadFails,
     CallCrash

\* A call is past the check of its key only if it was so before, or if the key
\* is ACTIVE now.
LEMMA PastCheckStep ==
    ASSUME KeyInv, NEW c \in Calls, CallStep(c),
           call'[c].pc \in {"findApp", "saveUse"}
    PROVE  /\ call'[c].key = call[c].key
           /\ \/ call[c].pc \in {"findApp", "saveUse"}
              \/ apiKey[call[c].key].status = "ACTIVE"
<1>1. call \in [Calls -> CallRecord] /\ call[c] \in CallRecord
  BY DEF KeyInv, AccessTypeOK
<1>2. ASSUME NEW response, Respond(c, response) PROVE FALSE
  BY <1>1, <1>2 DEF Respond
<1>3. CASE FindKey(c)
  BY <1>1, <1>3, <1>2 DEF FindKey, Accepts, CallRecord
<1>4. CASE FindApp(c)
  BY <1>1, <1>4, <1>2 DEF FindApp, Goto, At, CallRecord
<1>5. ASSUME NEW pc, Goto(c, pc), pc \notin {"findApp", "saveUse"} PROVE FALSE
  BY <1>1, <1>5 DEF Goto
<1>6. CASE \E kind \in Kinds, k \in Keys : ReceiveCall(c, kind, k)
  BY <1>1, <1>6 DEF ReceiveCall
<1>7. CASE SaveUse(c) \/ RateLimit(c) \/ FindTarget(c)
  BY <1>2, <1>5, <1>7 DEF SaveUse, RateLimit, FindTarget, AfterGuard
<1>8. CASE \E k \in Keys, type \in KeyTypes :
              SaveKey(c, k, type)
  BY <1>1, <1>8 DEF SaveKey
<1>9. CASE \/ SaveUseFails(c) \/ FindPermission(c) \/ SaveAudit(c)
            \/ SaveAuditFails(c) \/ ReadFails(c) \/ CallCrash(c)
            \/ \E k \in Keys, type \in KeyTypes :
                  SaveKeyFails(c, k, type)
  BY <1>2, <1>9 DEF SaveUseFails, FindPermission, SaveAudit, SaveAuditFails,
     ReadFails, CallCrash, SaveKeyFails
<1> QED
  BY <1>3, <1>4, <1>6, <1>7, <1>8, <1>9 DEF CallStep

LEMMA QuietlyRevokedStep ==
    ASSUME KeyInv, [AccessNext]_accessVars, NEW k \in Keys, QuietlyRevoked(k)
    PROVE  QuietlyRevoked(k)'
<1>1. ASSUME NEW c \in Calls, CallStep(c) PROVE QuietlyRevoked(k)'
  <2>1. apiKey'[k] = apiKey[k]
    BY <1>1, RevokedRow
  <2>2. ASSUME NEW d \in Calls, call'[d].key = k, call'[d].pc \in {"findApp", "saveUse"}
        PROVE  FALSE
    <3>1. CASE d = c
      BY <1>1, <2>2, <3>1, PastCheckStep DEF QuietlyRevoked
    <3>2. CASE d # c
      BY <1>1, <2>2, <3>2, OtherCalls DEF QuietlyRevoked, KeyInv
    <3> QED BY <3>1, <3>2
  <2> QED BY <2>1, <2>2 DEF QuietlyRevoked
<1>2. ASSUME NEW n \in Keys, RevokeKey(n) PROVE QuietlyRevoked(k)'
  BY <1>2 DEF RevokeKey, QuietlyRevoked, KeyInv, AccessTypeOK
<1>3. CASE UNCHANGED accessVars
  BY <1>3 DEF accessVars, QuietlyRevoked
<1> QED BY <1>1, <1>2, <1>3 DEF AccessNext

\* The save of lastUsedAt can undo a revocation only through a call that read
\* the key before: when none is left, no interleaving of guards, creations and
\* crashes makes the key usable again.
THEOREM RevocationLasts == AccessSpec => RevokedForGood
<1>1. KeyInv /\ [AccessNext]_accessVars =>
        [\A k \in Keys : QuietlyRevoked(k) => QuietlyRevoked(k)']_accessVars
  BY QuietlyRevokedStep
<1> QED BY <1>1, KeyInvariance, PTL DEF AccessSpec, RevokedForGood

=============================================================================
