---------------------------- MODULE ClientAccess ----------------------------
(***************************************************************************)
(* Who may use the server: the guards of api-gateway in front of           *)
(* POST /messages/send, the guard and the key creation of admin-api, and   *)
(* the handshake of realtime-chat.  They meet in tb_client_api_key.        *)
(*                                                                         *)
(* A call is a record: pc names the await it is at, copy is the            *)
(* ClientApiKeyEntity it read.  Both HTTP guards save that entity back to  *)
(* set lastUsedAt, every column as it was read.  The rate limit between    *)
(* the guards of a gateway is RateLimiter: here a call passes it or not.   *)
(***************************************************************************)
EXTENDS Faults

CONSTANTS
    Keys,           \* the rows tb_client_api_key may have
    RootKey,        \* the ADMIN key that is there from the start
    NoKey,
    Calls           \* the HTTP calls and handshakes of one behaviour

ASSUME AccessAssumption ==
    /\ RootKey \in Keys
    /\ NoKey \notin Keys

VARIABLES
    apiKey,     \* tb_client_api_key
    audit,      \* the keys with a CREATE_API_KEY row in tb_admin_audit_log
    disclosed,  \* the keys whose secret somebody was given
    call

accessVars == <<apiKey, audit, disclosed, call, faults>>

-----------------------------------------------------------------------------
KeyTypes == {"SERVER", "ADMIN", "WORKER"}

\* used: lastUsedAt is not null.
KeyRow ==
    [status: {"ABSENT", "ACTIVE", "REVOKED"}, keyType: KeyTypes, used: BOOLEAN]

\* Mutant: the type is the environment of the key, test or live.
NewKey_Environment(type) ==
    [status |-> "ACTIVE", keyType |-> "TEST", used |-> FALSE]

NewKey(type) == [status |-> "ACTIVE", keyType |-> type, used |-> FALSE]

AbsentKey == [NewKey("SERVER") EXCEPT !.status = "ABSENT"]

Kinds == {"send", "create", "chat"}

CallPc ==
    {"idle", "findKey", "findApp", "saveUse", "rateLimit", "findPermission",
     "findTarget", "saveKey", "saveAudit", "done"}

CallRecord ==
    [pc: CallPc, kind: Kinds, key: Keys \cup {NoKey}, copy: KeyRow,
     target: Keys \cup {NoKey},
     response: {"none", "ok", "refused", "limited", "error", "lost"}]

NoCall ==
    [pc |-> "idle", kind |-> "send", key |-> NoKey, copy |-> AbsentKey,
     target |-> NoKey, response |-> "none"]

AccessTypeOK ==
    /\ apiKey \in [Keys -> KeyRow]
    /\ audit \in SUBSET Keys
    /\ disclosed \in SUBSET Keys
    /\ call \in [Calls -> CallRecord]
    /\ faults \in 0..MaxFaults

AccessInit ==
    /\ apiKey = [k \in Keys |-> IF k = RootKey THEN NewKey("ADMIN") ELSE AbsentKey]
    /\ audit = {}
    /\ disclosed = {RootKey}
    /\ call = [c \in Calls |-> NoCall]
    /\ faults = 0

-----------------------------------------------------------------------------
At(c, pc) == call[c].pc = pc

Goto(c, pc) == call' = [call EXCEPT ![c].pc = pc]

\* The call ends, and what it held is gone.
Respond(c, response) ==
    call' = [call EXCEPT ![c] = [NoCall EXCEPT !.pc = "done", !.response = response]]

\* A call arrives with the secret of key k.  (Without it, it is among the
\* refusals of FindKey.)
ReceiveCall(c, kind, k) ==
    /\ At(c, "idle")
    /\ k \in disclosed
    /\ call' = [call EXCEPT ![c].pc = "findKey", ![c].kind = kind, ![c].key = k]
    /\ UNCHANGED <<apiKey, audit, disclosed, faults>>

\* Mutant: the status of the key is not looked at.
Accepts_AnyStatus(kind, row) ==
    /\ row.status # "ABSENT"
    /\ kind = "create" => row.keyType = "ADMIN"
    /\ kind = "chat" => row.keyType = "SERVER"

\* The key passes the checks of the guard.  The gateway looks at no key type.
Accepts(kind, row) ==
    /\ row.status = "ACTIVE"
    /\ kind = "create" => row.keyType = "ADMIN"
    /\ kind = "chat" => row.keyType = "SERVER"

\* A missing header, a wrong secret or a key past its time is always possible.
FindKey(c) ==
    /\ At(c, "findKey")
    /\ LET row == apiKey[call[c].key] IN
         \/ /\ Accepts(call[c].kind, row)
            /\ call' = [call EXCEPT ![c].pc = "findApp", ![c].copy = row]
         \/ Respond(c, "refused")
    /\ UNCHANGED <<apiKey, audit, disclosed, faults>>

\* The client app is ACTIVE and the address on its white list, or not.  The
\* handshake ends here: it does not record the use of the key.
FindApp(c) ==
    /\ At(c, "findApp")
    /\ \/ call[c].kind # "chat" /\ Goto(c, "saveUse")
       \/ call[c].kind = "chat" /\ Respond(c, "ok")
       \/ Respond(c, "refused")
    /\ UNCHANGED <<apiKey, audit, disclosed, faults>>

UsedKey(c) == [apiKey EXCEPT ![call[c].key] = [call[c].copy EXCEPT !.used = TRUE]]

AfterGuard(c) == IF call[c].kind = "create" THEN "findTarget" ELSE "rateLimit"

\* lastUsedAt is set in the copy, and the whole copy is saved.
SaveUse(c) ==
    /\ At(c, "saveUse")
    /\ apiKey' = UsedKey(c)
    /\ Goto(c, AfterGuard(c))
    /\ UNCHANGED <<audit, disclosed, faults>>

\* RateLimitGuard: no failure of Redis ends a call.
RateLimit(c) ==
    /\ At(c, "rateLimit")
    /\ Goto(c, "findPermission") \/ Respond(c, "limited")
    /\ UNCHANGED <<apiKey, audit, disclosed, faults>>

\* The client app has the permission SEND_MESSAGE, or not.
FindPermission(c) ==
    /\ At(c, "findPermission")
    /\ Respond(c, "ok") \/ Respond(c, "refused")
    /\ UNCHANGED <<apiKey, audit, disclosed, faults>>

-----------------------------------------------------------------------------
(* ClientApiKeyController.create, behind AdminAuthGuard.                    *)

\* The client app the key is for is found, or 404.
FindTarget(c) ==
    /\ At(c, "findTarget")
    /\ Goto(c, "saveKey") \/ Respond(c, "refused")
    /\ UNCHANGED <<apiKey, audit, disclosed, faults>>

\* keyId is random: it is none that exists.
CreatedKey(k, type) == [apiKey EXCEPT ![k] = NewKey(type)]

SaveKey(c, k, type) ==
    /\ At(c, "saveKey")
    /\ apiKey[k].status = "ABSENT"
    /\ apiKey' = CreatedKey(k, type)
    /\ call' = [call EXCEPT ![c].pc = "saveAudit", ![c].target = k]
    /\ UNCHANGED <<audit, disclosed, faults>>

\* The record is written, and only then the answer shows the secret.
SaveAudit(c) ==
    /\ At(c, "saveAudit")
    /\ audit' = audit \cup {call[c].target}
    /\ disclosed' = disclosed \cup {call[c].target}
    /\ Respond(c, "ok")
    /\ UNCHANGED <<apiKey, faults>>

SaveKeyFails(c, k, type) ==
    /\ At(c, "saveKey")
    /\ apiKey[k].status = "ABSENT"
    /\ Fault("db")
    /\ apiKey' \in AfterFailedSave(apiKey, CreatedKey(k, type))
    /\ Respond(c, "error")
    /\ UNCHANGED <<audit, disclosed>>

\* Mutant: the answer is sent although the record could not be written.
SaveAuditFails_Swallowed(c) ==
    /\ At(c, "saveAudit")
    /\ Fault("db")
    /\ audit' \in AfterFailedSave(audit, audit \cup {call[c].target})
    /\ disclosed' = disclosed \cup {call[c].target}
    /\ Respond(c, "ok")
    /\ UNCHANGED apiKey

\* The key stays, ACTIVE, and nobody ever learns its secret.
SaveAuditFails(c) ==
    /\ At(c, "saveAudit")
    /\ Fault("db")
    /\ audit' \in AfterFailedSave(audit, audit \cup {call[c].target})
    /\ Respond(c, "error")
    /\ UNCHANGED <<apiKey, disclosed>>

-----------------------------------------------------------------------------
ReadFails(c) ==
    /\ call[c].pc \in {"findKey", "findApp", "findPermission", "findTarget"}
    /\ Fault("db")
    /\ Respond(c, "error")
    /\ UNCHANGED <<apiKey, audit, disclosed>>

SaveUseFails(c) ==
    /\ At(c, "saveUse")
    /\ Fault("db")
    /\ apiKey' \in AfterFailedSave(apiKey, UsedKey(c))
    /\ Respond(c, "error")
    /\ UNCHANGED <<audit, disclosed>>

\* The process dies with the call.
CallCrash(c) ==
    /\ call[c].pc \notin {"idle", "done"}
    /\ Fault("crash")
    /\ Respond(c, "lost")
    /\ UNCHANGED <<apiKey, audit, disclosed>>

\* An operator revokes a key by its status column: no code does, all guards
\* look at it.
RevokeKey(k) ==
    /\ apiKey[k].status = "ACTIVE"
    /\ apiKey' = [apiKey EXCEPT ![k].status = "REVOKED"]
    /\ UNCHANGED <<audit, disclosed, call, faults>>

CallStep(c) ==
    \/ \E kind \in Kinds, k \in Keys : ReceiveCall(c, kind, k)
    \/ FindKey(c) \/ FindApp(c) \/ SaveUse(c) \/ SaveUseFails(c)
    \/ RateLimit(c) \/ FindPermission(c)
    \/ FindTarget(c) \/ SaveAudit(c) \/ SaveAuditFails(c)
    \/ \E k \in Keys, type \in KeyTypes :
          SaveKey(c, k, type) \/ SaveKeyFails(c, k, type)
    \/ ReadFails(c) \/ CallCrash(c)

AccessNext ==
    \/ \E c \in Calls : CallStep(c)
    \/ \E k \in Keys : RevokeKey(k)

AccessSpec == AccessInit /\ [][AccessNext]_accessVars

-----------------------------------------------------------------------------
\* A key that ever authenticated an HTTP call (a handshake leaves no trace) has
\* its audit record, whatever failed while it was created: a key without one
\* never reached a client.
UsedIsRecorded ==
    \A k \in Keys \ {RootKey} : apiKey[k].used => k \in audit

\* The save of lastUsedAt can bring a revoked key back, but only for calls
\* that read it before: once a key is revoked and none of those is under way,
\* it is and stays unusable.
QuietlyRevoked(k) ==
    /\ apiKey[k].status = "REVOKED"
    /\ \A c \in Calls :
          call[c].key = k => call[c].pc \notin {"findApp", "saveUse"}

RevokedForGood ==
    [][\A k \in Keys : QuietlyRevoked(k) => QuietlyRevoked(k)']_accessVars
=============================================================================
