------------------------------- MODULE Enroll -------------------------------
(***************************************************************************)
(* POST /enroll of tls-proxy (tls-proxy/enroll.go, devicestore.go,         *)
(* filelock.go): every request is a goroutine that                         *)
(*                                                                         *)
(*   validates the body, takes the in-process mutex enrollTokensMu and     *)
(*   the flock of the token file, reads the file, marks the token          *)
(*   consumed, writes the file, releases both locks, signs the CSR, takes  *)
(*   the flock of devices.json, reads it, appends the device, writes it,   *)
(*   releases the flock and replies.                                       *)
(*                                                                         *)
(* The other process that touches these files, webui, appears in the two   *)
(* places where they meet: it holds the token file's flock while an admin  *)
(* lists or edits tokens, and DeviceStore.Revoke reads, changes and        *)
(* rewrites devices.json under webui's own mutex, without the flock.       *)
(* tls-proxy may stop and restart between any two steps.                   *)
(*                                                                         *)
(* The token file is in the format tls-proxy documents (enroll.go:60-65).  *)
(* A certificate is named by the request it was signed for: serials are    *)
(* 128 random bits and device ids are random UUIDs, so neither repeats.    *)
(***************************************************************************)
EXTENDS Naturals

CONSTANTS Token,   \* tokens in enroll-tokens.json
          Req,     \* POST /enroll requests (bounds the number of attempts)
          NoReq,   \* no request: a free lock, an unspent token
          Webui    \* the webui process, as a holder of the token flock

ASSUME EnrollAssumption == /\ NoReq \notin Req
                           /\ Webui \notin Req
                           /\ Webui # NoReq

VARIABLES
  (* /config, shared by the processes *)
  tokens,      \* enroll-tokens.json: consumed_at set or not, used_count
  devices,     \* devices.json: the record of the certificate of each request
  tokenFlock,  \* who holds enroll-tokens.json.lock
  deviceFlock, \* who holds devices.json.lock
  expired,     \* tokens whose expires_at has passed
  (* tls-proxy *)
  tokensMu,    \* who holds enrollTokensMu
  pc,          \* where each request's goroutine is
  tok,         \* the token a request presented
  tokenSnap,   \* the token store a goroutine read
  deviceSnap,  \* the device list a goroutine read
  reply,       \* what the client of a request got
  (* webui *)
  revoking,    \* the device DeviceStore.Revoke is about to mark, or NoReq
  webuiSnap,   \* the device list webui read
  (* history *)
  spentBy,     \* the request whose write set consumed_at
  signed,      \* requests for which the org CA signed a certificate
  persisted    \* requests for which appendDevice returned nil

tokenVars  == <<tokens, spentBy, expired>>
deviceVars == <<devices, deviceFlock, deviceSnap, persisted>>
webuiVars  == <<revoking, webuiSnap>>
lockVars   == <<tokensMu, tokenFlock, tokenSnap>>
vars == <<tokens, devices, tokenFlock, deviceFlock, expired, tokensMu, pc, tok,
          tokenSnap, deviceSnap, reply, revoking, webuiSnap, spentBy, signed,
          persisted>>
-----------------------------------------------------------------------------
Steps   == {"idle", "mutex", "tokenLock", "readTokens", "writeTokens", "sign",
            "deviceLock", "readDevices", "writeDevices", "respond", "done"}
Replies == {"none", "200", "400", "401", "500", "tokenBusy503",
            "deviceBusy503", "lost"}

TokenFile  == [Token -> [consumed : BOOLEAN, used : Nat]]
DeviceFile == [Req -> {"absent", "active", "revoked"}]

NoTokens  == [t \in Token |-> [consumed |-> FALSE, used |-> 0]]
NoDevices == [r \in Req |-> "absent"]

(* The serials that have a record in a device list.                        *)
Recorded(list) == {r \in Req : list[r] # "absent"}

(* What the file holds after consumeEnrollToken set ConsumedAt and bumped  *)
(* UsedCount of token t.                                                   *)
Consume(store, t) ==
  [store EXCEPT ![t] = [consumed |-> TRUE, used |-> @.used + 1]]

Init ==
  /\ tokens = NoTokens
  /\ devices = NoDevices
  /\ tokenFlock = NoReq
  /\ deviceFlock = NoReq
  /\ expired = {}
  /\ tokensMu = NoReq
  /\ pc = [r \in Req |-> "idle"]
  /\ tok \in [Req -> Token]
  /\ tokenSnap = [r \in Req |-> NoTokens]
  /\ deviceSnap = [r \in Req |-> NoDevices]
  /\ reply = [r \in Req |-> "none"]
  /\ revoking = NoReq
  /\ webuiSnap = NoDevices
  /\ spentBy = [t \in Token |-> NoReq]
  /\ signed = {}
  /\ persisted = {}
-----------------------------------------------------------------------------
(* Control flow of a request's goroutine.                                  *)

Goto(r, from, to) == /\ pc[r] = from
                     /\ pc' = [pc EXCEPT ![r] = to]

GoOn(r, from, to) == /\ Goto(r, from, to)
                     /\ UNCHANGED reply

Answer(r, from, status) == /\ Goto(r, from, "done")
                           /\ reply' = [reply EXCEPT ![r] = status]

(* A POST reaches the server. A wrong method, malformed JSON, an empty     *)
(* field, or a CSR that does not parse or verify is answered 4xx before    *)
(* the token is looked at.                                                 *)
Arrive(r) ==
  /\ \/ GoOn(r, "idle", "mutex")
     \/ Answer(r, "idle", "400")
  /\ UNCHANGED <<tokenVars, deviceVars, webuiVars, lockVars, tok, signed>>

(* enrollTokensMu.Lock()                                                   *)
LockTokensMu(r) ==
  /\ tokensMu = NoReq
  /\ tokensMu' = r
  /\ GoOn(r, "mutex", "tokenLock")
  /\ UNCHANGED <<tokenVars, deviceVars, webuiVars, tokenFlock, tokenSnap, tok,
                 signed>>

(* WithFlock on the token file's lock got LOCK_EX.                         *)
LockTokenFile(r) ==
  /\ tokenFlock = NoReq
  /\ tokenFlock' = r
  /\ GoOn(r, "tokenLock", "readTokens")
  /\ UNCHANGED <<tokenVars, deviceVars, webuiVars, tokensMu, tokenSnap, tok,
                 signed>>

(* Variant: enrollTokensMu is not released.                                *)
ReleaseTokensKeepsMutex(r) ==
  /\ UNCHANGED tokensMu
  /\ tokenFlock' = IF tokenFlock = r THEN NoReq ELSE tokenFlock
  /\ tokenSnap' = [tokenSnap EXCEPT ![r] = NoTokens]

(* The deferred unlocks of consumeEnrollToken and WithFlock; the           *)
(* goroutine's copy of the store goes out of scope.                        *)
ReleaseTokens(r) ==
  /\ tokensMu' = NoReq
  /\ tokenFlock' = IF tokenFlock = r THEN NoReq ELSE tokenFlock
  /\ tokenSnap' = [tokenSnap EXCEPT ![r] = NoTokens]

(* WithFlock gave up: the lock was still taken at the deadline             *)
(* (ErrFlockTimeout, 503), or the lock file could not be opened (401).     *)
FailTokenLock(r) ==
  /\ \/ tokenFlock # NoReq /\ Answer(r, "tokenLock", "tokenBusy503")
     \/ Answer(r, "tokenLock", "401")
  /\ ReleaseTokens(r)
  /\ UNCHANGED <<tokenVars, deviceVars, webuiVars, tok, signed>>

(* Variant: the locks are released once the file has been read.            *)
AcceptTokenUnlocked(r) ==
  /\ ~ tokens[tok[r]].consumed
  /\ tok[r] \notin expired
  /\ tokenSnap' = [tokenSnap EXCEPT ![r] = tokens]
  /\ tokensMu' = NoReq
  /\ tokenFlock' = NoReq
  /\ GoOn(r, "readTokens", "writeTokens")
  /\ UNCHANGED <<tokenVars, deviceVars, webuiVars, tok, signed>>

(* Variant: consumed_at is not looked at.                                  *)
AcceptConsumedToken(r) ==
  /\ tok[r] \notin expired
  /\ tokenSnap' = [tokenSnap EXCEPT ![r] = tokens]
  /\ GoOn(r, "readTokens", "writeTokens")
  /\ UNCHANGED <<tokenVars, deviceVars, webuiVars, tokensMu, tokenFlock, tok,
                 signed>>

(* The token is in the file, not consumed and not expired: the goroutine   *)
(* goes on with the store it read.                                         *)
AcceptToken(r) ==
  /\ ~ tokens[tok[r]].consumed
  /\ tok[r] \notin expired
  /\ tokenSnap' = [tokenSnap EXCEPT ![r] = tokens]
  /\ GoOn(r, "readTokens", "writeTokens")
  /\ UNCHANGED <<tokenVars, deviceVars, webuiVars, tokensMu, tokenFlock, tok,
                 signed>>

(* "already consumed" or "expired", or the file could not be read: 401.    *)
RejectToken(r) ==
  /\ Answer(r, "readTokens", "401")
  /\ ReleaseTokens(r)
  /\ UNCHANGED <<tokenVars, deviceVars, webuiVars, tok, signed>>

(* writeTokenStore: the new file replaces the old one by rename, before    *)
(* the locks are released.                                                 *)
WriteTokens(r) ==
  /\ tokens' = Consume(tokenSnap[r], tok[r])
  /\ spentBy' = [spentBy EXCEPT ![tok[r]] = r]
  /\ GoOn(r, "writeTokens", "sign")
  /\ ReleaseTokens(r)
  /\ UNCHANGED <<deviceVars, webuiVars, expired, tok, signed>>

(* Variant: the error of writeTokenStore is not returned.                  *)
FailWriteTokensIgnored(r) ==
  /\ GoOn(r, "writeTokens", "sign")
  /\ ReleaseTokens(r)
  /\ UNCHANGED <<tokenVars, deviceVars, webuiVars, tok, signed>>

(* writeTokenStore failed before the rename: 401, the file is unchanged.   *)
FailWriteTokens(r) ==
  /\ Answer(r, "writeTokens", "401")
  /\ ReleaseTokens(r)
  /\ UNCHANGED <<tokenVars, deviceVars, webuiVars, tok, signed>>

(* signCSR returns a certificate, or an error (500).                       *)
Sign(r) ==
  /\ signed' = signed \cup {r}
  /\ GoOn(r, "sign", "deviceLock")
  /\ UNCHANGED <<tokenVars, deviceVars, webuiVars, lockVars, tok>>

FailSign(r) ==
  /\ Answer(r, "sign", "500")
  /\ UNCHANGED <<tokenVars, deviceVars, webuiVars, lockVars, tok, signed>>

(* Variant: the flock of devices.json is not waited for.                   *)
LockDeviceFileShared(r) ==
  /\ deviceFlock' = r
  /\ GoOn(r, "deviceLock", "readDevices")
  /\ UNCHANGED <<tokenVars, devices, deviceSnap, persisted, webuiVars,
                 lockVars, tok, signed>>

LockDeviceFile(r) ==
  /\ deviceFlock = NoReq
  /\ deviceFlock' = r
  /\ GoOn(r, "deviceLock", "readDevices")
  /\ UNCHANGED <<tokenVars, devices, deviceSnap, persisted, webuiVars,
                 lockVars, tok, signed>>

(* ErrFlockTimeout of appendDevice is answered 503 and the certificate is  *)
(* dropped.                                                                *)
DeviceLockTimeout(r) ==
  /\ deviceFlock # NoReq
  /\ Answer(r, "deviceLock", "deviceBusy503")
  /\ UNCHANGED <<tokenVars, deviceVars, webuiVars, lockVars, tok, signed>>

ReadDevices(r) ==
  /\ deviceSnap' = [deviceSnap EXCEPT ![r] = devices]
  /\ GoOn(r, "readDevices", "writeDevices")
  /\ UNCHANGED <<tokenVars, devices, deviceFlock, persisted, webuiVars,
                 lockVars, tok, signed>>

ReleaseDevices(r) ==
  /\ deviceFlock' = IF deviceFlock = r THEN NoReq ELSE deviceFlock
  /\ deviceSnap' = [deviceSnap EXCEPT ![r] = NoDevices]

WriteDevices(r) ==
  /\ devices' = [deviceSnap[r] EXCEPT ![r] = "active"]
  /\ persisted' = persisted \cup {r}
  /\ GoOn(r, "writeDevices", "respond")
  /\ ReleaseDevices(r)
  /\ UNCHANGED <<tokenVars, webuiVars, lockVars, tok, signed>>

(* Any other error of persistDevice (the lock file, the read, the parse,   *)
(* the write) is logged for manual reconciliation and the certificate is   *)
(* returned all the same.                                                  *)
FailPersist(r) ==
  /\ \E at \in {"deviceLock", "readDevices", "writeDevices"} :
        GoOn(r, at, "respond")
  /\ ReleaseDevices(r)
  /\ UNCHANGED <<tokenVars, devices, persisted, webuiVars, lockVars, tok,
                 signed>>

(* The 200 is written; the client may have gone away, or the server's      *)
(* WriteTimeout may have passed, and nobody looks at the error.            *)
Respond(r) ==
  /\ \E status \in {"200", "lost"} : Answer(r, "respond", status)
  /\ UNCHANGED <<tokenVars, deviceVars, webuiVars, lockVars, tok, signed>>
-----------------------------------------------------------------------------
(* expires_at of a token passes.                                           *)
Expire(t) ==
  /\ t \notin expired
  /\ expired' = expired \cup {t}
  /\ UNCHANGED <<tokens, spentBy, deviceVars, webuiVars, lockVars, pc, reply,
                 tok, signed>>

(* EnrollTokenStore holds the token flock for a Reload, Create or Revoke.  *)
(* A file in tls-proxy's format does not parse there, so webui writes      *)
(* nothing.                                                                *)
WebuiLockTokens ==
  /\ tokenFlock = NoReq
  /\ tokenFlock' = Webui
  /\ UNCHANGED <<tokenVars, deviceVars, webuiVars, tokensMu, tokenSnap, pc,
                 reply, tok, signed>>

WebuiUnlockTokens ==
  /\ tokenFlock = Webui
  /\ tokenFlock' = NoReq
  /\ UNCHANGED <<tokenVars, deviceVars, webuiVars, tokensMu, tokenSnap, pc,
                 reply, tok, signed>>

(* DeviceStore.Revoke, first half: under webui's mutex, reloadUnlocked     *)
(* reads devices.json. An absent or already revoked device is not written. *)
RevokeRead(d) ==
  /\ revoking = NoReq
  /\ devices[d] = "active"
  /\ revoking' = d
  /\ webuiSnap' = devices
  /\ UNCHANGED <<tokenVars, deviceVars, lockVars, pc, reply, tok, signed>>

(* ... second half: saveUnlocked renames the changed list over the file.   *)
RevokeWrite ==
  /\ revoking \in Req
  /\ devices' = [webuiSnap EXCEPT ![revoking] = "revoked"]
  /\ revoking' = NoReq
  /\ webuiSnap' = NoDevices
  /\ UNCHANGED <<tokenVars, deviceFlock, deviceSnap, persisted, lockVars, pc,
                 reply, tok, signed>>

(* The save failed, or webui stopped before it.                            *)
RevokeFail ==
  /\ revoking \in Req
  /\ revoking' = NoReq
  /\ webuiSnap' = NoDevices
  /\ UNCHANGED <<tokenVars, deviceVars, lockVars, pc, reply, tok, signed>>

Running(r) == pc[r] \notin {"idle", "done"}

(* tls-proxy stops and restarts: its goroutines and its mutex are gone,    *)
(* the kernel drops its flocks, the clients see a broken connection.       *)
Crash ==
  /\ \E r \in Req : Running(r)
  /\ pc' = [r \in Req |-> IF Running(r) THEN "done" ELSE pc[r]]
  /\ reply' = [r \in Req |-> IF Running(r) THEN "lost" ELSE reply[r]]
  /\ tokensMu' = NoReq
  /\ tokenFlock' = IF tokenFlock = Webui THEN Webui ELSE NoReq
  /\ deviceFlock' = NoReq
  /\ tokenSnap' = [r \in Req |-> NoTokens]
  /\ deviceSnap' = [r \in Req |-> NoDevices]
  /\ UNCHANGED <<tokenVars, devices, persisted, webuiVars, tok, signed>>
-----------------------------------------------------------------------------
ConsumeToken(r) ==
  \/ LockTokensMu(r) \/ LockTokenFile(r) \/ FailTokenLock(r)
  \/ AcceptToken(r) \/ RejectToken(r)
  \/ WriteTokens(r) \/ FailWriteTokens(r)

PersistDevice(r) ==
  \/ LockDeviceFile(r) \/ DeviceLockTimeout(r) \/ ReadDevices(r)
  \/ WriteDevices(r) \/ FailPersist(r)

(* A step of a request's goroutine once the request has arrived.           *)
HandleEnroll(r) ==
  \/ ConsumeToken(r) \/ Sign(r) \/ FailSign(r) \/ PersistDevice(r) \/ Respond(r)

WebuiStep == \/ WebuiLockTokens \/ WebuiUnlockTokens
             \/ \E d \in Req : RevokeRead(d)
             \/ RevokeWrite \/ RevokeFail

Next == \/ \E r \in Req : Arrive(r) \/ HandleEnroll(r)
        \/ \E t \in Token : Expire(t)
        \/ WebuiStep
        \/ Crash

(* Goroutines are scheduled fairly, and WithFlock polls until its          *)
(* deadline. Nothing is assumed of clients, admins or failures.            *)
Fairness == \A r \in Req : WF_vars(HandleEnroll(r))

Spec == Init /\ [][Next]_vars /\ Fairness
-----------------------------------------------------------------------------
(* Types of every variable of the enrollment endpoint.                     *)
TypeOK ==
  /\ tokens \in TokenFile
  /\ devices \in DeviceFile
  /\ tokenFlock \in Req \cup {NoReq, Webui}
  /\ deviceFlock \in Req \cup {NoReq}
  /\ expired \subseteq Token
  /\ tokensMu \in Req \cup {NoReq}
  /\ pc \in [Req -> Steps]
  /\ tok \in [Req -> Token]
  /\ tokenSnap \in [Req -> TokenFile]
  /\ deviceSnap \in [Req -> DeviceFile]
  /\ reply \in [Req -> Replies]
  /\ revoking \in Req \cup {NoReq}
  /\ webuiSnap \in DeviceFile
  /\ spentBy \in [Token -> Req \cup {NoReq}]
  /\ signed \subseteq Req
  /\ persisted \subseteq Req

(* consumeEnrollToken "atomically validates a token and marks it           *)
(* consumed": two requests that present the same token never both get a    *)
(* certificate signed, whatever locks time out and wherever the process    *)
(* stops.                                                                  *)
SingleUse ==
  \A r, s \in signed : tok[r] = tok[s] => r = s

(* The consumption is on disk before the certificate exists, so a restart  *)
(* of tls-proxy cannot make a token that bought a certificate usable       *)
(* again.                                                                  *)
SignedIsSpentOnDisk ==
  \A r \in signed : tokens[tok[r]] = [consumed |-> TRUE, used |-> 1]

(* appendDevice under its flock never drops the record of another          *)
(* enrollment: a record disappears from devices.json only by webui's own   *)
(* write.                                                                  *)
AppendLosesNoRecord ==
  [][ Recorded(devices) \subseteq Recorded(devices') \/ RevokeWrite ]_vars

(* Every request that arrives is answered (or its connection breaks):      *)
(* no request waits for ever on the mutex or on a flock.                   *)
EveryRequestAnswered ==
  \A r \in Req : Running(r) ~> pc[r] = "done"

(* Enrollment implements the one-time token.                               *)
OneTime == INSTANCE OneTimeToken WITH owner <- spentBy, issued <- signed

ImplementsOneTimeToken == OneTime!Spec
-----------------------------------------------------------------------------
(* Statements of comments in the code that the code does not keep.         *)

(* enroll.go:259-261: on contention of devices.json "surface 503 so the    *)
(* caller retries before the cert leaves the server". As long as no other  *)
(* request got as far as the token store with the same token, a request    *)
(* answered 503 did not make the token unusable for the retry.             *)
RetryableAfter503 ==
  \A r \in Req :
     (/\ reply[r] \in {"tokenBusy503", "deviceBusy503"}
      /\ \A s \in Req : tok[s] = tok[r] /\ s # r => pc[s] \in {"idle", "mutex"})
     => ~ tokens[tok[r]].consumed

(* webui/devicestore.go:85-86: the file is read again before a mutation,   *)
(* "so writes from tls-proxy are not lost": a device whose record          *)
(* appendDevice wrote stays in devices.json.                               *)
PersistedStaysRecorded == persisted \subseteq Recorded(devices)
=============================================================================
