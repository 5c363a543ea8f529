---------------------------- MODULE EnrollProofs ----------------------------
(***************************************************************************)
(* Proofs about Enroll for every set of tokens and requests.               *)
(*                                                                         *)
(* A certificate is signed only after the token store was rewritten, so    *)
(* single use is a fact about the critical section of consumeEnrollToken:  *)
(* the store a goroutine is about to write back is the store on disk, and  *)
(* its token is unspent there.                                             *)
(***************************************************************************)
EXTENDS Enroll, TLAPS

(* Where a goroutine holds enrollTokensMu, and where also the token flock. *)
InMutex     == {"tokenLock", "readTokens", "writeTokens"}
InTokenLock == {"readTokens", "writeTokens"}

(* A goroutine that has not written the token store.                       *)
Unspent == {"idle", "mutex"} \cup InMutex

(* The locks are held by exactly the goroutines between acquire and        *)
(* release.                                                                *)
LockInv == \A r \in Req : /\ pc[r] \in InMutex <=> tokensMu = r
                          /\ pc[r] \in InTokenLock <=> tokenFlock = r

(* Nothing has changed on disk since the goroutine read and validated.     *)
WriterInv == \A r \in Req :
               pc[r] = "writeTokens" => /\ tokenSnap[r] = tokens
                                        /\ ~ tokens[tok[r]].consumed

(* consumed_at and used_count tell whether the token was spent.            *)
StoreInv == \A t \in Token :
              tokens[t] = IF spentBy[t] = NoReq
                            THEN [consumed |-> FALSE, used |-> 0]
                            ELSE [consumed |-> TRUE, used |-> 1]

(* A token was spent by a request that presented it and wrote the store.   *)
OwnerInv == \A t \in Token : \A r \in Req :
              spentBy[t] = r => tok[r] = t /\ pc[r] \notin Unspent

(* A request about to sign, or with a certificate, spent its token.        *)
SignerInv == /\ \A r \in Req : pc[r] = "sign" => /\ spentBy[tok[r]] = r
                                                 /\ r \notin signed
             /\ \A r \in signed : spentBy[tok[r]] = r

IInv == TypeOK /\ LockInv /\ WriterInv /\ StoreInv /\ OwnerInv /\ SignerInv
-----------------------------------------------------------------------------
LEMMA InitIInv == Init => IInv
<1> SUFFICES ASSUME Init PROVE IInv
  OBVIOUS
<1>1. TypeOK
  BY EnrollAssumption DEF Init, TypeOK, TokenFile, DeviceFile, NoTokens,
     NoDevices, Steps, Replies
<1>2. LockInv /\ WriterInv /\ StoreInv /\ OwnerInv /\ SignerInv
  BY EnrollAssumption DEF Init, LockInv, WriterInv, StoreInv, OwnerInv,
     SignerInv, InMutex, InTokenLock, Unspent, NoTokens
<1> QED BY <1>1, <1>2 DEF IInv

(* Types are preserved, action by action.                                  *)
LEMMA TypePreserved == TypeOK /\ [Next]_vars => TypeOK'
<1> SUFFICES ASSUME TypeOK, [Next]_vars PROVE TypeOK'
  OBVIOUS
<1> USE EnrollAssumption DEF TypeOK, TokenFile, DeviceFile, Steps, Replies,
        tokenVars, deviceVars, webuiVars, lockVars, Goto, GoOn, Answer,
        ReleaseTokens, ReleaseDevices, NoTokens, NoDevices
<1>1. ASSUME NEW r \in Req, Arrive(r) PROVE TypeOK'
  <2>1. CASE GoOn(r, "idle", "mutex") BY <1>1, <2>1 DEF Arrive
  <2>2. CASE Answer(r, "idle", "400") BY <1>1, <2>2 DEF Arrive
  <2> QED BY <1>1, <2>1, <2>2 DEF Arrive
<1>2. ASSUME NEW r \in Req, ConsumeToken(r) PROVE TypeOK'
  <2>1. CASE LockTokensMu(r) BY <2>1 DEF LockTokensMu
  <2>2. CASE LockTokenFile(r) BY <2>2 DEF LockTokenFile
  <2>3. CASE FailTokenLock(r)
    <3>1. CASE Answer(r, "tokenLock", "tokenBusy503")
      BY <2>3, <3>1 DEF FailTokenLock
    <3>2. CASE Answer(r, "tokenLock", "401")
      BY <2>3, <3>2 DEF FailTokenLock
    <3> QED BY <2>3, <3>1, <3>2 DEF FailTokenLock
  <2>4. CASE AcceptToken(r) BY <2>4 DEF AcceptToken
  <2>5. CASE RejectToken(r) BY <2>5 DEF RejectToken
  <2>6. CASE WriteTokens(r) BY <2>6 DEF WriteTokens, Consume
  <2>7. CASE FailWriteTokens(r) BY <2>7 DEF FailWriteTokens
  <2> QED BY <1>2, <2>1, <2>2, <2>3, <2>4, <2>5, <2>6, <2>7 DEF ConsumeToken
<1>3. ASSUME NEW r \in Req, PersistDevice(r) PROVE TypeOK'
  <2>1. CASE LockDeviceFile(r) BY <2>1 DEF LockDeviceFile
  <2>2. CASE DeviceLockTimeout(r) BY <2>2 DEF DeviceLockTimeout
  <2>3. CASE ReadDevices(r) BY <2>3 DEF ReadDevices
  <2>4. CASE WriteDevices(r) BY <2>4 DEF WriteDevices
  <2>5. CASE FailPersist(r) BY <2>5 DEF FailPersist
  <2> QED BY <1>3, <2>1, <2>2, <2>3, <2>4, <2>5 DEF PersistDevice
<1>4. ASSUME NEW r \in Req, Sign(r) \/ FailSign(r) \/ Respond(r) PROVE TypeOK'
  <2>1. CASE Sign(r) BY <2>1 DEF Sign
  <2>2. CASE FailSign(r) BY <2>2 DEF FailSign
  <2>3. CASE Respond(r)
    <3> PICK status \in {"200", "lost"} : Answer(r, "respond", status)
      BY <2>3 DEF Respond
    <3> QED BY <2>3 DEF Respond
  <2> QED BY <1>4, <2>1, <2>2, <2>3
<1>5. ASSUME NEW t \in Token, Expire(t) PROVE TypeOK'
  BY <1>5 DEF Expire
<1>6. CASE WebuiStep
  <2>1. CASE WebuiLockTokens BY <2>1 DEF WebuiLockTokens
  <2>2. CASE WebuiUnlockTokens BY <2>2 DEF WebuiUnlockTokens
  <2>3. ASSUME NEW r \in Req, RevokeRead(r) PROVE TypeOK'
    BY <2>3 DEF RevokeRead
  <2>4. CASE RevokeWrite BY <2>4 DEF RevokeWrite
  <2>5. CASE RevokeFail BY <2>5 DEF RevokeFail
  <2> QED BY <1>6, <2>1, <2>2, <2>3, <2>4, <2>5 DEF WebuiStep
<1>7. CASE Crash
  BY <1>7 DEF Crash
<1>8. CASE UNCHANGED vars
  BY <1>8 DEF vars
<1> QED BY <1>1, <1>2, <1>3, <1>4, <1>5, <1>6, <1>7, <1>8
        DEF Next, HandleEnroll

(* Every variable has its type in every reachable state.                   *)
THEOREM TypeCorrect == Spec => []TypeOK
<1>1. Init => TypeOK
  BY InitIInv DEF IInv
<1> QED BY <1>1, TypePreserved, PTL DEF Spec

(* The critical section, action by action. Only WriteTokens and Sign       *)
(* change what was spent or signed; the other actions move locks and       *)
(* program counters.                                                       *)
LEMMA IInvPreserved == IInv /\ [Next]_vars => IInv'
<1> SUFFICES ASSUME IInv, [Next]_vars PROVE IInv'
  OBVIOUS
<1>0. TypeOK'
  BY TypePreserved DEF IInv
<1> DEFINE Core == LockInv /\ WriterInv /\ StoreInv /\ OwnerInv /\ SignerInv
<1> USE EnrollAssumption DEF IInv, TypeOK, LockInv, WriterInv, StoreInv,
        OwnerInv, SignerInv, InMutex, InTokenLock, Unspent, Steps,
        tokenVars, deviceVars, webuiVars, lockVars, Goto, GoOn, Answer
<1>1. ASSUME NEW r \in Req, Arrive(r) PROVE Core'
  BY <1>1 DEF Arrive
<1>2. ASSUME NEW r \in Req, ConsumeToken(r) PROVE Core'
  <2> USE DEF ReleaseTokens
  <2>1. CASE LockTokensMu(r) BY <2>1 DEF LockTokensMu
  <2>2. CASE LockTokenFile(r) BY <2>2 DEF LockTokenFile
  <2>3. CASE FailTokenLock(r) BY <2>3 DEF FailTokenLock
  <2>4. CASE AcceptToken(r) BY <2>4 DEF AcceptToken
  <2>5. CASE RejectToken(r) BY <2>5 DEF RejectToken
  <2>6. CASE WriteTokens(r)
    <3>1. /\ tokens' = [tokens EXCEPT ![tok[r]] =
                          [consumed |-> TRUE, used |-> 1]]
          /\ spentBy' = [spentBy EXCEPT ![tok[r]] = r]
      <4>1. tokenSnap[r] = tokens /\ tokens[tok[r]] = [consumed |-> FALSE, used |-> 0]
        BY <2>6 DEF WriteTokens
      <4> QED BY <2>6, <4>1 DEF WriteTokens, Consume, TokenFile
    <3>2. LockInv'
      BY <2>6 DEF WriteTokens
    <3>3. WriterInv'
      BY <2>6, <3>2 DEF WriteTokens
    <3>4. StoreInv'
      <4> SUFFICES ASSUME NEW t \in Token
                   PROVE  tokens'[t] = IF spentBy'[t] = NoReq
                            THEN [consumed |-> FALSE, used |-> 0]
                            ELSE [consumed |-> TRUE, used |-> 1]
        OBVIOUS
      <4>1. CASE t = tok[r]
        BY <3>1, <4>1 DEF TokenFile
      <4>2. CASE t # tok[r]
        BY <3>1, <4>2 DEF TokenFile
      <4> QED BY <4>1, <4>2
    <3>5. OwnerInv'
      BY <2>6, <3>1 DEF WriteTokens
    <3>6. SignerInv'
      BY <2>6, <3>1 DEF WriteTokens
    <3> QED BY <3>2, <3>3, <3>4, <3>5, <3>6
  <2>7. CASE FailWriteTokens(r) BY <2>7 DEF FailWriteTokens
  <2> QED BY <1>2, <2>1, <2>2, <2>3, <2>4, <2>5, <2>6, <2>7 DEF ConsumeToken
<1>3. ASSUME NEW r \in Req, PersistDevice(r) PROVE Core'
  BY <1>3 DEF PersistDevice, LockDeviceFile, DeviceLockTimeout, ReadDevices,
     WriteDevices, FailPersist
<1>4. ASSUME NEW r \in Req, Sign(r) \/ FailSign(r) \/ Respond(r) PROVE Core'
  BY <1>4 DEF Sign, FailSign, Respond
<1>5. ASSUME NEW t \in Token, Expire(t) PROVE Core'
  BY <1>5 DEF Expire
<1>6. ASSUME WebuiStep PROVE Core'
  <2>1. CASE WebuiLockTokens BY <2>1 DEF WebuiLockTokens
  <2>2. CASE WebuiUnlockTokens BY <2>2 DEF WebuiUnlockTokens
  <2>3. CASE (\E d \in Req : RevokeRead(d)) \/ RevokeWrite \/ RevokeFail
    <3>1. UNCHANGED <<tokenVars, lockVars, pc, tok, signed>>
      BY <2>3 DEF RevokeRead, RevokeWrite, RevokeFail
    <3> QED BY <3>1
  <2> QED BY <1>6, <2>1, <2>2, <2>3 DEF WebuiStep
<1>7. ASSUME Crash PROVE Core'
  <2>1. /\ \A r \in Req : pc'[r] \in {"idle", "done"}
        /\ \A r \in Req : pc'[r] = "idle" => pc[r] = "idle"
    BY <1>7 DEF Crash, Running
  <2>2. LockInv' BY <1>7, <2>1 DEF Crash
  <2>3. WriterInv' BY <1>7, <2>1 DEF Crash
  <2>4. StoreInv' BY <1>7 DEF Crash
  <2>5. OwnerInv' BY <1>7, <2>1 DEF Crash
  <2>6. SignerInv' BY <1>7, <2>1 DEF Crash
  <2> QED BY <2>2, <2>3, <2>4, <2>5, <2>6
<1>8. ASSUME UNCHANGED vars PROVE Core'
  BY <1>8 DEF vars
<1> QED BY <1>0, <1>1, <1>2, <1>3, <1>4, <1>5, <1>6, <1>7, <1>8
        DEF Next, HandleEnroll

LEMMA IInvAlways == Spec => []IInv
BY InitIInv, IInvPreserved, PTL DEF Spec

(* No token ever buys two certificates: two signed requests with the same  *)
(* token are the one request that spent it (consumeEnrollToken).           *)
THEOREM SingleUseHolds == Spec => []SingleUse
<1>1. IInv => SingleUse
  BY DEF IInv, TypeOK, SignerInv, SingleUse
<1> QED BY <1>1, IInvAlways, PTL

(* A signed certificate's token is consumed in the file, so no restart     *)
(* brings it back.                                                         *)
THEOREM SignedIsSpentHolds == Spec => []SignedIsSpentOnDisk
<1>1. IInv => SignedIsSpentOnDisk
  BY EnrollAssumption DEF IInv, TypeOK, SignerInv, StoreInv,
     SignedIsSpentOnDisk
<1> QED BY <1>1, IInvAlways, PTL

(* Enrollment implements the one-time token: the write of the store is     *)
(* the redemption, signCSR the issue, and every other step, crashes        *)
(* included, a stutter.                                                    *)
THEOREM Refinement == Spec => ImplementsOneTimeToken
<1> USE DEF OneTime!Spec, OneTime!Init, OneTime!Next, OneTime!vars
<1>1. Init => OneTime!Init
  BY DEF Init
<1>2. ASSUME IInv, [Next]_vars PROVE [OneTime!Next]_(OneTime!vars)
  <2>1. ASSUME NEW r \in Req, WriteTokens(r) PROVE OneTime!Redeem(r, tok[r])
    BY <1>2, <2>1 DEF IInv, TypeOK, WriterInv, StoreInv, OwnerInv, Unspent,
       InMutex, WriteTokens, GoOn, Goto, OneTime!Redeem
  <2>2. ASSUME NEW r \in Req, Sign(r) PROVE OneTime!Issue(r)
    BY <1>2, <2>2 DEF IInv, TypeOK, SignerInv, Sign, GoOn, Goto, tokenVars,
       OneTime!Issue
  <2>3. ASSUME NEW r \in Req, Arrive(r) \/ HandleEnroll(r),
               ~ WriteTokens(r), ~ Sign(r)
        PROVE  UNCHANGED <<spentBy, signed>>
    BY <2>3 DEF Arrive, HandleEnroll, ConsumeToken, LockTokensMu,
       LockTokenFile, FailTokenLock, AcceptToken, RejectToken,
       FailWriteTokens, FailSign, PersistDevice, LockDeviceFile,
       DeviceLockTimeout, ReadDevices, WriteDevices, FailPersist, Respond,
       tokenVars
  <2>4. CASE \/ \E t \in Token : Expire(t)
             \/ WebuiStep \/ Crash \/ UNCHANGED vars
    BY <2>4 DEF Expire, WebuiStep, WebuiLockTokens, WebuiUnlockTokens,
       RevokeRead, RevokeWrite, RevokeFail, Crash, vars, tokenVars
  <2>5. tok \in [Req -> Token]
    BY <1>2 DEF IInv, TypeOK
  <2> QED BY <1>2, <2>1, <2>2, <2>3, <2>4, <2>5 DEF Next
<1> QED BY <1>1, <1>2, IInvAlways, PTL DEF Spec, ImplementsOneTimeToken
-----------------------------------------------------------------------------
(* devices.json. The holder of its flock is the only appender, and what it *)
(* read is at least what is on disk when it writes: webui's unlocked write *)
(* can only take records away, because the list webui read is never newer  *)
(* than the file.                                                          *)
DeviceLockInv == \A r \in Req :
                   pc[r] \in {"readDevices", "writeDevices"} <=> deviceFlock = r

AppenderInv == \A r \in Req :
                 pc[r] = "writeDevices"
                   => Recorded(devices) \subseteq Recorded(deviceSnap[r])

RevokerInv == revoking \in Req => /\ Recorded(webuiSnap) \subseteq Recorded(devices)
                                  /\ webuiSnap[revoking] # "absent"

DeviceInv == TypeOK /\ DeviceLockInv /\ AppenderInv /\ RevokerInv

LEMMA InitDeviceInv == Init => DeviceInv
BY InitIInv, EnrollAssumption
   DEF IInv, Init, DeviceInv, DeviceLockInv, AppenderInv, RevokerInv

LEMMA DeviceInvPreserved == DeviceInv /\ [Next]_vars => DeviceInv'
<1> SUFFICES ASSUME DeviceInv, [Next]_vars PROVE DeviceInv'
  OBVIOUS
<1>0. TypeOK'
  BY TypePreserved DEF DeviceInv
<1> DEFINE Core == DeviceLockInv /\ AppenderInv /\ RevokerInv
<1> USE EnrollAssumption DEF DeviceInv, TypeOK, DeviceLockInv, AppenderInv,
        RevokerInv, Recorded, Steps, DeviceFile, tokenVars, deviceVars,
        webuiVars, lockVars, Goto, GoOn, Answer
<1>1. ASSUME NEW r \in Req,
             Arrive(r) \/ ConsumeToken(r) \/ Sign(r) \/ FailSign(r) \/ Respond(r)
      PROVE  Core'
  <2>1. UNCHANGED <<devices, deviceFlock, deviceSnap, webuiVars>>
    BY <1>1 DEF Arrive, ConsumeToken, LockTokensMu, LockTokenFile,
       FailTokenLock, AcceptToken, RejectToken, WriteTokens, FailWriteTokens,
       Sign, FailSign, Respond, ReleaseTokens
  <2>2. PICK to \in Steps \ {"readDevices", "writeDevices"} :
          pc' = [pc EXCEPT ![r] = to]
    BY <1>1 DEF Arrive, ConsumeToken, LockTokensMu, LockTokenFile,
       FailTokenLock, AcceptToken, RejectToken, WriteTokens, FailWriteTokens,
       Sign, FailSign, Respond, ReleaseTokens
  <2>3. pc[r] \notin {"readDevices", "writeDevices"}
    BY <1>1 DEF Arrive, ConsumeToken, LockTokensMu, LockTokenFile,
       FailTokenLock, AcceptToken, RejectToken, WriteTokens, FailWriteTokens,
       Sign, FailSign, Respond, ReleaseTokens
  <2> QED BY <2>1, <2>2, <2>3
<1>2. ASSUME NEW r \in Req, PersistDevice(r) PROVE Core'
  <2>1. CASE LockDeviceFile(r) BY <2>1 DEF LockDeviceFile
  <2>2. CASE DeviceLockTimeout(r) BY <2>2 DEF DeviceLockTimeout
  <2>3. CASE ReadDevices(r) BY <2>3 DEF ReadDevices
  <2>4. CASE WriteDevices(r)
    <3>1. Recorded(devices) \subseteq Recorded(devices')
      BY <2>4 DEF WriteDevices
    <3>2. DeviceLockInv'
      BY <2>4 DEF WriteDevices, ReleaseDevices
    <3>3. AppenderInv'
      BY <2>4, <3>2 DEF WriteDevices, ReleaseDevices
    <3>4. RevokerInv'
      BY <2>4, <3>1 DEF WriteDevices
    <3> QED BY <3>2, <3>3, <3>4
  <2>5. CASE FailPersist(r)
    <3> PICK at \in {"deviceLock", "readDevices", "writeDevices"} :
          GoOn(r, at, "respond")
      BY <2>5 DEF FailPersist
    <3> QED BY <2>5 DEF FailPersist, ReleaseDevices
  <2> QED BY <1>2, <2>1, <2>2, <2>3, <2>4, <2>5 DEF PersistDevice
<1>3. ASSUME NEW t \in Token, Expire(t) PROVE Core'
  BY <1>3 DEF Expire
<1>4. ASSUME WebuiStep PROVE Core'
  <2>1. CASE WebuiLockTokens \/ WebuiUnlockTokens
    BY <2>1 DEF WebuiLockTokens, WebuiUnlockTokens
  <2>2. ASSUME NEW d \in Req, RevokeRead(d) PROVE Core'
    BY <2>2 DEF RevokeRead
  <2>3. CASE RevokeWrite
    <3>1. Recorded(devices') \subseteq Recorded(devices)
      BY <2>3 DEF RevokeWrite
    <3> QED BY <2>3, <3>1 DEF RevokeWrite
  <2>4. CASE RevokeFail BY <2>4 DEF RevokeFail
  <2> QED BY <1>4, <2>1, <2>2, <2>3, <2>4 DEF WebuiStep
<1>5. ASSUME Crash PROVE Core'
  <2>1. \A r \in Req : pc'[r] \in {"idle", "done"}
    BY <1>5 DEF Crash, Running
  <2> QED BY <1>5, <2>1 DEF Crash
<1>6. ASSUME UNCHANGED vars PROVE Core'
  BY <1>6 DEF vars
<1> QED BY <1>0, <1>1, <1>2, <1>3, <1>4, <1>5, <1>6 DEF Next, HandleEnroll

(* The flock of devices.json does its work among tls-proxy's own           *)
(* goroutines: whatever they interleave, appendDevice drops no record.     *)
THEOREM AppendHolds == Spec => AppendLosesNoRecord
<1>1. ASSUME DeviceInv, [Next]_vars
      PROVE  [Recorded(devices) \subseteq Recorded(devices') \/ RevokeWrite]_vars
  <2>1. ASSUME NEW r \in Req, WriteDevices(r)
        PROVE  Recorded(devices) \subseteq Recorded(devices')
    BY <1>1, <2>1 DEF DeviceInv, TypeOK, DeviceFile, AppenderInv, Recorded,
       WriteDevices, GoOn, Goto
  <2>2. ASSUME Next, ~ RevokeWrite, \A r \in Req : ~ WriteDevices(r)
        PROVE  UNCHANGED devices
    BY <2>2 DEF Next, Arrive, HandleEnroll, ConsumeToken, LockTokensMu,
       LockTokenFile, FailTokenLock, AcceptToken, RejectToken, WriteTokens,
       FailWriteTokens, Sign, FailSign, PersistDevice, LockDeviceFile,
       DeviceLockTimeout, ReadDevices, FailPersist, Respond, Expire,
       WebuiStep, WebuiLockTokens, WebuiUnlockTokens, RevokeRead, RevokeFail,
       Crash, deviceVars
  <2>3. CASE UNCHANGED vars
    BY <2>3
  <2> QED BY <1>1, <2>1, <2>2, <2>3 DEF Recorded
<1>2. Spec => []DeviceInv
  BY InitDeviceInv, DeviceInvPreserved, PTL DEF Spec
<1> QED BY <1>1, <1>2, PTL DEF Spec, AppendLosesNoRecord
=============================================================================
