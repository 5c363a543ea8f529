----------------------------- MODULE Revocation -----------------------------
(***************************************************************************)
(* Revoking a device, from the admin's click to the refused handshake:     *)
(*                                                                         *)
(*   webui     DeviceStore.Revoke marks the record in devices.json, drops  *)
(*             its mutex and calls CRLStore.Add, which keeps a list in     *)
(*             memory and rewrites revoked-serials.json from it            *)
(*             (webui/devicestore.go, webui/crlstore.go, handler.go);      *)
(*   tls-proxy appends the record of each device it enrolls to             *)
(*             devices.json (tls-proxy/devicestore.go), reloads            *)
(*             revoked-serials.json every 30 s and at start, and its TLS   *)
(*             handshake hook refuses the serials it loaded (tls-proxy/    *)
(*             crl.go, mtls.go).                                           *)
(*                                                                         *)
(* devices.json has two writers that share no lock: Revoke holds webui's   *)
(* mutex, appendDevice a flock. Each reads the whole file and writes it    *)
(* back, in two steps here, so either may fall between the two of the      *)
(* other and an append may write a record back as it was before it was     *)
(* revoked. The appended record is of a device nobody revokes here; that   *)
(* Revoke may lose it is in Enroll. Either save of Revoke may fail, webui  *)
(* may stop anywhere inside it, and an operator may wipe the CRL file (the *)
(* case Revoke's comment names). CRLStore.Add runs under one mutex, so it  *)
(* is one step; CRLStore.load, which GET /api/revoked calls, reads the     *)
(* file before it takes the mutex, so it is two. A device stands for its   *)
(* serial.                                                                 *)
(***************************************************************************)
EXTENDS FiniteSets

CONSTANTS Device,   \* enrolled devices
          Click,    \* POST /api/devices/{id}/revoke requests (a bound)
          View      \* GET /api/revoked requests that may overlap

VARIABLES
  flagged,   \* devices.json: records with revoked = true
  uiSeen,    \* those DeviceStore read, while a request is in "save"
  appending, \* whether an appendDevice of tls-proxy has read devices.json
  appSeen,   \* the flags it read
  crlMem,    \* CRLStore.entries of the running webui
  crlFile,   \* the serials in revoked-serials.json
  crlThere,  \* the file exists and is not empty
  enforced,  \* RevokedStore.serials of tls-proxy
  pc,        \* where each revoke request is
  target,    \* the device it revokes
  told,      \* what its admin was told
  vpc,       \* whether each GET has read the file
  seen,      \* the list it read
  unflagged, \* history: devices whose flag an append took back
  unlisted,  \* history: devices whose Revoke ended between flag and list
  wiped,     \* history: serials that were in the file when it was wiped
  forgotten  \* history: serials a load dropped from the list in memory

appendVars == <<appending, appSeen>>
deviceVars == <<flagged, uiSeen, appendVars, unflagged>>
listVars   == <<crlMem, crlFile, crlThere>>
viewVars   == <<vpc, seen>>
revokeVars == <<deviceVars, listVars, enforced, pc, target, told, viewVars,
                unlisted, wiped, forgotten>>
-----------------------------------------------------------------------------
Replies == {"none", "204", "500", "lost"}

RevokeInit ==
  /\ flagged = {} /\ uiSeen = {}
  /\ appending = FALSE /\ appSeen = {}
  /\ crlMem = {} /\ crlFile = {} /\ crlThere = FALSE
  /\ enforced = {}
  /\ pc = [c \in Click |-> "idle"]
  /\ target \in [Click -> Device]
  /\ told = [c \in Click |-> "none"]
  /\ vpc = [v \in View |-> "idle"]
  /\ seen = [v \in View |-> {}]
  /\ unflagged = {} /\ unlisted = {} /\ wiped = {} /\ forgotten = {}

FinishClick(c, from, status) == /\ pc[c] = from
                                /\ pc' = [pc EXCEPT ![c] = "done"]
                                /\ told' = [told EXCEPT ![c] = status]

Saving   == {c \in Click : pc[c] = "save"}
InFlight == {c \in Click : pc[c] = "list"}

(* DeviceStore.Revoke takes s.mu and reads devices.json. A record that is  *)
(* marked is not written again ...                                         *)
FindMarked(c) ==
  /\ pc[c] = "idle" /\ Saving = {}
  /\ target[c] \in flagged
  /\ pc' = [pc EXCEPT ![c] = "list"]
  /\ UNCHANGED <<deviceVars, listVars, enforced, target, told, viewVars,
                 unlisted, wiped, forgotten>>

(* ... and any other is about to be, in what was read of the file.         *)
FindUnmarked(c) ==
  /\ pc[c] = "idle" /\ Saving = {}
  /\ target[c] \notin flagged
  /\ pc' = [pc EXCEPT ![c] = "save"]
  /\ uiSeen' = flagged
  /\ UNCHANGED <<flagged, appendVars, unflagged, listVars, enforced, target,
                 told, viewVars, unlisted, wiped, forgotten>>

(* Variant: the CRL is left to a later repair, and the admin is told 204.  *)
SaveMarkOnly(c) ==
  /\ FinishClick(c, "save", "204")
  /\ flagged' = uiSeen \cup {target[c]}
  /\ unflagged' = unflagged \ flagged'
  /\ uiSeen' = {}
  /\ UNCHANGED <<appendVars, listVars, enforced, target, viewVars, unlisted,
                 wiped, forgotten>>

(* The file is replaced by what was read with the record marked. s.mu is   *)
(* dropped before the list is touched.                                     *)
SaveMark(c) ==
  /\ pc[c] = "save"
  /\ pc' = [pc EXCEPT ![c] = "list"]
  /\ flagged' = uiSeen \cup {target[c]}
  /\ unflagged' = unflagged \ flagged'
  /\ uiSeen' = {}
  /\ UNCHANGED <<appendVars, listVars, enforced, target, told, viewVars,
                 unlisted, wiped, forgotten>>

(* devices.json could not be read, parsed or saved. The mark that stays in *)
(* memory is overwritten by the next re-read.                              *)
FailFlag(c) ==
  /\ \E from \in {"idle", "save"} : FinishClick(c, from, "500")
  /\ uiSeen' = IF pc[c] = "save" THEN {} ELSE uiSeen
  /\ UNCHANGED <<flagged, appendVars, unflagged, listVars, enforced, target,
                 viewVars, unlisted, wiped, forgotten>>

(* appendDevice of tls-proxy, under the flock of devices.json, so one at a *)
(* time: the file is read ...                                              *)
AppendReads ==
  /\ ~ appending
  /\ appending' = TRUE
  /\ appSeen' = flagged
  /\ UNCHANGED <<flagged, uiSeen, unflagged, listVars, enforced, pc, target,
                 told, viewVars, unlisted, wiped, forgotten>>

(* ... and what was read replaces it, with the new record at the end.      *)
AppendWrites ==
  /\ appending
  /\ appending' = FALSE
  /\ flagged' = appSeen
  /\ unflagged' = unflagged \cup (flagged \ appSeen)
  /\ appSeen' = {}
  /\ UNCHANGED <<uiSeen, listVars, enforced, pc, target, told, viewVars,
                 unlisted, wiped, forgotten>>

(* A failed write, or a stop of tls-proxy.                                 *)
AppendFails ==
  /\ appending
  /\ appending' = FALSE
  /\ appSeen' = {}
  /\ UNCHANGED <<flagged, uiSeen, unflagged, listVars, enforced, pc, target,
                 told, viewVars, unlisted, wiped, forgotten>>

(* Variant: a second click is a conflict, a status no caller handles.      *)
AlreadyListedConflict(c) ==
  /\ target[c] \in crlMem
  /\ FinishClick(c, "list", "409")
  /\ UNCHANGED <<deviceVars, listVars, enforced, target, viewVars, unlisted,
                 wiped, forgotten>>

(* CRLStore.Add: a serial the list in memory has is not written again.     *)
AlreadyListed(c) ==
  /\ target[c] \in crlMem
  /\ FinishClick(c, "list", "204")
  /\ UNCHANGED <<deviceVars, listVars, enforced, target, viewVars, unlisted,
                 wiped, forgotten>>

(* ... otherwise it is appended and the whole list replaces the file.      *)
ListSerial(c) ==
  /\ target[c] \notin crlMem
  /\ FinishClick(c, "list", "204")
  /\ crlMem' = crlMem \cup {target[c]}
  /\ crlFile' = crlMem'
  /\ crlThere' = TRUE
  /\ unlisted' = unlisted \ crlFile'
  /\ wiped' = wiped \ crlFile'
  /\ forgotten' = forgotten \ crlFile'
  /\ UNCHANGED <<deviceVars, enforced, target, viewVars>>

(* The save failed: 500, and the serial stays in the list in memory.       *)
FailList(c) ==
  /\ target[c] \notin crlMem
  /\ FinishClick(c, "list", "500")
  /\ crlMem' = crlMem \cup {target[c]}
  /\ unlisted' = unlisted \cup ({target[c]} \ crlFile)
  /\ UNCHANGED <<deviceVars, crlFile, crlThere, enforced, target, viewVars,
                 wiped, forgotten>>

(* GET /api/revoked calls CRLStore.Reload: load reads the file, before it  *)
(* takes the mutex; if the file is missing or empty it returns there ...   *)
LoadReadsCRL(v) ==
  /\ vpc[v] = "idle"
  /\ crlThere
  /\ vpc' = [vpc EXCEPT ![v] = "read"]
  /\ seen' = [seen EXCEPT ![v] = crlFile]
  /\ UNCHANGED <<deviceVars, listVars, enforced, pc, target, told, unlisted,
                 wiped, forgotten>>

(* ... and the list it read becomes the list in memory.                    *)
LoadSetsCRL(v) ==
  /\ vpc[v] = "read"
  /\ crlMem' = seen[v]
  /\ forgotten' = (forgotten \cup (crlMem \ seen[v])) \ (crlFile \cap seen[v])
  /\ vpc' = [vpc EXCEPT ![v] = "idle"]
  /\ seen' = [seen EXCEPT ![v] = {}]
  /\ UNCHANGED <<deviceVars, crlFile, crlThere, enforced, pc, target, told,
                 unlisted, wiped>>

(* The requests of a webui that stops get no answer.                       *)
WebuiStops ==
  LET cut == Saving \cup InFlight IN
  /\ pc' = [c \in Click |-> IF c \in cut THEN "done" ELSE pc[c]]
  /\ told' = [c \in Click |-> IF c \in cut THEN "lost" ELSE told[c]]
  /\ uiSeen' = {}
  /\ vpc' = [v \in View |-> "idle"]
  /\ seen' = [v \in View |-> {}]
  /\ unlisted' = unlisted \cup ({target[c] : c \in InFlight} \ crlFile)
  /\ UNCHANGED <<flagged, appendVars, unflagged, crlFile, crlThere, enforced,
                 target, wiped>>

(* Variant: newCRLStore does not read the file.                            *)
RestartCRLStoreEmpty ==
  /\ WebuiStops
  /\ crlMem' = {}
  /\ forgotten' = forgotten \ crlFile

(* webui stops and starts again: newCRLStore reads the file.               *)
RestartCRLStore ==
  /\ WebuiStops
  /\ crlMem' = crlFile
  /\ forgotten' = forgotten \ crlFile

(* An operator removes or truncates revoked-serials.json.                  *)
WipeCRL ==
  /\ crlThere
  /\ crlThere' = FALSE
  /\ crlFile' = {}
  /\ wiped' = wiped \cup crlFile
  /\ UNCHANGED <<deviceVars, crlMem, enforced, pc, target, told, viewVars,
                 unlisted, forgotten>>

(* Variant: the map is emptied before the file is read, and a read error   *)
(* leaves it empty.                                                        *)
ReloadCRLFromNothing ==
  /\ enforced' \in {crlFile, {}}
  /\ UNCHANGED <<deviceVars, listVars, pc, target, told, viewVars, unlisted,
                 wiped, forgotten>>

(* Variant: only the first load fills the map.                             *)
ReloadCRLOnce ==
  /\ enforced' = IF enforced = {} THEN crlFile ELSE enforced
  /\ UNCHANGED <<deviceVars, listVars, pc, target, told, viewVars, unlisted,
                 wiped, forgotten>>

(* tls-proxy's ticker, or its start: reloadFrom swaps the map for what the *)
(* file holds, nothing if it is missing or empty. A read or parse error    *)
(* keeps the old map.                                                      *)
ReloadCRL ==
  /\ enforced' = crlFile
  /\ UNCHANGED <<deviceVars, listVars, pc, target, told, viewVars, unlisted,
                 wiped, forgotten>>

(* What makeRevocationVerifier answers in a full handshake.                *)
HandshakeAccepts(d) == d \notin enforced

Revoke(c) == \/ FindMarked(c) \/ FindUnmarked(c) \/ SaveMark(c) \/ FailFlag(c)
             \/ AlreadyListed(c) \/ ListSerial(c) \/ FailList(c)

AppendStep == AppendReads \/ AppendWrites \/ AppendFails

RevokeNext == \/ \E c \in Click : Revoke(c)
              \/ AppendStep
              \/ \E v \in View : LoadReadsCRL(v) \/ LoadSetsCRL(v)
              \/ RestartCRLStore \/ WipeCRL \/ ReloadCRL

(* The ticker of StartReloader never stops, and the file is readable.      *)
RevokeSpec == /\ RevokeInit /\ [][RevokeNext]_revokeVars
              /\ WF_revokeVars(ReloadCRL)
-----------------------------------------------------------------------------
(* Types of the state of the revocation path.                              *)
RevokeTypeOK ==
  /\ flagged \subseteq Device /\ uiSeen \subseteq Device /\ appSeen \subseteq Device
  /\ crlMem \subseteq Device /\ crlFile \subseteq Device /\ enforced \subseteq Device
  /\ unflagged \subseteq Device /\ unlisted \subseteq Device
  /\ wiped \subseteq Device /\ forgotten \subseteq Device
  /\ appending \in BOOLEAN /\ crlThere \in BOOLEAN
  /\ pc \in [Click -> {"idle", "save", "list", "done"}]
  /\ target \in [Click -> Device]
  /\ told \in [Click -> Replies]
  /\ vpc \in [View -> {"idle", "read"}]
  /\ seen \in [View -> SUBSET Device]

(* devices.json and revoked-serials.json agree about every device: a       *)
(* listed serial has a record that says revoked, unless an append of       *)
(* tls-proxy wrote that record back as it was before; and a record that    *)
(* says revoked is listed, or the request that marked it is still on its   *)
(* way to the list, or its own listing failed or was cut off, or it was in *)
(* the file when an operator wiped it, or a load made the list in memory   *)
(* forget it. Each exception is of that device and ends when a save of     *)
(* the list contains its serial again.                                     *)
FlagAndListAgree ==
  /\ crlFile \subseteq flagged \cup unflagged
  /\ flagged \subseteq crlFile \cup {target[c] : c \in InFlight}
                     \cup unlisted \cup wiped \cup forgotten

(* Add rewrites the whole file from memory, after failed saves, restarts   *)
(* and loads alike, and drops no serial another request put there, unless  *)
(* a load that had read the file before that request put an older list     *)
(* into memory after it.                                                   *)
ListedStaysListed ==
  [][ crlFile \ forgotten \subseteq crlFile' \/ WipeCRL ]_revokeVars

(* A serial tls-proxy has begun to refuse is refused for good: no reload,  *)
(* restart of either process or failed save lets it in again, unless it    *)
(* was wiped from the file or forgotten and not listed since.              *)
RefusedStaysRefused ==
  [][ \A d \in Device : HandshakeAccepts(d)' =>
        HandshakeAccepts(d) \/ d \in wiped \/ d \in forgotten ]_revokeVars

(* tls-proxy polls the file: a listed serial is refused in the end, with   *)
(* the same exceptions.                                                    *)
ListedIsRefused ==
  \A d \in Device :
    d \in crlFile ~> (~ HandshakeAccepts(d) \/ d \in wiped \/ d \in forgotten)
-----------------------------------------------------------------------------
(* tls-proxy/devicestore.go:9-11 says that webui's read-modify-write paths *)
(* (Revoke / UnRevoke / TouchLastSeen) "are serialised against tls-proxy's *)
(* enrollment append": a record webui marked revoked stays so.             *)
RevokedStaysFlagged == [][ flagged \subseteq flagged' ]_revokeVars

(* webui/devicestore.go:163-165: re-revoking a device "still re-inserts    *)
(* into the CRL on the off chance the CRL was wiped": whoever is told that *)
(* the device is revoked finds its serial in the file.                     *)
AnsweredIsListed ==
  [][ \A c \in Click : told[c] = "none" /\ told'[c] = "204" =>
                        target[c] \in crlFile' ]_revokeVars

(* webui/crlstore.go:34: "CRLStore is a thread-safe, file-backed list of   *)
(* revoked client-certificate serials": whatever requests run side by      *)
(* side, a serial leaves the file only by a wipe.                          *)
CRLOnlyGrows ==
  [][ crlFile \subseteq crlFile' \/ WipeCRL ]_revokeVars
=============================================================================
