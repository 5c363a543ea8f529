# A verification project for ai-scan-interceptor

TLA+ specifications of the stateful parts of the gateway, checked with TLC on
small instances, and theorems about them checked with TLAPS for every instance.
Paths of source files are relative to `src/`.

## 1. The system

Four programs, which share two directories and otherwise talk over the network:

| program | role | files it writes |
|---|---|---|
| `tls-proxy` | intercepting proxy; enrolls devices (`POST /enroll`) and checks their client certificates (mTLS) | `/config/enroll-tokens.json`, `/config/devices.json` |
| `webui` | dashboard: accounts, enrollment tokens, devices, revocations, rules, policy, logs | `/config/users.json`, `enroll-tokens.json`, `devices.json`, `revoked-serials.json`, `org-ca.*`, `policy.json`, `rules.json`, `notification.json`, `settings.json`; deletes old `/logs/*.jsonl` |
| `icap-server` | inspects the prompts squid and tls-proxy send it, masks or blocks, logs, notifies, forwards to a SIEM | `/logs/prompts_*.jsonl`, seeds `rules.json` and `policy.json` |
| `connect` | agent on the user's machine: enrolls, forwards traffic, keeps the environment variables in place | the agent's key and certificate, rc files |

Squid, its entry script and the policy YAML are configuration of third-party
programs.

### Components

State, operations, interactions, what is hard, and what makes each correct.

* **Enrollment endpoint** (`tls-proxy/enroll.go`, `devicestore.go`,
  `filelock.go`). State: the token file, the device file, two lock files, the
  mutex `enrollTokensMu`, one goroutine per request. A request validates,
  consumes the token under mutex and flock, signs, appends the device under the
  other flock, replies. Shared with webui: both files and both lock files. Hard:
  parallel requests, lock timeouts, failed writes, a stop between any two steps.
  Correct: a token buys at most one certificate; its consumption is on disk
  first; no append loses a record; every request is answered.
* **Certificate revocation** (`webui/devicestore.go`, `webui/crlstore.go`,
  `tls-proxy/crl.go`, `tls-proxy/mtls.go`, `tls-proxy/devicestore.go`). State:
  the record's flag, the CRL in webui's memory, the CRL file, the set tls-proxy
  enforces. Hard: two files and two mutexes for one operation, a second program
  that rewrites `devices.json` under another lock, whole-file rewrites from
  memory, polling, a load that reads outside the mutex. Correct: flag and list agree, what is listed
  stays listed, what is refused stays refused, what is listed is refused in the
  end.
* **Accounts and sessions** (`webui/auth.go`, `webui/handler.go`,
  `webui/main.go`). State: accounts in memory and in `users.json`, sessions and
  lockouts in memory. Hard: handlers of several locked calls, saves that fail,
  commands that run as processes of their own. Correct: sessions follow their
  accounts, an admin remains, a restart brings back the accounts.
* **SIEM exporter** (`icap-server/siem/`). State: a bounded channel, two
  workers. Hard: full channel, slow SIEM, shutdown while requests are served.
  Correct: bounded, nothing lost or repeated except by the documented drop,
  `Close` drains and returns.
* **Enrollment tokens of webui** (`webui/enrolltoken.go`). State: the token file
  under mutex and flock. Hard: the file's format is also tls-proxy's.
* **Organization CA** (`webui/orgca.go`, read by `tls-proxy/mtls.go` and
  `tls-proxy/enroll.go`). State: a certificate and a key file, what each program
  holds of them. Hard: two files for one pair, two readers at different moments,
  a stop anywhere. Correct: a CA that signed is not replaced, enrolled devices
  are accepted, an endpoint that serves can sign, both programs come up.
* **Rules** (`webui/handler.go`, `icap-server/detection/rules_store.go`,
  `rules_reloader.go`) and **policy** (`webui/handler.go`,
  `icap-server/policy/config.go`). State: JSON files that webui rewrites and the
  scanning programs poll and seed. Hard: unlocked read-modify-write, writes that
  truncate first, detection of changes by modification time, seeding that looks
  and writes in two steps. Correct: ids stay unique, half a file is never in
  force, an acknowledged change stays and comes into force.
* **Enforcement** (`icap-server/icap/handler.go`, `tls-proxy/main.go`,
  `icap-server/detection/`, `icap-server/notification/`). From one request:
  detect, decide, log, then pass, mask, refuse or alert. Hard: rules and policy
  that change in the middle, a stop between the log entry and the reply.
  Correct: the log says what happened, what was in force all along is applied,
  an alert does no harm.
* **Prompt log** (`icap-server/storage/logger.go`, `webui/logsettings.go`,
  `webui/handler.go`). State: a directory of files, per program the open one and
  the count of bytes written to it, webui's retention. Two programs append and
  rotate; webui removes old files and reads the others. Hard: names that are
  seconds, a write that fails in the middle of a line, a rotation that fails
  half-way, a removal of a file that is open, a cap on the files read. Correct: what `Write` acknowledged is shown until it is
  old, with named exceptions; old files go.
* **ICAP server** (`icap-server/icap/server.go`). Connection loop and parsing.
* **Intercepting proxy** (`tls-proxy/main.go`). State: the certificate cache, from
  which the mTLS listener also takes its own certificate. Correct: what is said
  of enforcement; the listener shows a certificate that is valid.
* **Agent: forwarder** (`connect/proxy/forwarder.go`). State: a listener, one
  handler per connection with its upstream socket, two copiers per splice. Hard:
  shutdown while handlers dial, wait for an answer or copy; the end of one
  direction ends the other. Correct: after `ListenAndServe` returned nothing
  runs, an ended stream was delivered, a shutdown ends.
* **Agent: rc files and monitor** (`connect/envvars/unix.go`,
  `connect/monitor/monitor.go`, `connect/cmd/install.go`, `uninstall.go`).
  State: an rc file of the user with a managed block, a sibling temporary file.
  Hard: processes without a lock, kills between the steps of a rewrite, users
  who edit the same file. Correct: the user's lines stay, there is one whole
  block or none, the monitor restores it.
* **Agent: enrollment** (`connect/enroll/enroll.go`). Key, request, files.

The hazards each exposes, line by line, and the property that covers each, are
in `PROJECT.json` under `hazards`.

## 2. Modules

| module | what it is | its theorems |
|---|---|---|
| `OneTimeToken` | abstract: a token is redeemed by at most one request, which gets at most one certificate | |
| `Enroll` | `POST /enroll` step by step; implements `OneTimeToken` | `EnrollProofs` |
| `Revocation` | from the admin's click to the refused handshake | `WebuiProofs` |
| `OrgTrust` | the organization CA between webui and tls-proxy, the mTLS listener's certificate | `OrgTrustProofs` |
| `AsyncExporter` | the SIEM queue and its shutdown | `AsyncExporterProofs` |
| `Accounts` | accounts, sessions and the break-glass commands | `WebuiProofs` |
| `RulesFile` | `rules.json` between webui's handlers and icap-server | `RulesFileProofs` |
| `PolicyFile` | `policy.json` between webui and the scanning programs | with `Enforcement` |
| `Enforcement` | what becomes of a request, on top of `PolicyFile` | `EnforcementProofs` |
| `LogFiles` | the directory of the prompt log: two writers, one remover and reader | `LogFilesProofs` |
| `Forwarder` | the agent's local proxy and its shutdown | `ConnectProofs` |
| `RcFile` | the managed block: install, uninstall, monitor, user | `ConnectProofs` |
| `MC...` | an instance of each for TLC (symmetry of `Accounts`, bodies, sizes); the `.cfg` files give the constants | |

`WebuiProofs` and `ConnectProofs` each hold the proofs of two modules of one
program and extend both; `Revocation` and `Forwarder` therefore name their
specifications `RevokeSpec` and `ProxySpec`, and what belongs to them likewise
(`RevokeTypeOK`, `ProxyNext`, `connPc`).

Operators named in a comment as a *Variant* are mutated forms of the operator
that follows them: each shows that one property would notice one plausible
mistake in the code.

### Enroll

One goroutine per element of `Req`. `pc[r]` names the next step of
`handleEnroll`: `mutex` (`enrollTokensMu.Lock`), `tokenLock` (`WithFlock`),
`readTokens`, `writeTokens`, `sign`, `deviceLock`, `readDevices`,
`writeDevices`, `respond`. What a goroutine read from a file is in `tokenSnap`
and `deviceSnap`, so a write puts back what was read, as the code does.
The deferred unlocks are part of the step that leaves the locked region.
`Crash` stops tls-proxy between any two steps: the kernel drops its flocks, the
mutex is gone, clients see a broken connection. webui appears where it meets
these files: as a holder of the token flock, and as `DeviceStore.Revoke`, which
rewrites `devices.json` without one (`RevokeRead`, `RevokeWrite`).
File writes are atomic because both programs write a temporary file and rename
it. The token file is taken in the format tls-proxy reads; that webui writes
another one is section 6's `TokenFile`.

`OneTime == INSTANCE OneTimeToken WITH owner <- spentBy, issued <- signed` is
the refinement mapping: a token is redeemed by the step that renames the token
file, and issued by the signature.

### Revocation

`DeviceStore.Revoke` is `FindMarked` or `FindUnmarked` (the file is read under
`s.mu`, which a request in `save` holds), `SaveMark` (what was read, with the
record marked, replaces the file) and `FailFlag`; `AlreadyListed`, `ListSerial`
and `FailList` are `CRLStore.Add` under the other mutex. tls-proxy writes the same
`devices.json`: `AppendReads` and `AppendWrites` are the two halves of
`appendDevice`, whose flock `Revoke` does not take, so either may come between
the halves of `Revoke`, and an append may put back a record that is not marked.
`LoadReadsCRL`/`LoadSetsCRL` are the two halves of `CRLStore.load`: the file is
read before the mutex is taken. `RestartCRLStore` (`WebuiStops` and a new start)
may come between any two, `WipeCRL` is the operator's wipe that `Revoke`'s
comment reckons with, `ReloadCRL` is tls-proxy's ticker and its start. The
history variables name the exceptions of the properties, device by device:
`unflagged` (an append took the mark back), `unlisted` (a revocation that ended
between flag and list), `wiped`, and `forgotten` (an overtaken load dropped the
serial from memory). A serial leaves `unlisted`, `wiped` and `forgotten` when it
is saved to the list again, and `unflagged` when its record is marked again.

### AsyncExporter

`Send` takes one step per entry: into the channel or dropped. A worker receives,
posts (succeeds or fails), and leaves when the channel is closed and empty;
`BeginClose`, `AwaitWorker` and `Exit` are `Close` and the end of `main`.
`SendOnClosed` is the panic that Go specifies for a send on a closed channel; no
goroutine of icap-server recovers from it.

### Accounts

A login is `Authenticate`, `ReadRole` (the copy of `u.Role` into the new
session, outside the store's mutex), `InsertSession`. A change is `Admit` (the
role in the actor's session), `CountAdmins` for a deletion, `ApplySaved` or
`ApplyUnsaved` (the account under `UserStore.mu`, with the save), and
`SweepSessions` (`DeleteByUserID`). A password is named by the request that set
it, so that "the password in force" can be compared. `GetByID` and `AdminCount`
are two locked reads and one step here: what they see of each other's gap, a
single read at the later moment also sees. `Torn` is `users.json` after a failed
`os.WriteFile`, which truncates first. `set-password` and `unlock-user` load the
file in one step and write it in another. The limit per IP address only refuses
logins, which `RefuseLogin` covers.

### RulesFile

A handler of `/api/rules` is `BeginEdit` (`readRules`, the check of the id, the
change of its copy), `OpenRules` (`os.WriteFile`'s open with O_TRUNC) and
`FillRules` (its write); `RefuseEdit` and `FailRules` are its early returns and
errors. No lock covers them, so all handlers interleave, with each other and
with `SeedRules`. `Torn` is a file that does not parse; `spoilt` marks a handler
that will write over bytes another one put there meanwhile, so that a longer
rest may stay behind its own. The reloader is `StatRules`, `LoadRules` and
`SetActive`; `newer` is the outcome of comparing modification times, and `Touch`
lets a change fall into the clock tick of the one before. webui's `RuleEntry`
has no `mask_replacement`: `Mirror` drops it from every entry it reads. `before`,
`missed` and `seeded` are histories that the properties name. A request has
truncated the file from `OpenRules` on, whatever it answers (`Rewrote`): one that
was refused, or failed before, excuses nothing.

### PolicyFile and Enforcement

`PUT /api/policy` is `BeginPut`, `OpenPolicy`, `FillPolicy`, `FailPut`, as above;
`LoadPolicy`, `LoadWritesDefault` and `ReloadPolicy` are `policy.Config`. Two
programs use that package. The module follows one of them and keeps of the other
the write of a default, the only thing it does to the file.

`Enforcement` follows the same program, chosen by `program`. `hpc[q]` says where
the handler of request `q` is: `detect`, `mode`, `log`, `act`, `mask`. `Arrive` is the
request read and handed to `ServeREQMOD` or `interceptTLS`; `Detect`,
`ChooseMode` and `WriteLog` follow in this order in both; `PassOn`, `Block`,
`Warn` and `BeginMask` are the arms of the switch on the mode. Masking takes the
strings of a body one by one (`MaskPart`), because `applyMaskPatterns` reads the
active rules for each. Between any two steps the rules or the policy may be
replaced (`ReplaceRules`, `Reload`) or the program may stop (`Stop`): squid has
`bypass=1`, so a request of icap-server passes `unscanned`; one of tls-proxy is
`broken`. An alert is a goroutine per channel, `SlackSends` and `EmailSends`; the
latter is the nil dereference of section 5.

A body is abstracted to the rules that match in the prompt and in the rest, the
rules that the context of a match suppresses, whether it is an upload, and whether
a file name or an opaque attachment triggers by itself. The formats of
the services decide which strings are the prompt; that is data here, but not
what the code does with it: a body is `blank` if the service's rule extracts no
prompt from it, and then passes whatever its file name is (`DetectNothing`); and
masking reaches only some strings (`reached`), of a Gemini form those of
`f.req`. The histories `always` (rules in force ever since the request arrived) and `modes`
(modes in force since) state what a handler may rely on.

### OrgTrust

A key pair is the number of its generation; each file holds one or is missing,
since both are written by rename. webui is `UiLoad` (both files are there) or
`UiGenerate`, `UiWriteCert`, `UiWriteKey`; tls-proxy is `PxListen` (the trust
pool of `startMTLSListener`, and the listener's certificate out of the cache),
`PxReadCert`, `PxReadKey` (`loadOrgCA` for the enrollment endpoint), and exits on
a missing file. `Enroll` signs if certificate and key belong together, which the
library checks. `UiStop`, `PxStop` and `LoseFile` come between any two. The
module takes `MTLS_ENABLED=true`: without mTLS there is no pool to agree with.
`mtlsCert` is when the listener's certificate was minted; a clock unit is 12
hours, and a certificate lives two. `torn` says that webui was stopped between
the two files. The certificates of intercepted hosts are left out: their cache is
a map behind one mutex, its entries live half as long as a certificate, and their
CA is no file that a program writes.

### LogFiles

A file is named by the clock value at which it was opened, so programs that open
one at the same time share it, each with its own count (`Opened` resets
`written`). `Logger.Write` is one of `Write`, `WriteFails`, `RotateAndWrite`,
`RotateAndWriteFails` and `RotateFails`: with or without a rotation, and the write
to the file takes the whole entry (`Append`), a part of it and then fails
(`AppendPiece`), or nothing (`AppendNothing`). A part leaves its file `ragged`: the
next entry is appended to it and is then one of the `merged`, whose line no
reader understands. `overlong` are the files that have a line longer than the
reader's buffer, which a part and what follows it may be together
(`Lengthened`). `RotateFails` is a rotation that closed the file and could not open
the next, after which writes go to a closed handle (`closed`) until one does not
fit again. The cleanup takes its cutoff in `CleanBegins` and goes name by name:
`CleanStats` finds a file old (`seen` is the time it found), `CleanRemoves`
removes it. `Set` clamps the retention, changes it in memory and truncates and
writes `settings.json`, which may fail and leave it `Torn`; `WebuiStarts` does not
start on such a file. `Shown` is what `readAllLogs` returns: the entries of the
files it reads, none of a file with a line longer than its buffer, none that is
merged. `orphaned` are files that were removed while a program had them open or
had written to them since the stat, `shortest` the shortest retention in force
since an entry was acknowledged.

### Forwarder

`Accept` starts a handler; `Cancel`, `CloseListener`, `AcceptFails` and `Return`
are the two goroutines of `ListenAndServe` at a shutdown. A handler goes through
`request`, `dial`, `inner` (the CONNECT inside the tunnel), `direct` (the
fallback of fail-open mode), `ack`, `splice`, `closed`; each step succeeds or
fails as the code's error paths do. A copier reads a chunk and writes it
(`CopierReads`, `CopierWrites`); when it ends it sets the read deadline of the
side it writes to (`EndCopier`), which ends the other one. Data is counted:
`sent`, `taken`, `put` per side say which chunks went where, `lost` which of them
a `bufio.Reader` kept. The peers send, stop reading, end their stream or go away
at any time.

### RcFile

A file is the sequence of its lines. `rewriteFile` is `ReadRc` (with `Strip`, the
text operation, and `Rewritten`), `OpenTmp`, `WriteTmp`, `Rename`; two processes
use the same temporary name, so what a descriptor points to (`fd`) matters: a
rename by the other process turns it into the rc file itself. `Strip` is
the regular expression: from a start marker to the next end marker, leftmost and
without overlap (`Covered`); the lines that no match covers stay in their order,
the k-th is found by counting (`Kept`, `KeptLine`). `LinesStay` is that the file
keeps the lines the user wrote (`Keeps`), `OneBlock` that the lines of the block
stand together, once, or no marker or variable is in the file (`Whole`). The monitor holds the configuration it loaded at its
start; `CheckAndRecover` compares the first block of the file with it. The user
adds lines, deletes markers and blocks; `Killed` stops a process anywhere. One
file stands for the list of candidates, which are rewritten one after another.
They are not checked independently: `CheckIntegrity` returns at the first one it
cannot read, and the monitor then recovers none. `unreadable` says that there is
such a one, and `Permit` changes it.

## 3. Runs

| run | instance | shows |
|---|---|---|
| `enroll` | 2 requests, 2 tokens | `SingleUse`, `SignedIsSpentOnDisk`, `AppendLosesNoRecord`, `ImplementsOneTimeToken`, `EveryRequestAnswered` hold |
| `revocation` | 3 devices, 3 revocations, 1 overlapping read, any appends | `FlagAndListAgree`, `ListedStaysListed`, `RefusedStaysRefused`, `ListedIsRefused` hold |
| `exporter` | 5 entries, 2 workers, channel of 2 | `PendingBounded`, `EntriesConserved`, `CleanExitDrains`, `CloseReturns` hold |
| `accounts` | 2 accounts, 2 logins, 2 changes, 1 command, lockout after 2 failures | `SessionsFollowAccounts`, `RestartKeepsAccounts`, `OnlyFormerAdminEmptiesAdmins` hold |
| `rules` | 2 ids, one of them built in, 2 requests | `OneEntryPerId`, `WholeRulesInForce`, `AcknowledgedRuleStays`, `FileComesIntoForce` hold |
| `enforcement` | 1 request with 6 bodies, 2 rules, 2 services, 2 PUTs, 2 policies, 2 rule sets | `AnsweredAsLogged`, `SteadyConfigurationIsEnforced`, `AcknowledgedPolicyStays`, `PolicyComesIntoForce` hold |
| `enforcement_alert` | the same | *violated*: `AlertsDoNotEndTheProgram` |
| `trust` | 4 clock units, 5 stops, 1 lost file | `IssuedStayCurrent`, `EnrolledAreAccepted`, `EndpointCanSign`, `BothComeToServe` hold |
| `trust_listener` | the same with 3 stops | *violated*: `ListenerIsValid` |
| `forwarder` | 1 connection, fail-open, sockets of 1 chunk, 2 chunks each way | `ReturnedIsQuiet`, `EndedStreamIsDelivered`, `ShutdownReturns` hold |
| `logs` | 1 program with 2 starts, 2 entries, one of them long, files of 2, a cap of 1 file, retentions of 1 and 2, clock up to 3, 1 failure | `EntriesAccountedFor`, `OldFilesGo` hold |
| `rcfile` | 2 lines of the user, 2 configurations, 2 commands, 2 edits or kills | `LinesStay`, `OneBlock`, `MonitorRestores` hold |

The type invariants of `Revocation`, `Accounts` and `RulesFile` are also checked
by their runs; those of all modules are theorems (`PolicyFile`'s as part of
`Enforcement`'s).

Bounds, and why they are enough:

* `Req`, `Click`, `Entry`, `Login`, `Change`, `Command`, `Edit`, `Put`, `Request`
  bound the number of requests of each kind; each element is one request that
  runs once. Two enrollments over two tokens may share a token or not, and the
  theorems say the same of any number; three revocations are what the loss of a
  serial takes (one to list, one overtaken, one to rewrite).
* `View` bounds overlapping reads of the CRL, not their number. Appends to
  `devices.json` are not bounded; the flock allows one at a time.
* `QueueCap = 2` and two workers (the code's number) with five entries fill the
  channel and both hands and still drop one.
* `MaxFailures = 2` (10 in the code): the count matters only in whether it is
  reached.
* `User` holds two ids, enough for two admins who remove each other and for an
  account that is created beside the first. A default admin for a store whose
  accounts are all deleted needs a third; that instance has five million states
  and was checked once, by hand, with the same outcome. The theorems are about
  any number of accounts.
* Two edits of `rules.json` are an overlapping pair or a later one after an
  earlier one; what a file can hold (two ids with every combination of the
  flags) is not bounded further.
* Requests to AI services meet only through the configuration and through
  `Stop`: `EnforcementProofs` shows that a step of one leaves all that belongs
  to another alone (`OthersUntouched`), so TLC takes one. The six bodies are a
  secret in the prompt with another in earlier turns, one whose match is
  suppressed, one in earlier turns only, one outside what masking reaches, and
  an upload with a telling name, with and without a prompt. The
  two policies differ in whether a service has its own mode and in which; the
  default adds `monitor`. The two rule sets differ in one rule.
* `OrgTrust`: five stops are one of webui between its two files, one of
  tls-proxy between its two reads, and three more of either; four clock units are
  twice the life of a certificate. Stops bound the crashes, so that liveness
  speaks of a system that is left alone in the end.
* `Forwarder`: connections meet in the listener and in the wait of `Return`,
  which the theorems cover for any number; one connection has all that happens
  within one. Two chunks are one in a copier's hand and one in a socket that is
  full with one. Fail-open has the longer path; its
  direct dial may fail too, which is where fail-close ends.
* `LogFiles`: two retentions, of which the smaller is the least that clamping
  allows and the larger the one of the start, so that it can be shortened and
  prolonged; a clock that outlives both; files that are full after two entries
  or one long one; a cap that is exceeded by a rotation or a second start; one
  failed write or rotation. Two entries are one and the one behind it, or the one
  a cleanup must not forget and one that rotates. A program that is restarted in
  the same clock unit appends to its file with a new count, as another program
  would. Two programs that write at the same time are in the theorem, which is
  about any number; that instance has nine million states and was checked for
  `EntriesAccountedFor` once, by hand, with the same outcome.
* `RcFile`: two commands are install with one configuration and with another,
  install and uninstall, or two at the same time as the monitor; two edits are
  a deleted marker with a line after it, or a kill in the middle and an edit.

Deadlock is checked for `Enroll` and `Revocation`, where webui or the ticker can
always take a step, and for `RulesFile`, where icap-server can always stop or
start. It is switched off for `AsyncExporter`, whose process ends, for
`Accounts`, where webui does not start on a torn `users.json`, for
`Enforcement`, where the scanning program does not start on a torn `policy.json`
and requests are bounded, and for the four modules in which the clock, the
commands or the connections are bounded and come to their end (`OrgTrust`,
`LogFiles`, `Forwarder`, `RcFile`).

### Fairness

* `Enroll`: weak fairness of each request's goroutine once the request has
  arrived. Go schedules goroutines, `WithFlock` polls until a deadline, and
  `sync.Mutex` is released by deferred calls. Nothing is assumed of webui (it
  may hold the flock for ever), of clients or of failures.
* `Revocation`: weak fairness of `ReloadCRL`, the ticker of `StartReloader`,
  which never stops, and that the file can be read from time to time.
* `AsyncExporter`: weak fairness of each worker (posts end by the HTTP client's
  10 s timeout) and of `Close`. Nobody has to send or to shut down.
* `RulesFile`, `Enforcement`: weak fairness of the reloader's steps (its
  goroutine and ticker run as long as the program); nothing makes an admin, a
  writer or a request go on, and nothing brings a stopped program back, which
  the properties `FileComesIntoForce` and `PolicyComesIntoForce` say.
* `OrgTrust`: weak fairness of the steps of both starts: `docker-compose.yml`
  restarts both services ("unless-stopped"), and a start does not wait for
  anything. No stop, loss, enrollment or intercepted request has to happen.
* `Forwarder`: weak fairness of what the scheduler and the deadlines in the code
  give (30 s to read the request, 10 s for the direct dial, the read deadline
  at the end of a copier). The dial to the upstream has to end only once the
  context is cancelled, as its TLS handshake has no timeout of its own, and the
  answer to the inner CONNECT need never come (`InnerFails` is fair only when
  the peer is gone): `ShutdownReturns` therefore assumes peers that let go
  (`LetGo`).
* `LogFiles`: weak fairness of time, of webui's restart and of the cleanup's
  steps and ticker. No program has to log.
* `RcFile`: weak fairness of a running process's next step and of the monitor's
  ticker. Nothing starts a process, and nobody has to edit.
* `Accounts`: none; only safety is stated.

## 4. What is proved

For every set of requests, tokens, devices, reads, users, logins, commands,
entries, workers, rules, services, bodies, policies, connections,
programs, lines and configurations, and for every size, life time and bound. Assumptions on
constants: `NoReq` and `Webui` are no requests and differ (`EnrollAssumption`);
the policies, bodies and rule sets offered are of their types, and there is at
least one body and one rule set (`OfferedAssumption`, `SeenAssumption`,
`InForceAssumption`); the built-in rules are some of the rules
(`RulesAssumption`); markers for "none", "torn" and "absent" are not values of
the kind they replace (`NoneAssumption`, `NoEntriesAssumption`); the user's
lines, the variables of a configuration and the two markers are different lines
(`LinesAssumption`); a socket takes at least one chunk
(`ProxyBoundsAssumption`); a certificate lives for some time (`LifeAssumption`);
entries and workers are finitely many (`ExporterAssumption`); and bounds and sizes are
natural numbers.

* `EnrollProofs`: `TypeCorrect`, `SingleUseHolds`, `SignedIsSpentHolds`,
  `Refinement` and `AppendHolds`. The properties are not inductive: that two
  certificates never share a token follows from an invariant that ties each
  `pc` to the locks it holds, each snapshot of the token file to the file as
  long as its flock is held (nobody else can have written it), and each spent
  token to the request that spent it. The device file has its own, smaller
  invariant: the holder of its flock and webui's revocation read a list whose
  records are all still there unless webui wrote. The refinement follows from
  the same invariant, one step of `Enroll` at a time.
* `WebuiProofs`, accounts: `TypeCorrect`, `SessionsFollowAccountsHolds`,
  `RestartKeepsAccountsHolds`, `OnlyFormerAdminHolds`. The property speaks of
  sessions that are open; a login works on a copy of its account before that.
  `UnderWayInv` says that the copy still agrees with the account, unless the
  history names the login (`raced`). That only a former admin can remove the
  last one follows from what `Admit` refuses: nobody demotes or deletes the own
  account (`ActorInv`), so an actor who is an admin when the change is applied is
  one afterwards. The count of admins in the code is not needed for it.
* `WebuiProofs`, revocation: `RevocationTypeCorrect`, `FlagAndListAgreeHolds`,
  `ListedStaysListedHolds`, `RefusedStaysRefusedHolds`. Every writer replaces a
  file by a copy it took earlier, so the invariant bounds each copy: what the
  list in memory and the lists read by overlapping loads have more or less than
  the file is in one of the histories (`MemoryInv`, `SeenInv`); an append has
  read no mark that is not there, and a revocation that is about to save has
  read all that are (`CopiesInv`: marks are made under one mutex and taken back
  only by appends); and only marked devices get to the list (`FlagInv`).
* `OrgTrustProofs`: `TypeCorrect`, `IssuedStayCurrentHolds`,
  `EnrolledAreAcceptedHolds`, `EndpointCanSignHolds`. The key file decides (`KeyInv`): it is written last, so once it exists it is the
  key of the certificate beside it, neither is replaced, and an issuer that
  serves holds it. The pool is read before there need be a key; `PoolInv` says
  that the certificate it and the issuer came from is still the one in the
  file, as long as webui was not stopped between the two.
* `AsyncExporterProofs`: `TypeCorrect`, `PendingBoundedHolds`,
  `EntriesConservedHolds`, `CleanExitDrainsHolds`. The places an entry can be in
  exclude one another (`Partition`); that needs that the channel holds nothing
  twice (`QueueInv`) and no two workers hold the same (`HandInv`). The
  cardinalities follow. `CloseInv` says what `Close` relies on: a worker that is
  done left an empty, closed channel.
* `RulesFileProofs`: `TypeCorrect`, `OneEntryPerIdHolds`,
  `WholeRulesInForceHolds`, `AcknowledgedRuleStaysHolds`. A list of rules is in
  the file, in the copy of each handler between its read and its write, and in
  what icap-server has read; the invariant says of each what the properties say
  of the file. An acknowledged rule (`AckInv`) is in the file and in every such
  copy except those of handlers that will be its excuse once they write: they
  overlapped the request, or change the same rule, or reset all.
* `EnforcementProofs`: `TypeCorrect`, `AnsweredAsLoggedHolds`,
  `SteadyConfigurationHolds`, `AcknowledgedPolicyStaysHolds`. The first two
  properties speak of requests that are
  answered; the invariant `Inv` says what a handler knows before: the mode it
  took is one that was in force (`ChosenOK`), its hits contain what the rules in
  force all along match (`DetectedOK`), its entry is the one of its mode
  (`LoggedOK`), the strings masked so far have nothing left that a rule in force
  all along masks (`MaskedOK`), and what is in force now is among what has been
  (`ConfigurationOK`). `Served` (no handler works while the program is down) is
  what makes the start of the program, which loads another policy, harmless.
  The proof has one lemma for each way a request can be affected: its own step,
  another request's, a reload, new rules, a stop, a step on the file.
  For the policy file `PolicyKept` says the same of the writers of
  `policy.json` that `AckInv` says of those of `rules.json`.
* `LogFilesProofs`: `TypeCorrect`, `EntriesAccountedForHolds`. The time of a file
  is not before that of its entries (`TimesInv`), the retention in force is not
  shorter than the shortest that an entry has lived through (`ShortInv`), so what
  lies before a run's cutoff is older than its own shortest retention
  (`CutoffInv`), also when the retention is prolonged during the run; and what a
  program has open is in the directory or was orphaned (`OpenInv`). So a removal
  that orphans nothing takes only old entries (`KeptInv`). Failed writes change
  the times of files, but no entry's.
* `ConnectProofs`, rc files: `TypeCorrect`, `LinesStayHolds`, `OneBlockHolds`.
  What is in the file, about to be written or already in the temporary file keeps
  the user's lines and has a whole block or none (`FileInv`), unless a marker was
  damaged or two processes rewrote at once; that the latter is in the history is
  `ProcessInv`. The step is `Strip`: in a file with one block at `a` it leaves
  the lines before `a` and those from `a + 3` on. Its lines are found by counting,
  so the lemmas compare cardinalities: the lines kept up to a place
  (`StripAround`, `StripWithout`), that every count below the total is reached
  (`RankReached`, by a least counterexample), and that what is kept has the
  user's lines in their order (`KeepsSelected`, `RewrittenFine`).
* `ConnectProofs`, forwarder: `ProxyTypeCorrect`, `ReturnedIsQuietHolds`,
  `EndedStreamIsDeliveredHolds`. Nobody is queued at a closed listener, so
  nothing starts after `Return` has seen all handlers end (`QuietInv`); the
  upstream socket belongs to the handler and the copiers to the splice
  (`OwnInv`); the chunk in a copier's hand is the only one neither lost nor
  written (`CountInv`); a deadline is the end of the other copier, and the first
  end needs a peer that is gone or a stream that was written (`EndInv`).

Only model-checked: liveness (`EveryRequestAnswered`, `ListedIsRefused`,
`CloseReturns`, `FileComesIntoForce`, `PolicyComesIntoForce`, `BothComeToServe`,
`ShutdownReturns`, `OldFilesGo`, `MonitorRestores`), because the prover does not
handle fairness and ENABLED. Every safety invariant and action property of a
passing run is a theorem. No module declares a RECURSIVE operator, and no proof
is an induction over data: what would be one is a count, or a least
counterexample.

## 5. Disagreements between the code and its documents

Two are runs with `expect: violation` and entries of `findings` in
`PROJECT.json`: the alert by mail that ends the scanning program
(`enforcement_alert`) and the mTLS listener's certificate that expires while it
listens (`trust_listener`).

Others are definitions that TLC refutes on the instance of the module's run, given
in place of its properties; each states a text:

| definition | text | what the code does |
|---|---|---|
| `Enroll.RetryableAfter503` | `enroll.go:259-261`, "surface 503 so the caller retries before the cert leaves the server" | the token is consumed by then; the retry is refused |
| `Enroll.PersistedStaysRecorded` | webui's `devicestore.go:85-86`, "so writes from tls-proxy are not lost" | `DeviceStore.Revoke` reads again, but without the flock, and loses the record that is appended after its read |
| `Revocation.RevokedStaysFlagged` | tls-proxy's `devicestore.go:9-11`, webui's paths "are serialised against tls-proxy's enrollment append" | an append writes a record back as it was before `Revoke`, which takes no flock, marked it |
| `Revocation.AnsweredIsListed` | `devicestore.go:163-165`, a repeated revocation "still re-inserts into the CRL" | a serial whose list save failed, or whose list was wiped, is still in memory: `Add` reports success and writes nothing |
| `Revocation.CRLOnlyGrows` | `crlstore.go:34`, "a thread-safe, file-backed list" | an overtaken load forgets a serial, and the next `Add` writes the file without it |
| `AsyncExporter.CloseDrains` | `siem/exporter.go:21`, "Close drains the queue" | a send during the shutdown panics and ends the process |
| `Accounts.ChangedAccountsHaveNoOldSession` | `handler.go:557` and `:578`, sessions are invalidated "so role takes effect immediately" | a login under way inserts its session after the sweep |
| `Accounts.LastAdminIsNotDeleted` | `handler.go:588`, "Prevent deleting the last admin" | two admins who delete or demote each other at the same time leave none |
| `Enforcement.SensitiveNameIsRefused` | `detector.go:86-87`, file names are checked "regardless of content", for what is "encrypted or otherwise unreadable" | `Detect` returns before that check when the service's rule extracts no prompt: the upload passes, without an entry |
| `LogFiles.YoungEntriesStay` | `docs/design_doc.md:280`, files beyond the retention are removed | a file that is open, or was written to since the stat, is removed with young entries |
| `LogFiles.RecordsAreLines` | `logger.go:34`, "Logger writes LogEntry records as JSON Lines" | a write that failed in the middle of a line leaves a piece, to which the next entry is appended; no reader understands the line |
| `LogFiles.CapKeepsLatest` | `handler.go:719`, "so the cap keeps the latest data" | names say when a file was opened, not when it was written |

The instance is that of the run; `CapKeepsLatest` takes one with two programs.

Others can be read off the modules' actions, or off the exceptions that the
properties which hold have to name:

* `set-password` and the running server write `users.json` from different copies
  (`SetPasswordLoad`, `SetPasswordSave`, `ApplySaved`): the server's next save
  undoes the reset that `docs/design_doc.md:260-262` describes.
* `unlock-user` (`UnlockUserCommand`) changes nothing in the running server,
  though `docs/design_doc.md:257-258` gives it as the way to release a lockout.
* A user's change of the own password is refused by the route (`Refuse`), though
  `handler.go:540` allows it.
* A sensitive file name is refused only under block or mask (`Block`,
  `Escalated`), though `docs/design_doc.md:185` says regardless of the policy.
* In mode mask the entry says `masked` also when every rule that matched has
  `MaskBody` off and the body goes on as it came: `SteadyConfigurationIsEnforced`
  can only promise what a *masking* rule finds.
* webui drops `mask_replacement` from every rule at any edit (`Mirror`), though
  its `RuleEntry` "mirrors the detection.RuleEntry structure" (`handler.go:787`).
* Overlapping writes may leave `rules.json` or `policy.json` unparsable
  (`spoilt`); with such a policy neither scanning program starts (`LoadPolicy`).
  A `settings.json` whose write failed keeps webui from starting
  (`logsettings.go:68`, `Set`, `WebuiStarts`), as a torn `users.json` does.
* `SeedRulesFile` and `policy.Config.Load` look for the file and write the default
  in two steps: a change that was acknowledged in between is undone
  (`seeded`, `defaulted`).
* A file restored with an older modification time is not reloaded, though
  `rules_reloader.go:10` says "whenever the file's modification time changes"; the
  model has only times that do not go back.
* A rotation that cannot open the next file leaves the logger with a closed one
  (`logger.go:81-97`, `RotateFails`): every entry that would fit is lost with an
  error until one does not fit.
* One line longer than 1 MB hides its whole file from the dashboard
  (`handler.go:1094-1117` and `:735-739`, `Parsed`, `Shown`).
* Each `Apply` leaves one more blank line before the block (`Rewritten`), though
  `unix.go:26-27` says that calls "don't accumulate blank lines".
* The monitor loads `config.json` once: it puts back a block that `uninstall`
  removed, and reverts that of a newer `install` (`MonitorStarts`,
  `CheckAndRecover`; `MonitorRestores` says so of the configuration *it loaded*).
* One rc file that cannot be read stops the recovery of all the others
  (`unix.go:218`, `unreadable`; premise of `MonitorRestores`).
* Two processes that rewrite an rc file share the temporary name
  (`unix.go:144`): a rename may publish a half-written file (`raced`).
* The agent's proxy drops what its `bufio.Reader`s read ahead of the splice
  (`forwarder.go:165` and `:245`; `lost`); tls-proxy keeps it.
* The wait for the answer to the inner CONNECT has no deadline and does not look
  at the context (`forwarder.go:246`): a silent upstream holds a shutdown
  (`LetGo`).
* A client that ends its side of a connection and waits for the rest of the
  answer is cut off by the other copier's deadline (`forwarder.go:269-270`).
* A dial that a shutdown cancels is a failed dial: in fail-open mode the
  connection then goes directly, past the inspection (`Fallback`).
* webui writes `enroll-tokens.json` as an array with hashed tokens
  (`enrolltoken.go:30-49`), tls-proxy reads an object with plaintext ones
  (`enroll.go:64-81`); the agent sends "token" and expects "cert_pem"
  (`connect/enroll/enroll.go:141`), the endpoint reads "enrollment_token" and
  answers "cert" (`enroll.go:84-94`). `Enroll` takes each file and request in the
  endpoint's format.

## 6. Plan

In this order; each with its runs.

1. `TokenFile`: both programs' readers and writers of `enroll-tokens.json`
   over the formats a file can have, with `max_uses` and `revoked`; `AgentEnroll`:
   the agent's key, request, answer and files against the endpoint, on top of it.
2. `RateLimit` (the window per IP address of logins), `Icap` (the connection
   loop, the encapsulated header and chunks, the response scan), `SerialHex`
   (both programs' normalisation of serials).

Not modelled, and not planned: regular expressions and their quality, the
relaying of HTTP and TLS records, certificate contents, SMTP and webhook
delivery, the dashboard's pages, read-only statistics, trust-store tools, squid
and shell scripts. TLS session resumption and connections that are open when
a serial is revoked depend on the Go library and are not covered by the
handshake hook that `Revocation` models. The agent's forwarder and monitor are
modelled from their loops on; how they read their configuration and
certificates at the start is not.
