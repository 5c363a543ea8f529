------------------------------ MODULE Accounts ------------------------------
(***************************************************************************)
(* The dashboard's accounts and sessions (webui/auth.go, the login and     *)
(* /api/users handlers of webui/handler.go, the break-glass commands of    *)
(* webui/main.go).                                                         *)
(*                                                                         *)
(* UserStore keeps the accounts in memory and rewrites users.json after    *)
(* each change; SessionStore keeps the sessions, in memory only. Each      *)
(* method holds its store's mutex, but a handler calls several of them: a  *)
(* login authenticates, reads the role and inserts the session; a change   *)
(* of an account reads the actor's session, perhaps counts the admins,     *)
(* changes the account and then drops the sessions of its user.            *)
(*                                                                         *)
(* set-password and unlock-user are processes of their own: they load      *)
(* users.json while the server runs, with no lock between the two.         *)
(*                                                                         *)
(* A password is named by the request that set it. A session is named by   *)
(* its login. The rate limit per IP address is left out: it can only       *)
(* refuse a login.                                                         *)
(***************************************************************************)
EXTENDS Naturals, FiniteSets

CONSTANTS User,         \* ids generateToken may give to accounts
          Login,        \* POST /api/auth/login requests (a bound)
          Change,       \* requests to /api/users and /api/users/{id} (a bound)
          MaxFailures,  \* failed logins that lock an account (10 in the code)
          First,        \* the password an account has at the start
          Cli,          \* the password set-password sets
          Command,      \* set-password and unlock-user processes (a bound)
          NoUser,       \* no account
          Torn          \* users.json after a write that failed half way

ASSUME AccountsAssumption == /\ MaxFailures \in Nat \ {0}
                             /\ NoUser \notin User
                             /\ IsFiniteSet(User)

VARIABLES
  (* the running webui *)
  users,     \* UserStore.users; the User object of a deleted id is kept
  failures,  \* FailedLogins
  locked,    \* ids whose LockedUntil is in the future
  lpc,       \* where each login is; "live": its session is in SessionStore
  sess,      \* what its Session holds, with the password it used
  cpc,       \* where each change is
  chg,       \* what it asks for, of whom, with which session
  reply,     \* how it was answered
  (* /config/users.json and the process that resets a password *)
  disk,
  kpc,       \* where each command is
  kuser,     \* whose password it is about to write
  kstore,    \* the store it loaded
  (* history *)
  raced,     \* logins under way when their account changed, and sessions
             \* open when a change of their account could not be saved
  unsaved,   \* ids whose change is in memory and could not be saved
  cliWrote   \* a command wrote users.json since webui started

accountVars == <<users, failures, locked>>
sessionVars == <<lpc, sess, raced>>
changeVars  == <<cpc, chg, reply>>
cliVars     == <<kpc, kuser, kstore, cliWrote>>
vars == <<users, failures, locked, lpc, sess, cpc, chg, reply, disk, kpc,
          kuser, kstore, raced, unsaved, cliWrote>>
-----------------------------------------------------------------------------
Roles     == {"admin", "user"}
Passwords == Change \cup {First, Cli}
Account   == [state : {"unknown", "present", "deleted"}, role : Roles,
              password : Passwords]
Store     == [User -> Account]
Kinds     == {"password", "promote", "demote", "delete", "unlock", "create"}

Present(store) == {u \in User : store[u].state = "present"}
Unknown(store) == {u \in User : store[u].state = "unknown"}

(* The logins whose session is in SessionStore.                            *)
live == {l \in Login : lpc[l] = "live"}

(* The ids AdminCount counts.                                              *)
Admins(store) == {u \in Present(store) : store[u].role = "admin"}

NewAccount(role, password) ==
  [state |-> "present", role |-> role, password |-> password]

NoAccount == [state |-> "unknown", role |-> "user", password |-> First]
NoAccounts == [u \in User |-> NoAccount]
NoSession == [user |-> NoUser, role |-> "user", password |-> First]

(* newUserStore: the accounts of the file, nothing (a fatal error) if it   *)
(* does not parse; if it has none, a default admin with a fresh id, saved  *)
(* at once.                                                                *)
NewUserStores(file) ==
  IF file = Torn THEN {}
  ELSE IF Present(file) # {} THEN {file}
  ELSE {[file EXCEPT ![u] = NewAccount("admin", First)] : u \in Unknown(file)}

Init ==
  /\ \E a \in User : \E others \in [User \ {a} -> {NewAccount("admin", First),
                                                   NewAccount("user", First),
                                                   NoAccount}] :
        users = [u \in User |-> IF u = a THEN NewAccount("admin", First)
                                         ELSE others[u]]
  /\ failures = [u \in User |-> 0]
  /\ locked = {}
  /\ lpc = [l \in Login |-> "idle"]
  /\ sess = [l \in Login |-> NoSession]
  /\ cpc = [c \in Change |-> "idle"]
  /\ chg = [c \in Change |->
              [kind |-> "unlock", target |-> NoUser, actor |-> NoUser]]
  /\ reply = [c \in Change |-> "none"]
  /\ disk = users
  /\ kpc = [k \in Command |-> "idle"]
  /\ kuser = [k \in Command |-> NoUser]
  /\ kstore = [k \in Command |-> NoAccounts]
  /\ raced = {}
  /\ unsaved = {}
  /\ cliWrote = FALSE
-----------------------------------------------------------------------------
(* handleLogin.                                                            *)

(* Refused before or by Authenticate with nothing changed: rate limit,     *)
(* malformed body, unknown name, locked account.                           *)
RefuseLogin(l) ==
  /\ lpc[l] = "idle"
  /\ lpc' = [lpc EXCEPT ![l] = "done"]
  /\ UNCHANGED <<accountVars, sess, raced, changeVars, disk, cliVars, unsaved>>

(* Authenticate: the wrong password; the MaxFailures-th locks the account. *)
FailLogin(l, u) ==
  /\ lpc[l] = "idle"
  /\ u \in Present(users) \ locked
  /\ lpc' = [lpc EXCEPT ![l] = "done"]
  /\ failures' = [failures EXCEPT ![u] = @ + 1]
  /\ locked' = IF failures'[u] >= MaxFailures THEN locked \cup {u} ELSE locked
  /\ UNCHANGED <<users, sess, raced, changeVars, disk, cliVars, unsaved>>

(* Authenticate: the right one.                                            *)
Authenticate(l, u) ==
  /\ lpc[l] = "idle"
  /\ u \in Present(users) \ locked
  /\ lpc' = [lpc EXCEPT ![l] = "readRole"]
  /\ sess' = [sess EXCEPT ![l].user = u, ![l].password = users[u].password]
  /\ failures' = [failures EXCEPT ![u] = 0]
  /\ UNCHANGED <<users, locked, raced, changeVars, disk, cliVars, unsaved>>

(* SessionStore.Create copies u.Role from the User object, which UpdateRole *)
(* may be writing: a torn string is not "admin", as one of the two is not. *)
ReadRole(l) ==
  /\ lpc[l] = "readRole"
  /\ lpc' = [lpc EXCEPT ![l] = "insert"]
  /\ sess' = [sess EXCEPT ![l].role = users[sess[l].user].role]
  /\ UNCHANGED <<accountVars, raced, changeVars, disk, cliVars, unsaved>>

(* ... and inserts the session under the session mutex.                    *)
InsertSession(l) ==
  /\ lpc[l] = "insert"
  /\ lpc' = [lpc EXCEPT ![l] = "live"]
  /\ UNCHANGED <<accountVars, sess, raced, changeVars, disk, cliVars, unsaved>>

DropSessions(L) ==
  /\ lpc' = [l \in Login |-> IF l \in L THEN "done" ELSE lpc[l]]
  /\ sess' = [l \in Login |-> IF l \in L THEN NoSession ELSE sess[l]]
  /\ raced' = raced \ L

(* handleLogout, or the session's TTL passed.                              *)
EndSession(l) ==
  /\ l \in live
  /\ DropSessions({l})
  /\ UNCHANGED <<accountVars, changeVars, disk, cliVars, unsaved>>

(* 30 minutes have passed; the count of failures stays.                    *)
LockExpires(u) ==
  /\ u \in locked
  /\ locked' = locked \ {u}
  /\ UNCHANGED <<users, failures, sessionVars, changeVars, disk, cliVars, unsaved>>
-----------------------------------------------------------------------------
(* handleUsers and handleUserByID.                                         *)

Finish(c, from, status) ==
  /\ cpc[c] = from
  /\ cpc' = [cpc EXCEPT ![c] = "done"]
  /\ reply' = [reply EXCEPT ![c] = status]

(* A request of change c with session l, for account u; for "create", u is *)
(* the id it will get.                                                     *)
Asks(c, l, kind, u) ==
  /\ cpc[c] = "idle"
  /\ l \in live
  /\ chg' = [chg EXCEPT ![c] = [kind |-> kind, target |-> u,
                                actor |-> sess[l].user]]
  /\ UNCHANGED <<accountVars, sessionVars, disk, cliVars, unsaved>>

(* Variant: demoting oneself is not refused.                               *)
OnSelfDeleteOnly(l, kind, u) == kind = "delete" /\ sess[l].user = u

(* "Prevent demoting self", "prevent deleting self".                       *)
OnSelf(l, kind, u) == kind \in {"demote", "delete"} /\ sess[l].user = u

(* requireAdmin lets the request in on the role its session holds.         *)
Admit(c, l, kind, u) ==
  /\ Asks(c, l, kind, u)
  /\ sess[l].role = "admin"
  /\ ~ OnSelf(l, kind, u)
  /\ cpc' = [cpc EXCEPT ![c] = IF kind = "delete" THEN "count" ELSE "apply"]
  /\ UNCHANGED reply

(* 403 of requireAdmin, which wraps every route of /api/users/; 400 for a  *)
(* request on oneself.                                                     *)
Refuse(c, l, kind, u) ==
  /\ Asks(c, l, kind, u)
  /\ \/ sess[l].role # "admin" /\ Finish(c, "idle", "403")
     \/ sess[l].role = "admin" /\ OnSelf(l, kind, u) /\ Finish(c, "idle", "400")

(* "Prevent deleting the last admin": GetByID and AdminCount, before and   *)
(* apart from Delete.                                                      *)
CountAdmins(c) ==
  LET u == chg[c].target
      last == u \in Admins(users) /\ Cardinality(Admins(users)) <= 1
  IN /\ \/ /\ ~ last
           /\ cpc[c] = "count"
           /\ cpc' = [cpc EXCEPT ![c] = "apply"]
           /\ UNCHANGED reply
        \/ last /\ Finish(c, "count", "400")
     /\ UNCHANGED <<accountVars, sessionVars, chg, disk, cliVars, unsaved>>

(* Variant: UpdateRole stores whatever it was given.                       *)
ChangedUnvalidated(acc, c) ==
  CASE chg[c].kind = "password" -> [acc EXCEPT !.password = c]
    [] chg[c].kind \in {"promote", "demote"} -> [acc EXCEPT !.role = chg[c].kind]
    [] chg[c].kind = "delete"   -> [acc EXCEPT !.state = "deleted"]
    [] chg[c].kind = "unlock"   -> acc

(* What UserStore's method makes of the account.                           *)
Changed(acc, c) ==
  CASE chg[c].kind = "password" -> [acc EXCEPT !.password = c]
    [] chg[c].kind = "promote"  -> [acc EXCEPT !.role = "admin"]
    [] chg[c].kind = "demote"   -> [acc EXCEPT !.role = "user"]
    [] chg[c].kind = "delete"   -> [acc EXCEPT !.state = "deleted"]
    [] chg[c].kind = "unlock"   -> acc

(* "user not found"; a password too short or a name taken.                 *)
RejectChange(c) ==
  /\ Finish(c, "apply", "400")
  /\ \/ chg[c].kind # "create" /\ chg[c].target \notin Present(users)
     \/ chg[c].kind \in {"create", "password"}
  /\ UNCHANGED <<accountVars, sessionVars, chg, disk, cliVars, unsaved>>

(* UnlockUser touches nothing that is saved.                               *)
Unlock(c) ==
  /\ chg[c].kind = "unlock"
  /\ chg[c].target \in Present(users)
  /\ Finish(c, "apply", "204")
  /\ failures' = [failures EXCEPT ![chg[c].target] = 0]
  /\ locked' = locked \ {chg[c].target}
  /\ UNCHANGED <<users, sessionVars, chg, disk, cliVars, unsaved>>

(* Logins of account u that have not inserted their session yet.           *)
UnderWay(u) ==
  {l \in Login : lpc[l] \in {"readRole", "insert"} /\ sess[l].user = u}

(* The other methods, under UserStore.mu: the account in memory changes... *)
ChangeAccount(c) ==
  LET u == chg[c].target
  IN /\ cpc[c] = "apply"
     /\ \/ /\ chg[c].kind = "create"
           /\ u \in Unknown(users)
           /\ \E role \in Roles : users' = [users EXCEPT ![u] = NewAccount(role, c)]
        \/ /\ chg[c].kind \in {"password", "promote", "demote", "delete"}
           /\ u \in Present(users)
           /\ users' = [users EXCEPT ![u] = Changed(@, c)]
     /\ UNCHANGED <<failures, locked, sess, lpc, chg, cliVars>>

(* Variant: what is saved is the store before the change.                  *)
ApplySavedEarly(c) ==
  /\ ChangeAccount(c)
  /\ disk' = users
  /\ unsaved' = {}
  /\ raced' = raced \cup UnderWay(chg[c].target)
  /\ IF chg[c].kind = "create"
     THEN Finish(c, "apply", "201")
     ELSE /\ cpc' = [cpc EXCEPT ![c] = "sweep"]
          /\ UNCHANGED reply

(* ... and saveUnlocked writes the whole store. The sessions of a changed  *)
(* account are still to be dropped.                                        *)
ApplySaved(c) ==
  /\ ChangeAccount(c)
  /\ disk' = users'
  /\ unsaved' = {}
  /\ raced' = raced \cup UnderWay(chg[c].target)
  /\ IF chg[c].kind = "create"
     THEN Finish(c, "apply", "201")
     ELSE /\ cpc' = [cpc EXCEPT ![c] = "sweep"]
          /\ UNCHANGED reply

(* ... or fails: the handler answers 400 and leaves, and the change stays  *)
(* in memory. os.WriteFile truncates the file first.                       *)
ApplyUnsaved(c) ==
  /\ ChangeAccount(c)
  /\ disk' \in {disk, Torn}
  /\ unsaved' = unsaved \cup {chg[c].target}
  /\ raced' = raced \cup UnderWay(chg[c].target)
                   \cup {l \in live : sess[l].user = chg[c].target}
  /\ Finish(c, "apply", "400")

(* Variant: the actor's sessions are dropped, not the account's.           *)
SweepActorSessions(c) ==
  /\ Finish(c, "sweep", "204")
  /\ DropSessions({l \in live : sess[l].user = chg[c].actor})
  /\ UNCHANGED <<accountVars, chg, disk, cliVars, unsaved>>

(* DeleteByUserID, and the 204.                                            *)
SweepSessions(c) ==
  /\ Finish(c, "sweep", "204")
  /\ DropSessions({l \in live : sess[l].user = chg[c].target})
  /\ UNCHANGED <<accountVars, chg, disk, cliVars, unsaved>>
-----------------------------------------------------------------------------
(* webui stops and starts again. With a torn users.json it does not start. *)
RestartWebui ==
  /\ \E store \in NewUserStores(disk) : users' = store /\ disk' = store
  /\ failures' = [u \in User |-> 0]
  /\ locked' = {}
  /\ DropSessions({l \in Login : lpc[l] # "idle"})
  /\ cpc' = [c \in Change |-> IF cpc[c] = "idle" THEN "idle" ELSE "done"]
  /\ reply' = [c \in Change |-> IF cpc[c] \in {"idle", "done"} THEN reply[c]
                                                              ELSE "lost"]
  /\ unsaved' = {}
  /\ cliWrote' = FALSE
  /\ UNCHANGED <<chg, kpc, kuser, kstore>>

(* Both commands start with newUserStore.                                  *)
CommandLoads(k, u, store) ==
  /\ kpc[k] = "idle"
  /\ u \in Present(store)
  /\ disk' = store
  /\ cliWrote' = (cliWrote \/ disk # store)
  /\ UNCHANGED <<accountVars, sessionVars, changeVars, unsaved>>

(* webui set-password: the file is loaded ...                              *)
SetPasswordLoad(k, u) ==
  /\ \E store \in NewUserStores(disk) :
        /\ CommandLoads(k, u, store)
        /\ kstore' = [kstore EXCEPT ![k] = store]
  /\ kpc' = [kpc EXCEPT ![k] = "save"]
  /\ kuser' = [kuser EXCEPT ![k] = u]

CommandEnds(k) ==
  /\ kpc[k] = "save"
  /\ kpc' = [kpc EXCEPT ![k] = "done"]
  /\ kuser' = [kuser EXCEPT ![k] = NoUser]
  /\ kstore' = [kstore EXCEPT ![k] = NoAccounts]
  /\ cliWrote' = TRUE
  /\ UNCHANGED <<accountVars, sessionVars, changeVars, unsaved>>

(* ... and UpdatePassword writes it back, and the command prints OK,       *)
SetPasswordSave(k) ==
  /\ CommandEnds(k)
  /\ disk' = [kstore[k] EXCEPT ![kuser[k]].password = Cli]

(* ... or exits with an error.                                             *)
SetPasswordFail(k) ==
  /\ CommandEnds(k)
  /\ disk' \in {disk, Torn}

(* webui unlock-user: it clears the fields of its own copy, which are not  *)
(* saved (json:"-"), and prints OK.                                        *)
UnlockUserCommand(k, u) ==
  /\ \E store \in NewUserStores(disk) : CommandLoads(k, u, store)
  /\ kpc' = [kpc EXCEPT ![k] = "done"]
  /\ UNCHANGED <<kuser, kstore>>
-----------------------------------------------------------------------------
LoginStep(l) ==
  \/ RefuseLogin(l) \/ ReadRole(l) \/ InsertSession(l) \/ EndSession(l)
  \/ \E u \in User : FailLogin(l, u) \/ Authenticate(l, u)

ChangeStep(c) ==
  \/ \E l \in Login, kind \in Kinds, u \in User :
        Admit(c, l, kind, u) \/ Refuse(c, l, kind, u)
  \/ CountAdmins(c) \/ RejectChange(c) \/ Unlock(c)
  \/ ApplySaved(c) \/ ApplyUnsaved(c) \/ SweepSessions(c)

CommandStep(k) ==
  \/ \E u \in User : SetPasswordLoad(k, u) \/ UnlockUserCommand(k, u)
  \/ SetPasswordSave(k) \/ SetPasswordFail(k)

Next == \/ \E l \in Login : LoginStep(l)
        \/ \E c \in Change : ChangeStep(c)
        \/ \E u \in User : LockExpires(u)
        \/ RestartWebui
        \/ \E k \in Command : CommandStep(k)

Spec == Init /\ [][Next]_vars
-----------------------------------------------------------------------------
Requests == [kind : Kinds, target : User \cup {NoUser},
             actor : User \cup {NoUser}]
Sessions == [user : User \cup {NoUser}, role : Roles, password : Passwords]

(* Types of the accounts, the sessions and the requests on them.           *)
TypeOK ==
  /\ users \in Store
  /\ disk \in Store \cup {Torn}
  /\ failures \in [User -> Nat]
  /\ locked \subseteq User
  /\ sess \in [Login -> Sessions]
  /\ lpc \in [Login -> {"idle", "readRole", "insert", "live", "done"}]
  /\ cpc \in [Change -> {"idle", "count", "apply", "sweep", "done"}]
  /\ chg \in [Change -> Requests]
  /\ reply \in [Change -> {"none", "201", "204", "400", "403", "lost"}]
  /\ kpc \in [Command -> {"idle", "save", "done"}]
  /\ kuser \in [Command -> User \cup {NoUser}]
  /\ kstore \in [Command -> Store]
  /\ raced \subseteq Login
  /\ unsaved \subseteq User
  /\ cliWrote \in BOOLEAN

(* A session shows the account as it is: it exists, with that role, and    *)
(* the password the session was opened with is still the one in force.     *)
Current(l) ==
  users[sess[l].user] = NewAccount(sess[l].role, sess[l].password)

(* What DeleteByUserID after each change is for, with all its gaps named:  *)
(* a session outlives a change of its account only while the change has    *)
(* not reached DeleteByUserID, or if its own login was under way during    *)
(* the change, or if the change could not be saved.                        *)
SessionsFollowAccounts ==
  \A l \in live :
    \/ Current(l)
    \/ l \in raced
    \/ \E c \in Change : cpc[c] = "sweep" /\ chg[c].target = sess[l].user

(* The checks of handleUserByID on oneself and on the last admin: only a   *)
(* request of an actor who has meanwhile lost the admin role can leave the *)
(* dashboard without an admin.                                             *)
OnlyFormerAdminEmptiesAdmins ==
  [][ Admins(users) # {} /\ Admins(users') = {} =>
        \/ \E c \in Change : /\ cpc[c] = "apply" /\ cpc'[c] # "apply"
                             /\ chg[c].actor \notin Admins(users)
        \/ RestartWebui ]_vars

(* A restart brings back what the running server had: users.json holds the *)
(* accounts in memory, except those of a failed save (until the next save  *)
(* writes them too) and what set-password replaced behind its back.        *)
RestartKeepsAccounts ==
  disk # Torn /\ ~ cliWrote =>
    \A u \in User : disk[u] = users[u] \/ u \in unsaved
-----------------------------------------------------------------------------
(* Statements of comments that the code does not keep.                     *)

(* handler.go:557 "invalidate active sessions on password change", 578     *)
(* "invalidate sessions so role takes effect immediately": once the only   *)
(* change asked of an account was answered 204, no session of the account  *)
(* shows what it was before.                                               *)
ChangedAccountsHaveNoOldSession ==
  \A l \in live, c \in Change :
    (/\ reply[c] = "204" /\ chg[c].kind # "unlock"
     /\ chg[c].target = sess[l].user
     /\ \A d \in Change \ {c} : chg[d].target # chg[c].target)
    => Current(l)

(* handler.go:588 "Prevent deleting the last admin": a deletion that is    *)
(* applied leaves an admin.                                                *)
LastAdminIsNotDeleted ==
  [][ \A c \in Change :
        (/\ chg[c].kind = "delete" /\ cpc[c] = "apply" /\ cpc'[c] # "apply"
         /\ Admins(users) # {})
        => Admins(users') # {} ]_vars
=============================================================================
