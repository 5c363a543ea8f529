---------------------------- MODULE WebuiProofs -----------------------------
(***************************************************************************)
(* Proofs about what webui keeps: the accounts and their sessions, for     *)
(* every set of users and requests, and, below, the revoked devices.       *)
(***************************************************************************)
EXTENDS Accounts, Revocation, TLAPS

(* A request that runs knows whom it is about.                             *)
NamedInv ==
  /\ \A l \in Login : lpc[l] \in {"readRole", "insert", "live"} => sess[l].user \in User
  /\ \A c \in Change : cpc[c] # "idle" => chg[c].target \in User
  /\ \A k \in Command : kpc[k] = "save" => kuser[k] \in User

(* What a login under way has copied of its account is still so, unless    *)
(* the account changed.                                                    *)
UnderWayInv ==
  \A l \in Login :
    /\ lpc[l] = "readRole" =>
         \/ l \in raced
         \/ users[sess[l].user] = NewAccount(users[sess[l].user].role, sess[l].password)
    /\ lpc[l] = "insert" => l \in raced \/ Current(l)

(* An admin does not take the admin role from, or delete, the own account. *)
NotSelf(c) == chg[c].kind \in {"demote", "delete"} => chg[c].actor # chg[c].target

ActorInv == \A c \in Change : cpc[c] \in {"count", "apply"} => NotSelf(c)

IInv == /\ TypeOK /\ NamedInv /\ ActorInv
        /\ UnderWayInv /\ SessionsFollowAccounts
        /\ RestartKeepsAccounts
-----------------------------------------------------------------------------
LEMMA NewAccountType ==
  ASSUME NEW role \in Roles, NEW password \in Passwords
  PROVE  NewAccount(role, password) \in Account
BY DEF NewAccount, Account

LEMMA NoAccountType == NoAccount \in Account /\ NoAccounts \in Store
BY DEF NoAccount, NoAccounts, Account, Roles, Passwords, Store

LEMMA NoSessionType == NoSession \in Sessions
BY DEF NoSession, Sessions, Roles, Passwords

LEMMA NewUserStoresType ==
  ASSUME NEW file \in Store \cup {Torn}, NEW store \in NewUserStores(file)
  PROVE  store \in Store
<1>1. CASE file = Torn
  BY <1>1 DEF NewUserStores
<1>2. CASE file # Torn
  <2>1. file \in Store
    BY <1>2
  <2>2. NewAccount("admin", First) \in Account
    BY NewAccountType DEF Roles, Passwords
  <2> QED
    BY <1>2, <2>1, <2>2 DEF NewUserStores, Unknown, Store
<1> QED BY <1>1, <1>2

LEMMA ChangedType ==
  ASSUME NEW acc \in Account, NEW c \in Change,
         chg[c].kind \in {"password", "promote", "demote", "delete"}
  PROVE  Changed(acc, c) \in Account
BY DEF Changed, Account, Roles, Passwords

LEMMA InitIInv == Init => IInv
<1> SUFFICES ASSUME Init PROVE IInv
  OBVIOUS
<1>1. users \in Store
  <2>1. PICK a \in User : \E others \in [User \ {a} ->
            {NewAccount("admin", First), NewAccount("user", First), NoAccount}] :
          users = [u \in User |-> IF u = a THEN NewAccount("admin", First)
                                           ELSE others[u]]
    BY DEF Init
  <2>2. {NewAccount("admin", First), NewAccount("user", First), NoAccount}
          \subseteq Account
    BY NewAccountType, NoAccountType DEF Roles, Passwords
  <2> QED BY <2>1, <2>2 DEF Store
<1>2. TypeOK
  BY <1>1, NoAccountType, NoSessionType DEF Init, TypeOK, Requests, Kinds
<1>3. NamedInv /\ ActorInv /\ UnderWayInv /\ SessionsFollowAccounts
  BY DEF Init, NamedInv, ActorInv, UnderWayInv, SessionsFollowAccounts, live
<1>4. RestartKeepsAccounts
  BY DEF Init, RestartKeepsAccounts
<1> QED BY <1>2, <1>3, <1>4 DEF IInv

(* What a change of an account leaves of it, and of the others.            *)
LEMMA ChangeAccountType ==
  ASSUME TypeOK, NamedInv, NEW c \in Change, ChangeAccount(c)
  PROVE  /\ chg[c].target \in User
         /\ users' \in Store
         /\ \A u \in User : u # chg[c].target => users'[u] = users[u]
<1>1. chg[c].target \in User
  BY DEF ChangeAccount, NamedInv, TypeOK
<1>2. CASE chg[c].kind = "create"
  <2>1. PICK role \in Roles :
          users' = [users EXCEPT ![chg[c].target] = NewAccount(role, c)]
    BY <1>2 DEF ChangeAccount
  <2>2. NewAccount(role, c) \in Account
    BY NewAccountType DEF Passwords
  <2> QED BY <1>1, <2>1, <2>2 DEF TypeOK, Store
<1>3. CASE chg[c].kind # "create"
  <2> DEFINE new == Changed(users[chg[c].target], c)
  <2>1. /\ users' = [users EXCEPT ![chg[c].target] = new]
        /\ chg[c].kind \in {"password", "promote", "demote", "delete"}
    BY <1>3 DEF ChangeAccount
  <2>2. new \in Account
    BY <1>1, <2>1, ChangedType DEF TypeOK, Store
  <2> HIDE DEF new
  <2> QED BY <1>1, <2>1, <2>2 DEF TypeOK, Store
<1> QED BY <1>2, <1>3

LEMMA DropType ==
  ASSUME TypeOK, NEW L, DropSessions(L)
  PROVE  /\ sess' \in [Login -> Sessions]
         /\ lpc' \in [Login -> {"idle", "readRole", "insert", "live", "done"}]
         /\ raced' \subseteq Login
BY NoSessionType DEF TypeOK, DropSessions
-----------------------------------------------------------------------------
LEMMA LoginStepType ==
  ASSUME TypeOK, NamedInv, ActorInv, NEW l \in Login, LoginStep(l)
  PROVE  TypeOK' /\ NamedInv' /\ ActorInv'
<1> USE DEF accountVars, sessionVars, changeVars, cliVars
<1>1. CASE RefuseLogin(l)
  BY <1>1 DEF RefuseLogin, TypeOK, NamedInv, ActorInv, NotSelf
<1>2. CASE ReadRole(l)
  <2>1. users[sess[l].user].role \in Roles /\ sess[l] \in Sessions
    BY <1>2 DEF ReadRole, TypeOK, NamedInv, Store, Account
  <2>2. [sess[l] EXCEPT !.role = users[sess[l].user].role] \in Sessions
    BY <2>1 DEF Sessions
  <2> QED BY <1>2, <2>1, <2>2 DEF ReadRole, TypeOK, NamedInv, ActorInv, NotSelf
<1>3. CASE InsertSession(l)
  BY <1>3 DEF InsertSession, TypeOK, NamedInv, ActorInv, NotSelf
<1>4. CASE EndSession(l)
  <2>1. DropSessions({l})
    BY <1>4 DEF EndSession
  <2> QED BY <1>4, <2>1, DropType
          DEF EndSession, TypeOK, NamedInv, ActorInv, NotSelf, DropSessions
<1>5. ASSUME NEW u \in User, FailLogin(l, u)
      PROVE  TypeOK' /\ NamedInv' /\ ActorInv'
  BY <1>5 DEF FailLogin, TypeOK, NamedInv, ActorInv, NotSelf
<1>6. ASSUME NEW u \in User, Authenticate(l, u)
      PROVE  TypeOK' /\ NamedInv' /\ ActorInv'
  <2>1. users[u].password \in Passwords /\ sess[l] \in Sessions
    BY DEF TypeOK, Store, Account
  <2> DEFINE new == [sess[l] EXCEPT !.user = u, !.password = users[u].password]
  <2>2. new \in Sessions /\ new.user = u
    BY <2>1 DEF Sessions
  <2>3. sess' = [sess EXCEPT ![l] = new]
    BY <1>6 DEF Authenticate, TypeOK
  <2> HIDE DEF new
  <2>4. /\ sess' \in [Login -> Sessions] /\ sess'[l].user = u
        /\ \A m \in Login : m # l => sess'[m] = sess[m]
    BY <2>2, <2>3 DEF TypeOK
  <2>5. TypeOK'
    BY <1>6, <2>4 DEF Authenticate, TypeOK
  <2>6. NamedInv' /\ ActorInv'
    BY <1>6, <2>4 DEF Authenticate, TypeOK, NamedInv, ActorInv, NotSelf
  <2> QED BY <2>5, <2>6
<1> QED BY <1>1, <1>2, <1>3, <1>4, <1>5, <1>6 DEF LoginStep

LEMMA AsksType ==
  ASSUME TypeOK, NamedInv, ActorInv, NEW c \in Change, NEW l \in Login,
         NEW kind \in Kinds, NEW u \in User, Asks(c, l, kind, u)
  PROVE  /\ chg' \in [Change -> Requests]
         /\ chg'[c].target = u
         /\ chg'[c].kind = kind
         /\ chg'[c].actor = sess[l].user
         /\ \A d \in Change : d # c => chg'[d] = chg[d]
<1>1. sess[l].user \in User \cup {NoUser}
  BY DEF TypeOK, Sessions
<1> QED BY <1>1 DEF Asks, TypeOK, Requests

LEMMA ChangeStepType ==
  ASSUME TypeOK, NamedInv, ActorInv, NEW c \in Change, ChangeStep(c)
  PROVE  TypeOK' /\ NamedInv' /\ ActorInv'
<1> USE DEF accountVars, sessionVars, changeVars, cliVars, Finish
<1>1. ASSUME NEW l \in Login, NEW kind \in Kinds, NEW u \in User,
             Admit(c, l, kind, u)
      PROVE  TypeOK' /\ NamedInv' /\ ActorInv'
  <2>1. Asks(c, l, kind, u)
    BY <1>1 DEF Admit
  <2>2. /\ chg' \in [Change -> Requests]
        /\ chg'[c].target = u /\ chg'[c].kind = kind
        /\ chg'[c].actor = sess[l].user
        /\ \A d \in Change : d # c => chg'[d] = chg[d]
    BY <2>1, AsksType
  <2>3. TypeOK'
    BY <1>1, <2>2 DEF Admit, Asks, TypeOK
  <2>4. NamedInv' /\ ActorInv'
    BY <1>1, <2>2 DEF Admit, Asks, OnSelf, TypeOK, NamedInv, ActorInv, NotSelf
  <2> QED BY <2>3, <2>4
<1>2. ASSUME NEW l \in Login, NEW kind \in Kinds, NEW u \in User,
             Refuse(c, l, kind, u)
      PROVE  TypeOK' /\ NamedInv' /\ ActorInv'
  <2>1. Asks(c, l, kind, u)
    BY <1>2 DEF Refuse
  <2>2. /\ chg' \in [Change -> Requests]
        /\ chg'[c].target = u /\ chg'[c].kind = kind
        /\ chg'[c].actor = sess[l].user
        /\ \A d \in Change : d # c => chg'[d] = chg[d]
    BY <2>1, AsksType
  <2>3. TypeOK'
    BY <1>2, <2>2 DEF Refuse, Asks, TypeOK
  <2>4. NamedInv' /\ ActorInv'
    BY <1>2, <2>2 DEF Refuse, Asks, OnSelf, TypeOK, NamedInv, ActorInv, NotSelf
  <2> QED BY <2>3, <2>4
<1>3. CASE CountAdmins(c)
  BY <1>3 DEF CountAdmins, TypeOK, NamedInv, ActorInv, NotSelf
<1>4. CASE RejectChange(c)
  BY <1>4 DEF RejectChange, TypeOK, NamedInv, ActorInv, NotSelf
<1>5. CASE Unlock(c)
  BY <1>5 DEF Unlock, TypeOK, NamedInv, ActorInv, NotSelf
<1>6. CASE ApplySaved(c)
  <2>1. ChangeAccount(c)
    BY <1>6 DEF ApplySaved
  <2> QED BY <1>6, <2>1, ChangeAccountType
          DEF ApplySaved, ChangeAccount, UnderWay, TypeOK, NamedInv, ActorInv, NotSelf
<1>7. CASE ApplyUnsaved(c)
  <2>1. ChangeAccount(c)
    BY <1>7 DEF ApplyUnsaved
  <2> QED BY <1>7, <2>1, ChangeAccountType
          DEF ApplyUnsaved, ChangeAccount, UnderWay, live, TypeOK, NamedInv, ActorInv, NotSelf
<1>8. CASE SweepSessions(c)
  <2> DEFINE L == {l \in live : sess[l].user = chg[c].target}
  <2>1. DropSessions(L)
    BY <1>8 DEF SweepSessions
  <2> HIDE DEF L
  <2> QED BY <1>8, <2>1, DropType
          DEF SweepSessions, TypeOK, NamedInv, ActorInv, NotSelf, DropSessions
<1> QED BY <1>1, <1>2, <1>3, <1>4, <1>5, <1>6, <1>7, <1>8 DEF ChangeStep

LEMMA CommandLoadsType ==
  ASSUME TypeOK, NamedInv, ActorInv, NEW k \in Command, NEW u \in User,
         NEW store \in NewUserStores(disk), CommandLoads(k, u, store)
  PROVE  store \in Store /\ disk' \in Store /\ cliWrote' \in BOOLEAN
<1>1. store \in Store
  BY NewUserStoresType DEF TypeOK
<1> QED BY <1>1 DEF CommandLoads, TypeOK

LEMMA CommandStepType ==
  ASSUME TypeOK, NamedInv, ActorInv, NEW k \in Command, CommandStep(k)
  PROVE  TypeOK' /\ NamedInv' /\ ActorInv'
<1> USE DEF accountVars, sessionVars, changeVars, cliVars
<1>1. ASSUME NEW u \in User, SetPasswordLoad(k, u)
      PROVE  TypeOK' /\ NamedInv' /\ ActorInv'
  <2>1. PICK store \in NewUserStores(disk) :
              CommandLoads(k, u, store) /\ kstore' = [kstore EXCEPT ![k] = store]
    BY <1>1 DEF SetPasswordLoad
  <2>2. store \in Store /\ disk' \in Store /\ cliWrote' \in BOOLEAN
    BY <2>1, CommandLoadsType
  <2> QED BY <1>1, <2>1, <2>2
          DEF SetPasswordLoad, CommandLoads, TypeOK, NamedInv, ActorInv, NotSelf
<1>2. ASSUME NEW u \in User, UnlockUserCommand(k, u)
      PROVE  TypeOK' /\ NamedInv' /\ ActorInv'
  <2>1. PICK store \in NewUserStores(disk) : CommandLoads(k, u, store)
    BY <1>2 DEF UnlockUserCommand
  <2>2. store \in Store /\ disk' \in Store /\ cliWrote' \in BOOLEAN
    BY <2>1, CommandLoadsType
  <2> QED BY <1>2, <2>1, <2>2
          DEF UnlockUserCommand, CommandLoads, TypeOK, NamedInv, ActorInv, NotSelf
<1>3. ASSUME CommandEnds(k), disk' \in Store \cup {Torn}
      PROVE  TypeOK' /\ NamedInv' /\ ActorInv'
  BY <1>3, NoAccountType
     DEF CommandEnds, TypeOK, NamedInv, ActorInv, NotSelf
<1>4. CASE SetPasswordSave(k)
  <2>1. kstore[k] \in Store /\ kuser[k] \in User
    BY <1>4 DEF SetPasswordSave, CommandEnds, TypeOK, NamedInv
  <2>2. [kstore[k][kuser[k]] EXCEPT !.password = Cli] \in Account
    BY <2>1 DEF Store, Account, Passwords
  <2>3. [kstore[k] EXCEPT ![kuser[k]].password = Cli] \in Store
    BY <2>1, <2>2 DEF Store
  <2> QED BY <1>3, <1>4, <2>3 DEF SetPasswordSave
<1>5. CASE SetPasswordFail(k)
  BY <1>3, <1>5 DEF SetPasswordFail, TypeOK
<1> QED BY <1>1, <1>2, <1>4, <1>5 DEF CommandStep

LEMMA RestartType ==
  ASSUME TypeOK, NamedInv, ActorInv, RestartWebui
  PROVE  TypeOK' /\ NamedInv' /\ ActorInv'
<1>1. users' \in Store /\ disk' \in Store
  BY NewUserStoresType DEF RestartWebui, TypeOK
<1> DEFINE L == {l \in Login : lpc[l] # "idle"}
<1>2. DropSessions(L)
  BY DEF RestartWebui
<1>3. \A l \in Login : lpc'[l] \in {"idle", "done"}
  BY <1>2 DEF DropSessions, TypeOK
<1> HIDE DEF L
<1> QED BY <1>1, <1>2, <1>3, DropType
        DEF RestartWebui, TypeOK, NamedInv, ActorInv, NotSelf

LEMMA TypePreserved ==
  TypeOK /\ NamedInv /\ ActorInv /\ [Next]_vars => TypeOK' /\ NamedInv' /\ ActorInv'
<1> SUFFICES ASSUME TypeOK, NamedInv, ActorInv, [Next]_vars
             PROVE  TypeOK' /\ NamedInv' /\ ActorInv'
  OBVIOUS
<1>1. ASSUME NEW u \in User, LockExpires(u) PROVE TypeOK' /\ NamedInv' /\ ActorInv'
  BY <1>1 DEF LockExpires, TypeOK, NamedInv, ActorInv, NotSelf, sessionVars,
     changeVars, cliVars
<1>2. CASE UNCHANGED vars
  BY <1>2 DEF vars, TypeOK, NamedInv, ActorInv, NotSelf
<1> QED BY <1>1, <1>2, LoginStepType, ChangeStepType, CommandStepType, RestartType
        DEF Next
-----------------------------------------------------------------------------
(* Nothing a session rests on changes.                                     *)
LEMMA SessionsUntouched ==
  ASSUME UnderWayInv, SessionsFollowAccounts,
         UNCHANGED <<users, lpc, sess, raced>>,
         \A c \in Change : cpc[c] = "sweep" =>
                            cpc'[c] = "sweep" /\ chg'[c].target = chg[c].target
  PROVE  UnderWayInv' /\ SessionsFollowAccounts'
BY DEF UnderWayInv, SessionsFollowAccounts, Current, live

LEMMA LoginStepSessions ==
  ASSUME TypeOK, NamedInv, UnderWayInv, SessionsFollowAccounts,
         NEW l \in Login, LoginStep(l)
  PROVE  UnderWayInv' /\ SessionsFollowAccounts'
<1> USE DEF accountVars, sessionVars, changeVars, cliVars
<1>1. CASE RefuseLogin(l)
  BY <1>1 DEF RefuseLogin, TypeOK, UnderWayInv, SessionsFollowAccounts, Current, live
<1>2. CASE ReadRole(l)
  <2>1. /\ sess'[l].role = users[sess[l].user].role
        /\ sess'[l].user = sess[l].user /\ sess'[l].password = sess[l].password
        /\ \A m \in Login : m # l => sess'[m] = sess[m]
    BY <1>2 DEF ReadRole, TypeOK, Sessions
  <2> QED BY <1>2, <2>1
          DEF ReadRole, TypeOK, UnderWayInv, SessionsFollowAccounts, Current, live
<1>3. CASE InsertSession(l)
  BY <1>3 DEF InsertSession, TypeOK, UnderWayInv, SessionsFollowAccounts, Current, live
<1>4. CASE EndSession(l)
  BY <1>4 DEF EndSession, DropSessions, TypeOK, UnderWayInv,
     SessionsFollowAccounts, Current, live
<1>5. ASSUME NEW u \in User, FailLogin(l, u)
      PROVE  UnderWayInv' /\ SessionsFollowAccounts'
  BY <1>5 DEF FailLogin, TypeOK, UnderWayInv, SessionsFollowAccounts, Current, live
<1>6. ASSUME NEW u \in User, Authenticate(l, u)
      PROVE  UnderWayInv' /\ SessionsFollowAccounts'
  <2>1. /\ sess'[l].user = u /\ sess'[l].password = users[u].password
        /\ \A m \in Login : m # l => sess'[m] = sess[m]
    BY <1>6 DEF Authenticate, TypeOK, Sessions
  <2>2. users[u] = NewAccount(users[u].role, users[u].password)
    BY <1>6 DEF Authenticate, Present, TypeOK, Store, Account, NewAccount
  <2> QED BY <1>6, <2>1, <2>2
          DEF Authenticate, TypeOK, UnderWayInv, SessionsFollowAccounts, Current, live
<1> QED BY <1>1, <1>2, <1>3, <1>4, <1>5, <1>6 DEF LoginStep

(* The logins and sessions of an account that changes, when those that are *)
(* under way become raced and a sweep is to come, or they become raced too. *)
LEMMA ChangeAccountSessions ==
  ASSUME TypeOK, NamedInv, UnderWayInv, SessionsFollowAccounts,
         NEW c \in Change, ChangeAccount(c),
         raced \cup UnderWay(chg[c].target) \subseteq raced',
         \/ chg[c].kind = "create"
         \/ cpc'[c] = "sweep"
         \/ {l \in live : sess[l].user = chg[c].target} \subseteq raced',
         \A d \in Change : d # c => cpc'[d] = cpc[d]
  PROVE  UnderWayInv' /\ SessionsFollowAccounts'
<1> DEFINE u == chg[c].target
<1>1. /\ cpc[c] = "apply"
      /\ UNCHANGED <<sess, lpc, chg>>
      /\ \A v \in User : v # u => users'[v] = users[v]
  BY ChangeAccountType DEF ChangeAccount
<1>2. chg[c].kind = "create" => users[u].state = "unknown"
  BY DEF ChangeAccount, Unknown
<1>3. \A l \in live : Current(l) => users[sess[l].user].state = "present"
  BY DEF Current, NewAccount
<1> HIDE DEF u
<1>4. ASSUME NEW l \in Login, lpc[l] \in {"readRole", "insert"}
      PROVE  l \in raced' \/ (l \notin raced /\ users'[sess[l].user] = users[sess[l].user])
  <2>1. sess[l].user = u => l \in UnderWay(u)
    BY <1>4 DEF UnderWay
  <2> QED BY <1>1, <1>4, <2>1 DEF NamedInv, u
<1>5. UnderWayInv'
  BY <1>1, <1>4 DEF UnderWayInv, Current
<1>6. ASSUME NEW l \in live
      PROVE  \/ Current(l)' \/ l \in raced'
             \/ \E d \in Change : cpc'[d] = "sweep" /\ chg'[d].target = sess'[l].user
  <2>1. sess[l].user \in User
    BY <1>6 DEF NamedInv, live
  <2>2. CASE l \in raced
    BY <2>2
  <2>3. CASE \E d \in Change : cpc[d] = "sweep" /\ chg[d].target = sess[l].user
    BY <2>3, <1>1
  <2>4. CASE Current(l)
    <3>1. CASE sess[l].user # u
      BY <2>1, <2>4, <3>1, <1>1 DEF Current
    <3>2. CASE sess[l].user = u
      BY <2>1, <2>4, <3>2, <1>1, <1>2, <1>3 DEF u
    <3> QED BY <3>1, <3>2
  <2> QED BY <2>2, <2>3, <2>4 DEF SessionsFollowAccounts
<1>7. live' = live
  BY <1>1 DEF live
<1> QED BY <1>5, <1>6, <1>7 DEF SessionsFollowAccounts

LEMMA ChangeStepSessions ==
  ASSUME TypeOK, NamedInv, UnderWayInv, SessionsFollowAccounts,
         NEW c \in Change, ChangeStep(c)
  PROVE  UnderWayInv' /\ SessionsFollowAccounts'
<1> USE DEF accountVars, sessionVars, changeVars, cliVars, Finish
<1>1. ASSUME NEW l \in Login, NEW kind \in Kinds, NEW u \in User,
             Admit(c, l, kind, u) \/ Refuse(c, l, kind, u)
      PROVE  UnderWayInv' /\ SessionsFollowAccounts'
  BY <1>1, SessionsUntouched DEF Admit, Refuse, Asks, TypeOK
<1>2. CASE CountAdmins(c) \/ RejectChange(c) \/ Unlock(c)
  BY <1>2, SessionsUntouched DEF CountAdmins, RejectChange, Unlock, TypeOK
<1>3. CASE ApplySaved(c)
  BY <1>3, ChangeAccountSessions DEF ApplySaved, TypeOK
<1>4. CASE ApplyUnsaved(c)
  BY <1>4, ChangeAccountSessions DEF ApplyUnsaved, TypeOK
<1>5. CASE SweepSessions(c)
  <2> DEFINE L == {l \in live : sess[l].user = chg[c].target}
  <2>1. DropSessions(L) /\ UNCHANGED <<users, chg>>
        /\ \A d \in Change : d # c => cpc'[d] = cpc[d]
    BY <1>5 DEF SweepSessions, TypeOK
  <2>2. \A l \in Login : l \notin L =>
           /\ lpc'[l] = lpc[l] /\ sess'[l] = sess[l]
           /\ l \in raced' <=> l \in raced
    BY <2>1 DEF DropSessions
  <2>3. \A l \in L : lpc'[l] = "done"
    BY <2>1 DEF DropSessions, live
  <2>4. UnderWayInv'
    BY <2>1, <2>2, <2>3 DEF UnderWayInv, Current
  <2>5. ASSUME NEW l \in live'
        PROVE  \/ Current(l)' \/ l \in raced'
               \/ \E d \in Change : cpc'[d] = "sweep" /\ chg'[d].target = sess'[l].user
    <3>1. l \in Login \ L /\ l \in live
      BY <2>2, <2>3, <2>5 DEF live
    <3>2. sess[l].user # chg[c].target
      BY <3>1
    <3> HIDE DEF L
    <3> QED BY <2>1, <2>2, <3>1, <3>2 DEF SessionsFollowAccounts, Current
  <2> QED BY <2>4, <2>5 DEF SessionsFollowAccounts
<1> QED BY <1>1, <1>2, <1>3, <1>4, <1>5 DEF ChangeStep

LEMMA SessionsPreserved ==
  IInv /\ [Next]_vars => UnderWayInv' /\ SessionsFollowAccounts'
<1> SUFFICES ASSUME IInv, [Next]_vars
             PROVE  UnderWayInv' /\ SessionsFollowAccounts'
  OBVIOUS
<1> USE DEF IInv, accountVars, sessionVars, changeVars, cliVars
<1>1. ASSUME NEW u \in User, LockExpires(u)
      PROVE  UnderWayInv' /\ SessionsFollowAccounts'
  BY <1>1, SessionsUntouched DEF LockExpires
<1>2. ASSUME NEW k \in Command, CommandStep(k)
      PROVE  UnderWayInv' /\ SessionsFollowAccounts'
  BY <1>2, SessionsUntouched
     DEF CommandStep, SetPasswordLoad, CommandLoads, UnlockUserCommand,
         SetPasswordSave, SetPasswordFail, CommandEnds
<1>3. CASE RestartWebui
  <2> DEFINE L == {l \in Login : lpc[l] # "idle"}
  <2>1. DropSessions(L)
    BY <1>3 DEF RestartWebui
  <2>2. \A l \in Login : lpc'[l] \in {"idle", "done"}
    BY <2>1 DEF DropSessions
  <2> QED BY <2>2 DEF UnderWayInv, SessionsFollowAccounts, live
<1>4. CASE UNCHANGED vars
  BY <1>4, SessionsUntouched DEF vars
<1> QED BY <1>1, <1>2, <1>3, <1>4, LoginStepSessions, ChangeStepSessions DEF Next
-----------------------------------------------------------------------------
(* The file and the accounts of the running server.                        *)
LEMMA RestartPreserved == IInv /\ [Next]_vars => RestartKeepsAccounts'
<1> SUFFICES ASSUME IInv, [Next]_vars PROVE RestartKeepsAccounts'
  OBVIOUS
<1> USE DEF accountVars, sessionVars, changeVars, cliVars
<1>1. ASSUME UNCHANGED <<users, disk, unsaved, cliWrote>>
      PROVE  RestartKeepsAccounts'
  BY <1>1 DEF IInv, RestartKeepsAccounts
<1>2. ASSUME NEW c \in Change, ApplySaved(c) PROVE RestartKeepsAccounts'
  BY <1>2 DEF ApplySaved, RestartKeepsAccounts
<1>3. ASSUME NEW c \in Change, ApplyUnsaved(c) PROVE RestartKeepsAccounts'
  <2>1. /\ \A u \in User : u # chg[c].target => users'[u] = users[u]
        /\ UNCHANGED cliWrote
    BY <1>3, ChangeAccountType DEF IInv, ApplyUnsaved, ChangeAccount
  <2> QED BY <1>3, <2>1 DEF IInv, ApplyUnsaved, RestartKeepsAccounts
<1>4. CASE RestartWebui
  BY <1>4 DEF RestartWebui, RestartKeepsAccounts
<1>5. ASSUME NEW k \in Command, NEW u \in User, NEW store, CommandLoads(k, u, store)
      PROVE  RestartKeepsAccounts'
  BY <1>5 DEF CommandLoads, IInv, TypeOK, RestartKeepsAccounts
<1>6. ASSUME NEW k \in Command, CommandStep(k) PROVE RestartKeepsAccounts'
  <2>1. CASE CommandEnds(k)
    BY <2>1 DEF CommandEnds, RestartKeepsAccounts
  <2> QED BY <1>5, <1>6, <2>1
          DEF CommandStep, SetPasswordLoad, UnlockUserCommand, SetPasswordSave,
              SetPasswordFail
<1>7. ASSUME NEW l \in Login, LoginStep(l) PROVE RestartKeepsAccounts'
  BY <1>1, <1>7 DEF LoginStep, RefuseLogin, ReadRole, InsertSession, EndSession,
     FailLogin, Authenticate
<1>8. ASSUME NEW c \in Change, ChangeStep(c) PROVE RestartKeepsAccounts'
  BY <1>1, <1>2, <1>3, <1>8
     DEF ChangeStep, Admit, Refuse, Asks, CountAdmins, RejectChange, Unlock,
         SweepSessions
<1>9. ASSUME NEW u \in User, LockExpires(u) PROVE RestartKeepsAccounts'
  BY <1>1, <1>9 DEF LockExpires
<1>10. CASE UNCHANGED vars
  BY <1>1, <1>10 DEF vars
<1> QED BY <1>4, <1>6, <1>7, <1>8, <1>9, <1>10 DEF Next

LEMMA IInvAlways == Spec => []IInv
<1>1. IInv /\ [Next]_vars => IInv'
  BY TypePreserved, SessionsPreserved, RestartPreserved DEF IInv
<1> QED BY InitIInv, <1>1, PTL DEF Spec

(* Every reachable state of the accounts, the sessions, the requests and   *)
(* the commands is well typed.                                             *)
THEOREM TypeCorrect == Spec => []TypeOK
<1>1. IInv => TypeOK
  BY DEF IInv
<1> QED BY <1>1, IInvAlways, PTL

(* A session outlives a change of its account only in one of the named     *)
(* gaps between the change and DeleteByUserID.                             *)
THEOREM SessionsFollowAccountsHolds == Spec => []SessionsFollowAccounts
<1>1. IInv => SessionsFollowAccounts
  BY DEF IInv
<1> QED BY <1>1, IInvAlways, PTL

(* users.json holds the accounts in memory, except those of a failed save  *)
(* and what a command replaced.                                            *)
THEOREM RestartKeepsAccountsHolds == Spec => []RestartKeepsAccounts
<1>1. IInv => RestartKeepsAccounts
  BY DEF IInv
<1> QED BY <1>1, IInvAlways, PTL

(* A change that an admin asks for leaves an admin: the own account, whose *)
(* role it could take away, is the one it does not change.                 *)
LEMMA ActorStaysAdmin ==
  ASSUME TypeOK, NamedInv, ActorInv, NEW c \in Change, ChangeAccount(c),
         chg[c].actor \in Admins(users)
  PROVE  Admins(users') # {}
<1> DEFINE u == chg[c].target
           a == chg[c].actor
<1>1. u \in User /\ users' \in Store /\ \A v \in User : v # u => users'[v] = users[v]
  BY ChangeAccountType
<1>2. a \in User /\ users[a].state = "present" /\ users[a].role = "admin"
  BY DEF Admins, Present
<1>3. CASE a # u
  BY <1>1, <1>2, <1>3 DEF Admins, Present
<1>4. CASE a = u
  <2>1. chg[c].kind \in {"password", "promote"}
    BY <1>2, <1>4 DEF ChangeAccount, ActorInv, NotSelf, Unknown
  <2>2. users' = [users EXCEPT ![a] = Changed(users[a], c)]
    BY <1>4, <2>1 DEF ChangeAccount
  <2>3. Changed(users[a], c).state = "present" /\ Changed(users[a], c).role = "admin"
    BY <1>2, <2>1 DEF Changed, TypeOK, Store, Account
  <2>4. users'[a] = Changed(users[a], c)
    BY <1>2, <2>2 DEF TypeOK, Store
  <2> QED BY <1>2, <2>3, <2>4 DEF Admins, Present
<1> QED BY <1>3, <1>4

(* Only a request of an actor who has meanwhile lost the admin role can    *)
(* leave the dashboard without an admin.                                   *)
THEOREM OnlyFormerAdminHolds == Spec => OnlyFormerAdminEmptiesAdmins
<1> DEFINE A == Admins(users) # {} /\ Admins(users') = {} =>
                  \/ \E c \in Change : /\ cpc[c] = "apply" /\ cpc'[c] # "apply"
                                       /\ chg[c].actor \notin Admins(users)
                  \/ RestartWebui
<1>1. ASSUME IInv, [Next]_vars PROVE [A]_vars
  <2>1. ASSUME NEW c \in Change, ChangeAccount(c), cpc' = [cpc EXCEPT ![c] = "done"]
               \/ cpc' = [cpc EXCEPT ![c] = "sweep"]
        PROVE  A
    <3>1. cpc[c] = "apply" /\ cpc'[c] # "apply"
      BY <1>1, <2>1 DEF ChangeAccount, IInv, TypeOK
    <3> QED BY <1>1, <2>1, <3>1, ActorStaysAdmin DEF IInv
  <2>2. ASSUME users' = users PROVE A
    BY <2>2
  <2>3. ASSUME NEW c \in Change, ChangeStep(c) PROVE A
    <3>1. CASE ApplySaved(c) \/ ApplyUnsaved(c)
      BY <2>1, <3>1 DEF ApplySaved, ApplyUnsaved, Finish
    <3> QED BY <2>2, <2>3, <3>1
            DEF ChangeStep, Admit, Refuse, Asks, CountAdmins, RejectChange, Unlock,
                SweepSessions, accountVars
  <2>4. ASSUME NEW l \in Login, LoginStep(l) PROVE A
    BY <2>2, <2>4 DEF LoginStep, RefuseLogin, ReadRole, InsertSession, EndSession,
       FailLogin, Authenticate, accountVars
  <2>5. ASSUME NEW k \in Command, CommandStep(k) PROVE A
    BY <2>2, <2>5 DEF CommandStep, SetPasswordLoad, UnlockUserCommand,
       CommandLoads, SetPasswordSave, SetPasswordFail, CommandEnds, accountVars
  <2>6. ASSUME NEW u \in User, LockExpires(u) PROVE A
    BY <2>2, <2>6 DEF LockExpires
  <2>7. CASE Next
    BY <2>3, <2>4, <2>5, <2>6, <2>7 DEF Next
  <2> QED BY <1>1, <2>7
<1> HIDE DEF A
<1>2. Spec => [][A]_vars
  BY <1>1, IInvAlways, PTL DEF Spec
<1> QED BY <1>2 DEF OnlyFormerAdminEmptiesAdmins, A
-----------------------------------------------------------------------------
(***************************************************************************)
(* Revocation, for every set of devices and requests. Each writer replaces *)
(* a file by what it holds: CRLStore.Add revoked-serials.json by the list  *)
(* in memory, Revoke and appendDevice devices.json by what they read of    *)
(* it. So the invariant bounds each of these copies by its file and the    *)
(* histories of what may have come between them.                           *)
(***************************************************************************)

(* What a flag is owed: its serial is listed, on its way to the list, or   *)
(* one of the failures that keep it out has happened to that device.       *)
Accounted == crlFile \cup {target[c] : c \in InFlight} \cup unlisted \cup wiped
                     \cup forgotten

(* What the list in memory lacks of the file, a load has dropped from it;  *)
(* what it has and the file lacks was not saved, wiped or forgotten.       *)
MemoryInv == /\ crlFile \subseteq crlMem \cup forgotten
             /\ crlMem \subseteq crlFile \cup unlisted \cup wiped \cup forgotten

(* What a GET has read was listed: it still is, unless a load or a wipe    *)
(* came between.                                                           *)
SeenInv == \A v \in View : seen[v] \subseteq (flagged \cup unflagged)
                               \cap (crlFile \cup wiped \cup forgotten)

(* Only marked devices are about to be listed, or listed.                  *)
FlagInv == /\ crlMem \subseteq flagged \cup unflagged
           /\ \A c \in InFlight : target[c] \in flagged \cup unflagged

(* Marks are taken back by appends only, and there is one append and one   *)
(* marking at a time: what either read is bounded by what is there now.    *)
CopiesInv == /\ appSeen \subseteq flagged
             /\ Saving # {} => flagged \subseteq uiSeen
             /\ uiSeen \subseteq Accounted
             /\ \A c, e \in Saving : c = e

(* tls-proxy refuses nothing the file never listed.                        *)
EnforcedInv == enforced \subseteq crlFile \cup wiped \cup forgotten

ListingInv == RevokeTypeOK /\ MemoryInv /\ SeenInv /\ FlagInv /\ CopiesInv
              /\ EnforcedInv /\ FlagAndListAgree

LEMMA ListingInit == RevokeInit => ListingInv
BY DEF RevokeInit, ListingInv, RevokeTypeOK, Replies, MemoryInv, SeenInv, FlagInv,
   CopiesInv, EnforcedInv, FlagAndListAgree, Saving, InFlight, Accounted

LEMMA ListingPreserved == ListingInv /\ [RevokeNext]_revokeVars => ListingInv'
<1> SUFFICES ASSUME ListingInv, [RevokeNext]_revokeVars PROVE ListingInv'
  OBVIOUS
<1> USE DEF ListingInv, RevokeTypeOK, Replies, MemoryInv, SeenInv, FlagInv,
        CopiesInv, EnforcedInv, FlagAndListAgree, Saving, InFlight, Accounted,
        FinishClick, deviceVars, appendVars, listVars, viewVars
<1>1. ASSUME NEW c \in Click, FindMarked(c) PROVE ListingInv'
  BY <1>1 DEF FindMarked
<1>2. ASSUME NEW c \in Click, FindUnmarked(c) PROVE ListingInv'
  BY <1>2 DEF FindUnmarked
<1>3. ASSUME NEW c \in Click, SaveMark(c) PROVE ListingInv'
  BY <1>3 DEF SaveMark
<1>4. ASSUME NEW c \in Click, FailFlag(c) PROVE ListingInv'
  BY <1>4 DEF FailFlag
<1>5. ASSUME NEW c \in Click, AlreadyListed(c) PROVE ListingInv'
  BY <1>5 DEF AlreadyListed
<1>6. ASSUME NEW c \in Click, ListSerial(c) PROVE ListingInv'
  BY <1>6 DEF ListSerial
<1>7. ASSUME NEW c \in Click, FailList(c) PROVE ListingInv'
  BY <1>7 DEF FailList
<1>8. CASE AppendReads
  BY <1>8 DEF AppendReads
<1>9. CASE AppendWrites
  BY <1>9 DEF AppendWrites
<1>10. CASE AppendFails
  BY <1>10 DEF AppendFails
<1>11. ASSUME NEW v \in View, LoadReadsCRL(v) PROVE ListingInv'
  BY <1>11 DEF LoadReadsCRL
<1>12. ASSUME NEW v \in View, LoadSetsCRL(v) PROVE ListingInv'
  BY <1>12 DEF LoadSetsCRL
<1>13. CASE RestartCRLStore
  BY <1>13 DEF RestartCRLStore, WebuiStops
<1>14. CASE WipeCRL
  BY <1>14 DEF WipeCRL
<1>15. CASE ReloadCRL
  BY <1>15 DEF ReloadCRL
<1>16. CASE UNCHANGED revokeVars
  BY <1>16 DEF revokeVars
<1> QED BY <1>1, <1>2, <1>3, <1>4, <1>5, <1>6, <1>7, <1>8, <1>9, <1>10, <1>11,
        <1>12, <1>13, <1>14, <1>15, <1>16 DEF RevokeNext, Revoke, AppendStep

LEMMA ListingAlways == RevokeSpec => []ListingInv
BY ListingInit, ListingPreserved, PTL DEF RevokeSpec

(* Every reachable state of both programs and of the files is well typed.  *)
THEOREM RevocationTypeCorrect == RevokeSpec => []RevokeTypeOK
<1>1. ListingInv => RevokeTypeOK
  BY DEF ListingInv
<1> QED BY <1>1, ListingAlways, PTL

(* devices.json, with its two writers that share no lock, and              *)
(* revoked-serials.json agree, device by device, up to named failures.     *)
THEOREM FlagAndListAgreeHolds == RevokeSpec => []FlagAndListAgree
<1>1. ListingInv => FlagAndListAgree
  BY DEF ListingInv
<1> QED BY <1>1, ListingAlways, PTL

(* A rewrite of revoked-serials.json by CRLStore drops only what a load    *)
(* dropped from the list in memory.                                        *)
THEOREM ListedStaysListedHolds == RevokeSpec => ListedStaysListed
<1>1. ASSUME ListingInv, [RevokeNext]_revokeVars
      PROVE  [crlFile \ forgotten \subseteq crlFile' \/ WipeCRL]_revokeVars
  BY <1>1 DEF ListingInv, MemoryInv, RevokeNext, Revoke, AppendStep, FindMarked,
     FindUnmarked, SaveMark, FailFlag, AlreadyListed, ListSerial, FailList,
     AppendReads, AppendWrites, AppendFails, LoadReadsCRL, LoadSetsCRL,
     RestartCRLStore, WebuiStops, ReloadCRL, listVars, revokeVars
<1> QED BY <1>1, ListingAlways, PTL DEF RevokeSpec, ListedStaysListed

(* A refused client certificate is refused until it was wiped from the     *)
(* list or forgotten.                                                      *)
THEOREM RefusedStaysRefusedHolds == RevokeSpec => RefusedStaysRefused
<1>1. ASSUME ListingInv, [RevokeNext]_revokeVars
      PROVE  \A d \in Device : HandshakeAccepts(d)' =>
               HandshakeAccepts(d) \/ d \in wiped \/ d \in forgotten
  BY <1>1 DEF ListingInv, EnforcedInv, HandshakeAccepts, RevokeNext, Revoke,
     AppendStep, FindMarked, FindUnmarked, SaveMark, FailFlag, AlreadyListed,
     ListSerial, FailList, AppendReads, AppendWrites, AppendFails, LoadReadsCRL,
     LoadSetsCRL, RestartCRLStore, WebuiStops, WipeCRL, ReloadCRL, revokeVars
<1> QED BY <1>1, ListingAlways, PTL DEF RevokeSpec, RefusedStaysRefused
=============================================================================
