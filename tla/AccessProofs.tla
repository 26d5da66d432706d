---------------------------- MODULE AccessProofs ----------------------------
(***************************************************************************)
(* Lockouts and invitations of users, the chart of accounts and what the   *)
(* pages show, for any users, tenants, codes, template and number of       *)
(* calls.                                                                  *)
(***************************************************************************)
EXTENDS MCAccess, SessionsProofs, TLAPS

(***************************************************************************)
(* Users, invitations and lockouts                                         *)
(***************************************************************************)

AccountLabels == {"idle", "create", "reset", "fail", "create invited", "invite", "enrol",
                  "accept", "done", "failed"}

\* AccountTypeOK in parts.
RowsTyped ==
  /\ status \in [Users -> UserStatuses]
  /\ attempts \in [Users -> Nat]
  /\ lock \in [Users -> {"none", "future", "past"}]
  /\ invitation \in [Users -> AccountCalls \cup Users \cup {NoInvitation}]
  /\ newest \in [Users -> AccountCalls \cup Users \cup {NoInvitation}]
  /\ expired \subseteq AccountCalls \cup Users
  /\ accepted \in [Users -> Nat]
  /\ streak \in [Users -> Nat]

Memberships == [status : TenantUserStatuses, role : RoleNames]
MembersTyped == member \in [Tenants -> [Users -> Memberships]]

CallsTyped ==
  /\ pc \in [Calls -> AccountLabels]
  /\ about \in [AccountCalls -> Users \cup {NoUser}]
  /\ seen \in [AccountCalls -> Nat]
  /\ DOMAIN at = AccountCalls

AccountTyped == RowsTyped /\ MembersTyped /\ CallsTyped

\* A call that works on a row works on a user, and on a tenant if it invites.
AboutUsers ==
  \A c \in AccountCalls :
    /\ InFlight(c) => about[c] \in Users
    /\ pc[c] \in {"create invited", "invite", "enrol"} => at[c] \in Tenants

\* What a call has read is still there, unless it is stale.
FreshRows ==
  \A c \in AccountCalls \ stale :
    /\ pc[c] = "fail" => seen[c] = attempts[about[c]]
    /\ pc[c] = "accept" => status[about[c]] = "Invited"

\* Nobody has set a password before an acceptance counts.
NotYetAccepted ==
  \A u \in Users : status[u] \in {"None", "Invited"} => accepted[u] = 0

AccountInv ==
  AccountTyped /\ AboutUsers /\ FreshRows /\ NotYetAccepted
  /\ LockoutCounts /\ InvitationAcceptedOnce

AccountView == <<accountVars, pc, stale>>

LEMMA RolesOfTemplate == RoleNames = {"Owner", "Admin", "Accountant", "Viewer"}
  BY DEF RoleNames, DefaultRoles

LEMMA OneMore == \A n \in Nat : n + 1 \in Nat /\ (n = 0 => n + 1 = 1)
  OBVIOUS

LEMMA NoneIsNoLock == ~(0 >= MaxAttempts)
  BY AccountAssumption

LEMMA AccountInitInv == AccountInit => AccountInv
<1> SUFFICES ASSUME AccountInit PROVE AccountInv
  OBVIOUS
<1> USE AccountAssumption, RolesOfTemplate DEF AccountInit, RequestsInit
<1>1. /\ status \in [Users -> UserStatuses]
      /\ invitation \in [Users -> AccountCalls \cup Users \cup {NoInvitation}]
      /\ \A u \in Users : status[u] = "Invited" => newest[u] # NoInvitation
      /\ newest = invitation
  BY DEF Unknown, InvitedBy, UserStatuses
<1>2. member \in [Tenants -> [Users -> [status : TenantUserStatuses, role : RoleNames]]]
  BY DEF Unknown, InvitedBy, NoMember, TenantUserStatuses
<1>3. AccountTyped
  <2>1. RowsTyped
    BY <1>1 DEF RowsTyped
  <2>2. MembersTyped
    BY <1>2 DEF MembersTyped, Memberships
  <2>3. CallsTyped
    BY DEF CallsTyped, AccountLabels
  <2>4. QED
    BY <2>1, <2>2, <2>3 DEF AccountTyped
<1>4. AboutUsers /\ FreshRows /\ NotYetAccepted
  BY DEF AboutUsers, FreshRows, NotYetAccepted, InFlight, Ended
<1>5. LockoutCounts
  BY DEF LockoutCounts
<1>6. InvitationAcceptedOnce
  BY <1>1 DEF InvitationAcceptedOnce
<1>7. QED
  BY <1>3, <1>4, <1>5, <1>6 DEF AccountInv

\* What can happen: a call fails or begins by reading a row, or does one of the
\* steps below.
Fails(c) ==
  /\ pc' = [pc EXCEPT ![c] = "failed"]
  /\ UNCHANGED <<accountVars, stale>>

Begins(c, u, l) ==
  /\ pc[c] = "idle" /\ pc' = [pc EXCEPT ![c] = l]
  /\ about' = [about EXCEPT ![c] = u]
  /\ \E n \in Nat : seen' = [seen EXCEPT ![c] = n] /\ (l = "fail" => n = attempts[u])
  /\ l = "accept" => status[u] = "Invited"
  /\ UNCHANGED <<accountTables, at, accountHistory, stale>>

Creates(c) == CreateUser(c) /\ status[about[c]] = "None"
CreatesInvited(c) == CreateInvited(c) /\ status[about[c]] = "None"

\* Every step is one of these.
LEMMA AccountSteps ==
  ASSUME AccountInv, [AccountNext]_AccountView
  PROVE  \/ \E c \in AccountCalls :
              \/ Fails(c) \/ Creates(c) \/ CreatesInvited(c) \/ ResetAttempts(c)
              \/ CountFailure(c) \/ InviteAgain(c) \/ Enrol(c) \/ AcceptInvite(c)
              \/ \E u \in Users, l \in {"create", "reset", "fail", "accept"} : Begins(c, u, l)
              \/ \E u, v \in Users, t \in Tenants : ReadInvited(c, v, u, t)
              \/ \E u \in Users, t \in Tenants : CreateTenant(c, u, t)
         \/ \E u \in Users : LockRunsOut(u) \/ InvitationExpires(u) \/ DisableUser(u)
         \/ UNCHANGED AccountView
<1> USE DEF AccountInv, AccountTyped, RowsTyped, CallsTyped, Goto, accountVars, accountTables,
            accountCalls, accountHistory, Invites
<1>1. ASSUME NEW c \in AccountCalls, NEW u \in Users, Register(c, u)
      PROVE  Fails(c) \/ Begins(c, u, "create")
  <2>1. seen' = seen => seen' = [seen EXCEPT ![c] = seen[c]] /\ seen[c] \in Nat
    OBVIOUS
  <2>2. QED
    BY <1>1, <2>1 DEF Register, Refuse, Read, Fails, Begins
<1>2. ASSUME NEW c \in AccountCalls, NEW u \in Users, ReadLogin(c, u)
      PROVE  Fails(c) \/ Begins(c, u, "reset") \/ Begins(c, u, "fail")
  <2>1. attempts[u] \in Nat
    OBVIOUS
  <2>2. QED
    BY <1>2, <2>1 DEF ReadLogin, Refuse, Read, Fails, Begins
<1>3. ASSUME NEW c \in AccountCalls, NEW u \in Users, ReadInvitation(c, u)
      PROVE  Fails(c) \/ Begins(c, u, "accept")
  <2>1. seen' = seen => seen' = [seen EXCEPT ![c] = seen[c]] /\ seen[c] \in Nat
    OBVIOUS
  <2>2. QED
    BY <1>3, <2>1 DEF ReadInvitation, Refuse, Read, Fails, Begins
<1>4. ASSUME NEW c \in AccountCalls, RefusePassword(c) \/ AbortAccount(c) PROVE Fails(c)
  BY <1>4 DEF RefusePassword, AbortAccount, Refuse, Fails
<1>5. ASSUME NEW c \in AccountCalls, CreateUser(c) PROVE Fails(c) \/ Creates(c)
  BY <1>5 DEF CreateUser, Fails, Creates
<1>6. ASSUME NEW c \in AccountCalls, CreateInvited(c) PROVE Fails(c) \/ CreatesInvited(c)
  BY <1>6 DEF CreateInvited, Fails, CreatesInvited
<1>7. QED
  BY <1>1, <1>2, <1>3, <1>4, <1>5, <1>6 DEF AccountNext, AccountStep

\* The rows of users keep their columns.
LEMMA RowsTypedInductive ==
  ASSUME AccountInv, [AccountNext]_AccountView
  PROVE  RowsTyped'
<1> USE AccountAssumption DEF AccountInv, AccountTyped, RowsTyped, CallsTyped, AccountLabels, Goto,
          accountVars, accountTables, accountCalls, accountHistory, Invites, InFlight, Ended,
          UserStatuses, AboutUsers
<1>1. ASSUME NEW c \in AccountCalls, Fails(c) PROVE RowsTyped'
  BY <1>1 DEF Fails
<1>2. ASSUME NEW c \in AccountCalls, NEW u \in Users,
             NEW l \in {"create", "reset", "fail", "accept"}, Begins(c, u, l)
      PROVE  RowsTyped'
  BY <1>2 DEF Begins
<1>3. ASSUME NEW c \in AccountCalls, NEW u \in Users, NEW v \in Users,
             NEW t \in Tenants, ReadInvited(c, v, u, t)
      PROVE  RowsTyped'
  BY <1>3 DEF ReadInvited, Read
<1>4. ASSUME NEW c \in AccountCalls, NEW u \in Users, NEW t \in Tenants,
             CreateTenant(c, u, t)
      PROVE  RowsTyped'
  BY <1>4 DEF CreateTenant, Founded
<1>5. ASSUME NEW c \in AccountCalls, Creates(c) PROVE RowsTyped'
  <2>1. /\ status' = [status EXCEPT ![about[c]] = "Active"]
        /\ UNCHANGED <<attempts, lock, invitation, newest, expired, accepted, streak>>
    BY <1>5 DEF Creates, CreateUser
  <2>2. QED
    BY <2>1
<1>6. ASSUME NEW c \in AccountCalls, ResetAttempts(c) PROVE RowsTyped'
  BY <1>6 DEF ResetAttempts, Writes, Outdate
<1>7. ASSUME NEW c \in AccountCalls, CountFailure(c) PROVE RowsTyped'
  <2> DEFINE n == seen[c] + 1
             l == IF n >= MaxAttempts THEN "future" ELSE "none"
  <2>0. about[c] \in Users /\ n \in Nat
    BY <1>7, OneMore DEF CountFailure
  <2>1. /\ attempts' = [attempts EXCEPT ![about[c]] = n]
        /\ lock' = [lock EXCEPT ![about[c]] = l] /\ l \in {"none", "future", "past"}
        /\ streak' = [streak EXCEPT ![about[c]] = @ + 1]
        /\ UNCHANGED <<status, invitation, newest, expired, accepted>>
    BY <1>7 DEF CountFailure
  <2> HIDE DEF n, l
  <2>2. streak[about[c]] + 1 \in Nat
    BY <2>0, OneMore
  <2>3. QED
    BY <2>0, <2>1, <2>2
<1>8. ASSUME NEW c \in AccountCalls, CreatesInvited(c) PROVE RowsTyped'
  <2>1. /\ status' = [status EXCEPT ![about[c]] = "Invited"]
        /\ invitation' = [invitation EXCEPT ![about[c]] = c]
        /\ newest' = [newest EXCEPT ![about[c]] = c]
        /\ UNCHANGED <<attempts, lock, expired, accepted, streak>>
    BY <1>8 DEF CreatesInvited, CreateInvited
  <2>2. QED
    BY <2>1
<1>9. ASSUME NEW c \in AccountCalls, InviteAgain(c) PROVE RowsTyped'
  BY <1>9 DEF InviteAgain, Writes, Outdate
<1>10. ASSUME NEW c \in AccountCalls, Enrol(c) PROVE RowsTyped'
  BY <1>10 DEF Enrol
<1>11. ASSUME NEW c \in AccountCalls, AcceptInvite(c) PROVE RowsTyped'
  <2>1. /\ status' = [status EXCEPT ![about[c]] = "Active"]
        /\ invitation' = [invitation EXCEPT ![about[c]] = NoInvitation]
        /\ accepted' = accepted \/ accepted' = [accepted EXCEPT ![about[c]] = @ + 1]
        /\ UNCHANGED <<attempts, lock, newest, expired, streak>>
    BY <1>11 DEF AcceptInvite
  <2>2. about[c] \in Users
    BY <1>11 DEF AcceptInvite
  <2>3. accepted[about[c]] + 1 \in Nat
    BY <2>2, OneMore
  <2> DEFINE n == accepted[about[c]] + 1
  <2> HIDE DEF n
  <2>4. accepted' \in [Users -> Nat]
    <3>1. n \in Nat
      BY <2>3 DEF n
    <3>2. accepted \in [Users -> Nat]
      OBVIOUS
    <3> HIDE DEF AccountInv
    <3>3. CASE accepted' = accepted
      BY <3>2, <3>3
    <3>4. CASE accepted' = [accepted EXCEPT ![about[c]] = n]
      BY <3>1, <3>2, <3>4
    <3>5. QED
      BY <2>1, <3>3, <3>4 DEF n
  <2>5. QED
    BY <2>1, <2>4
<1>12. ASSUME NEW u \in Users, LockRunsOut(u) PROVE RowsTyped'
  BY <1>12 DEF LockRunsOut
<1>13. ASSUME NEW u \in Users, InvitationExpires(u) PROVE RowsTyped'
  <2>1. /\ expired' = expired \cup {invitation[u]} /\ invitation[u] # NoInvitation
        /\ UNCHANGED <<status, attempts, lock, invitation, newest, accepted, streak>>
    BY <1>13 DEF InvitationExpires
  <2>2. invitation[u] \in AccountCalls \cup Users
    BY <2>1
  <2>3. QED
    BY <2>1, <2>2
<1>14. ASSUME NEW u \in Users, DisableUser(u) PROVE RowsTyped'
  BY <1>14 DEF DisableUser
<1>15. CASE UNCHANGED AccountView
  BY <1>15 DEF AccountView
<1> HIDE DEF AccountInv, AccountTyped, RowsTyped, CallsTyped, AccountLabels, Goto, accountVars, accountTables,
           accountCalls, accountHistory, Invites, InFlight, Ended, UserStatuses, AboutUsers
<1>16. QED
  BY <1>1, <1>2, <1>3, <1>4, <1>5, <1>6, <1>7, <1>8, <1>9, <1>10, <1>11, <1>12, <1>13, <1>14, <1>15, AccountSteps

\* So do memberships; and the calls what they hold.
LEMMA CallsTypedInductive ==
  ASSUME AccountInv, [AccountNext]_AccountView
  PROVE  CallsTyped'
<1> USE AccountAssumption DEF AccountInv, AccountTyped, RowsTyped, CallsTyped, AccountLabels, Goto,
          accountVars, accountTables, accountCalls, accountHistory, Invites, InFlight, Ended,
          AboutUsers
<1>1. ASSUME NEW c \in AccountCalls, Fails(c) PROVE CallsTyped'
  BY <1>1 DEF Fails
<1>2. ASSUME NEW c \in AccountCalls, NEW u \in Users,
             NEW l \in {"create", "reset", "fail", "accept"}, Begins(c, u, l)
      PROVE  CallsTyped'
  <2>1. PICK n \in Nat : seen' = [seen EXCEPT ![c] = n]
    BY <1>2 DEF Begins
  <2>2. QED
    BY <1>2, <2>1 DEF Begins
<1>3. ASSUME NEW c \in AccountCalls, NEW u \in Users, NEW v \in Users,
             NEW t \in Tenants, ReadInvited(c, v, u, t)
      PROVE  CallsTyped'
  BY <1>3 DEF ReadInvited, Read
<1>4. ASSUME NEW c \in AccountCalls, NEW u \in Users, NEW t \in Tenants,
             CreateTenant(c, u, t)
      PROVE  CallsTyped'
  BY <1>4 DEF CreateTenant, Founded
<1>5. ASSUME NEW c \in AccountCalls, Creates(c) PROVE CallsTyped'
  <2>1. /\ pc' = [pc EXCEPT ![c] = "done"]
        /\ UNCHANGED <<about, at, seen>>
    BY <1>5 DEF Creates, CreateUser
  <2>2. QED
    BY <2>1
<1>6. ASSUME NEW c \in AccountCalls, ResetAttempts(c) PROVE CallsTyped'
  BY <1>6 DEF ResetAttempts, Writes, Outdate
<1>7. ASSUME NEW c \in AccountCalls, CountFailure(c) PROVE CallsTyped'
  BY <1>7 DEF CountFailure, Writes, Outdate
<1>8. ASSUME NEW c \in AccountCalls, CreatesInvited(c) PROVE CallsTyped'
  <2>1. /\ pc' = [pc EXCEPT ![c] = "enrol"]
        /\ UNCHANGED <<about, at, seen>>
    BY <1>8 DEF CreatesInvited, CreateInvited
  <2>2. QED
    BY <2>1
<1>9. ASSUME NEW c \in AccountCalls, InviteAgain(c) PROVE CallsTyped'
  BY <1>9 DEF InviteAgain, Writes, Outdate
<1>10. ASSUME NEW c \in AccountCalls, Enrol(c) PROVE CallsTyped'
  BY <1>10 DEF Enrol
<1>11. ASSUME NEW c \in AccountCalls, AcceptInvite(c) PROVE CallsTyped'
  BY <1>11 DEF AcceptInvite, Writes, Outdate
<1>12. ASSUME NEW u \in Users, LockRunsOut(u) PROVE CallsTyped'
  BY <1>12 DEF LockRunsOut
<1>13. ASSUME NEW u \in Users, InvitationExpires(u) PROVE CallsTyped'
  BY <1>13 DEF InvitationExpires
<1>14. ASSUME NEW u \in Users, DisableUser(u) PROVE CallsTyped'
  BY <1>14 DEF DisableUser
<1>15. CASE UNCHANGED AccountView
  BY <1>15 DEF AccountView
<1> HIDE DEF AccountInv, AccountTyped, RowsTyped, CallsTyped, AccountLabels, Goto, accountVars, accountTables,
           accountCalls, accountHistory, Invites, InFlight, Ended, AboutUsers
<1>16. QED
  BY <1>1, <1>2, <1>3, <1>4, <1>5, <1>6, <1>7, <1>8, <1>9, <1>10, <1>11, <1>12, <1>13, <1>14, <1>15, AccountSteps

\* Calls take a user, and a tenant, with them when they begin.
LEMMA AboutUsersInductive ==
  ASSUME AccountInv, [AccountNext]_AccountView
  PROVE  AboutUsers'
<1> USE AccountAssumption DEF AccountInv, AccountTyped, RowsTyped, CallsTyped, AccountLabels, Goto,
          accountVars, accountTables, accountCalls, accountHistory, Invites, InFlight, Ended,
          AboutUsers
<1>1. ASSUME NEW c \in AccountCalls, Fails(c) PROVE AboutUsers'
  BY <1>1 DEF Fails
<1>2. ASSUME NEW c \in AccountCalls, NEW u \in Users,
             NEW l \in {"create", "reset", "fail", "accept"}, Begins(c, u, l)
      PROVE  AboutUsers'
  BY <1>2 DEF Begins
<1>3. ASSUME NEW c \in AccountCalls, NEW u \in Users, NEW v \in Users,
             NEW t \in Tenants, ReadInvited(c, v, u, t)
      PROVE  AboutUsers'
  BY <1>3 DEF ReadInvited, Read
<1>4. ASSUME NEW c \in AccountCalls, NEW u \in Users, NEW t \in Tenants,
             CreateTenant(c, u, t)
      PROVE  AboutUsers'
  BY <1>4 DEF CreateTenant, Founded
<1>5. ASSUME NEW c \in AccountCalls, Creates(c) PROVE AboutUsers'
  <2>1. /\ pc' = [pc EXCEPT ![c] = "done"]
        /\ UNCHANGED <<about, at, seen>>
    BY <1>5 DEF Creates, CreateUser
  <2>2. QED
    BY <2>1
<1>6. ASSUME NEW c \in AccountCalls, ResetAttempts(c) PROVE AboutUsers'
  BY <1>6 DEF ResetAttempts, Writes, Outdate
<1>7. ASSUME NEW c \in AccountCalls, CountFailure(c) PROVE AboutUsers'
  BY <1>7 DEF CountFailure, Writes, Outdate
<1>8. ASSUME NEW c \in AccountCalls, CreatesInvited(c) PROVE AboutUsers'
  <2>1. /\ pc[c] = "create invited"
        /\ pc' = [pc EXCEPT ![c] = "enrol"]
        /\ UNCHANGED <<about, at, seen>>
    BY <1>8 DEF CreatesInvited, CreateInvited
  <2>2. QED
    BY <2>1
<1>9. ASSUME NEW c \in AccountCalls, InviteAgain(c) PROVE AboutUsers'
  BY <1>9 DEF InviteAgain, Writes, Outdate
<1>10. ASSUME NEW c \in AccountCalls, Enrol(c) PROVE AboutUsers'
  BY <1>10 DEF Enrol
<1>11. ASSUME NEW c \in AccountCalls, AcceptInvite(c) PROVE AboutUsers'
  BY <1>11 DEF AcceptInvite, Writes, Outdate
<1>12. ASSUME NEW u \in Users, LockRunsOut(u) PROVE AboutUsers'
  BY <1>12 DEF LockRunsOut
<1>13. ASSUME NEW u \in Users, InvitationExpires(u) PROVE AboutUsers'
  BY <1>13 DEF InvitationExpires
<1>14. ASSUME NEW u \in Users, DisableUser(u) PROVE AboutUsers'
  BY <1>14 DEF DisableUser
<1>15. CASE UNCHANGED AccountView
  BY <1>15 DEF AccountView
<1> HIDE DEF AccountInv, AccountTyped, RowsTyped, CallsTyped, AccountLabels, Goto, accountVars, accountTables,
           accountCalls, accountHistory, Invites, InFlight, Ended, AboutUsers
<1>16. QED
  BY <1>1, <1>2, <1>3, <1>4, <1>5, <1>6, <1>7, <1>8, <1>9, <1>10, <1>11, <1>12, <1>13, <1>14, <1>15, AccountSteps

\* The other calls at a row that is written are stale.
LEMMA OthersStale ==
  ASSUME FreshRows, AboutUsers, NEW c \in AccountCalls, NEW l, l \notin {"fail", "accept"},
         pc \in [Calls -> AccountLabels],
         pc' = [pc EXCEPT ![c] = l], about' = about, seen' = seen, attempts' = attempts,
         \A u \in Users : u # about[c] => status'[u] = status[u],
         stale' = stale \cup {d \in AccountCalls \ {c} : about[d] = about[c] /\ InFlight(d)}
  PROVE  FreshRows'
<1> SUFFICES ASSUME NEW d \in AccountCalls, d \notin stale'
             PROVE  /\ pc'[d] = "fail" => seen'[d] = attempts'[about'[d]]
                    /\ pc'[d] = "accept" => status'[about'[d]] = "Invited"
  BY DEF FreshRows
<1>1. CASE d = c
  BY <1>1, AccountAssumption
<1>2. CASE d # c
  <2>1. pc'[d] = pc[d] /\ d \notin stale
    BY <1>2, AccountAssumption
  <2>2. CASE about[d] = about[c]
    BY <1>2, <2>1, <2>2 DEF InFlight, Ended
  <2>3. CASE about[d] # about[c]
    BY <2>1, <2>3 DEF FreshRows, AboutUsers, InFlight, Ended
  <2>4. QED
    BY <2>2, <2>3
<1>3. QED
  BY <1>1, <1>2

\* A write makes the other calls at the row stale.
LEMMA FreshRowsInductive ==
  ASSUME AccountInv, [AccountNext]_AccountView
  PROVE  FreshRows'
<1> USE AccountAssumption DEF AccountInv, AccountTyped, RowsTyped, CallsTyped, AccountLabels, Goto,
          accountVars, accountTables, accountCalls, accountHistory, Invites, InFlight, Ended,
          FreshRows, AboutUsers
<1>1. ASSUME NEW c \in AccountCalls, Fails(c) PROVE FreshRows'
  BY <1>1 DEF Fails
<1>2. ASSUME NEW c \in AccountCalls, NEW u \in Users,
             NEW l \in {"create", "reset", "fail", "accept"}, Begins(c, u, l)
      PROVE  FreshRows'
  <2>1. PICK n \in Nat : seen' = [seen EXCEPT ![c] = n] /\ (l = "fail" => n = attempts[u])
    BY <1>2 DEF Begins
  <2>2. /\ pc' = [pc EXCEPT ![c] = l] /\ about' = [about EXCEPT ![c] = u]
        /\ l = "accept" => status[u] = "Invited"
        /\ UNCHANGED <<status, attempts, stale>>
    BY <1>2 DEF Begins
  <2>3. QED
    BY <2>1, <2>2
<1>3. ASSUME NEW c \in AccountCalls, NEW u \in Users, NEW v \in Users,
             NEW t \in Tenants, ReadInvited(c, v, u, t)
      PROVE  FreshRows'
  BY <1>3 DEF ReadInvited, Read
<1>4. ASSUME NEW c \in AccountCalls, NEW u \in Users, NEW t \in Tenants,
             CreateTenant(c, u, t)
      PROVE  FreshRows'
  BY <1>4 DEF CreateTenant, Founded
<1>5. ASSUME NEW c \in AccountCalls, Creates(c) PROVE FreshRows'
  <2>1. /\ pc' = [pc EXCEPT ![c] = "done"] /\ about' = about /\ seen' = seen /\ attempts' = attempts
        /\ status' = [status EXCEPT ![about[c]] = "Active"]
    BY <1>5 DEF Creates, CreateUser
  <2>2. stale' = stale \cup {d \in AccountCalls \ {c} : about[d] = about[c] /\ InFlight(d)}
    BY <1>5 DEF Creates, CreateUser, Writes, Outdate
  <2>3. \A u \in Users : u # about[c] => status'[u] = status[u]
    BY <2>1
  <2>4. FreshRows /\ AboutUsers /\ pc \in [Calls -> AccountLabels]
    OBVIOUS
  <2> HIDE DEF AccountInv, FreshRows, AboutUsers, AccountLabels
  <2>5. QED
    BY <2>1, <2>2, <2>3, <2>4, OthersStale
<1>6. ASSUME NEW c \in AccountCalls, ResetAttempts(c) PROVE FreshRows'
  BY <1>6 DEF ResetAttempts, Writes, Outdate
<1>7. ASSUME NEW c \in AccountCalls, CountFailure(c) PROVE FreshRows'
  BY <1>7 DEF CountFailure, Writes, Outdate
<1>8. ASSUME NEW c \in AccountCalls, CreatesInvited(c) PROVE FreshRows'
  <2>1. /\ pc' = [pc EXCEPT ![c] = "enrol"] /\ about' = about /\ seen' = seen /\ attempts' = attempts
        /\ status' = [status EXCEPT ![about[c]] = "Invited"]
    BY <1>8 DEF CreatesInvited, CreateInvited
  <2>2. stale' = stale \cup {d \in AccountCalls \ {c} : about[d] = about[c] /\ InFlight(d)}
    BY <1>8 DEF CreatesInvited, CreateInvited, Writes, Outdate
  <2>3. \A u \in Users : u # about[c] => status'[u] = status[u]
    BY <2>1
  <2>4. FreshRows /\ AboutUsers /\ pc \in [Calls -> AccountLabels]
    OBVIOUS
  <2> HIDE DEF AccountInv, FreshRows, AboutUsers, AccountLabels
  <2>5. QED
    BY <2>1, <2>2, <2>3, <2>4, OthersStale
<1>9. ASSUME NEW c \in AccountCalls, InviteAgain(c) PROVE FreshRows'
  BY <1>9 DEF InviteAgain, Writes, Outdate
<1>10. ASSUME NEW c \in AccountCalls, Enrol(c) PROVE FreshRows'
  BY <1>10 DEF Enrol
<1>11. ASSUME NEW c \in AccountCalls, AcceptInvite(c) PROVE FreshRows'
  BY <1>11 DEF AcceptInvite, Writes, Outdate
<1>12. ASSUME NEW u \in Users, LockRunsOut(u) PROVE FreshRows'
  BY <1>12 DEF LockRunsOut
<1>13. ASSUME NEW u \in Users, InvitationExpires(u) PROVE FreshRows'
  BY <1>13 DEF InvitationExpires
<1>14. ASSUME NEW u \in Users, DisableUser(u) PROVE FreshRows'
  BY <1>14 DEF DisableUser
<1>15. CASE UNCHANGED AccountView
  BY <1>15 DEF AccountView
<1> HIDE DEF AccountInv, AccountTyped, RowsTyped, CallsTyped, AccountLabels, Goto, accountVars, accountTables,
           accountCalls, accountHistory, Invites, InFlight, Ended, FreshRows, AboutUsers
<1>16. QED
  BY <1>1, <1>2, <1>3, <1>4, <1>5, <1>6, <1>7, <1>8, <1>9, <1>10, <1>11, <1>12, <1>13, <1>14, <1>15, AccountSteps

\* Only a call that is fresh counts, and it has read Invited.
LEMMA NotYetInductive ==
  ASSUME AccountInv, [AccountNext]_AccountView
  PROVE  NotYetAccepted'
<1> USE AccountAssumption DEF AccountInv, AccountTyped, RowsTyped, CallsTyped, AccountLabels, Goto,
          accountVars, accountTables, accountCalls, accountHistory, Invites, InFlight, Ended,
          NotYetAccepted, FreshRows, AboutUsers
<1>1. ASSUME NEW c \in AccountCalls, Fails(c) PROVE NotYetAccepted'
  BY <1>1 DEF Fails
<1>2. ASSUME NEW c \in AccountCalls, NEW u \in Users,
             NEW l \in {"create", "reset", "fail", "accept"}, Begins(c, u, l)
      PROVE  NotYetAccepted'
  BY <1>2 DEF Begins
<1>3. ASSUME NEW c \in AccountCalls, NEW u \in Users, NEW v \in Users,
             NEW t \in Tenants, ReadInvited(c, v, u, t)
      PROVE  NotYetAccepted'
  BY <1>3 DEF ReadInvited, Read
<1>4. ASSUME NEW c \in AccountCalls, NEW u \in Users, NEW t \in Tenants,
             CreateTenant(c, u, t)
      PROVE  NotYetAccepted'
  BY <1>4 DEF CreateTenant, Founded
<1>5. ASSUME NEW c \in AccountCalls, Creates(c) PROVE NotYetAccepted'
  <2>1. /\ status' = [status EXCEPT ![about[c]] = "Active"]
        /\ accepted' = accepted
    BY <1>5 DEF Creates, CreateUser
  <2>2. QED
    BY <2>1
<1>6. ASSUME NEW c \in AccountCalls, ResetAttempts(c) PROVE NotYetAccepted'
  BY <1>6 DEF ResetAttempts, Writes, Outdate
<1>7. ASSUME NEW c \in AccountCalls, CountFailure(c) PROVE NotYetAccepted'
  BY <1>7 DEF CountFailure, Writes, Outdate
<1>8. ASSUME NEW c \in AccountCalls, CreatesInvited(c) PROVE NotYetAccepted'
  <2>1. /\ status[about[c]] = "None"
        /\ status' = [status EXCEPT ![about[c]] = "Invited"]
        /\ accepted' = accepted
    BY <1>8 DEF CreatesInvited, CreateInvited
  <2>2. QED
    BY <2>1
<1>9. ASSUME NEW c \in AccountCalls, InviteAgain(c) PROVE NotYetAccepted'
  BY <1>9 DEF InviteAgain, Writes, Outdate
<1>10. ASSUME NEW c \in AccountCalls, Enrol(c) PROVE NotYetAccepted'
  BY <1>10 DEF Enrol
<1>11. ASSUME NEW c \in AccountCalls, AcceptInvite(c) PROVE NotYetAccepted'
  BY <1>11 DEF AcceptInvite, Writes, Outdate
<1>12. ASSUME NEW u \in Users, LockRunsOut(u) PROVE NotYetAccepted'
  BY <1>12 DEF LockRunsOut
<1>13. ASSUME NEW u \in Users, InvitationExpires(u) PROVE NotYetAccepted'
  BY <1>13 DEF InvitationExpires
<1>14. ASSUME NEW u \in Users, DisableUser(u) PROVE NotYetAccepted'
  BY <1>14 DEF DisableUser
<1>15. CASE UNCHANGED AccountView
  BY <1>15 DEF AccountView
<1> HIDE DEF AccountInv, AccountTyped, RowsTyped, CallsTyped, AccountLabels, Goto, accountVars, accountTables,
           accountCalls, accountHistory, Invites, InFlight, Ended, NotYetAccepted, FreshRows, AboutUsers
<1>16. QED
  BY <1>1, <1>2, <1>3, <1>4, <1>5, <1>6, <1>7, <1>8, <1>9, <1>10, <1>11, <1>12, <1>13, <1>14, <1>15, AccountSteps

\* A fresh login counts on from what it has read.
LEMMA LockoutInductive ==
  ASSUME AccountInv, [AccountNext]_AccountView
  PROVE  LockoutCounts'
<1> USE AccountAssumption DEF AccountInv, AccountTyped, RowsTyped, CallsTyped, AccountLabels, Goto,
          accountVars, accountTables, accountCalls, accountHistory, Invites, InFlight, Ended,
          LockoutCounts, FreshRows, AboutUsers
<1>1. ASSUME NEW c \in AccountCalls, Fails(c) PROVE LockoutCounts'
  BY <1>1 DEF Fails
<1>2. ASSUME NEW c \in AccountCalls, NEW u \in Users,
             NEW l \in {"create", "reset", "fail", "accept"}, Begins(c, u, l)
      PROVE  LockoutCounts'
  BY <1>2 DEF Begins
<1>3. ASSUME NEW c \in AccountCalls, NEW u \in Users, NEW v \in Users,
             NEW t \in Tenants, ReadInvited(c, v, u, t)
      PROVE  LockoutCounts'
  BY <1>3 DEF ReadInvited, Read
<1>4. ASSUME NEW c \in AccountCalls, NEW u \in Users, NEW t \in Tenants,
             CreateTenant(c, u, t)
      PROVE  LockoutCounts'
  BY <1>4 DEF CreateTenant, Founded
<1>5. ASSUME NEW c \in AccountCalls, Creates(c) PROVE LockoutCounts'
  <2>1. /\ UNCHANGED <<attempts, lock, streak, miscounted>>
    BY <1>5 DEF Creates, CreateUser
  <2>2. QED
    BY <2>1
<1>6. ASSUME NEW c \in AccountCalls, ResetAttempts(c) PROVE LockoutCounts'
  <2> DEFINE v == about[c]
  <2>1. /\ v \in Users
        /\ attempts' = [attempts EXCEPT ![v] = 0] /\ streak' = [streak EXCEPT ![v] = 0]
        /\ lock' = [lock EXCEPT ![v] = "none"] /\ miscounted' = miscounted \ {v}
    BY <1>6 DEF ResetAttempts
  <2> HIDE DEF v
  <2>2. QED
    BY <2>1, NoneIsNoLock
<1>7. ASSUME NEW c \in AccountCalls, CountFailure(c) PROVE LockoutCounts'
  <2> DEFINE v == about[c]
             n == seen[c] + 1
  <2>1. /\ v \in Users
        /\ attempts' = [attempts EXCEPT ![v] = n] /\ streak' = [streak EXCEPT ![v] = @ + 1]
        /\ lock' = [lock EXCEPT ![v] = IF n >= MaxAttempts THEN "future" ELSE "none"]
        /\ miscounted' = IF c \in stale THEN miscounted \cup {v} ELSE miscounted
    BY <1>7 DEF CountFailure
  <2>2. c \notin stale => seen[c] = attempts[v]
    BY <1>7 DEF CountFailure
  <2> HIDE DEF v
  <2> SUFFICES ASSUME NEW u \in Users, u \notin miscounted'
               PROVE  attempts'[u] = streak'[u] /\ (attempts'[u] >= MaxAttempts <=> lock'[u] # "none")
    OBVIOUS
  <2>3. CASE u # v
    BY <2>1, <2>3
  <2>4. CASE u = v
    <3>1. c \notin stale /\ u \notin miscounted
      BY <2>1, <2>4
    <3>2. n = streak[v] + 1
      BY <2>2, <2>4, <3>1
    <3>3. QED
      BY <2>1, <2>4, <3>2
  <2>5. QED
    BY <2>3, <2>4
<1>8. ASSUME NEW c \in AccountCalls, CreatesInvited(c) PROVE LockoutCounts'
  <2>1. /\ UNCHANGED <<attempts, lock, streak, miscounted>>
    BY <1>8 DEF CreatesInvited, CreateInvited
  <2>2. QED
    BY <2>1
<1>9. ASSUME NEW c \in AccountCalls, InviteAgain(c) PROVE LockoutCounts'
  BY <1>9 DEF InviteAgain, Writes, Outdate
<1>10. ASSUME NEW c \in AccountCalls, Enrol(c) PROVE LockoutCounts'
  BY <1>10 DEF Enrol
<1>11. ASSUME NEW c \in AccountCalls, AcceptInvite(c) PROVE LockoutCounts'
  BY <1>11 DEF AcceptInvite, Writes, Outdate
<1>12. ASSUME NEW u \in Users, LockRunsOut(u) PROVE LockoutCounts'
  BY <1>12 DEF LockRunsOut
<1>13. ASSUME NEW u \in Users, InvitationExpires(u) PROVE LockoutCounts'
  BY <1>13 DEF InvitationExpires
<1>14. ASSUME NEW u \in Users, DisableUser(u) PROVE LockoutCounts'
  BY <1>14 DEF DisableUser
<1>15. CASE UNCHANGED AccountView
  BY <1>15 DEF AccountView
<1> HIDE DEF AccountInv, AccountTyped, RowsTyped, CallsTyped, AccountLabels, Goto, accountVars, accountTables,
           accountCalls, accountHistory, Invites, InFlight, Ended, LockoutCounts, FreshRows, AboutUsers
<1>16. QED
  BY <1>1, <1>2, <1>3, <1>4, <1>5, <1>6, <1>7, <1>8, <1>9, <1>10, <1>11, <1>12, <1>13, <1>14, <1>15, AccountSteps

\* A fresh acceptance is the first one; an invitation goes only with it.
LEMMA AcceptedInductive ==
  ASSUME AccountInv, [AccountNext]_AccountView
  PROVE  InvitationAcceptedOnce'
<1> USE AccountAssumption DEF AccountInv, AccountTyped, RowsTyped, CallsTyped, AccountLabels, Goto,
          accountVars, accountTables, accountCalls, accountHistory, Invites, InFlight, Ended,
          InvitationAcceptedOnce, NotYetAccepted, FreshRows, AboutUsers
<1>1. ASSUME NEW c \in AccountCalls, Fails(c) PROVE InvitationAcceptedOnce'
  BY <1>1 DEF Fails
<1>2. ASSUME NEW c \in AccountCalls, NEW u \in Users,
             NEW l \in {"create", "reset", "fail", "accept"}, Begins(c, u, l)
      PROVE  InvitationAcceptedOnce'
  BY <1>2 DEF Begins
<1>3. ASSUME NEW c \in AccountCalls, NEW u \in Users, NEW v \in Users,
             NEW t \in Tenants, ReadInvited(c, v, u, t)
      PROVE  InvitationAcceptedOnce'
  BY <1>3 DEF ReadInvited, Read
<1>4. ASSUME NEW c \in AccountCalls, NEW u \in Users, NEW t \in Tenants,
             CreateTenant(c, u, t)
      PROVE  InvitationAcceptedOnce'
  BY <1>4 DEF CreateTenant, Founded
<1>5. ASSUME NEW c \in AccountCalls, Creates(c) PROVE InvitationAcceptedOnce'
  <2>1. /\ status' = [status EXCEPT ![about[c]] = "Active"]
        /\ UNCHANGED <<invitation, newest, accepted>>
    BY <1>5 DEF Creates, CreateUser
  <2>2. QED
    BY <2>1
<1>6. ASSUME NEW c \in AccountCalls, ResetAttempts(c) PROVE InvitationAcceptedOnce'
  BY <1>6 DEF ResetAttempts, Writes, Outdate
<1>7. ASSUME NEW c \in AccountCalls, CountFailure(c) PROVE InvitationAcceptedOnce'
  BY <1>7 DEF CountFailure, Writes, Outdate
<1>8. ASSUME NEW c \in AccountCalls, CreatesInvited(c) PROVE InvitationAcceptedOnce'
  <2>1. /\ invitation' = [invitation EXCEPT ![about[c]] = c]
        /\ newest' = [newest EXCEPT ![about[c]] = c]
        /\ status' = [status EXCEPT ![about[c]] = "Invited"]
        /\ accepted' = accepted
    BY <1>8 DEF CreatesInvited, CreateInvited
  <2>2. \A u \in Users : accepted'[u] <= 1
    BY <2>1
  <2>3. ASSUME NEW u \in Users, status'[u] = "Invited"
        PROVE  invitation'[u] = newest'[u] /\ newest'[u] # NoInvitation
    <3>1. CASE u = about[c]
      BY <2>1, <3>1
    <3>2. CASE u # about[c]
      BY <2>1, <2>3, <3>2
    <3>3. QED
      BY <3>1, <3>2
  <2>4. QED
    BY <2>2, <2>3
<1>9. ASSUME NEW c \in AccountCalls, InviteAgain(c) PROVE InvitationAcceptedOnce'
  BY <1>9 DEF InviteAgain, Writes, Outdate
<1>10. ASSUME NEW c \in AccountCalls, Enrol(c) PROVE InvitationAcceptedOnce'
  BY <1>10 DEF Enrol
<1>11. ASSUME NEW c \in AccountCalls, AcceptInvite(c) PROVE InvitationAcceptedOnce'
  <2> DEFINE v == about[c]
  <2>1. /\ v \in Users
        /\ status' = [status EXCEPT ![v] = "Active"]
        /\ invitation' = [invitation EXCEPT ![v] = NoInvitation]
        /\ newest' = newest
        /\ accepted' = IF c \in stale THEN accepted ELSE [accepted EXCEPT ![v] = @ + 1]
    BY <1>11 DEF AcceptInvite
  <2>2. c \notin stale => accepted[v] = 0
    BY <1>11, <2>1 DEF AcceptInvite
  <2>4. \A u \in Users : status'[u] = "Invited" =>
                               invitation'[u] = newest'[u] /\ newest'[u] # NoInvitation
    BY <2>1
  <2>6. accepted \in [Users -> Nat] /\ \A u \in Users : accepted[u] <= 1
    OBVIOUS
  <2> HIDE DEF v, AccountInv
  <2>3. \A u \in Users : accepted'[u] <= 1
    <3> TAKE u \in Users
    <3>1. CASE u # v \/ c \in stale
      BY <2>1, <2>6, <3>1
    <3>2. CASE u = v /\ c \notin stale
      <4>1. accepted[v] \in Nat /\ accepted[v] = 0
        BY <2>1, <2>2, <2>6, <3>2
      <4>2. accepted[v] + 1 = 1
        BY <4>1, OneMore
      <4>3. accepted'[u] = 1
        BY <2>1, <2>6, <3>2, <4>2
      <4>4. QED
        BY <4>3
    <3>3. QED
      BY <3>1, <3>2
  <2>5. QED
    BY <2>3, <2>4
<1>12. ASSUME NEW u \in Users, LockRunsOut(u) PROVE InvitationAcceptedOnce'
  BY <1>12 DEF LockRunsOut
<1>13. ASSUME NEW u \in Users, InvitationExpires(u) PROVE InvitationAcceptedOnce'
  BY <1>13 DEF InvitationExpires
<1>14. ASSUME NEW u \in Users, DisableUser(u) PROVE InvitationAcceptedOnce'
  BY <1>14 DEF DisableUser
<1>15. CASE UNCHANGED AccountView
  BY <1>15 DEF AccountView
<1> HIDE DEF AccountInv, AccountTyped, RowsTyped, CallsTyped, AccountLabels, Goto, accountVars, accountTables,
           accountCalls, accountHistory, Invites, InFlight, Ended, InvitationAcceptedOnce, NotYetAccepted, FreshRows, AboutUsers
<1>16. QED
  BY <1>1, <1>2, <1>3, <1>4, <1>5, <1>6, <1>7, <1>8, <1>9, <1>10, <1>11, <1>12, <1>13, <1>14, <1>15, AccountSteps

\* A membership is granted, founded or taken on.
LEMMA MembersTypedInductive ==
  ASSUME AccountInv, [AccountNext]_AccountView
  PROVE  MembersTyped'
<1>1. ASSUME NEW t, NEW u, NEW m \in Memberships, member' = [member EXCEPT ![t][u] = m]
      PROVE  MembersTyped'
  BY <1>1 DEF AccountInv, AccountTyped, MembersTyped
<1>2. ASSUME NEW c \in AccountCalls, NEW u \in Users, NEW t \in Tenants, CreateTenant(c, u, t)
      PROVE  MembersTyped'
  <2>1. [status |-> "Active", role |-> "Owner"] \in Memberships
    BY RolesOfTemplate DEF Memberships, TenantUserStatuses
  <2>2. QED
    BY <1>1, <1>2, <2>1 DEF CreateTenant, Founded
<1>3. ASSUME NEW c \in AccountCalls, Enrol(c) PROVE MembersTyped'
  <2>1. PICK r \in RoleNames :
          member' = [member EXCEPT ![at[c]][about[c]] = [status |-> "Invited", role |-> r]]
    BY <1>3 DEF Enrol
  <2>2. [status |-> "Invited", role |-> r] \in Memberships
    BY DEF Memberships, TenantUserStatuses
  <2>3. QED
    BY <1>1, <2>1, <2>2
<1>4. CASE UNCHANGED member
  BY <1>4 DEF AccountInv, AccountTyped, MembersTyped
<1>5. QED
  BY <1>2, <1>3, <1>4, AccountSteps
     DEF Fails, Begins, ReadInvited, Creates, CreateUser, ResetAttempts, CountFailure,
         CreatesInvited, CreateInvited, InviteAgain, AcceptInvite, LockRunsOut,
         InvitationExpires, DisableUser, AccountView, accountVars, accountTables

LEMMA AccountInductive == AccountInv /\ [AccountNext]_AccountView => AccountInv'
  BY RowsTypedInductive, MembersTypedInductive, CallsTypedInductive, AboutUsersInductive,
     FreshRowsInductive, NotYetInductive, LockoutInductive, AcceptedInductive
     DEF AccountInv, AccountTyped

LEMMA AccountInvariant == AccountSpec => []AccountInv
  BY AccountInitInv, AccountInductive, PTL DEF AccountSpec, AccountView

\* Users, memberships and calls keep the columns of their tables.
THEOREM AccountTypeCorrect == AccountSpec => []AccountTypeOK
<1>1. AccountInv => AccountTypeOK
  BY DEF AccountInv, AccountTyped, RowsTyped, MembersTyped, CallsTyped, Memberships,
         AccountTypeOK
<1>2. QED
  BY AccountInvariant, <1>1, PTL

\* However logins overlap, handleFailedLogin (auth.service.ts 206-233) counts
\* wrong passwords in a row and locks on the last one allowed, but for users
\* with a failure counted from a row that was written in the meantime.
THEOREM LockoutsCountFailures == AccountSpec => []LockoutCounts
<1>1. AccountInv => LockoutCounts
  BY DEF AccountInv
<1>2. QED
  BY AccountInvariant, <1>1, PTL

\* However invitations are sent, sent again, opened and left to expire, a user
\* sets a first password once, unless two acceptances overlap, and until then
\* the row of the user holds the hash of the invitation sent last, the one that
\* acceptInvite accepts for a week (users.service.ts 95-147, auth.service.ts
\* 115-157).
THEOREM InvitationsAcceptedOnce == AccountSpec => []InvitationAcceptedOnce
<1>1. AccountInv => InvitationAcceptedOnce
  BY DEF AccountInv
<1>2. QED
  BY AccountInvariant, <1>1, PTL

(***************************************************************************)
(* The chart of accounts                                                   *)
(***************************************************************************)

ChartRows == [code : Codes, type : AccountTypes, parent : Codes \cup {NoCode}]

\* What a call is about to insert had its parent when it looked; nothing is
\* ever deleted, so it has it still.
WantedSound ==
  \A c \in ChartCalls : pc[c] = "insert" =>
    /\ wanted[c] \in ChartRows
    /\ wanted[c].parent # NoCode =>
         \E a \in accounts : a.code = wanted[c].parent /\ a.type = wanted[c].type

ChartTyped == pc \in [Calls -> {"idle", "insert", "seed", "done", "failed"}]
         /\ DOMAIN wanted = ChartCalls

\* The four parts of ChartIsForest, of any set of rows.
OneRow(A) == \A a, b \in A : a.code = b.code => a = b
ParentsThere(A) == \A a \in A : a.parent = NoCode \/ a.parent \in CodesOf(A)
Cycle(S) == S # {} /\ \A b \in S : \E a \in S : b.parent = a.code
Acyclic(A) == \A S \in SUBSET A : ~Cycle(S)
SameType(A, D) ==
  \A a, b \in A : b.parent = a.code => b.code \in D \/ a.type = b.type

Forest(A, D) == OneRow(A) /\ ParentsThere(A) /\ Acyclic(A) /\ SameType(A, D)

ChartInv == ChartTyped /\ ChartTypeOK /\ WantedSound /\ Forest(accounts, adopted)

ChartView == <<chartVars, pc, stale>>

-----------------------------------------------------------------------------
(* Growing a forest.                                                       *)

\* ChartRows with new codes can be each other's ancestors only among themselves.
LEMMA GrownAcyclic ==
  ASSUME NEW A \in SUBSET ChartRows, NEW N \in SUBSET ChartRows,
         ParentsThere(A), Acyclic(A), Acyclic(N),
         CodesOf(N) \cap CodesOf(A) = {}
  PROVE  Acyclic(A \cup N)
<1> SUFFICES ASSUME NEW S \in SUBSET (A \cup N), Cycle(S) PROVE FALSE
  BY DEF Acyclic
<1> DEFINE T == S \cap A
<1>1. ASSUME NEW b \in T PROVE \E a \in T : b.parent = a.code
  <2>1. PICK a \in S : b.parent = a.code
    BY DEF Cycle
  <2>2. a.code \in Codes /\ a.code # NoCode
    BY ChartAssumption DEF ChartRows
  <2>3. b.parent \in CodesOf(A)
    BY <2>1, <2>2 DEF ParentsThere
  <2>4. a \notin N
    BY <2>1, <2>3 DEF CodesOf
  <2>5. QED
    BY <2>1, <2>4
<1>2. T = {}
  BY <1>1 DEF Acyclic, Cycle
<1>3. S \subseteq N
  BY <1>2
<1>4. QED
  BY <1>3 DEF Acyclic

\* New rows under rows that are there, old or new, with the type they have.
LEMMA GrownForest ==
  ASSUME NEW A \in SUBSET ChartRows, NEW N \in SUBSET ChartRows, NEW D, NEW E,
         Forest(A, D), D \subseteq E,
         OneRow(N), Acyclic(N),
         CodesOf(N) \cap CodesOf(A) = {},
         \A b \in N : b.parent = NoCode \/ b.parent \in CodesOf(A \cup N),
         \A b \in N : \A a \in A \cup N : b.parent = a.code => b.code \in E \/ a.type = b.type
  PROVE  Forest(A \cup N, E)
<1> USE DEF Forest
<1>1. OneRow(A \cup N)
  BY DEF OneRow, CodesOf
<1>2. ParentsThere(A \cup N)
  BY DEF ParentsThere, CodesOf
<1>3. Acyclic(A \cup N)
  BY GrownAcyclic
<1>4. SameType(A \cup N, E)
  <2> SUFFICES ASSUME NEW a \in A \cup N, NEW b \in A \cup N, b.parent = a.code
               PROVE  b.code \in E \/ a.type = b.type
    BY DEF SameType
  <2>1. CASE b \in N
    BY <2>1
  <2>2. CASE b \in A
    <3>1. a.code # NoCode
      BY ChartAssumption DEF ChartRows
    <3>2. b.parent \in CodesOf(A)
      BY <2>2, <3>1 DEF ParentsThere
    <3>3. a \in A
      BY <3>2 DEF CodesOf
    <3>4. QED
      BY <2>2, <3>3 DEF SameType
  <2>3. QED
    BY <2>1, <2>2
<1>5. QED
  BY <1>1, <1>2, <1>3, <1>4

\* The template has a type and a parent for each of its codes.
LEMMA TemplateTyped ==
  \A k \in Template :
    /\ ByTemplate(k) \in ChartRows
    /\ ByTemplate(k).code = k
    /\ ByTemplate(k).type = TemplateType[k]
    /\ ByTemplate(k).parent = TemplateParent[k]
    /\ TemplateParent[k] \in Template \cup {NoCode}
<1> TAKE k \in Template
<1>1. k \in Codes /\ TemplateType[k] \in AccountTypes /\ TemplateParent[k] \in Template \cup {NoCode}
  BY ChartAssumption
<1>2. TemplateParent[k] \in Codes \cup {NoCode}
  BY <1>1, ChartAssumption
<1>3. QED
  BY <1>1, <1>2 DEF ByTemplate, Row, ChartRows

\* So no part of it is its own ancestor.
LEMMA TemplateAcyclic ==
  ASSUME NEW M \in SUBSET Template
  PROVE  Acyclic({ByTemplate(k) : k \in M})
<1> SUFFICES ASSUME NEW S \in SUBSET {ByTemplate(k) : k \in M}, Cycle(S) PROVE FALSE
  BY DEF Acyclic
<1> DEFINE T == {k \in M : ByTemplate(k) \in S}
<1>1. T # {}
  BY DEF Cycle
<1>2. ASSUME NEW k \in T PROVE TemplateParent[k] \in T
  <2>1. PICK a \in S : ByTemplate(k).parent = a.code
    BY DEF Cycle
  <2>2. PICK j \in M : a = ByTemplate(j)
    OBVIOUS
  <2>3. TemplateParent[k] = j
    BY <2>1, <2>2, TemplateTyped
  <2>4. QED
    BY <2>2, <2>3
<1>3. T \in SUBSET Template
  OBVIOUS
<1>4. QED
  BY <1>1, <1>2, <1>3, ChartAssumption

-----------------------------------------------------------------------------
(* The invariant.                                                          *)

LEMMA ChartInitInv == ChartInit => ChartInv
<1> SUFFICES ASSUME ChartInit PROVE ChartInv
  OBVIOUS
<1>1. ChartTyped /\ ChartTypeOK
  BY DEF ChartInit, RequestsInit, ChartTyped, ChartTypeOK
<1>2. WantedSound
  BY ChartAssumption DEF ChartInit, RequestsInit, WantedSound
<1>3. Forest(accounts, adopted)
  BY DEF ChartInit, Forest, OneRow, ParentsThere, Acyclic, Cycle, SameType
<1>4. QED
  BY <1>1, <1>2, <1>3 DEF ChartInv

\* createAccount inserts its row under the parent it has found.
LEMMA InsertForest ==
  ASSUME ChartInv, NEW c \in ChartCalls, InsertAccount(c)
  PROVE  accounts' \in SUBSET ChartRows /\ accounts \subseteq accounts' /\ Forest(accounts', adopted')
<1> USE DEF ChartInv
<1>1. accounts \in SUBSET ChartRows
  BY DEF ChartTypeOK, ChartRows
<1>2. CASE wanted[c].code \in CodesOf(accounts)
  BY <1>1, <1>2 DEF InsertAccount
<1>3. CASE wanted[c].code \notin CodesOf(accounts)
  <2> DEFINE w == wanted[c]
             N == {w}
  <2>1. w \in ChartRows /\ pc[c] = "insert" /\ accounts' = accounts \cup N /\ adopted' = adopted
    BY <1>3 DEF InsertAccount, WantedSound
  <2>2. w.parent = NoCode \/ w.parent \in CodesOf(accounts)
    BY <2>1 DEF WantedSound, CodesOf
  <2>3. OneRow(N) /\ CodesOf(N) \cap CodesOf(accounts) = {}
    BY <1>3 DEF OneRow, CodesOf
  <2>4. w.parent # w.code
    BY <1>3, <2>1, <2>2, ChartAssumption DEF ChartRows
  <2>5. Acyclic(N)
    BY <2>4 DEF Acyclic, Cycle
  <2>6. \A b \in N : b.parent = NoCode \/ b.parent \in CodesOf(accounts \cup N)
    BY <2>2 DEF CodesOf
  <2>7. ASSUME NEW a \in accounts \cup N, w.parent = a.code PROVE a.type = w.type
    <3>1. a \in accounts
      BY <2>4, <2>7
    <3>2. a.code # NoCode
      BY <3>1, <1>1, ChartAssumption DEF ChartRows
    <3>3. PICK x \in accounts : x.code = w.parent /\ x.type = w.type
      BY <2>1, <2>7, <3>2 DEF WantedSound
    <3>4. QED
      BY <2>7, <3>1, <3>3 DEF Forest, OneRow
  <2>8. Forest(accounts \cup N, adopted)
    <3> HIDE DEF w
    <3>1. N \in SUBSET ChartRows
      BY <2>1
    <3>2. \A b \in N : \A a \in accounts \cup N : b.parent = a.code => b.code \in adopted \/ a.type = b.type
      BY <2>7
    <3>3. QED
      BY <1>1, <2>3, <2>5, <2>6, <3>1, <3>2, GrownForest
  <2>9. QED
    BY <1>1, <2>1, <2>8
<1>4. QED
  BY <1>2, <1>3

\* The seeding inserts all that was missing, under rows of the template or
\* under rows it adopts for them.
LEMMA SeedForest ==
  ASSUME ChartInv, NEW c \in ChartCalls, SeedTemplate(c)
  PROVE  accounts' \in SUBSET ChartRows /\ accounts \subseteq accounts' /\ Forest(accounts', adopted')
<1> USE DEF ChartInv
<1> DEFINE M == Template \ CodesOf(there[c])
           N == {ByTemplate(k) : k \in M}
<1>1. accounts \in SUBSET ChartRows /\ there[c] \subseteq accounts
  BY DEF ChartTypeOK, ChartRows
<1>2. CASE M \cap CodesOf(accounts) # {}
  BY <1>1, <1>2 DEF SeedTemplate
<1>3. CASE M \cap CodesOf(accounts) = {}
  <2>1. /\ accounts' = accounts \cup N
        /\ adopted' = adopted \cup {k \in M : \E a \in there[c] :
                         a.code = TemplateParent[k] /\ a # ByTemplate(a.code)}
    BY <1>3 DEF SeedTemplate
  <2>2. N \in SUBSET ChartRows /\ OneRow(N)
    BY TemplateTyped DEF OneRow
  <2>3. CodesOf(N) \cap CodesOf(accounts) = {}
    <3>1. CodesOf(N) \subseteq M
      BY TemplateTyped DEF CodesOf
    <3>2. QED
      BY <1>3, <3>1
  <2>4. Acyclic(N)
    BY TemplateAcyclic
  <2>5. \A k \in M : TemplateParent[k] = NoCode \/ TemplateParent[k] \in CodesOf(accounts \cup N)
    <3> TAKE k \in M
    <3>1. CASE TemplateParent[k] \in M
      BY <3>1, TemplateTyped DEF CodesOf
    <3>2. CASE TemplateParent[k] \in CodesOf(there[c])
      BY <1>1, <3>2 DEF CodesOf
    <3>3. QED
      BY <3>1, <3>2, TemplateTyped
  <2>6. ASSUME NEW k \in M, NEW a \in accounts \cup N, TemplateParent[k] = a.code
        PROVE  k \in adopted' \/ a.type = TemplateType[k]
    <3>1. a \in ChartRows /\ a.code # NoCode
      BY <1>1, <2>2, ChartAssumption DEF ChartRows
    <3>2. TemplateParent[k] \in Template /\ TemplateType[TemplateParent[k]] = TemplateType[k]
      BY <2>6, <3>1, TemplateTyped, ChartAssumption
    <3>3. CASE a \in N
      BY <2>6, <3>2, <3>3, TemplateTyped
    <3>4. CASE a \in accounts
      <4>1. TemplateParent[k] \notin M
        BY <1>3, <2>6, <3>4 DEF CodesOf
      <4>2. PICK x \in there[c] : x.code = TemplateParent[k]
        BY <3>2, <4>1 DEF CodesOf
      <4>3. x = a
        BY <1>1, <2>6, <3>4, <4>2 DEF Forest, OneRow
      <4>4. CASE a = ByTemplate(a.code)
        BY <2>6, <3>2, <4>4, TemplateTyped
      <4>5. CASE a # ByTemplate(a.code)
        BY <2>1, <4>2, <4>3, <4>5
      <4>6. QED
        BY <4>4, <4>5
    <3>5. QED
      BY <3>3, <3>4
  <2>7. Forest(accounts \cup N, adopted')
    <3>1. \A b \in N : b.parent = NoCode \/ b.parent \in CodesOf(accounts \cup N)
      BY <2>5, TemplateTyped
    <3>2. \A b \in N : \A a \in accounts \cup N :
            b.parent = a.code => b.code \in adopted' \/ a.type = b.type
      BY <2>6, TemplateTyped
    <3>3. adopted \subseteq adopted' /\ Forest(accounts, adopted)
      BY <2>1
    <3> HIDE DEF N
    <3>4. QED
      BY <1>1, <2>2, <2>3, <2>4, <3>1, <3>2, <3>3, GrownForest
  <2>8. QED
    BY <1>1, <2>1, <2>2, <2>7
<1>4. QED
  BY <1>2, <1>3

\* Only insertions and the seeding touch the rows.
LEMMA RowsInductive ==
  ASSUME ChartInv, [ChartNext]_ChartView
  PROVE  accounts' \in SUBSET ChartRows /\ accounts \subseteq accounts' /\ Forest(accounts', adopted')
<1>1. CASE UNCHANGED <<accounts, adopted>>
  BY <1>1 DEF ChartInv, ChartTypeOK, ChartRows
<1>2. QED
  BY <1>1, InsertForest, SeedForest
     DEF ChartNext, ChartStep, CheckAccountCode, RefuseAccount, ReadChart, AbortChart, ChartView,
         chartVars, chartTables

\* What calls have read stays true of a chart that only grows.
LEMMA CallsInductive ==
  ASSUME ChartInv, [ChartNext]_ChartView
  PROVE  ChartTyped' /\ ChartTypeOK' /\ WantedSound'
<1> USE ChartAssumption DEF ChartInv, ChartTyped, Goto
<1>1. accounts' \in SUBSET ChartRows /\ accounts \subseteq accounts'
  BY RowsInductive
<1>2. ChartTyped' /\ there' \in [ChartCalls -> SUBSET accounts']
  BY <1>1 DEF ChartNext, ChartStep, CheckAccountCode, RefuseAccount, InsertAccount, ReadChart,
              SeedTemplate, AbortChart, ChartView, chartVars, chartTables, chartCalls, ChartTypeOK
<1>3. WantedSound'
  <2> SUFFICES ASSUME NEW d \in ChartCalls, pc'[d] = "insert"
               PROVE  /\ wanted'[d] \in ChartRows
                      /\ wanted'[d].parent # NoCode =>
                           \E a \in accounts' : /\ a.code = wanted'[d].parent
                                                /\ a.type = wanted'[d].type
    BY DEF WantedSound
  <2>1. ASSUME pc[d] = "insert", wanted'[d] = wanted[d]
        PROVE  /\ wanted'[d] \in ChartRows
               /\ wanted'[d].parent # NoCode =>
                    \E a \in accounts' : a.code = wanted'[d].parent /\ a.type = wanted'[d].type
    BY <1>1, <2>1 DEF WantedSound
  <2>2. ASSUME NEW k \in Codes, NEW ty \in {"Asset", "Revenue"}, NEW p \in Codes \cup {NoCode},
               CheckAccountCode(d, k, ty, p)
        PROVE  /\ wanted'[d] \in ChartRows
               /\ wanted'[d].parent # NoCode =>
                    \E a \in accounts' : a.code = wanted'[d].parent /\ a.type = wanted'[d].type
    <3>1. Row(k, ty, p) \in ChartRows /\ Row(k, ty, p).parent = p /\ Row(k, ty, p).type = ty
      BY DEF Row, ChartRows, AccountTypes
    <3>2. /\ wanted'[d] = Row(k, ty, p)
          /\ p # NoCode => \E a \in accounts : a.code = p /\ a.type = ty
      BY <2>2 DEF CheckAccountCode
    <3>3. QED
      BY <1>1, <3>1, <3>2
  <2>3. \/ pc[d] = "insert" /\ wanted'[d] = wanted[d]
        \/ \E k \in Codes, ty \in {"Asset", "Revenue"}, p \in Codes \cup {NoCode} :
             CheckAccountCode(d, k, ty, p)
    BY DEF ChartNext, ChartStep, CheckAccountCode, RefuseAccount, InsertAccount, ReadChart,
           SeedTemplate, AbortChart, ChartView, chartVars, chartTables, chartCalls
  <2>4. CASE pc[d] = "insert" /\ wanted'[d] = wanted[d]
    BY <2>1, <2>4
  <2>5. CASE \E k \in Codes, ty \in {"Asset", "Revenue"}, p \in Codes \cup {NoCode} :
               CheckAccountCode(d, k, ty, p)
    <3> PICK k \in Codes, ty \in {"Asset", "Revenue"}, p \in Codes \cup {NoCode} :
          CheckAccountCode(d, k, ty, p)
      BY <2>5
    <3> QED
      BY <2>2
  <2>6. QED
    BY <2>3, <2>4, <2>5
<1>4. QED
  BY <1>1, <1>2, <1>3 DEF ChartTypeOK, ChartRows

\* The invariant holds in every reachable state.
LEMMA ChartInductive == ChartInv /\ [ChartNext]_ChartView => ChartInv'
  BY RowsInductive, CallsInductive DEF ChartInv

LEMMA ChartInvariant == ChartSpec => []ChartInv
  BY ChartInitInv, ChartInductive, PTL DEF ChartSpec, ChartView

\* ChartRows have the columns of accounts, and what a call has read stays there.
THEOREM ChartTypeCorrect == ChartSpec => []ChartTypeOK
<1>1. ChartInv => ChartTypeOK
  BY DEF ChartInv
<1>2. QED
  BY ChartInvariant, <1>1, PTL

\* createAccount and seedSmeTemplate (chart-of-accounts.service.ts 16-50 and
\* 119-193) keep the chart a forest that getAccountTree can show, for any codes
\* and template and however calls overlap or fail.
THEOREM ChartStaysForest == ChartSpec => []ChartIsForest
<1>1. ChartInv => ChartIsForest
  <2> SUFFICES ASSUME ChartInv PROVE ChartIsForest
    OBVIOUS
  <2> USE DEF ChartInv, Forest
  <2>1. \A a, b \in accounts : a.code = b.code => a = b
    BY DEF OneRow
  <2>2. \A a \in RootRows : a.parent = NoCode
    BY DEF RootRows, ParentsThere
  <2>3. ~\E S \in SUBSET accounts : S # {} /\ \A b \in S : \E a \in S : b \in ChildRows(a)
    BY DEF Acyclic, Cycle, ChildRows
  <2>4. \A a \in accounts : \A b \in ChildRows(a) : b.code \in adopted \/ a.type = b.type
    BY DEF SameType, ChildRows
  <2>5. QED
    BY <2>1, <2>2, <2>3, <2>4 DEF ChartIsForest
<1>2. QED
  BY ChartInvariant, <1>1, PTL

(***************************************************************************)
(* Pages                                                                   *)
(***************************************************************************)

WebTyped ==
  /\ watched \in Keys /\ page \in Pages /\ visits \in 0..MaxVisits
  /\ fetch \in {"none", "asked", "answered"}
  /\ filled \in BOOLEAN /\ old \in BOOLEAN /\ missed \in BOOLEAN
  /\ filled \/ old
  /\ pc \in [Calls -> {"idle", "serve", "succeed", "done", "failed"}]
  /\ DOMAIN doing = WebCalls

\* How far the calls of this browser, and those of the others, have come.
CallsWritten ==
  /\ sent \subseteq WebCalls /\ written \subseteq WebCalls
  /\ \A c \in sent : pc[c] # "idle" /\ (pc[c] \in {"succeed", "done"} => c \in written)
  /\ \A c \in written : pc[c] \in {"succeed", "done"}

\* What comes back is never older than what is there.
AnswersGrow ==
  /\ shown \subseteq Relevant(written) /\ answer \subseteq Relevant(written)
  /\ fetch = "answered" => shown \subseteq answer

Refreshed(c) ==
  pc[c] = "done" /\ watched \in doing[c].refreshes /\ Touches(doing[c], watched)

\* Work that is not shown is being asked for, or it will be by the next page
\* that shows the entry.
OnItsWay(c) ==
  \/ c \in shown
  \/ fetch = "asked"
  \/ fetch = "answered" /\ c \in answer
  \/ old /\ fetch = "none" /\ ~Visible

WorkOnItsWay == missed \/ \A c \in sent : Refreshed(c) => OnItsWay(c)

WebInv == WebTyped /\ CallsWritten /\ AnswersGrow /\ WorkOnItsWay

WebView == <<webVars, pc, stale>>

LEMMA WebInitInv == WebInit => WebInv
<1> SUFFICES ASSUME WebInit PROVE WebInv
  OBVIOUS
<1> USE DEF WebInit, RequestsInit
<1>1. WebTyped
  <2>1. page \in Pages /\ watched \in page.shows
    OBVIOUS
  <2>2. watched \in Keys
    BY <2>1 DEF Keys
  <2>3. pc \in [Calls -> {"idle", "serve", "succeed", "done", "failed"}]
    OBVIOUS
  <2>4. visits \in 0..MaxVisits
    BY WebAssumption
  <2>5. QED
    BY <2>1, <2>2, <2>3, <2>4 DEF WebTyped
<1>2. CallsWritten /\ AnswersGrow /\ WorkOnItsWay
  BY DEF CallsWritten, AnswersGrow, WorkOnItsWay
<1>3. QED
  BY <1>1, <1>2 DEF WebInv

LEMMA WebTypedInductive ==
  ASSUME WebInv, [WebNext]_WebView
  PROVE  WebTyped'
<1> USE WebAssumption DEF WebInv, WebTyped, Goto, Ask, AskIf, Invalidate
<1>1. ASSUME NEW p \in PagesAbout[watched], OpenPage(p) PROVE WebTyped'
  <2>1. p \in Pages
    BY DEF PagesAbout, Pages
  <2>2. visits' \in 0..MaxVisits /\ page' = p
    BY <1>1 DEF OpenPage
  <2>3. /\ \/ fetch' = "asked" /\ missed' = FALSE
           \/ UNCHANGED <<fetch, missed>>
        /\ UNCHANGED <<watched, doing, filled, old, pc>>
    BY <1>1 DEF OpenPage
  <2>4. QED
    BY <2>1, <2>2, <2>3
<1>2. CASE AnswerFetch \/ ShowAnswer \/ FetchFails \/ EntryAges \/ PollApprovals
  BY <1>2 DEF AnswerFetch, ShowAnswer, FetchFails, EntryAges, PollApprovals
<1>3. ASSUME NEW c \in WebCalls, NEW op, Mutate(c, op) PROVE WebTyped'
  BY <1>3 DEF Mutate, entry
<1>4. ASSUME NEW c \in WebCalls, OthersWrite(c) \/ Serve(c) \/ Succeed(c) PROVE WebTyped'
  BY <1>4 DEF OthersWrite, Serve, Succeed, entry
<1>5. CASE UNCHANGED WebView
  BY <1>5 DEF WebView, webVars, entry
<1>6. QED
  BY <1>1, <1>2, <1>3, <1>4, <1>5 DEF WebNext, WebStep

LEMMA CallsWrittenInductive ==
  ASSUME WebInv, [WebNext]_WebView
  PROVE  CallsWritten'
<1> USE WebAssumption DEF WebInv, WebTyped, CallsWritten, Goto
<1>1. CASE UNCHANGED <<sent, written, pc>>
  BY <1>1
<1>2. ASSUME NEW c \in WebCalls, NEW op, Mutate(c, op) PROVE CallsWritten'
  BY <1>2 DEF Mutate
<1>3. ASSUME NEW c \in WebCalls, OthersWrite(c) PROVE CallsWritten'
  BY <1>3 DEF OthersWrite
<1>4. ASSUME NEW c \in WebCalls, Serve(c) \/ Succeed(c) PROVE CallsWritten'
  BY <1>4 DEF Serve, Succeed
<1>5. QED
  BY <1>1, <1>2, <1>3, <1>4
     DEF WebNext, WebStep, OpenPage, AnswerFetch, ShowAnswer, FetchFails, EntryAges,
         PollApprovals, WebView, webVars

\* A call keeps its operation once it has one; what is written stays.
LEMMA RelevantGrows ==
  ASSUME WebInv, [WebNext]_WebView
  PROVE  /\ watched' = watched
         /\ written \subseteq written'
         /\ \A c \in WebCalls : pc[c] # "idle" => doing'[c] = doing[c]
         /\ Relevant(written) \subseteq Relevant(written)'
<1> USE WebAssumption DEF WebInv, WebTyped
<1>1. /\ watched' = watched
      /\ written \subseteq written'
      /\ \A c \in WebCalls : pc[c] # "idle" => doing'[c] = doing[c]
  <2>1. CASE UNCHANGED <<watched, written, doing>>
    BY <2>1
  <2>2. ASSUME NEW c \in WebCalls, NEW op, Mutate(c, op)
        PROVE  /\ watched' = watched
               /\ written \subseteq written'
               /\ \A d \in WebCalls : pc[d] # "idle" => doing'[d] = doing[d]
    BY <2>2 DEF Mutate
  <2>3. ASSUME NEW c \in WebCalls, OthersWrite(c)
        PROVE  /\ watched' = watched
               /\ written \subseteq written'
               /\ \A d \in WebCalls : pc[d] # "idle" => doing'[d] = doing[d]
    BY <2>3 DEF OthersWrite
  <2>4. ASSUME NEW c \in WebCalls, Serve(c) \/ Succeed(c)
        PROVE  watched' = watched /\ written \subseteq written' /\ doing' = doing
    BY <2>4 DEF Serve, Succeed
  <2>5. QED
    BY <2>1, <2>2, <2>3, <2>4
       DEF WebNext, WebStep, OpenPage, AnswerFetch, ShowAnswer, FetchFails, EntryAges,
           PollApprovals, WebView, webVars
<1>2. Relevant(written) \subseteq Relevant(written)'
  <2> SUFFICES ASSUME NEW c \in Relevant(written) PROVE c \in Relevant(written)'
    OBVIOUS
  <2>1. c \in written /\ c \in WebCalls /\ pc[c] # "idle" /\ Touches(doing[c], watched)
    BY DEF Relevant, CallsWritten
  <2>2. doing'[c] = doing[c] /\ watched' = watched /\ c \in written'
    BY <1>1, <2>1
  <2>3. Touches(doing[c], watched)'
    BY <2>1, <2>2 DEF Touches
  <2>4. QED
    BY <2>2, <2>3 DEF Relevant
<1>3. QED
  BY <1>1, <1>2

LEMMA AnswersGrowInductive ==
  ASSUME WebInv, [WebNext]_WebView
  PROVE  AnswersGrow'
<1> USE DEF WebInv, WebTyped, AnswersGrow, Ask, AskIf, Invalidate
<1>1. Relevant(written) \subseteq Relevant(written)'
  BY RelevantGrows
<1>2. CASE /\ shown' \subseteq shown
           /\ \/ fetch' = "asked" /\ answer' = {}
              \/ UNCHANGED <<fetch, answer>>
  BY <1>1, <1>2
<1>3. CASE AnswerFetch
  <2>1. answer' = Relevant(written) /\ shown' = shown
    BY <1>3 DEF AnswerFetch
  <2>2. QED
    BY <1>1, <2>1
<1>4. CASE ShowAnswer \/ FetchFails
  <2>1. shown' \subseteq answer \cup shown /\ answer' = {} /\ fetch' = "none"
    BY <1>4 DEF ShowAnswer, FetchFails
  <2>2. QED
    BY <1>1, <2>1
<1>5. QED
  BY <1>2, <1>3, <1>4
     DEF WebNext, WebStep, OpenPage, EntryAges, PollApprovals, Mutate, OthersWrite, Serve,
         Succeed, WebView, webVars, entry

\* A question that is asked now will be answered with all work so far.
LEMMA AskingBrings ==
  ASSUME NEW c, Ask
  PROVE  OnItsWay(c)'
  BY DEF Ask, OnItsWay

\* Only a question asked anew makes good for what was missed.
LEMMA MadeGood ==
  ASSUME WebInv, [WebNext]_WebView, missed, ~missed'
  PROVE  Ask
  BY DEF WebInv, WebTyped, WebNext, WebStep, OpenPage, AnswerFetch, ShowAnswer, FetchFails,
         EntryAges, PollApprovals, Mutate, OthersWrite, Serve, Succeed, Invalidate, AskIf,
         WebView, webVars, entry

\* What has been refreshed before the step stays on its way.
LEMMA StaysOnItsWay ==
  ASSUME WebInv, [WebNext]_WebView, ~missed', NEW c \in sent, Refreshed(c), OnItsWay(c)
  PROVE  OnItsWay(c)'
<1> USE DEF WebInv, WebTyped, OnItsWay, Visible, AskIf
<1>1. ASSUME NEW p, OpenPage(p) PROVE OnItsWay(c)'
  BY <1>1, AskingBrings DEF OpenPage
<1>2. CASE AnswerFetch
  <2>1. c \in Relevant(written)
    BY DEF CallsWritten, Refreshed, Relevant
  <2>2. QED
    BY <1>2, <2>1 DEF AnswerFetch
<1>3. CASE ShowAnswer
  BY <1>3 DEF ShowAnswer, AnswersGrow
<1>4. CASE FetchFails
  BY <1>4 DEF FetchFails
<1>5. CASE EntryAges \/ PollApprovals
  BY <1>5, AskingBrings DEF EntryAges, PollApprovals
<1>6. ASSUME NEW d \in WebCalls, Succeed(d) PROVE OnItsWay(c)'
  <2>1. CASE Ask
    BY <2>1, AskingBrings
  <2>2. CASE ~Ask
    <3>1. UNCHANGED <<watched, page, shown, fetch, answer>> /\ (old => old')
      BY <1>6, <2>2 DEF Succeed, Invalidate
    <3>2. QED
      BY <3>1
  <2>3. QED
    BY <2>1, <2>2
<1>7. CASE UNCHANGED <<watched, page, entry>>
  BY <1>7 DEF entry
<1>8. QED
  BY <1>1, <1>2, <1>3, <1>4, <1>5, <1>6, <1>7
     DEF WebNext, WebStep, Mutate, OthersWrite, Serve, WebView, webVars

\* What a call that has just succeeded refreshes is asked for, unless it is
\* shown already, out of sight, or in the answer that is kept.
LEMMA NewlyOnItsWay ==
  ASSUME WebInv, ~missed', NEW c \in sent, Succeed(c), Refreshed(c)'
  PROVE  OnItsWay(c)'
<1> USE DEF WebInv, WebTyped
<1>1. c \in WebCalls /\ doing' = doing /\ watched' = watched /\ page' = page
  BY DEF Succeed, CallsWritten
<1>2. watched \in doing[c].refreshes /\ Touches(doing[c], watched)
  BY <1>1 DEF Refreshed, Touches
<1>3. old' /\ Invalidate(c, Asks)
  BY <1>2 DEF Succeed
<1>4. CASE Ask
  BY <1>4, AskingBrings
<1>5. CASE ~Ask
  <2>1. /\ ~Asks /\ ~Overtaken(c)
        /\ UNCHANGED <<fetch, answer>>
    BY <1>3, <1>5 DEF Invalidate
  <2>2. CASE fetch = "none"
    <3>1. ~Visible
      BY <2>1, <2>2 DEF Asks
    <3>2. QED
      BY <1>1, <1>3, <2>1, <2>2, <3>1 DEF OnItsWay, Visible
  <2>3. CASE fetch = "asked"
    BY <2>1, <2>3 DEF OnItsWay
  <2>4. CASE fetch = "answered"
    <3>1. Relevant({c}) \subseteq answer
      BY <2>1, <2>4 DEF Overtaken
    <3>2. c \in answer
      BY <1>2, <3>1 DEF Relevant
    <3>3. QED
      BY <2>1, <2>4, <3>2 DEF OnItsWay
  <2>5. QED
    BY <2>2, <2>3, <2>4
<1>6. QED
  BY <1>4, <1>5

LEMMA WorkOnItsWayInductive ==
  ASSUME WebInv, [WebNext]_WebView
  PROVE  WorkOnItsWay'
<1> USE DEF WebInv, WebTyped
<1> SUFFICES ASSUME ~missed', NEW c \in sent', Refreshed(c)' PROVE OnItsWay(c)'
  BY DEF WorkOnItsWay
<1>1. CASE missed
  BY <1>1, MadeGood, AskingBrings
<1>2. CASE ~missed /\ c \in sent /\ pc[c] = "done"
  <2>1. c \in WebCalls /\ doing'[c] = doing[c] /\ watched' = watched
    BY <1>2, RelevantGrows DEF CallsWritten
  <2>2. Refreshed(c)
    BY <1>2, <2>1 DEF Refreshed, Touches
  <2>3. QED
    BY <1>2, <2>2, StaysOnItsWay DEF WorkOnItsWay
<1>3. CASE c \in sent /\ Succeed(c)
  BY <1>3, NewlyOnItsWay
<1>4. (c \in sent /\ pc[c] = "done") \/ (c \in sent /\ Succeed(c))
  <2>1. pc'[c] = "done"
    BY DEF Refreshed
  <2>2. ASSUME NEW d \in WebCalls, NEW op, Mutate(d, op) PROVE c \in sent /\ pc[c] = "done"
    BY <2>1, <2>2, WebAssumption DEF Mutate, Goto, CallsWritten
  <2>3. ASSUME NEW d \in WebCalls, OthersWrite(d) PROVE c \in sent /\ pc[c] = "done"
    BY <2>1, <2>3, WebAssumption DEF OthersWrite, Goto, CallsWritten
  <2>4. ASSUME NEW d \in WebCalls, Serve(d) PROVE c \in sent /\ pc[c] = "done"
    BY <2>1, <2>4, WebAssumption DEF Serve, Goto, CallsWritten
  <2>5. ASSUME NEW d \in WebCalls, Succeed(d)
        PROVE  c \in sent /\ (pc[c] = "done" \/ Succeed(c))
    BY <2>1, <2>5, WebAssumption DEF Succeed, Goto, CallsWritten
  <2>6. CASE UNCHANGED <<sent, pc>>
    BY <2>1, <2>6
  <2>7. QED
    BY <2>2, <2>3, <2>4, <2>5, <2>6
       DEF WebNext, WebStep, OpenPage, AnswerFetch, ShowAnswer, FetchFails, EntryAges,
           PollApprovals, WebView, webVars
<1>5. QED
  BY <1>1, <1>2, <1>3, <1>4

LEMMA WebInductive == WebInv /\ [WebNext]_WebView => WebInv'
  BY WebTypedInductive, CallsWrittenInductive, AnswersGrowInductive, WorkOnItsWayInductive
     DEF WebInv

LEMMA WebInvariant == WebSpec => []WebInv
  BY WebInitInv, WebInductive, PTL DEF WebSpec, WebView

\* The entry, its fetch and the calls have the values the cache gives them, and
\* only work that was written is shown.
THEOREM WebTypeCorrect == WebSpec => []WebTypeOK
<1>1. WebInv => WebTypeOK
  BY DEF WebInv, WebTyped, WebTypeOK, CallsWritten, AnswersGrow, Relevant
<1>2. QED
  BY WebInvariant, <1>1, PTL

\* Whatever pages are opened and in whatever order answers come, an operation
\* that has succeeded and refreshes an entry is seen in it, unless the last fetch
\* failed or was read before the work and kept by the cache: for a page that was
\* left, or because the entry had no data yet (invalidateQueries in the pages of
\* apps/web/src/app/dashboard).
THEOREM WorkIsShown == WebSpec => []OwnWorkShown
<1>1. WebInv => OwnWorkShown
  BY DEF WebInv, WorkOnItsWay, OwnWorkShown, Refreshed, OnItsWay, Visible
<1>2. QED
  BY WebInvariant, <1>1, PTL

(***************************************************************************)
(* One part at work                                                        *)
(***************************************************************************)

LEMMA SessionPart ==
  AccessSpec => \/ [](atWork = "sessions") /\ SessionSpec
                \/ []~(atWork = "sessions")
<1>1. AccessInit => SessionInit
  BY DEF AccessInit
<1>2. atWork = "sessions" /\ [AccessNext]_parts => [SessionNext]_SessionView
  BY DEF AccessNext, parts, SessionView
<1>3. [AccessNext]_parts => (atWork = "sessions" <=> (atWork = "sessions")')
  BY DEF AccessNext, parts
<1>4. QED
  BY <1>1, <1>2, <1>3, PTL DEF AccessSpec, SessionSpec, SessionView

LEMMA AccountPart ==
  AccessSpec => \/ [](atWork = "accounts") /\ AccountSpec
                \/ []~(atWork = "accounts")
<1>1. AccessInit => AccountInit
  BY DEF AccessInit
<1>2. atWork = "accounts" /\ [AccessNext]_parts => [AccountNext]_AccountView
  BY DEF AccessNext, parts, AccountView
<1>3. [AccessNext]_parts => (atWork = "accounts" <=> (atWork = "accounts")')
  BY DEF AccessNext, parts
<1>4. QED
  BY <1>1, <1>2, <1>3, PTL DEF AccessSpec, AccountSpec, AccountView

LEMMA ChartPart ==
  AccessSpec => \/ [](atWork = "chart") /\ ChartSpec
                \/ []~(atWork = "chart")
<1>1. AccessInit => ChartInit
  BY DEF AccessInit
<1>2. atWork = "chart" /\ [AccessNext]_parts => [ChartNext]_ChartView
  BY DEF AccessNext, parts, ChartView
<1>3. [AccessNext]_parts => (atWork = "chart" <=> (atWork = "chart")')
  BY DEF AccessNext, parts
<1>4. QED
  BY <1>1, <1>2, <1>3, PTL DEF AccessSpec, ChartSpec, ChartView

LEMMA WebPart ==
  AccessSpec => \/ [](atWork = "web") /\ WebSpec
                \/ []~(atWork = "web")
<1>1. AccessInit => WebInit
  BY DEF AccessInit
<1>2. atWork = "web" /\ [AccessNext]_parts => [WebNext]_WebView
  BY DEF AccessNext, parts, WebView
<1>3. [AccessNext]_parts => (atWork = "web" <=> (atWork = "web")')
  BY DEF AccessNext, parts
<1>4. QED
  BY <1>1, <1>2, <1>3, PTL DEF AccessSpec, WebSpec, WebView

\* The instance is the union of its parts: whatever it does, one of the
\* components alone does it, so what is proved of each of the four holds in it.
THEOREM OneAccessPart ==
  AccessSpec => \/ [](atWork = "sessions") /\ SessionSpec
                \/ [](atWork = "accounts") /\ AccountSpec
                \/ [](atWork = "chart") /\ ChartSpec
                \/ [](atWork = "web") /\ WebSpec
<1>1. AccessInit => atWork = "sessions" \/ atWork = "accounts" \/ atWork = "chart" \/ atWork = "web"
  BY DEF AccessInit
<1>2. QED
  BY <1>1, SessionPart, AccountPart, ChartPart, WebPart, PTL DEF AccessSpec

\* The part at work keeps its types.
THEOREM AccessPartsTypeCorrect == AccessSpec => []TypeOK
<1>1. TypeOK <=> /\ (atWork = "sessions" => SessionTypeOK)
                /\ (atWork = "accounts" => AccountTypeOK)
                /\ (atWork = "chart" => ChartTypeOK)
                /\ (atWork = "web" => WebTypeOK)
  BY DEF TypeOK
<1>2. QED
  BY <1>1, SessionPart, AccountPart, ChartPart, WebPart,
     SessionTypeCorrect, AccountTypeCorrect, ChartTypeCorrect, WebTypeCorrect, PTL
=============================================================================
